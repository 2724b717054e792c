-------------------------- MODULE EnrollmentProofs --------------------------
(***************************************************************************)
(* What holds of Enrollment for any number of tokens, of enrollments and   *)
(* of removal requests.                                                    *)
(***************************************************************************)
EXTENDS Enrollment, TLAPS

(* Nothing has overlapped yet that is no normal use together.              *)
Apart ==
  ~raced => /\ \A a, b \in Enrolling : a = b
            /\ ~(Enrolling # {} /\ Deleting)
            /\ ~(waiting # NoAttempt /\ loop # NoAttempt)

(* The run loop goes by what the file says.                                *)
LoopAgrees ==
  ~raced /\ loop # NoAttempt => loop = creds /\ letGo = released

(* The server works on no enrollment but the awaited one, unless an answer *)
(* has been missed since the last success.                                 *)
OneAtATime ==
  ~raced /\ (~gaveUp \/ waiting # NoAttempt) => Enrolling \subseteq {waiting}

(* A deletion decided on is of what the agent has let go, or of a machine  *)
(* that still has no credential.                                           *)
DeletesRightly ==
  ~raced => /\ acking => waiting = NoAttempt /\ released
            /\ (\E o \in Operator : request[o] = "unusable") => secret = NoAttempt

(* A credential that works, or that an operator has revoked.               *)
Current(c) == c \in lapsed \/ (Exists /\ secret = c)

Granted == waiting # NoAttempt /\ attempt[waiting].step = "granted"

(* So is the granted credential when its answer comes, and until another   *)
(* is granted the one in the file.                                         *)
KeepsCurrent ==
  /\ ~raced /\ Granted => Current(waiting)
  /\ ~raced /\ ~Granted /\ ~gaveUp /\ creds # NoAttempt /\ ~released =>
       Current(creds)

Inv ==
  /\ TypeOK /\ Apart /\ LoopAgrees
  /\ OneAtATime /\ DeletesRightly /\ KeepsCurrent

-----------------------------------------------------------------------------
(* The first state.                                                        *)
LEMMA InitInv == Init => Inv
PROOF
<1> SUFFICES ASSUME Init PROVE Inv
  OBVIOUS
<1>1. TypeOK
  BY DEF Init, TypeOK
<1>2. \A a \in Attempt : attempt[a].step = "idle"
  BY DEF Init, Idle
<1>3. Enrolling = {} /\ ~Granted
  BY <1>2 DEF Init, Enrolling, Granted
<1>4. Apart /\ LoopAgrees /\ OneAtATime /\ DeletesRightly /\ KeepsCurrent
  BY <1>3 DEF Init, Apart, LoopAgrees, OneAtATime, DeletesRightly, KeepsCurrent
<1> QED BY <1>1, <1>4 DEF Inv

(* A handler of enroll that goes on stays with its token.                  *)
LEMMA Progress ==
  ASSUME TypeOK, NEW a \in Attempt,
         NEW from \in {"posted", "valid"}, NEW to \in {"valid", "refused", "granted"},
         AttemptStep(a, from, to)
  PROVE  /\ attempt[a].step = from /\ attempt'[a].step = to
         /\ attempt[a].token \in Token
         /\ \A b \in Attempt : b # a => attempt'[b] = attempt[b]
         /\ attempt' \in [Attempt -> {Idle} \cup
                [step : {"posted", "valid", "refused", "granted"}, token : Token]]
PROOF
<1>1. attempt[a] \in [step : {"posted", "valid", "refused", "granted"}, token : Token]
  BY DEF TypeOK, Idle, AttemptStep
<1> QED BY <1>1 DEF TypeOK, AttemptStep

(* So does one that starts.                                                *)
LEMMA Posted ==
  ASSUME TypeOK, NEW a \in Attempt, NEW t \in Token, Post(a, t)
  PROVE  /\ waiting = NoAttempt /\ waiting' = a
         /\ attempt'[a].step = "posted"
         /\ \A b \in Attempt : b # a => attempt'[b] = attempt[b]
         /\ attempt' \in [Attempt -> {Idle} \cup
                [step : {"posted", "valid", "refused", "granted"}, token : Token]]
BY DEF TypeOK, Post

(* What ReadToken and Redeem come to.                                      *)
LEMMA TokenRead ==
  ASSUME TypeOK, NEW a \in Attempt, ReadToken(a)
  PROVE  /\ attempt[a].step = "posted" /\ attempt'[a].step \in {"valid", "refused"}
         /\ \A b \in Attempt : b # a => attempt'[b] = attempt[b]
         /\ attempt' \in [Attempt -> {Idle} \cup
                [step : {"posted", "valid", "refused", "granted"}, token : Token]]
PROOF
<1> DEFINE to == IF Exists /\ token[attempt[a].token] = "fresh" THEN "valid"
                                                               ELSE "refused"
<1>1. to \in {"valid", "refused"} /\ AttemptStep(a, "posted", to)
  BY DEF ReadToken
<1> HIDE DEF to
<1> QED BY <1>1, Progress

(* A redemption grants a secret, or is refused once the machine is gone.   *)
LEMMA Redeemed ==
  ASSUME TypeOK, NEW a \in Attempt, Redeem(a)
  PROVE  /\ attempt[a].step = "valid"
         /\ \A b \in Attempt : b # a => attempt'[b] = attempt[b]
         /\ attempt' \in [Attempt -> {Idle} \cup
                [step : {"posted", "valid", "refused", "granted"}, token : Token]]
         /\ token' \in [Token -> {"none", "issuing", "fresh", "expired", "used"}]
         /\ \/ /\ Exists /\ attempt'[a].step = "granted"
               /\ secret' = a /\ revoked' = FALSE
            \/ /\ ~Exists /\ attempt'[a].step = "refused"
               /\ UNCHANGED <<token, secret, revoked>>
PROOF
<1>1. CASE /\ Exists /\ AttemptStep(a, "valid", "granted")
           /\ token' = [token EXCEPT ![attempt[a].token] = "used"]
           /\ secret' = a /\ revoked' = FALSE
  BY <1>1, Progress DEF TypeOK
<1>2. CASE /\ ~Exists /\ AttemptStep(a, "valid", "refused")
           /\ UNCHANGED <<token, secret, revoked>>
  BY <1>2, Progress DEF TypeOK
<1> QED BY <1>1, <1>2 DEF Redeem

(* Every step looks for an overlap.                                        *)
LEMMA Watched ==
  ASSUME TypeOK, Raced
  PROVE  /\ raced' \in BOOLEAN
         /\ (raced => raced')
         /\ ~raced' => /\ \A a, b \in Enrolling' : a = b
                       /\ ~(Enrolling' # {} /\ Deleting')
                       /\ ~(waiting' # NoAttempt /\ loop' # NoAttempt)
PROOF
<1> DEFINE P == \/ raced
                \/ \E a, b \in Enrolling' : a # b
                \/ Enrolling' # {} /\ Deleting'
                \/ waiting' # NoAttempt /\ loop' # NoAttempt
<1>1. raced' = P
  BY Zenon DEF Raced, Overlap
<1>2. P \in BOOLEAN
  OBVIOUS
<1>3. raced' <=> P
  <2> HIDE DEF P
  <2> QED BY <1>1, <1>2
<1>4. raced' \in BOOLEAN
  BY <1>1, <1>2
<1> QED BY <1>3, <1>4

(* Every step of Next does.                                                *)
LEMMA NextRaced == Next => Raced
BY DEF Next, EnrollStep, TokenStep, RemoveStep, LoopStep, Post, ReadToken, Redeem,
       Answer, BeginIssue, Issue, ExpireToken, ReadMachine, HardDelete, MarkPending,
       GiveUp, Revoke, Finalize, Start, Save, Stop, Connect, Disconnect, LetGo,
       Acknowledge

(* Hence Apart holds by the definition of raced.                           *)
LEMMA ApartStep == TypeOK /\ Apart /\ [Next]_vars => Apart'
PROOF
<1> SUFFICES ASSUME TypeOK, Apart, [Next]_vars PROVE Apart'
  OBVIOUS
<1>1. CASE Next
  BY <1>1, NextRaced, Watched DEF Apart
<1>2. CASE UNCHANGED vars
  BY <1>2 DEF Apart, Enrolling, Deleting, vars, handlers, computer, agent
<1> QED BY <1>1, <1>2

-----------------------------------------------------------------------------
(* Types.                                                                  *)
LEMMA TypeStep == TypeOK /\ [Next]_vars => TypeOK'
PROOF
<1> SUFFICES ASSUME TypeOK, [Next]_vars PROVE TypeOK'
  OBVIOUS
<1> USE DEF server, handlers, computer, agent
<1>1. CASE UNCHANGED vars
  BY <1>1 DEF TypeOK, vars
<1> SUFFICES ASSUME Next PROVE TypeOK'
  BY <1>1
<1>r. raced' \in BOOLEAN
  BY NextRaced, Watched
<1>2. ASSUME NEW a \in Attempt, NEW t \in Token, Post(a, t) PROVE TypeOK'
  <2>1. UNCHANGED <<row, secret, revoked, token, request, acking, creds, released,
                    gaveUp, agent, lapsed>>
    BY <1>2 DEF Post
  <2> QED BY <1>r, <1>2, <2>1, Posted DEF TypeOK
<1>3. ASSUME NEW a \in Attempt, ReadToken(a) PROVE TypeOK'
  <2>1. UNCHANGED <<row, secret, revoked, token, request, acking, creds, released,
                    waiting, gaveUp, agent, lapsed>>
    BY <1>3 DEF ReadToken
  <2> QED BY <1>r, <1>3, <2>1, TokenRead DEF TypeOK
<1>4. ASSUME NEW a \in Attempt, Redeem(a) PROVE TypeOK'
  <2>1. UNCHANGED <<row, request, acking, creds, released, waiting, gaveUp, agent,
                    lapsed>>
    BY <1>4 DEF Redeem
  <2>2. /\ secret' \in Attempt \cup {NoAttempt} /\ revoked' \in BOOLEAN
        /\ revoked' => secret' = NoAttempt
    BY <1>4, Redeemed DEF TypeOK
  <2> QED BY <1>r, <1>4, <2>1, <2>2, Redeemed DEF TypeOK
<1>5. ASSUME NEW a \in Attempt, Answer(a) PROVE TypeOK'
  BY <1>r, <1>5 DEF Answer, TypeOK
<1>6. ASSUME NEW t \in Token, BeginIssue(t) \/ Issue(t) \/ ExpireToken(t)
      PROVE  TypeOK'
  BY <1>r, <1>6 DEF BeginIssue, Issue, ExpireToken, TypeOK
<1>7. ASSUME NEW o \in Operator, ReadMachine(o) \/ HardDelete(o) \/ MarkPending(o)
      PROVE  TypeOK'
  <2>1. CASE ReadMachine(o) \/ MarkPending(o)
    BY <1>r, <2>1 DEF ReadMachine, MarkPending, RequestStep, TypeOK
  <2>2. CASE HardDelete(o)
    <3>1. /\ connected' \in {FALSE, connected}
          /\ row' = "removed" /\ request' = [request EXCEPT ![o] = "done"]
          /\ UNCHANGED <<secret, revoked, token, attempt, acking, creds, released,
                         waiting, gaveUp, loop, letGo, lapsed>>
      BY <2>2 DEF HardDelete, RequestStep
    <3>2. connected' \in BOOLEAN /\ (connected' \/ letGo' => loop' # NoAttempt)
      <4>1. CASE connected' = FALSE
        BY <3>1, <4>1 DEF TypeOK
      <4>2. CASE connected' = connected
        BY <3>1, <4>2 DEF TypeOK
      <4> QED BY <3>1, <4>1, <4>2
    <3>3. request' \in [Operator -> {"idle", "unusable", "managed", "done"}]
      BY <3>1 DEF TypeOK
    <3> QED BY <1>r, <3>1, <3>2, <3>3 DEF TypeOK
  <2> QED BY <1>7, <2>1, <2>2
<1>8. ASSUME GiveUp PROVE TypeOK'
  BY <1>r, <1>8 DEF GiveUp, TypeOK
<1>9. ASSUME Revoke PROVE TypeOK'
  BY <1>r, <1>9 DEF Revoke, TypeOK
<1>10. ASSUME Finalize PROVE TypeOK'
  BY <1>r, <1>10 DEF Finalize, TypeOK
<1>11. ASSUME LoopStep PROVE TypeOK'
  <2>1. CASE Start
    BY <1>r, <2>1 DEF Start, TypeOK
  <2>2. CASE Acknowledge
    BY <1>r, <2>2 DEF Acknowledge, TypeOK
  <2>6. CASE Connect \/ Disconnect
    <3>1. /\ connected' \in BOOLEAN /\ loop # NoAttempt
          /\ UNCHANGED <<server, handlers, creds, released, waiting, gaveUp, loop,
                         letGo, lapsed>>
      BY <2>6 DEF Connect, Disconnect, TypeOK
    <3> QED BY <1>r, <3>1 DEF TypeOK
  <2>3. CASE Save
    BY <1>r, <2>3 DEF Save, Saved, TypeOK
  <2>4. CASE Stop
    BY <1>r, <2>4 DEF Stop, TypeOK
  <2>5. CASE LetGo
    BY <1>r, <2>5 DEF LetGo, Saved, TypeOK
  <2> QED BY <1>11, <2>1, <2>2, <2>3, <2>4, <2>5, <2>6 DEF LoopStep
<1> QED
  BY <1>2, <1>3, <1>4, <1>5, <1>6, <1>7, <1>8, <1>9, <1>10, <1>11
     DEF Next, EnrollStep, TokenStep, RemoveStep, LoopStep

-----------------------------------------------------------------------------
(* Every step keeps every part of the invariant.                           *)

(* Only an enroll command changes the file under a run loop, and a step    *)
(* that brings the two together is noticed.                                *)
LEMMA LoopAgreesStep ==
  TypeOK /\ Apart /\ LoopAgrees /\ [Next]_vars => LoopAgrees'
PROOF
<1> SUFFICES ASSUME TypeOK, Apart, LoopAgrees, [Next]_vars PROVE LoopAgrees'
  OBVIOUS
<1> USE DEF LoopAgrees, server, handlers, computer, agent
<1>1. CASE UNCHANGED vars
  BY <1>1 DEF vars
<1> SUFFICES ASSUME Next PROVE LoopAgrees'
  BY <1>1
<1>2. ~raced' => ~raced /\ ~(waiting # NoAttempt /\ loop # NoAttempt)
  BY NextRaced, Watched DEF Apart
<1>3. ASSUME UNCHANGED <<creds, released, loop, letGo>> PROVE LoopAgrees'
  BY <1>2, <1>3
<1>4. ASSUME NEW a \in Attempt, Answer(a) PROVE LoopAgrees'
  BY <1>2, <1>4, EnrollmentAssumption DEF Answer
<1>5. ASSUME Start \/ Save \/ Stop \/ LetGo PROVE LoopAgrees'
  BY <1>2, <1>5 DEF Start, Save, Stop, LetGo, Saved
<1>6. ASSUME \/ \E a \in Attempt :
                   (\E t \in Token : Post(a, t)) \/ ReadToken(a) \/ Redeem(a)
             \/ \E t \in Token : BeginIssue(t) \/ Issue(t) \/ ExpireToken(t)
             \/ \E o \in Operator : ReadMachine(o) \/ HardDelete(o) \/ MarkPending(o)
             \/ GiveUp \/ Revoke \/ Finalize
             \/ Connect \/ Disconnect \/ Acknowledge
      PROVE  LoopAgrees'
  <2>1. UNCHANGED <<creds, released, loop, letGo>>
    BY <1>6
       DEF Post, ReadToken, Redeem, BeginIssue, Issue, ExpireToken, ReadMachine,
           HardDelete, MarkPending, GiveUp, Revoke, Finalize, Connect, Disconnect,
           Acknowledge
  <2> QED BY <1>3, <2>1
<1> QED
  BY <1>4, <1>5, <1>6 DEF Next, EnrollStep, TokenStep, RemoveStep, LoopStep

(* A new enrollment is the only one, or the step is noticed.               *)
LEMMA OneAtATimeStep ==
  TypeOK /\ Apart /\ OneAtATime /\ [Next]_vars => OneAtATime'
PROOF
<1> SUFFICES ASSUME TypeOK, Apart, OneAtATime, [Next]_vars PROVE OneAtATime'
  OBVIOUS
<1> USE DEF OneAtATime, Enrolling, server, handlers, computer, agent
<1>1. CASE UNCHANGED vars
  BY <1>1 DEF vars
<1> SUFFICES ASSUME Next PROVE OneAtATime'
  BY <1>1
<1>2. ~raced' => ~raced /\ (\A a, b \in Enrolling' : a = b)
  BY NextRaced, Watched
<1>3. ASSUME UNCHANGED <<attempt, waiting, gaveUp>> PROVE OneAtATime'
  BY <1>2, <1>3
<1>4. ASSUME NEW a \in Attempt, NEW t \in Token, Post(a, t) PROVE OneAtATime'
  BY <1>2, <1>4, Posted
<1>5. ASSUME NEW a \in Attempt, ReadToken(a) PROVE OneAtATime'
  BY <1>2, <1>5, TokenRead DEF ReadToken
<1>6. ASSUME NEW a \in Attempt, Redeem(a) PROVE OneAtATime'
  BY <1>2, <1>6, Redeemed DEF Redeem
<1>7. ASSUME NEW a \in Attempt, Answer(a) PROVE OneAtATime'
  BY <1>2, <1>7, EnrollmentAssumption DEF Answer
<1>8. ASSUME GiveUp PROVE OneAtATime'
  BY <1>8 DEF GiveUp
<1>9. ASSUME \/ \E t \in Token : BeginIssue(t) \/ Issue(t) \/ ExpireToken(t)
             \/ \E o \in Operator : ReadMachine(o) \/ HardDelete(o) \/ MarkPending(o)
             \/ Revoke \/ Finalize \/ LoopStep
      PROVE  OneAtATime'
  <2>1. UNCHANGED <<attempt, waiting, gaveUp>>
    BY <1>9
       DEF BeginIssue, Issue, ExpireToken, ReadMachine, HardDelete, MarkPending,
           Revoke, Finalize, LoopStep, Start, Save, Stop, Connect, Disconnect,
           LetGo, Acknowledge
  <2> QED BY <1>3, <2>1
<1> QED
  BY <1>4, <1>5, <1>6, <1>7, <1>8, <1>9 DEF Next, EnrollStep, TokenStep, RemoveStep, LoopStep

(* Deletions are decided on when the machine is without a credential, and  *)
(* no enrollment gives it one while they are under way.                    *)
LEMMA DeletesRightlyStep ==
  TypeOK /\ Apart /\ LoopAgrees /\ DeletesRightly /\ [Next]_vars => DeletesRightly'
PROOF
<1> SUFFICES ASSUME TypeOK, Apart, LoopAgrees, DeletesRightly, [Next]_vars
             PROVE  DeletesRightly'
  OBVIOUS
<1> USE DEF DeletesRightly, server, handlers, computer, agent
<1>1. CASE UNCHANGED vars
  BY <1>1 DEF vars
<1> SUFFICES ASSUME Next PROVE DeletesRightly'
  BY <1>1
<1>2. ~raced' => ~raced /\ ~(Enrolling' # {} /\ Deleting')
  BY NextRaced, Watched
<1>3. ASSUME UNCHANGED <<acking, request, waiting, released, secret>>
      PROVE  DeletesRightly'
  BY <1>2, <1>3
<1>4. ASSUME NEW a \in Attempt, NEW t \in Token, Post(a, t) PROVE DeletesRightly'
  <2>1. a \in Enrolling'
    BY <1>4, Posted DEF Enrolling
  <2> QED BY <1>2, <2>1 DEF Deleting
<1>5. ASSUME NEW a \in Attempt, Redeem(a) PROVE DeletesRightly'
  <2>1. a \in Enrolling
    BY <1>5, Redeemed DEF Enrolling
  <2>2. ~raced => ~acking /\ \A o \in Operator : request[o] # "unusable"
    BY <2>1 DEF Apart, Deleting
  <2> QED BY <1>2, <1>5, <2>2 DEF Redeem
<1>6. ASSUME NEW a \in Attempt, Answer(a) PROVE DeletesRightly'
  BY <1>2, <1>6, EnrollmentAssumption DEF Answer
<1>7. ASSUME GiveUp PROVE DeletesRightly'
  BY <1>2, <1>7 DEF GiveUp
<1>8. ASSUME NEW o \in Operator, ReadMachine(o) PROVE DeletesRightly'
  BY <1>2, <1>8 DEF ReadMachine, RequestStep, Usable, TypeOK
<1>9. ASSUME NEW o \in Operator, HardDelete(o) \/ MarkPending(o)
      PROVE  DeletesRightly'
  BY <1>2, <1>9 DEF HardDelete, MarkPending, RequestStep, TypeOK
<1>10. ASSUME Revoke PROVE DeletesRightly'
  BY <1>2, <1>10 DEF Revoke
<1>11. ASSUME Finalize PROVE DeletesRightly'
  BY <1>2, <1>11 DEF Finalize
<1>12. ASSUME Acknowledge PROVE DeletesRightly'
  <2>1. letGo /\ loop # NoAttempt /\ acking'
        /\ UNCHANGED <<request, waiting, released, secret>>
    BY <1>12 DEF Acknowledge, TypeOK
  <2>2. ~raced => waiting = NoAttempt /\ released
    BY <2>1 DEF Apart, LoopAgrees
  <2> QED BY <1>2, <2>1, <2>2
<1>13. ASSUME Save \/ Stop \/ LetGo PROVE DeletesRightly'
  <2>1. loop # NoAttempt /\ UNCHANGED <<acking, request, waiting, secret>>
        /\ (released' = letGo \/ released' = TRUE \/ released' = released)
    <3>1. CASE Save
      BY Zenon, <3>1 DEF Save, Saved
    <3>2. CASE Stop
      BY <3>2 DEF Stop
    <3>3. CASE LetGo
      <4>1. released' = TRUE
        BY Zenon, <3>3 DEF LetGo, Saved
      <4> QED BY <3>3, <4>1 DEF LetGo, TypeOK
    <3> QED BY <1>13, <3>1, <3>2, <3>3
  <2>2. ~raced => letGo = released
    BY <2>1 DEF LoopAgrees
  <2> QED BY <1>2, <2>1, <2>2
<1>14. ASSUME \/ \E a \in Attempt : ReadToken(a)
              \/ \E t \in Token : BeginIssue(t) \/ Issue(t) \/ ExpireToken(t)
              \/ Start \/ Connect \/ Disconnect
       PROVE  DeletesRightly'
  BY <1>3, <1>14
     DEF ReadToken, BeginIssue, Issue, ExpireToken, Start, Connect, Disconnect
<1> QED
  BY <1>4, <1>5, <1>6, <1>7, <1>8, <1>9, <1>10, <1>11, <1>12, <1>13, <1>14
     DEF Next, EnrollStep, TokenStep, RemoveStep, LoopStep

(* The credential that counts keeps working.                               *)
LEMMA KeepsCurrentStep ==
  ASSUME TypeOK, LoopAgrees, OneAtATime, DeletesRightly, KeepsCurrent, [Next]_vars
  PROVE  KeepsCurrent'
PROOF
<1> USE DEF KeepsCurrent, Granted, Current, Exists, server, handlers, computer, agent
<1>1. CASE UNCHANGED vars
  BY <1>1 DEF vars
<1> SUFFICES ASSUME Next PROVE KeepsCurrent'
  BY <1>1
<1>2. ~raced' => ~raced
  BY NextRaced, Watched
<1>3. waiting \in Attempt \cup {NoAttempt} /\ creds \in Attempt \cup {NoAttempt}
  BY DEF TypeOK
<1>4. ASSUME UNCHANGED <<attempt, row, secret, lapsed, waiting, creds, released, gaveUp>>
      PROVE  KeepsCurrent'
  BY <1>2, <1>4
<1>5. ASSUME NEW a \in Attempt, NEW t \in Token, Post(a, t) PROVE KeepsCurrent'
  BY <1>2, <1>5, Posted DEF Post
<1>6. ASSUME NEW a \in Attempt, ReadToken(a) PROVE KeepsCurrent'
  BY <1>2, <1>3, <1>6, TokenRead DEF ReadToken
<1>7. ASSUME NEW a \in Attempt, Redeem(a) PROVE KeepsCurrent'
  <2>1. a \in Enrolling
    BY <1>7, Redeemed DEF Enrolling
  <2>2. ~raced' /\ (~gaveUp \/ waiting # NoAttempt) => waiting = a
    BY <1>2, <2>1 DEF OneAtATime
  <2>3. /\ attempt[a].step = "valid" /\ a # NoAttempt
        /\ UNCHANGED <<row, waiting, creds, released, gaveUp, lapsed>>
    BY <1>7, Redeemed, EnrollmentAssumption DEF Redeem
  <2>4. CASE Exists /\ attempt'[a].step = "granted" /\ secret' = a
    BY <1>2, <2>2, <2>3, <2>4
  <2>5. CASE ~Exists /\ attempt'[a].step = "refused" /\ secret' = secret
    BY <1>2, <2>2, <2>3, <2>5
  <2> QED BY <1>7, <2>4, <2>5, Redeemed
<1>8. ASSUME NEW a \in Attempt, Answer(a) PROVE KeepsCurrent'
  BY <1>2, <1>8, EnrollmentAssumption DEF Answer
<1>9. ASSUME GiveUp PROVE KeepsCurrent'
  BY <1>9 DEF GiveUp
<1>10. ASSUME Revoke PROVE KeepsCurrent'
  BY <1>2, <1>10, EnrollmentAssumption, <1>3 DEF Revoke
<1>11. ASSUME NEW o \in Operator, HardDelete(o) PROVE KeepsCurrent'
  BY <1>2, <1>3, <1>11 DEF HardDelete, RequestStep, DeletesRightly
<1>12. ASSUME NEW o \in Operator, MarkPending(o) PROVE KeepsCurrent'
  BY <1>2, <1>12 DEF MarkPending
<1>13. ASSUME Save \/ Stop \/ LetGo PROVE KeepsCurrent'
  <2>1. /\ loop # NoAttempt
        /\ UNCHANGED <<attempt, row, secret, lapsed, waiting, gaveUp>>
        /\ \/ creds' = loop /\ (released' = letGo \/ released' = TRUE)
           \/ UNCHANGED <<creds, released>>
    <3>1. CASE Save
      BY Zenon, <3>1 DEF Save, Saved
    <3>2. CASE Stop
      BY <3>2 DEF Stop
    <3>3. CASE LetGo
      <4>1. released' = TRUE /\ creds' = loop
        BY Zenon, <3>3 DEF LetGo, Saved
      <4> QED BY <3>3, <4>1 DEF LetGo, TypeOK
    <3> QED BY <1>13, <3>1, <3>2, <3>3
  <2>2. ~raced => loop = creds /\ letGo = released
    BY <2>1 DEF LoopAgrees
  <2> QED BY <1>2, <2>1, <2>2
<1>14. ASSUME Finalize PROVE KeepsCurrent'
  BY <1>2, <1>14 DEF Finalize, DeletesRightly
<1>15. ASSUME \/ \E t \in Token : BeginIssue(t) \/ Issue(t) \/ ExpireToken(t)
              \/ \E o \in Operator : ReadMachine(o)
              \/ Start \/ Connect \/ Disconnect \/ Acknowledge
       PROVE  KeepsCurrent'
  BY <1>4, <1>15
     DEF BeginIssue, Issue, ExpireToken, ReadMachine, Start, Connect, Disconnect,
         Acknowledge
<1> QED
  BY <1>5, <1>6, <1>7, <1>8, <1>9, <1>10, <1>11, <1>12, <1>13, <1>14, <1>15
     DEF Next, EnrollStep, TokenStep, RemoveStep, LoopStep

(* Together they are inductive.                                            *)
LEMMA Invariance == Spec => []Inv
PROOF
<1>1. Init => Inv
  BY InitInv
<1>2. Inv /\ [Next]_vars => Inv'
  BY TypeStep, ApartStep, LoopAgreesStep, OneAtATimeStep, DeletesRightlyStep,
     KeepsCurrentStep
     DEF Inv
<1> QED BY <1>1, <1>2, PTL DEF Spec

-----------------------------------------------------------------------------
(* What the specification promises.                                        *)

(* Every variable keeps its type, and a revoked machine has no secret.     *)
THEOREM TypeCorrect == Spec => []TypeOK
PROOF
<1>1. Inv => TypeOK
  BY DEF Inv
<1> QED BY <1>1, Invariance, PTL

(* However a computer is enrolled, revoked, removed and told to let go,    *)
(* by any number of operators and over connections older than its          *)
(* credential, it keeps a credential that works unless an enrollment       *)
(* overlaps another, a deletion already decided on, or its own run loop.   *)
THEOREM OnlyRacesStrand == Spec => []StrandedOnlyByRace
PROOF
<1>1. Inv => StrandedOnlyByRace
  BY DEF Inv, KeepsCurrent, Granted, Current, StrandedOnlyByRace, Stranded
<1> QED BY <1>1, Invariance, PTL

(* "The old row (and credential) are gone and cannot be reused or          *)
(* resurrected": the transaction of enroll fails on a removed machine.     *)
THEOREM NothingResurrected == Spec => RemovedForGood
PROOF
<1> DEFINE Gone == ~Exists =>
             /\ row' = row
             /\ \A a \in Attempt : attempt'[a].step = "granted"
                                     => attempt[a].step = "granted"
<1>1. Inv /\ [Next]_vars => Gone
  <2> SUFFICES ASSUME TypeOK, [Next]_vars, ~Exists PROVE Gone
    BY DEF Inv
  <2> USE DEF server, handlers, computer, agent, Exists
  <2>1. ASSUME UNCHANGED attempt, row' \in {row, "removed"} PROVE Gone
    BY <2>1 DEF TypeOK
  <2>2. ASSUME NEW a \in Attempt, NEW t \in Token, Post(a, t) PROVE Gone
    BY <2>2, Posted DEF Post
  <2>3. ASSUME NEW a \in Attempt, ReadToken(a) PROVE Gone
    BY <2>3, TokenRead DEF ReadToken
  <2>4. ASSUME NEW a \in Attempt, Redeem(a) PROVE Gone
    BY <2>4, Redeemed DEF Redeem
  <2>5. ASSUME \/ \E a \in Attempt : Answer(a)
               \/ \E t \in Token : BeginIssue(t) \/ Issue(t) \/ ExpireToken(t)
               \/ \E o \in Operator : ReadMachine(o) \/ HardDelete(o) \/ MarkPending(o)
               \/ GiveUp \/ Revoke \/ Finalize \/ LoopStep
               \/ UNCHANGED vars
        PROVE  UNCHANGED attempt /\ row' \in {row, "removed"}
    BY <2>5
       DEF Answer, BeginIssue, Issue, ExpireToken, ReadMachine, HardDelete,
           MarkPending, GiveUp, Revoke, Finalize, LoopStep, Start, Save, Stop,
           Connect, Disconnect, LetGo, Acknowledge, vars
  <2> QED
    BY <2>1, <2>2, <2>3, <2>4, <2>5 DEF Next, EnrollStep, TokenStep, RemoveStep, LoopStep
<1>2. Spec => [][Gone]_vars
  BY <1>1, Invariance, PTL DEF Spec
<1> QED BY <1>2 DEF RemovedForGood
=============================================================================
