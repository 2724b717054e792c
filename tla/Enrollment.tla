----------------------------- MODULE Enrollment -----------------------------
(***************************************************************************)
(* Enrolling, revoking and removing one machine (machines.service.ts) and  *)
(* the computer that runs `taymna-agent enroll` for it (agent/src/main.rs).*)
(* Each database call of a handler is a step, and what other handlers do   *)
(* comes in between.                                                       *)
(*                                                                         *)
(* An attempt is one POST of a token; the machine secret it yields is      *)
(* known by the attempt.  The computer may stop waiting for the answer and *)
(* try again while the server still works on the first.                    *)
(*                                                                         *)
(* The agent's run loop is another process, which an enroll command may    *)
(* find stopped, as the docs ask, or running: it goes on with the          *)
(* credential it has loaded, and saves it.  The server asks for a          *)
(* credential when a connection is opened, and not again: one that is open *)
(* outlives the credential it was opened with, until it is closed.  How    *)
(* connections are opened and replaced is in Removal, how saves fail in    *)
(* Agent and Hosting.                                                      *)
(***************************************************************************)
EXTENDS Naturals

CONSTANTS Token,     \* enrollment tokens
          Attempt,   \* enrollment requests
          NoAttempt,
          Operator   \* removal requests

ASSUME EnrollmentAssumption == NoAttempt \notin Attempt

VARIABLES
  row,      \* the machine: "managed", "pending" or "removed"
  secret,   \* credentialHash: the attempt that set it, or NoAttempt
  revoked,  \* credentialRevokedAt is set
  token,    \* per token: "none", "issuing", "fresh", "expired" or "used"
  attempt,  \* per attempt: its handler's progress and its token
  request,  \* per operator: progress of requestDecommission
  acking,   \* an acknowledgement is under way to finalizeDecommission, or in it
  creds,    \* the credential in the computer's state file, or NoAttempt
  released, \* `decommissioned` in the state file
  waiting,  \* the attempt whose answer the computer awaits, or NoAttempt
  gaveUp,   \* it has missed an answer since it saved that credential
  loop,     \* the credential the run loop acts under, or NoAttempt: none runs
  letGo,    \* `decommissioned` of the run loop
  connected, \* its connection is open
  lapsed,   \* credentials an operator has revoked
  raced     \* what is no normal use together has overlapped

server == <<row, secret, revoked, token>>
handlers == <<attempt, request, acking>>
agent == <<loop, letGo, connected>>
computer == <<creds, released, waiting, gaveUp, agent>>
vars == <<server, handlers, computer, lapsed, raced>>

Idle == [step |-> "idle"]

(* create: the row and its first token.                                    *)
Init ==
  /\ row = "managed" /\ secret = NoAttempt /\ revoked = FALSE
  /\ \E first \in Token :
       token = [t \in Token |-> IF t = first THEN "fresh" ELSE "none"]
  /\ attempt = [a \in Attempt |-> Idle]
  /\ request = [o \in Operator |-> "idle"]
  /\ acking = FALSE
  /\ creds = NoAttempt /\ released = FALSE
  /\ waiting = NoAttempt /\ gaveUp = FALSE
  /\ loop = NoAttempt /\ letGo = FALSE /\ connected = FALSE
  /\ lapsed = {} /\ raced = FALSE

Exists == row # "removed"

Usable == secret # NoAttempt /\ ~revoked

(* Enrollments the server works on, and deletions it has decided on.       *)
Enrolling == {a \in Attempt : attempt[a].step \in {"posted", "valid"}}

Deleting == acking \/ \E o \in Operator : request[o] = "unusable"

(* Two enrollments at once, one and a deletion, an enroll command and a    *)
(* run loop.                                                               *)
Overlap ==
  \/ \E a, b \in Enrolling : a # b
  \/ Enrolling # {} /\ Deleting
  \/ waiting # NoAttempt /\ loop # NoAttempt

Raced == raced' = (raced \/ Overlap')

-----------------------------------------------------------------------------
(* issueEnrollmentToken: requireMachine, then create, which the foreign    *)
(* key refuses once the machine is gone.                                   *)
BeginIssue(t) ==
  /\ Exists /\ token[t] = "none"
  /\ token' = [token EXCEPT ![t] = "issuing"]
  /\ UNCHANGED <<row, secret, revoked, handlers, computer, lapsed>>
  /\ Raced

Issue(t) ==
  /\ Exists /\ token[t] = "issuing"
  /\ token' = [token EXCEPT ![t] = "fresh"]
  /\ UNCHANGED <<row, secret, revoked, handlers, computer, lapsed>>
  /\ Raced

ExpireToken(t) ==
  /\ token[t] = "fresh"
  /\ token' = [token EXCEPT ![t] = "expired"]
  /\ UNCHANGED <<row, secret, revoked, handlers, computer, lapsed>>
  /\ Raced

-----------------------------------------------------------------------------
(* enroll.  The computer posts a token it was given.                       *)
Post(a, t) ==
  /\ waiting = NoAttempt
  /\ attempt[a] = Idle /\ token[t] \in {"fresh", "expired", "used"}
  /\ waiting' = a
  /\ attempt' = [attempt EXCEPT ![a] = [step |-> "posted", token |-> t]]
  /\ UNCHANGED <<server, request, acking, creds, released, gaveUp, agent, lapsed>>
  /\ Raced

AttemptStep(a, from, to) ==
  /\ attempt[a].step = from
  /\ attempt' = [attempt EXCEPT ![a].step = to]

(* findUnique, and the three conditions on what it found.                  *)
ReadToken(a) ==
  /\ AttemptStep(a, "posted",
       IF Exists /\ token[attempt[a].token] = "fresh" THEN "valid" ELSE "refused")
  /\ UNCHANGED <<server, request, acking, computer, lapsed>>
  /\ Raced

(* The transaction: the token is used and the machine has a new secret.    *)
(* Both rows are gone once the machine was removed.  (The slip: to create  *)
(* what is not there.)                                                     *)
RedeemOrCreate(a) ==
  /\ AttemptStep(a, "valid", "granted")
  /\ row' = IF Exists THEN row ELSE "managed"
  /\ token' = [token EXCEPT ![attempt[a].token] = "used"]
  /\ secret' = a /\ revoked' = FALSE
  /\ UNCHANGED <<request, acking, computer, lapsed>>
  /\ Raced

Redeem(a) ==
  /\ \/ /\ Exists
        /\ AttemptStep(a, "valid", "granted")
        /\ token' = [token EXCEPT ![attempt[a].token] = "used"]
        /\ secret' = a /\ revoked' = FALSE
     \/ /\ ~Exists
        /\ AttemptStep(a, "valid", "refused")
        /\ UNCHANGED <<token, secret, revoked>>
  /\ UNCHANGED <<row, request, acking, computer, lapsed>>
  /\ Raced

(* The answer.  The enroll command saves a credential it is given as that  *)
(* of a managed computer, and leaves the file alone when it is refused.    *)
Answer(a) ==
  /\ waiting = a
  /\ waiting' = NoAttempt
  /\ \/ /\ attempt[a].step = "granted"
        /\ creds' = a /\ released' = FALSE /\ gaveUp' = FALSE
     \/ /\ attempt[a].step = "refused"
        /\ UNCHANGED <<creds, released, gaveUp>>
  /\ UNCHANGED <<server, handlers, agent, lapsed>>
  /\ Raced

(* It is interrupted, or the answer is lost.                               *)
GiveUp ==
  /\ waiting # NoAttempt
  /\ waiting' = NoAttempt /\ gaveUp' = TRUE
  /\ UNCHANGED <<server, handlers, creds, released, agent, lapsed>>
  /\ Raced

-----------------------------------------------------------------------------
(* revokeCredential, one update (the slip: to keep the hash), and the      *)
(* connection is closed.                                                   *)
RevokeKeepingHash ==
  /\ Exists
  /\ revoked' = TRUE
  /\ lapsed' = lapsed \cup ({secret} \ {NoAttempt})
  /\ connected' = FALSE
  /\ UNCHANGED <<row, secret, token, handlers, creds, released, waiting, gaveUp,
                 loop, letGo>>
  /\ Raced

Revoke ==
  /\ Exists
  /\ secret' = NoAttempt /\ revoked' = TRUE
  /\ lapsed' = lapsed \cup ({secret} \ {NoAttempt})
  /\ connected' = FALSE
  /\ UNCHANGED <<row, token, handlers, creds, released, waiting, gaveUp, loop, letGo>>
  /\ Raced

(* requestDecommission (the slip: an agent that is away is no agent).      *)
RequestStep(o, from, to) ==
  request[o] = from /\ request' = [request EXCEPT ![o] = to]

ReadMachineIfOnline(o) ==
  /\ Exists
  /\ RequestStep(o, "idle",
       IF ~Usable \/ ~connected THEN "unusable"
       ELSE IF row = "pending" THEN "done" ELSE "managed")
  /\ UNCHANGED <<server, attempt, acking, computer, lapsed>>
  /\ Raced

ReadMachine(o) ==
  /\ Exists
  /\ RequestStep(o, "idle", IF ~Usable THEN "unusable"
                            ELSE IF row = "pending" THEN "done" ELSE "managed")
  /\ UNCHANGED <<server, attempt, acking, computer, lapsed>>
  /\ Raced

(* Deleting the row takes the tokens with it.  The connection is closed    *)
(* before, and an agent whose credential is good again may be back.        *)
HardDelete(o) ==
  /\ RequestStep(o, "unusable", "done")
  /\ row' = "removed"
  /\ connected' \in {FALSE, connected}
  /\ UNCHANGED <<secret, revoked, token, attempt, acking, creds, released, waiting,
                 gaveUp, loop, letGo, lapsed>>
  /\ Raced

MarkPending(o) ==
  /\ RequestStep(o, "managed", "done")
  /\ row' = IF Exists THEN "pending" ELSE row
  /\ UNCHANGED <<secret, revoked, token, attempt, acking, computer, lapsed>>
  /\ Raced

(* finalizeDecommission.                                                   *)
Finalize ==
  /\ acking
  /\ acking' = FALSE
  /\ IF row = "pending" THEN row' = "removed" /\ connected' = FALSE
                        ELSE UNCHANGED <<row, connected>>
  /\ UNCHANGED <<secret, revoked, token, attempt, request, creds, released, waiting,
                 gaveUp, loop, letGo, lapsed>>
  /\ Raced

-----------------------------------------------------------------------------
(* The run loop.  It has read the file when it starts, and never again.    *)
Start ==
  /\ loop = NoAttempt /\ creds # NoAttempt
  /\ loop' = creds /\ letGo' = released
  /\ UNCHANGED <<server, handlers, creds, released, waiting, gaveUp, connected, lapsed>>
  /\ Raced

(* What it saves is all of the state it has, the credential with it.       *)
Saved == creds' = loop /\ released' = letGo'

(* A tick, and a shutdown; a process that is killed saves nothing.         *)
Save ==
  /\ loop # NoAttempt /\ ~letGo
  /\ UNCHANGED agent
  /\ Saved
  /\ UNCHANGED <<server, handlers, waiting, gaveUp, lapsed>>
  /\ Raced

Stop ==
  /\ loop # NoAttempt
  /\ loop' = NoAttempt /\ letGo' = FALSE /\ connected' = FALSE
  /\ \/ creds' = loop /\ released' = letGo
     \/ UNCHANGED <<creds, released>>
  /\ UNCHANGED <<server, handlers, waiting, gaveUp, lapsed>>
  /\ Raced

(* verifyMachineCredential.                                                *)
Connect ==
  /\ loop # NoAttempt /\ ~connected
  /\ Exists /\ Usable /\ secret = loop
  /\ connected' = TRUE
  /\ UNCHANGED <<server, handlers, creds, released, waiting, gaveUp, loop, letGo, lapsed>>
  /\ Raced

Disconnect ==
  /\ connected
  /\ connected' = FALSE
  /\ UNCHANGED <<server, handlers, creds, released, waiting, gaveUp, loop, letGo, lapsed>>
  /\ Raced

(* Told over its connection, by the greeting or while it is open, it saves *)
(* that it has let go.                                                     *)
LetGo ==
  /\ connected /\ row = "pending" /\ ~letGo
  /\ letGo' = TRUE
  /\ Saved
  /\ UNCHANGED <<server, handlers, waiting, gaveUp, loop, connected, lapsed>>
  /\ Raced

(* It acknowledges then, and whenever it is connected again.               *)
Acknowledge ==
  /\ connected /\ letGo /\ ~acking
  /\ acking' = TRUE
  /\ UNCHANGED <<server, attempt, request, computer, lapsed>>
  /\ Raced

-----------------------------------------------------------------------------
EnrollStep(a) ==
  \/ \E t \in Token : Post(a, t)
  \/ ReadToken(a) \/ Redeem(a) \/ Answer(a)

TokenStep(t) == BeginIssue(t) \/ Issue(t) \/ ExpireToken(t)

RemoveStep(o) == ReadMachine(o) \/ HardDelete(o) \/ MarkPending(o)

LoopStep ==
  Start \/ Save \/ Stop \/ Connect \/ Disconnect \/ LetGo \/ Acknowledge

Next ==
  \/ \E a \in Attempt : EnrollStep(a)
  \/ \E t \in Token : TokenStep(t)
  \/ \E o \in Operator : RemoveStep(o)
  \/ GiveUp \/ Revoke \/ Finalize
  \/ LoopStep

Spec == Init /\ [][Next]_vars

-----------------------------------------------------------------------------
TypeOK ==
  /\ row \in {"managed", "pending", "removed"}
  /\ token \in [Token -> {"none", "issuing", "fresh", "expired", "used"}]
  /\ request \in [Operator -> {"idle", "unusable", "managed", "done"}]
  /\ {secret, creds, waiting, loop} \subseteq Attempt \cup {NoAttempt}
  /\ lapsed \subseteq Attempt
  /\ {revoked, acking, released, gaveUp, letGo, connected, raced} \subseteq BOOLEAN
  /\ connected \/ letGo => loop # NoAttempt
  /\ attempt \in [Attempt -> {Idle} \cup
                    [step : {"posted", "valid", "refused", "granted"}, token : Token]]
  /\ revoked => secret = NoAttempt

(* The computer is under a credential that no longer works, although no    *)
(* operator revoked it, it was never told to let go, and no answer to an   *)
(* enrollment has been missed.                                             *)
Stranded ==
  /\ creds # NoAttempt /\ ~released
  /\ creds \notin lapsed
  /\ waiting = NoAttempt /\ ~gaveUp
  /\ ~(Exists /\ secret = creds)

(* Only an enrollment that overlaps another, a deletion already decided on,*)
(* or the computer's own run loop can strand it: otherwise, however it is  *)
(* enrolled, revoked and removed, and told to let go meanwhile over a      *)
(* connection of whatever age, it keeps a credential that works until it   *)
(* has released the machine or an operator revokes it.                     *)
StrandedOnlyByRace == Stranded => raced

(* "The old row (and credential) are gone and cannot be reused or          *)
(* resurrected": an enrollment that began before the removal fails.        *)
RemovedForGood ==
  [][~Exists => /\ row' = row
                /\ \A a \in Attempt : attempt'[a].step = "granted"
                                        => attempt[a].step = "granted"]_vars

(* docs/enrollment.md, of a machine with no usable credential: "there is   *)
(* no live agent to strand: it is deleted directly".                       *)
NoneOrphaned ==
  ~Exists /\ creds # NoAttempt /\ creds = secret /\ ~revoked /\ waiting = NoAttempt
    => released
=============================================================================
