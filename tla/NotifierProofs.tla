--------------------------- MODULE NotifierProofs ---------------------------
(***************************************************************************)
(* What holds of Notifier for all thresholds, durations and numbers of     *)
(* kills and failed calls, and however far the thread falls behind.        *)
(***************************************************************************)
EXTENDS Notifier, FiniteSetTheorems, SequenceTheorems, TLAPS

-----------------------------------------------------------------------------
(* What one evaluation of the warnings yields (ExpiryWarnings).            *)

(* ExpiryWarnings::new (warning.rs) is a warning state.                    *)
LEMMA NoWarningsType == NoWarnings \in Warnings
BY DEF NoWarnings, Warnings, Level, Silent, FinalLevel, Never

(* num_seconds (warning.rs) counts whole seconds.                          *)
LEMMA WholeSecondsType ==
  ASSUME NEW units \in Int
  PROVE  WholeSeconds(units) \in Nat
BY ThresholdAssumption DEF WholeSeconds

(* reconcile raises one of the levels of warning.rs, or none.              *)
LEMMA LevelRaisedType ==
  ASSUME NEW w \in Warnings, NEW s, NEW t \in Nat,
         DeadlineOf(s) \in Deadline \cup {NoDeadline}
  PROVE  LevelRaised(w, s, t) \in Level
PROOF
<1> DEFINE key == DeadlineOf(s)
           remaining == WholeSeconds(key.expiresAt - t)
<1>1. Silent \in Level
  BY DEF Level, Silent, FinalLevel
<1>2. CASE key = NoDeadline
  BY <1>1, <1>2 DEF LevelRaised
<1>3. CASE key # NoDeadline
  <2>1. remaining \in Nat
    BY <1>3, WholeSecondsType DEF Deadline
  <2>2. LevelFor(remaining) \in Level
    BY <2>1, ThresholdAssumption
    DEF LevelFor, Level, Silent, TenMinuteLevel, FiveMinuteLevel,
        OneMinuteLevel, FinalLevel
  <2>3. ArrivingLateLevel(remaining) \in Level
    BY <2>2 DEF ArrivingLateLevel, Level, Silent, FinalLevel
  <2> QED
    BY <1>1, <2>2, <2>3 DEF LevelRaised
<1> QED BY <1>2, <1>3

(* What is raised is about a deadline with whole seconds to go.            *)
LEMMA RaisedAhead ==
  ASSUME NEW w \in Warnings, NEW s, NEW t \in Nat,
         DeadlineOf(s) \in Deadline \cup {NoDeadline},
         LevelRaised(w, s, t) # Silent
  PROVE  /\ DeadlineOf(s) \in Deadline
         /\ WholeSeconds(DeadlineOf(s).expiresAt - t) \in Nat \ {0}
PROOF
<1>1. /\ DeadlineOf(s) # NoDeadline
      /\ WholeSeconds(DeadlineOf(s).expiresAt - t) > 0
  BY DEF LevelRaised
<1>2. DeadlineOf(s) \in Deadline /\ DeadlineOf(s).expiresAt - t \in Int
  BY <1>1 DEF Deadline
<1> QED BY <1>1, <1>2, WholeSecondsType

(* reconcile (warning.rs) yields a warning state again.                    *)
LEMMA ReconcileType ==
  ASSUME NEW w \in Warnings, NEW s, NEW t \in Nat,
         DeadlineOf(s) \in Deadline \cup {NoDeadline}
  PROVE  Reconcile(w, s, t) \in Warnings
PROOF
<1> DEFINE kept == Rekey(w, DeadlineOf(s))
           raised == LevelRaised(w, s, t)
<1>1. kept \in Warnings
  BY NoWarningsType DEF Rekey, Warnings
<1>2. raised \in Level
  BY LevelRaisedType
<1>3. t \in Nat \cup {Never}
  OBVIOUS
<1>4. Dismisses(w, s, t) \in BOOLEAN
  BY DEF Dismisses, Warnings
<1> QED
  BY <1>1, <1>2, <1>3 DEF Reconcile, Warnings

(* A final warning is visible for the deadline it was just raised for, or  *)
(* for the one it was visible for before, if nothing dismissed it.         *)
LEMMA FinalOutcome ==
  ASSUME NEW w \in Warnings, NEW s, NEW t \in Nat,
         DeadlineOf(s) \in Deadline \cup {NoDeadline},
         w.finalVisible => w.key # NoDeadline
  PROVE  LET r == Reconcile(w, s, t)
         IN /\ LevelRaised(w, s, t) = FinalLevel =>
                 r.finalVisible /\ r.key = DeadlineOf(s)
            /\ LevelRaised(w, s, t) # FinalLevel =>
                 (r.finalVisible <=> w.finalVisible /\ ~Dismisses(w, s, t))
            /\ LevelRaised(w, s, t) # FinalLevel /\ r.finalVisible =>
                 r.key = w.key
            /\ r.finalVisible => r.key # NoDeadline
PROOF
<1> DEFINE key == DeadlineOf(s)
           kept == Rekey(w, key)
           raised == LevelRaised(w, s, t)
           r == Reconcile(w, s, t)
<1>1. /\ kept.key = key /\ kept.finalVisible \in BOOLEAN
      /\ key = w.key => kept.finalVisible = w.finalVisible
      /\ key # w.key => ~kept.finalVisible
      /\ kept \in Warnings
  BY NoWarningsType DEF Rekey, Warnings, NoWarnings
<1>2. w.finalVisible /\ key # w.key => Dismisses(w, s, t)
  BY DEF Dismisses
<1>3. Dismisses(w, s, t) => w.finalVisible
  BY DEF Dismisses
<1>4. CASE key = NoDeadline
  <2>1. r = kept
    BY <1>1, <1>4 DEF Reconcile
  <2>2. raised # FinalLevel
    BY <1>4 DEF LevelRaised, Silent, FinalLevel
  <2> QED BY <1>1, <1>2, <1>3, <1>4, <2>1, <2>2 DEF Warnings
<1>5. CASE key # NoDeadline
  <2>1. /\ r.key = key
        /\ r.finalVisible <=> \/ raised = FinalLevel
                              \/ kept.finalVisible /\ ~Dismisses(w, s, t)
    BY <1>1, <1>5 DEF Reconcile, Warnings
  <2> QED BY <1>1, <1>2, <1>3, <1>5, <2>1 DEF Warnings
<1> QED BY <1>4, <1>5

-----------------------------------------------------------------------------
(* What the screen comes to when the queue has been worked off is decided  *)
(* by its last effect that is no plain notification, if there is one.      *)
Settled(q) == \A i \in DOMAIN q : q[i].effect = "notify"

Last(q, e) ==
  /\ e.effect # "notify"
  /\ \E i \in DOMAIN q :
       q[i] = e /\ \A j \in DOMAIN q : j > i => q[j].effect = "notify"

(* The final warnings the notifier can no longer take down.                *)
Orphans == {w \in onScreen : w.name # handle}

Screen ==
  /\ IsFiniteSet(onScreen)
  /\ \A v, w \in onScreen : v.name = w.name => v = w
  /\ Cardinality(Orphans) <= faults
  /\ doing.effect = "spawn" => handle = NoWarning

(* A process that is gone has nothing under way and no warning to its name.*)
Gone ==
  proc = "stopped" =>
    queue = <<>> /\ doing = Idle /\ Cardinality(onScreen) <= faults

AsDecided(about) == Decided /\ about = warnings.key

(* Whatever is last under way, or else on screen, is what was decided.     *)
Tracks ==
  proc # "stopped" =>
    /\ \A e \in Effect : Last(queue, e) => e.effect = "dismiss" \/ AsDecided(e.about)
    /\ Settled(queue) /\ doing.effect \in {"show", "spawn"} => AsDecided(doing.about)
    /\ Settled(queue) /\ doing.effect \in {"none", "notify"} =>
         /\ handle # NoWarning => Decided
         /\ \A w \in onScreen : w.name = handle => AsDecided(w.about)

(* While no call fails, what was decided is under way or on screen.        *)
Believes ==
  proc = "running" /\ faults = 0 /\ Decided =>
    /\ \A e \in Effect : Last(queue, e) => e.effect # "dismiss"
    /\ Settled(queue) => doing.effect # "dismiss"
    /\ Settled(queue) /\ doing.effect \in {"none", "notify"} => handle # NoWarning

Keyed == warnings.finalVisible => warnings.key # NoDeadline

Inv == TypeOK /\ Screen /\ Gone /\ Tracks /\ Believes /\ Keyed

-----------------------------------------------------------------------------
(* What a queue comes to.                                                  *)

(* An empty one changes nothing.                                           *)
LEMMA NothingLeft == Settled(<<>>) /\ \A e : ~Last(<<>>, e)
BY DEF Settled, Last

(* A show or a dismissal sent last decides.                                *)
LEMMA AppendEffect ==
  ASSUME NEW S, NEW q \in Seq(S), NEW e \in S, e.effect # "notify"
  PROVE  ~Settled(Append(q, e)) /\ \A x : Last(Append(q, e), x) <=> x = e
PROOF
<1> DEFINE r == Append(q, e)
<1>1. /\ Len(q) \in Nat /\ DOMAIN r = 1 .. Len(q) + 1 /\ r[Len(q) + 1] = e
      /\ Len(q) + 1 \in DOMAIN r
      /\ \A j \in DOMAIN r : j <= Len(q) + 1
  OBVIOUS
<1> HIDE DEF r
<1>2. ~Settled(r)
  BY <1>1 DEF Settled
<1>3. ASSUME NEW x, Last(r, x) PROVE x = e
  <2>1. PICK i \in DOMAIN r :
          r[i] = x /\ \A j \in DOMAIN r : j > i => r[j].effect = "notify"
    BY <1>3 DEF Last
  <2>2. ~(Len(q) + 1 > i)
    BY <1>1, <2>1
  <2>3. i = Len(q) + 1
    BY <1>1, <2>1, <2>2
  <2> QED BY <1>1, <2>1, <2>3
<1>4. Last(r, e)
  <2>1. \A j \in DOMAIN r : ~(j > Len(q) + 1)
    BY <1>1
  <2> QED BY <1>1, <2>1 DEF Last
<1> QED BY <1>2, <1>3, <1>4 DEF r

(* A notification does not.                                                *)
LEMMA AppendNotify ==
  ASSUME NEW S, NEW q \in Seq(S), NEW e \in S, e.effect = "notify"
  PROVE  /\ Settled(Append(q, e)) <=> Settled(q)
         /\ \A x : Last(Append(q, e), x) <=> Last(q, x)
PROOF
<1> DEFINE r == Append(q, e)
<1>1. /\ Len(q) \in Nat /\ DOMAIN q = 1 .. Len(q) /\ DOMAIN r = 1 .. Len(q) + 1
      /\ r[Len(q) + 1] = e
      /\ \A j \in DOMAIN q : j \in DOMAIN r /\ r[j] = q[j]
      /\ \A j \in DOMAIN r : j \in DOMAIN q \/ j = Len(q) + 1
  OBVIOUS
<1> HIDE DEF r
<1>2. Settled(r) <=> Settled(q)
  BY <1>1 DEF Settled
<1>3. ASSUME NEW x, Last(r, x) PROVE Last(q, x)
  <2>1. PICK i \in DOMAIN r :
          r[i] = x /\ \A j \in DOMAIN r : j > i => r[j].effect = "notify"
    BY <1>3 DEF Last
  <2>2. i # Len(q) + 1
    BY <1>1, <1>3, <2>1 DEF Last
  <2>3. i \in DOMAIN q /\ q[i] = x
    BY <1>1, <2>1, <2>2
  <2>4. \A j \in DOMAIN q : j > i => q[j].effect = "notify"
    BY <1>1, <2>1
  <2> QED BY <1>3, <2>3, <2>4 DEF Last
<1>4. ASSUME NEW x, Last(q, x) PROVE Last(r, x)
  <2>1. PICK i \in DOMAIN q :
          q[i] = x /\ \A j \in DOMAIN q : j > i => q[j].effect = "notify"
    BY <1>4 DEF Last
  <2>2. i \in DOMAIN r /\ r[i] = x
    BY <1>1, <2>1
  <2>3. \A j \in DOMAIN r : j > i => r[j].effect = "notify"
    BY <1>1, <2>1
  <2> QED BY <1>4, <2>2, <2>3 DEF Last
<1> QED BY <1>2, <1>3, <1>4 DEF r

(* Taking an effect off the queue.                                         *)
LEMMA TakeHead ==
  ASSUME NEW S, NEW q \in Seq(S), q # <<>>
  PROVE  /\ Settled(q) <=> Settled(Tail(q)) /\ Head(q).effect = "notify"
         /\ \A x : Last(Tail(q), x) => Last(q, x)
         /\ Settled(Tail(q)) /\ Head(q).effect # "notify" => Last(q, Head(q))
PROOF
<1> DEFINE r == Tail(q)
<1>1. /\ Len(q) \in Nat \ {0} /\ DOMAIN q = 1 .. Len(q) /\ q[1] = Head(q)
      /\ DOMAIN r = 1 .. Len(q) - 1
      /\ \A j \in DOMAIN r : r[j] = q[j + 1] /\ j + 1 \in DOMAIN q
      /\ 1 \in DOMAIN q
      /\ \A j \in DOMAIN q : j = 1 \/ (j - 1 \in DOMAIN r /\ r[j - 1] = q[j])
  OBVIOUS
<1> HIDE DEF r
<1>2. Settled(q) <=> Settled(r) /\ Head(q).effect = "notify"
  BY <1>1 DEF Settled
<1>3. ASSUME NEW x, Last(r, x) PROVE Last(q, x)
  <2>1. PICK i \in DOMAIN r :
          r[i] = x /\ \A j \in DOMAIN r : j > i => r[j].effect = "notify"
    BY <1>3 DEF Last
  <2>2. i + 1 \in DOMAIN q /\ q[i + 1] = x
    BY <1>1, <2>1
  <2>3. ASSUME NEW j \in DOMAIN q, j > i + 1 PROVE q[j].effect = "notify"
    <3>1. j - 1 \in DOMAIN r /\ r[j - 1] = q[j] /\ j - 1 > i
      BY <1>1, <2>1, <2>3
    <3> QED BY <2>1, <3>1
  <2> QED BY <1>3, <2>2, <2>3 DEF Last
<1>4. ASSUME Settled(r), Head(q).effect # "notify" PROVE Last(q, Head(q))
  <2>1. \A j \in DOMAIN q : j > 1 => q[j].effect = "notify"
    BY <1>1, <1>4 DEF Settled
  <2> QED BY <1>1, <1>4, <2>1 DEF Last
<1> QED BY <1>2, <1>3, <1>4 DEF r

-----------------------------------------------------------------------------
(* The first state.                                                        *)
LEMMA InitInv == Init => Inv
PROOF
<1> SUFFICES ASSUME Init PROVE Inv
  OBVIOUS
<1>1. TypeOK
  <2>1. <<>> \in Seq(Effect)
    OBVIOUS
  <2>2. queue \in Seq(Effect) /\ doing \in Effect \cup ShowEffect("spawn") \cup {Idle}
    BY <2>1 DEF Init
  <2>3. now \in Nat /\ faults \in Nat
    BY DEF Init
  <2>5. released \in BOOLEAN
    BY DEF Init
  <2>6. /\ session \in Deadline \cup {NoDeadline}
        /\ proc \in {"running", "stopping", "stopped"}
        /\ handle \in WarningName \cup {NoWarning} /\ onScreen = {}
    BY DEF Init
  <2>4. warnings \in Warnings
    BY NoWarningsType DEF Init
  <2> QED BY <2>2, <2>3, <2>4, <2>5, <2>6 DEF TypeOK
<1>2. Orphans = {} /\ IsFiniteSet(onScreen)
  BY FS_EmptySet DEF Init, Orphans
<1>3. doing.effect = "none" /\ ~warnings.finalVisible
  BY DEF Init, Idle, NoWarnings
<1>4. Screen
  BY <1>2, <1>3, FS_EmptySet DEF Init, Screen
<1>5. Gone /\ Keyed /\ Believes
  BY <1>3 DEF Init, Gone, Keyed, Believes, Decided
<1>6. Tracks
  BY <1>3, NothingLeft DEF Init, Tracks
<1> QED BY <1>1, <1>4, <1>5, <1>6 DEF Inv

-----------------------------------------------------------------------------
(* What the loop sends.                                                    *)

(* The effects are the plain ones, and those that carry a deadline.        *)
LEMMA EffectTypes ==
  /\ [effect |-> "dismiss"] \in Effect /\ [effect |-> "notify"] \in Effect
  /\ \A d \in Deadline : \A n \in Nat \ {0} :
       [effect |-> "show", about |-> d, seconds |-> n] \in Effect
BY DEF Effect, ShowEffect

(* The deadline of the session as advance leaves it.                       *)
LEMMA AdvancedDeadline ==
  TypeOK => DeadlineOf(Advanced) \in Deadline \cup {NoDeadline}
PROOF
<1> SUFFICES ASSUME TypeOK PROVE DeadlineOf(Advanced) \in Deadline \cup {NoDeadline}
  OBVIOUS
<1>1. CASE session # NoDeadline /\ now < session.expiresAt
  BY <1>1 DEF TypeOK, Advanced, DeadlineOf, Deadline
<1>2. CASE ~(session # NoDeadline /\ now < session.expiresAt)
  BY <1>2 DEF Advanced, DeadlineOf, IsActive
<1> QED BY <1>1, <1>2

(* A tick sends a dismissal first, if any, and then what it raises.        *)
LEMMA EffectsSent ==
  ASSUME TypeOK, queue' = queue \o Effects(Advanced)
  PROVE  /\ queue' \in Seq(Effect)
         /\ LevelRaised(warnings, Advanced, now) = FinalLevel =>
              /\ ~Settled(queue')
              /\ \A e : Last(queue', e) =>
                          e.effect = "show" /\ e.about = DeadlineOf(Advanced)
         /\ LevelRaised(warnings, Advanced, now) # FinalLevel =>
              IF Dismisses(warnings, Advanced, now)
                THEN /\ ~Settled(queue')
                     /\ \A e : Last(queue', e) => e.effect = "dismiss"
                ELSE /\ Settled(queue') <=> Settled(queue)
                     /\ \A e : Last(queue', e) <=> Last(queue, e)
PROOF
<1> DEFINE current == Advanced
           level == LevelRaised(warnings, current, now)
           down == Down(current)
           dismiss == [effect |-> "dismiss"]
           notify == [effect |-> "notify"]
           show == [effect |-> "show", about |-> DeadlineOf(current),
                    seconds |-> WholeSeconds(current.expiresAt - now)]
           sent == queue \o down
<1>1. queue \in Seq(Effect) /\ dismiss \in Effect /\ notify \in Effect
  BY EffectTypes DEF TypeOK
<1>2. /\ down \in Seq(Effect) /\ sent \in Seq(Effect)
      /\ Dismisses(warnings, current, now) => sent = Append(queue, dismiss)
      /\ ~Dismisses(warnings, current, now) => sent = queue
  <2>1. CASE Dismisses(warnings, current, now)
    <3>1. down = <<dismiss>>
      BY <2>1 DEF Down
    <3>2. Append(queue, dismiss) = queue \o <<dismiss>>
      BY <1>1, AppendIsConcat
    <3> HIDE DEF dismiss
    <3> QED BY <1>1, <2>1, <3>1, <3>2
  <2>2. CASE ~Dismisses(warnings, current, now)
    <3>1. down = <<>>
      BY <2>2 DEF Down
    <3> QED BY <1>1, <2>2, <3>1
  <2> QED BY <2>1, <2>2
<1>3. level \in Level
  BY AdvancedDeadline, LevelRaisedType DEF TypeOK
<1>4. level = FinalLevel => show \in Effect
  <2> SUFFICES ASSUME level = FinalLevel PROVE show \in Effect
    OBVIOUS
  <2>1. /\ DeadlineOf(current) \in Deadline
        /\ WholeSeconds(DeadlineOf(current).expiresAt - now) \in Nat \ {0}
    BY AdvancedDeadline, RaisedAhead DEF TypeOK, Silent, FinalLevel
  <2>2. DeadlineOf(current).expiresAt = current.expiresAt
    BY <2>1, ThresholdAssumption DEF DeadlineOf
  <2> QED BY <2>1, <2>2, EffectTypes
<1>5. /\ Raise(current) \in Seq(Effect)
      /\ queue' = sent \o Raise(current)
      /\ level = FinalLevel => queue' = Append(sent, show)
      /\ level = Silent => queue' = sent
      /\ level \notin {Silent, FinalLevel} => queue' = Append(sent, notify)
  <2>1. /\ level = FinalLevel => Raise(current) = <<show>>
        /\ level = Silent => Raise(current) = <<>>
        /\ level \notin {Silent, FinalLevel} => Raise(current) = <<notify>>
    <3>1. CASE level = Silent
      BY <3>1 DEF Raise, Silent, FinalLevel
    <3>2. CASE level = FinalLevel
      BY <3>2 DEF Raise, Silent, FinalLevel
    <3>3. CASE level \notin {Silent, FinalLevel}
      <4>1. level \in Silent + 1 .. FinalLevel - 1
        BY <1>3, <3>3 DEF Level, Silent, FinalLevel
      <4> HIDE DEF level, show, notify
      <4> QED BY <3>3, <4>1 DEF Raise, level, notify
    <3> QED BY <3>1, <3>2, <3>3
  <2>2. Raise(current) \in Seq(Effect)
    <3>1. \A e \in Effect : <<e>> \in Seq(Effect)
      OBVIOUS
    <3>2. <<>> \in Seq(Effect)
      OBVIOUS
    <3> HIDE DEF show, notify, current, level
    <3> QED BY <1>1, <1>4, <2>1, <3>1, <3>2
  <2>3. queue' = sent \o Raise(current)
    BY <1>1, <1>2, <2>2, ConcatAssociative DEF Effects
  <2> HIDE DEF sent, show, notify, current, level
  <2>4. /\ level = FinalLevel => Append(sent, show) = sent \o <<show>>
        /\ Append(sent, notify) = sent \o <<notify>>
    BY <1>1, <1>2, <1>4, AppendIsConcat
  <2>5. sent \o <<>> = sent
    BY <1>2
  <2> QED BY <2>1, <2>2, <2>3, <2>4, <2>5
<1>6. /\ dismiss.effect # "notify" /\ show.effect # "notify"
      /\ notify.effect = "notify" /\ dismiss.effect = "dismiss"
      /\ show.effect = "show" /\ show.about = DeadlineOf(current)
  OBVIOUS
<1> HIDE DEF sent, show, notify, dismiss, current, level
<1>7. IF Dismisses(warnings, current, now)
        THEN ~Settled(sent) /\ \A e : Last(sent, e) => e.effect = "dismiss"
        ELSE sent = queue
  <2>1. CASE Dismisses(warnings, current, now)
    <3>1. sent = Append(queue, dismiss)
      BY <1>2, <2>1
    <3>2. ~Settled(sent) /\ \A e : Last(sent, e) <=> e = dismiss
      BY <1>1, <1>6, <3>1, AppendEffect
    <3> QED BY <1>6, <2>1, <3>2
  <2>2. CASE ~Dismisses(warnings, current, now)
    BY <1>2, <2>2
  <2> QED BY <2>1, <2>2
<1>8. CASE level = FinalLevel
  <2>1. queue' = Append(sent, show) /\ show \in Effect
    BY <1>4, <1>5, <1>8
  <2>2. ~Settled(queue') /\ \A e : Last(queue', e) <=> e = show
    BY <1>2, <1>6, <2>1, AppendEffect
  <2> QED BY <1>2, <1>6, <1>8, <2>1, <2>2 DEF current, level
<1>9. CASE level # FinalLevel
  <2>1. /\ queue' \in Seq(Effect)
        /\ Settled(queue') <=> Settled(sent)
        /\ \A e : Last(queue', e) <=> Last(sent, e)
    <3>1. CASE level = Silent
      BY <1>2, <1>5, <3>1
    <3>2. CASE level # Silent
      <4>1. queue' = Append(sent, notify)
        BY <1>5, <1>9, <3>2
      <4>2. queue' \in Seq(Effect)
        BY <1>1, <1>2, <4>1
      <4> QED BY <1>1, <1>2, <1>6, <4>1, <4>2, AppendNotify
    <3> QED BY <3>1, <3>2
  <2> QED BY <1>7, <1>9, <2>1 DEF current, level
<1> QED BY <1>8, <1>9

-----------------------------------------------------------------------------
(* Types.                                                                  *)

(* What an effect carries, told by its kind.                               *)
LEMMA DoingKinds ==
  ASSUME TypeOK
  PROVE  /\ doing.effect \in {"none", "notify", "dismiss", "show", "spawn"}
         /\ doing.effect \in {"show", "spawn"} =>
              doing.about \in Deadline /\ doing.seconds \in Nat \ {0}
         /\ doing.effect = "show" => doing \in ShowEffect("show")
         /\ doing = Idle <=> doing.effect = "none"
BY DEF TypeOK, Effect, ShowEffect, Idle

(* Every variable keeps its type.                                          *)
LEMMA TypeStep == TypeOK /\ [Next]_vars => TypeOK'
PROOF
<1> SUFFICES ASSUME TypeOK, [Next]_vars PROVE TypeOK'
  OBVIOUS
<1> USE DEF Next, Loop, Thread, vars, OnSessionState, Tick, OnDecommission, Stop,
            Stopped, Kill, Start, Take, Notify, DismissFinalWarning, Replace,
            Spawn, NotShown, TakeDown, TakenDown, LeftUp, UserCloses, PassTime
<1>1. now' \in Nat
  BY DEF TypeOK
<1>2. faults' \in Nat
  BY DEF TypeOK, Fault
<1>3. session' \in Deadline \cup {NoDeadline}
  <2>1. \/ session' = session \/ session' = NoDeadline
        \/ session' = DeadlineOf(Advanced)
        \/ \E s \in SessionId : \E d \in Durations :
             session' = [id |-> s, expiresAt |-> now + d]
    OBVIOUS
  <2>2. \A d \in Durations : now + d \in Nat
    BY NotifierAssumption DEF TypeOK
  <2> HIDE DEF Next
  <2> QED BY <2>1, <2>2, AdvancedDeadline DEF TypeOK, Deadline
<1>4. released' \in BOOLEAN
  <2>1. UNCHANGED released \/ released' = TRUE
    OBVIOUS
  <2>2. released \in BOOLEAN
    BY DEF TypeOK
  <2> HIDE DEF Next
  <2> QED BY <2>1, <2>2
<1>5. proc' \in {"running", "stopping", "stopped"}
  BY DEF TypeOK
<1>6. warnings' \in Warnings
  <2>1. \/ warnings' = warnings \/ warnings' = NoWarnings
        \/ warnings' = Reconcile(warnings, Advanced, now)
    OBVIOUS
  <2> HIDE DEF Next
  <2>2. warnings \in Warnings /\ now \in Nat
    BY DEF TypeOK
  <2> QED BY <2>1, <2>2, AdvancedDeadline, NoWarningsType, ReconcileType
<1>7. queue' \in Seq(Effect)
  <2>1. \/ queue' = queue \/ queue' = <<>>
        \/ queue' = Append(queue, [effect |-> "dismiss"])
        \/ queue' = queue \o Effects(Advanced)
        \/ queue # <<>> /\ queue' = Tail(queue)
    OBVIOUS
  <2> HIDE DEF Next
  <2>2. queue \in Seq(Effect) /\ [effect |-> "dismiss"] \in Effect
    BY EffectTypes DEF TypeOK
  <2>3. queue' = queue \o Effects(Advanced) => queue' \in Seq(Effect)
    BY EffectsSent
  <2>4. queue' = Append(queue, [effect |-> "dismiss"]) => queue' \in Seq(Effect)
    BY <2>2
  <2>5. <<>> \in Seq(Effect) /\ (queue # <<>> => Tail(queue) \in Seq(Effect))
    BY <2>2
  <2> QED BY <2>1, <2>2, <2>3, <2>4, <2>5
<1>8. doing' \in Effect \cup ShowEffect("spawn") \cup {Idle}
  <2>1. \/ doing' = doing \/ doing' = Idle
        \/ queue # <<>> /\ doing' = Head(queue)
        \/ doing.effect = "show" /\ doing' = [doing EXCEPT !.effect = "spawn"]
    OBVIOUS
  <2> HIDE DEF Next
  <2>2. queue # <<>> => Head(queue) \in Effect
    BY DEF TypeOK
  <2>3. doing.effect = "show" =>
          [doing EXCEPT !.effect = "spawn"] \in ShowEffect("spawn")
    BY DoingKinds DEF ShowEffect
  <2> QED BY <2>1, <2>2, <2>3 DEF TypeOK
<1>9. handle' \in WarningName \cup {NoWarning}
  BY DEF TypeOK
<1>10. \A w \in onScreen' : w \in [name : WarningName, about : Deadline, closesAt : Nat]
  <2>1. \/ onScreen' \subseteq onScreen
        \/ doing.effect = "spawn" /\ \E name \in WarningName :
             onScreen' = onScreen \cup
               {[name |-> name, about |-> doing.about,
                 closesAt |-> now + doing.seconds * PerSecond]}
    OBVIOUS
  <2> HIDE DEF Next
  <2>2. doing.effect = "spawn" =>
          doing.about \in Deadline /\ now + doing.seconds * PerSecond \in Nat
    <3> SUFFICES ASSUME doing.effect = "spawn"
                 PROVE  doing.about \in Deadline /\ now + doing.seconds * PerSecond \in Nat
      OBVIOUS
    <3>1. doing.about \in Deadline /\ doing.seconds \in Nat /\ PerSecond \in Nat
      BY DoingKinds, ThresholdAssumption
    <3> HIDE DEF Next
    <3>2. doing.seconds * PerSecond \in Nat
      BY <3>1
    <3> QED BY <3>1, <3>2 DEF TypeOK
  <2> QED BY <2>1, <2>2 DEF TypeOK
<1> HIDE DEF Next
<1> QED BY <1>1, <1>2, <1>3, <1>4, <1>5, <1>6, <1>7, <1>8, <1>9, <1>10 DEF TypeOK

-----------------------------------------------------------------------------
(* The screen.                                                             *)

(* Warnings that differ by name are, but for one, not called h.            *)
LEMMA AllButOne ==
  ASSUME NEW S, IsFiniteSet(S), \A v, w \in S : v.name = w.name => v = w,
         NEW h
  PROVE  LET T == {w \in S : w.name # h}
         IN IsFiniteSet(T) /\ Cardinality(T) \in Nat
              /\ Cardinality(S) \in Nat /\ Cardinality(S) <= Cardinality(T) + 1
PROOF
<1> DEFINE T == {w \in S : w.name # h}
<1>1. IsFiniteSet(T) /\ Cardinality(T) \in Nat /\ Cardinality(S) \in Nat
  BY FS_Subset, FS_CardinalityType
<1>2. CASE \E w \in S : w.name = h
  <2>1. PICK w \in S : w.name = h
    BY <1>2
  <2>2. S = T \cup {w}
    BY <2>1
  <2> HIDE DEF T
  <2>3. \/ Cardinality(T \cup {w}) = Cardinality(T)
        \/ Cardinality(T \cup {w}) = Cardinality(T) + 1
    BY <1>1, FS_AddElement
  <2>4. Cardinality(S) <= Cardinality(T) + 1
    BY <1>1, <2>2, <2>3
  <2> QED BY <1>1, <2>4 DEF T
<1>3. CASE ~\E w \in S : w.name = h
  <2>1. T = S
    BY <1>3
  <2>2. Cardinality(S) = Cardinality(T)
    BY <2>1
  <2> HIDE DEF T
  <2>3. Cardinality(S) <= Cardinality(T) + 1
    BY <1>1, <2>2
  <2> QED BY <1>1, <2>3 DEF T
<1> QED BY <1>2, <1>3

(* A screen with fewer of the lost warnings, or with more failures, is one.*)
LEMMA ScreenShrinks ==
  ASSUME TypeOK, Screen, faults' \in Nat, faults' >= faults,
         onScreen' \subseteq onScreen, Orphans' \subseteq Orphans,
         doing'.effect = "spawn" => handle' = NoWarning
  PROVE  Screen'
PROOF
<1>1. IsFiniteSet(onScreen') /\ IsFiniteSet(Orphans)
  BY FS_Subset DEF Screen, Orphans
<1>2. /\ Cardinality(Orphans') <= Cardinality(Orphans)
      /\ Cardinality(Orphans') \in Nat /\ Cardinality(Orphans) \in Nat
  BY <1>1, FS_Subset, FS_CardinalityType
<1>3. Cardinality(Orphans') <= faults'
  BY <1>2 DEF Screen, TypeOK
<1> QED BY <1>1, <1>3 DEF Screen

(* Every step leaves at most as many warnings lost as failures happened.   *)
LEMMA ScreenStep == TypeOK /\ Screen /\ Gone /\ [Next]_vars => Screen'
PROOF
<1> SUFFICES ASSUME TypeOK, Screen, Gone, [Next]_vars PROVE Screen'
  OBVIOUS
<1>t. faults \in Nat /\ Cardinality(onScreen) \in Nat /\ Cardinality(Orphans) \in Nat
  BY FS_CardinalityType, AllButOne DEF TypeOK, Screen, Orphans
<1>1. ASSUME UNCHANGED <<onScreen, handle, faults, doing>> PROVE Screen'
  BY <1>1 DEF Screen, Orphans
<1>2. ASSUME Kill PROVE Screen'
  <2>1. /\ onScreen' = onScreen /\ handle' = handle /\ doing'.effect = "none"
        /\ faults' = faults + 1
    BY <1>2 DEF Kill, Fault, Idle
  <2>2. Orphans' = Orphans
    BY <2>1 DEF Orphans
  <2> QED BY <1>t, <2>1, <2>2, ScreenShrinks
<1>3. ASSUME Start PROVE Screen'
  <2>1. /\ onScreen' = onScreen /\ handle' = NoWarning /\ faults' = faults
        /\ doing' = doing /\ Cardinality(onScreen) <= faults
    BY <1>3 DEF Start, Gone
  <2>2. Orphans' \subseteq onScreen'
    BY DEF Orphans
  <2>3. IsFiniteSet(Orphans') /\ Cardinality(Orphans') <= Cardinality(onScreen)
    BY <2>1, <2>2, FS_Subset DEF Screen
  <2>4. Cardinality(Orphans') <= faults'
    BY <1>t, <2>1, <2>3, FS_CardinalityType
  <2> QED BY <2>1, <2>4 DEF Screen
<1>4. ASSUME Take PROVE Screen'
  <2>1. Head(queue) \in Effect /\ UNCHANGED <<onScreen, handle, faults>>
        /\ doing' = Head(queue)
    BY <1>4 DEF Take, TypeOK
  <2>2. doing'.effect # "spawn"
    BY <2>1 DEF Effect, ShowEffect
  <2> QED BY <2>1, <2>2 DEF Screen, Orphans
<1>5. ASSUME Notify \/ NotShown PROVE Screen'
  <2>1. /\ UNCHANGED <<onScreen, handle>> /\ doing'.effect = "none"
        /\ faults' \in {faults, faults + 1}
    BY <1>5 DEF Notify, NotShown, Fault, Idle
  <2>2. Orphans' = Orphans
    BY <2>1 DEF Orphans
  <2> QED BY <1>t, <2>1, <2>2, ScreenShrinks
<1>6. ASSUME DismissFinalWarning \/ Replace PROVE Screen'
  <2>1. handle' = NoWarning /\ (TakenDown \/ LeftUp)
    BY <1>6 DEF DismissFinalWarning, Replace, TakeDown
  <2>2. CASE TakenDown
    <3>1. onScreen' = Orphans /\ faults' = faults
      BY <2>2 DEF TakenDown, Orphans
    <3>2. Orphans' \subseteq Orphans /\ Orphans \subseteq onScreen
      BY <3>1 DEF Orphans
    <3> QED BY <1>t, <2>1, <3>1, <3>2, ScreenShrinks
  <2>3. CASE LeftUp
    <3>1. onScreen' = onScreen /\ faults' = faults + 1
      BY <2>3 DEF LeftUp, Fault
    <3>2. Orphans' \subseteq onScreen
      BY <3>1 DEF Orphans
    <3>3. Cardinality(onScreen) <= Cardinality(Orphans) + 1
      BY AllButOne DEF Screen, Orphans
    <3>4. /\ Cardinality(Orphans') <= Cardinality(onScreen)
          /\ Cardinality(Orphans') \in Nat
      BY <3>2, FS_Subset, FS_CardinalityType DEF Screen
    <3>5. Cardinality(Orphans') <= faults'
      BY <1>t, <3>1, <3>3, <3>4 DEF Screen
    <3> QED BY <2>1, <3>1, <3>5 DEF Screen
  <2> QED BY <2>1, <2>2, <2>3
<1>7. ASSUME Spawn PROVE Screen'
  <2>1. handle = NoWarning /\ doing.effect = "spawn" /\ doing'.effect = "none"
    BY <1>7 DEF Spawn, Screen, Idle
  <2>2. PICK name \in WarningName \ {w.name : w \in onScreen} :
          /\ onScreen' = onScreen \cup {[name |-> name, about |-> doing.about,
                                         closesAt |-> now + doing.seconds * PerSecond]}
          /\ \/ handle' = name /\ faults' = faults
             \/ handle' = handle /\ Fault
    BY <1>7 DEF Spawn
  <2> DEFINE new == [name |-> name, about |-> doing.about,
                     closesAt |-> now + doing.seconds * PerSecond]
  <2>3. /\ onScreen' = onScreen \cup {new} /\ new.name = name
        /\ \A w \in onScreen : w.name # name /\ w.name # NoWarning
    BY <2>2, NotifierAssumption DEF TypeOK
  <2> HIDE DEF new
  <2>4. /\ IsFiniteSet(onScreen')
        /\ Cardinality(onScreen') <= Cardinality(onScreen) + 1
        /\ \A v, w \in onScreen' : v.name = w.name => v = w
    BY <1>t, <2>3, FS_AddElement DEF Screen
  <2>5. Orphans = onScreen
    BY <2>1, <2>3 DEF Orphans
  <2>6. CASE handle' = name /\ faults' = faults
    <3>1. Orphans' = onScreen
      BY <2>3, <2>6 DEF Orphans
    <3> QED BY <2>1, <2>4, <2>5, <2>6, <3>1 DEF Screen
  <2>7. CASE handle' = handle /\ Fault
    <3>1. faults' = faults + 1 /\ Orphans' \subseteq onScreen'
      BY <2>7 DEF Fault, Orphans
    <3>2. Cardinality(Orphans') <= Cardinality(onScreen') /\ Cardinality(Orphans') \in Nat
          /\ Cardinality(onScreen') \in Nat
      BY <2>4, <3>1, FS_Subset, FS_CardinalityType
    <3>3. Cardinality(Orphans') <= faults'
      BY <1>t, <2>4, <2>5, <3>1, <3>2 DEF Screen
    <3> QED BY <2>1, <2>4, <3>3 DEF Screen
  <2> QED BY <2>2, <2>6, <2>7
<1>8. ASSUME UserCloses \/ PassTime PROVE Screen'
  <2>1. onScreen' \subseteq onScreen /\ UNCHANGED <<handle, doing, faults>>
    BY <1>8 DEF UserCloses, PassTime
  <2>2. Orphans' \subseteq Orphans
    BY <2>1 DEF Orphans
  <2>3. doing'.effect = "spawn" => handle' = NoWarning
    BY <2>1 DEF Screen
  <2> QED BY <1>t, <2>1, <2>2, <2>3, ScreenShrinks
<1>9. ASSUME OnSessionState \/ Tick \/ OnDecommission \/ Stop \/ Stopped
             \/ UNCHANGED vars
      PROVE  Screen'
  BY <1>1, <1>9 DEF OnSessionState, Tick, OnDecommission, Stop, Stopped, vars
<1> QED
  BY <1>2, <1>3, <1>4, <1>5, <1>6, <1>7, <1>8, <1>9 DEF Next, Loop, Thread


-----------------------------------------------------------------------------
(* A process that is gone.                                                 *)

(* One that stops has gone through the queue, and so put nothing to its    *)
(* name on screen; one that is killed leaves what it had, at most one.     *)
LEMMA GoneStep == TypeOK /\ Screen /\ Gone /\ Tracks /\ [Next]_vars => Gone'
PROOF
<1> SUFFICES ASSUME TypeOK, Screen, Gone, Tracks, [Next]_vars, proc' = "stopped"
             PROVE  queue' = <<>> /\ doing' = Idle /\ Cardinality(onScreen') <= faults'
  BY DEF Gone
<1>t. faults \in Nat /\ Cardinality(onScreen) \in Nat /\ Cardinality(Orphans) \in Nat
  BY FS_CardinalityType, AllButOne DEF TypeOK, Screen, Orphans
<1>1. CASE Stopped
  <2>1. /\ queue = <<>> /\ doing = Idle /\ proc = "stopping"
        /\ UNCHANGED <<queue, doing, onScreen, faults>>
    BY <1>1 DEF Stopped
  <2>2. \A w \in onScreen : w.name # handle
    BY <2>1, NothingLeft DEF Tracks, AsDecided, Decided, Idle
  <2>3. onScreen = Orphans
    BY <2>2 DEF Orphans
  <2>4. Cardinality(onScreen') <= faults'
    BY <2>1, <2>3 DEF Screen
  <2> QED BY <2>1, <2>4
<1>2. CASE Kill
  <2>1. queue' = <<>> /\ doing' = Idle /\ onScreen' = onScreen /\ faults' = faults + 1
    BY <1>2 DEF Kill, Fault
  <2>2. Cardinality(onScreen) <= Cardinality(Orphans) + 1
    BY AllButOne DEF Screen, Orphans
  <2>3. Cardinality(onScreen) <= faults + 1
    BY <1>t, <2>2 DEF Screen
  <2>4. Cardinality(onScreen') <= faults'
    BY <2>1, <2>3
  <2> QED BY <2>1, <2>4
<1>3. CASE UserCloses \/ PassTime \/ UNCHANGED vars
  <2>1. /\ onScreen' \subseteq onScreen /\ faults' = faults
        /\ UNCHANGED <<proc, queue, doing>>
    BY <1>3 DEF UserCloses, PassTime, vars
  <2>2. Cardinality(onScreen') <= Cardinality(onScreen) /\ Cardinality(onScreen') \in Nat
    BY <2>1, FS_Subset, FS_CardinalityType DEF Screen
  <2>3. queue = <<>> /\ doing = Idle /\ Cardinality(onScreen) <= faults
    BY <2>1 DEF Gone
  <2>4. Cardinality(onScreen') <= faults'
    BY <1>t, <2>1, <2>2, <2>3
  <2> QED BY <2>1, <2>3, <2>4
<1>4. ~(OnSessionState \/ Tick \/ OnDecommission \/ Stop \/ Start)
  BY DEF OnSessionState, Tick, OnDecommission, Stop, Start
<1>5. ~(Take \/ Notify \/ DismissFinalWarning \/ Replace \/ Spawn \/ NotShown)
  <2> SUFFICES ASSUME Take \/ Notify \/ DismissFinalWarning \/ Replace \/ Spawn \/ NotShown
               PROVE  FALSE
    OBVIOUS
  <2>1. proc = "stopped"
    BY DEF Take, Notify, DismissFinalWarning, Replace, Spawn, NotShown
  <2>2. queue = <<>> /\ doing.effect = "none"
    BY <2>1 DEF Gone, Idle
  <2> QED BY <2>2 DEF Take, Notify, DismissFinalWarning, Replace, Spawn, NotShown
<1> QED BY <1>1, <1>2, <1>3, <1>4, <1>5 DEF Next, Loop, Thread

-----------------------------------------------------------------------------
(* The screen against the decision.                                        *)

(* A tick that raises no final warning and takes none down decides nothing *)
(* new; every other sends what it decided, last.                           *)
LEMMA TickOutcome ==
  ASSUME TypeOK, Keyed, Tick
  PROVE  /\ Keyed'
         /\ \/ /\ ~Settled(queue')
               /\ \A e : Last(queue', e) => e.effect = "show" /\ AsDecided(e.about)'
            \/ /\ ~Settled(queue') /\ ~Decided'
               /\ \A e : Last(queue', e) => e.effect = "dismiss"
            \/ /\ Settled(queue') <=> Settled(queue)
               /\ \A e : Last(queue', e) <=> Last(queue, e)
               /\ Decided' <=> Decided
               /\ \A d : AsDecided(d) => AsDecided(d)'
PROOF
<1> DEFINE level == LevelRaised(warnings, Advanced, now)
           down == Dismisses(warnings, Advanced, now)
<1>1. /\ proc = "running" /\ ~released /\ proc' = "running" /\ ~released'
      /\ warnings' = Reconcile(warnings, Advanced, now)
      /\ queue' = queue \o Effects(Advanced)
  BY DEF Tick
<1>2. /\ warnings \in Warnings /\ now \in Nat
      /\ DeadlineOf(Advanced) \in Deadline \cup {NoDeadline}
  BY AdvancedDeadline DEF TypeOK
<1>3. /\ level = FinalLevel => warnings'.finalVisible /\ warnings'.key = DeadlineOf(Advanced)
      /\ level # FinalLevel => (warnings'.finalVisible <=> warnings.finalVisible /\ ~down)
      /\ level # FinalLevel /\ warnings'.finalVisible => warnings'.key = warnings.key
      /\ Keyed'
  BY <1>1, <1>2, FinalOutcome DEF Keyed
<1>4. CASE level = FinalLevel
  BY <1>1, <1>3, <1>4, EffectsSent DEF AsDecided, Decided
<1>5. CASE level # FinalLevel /\ down
  BY <1>1, <1>3, <1>5, EffectsSent DEF Decided
<1>6. CASE level # FinalLevel /\ ~down
  <2>1. /\ Settled(queue') <=> Settled(queue)
        /\ \A e : Last(queue', e) <=> Last(queue, e)
    BY <1>1, <1>6, EffectsSent
  <2>2. Decided' <=> Decided
    BY <1>1, <1>3, <1>6 DEF Decided
  <2>3. Decided => warnings'.key = warnings.key
    BY <1>3, <1>6, <2>2 DEF Decided
  <2> QED BY <1>3, <2>1, <2>2, <2>3 DEF AsDecided
<1> QED BY <1>4, <1>5, <1>6

(* Sending a dismissal leaves nothing else under way.                      *)
LEMMA DismissSent ==
  ASSUME TypeOK, queue' = Append(queue, [effect |-> "dismiss"])
  PROVE  ~Settled(queue') /\ \A e : Last(queue', e) => e.effect = "dismiss"
PROOF
<1> DEFINE dismiss == [effect |-> "dismiss"]
<1>1. queue \in Seq(Effect) /\ dismiss \in Effect /\ dismiss.effect = "dismiss"
  BY EffectTypes DEF TypeOK
<1> HIDE DEF dismiss
<1>2. queue' = Append(queue, dismiss)
  BY DEF dismiss
<1> QED BY <1>1, <1>2, AppendEffect

(* Every step keeps what is last under way, or else on screen, as decided. *)
LEMMA TracksStep ==
  TypeOK /\ Screen /\ Gone /\ Tracks /\ Keyed /\ [Next]_vars => Tracks'
PROOF
<1> SUFFICES ASSUME TypeOK, Screen, Gone, Tracks, Keyed, [Next]_vars,
                    proc' # "stopped"
             PROVE  Tracks'
  BY DEF Tracks
<1>n. \A w \in onScreen : w.name # NoWarning
  BY NotifierAssumption DEF TypeOK
<1>1. ASSUME UNCHANGED <<proc, released, warnings, queue, doing, handle>>,
             onScreen' \subseteq onScreen
      PROVE  Tracks'
  BY <1>1 DEF Tracks, AsDecided, Decided
<1>2. CASE Tick
  <2>1. /\ UNCHANGED <<doing, handle, onScreen>> /\ proc # "stopped"
    BY <1>2 DEF Tick
  <2> QED BY <1>2, <2>1, TickOutcome DEF Tracks
<1>3. CASE OnDecommission \/ Stop
  <2>1. queue' = Append(queue, [effect |-> "dismiss"])
    BY <1>3 DEF OnDecommission, Stop
  <2> QED BY <2>1, DismissSent DEF Tracks
<1>4. CASE Stopped \/ Kill
  BY <1>4 DEF Stopped, Kill
<1>5. CASE Start
  <2>1. /\ queue' = <<>> /\ doing'.effect = "none" /\ handle' = NoWarning
        /\ onScreen' = onScreen
    BY <1>5 DEF Start, Gone, Idle
  <2> QED BY <1>n, <2>1, NothingLeft DEF Tracks
<1>6. CASE Take
  <2>1. /\ proc # "stopped" /\ UNCHANGED <<proc, released, warnings, handle, onScreen>>
        /\ doing.effect = "none" /\ queue # <<>> /\ queue \in Seq(Effect)
        /\ doing' = Head(queue) /\ queue' = Tail(queue) /\ Head(queue) \in Effect
    BY <1>6 DEF Take, TypeOK, Idle
  <2>2. /\ Settled(queue) <=> Settled(queue') /\ doing'.effect = "notify"
        /\ \A e : Last(queue', e) => Last(queue, e)
        /\ Settled(queue') /\ doing'.effect # "notify" => Last(queue, doing')
    BY <2>1, TakeHead
  <2>3. doing'.effect \in {"notify", "dismiss", "show"}
    BY <2>1 DEF Effect, ShowEffect
  <2>4. \A d : AsDecided(d) => AsDecided(d)'
    BY <2>1 DEF AsDecided, Decided
  <2>5. \A e \in Effect : Last(queue', e) => e.effect = "dismiss" \/ AsDecided(e.about)'
    BY <2>1, <2>2, <2>4 DEF Tracks
  <2>6. Settled(queue') /\ doing'.effect \in {"show", "spawn"} => AsDecided(doing.about)'
    BY <2>1, <2>2, <2>3, <2>4 DEF Tracks
  <2>7. Settled(queue') /\ doing'.effect \in {"none", "notify"} =>
          /\ handle' # NoWarning => Decided'
          /\ \A w \in onScreen' : w.name = handle' => AsDecided(w.about)'
    BY <2>1, <2>2, <2>3, <2>4 DEF Tracks, Decided
  <2> QED BY <2>5, <2>6, <2>7 DEF Tracks
<1>7. CASE Notify
  <2>1. /\ proc # "stopped"
        /\ UNCHANGED <<proc, released, warnings, queue, handle, onScreen>>
        /\ doing.effect = "notify" /\ doing'.effect = "none"
    BY <1>7 DEF Notify, Idle
  <2> QED BY <2>1 DEF Tracks, AsDecided, Decided
<1>8. CASE DismissFinalWarning
  <2>1. /\ proc # "stopped"
        /\ UNCHANGED <<proc, released, warnings, queue>>
        /\ doing'.effect = "none" /\ handle' = NoWarning /\ onScreen' \subseteq onScreen
    BY <1>8 DEF DismissFinalWarning, TakeDown, TakenDown, LeftUp, Idle
  <2> QED BY <1>n, <2>1 DEF Tracks, AsDecided, Decided
<1>9. CASE Replace
  <2>1. /\ proc # "stopped"
        /\ UNCHANGED <<proc, released, warnings, queue>>
        /\ doing.effect = "show" /\ doing'.effect = "spawn" /\ doing'.about = doing.about
    BY <1>9, DoingKinds DEF Replace, ShowEffect
  <2> QED BY <2>1 DEF Tracks, AsDecided, Decided
<1>10. CASE NotShown
  <2>1. /\ proc # "stopped" /\ handle' = NoWarning /\ onScreen' = onScreen
        /\ UNCHANGED <<proc, released, warnings, queue>> /\ doing'.effect = "none"
    BY <1>10 DEF NotShown, Screen, Idle
  <2> QED BY <1>n, <2>1 DEF Tracks, AsDecided, Decided
<1>11. CASE Spawn
  <2>1. /\ proc # "stopped" /\ handle = NoWarning
        /\ UNCHANGED <<proc, released, warnings, queue>>
        /\ doing.effect = "spawn" /\ doing'.effect = "none"
    BY <1>11 DEF Spawn, Screen, Idle
  <2>2. PICK name \in WarningName \ {w.name : w \in onScreen} :
          /\ onScreen' = onScreen \cup {[name |-> name, about |-> doing.about,
                                         closesAt |-> now + doing.seconds * PerSecond]}
          /\ handle' \in {name, handle}
    BY <1>11 DEF Spawn
  <2> DEFINE new == [name |-> name, about |-> doing.about,
                     closesAt |-> now + doing.seconds * PerSecond]
  <2>3. /\ onScreen' = onScreen \cup {new} /\ new.name = name
        /\ new.about = doing.about /\ name # NoWarning
        /\ \A w \in onScreen : w.name # name
    BY <2>2, NotifierAssumption
  <2> HIDE DEF new
  <2>4. \A d : AsDecided(d) => AsDecided(d)'
    BY <2>1 DEF AsDecided, Decided
  <2>5. \A w \in onScreen' : w.name = handle' => w = new
    BY <1>n, <2>1, <2>2, <2>3
  <2>6. Settled(queue) => AsDecided(doing.about)
    BY <2>1 DEF Tracks
  <2>7. Settled(queue') =>
          /\ Decided'
          /\ \A w \in onScreen' : w.name = handle' => AsDecided(w.about)'
    BY <2>1, <2>3, <2>4, <2>5, <2>6 DEF AsDecided
  <2>8. \A e \in Effect : Last(queue', e) => e.effect = "dismiss" \/ AsDecided(e.about)'
    BY <2>1, <2>4 DEF Tracks
  <2> QED BY <2>1, <2>7, <2>8 DEF Tracks
<1>12. CASE OnSessionState \/ UserCloses \/ PassTime \/ UNCHANGED vars
  BY <1>1, <1>12 DEF OnSessionState, UserCloses, PassTime, vars
<1> QED
  BY <1>2, <1>3, <1>4, <1>5, <1>6, <1>7, <1>8, <1>9, <1>10, <1>11, <1>12
  DEF Next, Loop, Thread

(* While no call fails, every step keeps what was decided under way or up. *)
LEMMA BelievesStep ==
  TypeOK /\ Screen /\ Gone /\ Believes /\ Keyed /\ [Next]_vars => Believes'
PROOF
<1> SUFFICES ASSUME TypeOK, Screen, Gone, Believes, Keyed, [Next]_vars,
                    proc' = "running", faults' = 0, Decided'
             PROVE  Believes'
  BY DEF Believes
<1>f. faults \in Nat
  BY DEF TypeOK
<1>1. ASSUME UNCHANGED <<proc, released, warnings, queue, doing, handle, faults>>
      PROVE  Believes'
  BY <1>1 DEF Believes, Decided
<1>2. CASE Tick
  <2>1. UNCHANGED <<doing, handle, faults>> /\ proc = "running"
    BY <1>2 DEF Tick
  <2>2. \A e : e.effect = "show" => e.effect # "dismiss"
    OBVIOUS
  <2> QED BY <1>2, <2>1, <2>2, TickOutcome DEF Believes
<1>3. CASE OnDecommission \/ Stop \/ Stopped \/ Start
  <2>1. CASE OnDecommission
    BY <2>1 DEF OnDecommission, Decided
  <2>2. CASE Stop \/ Stopped
    BY <2>2 DEF Stop, Stopped
  <2>3. CASE Start
    BY <2>3 DEF Start, Decided, NoWarnings
  <2> QED BY <1>3, <2>1, <2>2, <2>3
<1>4. ~(Kill \/ NotShown \/ LeftUp)
  BY <1>f DEF Kill, NotShown, LeftUp, Fault
<1>5. CASE Take
  <2>1. /\ UNCHANGED <<proc, released, warnings, handle, faults>>
        /\ doing.effect = "none" /\ queue # <<>> /\ queue \in Seq(Effect)
        /\ doing' = Head(queue) /\ queue' = Tail(queue) /\ Head(queue) \in Effect
    BY <1>5 DEF Take, TypeOK, Idle
  <2>2. /\ Settled(queue) <=> Settled(queue') /\ doing'.effect = "notify"
        /\ \A e : Last(queue', e) => Last(queue, e)
        /\ Settled(queue') /\ doing'.effect # "notify" => Last(queue, doing')
    BY <2>1, TakeHead
  <2>3. doing'.effect \in {"notify", "dismiss", "show"}
    BY <2>1 DEF Effect, ShowEffect
  <2>4. Decided
    BY <2>1 DEF Decided
  <2>5. /\ \A e \in Effect : Last(queue', e) => e.effect # "dismiss"
        /\ Settled(queue') => doing'.effect # "dismiss"
        /\ Settled(queue') /\ doing'.effect \in {"none", "notify"} => handle' # NoWarning
    BY <2>1, <2>2, <2>3, <2>4 DEF Believes
  <2> QED BY <2>5 DEF Believes
<1>6. CASE Notify
  <2>1. /\ UNCHANGED <<proc, released, warnings, queue, handle, faults>>
        /\ doing.effect = "notify" /\ doing'.effect = "none"
    BY <1>6 DEF Notify, Idle
  <2> QED BY <2>1 DEF Believes, Decided
<1>7. CASE DismissFinalWarning
  <2>1. /\ UNCHANGED <<proc, released, warnings, queue, faults>>
        /\ doing.effect = "dismiss" /\ doing'.effect = "none"
    BY <1>4, <1>7 DEF DismissFinalWarning, TakeDown, TakenDown, Idle
  <2> QED BY <2>1 DEF Believes, Decided
<1>8. CASE Replace
  <2>1. /\ UNCHANGED <<proc, released, warnings, queue, faults>>
        /\ doing.effect = "show" /\ doing'.effect = "spawn"
    BY <1>4, <1>8, DoingKinds DEF Replace, TakeDown, TakenDown, ShowEffect
  <2> QED BY <2>1 DEF Believes, Decided
<1>9. CASE Spawn
  <2>1. /\ UNCHANGED <<proc, released, warnings, queue, faults>>
        /\ handle' \in WarningName /\ doing'.effect = "none"
    BY <1>f, <1>9 DEF Spawn, Fault, Idle
  <2>2. doing.effect = "spawn" /\ handle' # NoWarning
    BY <1>9, <2>1, NotifierAssumption DEF Spawn
  <2> QED BY <2>1, <2>2 DEF Believes, Decided
<1>10. CASE OnSessionState \/ UserCloses \/ PassTime \/ UNCHANGED vars
  BY <1>1, <1>10 DEF OnSessionState, UserCloses, PassTime, vars
<1> QED
  BY <1>2, <1>3, <1>4, <1>5, <1>6, <1>7, <1>8, <1>9, <1>10 DEF Next, Loop, Thread

-----------------------------------------------------------------------------
(* The invariant.                                                          *)

(* Only a tick changes what the loop takes to be visible, or a new process.*)
LEMMA KeyedStep == TypeOK /\ Keyed /\ [Next]_vars => Keyed'
PROOF
<1> SUFFICES ASSUME TypeOK, Keyed, [Next]_vars PROVE Keyed'
  OBVIOUS
<1>1. CASE Tick
  BY <1>1, TickOutcome
<1>2. CASE Start
  BY <1>2 DEF Start, Keyed, NoWarnings
<1>3. CASE UNCHANGED warnings
  BY <1>3 DEF Keyed
<1>4. Tick \/ Start \/ UNCHANGED warnings
  BY DEF Next, Loop, Thread, vars, OnSessionState, OnDecommission, Stop, Stopped,
         Kill, Take, Notify, DismissFinalWarning, Replace, Spawn, NotShown,
         UserCloses, PassTime
<1> QED BY <1>1, <1>2, <1>3, <1>4

LEMMA InvStep == Inv /\ [Next]_vars => Inv'
BY TypeStep, ScreenStep, GoneStep, TracksStep, BelievesStep, KeyedStep DEF Inv

LEMMA Invariance == Spec => []Inv
PROOF
<1>1. Init => Inv
  BY InitInv
<1>2. Inv /\ [Next]_vars => Inv'
  BY InvStep
<1> QED BY <1>1, <1>2, PTL DEF Spec

-----------------------------------------------------------------------------
(* The theorems.                                                           *)

(* Every state of the loop, the thread and the screen has its type         *)
(* (agent/src/main.rs, agent/src/platform/mod.rs).                         *)
THEOREM TypeCorrect == Spec => []TypeOK
PROOF
<1>1. Inv => TypeOK
  BY DEF Inv
<1> QED BY <1>1, Invariance, PTL

(* A final warning replaces the one before it, whatever was sent and       *)
(* however late: there is one, but for the failed calls and the kills      *)
(* (agent/src/platform/mod.rs, show_final_warning).                        *)
THEOREM NeverTwoFinal == Spec => []OneFinalWarning
PROOF
<1>1. Inv => OneFinalWarning
  <2> SUFFICES ASSUME Inv PROVE Cardinality(onScreen) <= 1 + faults
    BY DEF OneFinalWarning
  <2>1. /\ Cardinality(onScreen) <= Cardinality(Orphans) + 1
        /\ Cardinality(onScreen) \in Nat /\ Cardinality(Orphans) \in Nat
    BY AllButOne DEF Inv, Screen, Orphans
  <2>2. Cardinality(Orphans) <= faults /\ faults \in Nat
    BY DEF Inv, Screen, TypeOK
  <2> QED BY <2>1, <2>2
<1> QED BY <1>1, Invariance, PTL

(* When the thread has caught up, only what failed to come down is on      *)
(* screen against the loop's last decision (agent/src/warning.rs,          *)
(* reconcile; agent/src/main.rs, accept_decommission).                     *)
THEOREM DecisionReachesScreen == Spec => []ScreenFollowsDecision
PROOF
<1>1. Inv => ScreenFollowsDecision
  <2> DEFINE Astray == {w \in onScreen : ~(Decided /\ w.about = warnings.key)}
  <2> SUFFICES ASSUME Inv, Quiet PROVE Cardinality(Astray) <= faults
    BY DEF ScreenFollowsDecision
  <2>1. queue = <<>> /\ doing.effect = "none" /\ proc # "stopped"
    BY DEF Quiet, Idle
  <2>2. Astray \subseteq Orphans
    BY <2>1, NothingLeft DEF Inv, Tracks, AsDecided, Orphans
  <2>3. IsFiniteSet(Orphans)
    BY FS_Subset DEF Inv, Screen, Orphans
  <2> HIDE DEF Astray
  <2>4. /\ Cardinality(Astray) <= Cardinality(Orphans)
        /\ Cardinality(Astray) \in Nat /\ Cardinality(Orphans) \in Nat
    BY <2>2, <2>3, FS_Subset, FS_CardinalityType
  <2>5. Cardinality(Orphans) <= faults /\ faults \in Nat
    BY DEF Inv, Screen, TypeOK
  <2> QED BY <2>4, <2>5
<1> QED BY <1>1, Invariance, PTL

(* While no call fails, the loop takes a final warning to be visible just  *)
(* when the notifier holds one (final_visible of agent/src/warning.rs).    *)
THEOREM BeliefsStayTrue == Spec => []BeliefsAgree
PROOF
<1>1. Inv => BeliefsAgree
  <2> SUFFICES ASSUME Inv, Quiet, faults = 0 PROVE Decided <=> handle # NoWarning
    BY DEF BeliefsAgree
  <2>1. Settled(queue) /\ doing.effect = "none" /\ proc = "running"
    BY NothingLeft DEF Quiet, Idle
  <2>2. handle # NoWarning => Decided
    BY <2>1 DEF Inv, Tracks
  <2>3. Decided => handle # NoWarning
    BY <2>1 DEF Inv, Believes
  <2> QED BY <2>2, <2>3
<1> QED BY <1>1, Invariance, PTL

(* A process that stopped left only what failed to come down, or what it   *)
(* was killed over (agent/src/main.rs, the end of the warnings thread).    *)
THEOREM StopCleansUp == Spec => []StoppedLeavesNothing
PROOF
<1>1. Inv => StoppedLeavesNothing
  BY DEF Inv, Gone, StoppedLeavesNothing
<1> QED BY <1>1, Invariance, PTL
=============================================================================
