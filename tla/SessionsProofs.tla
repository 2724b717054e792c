--------------------------- MODULE SessionsProofs ---------------------------
(***************************************************************************)
(* What holds of Sessions for every number of callers and session ids, all *)
(* durations and every bound of time, requests and lost connections.       *)
(***************************************************************************)
EXTENDS Sessions, TLAPS

(* A handler that extends or ends has read a row, and rows are not deleted.*)
RowsExist ==
  \A c \in Caller :
    call[c].step \in {"extend", "end", "extending", "ending"}
      => rows[call[c].row.id] # NoRow

(* The id of a row to be inserted is nobody else's.                        *)
FreshIds ==
  \A c \in Caller :
    call[c].step = "inserting" =>
      /\ rows[call[c].row.id] = NoRow
      /\ \A d \in Caller \ {c} :
           call[d].row # NoRow => call[d].row.id # call[c].row.id

Inv == TypeOK /\ RowsExist /\ FreshIds

-----------------------------------------------------------------------------
(* What can happen to the table in one step.                               *)

Inserted(row) ==
  /\ rows[row.id] = NoRow /\ ActiveIn(rows) = {}
  /\ rows' = [rows EXCEPT ![row.id] = row]

Updated(row) ==
  /\ rows[row.id] # NoRow
  /\ row.status \in {rows[row.id].status, "ENDED"}
  /\ rows' = [rows EXCEPT ![row.id] = row]

TableStep ==
  \/ rows' = rows
  \/ rows' = ExpireStale(rows, now)
  \/ \E row \in Session : Inserted(row) \/ Updated(row)

-----------------------------------------------------------------------------
(* expireStaleActiveSession (sessions.service.ts) writes session rows and  *)
(* deletes none.                                                           *)
LEMMA ExpireStaleType ==
  ASSUME NEW table \in [SessionId -> Session \cup {NoRow}], NEW t \in Nat
  PROVE  /\ ExpireStale(table, t) \in [SessionId -> Session \cup {NoRow}]
         /\ \A s \in SessionId :
              /\ ExpireStale(table, t)[s] = NoRow <=> table[s] = NoRow
              /\ table[s] # NoRow => ExpireStale(table, t)[s].id = table[s].id
              /\ \/ ExpireStale(table, t)[s] = table[s]
                 \/ /\ table[s] # NoRow /\ table[s].status = "ACTIVE"
                    /\ ExpireStale(table, t)[s].status = "EXPIRED"
BY SessionsAssumption DEF ExpireStale, ActiveIn, Session, Status

(* The row a start inserts is a session (sessions.service.ts).             *)
LEMMA NewRowType ==
  ASSUME NEW s \in SessionId, NEW minutes \in Minutes, now \in Nat
  PROVE  NewRow(s, minutes) \in Session /\ NewRow(s, minutes).id = s
BY SessionsAssumption DEF NewRow, Session, Status

(* randomUUID gives an id of the set it is taken from.                     *)
LEMMA SomeIdType ==
  ASSUME NEW ids, ids # {}
  PROVE  SomeId(ids) \in ids
BY DEF SomeId

-----------------------------------------------------------------------------
(* The initial states are of the invariant, with at most one session.      *)
LEMMA InitInv == Init => Inv /\ OneActive
PROOF
<1> SUFFICES ASSUME Init PROVE Inv /\ OneActive
  OBVIOUS
<1>1. rows \in [SessionId -> Session \cup {NoRow}]
  BY SessionsAssumption DEF Init, Session, Status
<1>2. \A s \in SessionId : rows[s] # NoRow => rows[s].id = s
  BY SessionsAssumption DEF Init
<1>3. OneActive
  BY DEF Init, OneActive, ActiveIn
<1>4. /\ now \in Nat /\ lastApplied \in Nat
      /\ held \in Session \cup {NoSession}
      /\ connected \in BOOLEAN
  BY DEF Init
<1>9. calls \in 0 .. MaxCalls /\ losses \in 0 .. MaxLosses
  BY SessionsAssumption, MaxCalls \in Nat, MaxLosses \in Nat DEF Init
<1>5. /\ call \in [Caller -> [step : Step, row : Session \cup {NoRow}]]
      /\ \A c \in Caller : call[c] = Idle
  BY DEF Init, Idle, Step
<1>6. greeting \in [step : {"none", "expire", "find", "send"},
                    session : Session \cup {NoSession}]
  BY DEF Init, NoGreeting
<1>7. channel \in Seq(Message)
  BY DEF Init
<1>8. TypeOK
  BY <1>1, <1>2, <1>4, <1>5, <1>6, <1>7, <1>9 DEF TypeOK, Idle
<1> QED BY <1>3, <1>5, <1>8 DEF Inv, RowsExist, FreshIds, Idle

-----------------------------------------------------------------------------
(* Every step of a handler, the sweeper or the gateway does one of four    *)
(* things to the table (sessions.service.ts).                              *)
LEMMA StepIsTableStep == Inv /\ [Next]_vars => TableStep
PROOF
<1> SUFFICES ASSUME Inv, [Next]_vars PROVE TableStep
  OBVIOUS
<1> USE DEF TableStep
<1>1. ASSUME NEW c \in Caller, Request(c) PROVE TableStep
  BY <1>1 DEF Request, BeginStart, ReadSession
<1>2. ASSUME NEW c \in Caller, Insert(c) PROVE TableStep
  <2>1. CASE rows' = rows
    BY <2>1
  <2>2. CASE rows' # rows
    <3>1. /\ call[c].step = "inserting" /\ ActiveIn(rows) = {}
          /\ rows' = [rows EXCEPT ![call[c].row.id] = call[c].row]
      BY <1>2, <2>2 DEF Insert, Goes
    <3>2. call[c].row \in Session
      BY <3>1 DEF Inv, TypeOK
    <3>3. Inserted(call[c].row)
      BY <3>1 DEF Inv, FreshIds, Inserted
    <3> QED BY <3>2, <3>3
  <2> QED BY <2>1, <2>2
<1>3. ASSUME NEW c \in Caller, Extend(c) PROVE TableStep
  <2> DEFINE new == call[c].row
             row == [rows[new.id] EXCEPT !.expiresAt = new.expiresAt,
                                         !.updatedAt = new.updatedAt]
  <2>1. /\ call[c].step = "extending"
        /\ rows' = [rows EXCEPT ![row.id] = row]
    BY <1>3 DEF Extend, Written
  <2>2. new \in Session /\ rows[new.id] \in Session /\ rows[new.id].id = new.id
    BY <2>1 DEF Inv, TypeOK, RowsExist, Session
  <2>3. row \in Session /\ row.id = new.id /\ row.status = rows[new.id].status
    BY <2>2 DEF Session
  <2>4. Updated(row)
    BY <2>1, <2>2, <2>3, SessionsAssumption DEF Updated
  <2> QED BY <2>3, <2>4
<1>4. ASSUME NEW c \in Caller, End(c) PROVE TableStep
  <2> DEFINE new == call[c].row
             row == [rows[new.id] EXCEPT !.status = "ENDED",
                                         !.updatedAt = new.updatedAt]
  <2>1. /\ call[c].step = "ending"
        /\ rows' = [rows EXCEPT ![row.id] = row]
    BY <1>4 DEF End, Written
  <2>2. new \in Session /\ rows[new.id] \in Session /\ rows[new.id].id = new.id
    BY <2>1 DEF Inv, TypeOK, RowsExist, Session
  <2>3. row \in Session /\ row.id = new.id /\ row.status = "ENDED"
    BY <2>2 DEF Session, Status
  <2>4. Updated(row)
    BY <2>1, <2>2, <2>3, SessionsAssumption DEF Updated
  <2> QED BY <2>3, <2>4
<1>5. ASSUME NEW c \in Caller, Continue(c), ~Insert(c), ~Extend(c), ~End(c)
      PROVE  TableStep
  BY <1>5 DEF Continue, IssueCreate, Refuse, IssueExtend, IssueEnd, Push
<1>6. CASE Sweep
  BY <1>6 DEF Sweep
<1>7. CASE Greet
  BY <1>7 DEF Greet, GreetExpire, GreetFind, GreetSend
<1>8. CASE Connect \/ Lose \/ Receive \/ ExpireLocally \/ PassTime
  BY <1>8 DEF Connect, Lose, Receive, ExpireLocally, PassTime
<1>9. CASE UNCHANGED vars
  BY <1>9 DEF vars
<1> QED BY <1>1, <1>2, <1>3, <1>4, <1>5, <1>6, <1>7, <1>8, <1>9 DEF Next

(* The table keeps its type, its ids and its rows.                         *)
LEMMA TableStepType ==
  ASSUME TypeOK, TableStep
  PROVE  /\ rows' \in [SessionId -> Session \cup {NoRow}]
         /\ \A s \in SessionId :
              /\ rows'[s] # NoRow => rows'[s].id = s
              /\ rows[s] # NoRow => rows'[s] # NoRow
PROOF
<1>1. CASE rows' = rows
  BY <1>1 DEF TypeOK
<1>2. CASE rows' = ExpireStale(rows, now)
  BY <1>2, ExpireStaleType DEF TypeOK
<1>3. ASSUME NEW row \in Session, Inserted(row) \/ Updated(row)
      PROVE  /\ rows' \in [SessionId -> Session \cup {NoRow}]
             /\ \A s \in SessionId :
                  /\ rows'[s] # NoRow => rows'[s].id = s
                  /\ rows[s] # NoRow => rows'[s] # NoRow
  <2>1. row.id \in SessionId /\ row # NoRow
    BY SessionsAssumption DEF Session
  <2> QED BY <1>3, <2>1 DEF TypeOK, Inserted, Updated
<1> QED BY <1>1, <1>2, <1>3 DEF TableStep

-----------------------------------------------------------------------------
(* A row is active after a step only if it was before, or no other is.     *)
LEMMA OneActiveStep ==
  ASSUME TypeOK, OneActive, TableStep
  PROVE  OneActive'
PROOF
<1>1. CASE rows' = rows
  BY <1>1 DEF OneActive, ActiveIn
<1>2. CASE rows' = ExpireStale(rows, now)
  <2>1. ActiveIn(rows') \subseteq ActiveIn(rows)
    BY <1>2, ExpireStaleType DEF TypeOK, ActiveIn
  <2> QED BY <2>1 DEF OneActive, ActiveIn
<1>3. ASSUME NEW row \in Session, Inserted(row) PROVE OneActive'
  <2>1. ActiveIn(rows') \subseteq {row.id}
    BY <1>3 DEF Inserted, TypeOK, ActiveIn
  <2> QED BY <2>1 DEF OneActive, ActiveIn
<1>4. ASSUME NEW row \in Session, Updated(row) PROVE OneActive'
  <2>1. ActiveIn(rows') \subseteq ActiveIn(rows)
    BY <1>4 DEF Updated, TypeOK, ActiveIn
  <2> QED BY <2>1 DEF OneActive, ActiveIn
<1> QED BY <1>1, <1>2, <1>3, <1>4 DEF TableStep

(* No step revives what is over.                                           *)
LEMMA OverStep ==
  ASSUME TypeOK, TableStep, NEW s \in SessionId, rows[s] # NoRow
  PROVE  /\ rows[s].status = "ENDED" => rows'[s].status = "ENDED"
         /\ rows[s].status = "EXPIRED" => rows'[s].status # "ACTIVE"
PROOF
<1>1. CASE rows' = rows
  BY <1>1
<1>2. CASE rows' = ExpireStale(rows, now)
  BY <1>2, ExpireStaleType DEF TypeOK
<1>3. ASSUME NEW row \in Session, Inserted(row) \/ Updated(row)
      PROVE  /\ rows[s].status = "ENDED" => rows'[s].status = "ENDED"
             /\ rows[s].status = "EXPIRED" => rows'[s].status # "ACTIVE"
  BY <1>3 DEF Inserted, Updated, TypeOK
<1> QED BY <1>1, <1>2, <1>3 DEF TableStep
-----------------------------------------------------------------------------
(* Each handler keeps its progress and its row, and its row's id its own.  *)
CallType ==
  /\ call \in [Caller -> [step : Step, row : Session \cup {NoRow}]]
  /\ \A c \in Caller : call[c].step \in {"idle", "starting"} <=> call[c].row = NoRow
  /\ calls \in 0 .. MaxCalls

Handlers == CallType /\ RowsExist /\ FreshIds

(* A handler that carries no row, or one that is in the table, goes on     *)
(* without disturbing those that are about to insert (sessions.service.ts).*)
LEMMA HandlerStep ==
  ASSUME Inv, TableStep,
         NEW c \in Caller, NEW step \in Step \ {"inserting"},
         NEW row \in Session \cup {NoRow},
         step \in {"idle", "starting"} <=> row = NoRow,
         row # NoRow => rows'[row.id] # NoRow,
         \A d \in Caller \ {c} :
           call[d].step = "inserting" => rows'[call[d].row.id] = NoRow,
         call' = [call EXCEPT ![c] = [step |-> step, row |-> row]],
         calls' \in 0 .. MaxCalls
  PROVE  Handlers'
PROOF
<1>1. CallType'
  BY DEF CallType, Inv, TypeOK
<1>2. RowsExist'
  <2>1. \A s \in SessionId : rows[s] # NoRow => rows'[s] # NoRow
    BY TableStepType DEF Inv
  <2> QED BY <2>1 DEF RowsExist, Inv, TypeOK, Step, Session
<1>3. FreshIds'
  BY DEF FreshIds, Inv, TypeOK
<1> QED BY <1>1, <1>2, <1>3 DEF Handlers

(* A step of nobody's handler that inserts no row disturbs none.           *)
LEMMA OtherStep ==
  ASSUME Inv, TableStep, UNCHANGED handlers,
         \A s \in SessionId : rows'[s] = NoRow <=> rows[s] = NoRow
  PROVE  Handlers'
PROOF
<1>1. CallType'
  BY DEF CallType, Inv, TypeOK, handlers
<1>2. RowsExist'
  BY DEF RowsExist, Inv, TypeOK, Step, Session, handlers
<1>3. FreshIds'
  BY DEF FreshIds, Inv, TypeOK, Session, handlers
<1> QED BY <1>1, <1>2, <1>3 DEF Handlers

(* So the handlers keep to their rows whatever runs between their steps.   *)
LEMMA HandlersStep == Inv /\ [Next]_vars => Handlers'
PROOF
<1> SUFFICES ASSUME Inv, [Next]_vars PROVE Handlers'
  OBVIOUS
<1>1. TableStep
  BY StepIsTableStep
<1>2. ASSUME rows' = rows
      PROVE  \A c \in Caller :
               call[c].step = "inserting" => rows'[call[c].row.id] = NoRow
  BY <1>2 DEF Inv, FreshIds
<1>3. calls' \in 0 .. MaxCalls
  <2>1. calls' = calls \/ NewCall
    BY DEF Next, Request, Continue, BeginStart, ReadSession, IssueCreate, Refuse,
           IssueExtend, IssueEnd, Insert, Extend, End, Written, Push, Sweep,
           Connect, Greet, GreetExpire, GreetFind, GreetSend, Lose, Receive,
           ExpireLocally, PassTime, vars, handlers
  <2>2. calls \in 0 .. MaxCalls /\ MaxCalls \in Nat
    BY SessionsAssumption DEF Inv, TypeOK
  <2> QED BY <2>1, <2>2 DEF NewCall
<1>4. ASSUME rows' = ExpireStale(rows, now)
      PROVE  \A s \in SessionId : rows'[s] = NoRow <=> rows[s] = NoRow
  BY <1>4, ExpireStaleType DEF Inv, TypeOK
<1>5. ASSUME NEW c \in Caller, BeginStart(c) PROVE Handlers'
  <2>1. call' = [call EXCEPT ![c] = [step |-> "starting", row |-> NoRow]]
    BY <1>5 DEF BeginStart, Goes
  <2>2. \A d \in Caller : call[d].step = "inserting" => rows'[call[d].row.id] = NoRow
    BY <1>4, <1>5 DEF BeginStart, Inv, FreshIds, TypeOK, Session
  <2> QED BY <1>1, <1>3, <2>1, <2>2, HandlerStep DEF Step
<1>6. ASSUME NEW c \in Caller, NEW s \in SessionId, NEW kind \in {"extend", "end"},
             ReadSession(c, s, kind)
      PROVE  Handlers'
  <2>1. /\ call' = [call EXCEPT ![c] = [step |-> kind, row |-> rows[s]]]
        /\ rows' = rows /\ rows[s] # NoRow
    BY <1>6 DEF ReadSession, Goes
  <2>2. rows[s] \in Session /\ rows[s].id = s
    BY <2>1 DEF Inv, TypeOK
  <2> QED BY <1>1, <1>2, <1>3, <2>1, <2>2, HandlerStep DEF Step
<1>7. ASSUME NEW c \in Caller, NEW minutes \in Minutes, IssueCreate(c, minutes)
      PROVE  Handlers'
  <2> DEFINE taken == {call[d].row.id : d \in {d \in Caller : call[d].row # NoRow}}
             fresh == {s \in SessionId \ taken : rows[s] = NoRow}
             row == NewRow(SomeId(fresh), minutes)
  <2>1. /\ fresh # {} /\ rows' = rows
        /\ call' = [call EXCEPT ![c] = [step |-> "inserting", row |-> row]]
    BY <1>7 DEF IssueCreate, Goes
  <2>2. SomeId(fresh) \in fresh
    BY <2>1, SomeIdType
  <2>3. row \in Session /\ row.id \in fresh
    BY <2>2, NewRowType DEF Inv, TypeOK
  <2>4. row # NoRow
    BY <2>3, SessionsAssumption
  <2> HIDE DEF row
  <2>5. CallType'
    BY <1>3, <2>1, <2>3, <2>4 DEF CallType, Inv, TypeOK, Step
  <2>6. RowsExist'
    BY <2>1 DEF RowsExist, Inv, TypeOK
  <2>7. FreshIds'
    BY <2>1, <2>3 DEF FreshIds, Inv, TypeOK
  <2> QED BY <2>5, <2>6, <2>7 DEF Handlers
<1>8. ASSUME NEW c \in Caller, Insert(c) PROVE Handlers'
  <2>1. CASE call' = [call EXCEPT ![c] = Idle]
    <3>1. rows' = rows
      BY <1>8, <2>1 DEF Insert, Goes, Idle, Inv, TypeOK
    <3> QED BY <1>1, <1>2, <1>3, <2>1, <3>1, HandlerStep DEF Step, Idle
  <2>2. CASE call' # [call EXCEPT ![c] = Idle]
    <3> DEFINE row == call[c].row
    <3>1. /\ call[c].step = "inserting"
          /\ call' = [call EXCEPT ![c] = [step |-> "pushing", row |-> row]]
          /\ rows' = [rows EXCEPT ![row.id] = row]
      BY <1>8, <2>2 DEF Insert, Goes
    <3>2. row \in Session /\ row # NoRow
      BY <3>1, SessionsAssumption DEF Inv, TypeOK
    <3>3. rows'[row.id] # NoRow
      BY <3>1, <3>2 DEF Inv, TypeOK, Session
    <3>4. \A d \in Caller \ {c} :
            call[d].step = "inserting" => rows'[call[d].row.id] = NoRow
      BY <3>1, <3>2 DEF Inv, TypeOK, FreshIds, Session
    <3> QED BY <1>1, <1>3, <3>1, <3>2, <3>3, <3>4, HandlerStep DEF Step
  <2> QED BY <2>1, <2>2
<1>9. ASSUME NEW c \in Caller,
             NEW kind \in {"extend", "end"}, Refuse(c, kind)
      PROVE  Handlers'
  BY <1>1, <1>2, <1>3, <1>9, HandlerStep DEF Refuse, Goes, Idle, Step
<1>10. ASSUME NEW c \in Caller, NEW step \in {"extending", "ending", "pushing"},
              NEW row \in Session,
              call[c].step \in {"extend", "end", "extending", "ending"},
              row.id = call[c].row.id,
              call' = [call EXCEPT ![c] = [step |-> step, row |-> row]],
              \A d \in Caller : call[d].step = "inserting" => rows'[call[d].row.id] = NoRow
       PROVE  Handlers'
  <2>1. row # NoRow /\ row.id \in SessionId
    BY SessionsAssumption DEF Session
  <2>2. rows'[row.id] # NoRow
    BY <1>1, <1>10, <2>1, TableStepType DEF Inv, RowsExist
  <2> QED BY <1>1, <1>3, <1>10, <2>1, <2>2, HandlerStep DEF Step
<1>11. ASSUME NEW c \in Caller, NEW minutes \in Minutes, IssueExtend(c, minutes)
       PROVE  Handlers'
  <2> DEFINE row == [call[c].row EXCEPT !.expiresAt = @ + minutes, !.updatedAt = now]
  <2>1. /\ call[c].step = "extend" /\ rows' = rows
        /\ call' = [call EXCEPT ![c] = [step |-> "extending", row |-> row]]
    BY <1>11 DEF IssueExtend, Goes
  <2>2. call[c].row \in Session /\ now \in Nat /\ minutes \in Nat
    BY <2>1, SessionsAssumption DEF Inv, TypeOK
  <2>3. call[c].row.expiresAt \in Nat /\ call[c].row.expiresAt + minutes \in Nat
    BY <2>2 DEF Session
  <2>4. row \in Session /\ row.id = call[c].row.id
    BY <2>2, <2>3 DEF Session
  <2> HIDE DEF row
  <2> QED BY <1>2, <1>10, <2>1, <2>4
<1>12. ASSUME NEW c \in Caller, IssueEnd(c) PROVE Handlers'
  <2> DEFINE row == [call[c].row EXCEPT !.updatedAt = now]
  <2>1. /\ call[c].step = "end" /\ rows' = rows
        /\ call' = [call EXCEPT ![c] = [step |-> "ending", row |-> row]]
    BY <1>12 DEF IssueEnd, Goes
  <2>2. call[c].row \in Session
    BY <2>1 DEF Inv, TypeOK
  <2>3. row \in Session /\ row.id = call[c].row.id
    BY <2>2 DEF Session, Inv, TypeOK
  <2> HIDE DEF row
  <2> QED BY <1>2, <1>10, <2>1, <2>3
<1>13. ASSUME NEW c \in Caller, NEW row \in Session, Written(c, row),
              call[c].step \in {"extending", "ending"}, row.id = call[c].row.id
       PROVE  Handlers'
  <2>1. rows[row.id] # NoRow
    BY <1>13 DEF Inv, RowsExist
  <2>2. \A d \in Caller : call[d].step = "inserting" => rows'[call[d].row.id] = NoRow
    BY <1>13, <2>1 DEF Written, Inv, FreshIds, TypeOK, Session
  <2>3. call' = [call EXCEPT ![c] = [step |-> "pushing", row |-> row]]
    BY <1>13 DEF Written
  <2> QED BY <1>10, <1>13, <2>2, <2>3
<1>14. ASSUME NEW c \in Caller, Extend(c) \/ End(c) PROVE Handlers'
  <2> DEFINE new == call[c].row
  <2>1. call[c].step \in {"extending", "ending"}
    BY <1>14 DEF Extend, End
  <2>2. new \in Session /\ rows[new.id] \in Session /\ rows[new.id].id = new.id
    BY <2>1 DEF Inv, TypeOK, RowsExist, Session
  <2>3. CASE Extend(c)
    <3> DEFINE row == [rows[new.id] EXCEPT !.expiresAt = new.expiresAt,
                                           !.updatedAt = new.updatedAt]
    <3>1. row \in Session /\ row.id = new.id
      BY <2>2 DEF Session
    <3>2. Written(c, row)
      BY <2>3 DEF Extend
    <3> HIDE DEF row
    <3> QED BY <1>13, <2>1, <3>1, <3>2
  <2>4. CASE End(c)
    <3> DEFINE row == [rows[new.id] EXCEPT !.status = "ENDED",
                                           !.updatedAt = new.updatedAt]
    <3>1. row \in Session /\ row.id = new.id
      BY <2>2 DEF Session, Status
    <3>2. Written(c, row)
      BY <2>4 DEF End
    <3> HIDE DEF row
    <3> QED BY <1>13, <2>1, <3>1, <3>2
  <2> QED BY <1>14, <2>3, <2>4
<1>15. ASSUME NEW c \in Caller, Push(c) PROVE Handlers'
  BY <1>1, <1>2, <1>3, <1>15, HandlerStep DEF Push, Goes, Idle, Step
<1>16. CASE Sweep \/ GreetExpire
  BY <1>1, <1>4, <1>16, OtherStep DEF Sweep, GreetExpire
<1>17. CASE UNCHANGED <<rows, handlers>>
  BY <1>1, <1>17, OtherStep
<1>18. ASSUME \/ Connect \/ GreetFind \/ GreetSend \/ Lose \/ Receive
              \/ ExpireLocally \/ PassTime \/ UNCHANGED vars
       PROVE  UNCHANGED <<rows, handlers>>
  BY <1>18 DEF Connect, GreetFind, GreetSend, Lose, Receive, ExpireLocally,
               PassTime, vars, handlers
<1> QED BY <1>5, <1>6, <1>7, <1>8, <1>9, <1>11, <1>12, <1>14, <1>15, <1>16,
           <1>17, <1>18
        DEF Next, Request, Continue, Greet
-----------------------------------------------------------------------------
(* The connection and what travels on it.                                  *)
LinkType ==
  /\ connected \in BOOLEAN
  /\ greeting \in [step : {"none", "expire", "find", "send"},
                   session : Session \cup {NoSession}]
  /\ channel \in Seq(Message)
  /\ losses \in 0 .. MaxLosses

(* Pushes and greetings carry rows that were read (realtime.gateway.ts).   *)
LEMMA LinkStep == Inv /\ [Next]_vars => LinkType'
PROOF
<1> SUFFICES ASSUME Inv, [Next]_vars PROVE LinkType'
  OBVIOUS
<1>1. LinkType /\ now \in Nat
  BY DEF Inv, TypeOK, LinkType
<1>2. ASSUME NEW c \in Caller, Push(c) PROVE LinkType'
  <2>1. call[c].row \in Session
    BY <1>2 DEF Push, Goes, Inv, TypeOK
  <2>2. [session |-> call[c].row, serverTime |-> now] \in Message
    BY <1>1, <2>1 DEF Message
  <2>3. channel' \in Seq(Message)
    BY <1>1, <1>2, <2>2 DEF Push, LinkType
  <2> QED BY <1>1, <1>2, <2>3 DEF Push, LinkType
<1>3. CASE Connect
  BY <1>1, <1>3 DEF Connect, LinkType
<1>4. CASE GreetExpire
  BY <1>1, <1>4 DEF GreetExpire, LinkType
<1>5. CASE GreetFind
  <2>1. \A s \in ActiveIn(rows) : rows[s] \in Session
    BY DEF ActiveIn, Inv, TypeOK
  <2> QED BY <1>1, <1>5, <2>1 DEF GreetFind, LinkType
<1>6. CASE GreetSend
  <2>1. [session |-> greeting.session, serverTime |-> now] \in Message
    BY <1>1 DEF LinkType, Message
  <2>2. channel' \in Seq(Message)
    BY <1>1, <1>6, <2>1 DEF GreetSend, LinkType
  <2>3. greeting' \in [step : {"none", "expire", "find", "send"},
                      session : Session \cup {NoSession}]
    BY <1>6 DEF GreetSend, NoGreeting
  <2> QED BY <1>1, <1>6, <2>2, <2>3 DEF GreetSend, LinkType
<1>7. CASE Lose
  <2>1. losses' \in 0 .. MaxLosses
    <3>1. MaxLosses \in Nat
      BY SessionsAssumption
    <3> QED BY <1>1, <1>7, <3>1 DEF Lose, LinkType
  <2>2. greeting' \in [step : {"none", "expire", "find", "send"},
                      session : Session \cup {NoSession}]
    BY <1>7 DEF Lose, NoGreeting
  <2>3. connected' \in BOOLEAN
    BY <1>7 DEF Lose
  <2>4. channel' \in Seq(Message)
    BY <1>7 DEF Lose
  <2> QED BY <2>1, <2>2, <2>3, <2>4 DEF LinkType
<1>8. CASE Receive
  <2>1. channel' \in Seq(Message)
    BY <1>1, <1>8 DEF Receive, LinkType
  <2> QED BY <1>1, <1>8, <2>1 DEF Receive, LinkType
<1>9. CASE UNCHANGED link
  BY <1>1, <1>9 DEF link, LinkType
<1>10. ASSUME \/ Sweep \/ ExpireLocally \/ PassTime \/ UNCHANGED vars
              \/ \E c \in Caller : Request(c) \/ (Continue(c) /\ ~Push(c))
       PROVE  UNCHANGED link
  BY <1>10 DEF Sweep, ExpireLocally, PassTime, vars, link, Request, Continue,
               BeginStart, ReadSession, IssueCreate, Refuse, IssueExtend,
               IssueEnd, Insert, Extend, End, Written
<1> QED BY <1>2, <1>3, <1>4, <1>5, <1>6, <1>7, <1>8, <1>9, <1>10 DEF Next, Greet

(* advance (session.rs) returns the session or its expired form.           *)
LEMMA AdvanceKeepsType ==
  ASSUME NEW session \in Session \cup {NoSession}, NEW t \in Nat
  PROVE  Advance(session, t) \in Session \cup {NoSession}
BY NoSessionAssumption DEF Advance, IsActive, Session, Status

(* The clocks are numbers, and the agent holds a row or nothing.           *)
AgentType ==
  /\ now \in Nat /\ lastApplied \in Nat
  /\ held \in Session \cup {NoSession}

(* Messages and the local expiry keep it so (session.rs).                  *)
LEMMA AgentStep == Inv /\ [Next]_vars => AgentType'
PROOF
<1> SUFFICES ASSUME Inv, [Next]_vars PROVE AgentType'
  OBVIOUS
<1>1. AgentType
  BY DEF Inv, TypeOK, AgentType
<1>2. now' \in Nat
  <2>1. now' = now \/ now' = now + 1
    BY DEF Next, Request, Continue, BeginStart, ReadSession, IssueCreate, Refuse,
           IssueExtend, IssueEnd, Insert, Extend, End, Written, Push, Sweep,
           Connect, Greet, GreetExpire, GreetFind, GreetSend, Lose, Receive,
           ExpireLocally, PassTime, vars, Stamp
  <2> QED BY <1>1, <2>1 DEF AgentType
<1>3. CASE Receive
  <2> DEFINE m == Head(channel)
             t == MessageTime(m.session, m.serverTime)
  <2>1. channel \in Seq(Message) /\ channel # <<>>
    BY <1>3 DEF Receive, Inv, TypeOK
  <2>2. m \in Message
    BY <2>1
  <2>3. m.session \in Session \cup {NoSession} /\ t \in Nat
    BY <2>2 DEF Message, MessageTime, Session
  <2>4. \/ held' = m.session /\ lastApplied' = t
        \/ held' = held /\ lastApplied' = lastApplied
    BY <1>3 DEF Receive, agent
  <2> QED BY <1>1, <1>2, <2>3, <2>4 DEF AgentType
<1>4. CASE ExpireLocally
  BY <1>1, <1>2, <1>4, AdvanceKeepsType DEF ExpireLocally, AgentType
<1>5. CASE UNCHANGED agent
  BY <1>1, <1>2, <1>5 DEF agent, AgentType
<1>6. ASSUME ~Receive, ~ExpireLocally PROVE UNCHANGED agent
  BY <1>6 DEF Next, Request, Continue, BeginStart, ReadSession, IssueCreate,
              Refuse, IssueExtend, IssueEnd, Insert, Extend, End, Written, Push,
              Sweep, Connect, Greet, GreetExpire, GreetFind, GreetSend, Lose,
              PassTime, vars
<1> QED BY <1>3, <1>4, <1>5, <1>6

-----------------------------------------------------------------------------
(* TypeOK is inductive with what the handlers know of their rows.          *)
LEMMA InvStep == Inv /\ [Next]_vars => Inv'
PROOF
<1> SUFFICES ASSUME Inv, [Next]_vars PROVE Inv'
  OBVIOUS
<1>1. Handlers' /\ LinkType' /\ AgentType'
  BY HandlersStep, LinkStep, AgentStep
<1>2. /\ rows' \in [SessionId -> Session \cup {NoRow}]
      /\ \A s \in SessionId : rows'[s] # NoRow => rows'[s].id = s
  BY StepIsTableStep, TableStepType DEF Inv
<1>3. TypeOK'
  BY <1>1, <1>2 DEF TypeOK, Handlers, CallType, LinkType, AgentType
<1> QED BY <1>1, <1>3 DEF Inv, Handlers

(* The types of every variable, for any callers and sessions.              *)
THEOREM TypeCorrect == Spec => []TypeOK
PROOF
<1>1. Inv => TypeOK
  BY DEF Inv
<1> QED BY <1>1, InitInv, InvStep, PTL DEF Spec

(* A machine never has two active sessions (the partial unique index of    *)
(* the table, with handlers that carry rows they have read before).        *)
THEOREM NeverTwoActive == Spec => []OneActive
PROOF
<1>1. Inv /\ OneActive /\ [Next]_vars => OneActive'
  BY StepIsTableStep, OneActiveStep DEF Inv
<1> QED BY <1>1, InitInv, InvStep, PTL DEF Spec

(* What was ended or has expired is never active again, though extend and  *)
(* end write unconditionally (sessions.service.ts).                        *)
THEOREM OverForGood == Spec => OverStaysOver
PROOF
<1>1. Inv /\ [Next]_vars =>
        [\A s \in SessionId :
           rows[s] # NoRow =>
             /\ rows[s].status = "ENDED" => rows'[s].status = "ENDED"
             /\ rows[s].status = "EXPIRED" => rows'[s].status # "ACTIVE"]_vars
  BY StepIsTableStep, OverStep DEF Inv
<1> QED BY <1>1, InitInv, InvStep, PTL DEF Spec, OverStaysOver
=============================================================================
