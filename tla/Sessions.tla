------------------------------ MODULE Sessions ------------------------------
(***************************************************************************)
(* Sessions of one machine, from the operator's request to the agent: the  *)
(* handlers of sessions.service.ts with their database calls, the sweeper  *)
(* (sessions.sweeper.ts), the session_state the gateway greets a           *)
(* reconnecting agent with (realtime.gateway.ts), the connection, and what *)
(* the agent keeps of the messages (agent/src/session.rs).                 *)
(*                                                                         *)
(* A handler runs undisturbed between two awaits.  Prisma stamps updatedAt *)
(* when a write is issued, PostgreSQL orders writes as they commit: issue  *)
(* and commit are two steps.  No two stamps are equal: the clock moves on  *)
(* with each.  Connections are replaced and authenticated in Removal.      *)
(***************************************************************************)
EXTENDS SessionRules, Sequences

CONSTANTS NoRow,     \* no session row of this id
          Caller,    \* operator requests in progress at once
          Minutes,   \* durations a request can ask for
          MaxTime,   \* bound of time passing by itself
          MaxCalls,  \* bound of requests
          MaxLosses  \* bound of lost connections

ASSUME SessionsAssumption ==
  /\ NoRow \notin Session
  /\ Minutes \subseteq Nat \ {0}
  /\ {MaxTime, MaxCalls, MaxLosses} \subseteq Nat

VARIABLES
  now,         \* the server's clock, and real time
  rows,        \* the session table
  call,        \* per caller, its handler's progress and the row it carries
  calls,       \* requests so far
  connected,   \* the agent's socket is open and registered
  greeting,    \* authenticateAgent's progress and the session it has read
  channel,     \* session_state messages under way to the agent
  held,        \* `session` of the agent
  lastApplied, \* `last_applied_at` of the agent
  losses

handlers == <<call, calls>>
link == <<connected, greeting, channel, losses>>
agent == <<held, lastApplied>>
vars == <<now, rows, handlers, link, agent>>

(* How far a handler has come.                                             *)
Step == {"idle", "starting", "inserting", "extend", "end", "extending", "ending",
         "pushing"}

Idle == [step |-> "idle", row |-> NoRow]
NoGreeting == [step |-> "none", session |-> NoSession]

Message == [session : Session \cup {NoSession}, serverTime : Nat]

(* A new uuid: which one does not matter.                                  *)
SomeId(ids) == CHOOSE s \in ids : TRUE

(* An agent that is not connected and holds nothing, of a machine without  *)
(* a session or with one just started.                                     *)
Init ==
  /\ now = 2
  /\ rows \in {[s \in SessionId |-> NoRow]}
               \cup {[s \in SessionId |->
                       IF s = SomeId(SessionId)
                         THEN [id |-> s, expiresAt |-> 1 + minutes,
                               status |-> "ACTIVE", updatedAt |-> 1]
                         ELSE NoRow] : minutes \in Minutes}
  /\ call = [c \in Caller |-> Idle]
  /\ calls = 0
  /\ connected = FALSE
  /\ greeting = NoGreeting
  /\ channel = <<>>
  /\ held = NoSession /\ lastApplied = 0
  /\ losses = 0

(* new Date() of a write or a message.                                     *)
Stamp == now' = now + 1

ActiveIn(table) == {s \in SessionId : table[s] # NoRow /\ table[s].status = "ACTIVE"}

-----------------------------------------------------------------------------
(* updateMany of expireStaleActiveSession and of the sweeper (the slip:    *)
(* every status but EXPIRED).                                              *)
ExpireEndedToo(table, t) ==
  [s \in SessionId |->
     IF /\ table[s] # NoRow /\ table[s].status # "EXPIRED"
        /\ table[s].expiresAt < t
       THEN [table[s] EXCEPT !.status = "EXPIRED", !.updatedAt = t]
       ELSE table[s]]

ExpireStale(table, t) ==
  [s \in SessionId |->
     IF s \in ActiveIn(table) /\ table[s].expiresAt < t
       THEN [table[s] EXCEPT !.status = "EXPIRED", !.updatedAt = t]
       ELSE table[s]]

Sweep ==
  /\ ExpireStale(rows, now) # rows
  /\ rows' = ExpireStale(rows, now)
  /\ Stamp
  /\ UNCHANGED <<handlers, link, agent>>

-----------------------------------------------------------------------------
(* The handlers.                                                           *)

Goes(c, from, to, row) ==
  /\ call[c].step = from
  /\ call' = [call EXCEPT ![c] = IF to = "idle" THEN Idle
                                                ELSE [step |-> to, row |-> row]]

NewCall == calls < MaxCalls /\ calls' = calls + 1

(* start: first what is stale expires, ...                                 *)
BeginStart(c) ==
  /\ NewCall
  /\ Goes(c, "idle", "starting", NoRow)
  /\ rows' = ExpireStale(rows, now)
  /\ Stamp
  /\ UNCHANGED <<link, agent>>

(* ... then the row is computed (the slip: without an end) ...             *)
OpenEndedRow(s, minutes) ==
  [id |-> s, expiresAt |-> NoSession, status |-> "ACTIVE", updatedAt |-> now]

NewRow(s, minutes) ==
  [id |-> s, expiresAt |-> now + minutes, status |-> "ACTIVE", updatedAt |-> now]

IssueCreate(c, minutes) ==
  LET taken == {call[d].row.id : d \in {d \in Caller : call[d].row # NoRow}}
      fresh == {s \in SessionId \ taken : rows[s] = NoRow}
  IN /\ fresh # {}
     /\ Goes(c, "starting", "inserting", NewRow(SomeId(fresh), minutes))
     /\ Stamp
     /\ UNCHANGED <<rows, calls, link, agent>>

(* ... and inserted, unless the partial unique index objects (P2002, 409;  *)
(* the slip: to have no such index).                                       *)
InsertAnyway(c) ==
  /\ Goes(c, "inserting", "pushing", call[c].row)
  /\ rows' = [rows EXCEPT ![call[c].row.id] = call[c].row]
  /\ UNCHANGED <<now, calls, link, agent>>

Insert(c) ==
  /\ \/ /\ ActiveIn(rows) = {}
        /\ Goes(c, "inserting", "pushing", call[c].row)
        /\ rows' = [rows EXCEPT ![call[c].row.id] = call[c].row]
     \/ /\ ActiveIn(rows) # {}
        /\ Goes(c, "inserting", "idle", NoRow)
        /\ UNCHANGED rows
  /\ UNCHANGED <<now, calls, link, agent>>

(* extend and end: requireActiveSession reads the row, ...                 *)
ReadSession(c, s, kind) ==
  /\ rows[s] # NoRow
  /\ NewCall
  /\ Goes(c, "idle", kind, rows[s])
  /\ UNCHANGED <<now, rows, link, agent>>

Refuses(row) == row.status # "ACTIVE" \/ row.expiresAt <= now

Refuse(c, kind) ==
  /\ Goes(c, kind, "idle", NoRow)
  /\ Refuses(call[c].row)
  /\ UNCHANGED <<now, rows, calls, link, agent>>

(* ... the update is issued from what was read ...                         *)
IssueExtend(c, minutes) ==
  /\ Goes(c, "extend", "extending",
          [call[c].row EXCEPT !.expiresAt = @ + minutes, !.updatedAt = now])
  /\ ~Refuses(call[c].row)
  /\ Stamp
  /\ UNCHANGED <<rows, calls, link, agent>>

IssueEnd(c) ==
  /\ Goes(c, "end", "ending", [call[c].row EXCEPT !.updatedAt = now])
  /\ ~Refuses(call[c].row)
  /\ Stamp
  /\ UNCHANGED <<rows, calls, link, agent>>

(* ... and commits, whatever the row has become.  The columns that are not *)
(* written are returned as they are by now.                                *)
Written(c, row) ==
  /\ rows' = [rows EXCEPT ![row.id] = row]
  /\ call' = [call EXCEPT ![c] = [step |-> "pushing", row |-> row]]
  /\ UNCHANGED <<now, calls, link, agent>>

Extend(c) ==
  LET new == call[c].row
  IN /\ call[c].step = "extending"
     /\ Written(c, [rows[new.id] EXCEPT !.expiresAt = new.expiresAt,
                                        !.updatedAt = new.updatedAt])

End(c) ==
  LET new == call[c].row
  IN /\ call[c].step = "ending"
     /\ Written(c, [rows[new.id] EXCEPT !.status = "ENDED",
                                        !.updatedAt = new.updatedAt])

(* pushSessionUpdate to the agent, if it is connected.                     *)
Push(c) ==
  /\ Goes(c, "pushing", "idle", NoRow)
  /\ channel' = IF connected
                  THEN Append(channel, [session |-> call[c].row, serverTime |-> now])
                  ELSE channel
  /\ Stamp
  /\ UNCHANGED <<rows, calls, connected, greeting, losses, agent>>

-----------------------------------------------------------------------------
(* The agent's connection and its greeting.                                *)

Connect ==
  /\ ~connected
  /\ connected' = TRUE
  /\ greeting' = [step |-> "expire", session |-> NoSession]
  /\ UNCHANGED <<now, rows, handlers, channel, losses, agent>>

(* getActiveSession: first expireStaleActiveSession, then findFirst.       *)
GreetExpire ==
  /\ greeting.step = "expire"
  /\ greeting' = [greeting EXCEPT !.step = "find"]
  /\ rows' = ExpireStale(rows, now)
  /\ Stamp
  /\ UNCHANGED <<handlers, connected, channel, losses, agent>>

GreetFind ==
  /\ greeting.step = "find"
  /\ \/ /\ ActiveIn(rows) = {}
        /\ greeting' = [step |-> "send", session |-> NoSession]
     \/ \E s \in ActiveIn(rows) :
          greeting' = [step |-> "send", session |-> rows[s]]
  /\ UNCHANGED <<now, rows, handlers, connected, channel, losses, agent>>

GreetSend ==
  /\ greeting.step = "send"
  /\ greeting' = NoGreeting
  /\ channel' = Append(channel, [session |-> greeting.session, serverTime |-> now])
  /\ Stamp
  /\ UNCHANGED <<rows, handlers, connected, losses, agent>>

(* What is under way is lost with the connection.  A handler still at its  *)
(* greeting has nobody to send it to.                                      *)
Lose ==
  /\ connected
  /\ losses < MaxLosses /\ losses' = losses + 1
  /\ connected' = FALSE
  /\ greeting' = NoGreeting
  /\ channel' = <<>>
  /\ UNCHANGED <<now, rows, handlers, agent>>

-----------------------------------------------------------------------------
(* The agent: apply_server_message (the slip: no stale-message protection) *)
(* and the tick's local expiry.                                            *)
AcceptsAny(messageTime, mark) == TRUE

Accepts(messageTime, mark) == IsNewer(messageTime, mark)

Receive ==
  /\ channel # <<>>
  /\ LET m == Head(channel)
         t == MessageTime(m.session, m.serverTime)
     IN IF Accepts(t, lastApplied)
          THEN held' = m.session /\ lastApplied' = t
          ELSE UNCHANGED agent
  /\ channel' = Tail(channel)
  /\ UNCHANGED <<now, rows, handlers, connected, greeting, losses>>

ExpireLocally ==
  /\ Advance(held, now) # held
  /\ held' = Advance(held, now)
  /\ UNCHANGED <<now, rows, handlers, link, lastApplied>>

PassTime ==
  /\ now < MaxTime
  /\ now' = now + 1
  /\ UNCHANGED <<rows, handlers, link, agent>>

-----------------------------------------------------------------------------
Request(c) ==
  \/ BeginStart(c)
  \/ \E s \in SessionId : \E kind \in {"extend", "end"} : ReadSession(c, s, kind)

Continue(c) ==
  \/ \E minutes \in Minutes : IssueCreate(c, minutes)
  \/ \E kind \in {"extend", "end"} : Refuse(c, kind)
  \/ \E minutes \in Minutes : IssueExtend(c, minutes)
  \/ IssueEnd(c) \/ Insert(c) \/ Extend(c) \/ End(c) \/ Push(c)

Greet == GreetExpire \/ GreetFind \/ GreetSend

Next ==
  \/ \E c \in Caller : Request(c) \/ Continue(c)
  \/ Sweep \/ Connect \/ Greet \/ Lose \/ Receive \/ ExpireLocally \/ PassTime

Spec == Init /\ [][Next]_vars

(* Handlers continue, the agent reconnects, receives and ticks; nobody has *)
(* to request anything and no connection has to fail.                      *)
Fairness ==
  /\ \A c \in Caller : WF_vars(Continue(c))
  /\ WF_vars(Connect) /\ WF_vars(Greet) /\ WF_vars(Receive)
  /\ WF_vars(ExpireLocally)

FairSpec == Spec /\ Fairness

-----------------------------------------------------------------------------
TypeOK ==
  /\ now \in Nat /\ lastApplied \in Nat
  /\ rows \in [SessionId -> Session \cup {NoRow}]
  /\ \A s \in SessionId : rows[s] # NoRow => rows[s].id = s
  /\ call \in [Caller -> [step : Step, row : Session \cup {NoRow}]]
  /\ \A c \in Caller : call[c].step \in {"idle", "starting"} <=> call[c].row = NoRow
  /\ connected \in BOOLEAN
  /\ greeting \in [step : {"none", "expire", "find", "send"},
                   session : Session \cup {NoSession}]
  /\ channel \in Seq(Message)
  /\ held \in Session \cup {NoSession}
  /\ calls \in 0 .. MaxCalls /\ losses \in 0 .. MaxLosses

(* "A machine cannot have multiple conflicting active sessions", under     *)
(* concurrent requests, sweeps and reconnects.                             *)
OneActive == \A s, t \in ActiveIn(rows) : s = t

(* What an operator ended stays ended, and no session comes back to life,  *)
(* though the conditions are checked before the write is issued.           *)
OverStaysOver ==
  [][\A s \in SessionId :
       rows[s] # NoRow =>
         /\ rows[s].status = "ENDED" => rows'[s].status = "ENDED"
         /\ rows[s].status = "EXPIRED" => rows'[s].status # "ACTIVE"]_vars

Holds(s) == IsActive(held) /\ held.id = s

(* Rows that are under way to the agent, or there already.                 *)
News ==
  {call[c].row : c \in {c \in Caller : call[c].step = "pushing"}}
    \cup {channel[i].session : i \in DOMAIN channel} \cup {greeting.session, held}

(* An extension stamped after the end that won over it in the database.    *)
Outdated(s) ==
  \E row \in News \cap Session :
    IsActive(row) /\ row.id = s /\ row.updatedAt > rows[s].updatedAt

(* A session an operator ended is taken from the agent for good, connected *)
(* at the time or not, whatever greeting or push the news overtakes -- but *)
(* where a concurrent extension was stamped after the end and committed    *)
(* before it, the agent takes the end for the older news of the two.       *)
EndReachesAgent ==
  \A s \in SessionId :
    (rows[s] # NoRow /\ rows[s].status = "ENDED" /\ ~Outdated(s)) ~> []~Holds(s)

(* A session the server has started reaches the agent, connected at the    *)
(* time or not, unless it is over before.                                  *)
StartReachesAgent ==
  \A s \in SessionId :
    s \in ActiveIn(rows)
      ~> (Holds(s) \/ s \notin ActiveIn(rows) \/ now >= rows[s].expiresAt)
=============================================================================
