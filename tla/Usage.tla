------------------------------- MODULE Usage -------------------------------
(***************************************************************************)
(* The usage report of one machine (reports.service.ts, usage.ts) and the  *)
(* split into days the dashboard makes of it (daily-usage.ts), over the    *)
(* session rows they read and the history they claim to describe.          *)
(*                                                                         *)
(* The rows are written by the handlers of sessions.service.ts, which      *)
(* check a row, await, and update it by its id whatever it has become, as  *)
(* in Sessions; the report takes its `now` before it awaits the rows.      *)
(* Time is finer than the seconds reported.                                *)
(***************************************************************************)
EXTENDS Integers, FiniteSetsExt

CONSTANTS SessionId, NoRow,
          Caller,     \* operator requests in progress at once
          Granted,    \* durations a request can ask for
          PerSecond,  \* units of time in a second
          Borders,    \* where the range of a report can begin or end
          Midnights,  \* the local midnights, not evenly spaced
          MaxRange,   \* MAX_RANGE_MS
          MaxTime,    \* bound of the clock and of extended deadlines
          MaxCalls    \* bound of requests

NotEnded == -1

Row == [startedAt : Nat, expiresAt : Nat, endedAt : Nat \cup {NotEnded},
        status : {"ACTIVE", "EXPIRED", "ENDED"}]

ASSUME UsageAssumption ==
  /\ IsFiniteSet(SessionId) /\ NoRow \notin Row
  /\ Granted \subseteq Nat \ {0} /\ PerSecond \in Nat \ {0}
  /\ Borders \subseteq Nat /\ Midnights \subseteq Nat
  /\ {MaxRange, MaxTime, MaxCalls} \subseteq Nat

VARIABLES
  now,
  rows,       \* the machine's sessions
  call,       \* per caller, its handler's step, session and row or new time
  calls,      \* requests so far
  used,       \* per session, the instants it ran in with no end under way
  usable,     \* per session, the instants it ran in or was being created in
  overtaken,  \* sessions with a write that came too late
  report      \* the report in progress, or the last one made

history == <<used, usable, overtaken>>
table == <<now, rows, call, calls, history>>
vars == <<table, report>>

Idle == [step |-> "idle"]

NoReport == [step |-> "none"]

Init ==
  /\ now = 0
  /\ rows = [s \in SessionId |-> NoRow]
  /\ call = [c \in Caller |-> Idle] /\ calls = 0
  /\ used = [s \in SessionId |-> {}] /\ usable = used
  /\ overtaken = {}
  /\ report = NoReport

-----------------------------------------------------------------------------
(* The session rows (sessions.service.ts, sessions.sweeper.ts).            *)

Active(s) == rows[s] # NoRow /\ rows[s].status = "ACTIVE"

IsActiveRow(row) == row.status = "ACTIVE" /\ row.expiresAt > now

Running(s) == rows[s] # NoRow /\ IsActiveRow(rows[s])

(* updateMany leaves endedAt alone (the slip: closing the row like `end`). *)
ExpireAndEnd(row) == [row EXCEPT !.status = "EXPIRED", !.endedAt = now]

Expired(row) == [row EXCEPT !.status = "EXPIRED"]

ExpireStale ==
  [s \in SessionId |->
     IF Active(s) /\ rows[s].expiresAt < now THEN Expired(rows[s]) ELSE rows[s]]

Sweep ==
  /\ rows' = ExpireStale /\ rows' # rows
  /\ UNCHANGED <<now, call, calls, history, report>>

(* A caller whose handler is at `step`, for session s.                     *)
At(c, step, s) == call[c].step = step /\ call[c].id = s

Goes(c, to, s, data) ==
  call' = [call EXCEPT ![c] = [step |-> to, id |-> s, data |-> data]]

Finish(c) == call' = [call EXCEPT ![c] = Idle]

NewCall(c) ==
  /\ call[c].step = "idle"
  /\ calls < MaxCalls /\ calls' = calls + 1

(* start: what is stale expires, ...                                       *)
BeginStart(c) ==
  /\ NewCall(c)
  /\ call' = [call EXCEPT ![c] = [step |-> "starting"]]
  /\ rows' = ExpireStale
  /\ UNCHANGED <<now, history, report>>

(* ... the row is computed, under a new id, ...                            *)
IssueCreate(c, s, duration) ==
  /\ call[c].step = "starting"
  /\ rows[s] = NoRow /\ \A d \in Caller : ~At(d, "inserting", s)
  /\ Goes(c, "inserting", s,
          [startedAt |-> now, expiresAt |-> now + duration,
           endedAt |-> NotEnded, status |-> "ACTIVE"])
  /\ UNCHANGED <<now, rows, calls, history, report>>

(* ... and inserted, or refused by the partial unique index.               *)
Insert(c, s) ==
  /\ At(c, "inserting", s)
  /\ \A r \in SessionId : ~Active(r)
  /\ rows' = [rows EXCEPT ![s] = call[c].data]
  /\ Finish(c)
  /\ UNCHANGED <<now, calls, history, report>>

Conflict(c, s) ==
  /\ At(c, "inserting", s)
  /\ \E r \in SessionId : Active(r)
  /\ Finish(c)
  /\ usable' = [usable EXCEPT ![s] = {}]
  /\ UNCHANGED <<now, rows, calls, used, overtaken, report>>

(* requireActiveSession: the row is read, ...                              *)
ReadSession(c, s, kind) ==
  /\ NewCall(c)
  /\ rows[s] # NoRow
  /\ Goes(c, kind, s, rows[s])
  /\ UNCHANGED <<now, rows, history, report>>

(* ... and what was read is checked by the clock: it is refused, ...       *)
Refuse(c) ==
  /\ call[c].step \in {"extend", "end"}
  /\ ~IsActiveRow(call[c].data)
  /\ Finish(c)
  /\ UNCHANGED <<now, rows, calls, history, report>>

(* ... or the update is issued from it.                                    *)
IssueExtend(c, s, duration) ==
  /\ At(c, "extend", s) /\ IsActiveRow(call[c].data)
  /\ call[c].data.expiresAt + duration <= MaxTime
  /\ Goes(c, "extending", s, call[c].data.expiresAt + duration)
  /\ UNCHANGED <<now, rows, calls, history, report>>

IssueEnd(c, s) ==
  /\ At(c, "end", s) /\ IsActiveRow(call[c].data)
  /\ Goes(c, "ending", s, now)
  /\ UNCHANGED <<now, rows, calls, history, report>>

(* What this does not rule out: an extension of a session that has run out *)
(* or been swept meanwhile, one that takes back what another has granted   *)
(* and has been used, and an end of what has been ended.                   *)
LateExtension(row, until) ==
  IF row.status = "ENDED" THEN Min({until, row.expiresAt}) < row.endedAt
                          ELSE ~IsActiveRow(row) \/ until < now

LateEnd(row) == row.status = "ENDED"

OvertakenIf(late, s) ==
  overtaken' = IF late THEN overtaken \cup {s} ELSE overtaken

(* ... and commits, whatever the row has become.                           *)
Extend(c, s) ==
  /\ At(c, "extending", s)
  /\ rows' = [rows EXCEPT ![s].expiresAt = call[c].data]
  /\ OvertakenIf(LateExtension(rows[s], call[c].data), s)
  /\ Finish(c)
  /\ UNCHANGED <<now, calls, used, usable, report>>

End(c, s) ==
  /\ At(c, "ending", s)
  /\ rows' = [rows EXCEPT ![s].status = "ENDED", ![s].endedAt = call[c].data]
  /\ OvertakenIf(LateEnd(rows[s]), s)
  /\ Finish(c)
  /\ UNCHANGED <<now, calls, used, usable, report>>

Seen(instants, during) ==
  [s \in SessionId |-> IF s \in during THEN instants[s] \cup {now} ELSE instants[s]]

PassTime ==
  /\ now < MaxTime
  /\ now' = now + 1
  /\ LET running == {s \in SessionId : Running(s)}
         ending == {s \in SessionId : \E c \in Caller : At(c, "ending", s)}
         created == {s \in SessionId : \E c \in Caller : At(c, "inserting", s)}
     IN /\ used' = Seen(used, running \ ending)
        /\ usable' = Seen(usable, running \cup created)
  /\ UNCHANGED <<rows, call, calls, overtaken, report>>

-----------------------------------------------------------------------------
(* usage.ts.                                                               *)

(* usableUntil (the slip: a running session is granted until its deadline).*)
UncappedUntil(row, asOf) ==
  IF row.endedAt = NotEnded THEN row.expiresAt
                            ELSE Min({row.endedAt, row.expiresAt})

UsableUntil(row, asOf) ==
  Min({row.expiresAt}
        \cup (IF row.endedAt = NotEnded THEN {} ELSE {row.endedAt})
        \cup (IF row.status = "ACTIVE" THEN {asOf} ELSE {}))

(* overlapSeconds, before the division.                                    *)
Overlap(start, end, from, to) ==
  Max({0, Min({end, to}) - Max({start, from})})

(* Math.round of a quotient: halves go up.                                 *)
Seconds(units) == (2 * units + PerSecond) \div (2 * PerSecond)

(* The rows findMany selects, a superset of those that count.              *)
Selected(from, to) ==
  {s \in SessionId :
     rows[s] # NoRow /\ rows[s].startedAt < to /\ rows[s].expiresAt > from}

InWindow(s, r) ==
  Overlap(rows[s].startedAt, UsableUntil(rows[s], r.asOf), r.from, r.to)

(* summarizeUsage.                                                         *)
UsedSeconds(r) ==
  Seconds(SumFunction([s \in Selected(r.from, r.to) |-> InWindow(s, r)]))

(* What reportSessions lists: the real bounds and the clipped usage (the   *)
(* slips: the deadline for an end, the usage unclipped).                   *)
ListedByDeadline(s, r) ==
  [id |-> s, start |-> rows[s].startedAt, end |-> rows[s].expiresAt,
   usedSeconds |-> Seconds(InWindow(s, r))]

ListedUnclipped(s, r) ==
  LET end == UsableUntil(rows[s], r.asOf)
  IN [id |-> s, start |-> rows[s].startedAt, end |-> end,
      usedSeconds |-> Seconds(Max({0, end - rows[s].startedAt}))]

Listed(s, r) ==
  [id |-> s, start |-> rows[s].startedAt, end |-> UsableUntil(rows[s], r.asOf),
   usedSeconds |-> Seconds(InWindow(s, r))]

ReportSessions(r) ==
  {Listed(s, r) : s \in {x \in Selected(r.from, r.to) : InWindow(x, r) > 0}}

-----------------------------------------------------------------------------
(* reports.service.ts: `now` first, then the rows.                         *)

BeginReport(from, to) ==
  /\ report.step # "reading"
  /\ from < to /\ to - from <= MaxRange
  /\ report' = [step |-> "reading", from |-> from, to |-> to, asOf |-> now]
  /\ UNCHANGED table

ReadSessions ==
  /\ report.step = "reading"
  /\ report' = [step |-> "done", from |-> report.from, to |-> report.to,
                asOf |-> report.asOf, readAt |-> now,
                usedSeconds |-> UsedSeconds(report),
                sessions |-> ReportSessions(report)]
  /\ UNCHANGED table

Request(c) ==
  \/ BeginStart(c)
  \/ \E s \in SessionId : \E kind \in {"extend", "end"} : ReadSession(c, s, kind)

Continue(c) ==
  \/ \E s \in SessionId :
       \/ \E duration \in Granted : IssueCreate(c, s, duration) \/ IssueExtend(c, s, duration)
       \/ Insert(c, s) \/ Conflict(c, s) \/ IssueEnd(c, s) \/ Extend(c, s) \/ End(c, s)
  \/ Refuse(c)

Next ==
  \/ \E c \in Caller : Request(c) \/ Continue(c)
  \/ Sweep \/ PassTime
  \/ \E from, to \in Borders : BeginReport(from, to)
  \/ ReadSessions

Spec == Init /\ [][Next]_vars

-----------------------------------------------------------------------------
(* dailyUsage: the seconds of one day, from the listed sessions.           *)
DaySeconds(r, dayStart, dayEnd) ==
  Seconds(SumFunction([x \in r.sessions |->
                         Overlap(x.start, x.end, dayStart, dayEnd)]))

Days == {d \in Midnights \X Midnights :
           d[1] < d[2] /\ \A m \in Midnights : m <= d[1] \/ m >= d[2]}

Done == report.step = "done"

TypeOK ==
  /\ now \in 0 .. MaxTime /\ calls \in 0 .. MaxCalls
  /\ rows \in [SessionId -> Row \cup {NoRow}]
  /\ \A s \in SessionId : rows[s] # NoRow =>
       (rows[s].status = "ENDED" <=> rows[s].endedAt # NotEnded)
  /\ \A c \in Caller : call[c].step \in {"extend", "end", "extending", "ending"} =>
       rows[call[c].id] # NoRow
  /\ {used, usable} \subseteq [SessionId -> SUBSET (0 .. MaxTime)]
  /\ overtaken \subseteq SessionId
  /\ report.step \in {"none", "reading", "done"}
  /\ Done => report.usedSeconds \in Nat

(* The instants of a session in [from, to), as seen at t.                  *)
Within(instants, from, to, t) ==
  Cardinality({x \in instants : from <= x /\ x < to /\ x < t})

(* What one session, and what all of them may be said to have used in      *)
(* [from, to): what had happened when the report was asked for, and no     *)
(* more than had when the rows were read.                                  *)
OfSession(s, from, to, r) ==
  Seconds(Within(used[s], from, to, r.asOf))
    .. Seconds(Within(usable[s], from, to, r.readAt))

OfAll(from, to, r) ==
  Seconds(SumFunction([s \in SessionId |-> Within(used[s], from, to, r.asOf)]))
    .. Seconds(SumFunction([s \in SessionId |-> Within(usable[s], from, to, r.readAt)]))

(* "How long each machine was actually usable, not how much time was       *)
(* granted": a report counts what had happened when it was asked for, and  *)
(* nothing that had not when the rows were read -- however the requests    *)
(* for sessions overlap, and whether or not the sweeper noticed their end. *)
(* Where a write was under way the time may count or not; where one came   *)
(* too late for the row it was checked against nothing is claimed: then    *)
(* the report does count what has not happened, or forgets what has.       *)
ReportMatchesHistory ==
  Done /\ overtaken = {} =>
    report.usedSeconds \in OfAll(report.from, report.to, report)

(* "What made up these 3h 30m?": each listed session counts what it was    *)
(* itself usable in the window, and none is missing that was -- whatever   *)
(* came too late for others.                                               *)
RowsMatchHistory ==
  Done => \A s \in SessionId \ overtaken :
            \/ \E x \in report.sessions :
                 /\ x.id = s
                 /\ x.usedSeconds \in OfSession(s, report.from, report.to, report)
            \/ /\ \A x \in report.sessions : x.id # s
               /\ Within(used[s], report.from, report.to, report.asOf) = 0

(* "A session running 23:00-01:00 puts one hour in each day": the same of  *)
(* every local day of the range, short and long ones, as the dashboard     *)
(* works them out from the listed sessions.                                *)
DaysMatchHistory ==
  Done /\ overtaken = {} =>
    \A d \in Days : report.from <= d[1] /\ d[2] <= report.to =>
      DaySeconds(report, d[1], d[2]) \in OfAll(d[1], d[2], report)
=============================================================================
