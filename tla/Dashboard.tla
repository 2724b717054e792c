----------------------------- MODULE Dashboard -----------------------------
(***************************************************************************)
(* One operator's dashboard: the cached list of machines (use-machines.ts) *)
(* into which it merges the server's pushes (use-realtime.ts), the answers *)
(* to its own requests and the lists it fetches; and the server handlers   *)
(* that answer and push, those of other operators included.                *)
(*                                                                         *)
(* A push travels in order on the socket; an answer travels on its own.    *)
(* Presence, versions and names are left out, and so is time: a session    *)
(* that runs out ends on the card and in the database without a message.   *)
(***************************************************************************)
EXTENDS Naturals, Sequences

CONSTANTS Machine, Absent, Gone, Unloaded, NoRead,
          MaxRev  \* bound of changes to one machine's session

VARIABLES
  rows,         \* the machines table
  unpublished,  \* what was written and is about to be broadcast
  open,         \* the socket is among operatorSockets
  pushes,       \* what is on its way on it
  cache,        \* queryClient's machines: the cards of each, or Unloaded
  read,         \* requests of this dashboard answered with whole machines
  answers,      \* other answers on their way to it
  misled        \* it was not told of a change, or not in order

server == <<rows, unpublished>>
client == <<open, pushes, cache, read, answers>>
vars == <<rows, unpublished, open, pushes, cache, read, answers, misled>>

(* A revision of the machine's last session, or of having none.            *)
Session == [rev : 0 .. MaxRev, active : BOOLEAN]

Row == [pending : BOOLEAN, session : Session]

(* Machines whose rows have been read, and which of their sessions not yet.*)
Reading == [rows : UNION {[S -> Row] : S \in SUBSET Machine},
            left : SUBSET Machine]

ASSUME DashboardAssumption ==
  /\ MaxRev \in Nat
  /\ Absent # Gone /\ {Absent, Gone} \cap Row = {} /\ NoRead \notin Reading

NewRow == [pending |-> FALSE, session |-> [rev |-> 0, active |-> FALSE]]

Exists(m) == rows[m] \in Row

(* "list" is useMachines, "update" a rename or a revocation.               *)
Kind == {"list", "update", "create"}

Init ==
  /\ \E created \in SUBSET Machine :
       rows = [m \in Machine |-> IF m \in created THEN NewRow ELSE Absent]
  /\ unpublished = {} /\ answers = {}
  /\ open = FALSE /\ pushes = <<>>
  /\ cache = Unloaded
  /\ read = [k \in Kind |-> NoRead]
  /\ misled = FALSE

-----------------------------------------------------------------------------
(* What the dashboard does with a push, or with the answer to a request of *)
(* its own that brought the same news (the slip: to grey out a card).      *)
Patched(m, change) ==
  [cache EXCEPT ![m] = [i \in DOMAIN @ |-> change[@[i]]]]

WithSession(session) == [card \in Row |-> [card EXCEPT !.session = session]]

GreyedOut == [card \in Row |-> [card EXCEPT !.pending = TRUE]]

MergedKeeping(news) ==
  IF cache = Unloaded THEN Unloaded
  ELSE CASE news.type = "session" -> Patched(news.id, WithSession(news.session))
         [] OTHER -> Patched(news.id, GreyedOut)

Merged(news) ==
  IF cache = Unloaded THEN Unloaded
  ELSE CASE news.type = "session" -> Patched(news.id, WithSession(news.session))
         [] news.type = "decommissioning" -> Patched(news.id, GreyedOut)
         [] news.type = "removed" -> [cache EXCEPT ![news.id] = <<>>]

(* Something on its way to the dashboard is older than this news of it.    *)
Outdates(news) ==
  \/ \E a \in answers :
       /\ a.type = "session" /\ news.type = "session"
       /\ a.id = news.id /\ a.session.rev < news.session.rev
  \/ \E k \in Kind : read[k] # NoRead /\ news.id \in DOMAIN read[k].rows /\
       \/ news.type = "removed"
       \/ news.type = "decommissioning" /\ ~read[k].rows[news.id].pending
       \/ /\ news.type = "session" /\ news.id \notin read[k].left
          /\ read[k].rows[news.id].session.rev < news.session.rev

Missed(news) == cache # Unloaded \/ Outdates(news)

-----------------------------------------------------------------------------
(* Handlers: the write, and then, when its promise resolves, the broadcast *)
(* and the answer.  `mine` is a request of this dashboard.                 *)
Write(m, row, news, mine) ==
  /\ rows' = [rows EXCEPT ![m] = row]
  /\ unpublished' = unpublished \cup {[news |-> news, mine |-> mine]}
  /\ UNCHANGED <<client, misled>>

(* start, extend and end.                                                  *)
ChangeSession(m, mine) ==
  /\ Exists(m) /\ rows[m].session.rev < MaxRev
  /\ \E active \in BOOLEAN :
       LET session == [rev |-> rows[m].session.rev + 1, active |-> active]
       IN  /\ active \/ rows[m].session.active
           /\ Write(m, [rows[m] EXCEPT !.session = session],
                    [type |-> "session", id |-> m, session |-> session], mine)

(* requestDecommission of a machine with a credential that works; one that *)
(* is pending already is only answered.                                    *)
RequestRemoval(m, mine) ==
  /\ Exists(m)
  /\ \/ /\ ~rows[m].pending
        /\ Write(m, [rows[m] EXCEPT !.pending = TRUE],
                 [type |-> "decommissioning", id |-> m], mine)
     \/ /\ rows[m].pending /\ mine
        /\ answers' = answers \cup {[type |-> "decommissioning", id |-> m]}
        /\ UNCHANGED <<server, open, pushes, cache, read, misled>>

(* hardDelete, or finalizeDecommission.                                    *)
DeleteRow(m, mine) ==
  /\ Exists(m)
  /\ Write(m, Gone, [type |-> "removed", id |-> m], mine)

(* broadcastToOperators.                                                   *)
Publish(w) ==
  /\ unpublished' = unpublished \ {w}
  /\ pushes' = IF open THEN Append(pushes, w.news) ELSE pushes
  /\ answers' = IF w.mine THEN answers \cup {w.news} ELSE answers
  /\ misled' = \/ misled
               \/ ~open /\ Missed(w.news)
               \/ \E u \in unpublished :
                    /\ w.news.type = "session" /\ u.news.type = "session"
                    /\ u.news.id = w.news.id
                    /\ u.news.session.rev < w.news.session.rev
  /\ UNCHANGED <<rows, open, cache, read>>

(* list and toDto: the machine rows first, the session of each afterwards. *)
BeginRead(k, machines) ==
  /\ read[k] = NoRead
  /\ read' = [read EXCEPT ![k] = [rows |-> [m \in machines |-> rows'[m]],
                                  left |-> machines]]

BeginList ==
  /\ UNCHANGED <<server, open, pushes, cache, answers, misled>>
  /\ BeginRead("list", {m \in Machine : Exists(m)})

BeginUpdate(m) ==
  /\ Exists(m)
  /\ UNCHANGED <<server, open, pushes, cache, answers, misled>>
  /\ BeginRead("update", {m})

(* create, by this dashboard or by another: nothing is broadcast.          *)
Create(m) ==
  /\ rows[m] = Absent
  /\ rows' = [rows EXCEPT ![m] = NewRow]
  /\ \/ BeginRead("create", {m}) /\ misled' = misled
     \/ /\ read' = read
        /\ misled' = (misled \/ cache # Unloaded \/ read["list"] # NoRead)
  /\ UNCHANGED <<unpublished, open, pushes, cache, answers>>

ReadSession(k) ==
  /\ read[k] # NoRead
  /\ \E m \in read[k].left :
       LET r == read[k]
       IN  read' = [read EXCEPT ![k] =
             [rows |-> IF Exists(m)
                       THEN [r.rows EXCEPT ![m].session = rows[m].session]
                       ELSE r.rows,
              left |-> r.left \ {m}]]
  /\ UNCHANGED <<server, open, pushes, cache, answers, misled>>

-----------------------------------------------------------------------------
(* The dashboard.                                                          *)

Connect ==
  /\ ~open
  /\ open' = TRUE
  /\ UNCHANGED <<server, pushes, cache, read, answers, misled>>

(* What was on its way on the socket is lost (the slip: it is not).        *)
DisconnectAndKeep ==
  /\ open
  /\ open' = FALSE
  /\ UNCHANGED <<server, pushes, cache, read, answers, misled>>

Disconnect ==
  /\ open
  /\ open' = FALSE /\ pushes' = <<>>
  /\ misled' = (misled \/ \E i \in DOMAIN pushes : Missed(pushes[i]))
  /\ UNCHANGED <<server, cache, read, answers>>

OnMessage ==
  /\ pushes # <<>>
  /\ pushes' = Tail(pushes)
  /\ cache' = Merged(Head(pushes))
  /\ misled' = (misled \/ Outdates(Head(pushes)))
  /\ UNCHANGED <<server, open, read, answers>>

OnAnswer(a) ==
  /\ answers' = answers \ {a}
  /\ cache' = Merged(a)
  /\ UNCHANGED <<server, open, pushes, read, misled>>

Arrives(k) ==
  /\ read[k] # NoRead /\ read[k].left = {}
  /\ read' = [read EXCEPT ![k] = NoRead]

(* A whole machine replaces its card, a list the cards, and a new machine  *)
(* is added to whatever there is: a card of it that a list has brought,    *)
(* or no list at all.                                                      *)
OnList ==
  /\ Arrives("list")
  /\ cache' = [m \in Machine |-> IF m \in DOMAIN read["list"].rows
                                THEN <<read["list"].rows[m]>> ELSE <<>>]
  /\ UNCHANGED <<server, open, pushes, answers, misled>>

OnUpdate ==
  /\ Arrives("update")
  /\ \E m \in DOMAIN read["update"].rows :
       cache' = IF cache = Unloaded THEN Unloaded
                ELSE Patched(m, [card \in Row |-> read["update"].rows[m]])
  /\ UNCHANGED <<server, open, pushes, answers, misled>>

OnCreate ==
  /\ Arrives("create")
  /\ \E m \in DOMAIN read["create"].rows :
       LET others == IF cache = Unloaded THEN [n \in Machine |-> <<>>] ELSE cache
       IN  /\ cache' = [others EXCEPT ![m] = Append(@, read["create"].rows[m])]
           /\ misled' = \/ misled
                        \/ cache = Unloaded
                        \/ others[m] # <<>>
                        \/ read["list"] # NoRead /\ m \notin DOMAIN read["list"].rows
  /\ UNCHANGED <<server, open, pushes, answers>>

(* A request fails on its way back.                                        *)
LoseAnswer(a) ==
  /\ answers' = answers \ {a}
  /\ UNCHANGED <<server, open, pushes, cache, read, misled>>

LoseRead(k) ==
  /\ read[k] # NoRead
  /\ read' = [read EXCEPT ![k] = NoRead]
  /\ misled' = (misled \/ k = "create")
  /\ UNCHANGED <<server, open, pushes, cache, answers>>

Request(m) ==
  \/ \E mine \in BOOLEAN :
       ChangeSession(m, mine) \/ RequestRemoval(m, mine) \/ DeleteRow(m, mine)
  \/ BeginUpdate(m) \/ Create(m)

Receive ==
  \/ OnMessage
  \/ \E a \in answers : OnAnswer(a) \/ LoseAnswer(a)
  \/ OnList \/ OnUpdate \/ OnCreate \/ \E k \in Kind : LoseRead(k)

Next ==
  \/ \E m \in Machine : Request(m)
  \/ \E w \in unpublished : Publish(w)
  \/ BeginList \/ \E k \in Kind : ReadSession(k)
  \/ Connect \/ Disconnect \/ Receive

Spec == Init /\ [][Next]_vars

-----------------------------------------------------------------------------
News == [type : {"session"}, id : Machine, session : Session]
          \cup [type : {"decommissioning", "removed"}, id : Machine]

TypeOK ==
  /\ rows \in [Machine -> Row \cup {Absent, Gone}]
  /\ unpublished \subseteq [news : News, mine : BOOLEAN]
  /\ pushes \in Seq(News) /\ answers \subseteq News
  /\ cache = Unloaded \/ cache \in [Machine -> Seq(Row)]
  /\ read \in [Kind -> Reading \cup {NoRead}]
  /\ \A k \in Kind : read[k] # NoRead => read[k].left \subseteq DOMAIN read[k].rows
  /\ {open, misled} \subseteq BOOLEAN
  /\ ~open => pushes = <<>>

ShownRight(m) == cache[m] = IF Exists(m) THEN <<rows[m]>> ELSE <<>>

(* Nothing about m is still to come.                                       *)
Told(m) ==
  /\ \A w \in unpublished : w.news.id # m
  /\ \A i \in DOMAIN pushes : pushes[i].id # m
  /\ read["create"] # NoRead => m \notin DOMAIN read["create"].rows

(* "The dashboard applies these directly to its local cache (no refetch)": *)
(* that is enough.  Once everything about a machine has arrived, it has    *)
(* exactly one card, which agrees with the database, or none if it was     *)
(* removed -- whatever answers are still on their way, and in whatever     *)
(* order pushes, lists and answers came -- except when the dashboard was   *)
(* misled: it was not connected, or an answer was older than a push that   *)
(* overtook it, or two changes were broadcast in the wrong order, or       *)
(* another operator added a machine, or a machine it adds itself comes     *)
(* before, or in the middle of, a list.                                    *)
ShowsServer ==
  ~misled /\ cache # Unloaded => \A m \in Machine : Told(m) => ShownRight(m)
=============================================================================
