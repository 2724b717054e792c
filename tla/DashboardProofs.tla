-------------------------- MODULE DashboardProofs --------------------------
(***************************************************************************)
(* Theorems about Dashboard, for any machines and any number of changes,   *)
(* requests, pushes and answers under way: what the dashboard shows is     *)
(* what the database holds.                                                *)
(***************************************************************************)
EXTENDS Dashboard, TLAPS

-----------------------------------------------------------------------------
(* Types.                                                                  *)

(* Rows are read as they are, and a session or a mark changes nothing else *)
(* (toDto; the spreads in use-realtime.ts and use-machines.ts).            *)
LEMMA CardTypes ==
  /\ \A row \in Row, s \in Session :
       /\ [row EXCEPT !.session = s] \in Row
       /\ [row EXCEPT !.session = s].session = s
       /\ [row EXCEPT !.session = s].pending = row.pending
  /\ \A row \in Row :
       /\ [row EXCEPT !.pending = TRUE] \in Row
       /\ [row EXCEPT !.pending = TRUE].session = row.session
       /\ [row EXCEPT !.pending = TRUE].pending = TRUE
  /\ \A row \in Row : row.session \in Session /\ row.session.rev \in 0 .. MaxRev
  /\ NewRow \in Row
PROOF
<1>1. [rev |-> 0, active |-> FALSE] \in Session
  BY DashboardAssumption DEF Session
<1>2. NewRow \in Row
  BY <1>1 DEF NewRow, Row
<1>3. \A s \in Session : s.rev \in 0 .. MaxRev
  BY DEF Session
<1> QED BY <1>2, <1>3 DEF Row

(* Patching the cards of a machine (patchMachineSession and its kin) maps  *)
(* each of them and leaves the other machines' alone.                      *)
LEMMA PatchedCards ==
  ASSUME cache \in [Machine -> Seq(Row)], NEW m \in Machine,
         NEW change \in [Row -> Row]
  PROVE  /\ Patched(m, change) \in [Machine -> Seq(Row)]
         /\ \A n \in Machine : n # m => Patched(m, change)[n] = cache[n]
         /\ Len(Patched(m, change)[m]) = Len(cache[m])
         /\ \A i \in 1 .. Len(cache[m]) : Patched(m, change)[m][i] = change[cache[m][i]]
PROOF
<1> DEFINE new == [i \in DOMAIN cache[m] |-> change[cache[m][i]]]
<1>1. cache[m] \in Seq(Row)
  OBVIOUS
<1>2. /\ new \in Seq(Row) /\ Len(new) = Len(cache[m])
      /\ \A i \in 1 .. Len(cache[m]) : new[i] = change[cache[m][i]]
  <2> HIDE DEF new
  <2>1. new = [i \in 1 .. Len(cache[m]) |-> change[cache[m][i]]]
    BY <1>1 DEF new
  <2>2. \A i \in 1 .. Len(cache[m]) : change[cache[m][i]] \in Row
    BY <1>1
  <2> QED BY <1>1, <2>1, <2>2
<1>3. Patched(m, change) = [cache EXCEPT ![m] = new]
  BY DEF Patched
<1> HIDE DEF new
<1> QED BY <1>2, <1>3

(* The two partial changes, and a whole machine (renameMachine's answer).  *)
LEMMA Changes ==
  /\ GreyedOut \in [Row -> Row]
  /\ \A card \in Row : GreyedOut[card] = [card EXCEPT !.pending = TRUE]
  /\ \A s \in Session :
       /\ WithSession(s) \in [Row -> Row]
       /\ \A card \in Row : WithSession(s)[card] = [card EXCEPT !.session = s]
BY CardTypes DEF GreyedOut, WithSession

(* The three kinds of news the server broadcasts.                          *)
LEMMA NewsTypes ==
  ASSUME NEW n \in News
  PROVE  /\ n.id \in Machine
         /\ \/ /\ n.type = "session" /\ n.session \in Session
               /\ n = [type |-> "session", id |-> n.id, session |-> n.session]
            \/ /\ n.type = "decommissioning"
               /\ n = [type |-> "decommissioning", id |-> n.id]
            \/ /\ n.type = "removed"
               /\ n = [type |-> "removed", id |-> n.id]
BY DEF News

(* What it broadcasts is news.                                             *)
LEMMA NewsAre ==
  ASSUME NEW m \in Machine
  PROVE  /\ \A s \in Session : [type |-> "session", id |-> m, session |-> s] \in News
         /\ [type |-> "decommissioning", id |-> m] \in News
         /\ [type |-> "removed", id |-> m] \in News
BY DEF News

(* A machine list, or one machine, as toDto reads it.                      *)
LEMMA ReadingTypes ==
  ASSUME NEW r \in Reading
  PROVE  /\ DOMAIN r.rows \subseteq Machine /\ r.left \subseteq Machine
         /\ \A m \in DOMAIN r.rows : r.rows[m] \in Row
BY DEF Reading

(* Merging news into the cache leaves it a cache.                          *)
LEMMA MergedType ==
  ASSUME NEW n \in News, cache = Unloaded \/ cache \in [Machine -> Seq(Row)]
  PROVE  Merged(n) = Unloaded \/ Merged(n) \in [Machine -> Seq(Row)]
PROOF
<1>1. CASE cache = Unloaded
  BY <1>1 DEF Merged
<1>2. CASE cache # Unloaded /\ n.type = "session"
  BY <1>2, NewsTypes, PatchedCards, Changes DEF Merged
<1>3. CASE cache # Unloaded /\ n.type = "decommissioning"
  BY <1>3, NewsTypes, PatchedCards, Changes DEF Merged
<1>4. CASE cache # Unloaded /\ n.type = "removed"
  BY <1>4, NewsTypes DEF Merged
<1> QED BY <1>1, <1>2, <1>3, <1>4, NewsTypes

(* toDto's first half: a reading begins with the rows as they are.         *)
LEMMA BeginReadType ==
  ASSUME TypeOK, NEW k \in Kind, NEW S \in SUBSET Machine,
         \A m \in S : rows'[m] \in Row, BeginRead(k, S)
  PROVE  /\ read' \in [Kind -> Reading \cup {NoRead}]
         /\ \A j \in Kind : read'[j] # NoRead => read'[j].left \subseteq DOMAIN read'[j].rows
         /\ read'[k] # NoRead /\ read'[k].rows = [m \in S |-> rows'[m]]
         /\ DOMAIN read'[k].rows = S /\ read'[k].left = S
         /\ \A j \in Kind : j # k => read'[j] = read[j]
PROOF
<1> DEFINE r == [rows |-> [m \in S |-> rows'[m]], left |-> S]
<1>1. r \in Reading
  BY DEF Reading
<1>2. r # NoRead
  BY <1>1, DashboardAssumption
<1>3. r.rows = [m \in S |-> rows'[m]] /\ DOMAIN r.rows = S /\ r.left = S
  OBVIOUS
<1>4. read' = [read EXCEPT ![k] = r]
  BY DEF BeginRead
<1> HIDE DEF r
<1> QED BY <1>1, <1>2, <1>3, <1>4 DEF TypeOK

(* toDto's second half: the session of one machine after the other.        *)
LEMMA ReadSessionType ==
  ASSUME TypeOK, NEW k \in Kind, ReadSession(k)
  PROVE  /\ read' \in [Kind -> Reading \cup {NoRead}]
         /\ read[k] # NoRead /\ read'[k] # NoRead
         /\ DOMAIN read'[k].rows = DOMAIN read[k].rows
         /\ \A j \in Kind : j # k => read'[j] = read[j]
         /\ \E m \in read[k].left :
              /\ read'[k].left = read[k].left \ {m}
              /\ \A n \in DOMAIN read[k].rows : n # m =>
                   read'[k].rows[n] = read[k].rows[n]
              /\ read'[k].rows[m].pending = read[k].rows[m].pending
              /\ Exists(m) => read'[k].rows[m].session = rows[m].session
PROOF
<1> DEFINE old == read[k]
<1>1. PICK m \in old.left :
        read' = [read EXCEPT ![k] =
          [rows |-> IF Exists(m) THEN [old.rows EXCEPT ![m].session = rows[m].session]
                                 ELSE old.rows,
           left |-> old.left \ {m}]]
  BY DEF ReadSession
<1> DEFINE row == [old.rows[m] EXCEPT !.session = rows[m].session]
           seen == IF Exists(m) THEN [old.rows EXCEPT ![m] = row] ELSE old.rows
           new == [rows |-> seen, left |-> old.left \ {m}]
<1>2. /\ old \in Reading /\ old.left \subseteq DOMAIN old.rows
      /\ DOMAIN old.rows \subseteq Machine
      /\ \A n \in DOMAIN old.rows : old.rows[n] \in Row
  <2>1. old # NoRead /\ old \in Reading
    BY DEF ReadSession, TypeOK
  <2> HIDE DEF old
  <2>2. DOMAIN old.rows \subseteq Machine /\ \A n \in DOMAIN old.rows : old.rows[n] \in Row
    BY <2>1, ReadingTypes
  <2>3. old.left \subseteq DOMAIN old.rows
    BY <2>1 DEF TypeOK, old
  <2> QED BY <2>1, <2>2, <2>3
<1>3. old.rows \in [DOMAIN old.rows -> Row] /\ m \in DOMAIN old.rows
  BY <1>1, <1>2 DEF Reading
<1>4. Exists(m) => /\ row \in Row /\ row.session = rows[m].session
                   /\ row.pending = old.rows[m].pending
  <2>1. Exists(m) => rows[m].session \in Session
    BY CardTypes DEF Exists
  <2> HIDE DEF old
  <2> QED BY <1>2, <1>3, <2>1, CardTypes
<1>5. /\ seen \in [DOMAIN old.rows -> Row]
      /\ \A n \in DOMAIN old.rows : n # m => seen[n] = old.rows[n]
      /\ seen[m].pending = old.rows[m].pending
      /\ Exists(m) => seen[m].session = rows[m].session
  <2> HIDE DEF row, old
  <2> QED BY <1>3, <1>4
<1>6. new.rows = seen /\ new.left = old.left \ {m} /\ new \in Reading /\ new # NoRead
  <2>1. new.rows = seen /\ new.left = old.left \ {m}
    OBVIOUS
  <2>2. new \in Reading
    <3> HIDE DEF seen, old
    <3> QED BY <1>2, <1>5 DEF Reading
  <2>3. new # NoRead
    BY <2>2, DashboardAssumption
  <2> QED BY <2>1, <2>2, <2>3
<1>7. read' = [read EXCEPT ![k] = new]
  <2>1. Exists(m) => [old.rows EXCEPT ![m].session = rows[m].session]
                       = [old.rows EXCEPT ![m] = row]
    OBVIOUS
  <2> QED BY <1>1, <2>1
<1> HIDE DEF new, row, seen
<1>8. read \in [Kind -> Reading \cup {NoRead}] /\ read[k] # NoRead
  BY DEF ReadSession, TypeOK
<1>9. read'[k] = new /\ \A j \in Kind : j # k => read'[j] = read[j]
  BY <1>7, <1>8
<1>10. read' \in [Kind -> Reading \cup {NoRead}]
  BY <1>6, <1>7, <1>8
<1>11. /\ read'[k] # NoRead /\ DOMAIN read'[k].rows = DOMAIN read[k].rows
       /\ read'[k].left = read[k].left \ {m}
       /\ \A n \in DOMAIN read[k].rows : n # m => read'[k].rows[n] = read[k].rows[n]
       /\ read'[k].rows[m].pending = read[k].rows[m].pending
       /\ Exists(m) => read'[k].rows[m].session = rows[m].session
  BY <1>5, <1>6, <1>9
<1> QED BY <1>1, <1>8, <1>9, <1>10, <1>11

(* A handler's write sets one row and queues one broadcast.                *)
LEMMA WriteType ==
  ASSUME TypeOK, NEW m \in Machine, NEW row \in Row \cup {Gone}, NEW n \in News,
         NEW mine \in BOOLEAN, Write(m, row, n, mine)
  PROVE  TypeOK'
PROOF
<1>1. rows' \in [Machine -> Row \cup {Absent, Gone}]
  BY DEF TypeOK, Write
<1>2. unpublished' \subseteq [news : News, mine : BOOLEAN]
  BY DEF TypeOK, Write
<1>3. UNCHANGED <<open, pushes, cache, read, answers, misled>>
  BY DEF Write, client
<1> QED BY <1>1, <1>2, <1>3 DEF TypeOK

(* What one step of ChangeSession writes.                                  *)
LEMMA ChangeSessionWrites ==
  ASSUME TypeOK, NEW m \in Machine, NEW mine \in BOOLEAN, ChangeSession(m, mine)
  PROVE  /\ Exists(m)
         /\ \E s \in Session :
              /\ s.rev = rows[m].session.rev + 1
              /\ Write(m, [rows[m] EXCEPT !.session = s],
                       [type |-> "session", id |-> m, session |-> s], mine)
PROOF
<1>1. Exists(m) /\ rows[m].session.rev < MaxRev /\ rows[m] \in Row
  BY DEF ChangeSession, Exists
<1>2. PICK active \in BOOLEAN :
        LET s == [rev |-> rows[m].session.rev + 1, active |-> active]
        IN  Write(m, [rows[m] EXCEPT !.session = s],
                  [type |-> "session", id |-> m, session |-> s], mine)
  BY DEF ChangeSession
<1>3. [rev |-> rows[m].session.rev + 1, active |-> active] \in Session
  <2>1. rows[m].session.rev \in 0 .. MaxRev
    BY <1>1, CardTypes
  <2> QED BY <1>1, <2>1, DashboardAssumption DEF Session
<1> QED BY <1>1, <1>2, <1>3

(* misled is a truth value, of whatever its disjuncts are.                 *)
LEMMA MisledType ==
  ASSUME TypeOK, Next
  PROVE  misled' \in BOOLEAN /\ (misled => misled')
PROOF
<1>1. misled \in BOOLEAN
  BY DEF TypeOK
<1>2. ASSUME NEW m \in Machine, Request(m) PROVE misled' \in BOOLEAN /\ (misled => misled')
  BY <1>1, <1>2, Zenon DEF Request, ChangeSession, RequestRemoval, DeleteRow, Write,
    BeginUpdate, Create
<1>3. ASSUME NEW w \in unpublished, Publish(w)
      PROVE  misled' \in BOOLEAN /\ (misled => misled')
  BY <1>1, <1>3, Zenon DEF Publish
<1>4. CASE BeginList \/ Connect \/ Disconnect \/ \E k \in Kind : ReadSession(k)
  BY <1>1, <1>4, Zenon DEF BeginList, Connect, Disconnect, ReadSession
<1>5. CASE Receive
  BY <1>1, <1>5, Zenon DEF Receive, OnMessage, OnAnswer, LoseAnswer, OnList, OnUpdate,
    OnCreate, LoseRead
<1> QED BY <1>2, <1>3, <1>4, <1>5, Zenon DEF Next

(* Every reachable state of the dashboard and the server has its type.     *)
LEMMA TypeStep == TypeOK /\ [Next]_vars => TypeOK'
PROOF
<1> SUFFICES ASSUME TypeOK, Next PROVE TypeOK'
  BY DEF TypeOK, vars, Exists
<1>0. misled' \in BOOLEAN
  BY MisledType
<1>1. ASSUME NEW m \in Machine, NEW mine \in BOOLEAN, ChangeSession(m, mine)
      PROVE  TypeOK'
  BY <1>1, ChangeSessionWrites, WriteType, CardTypes, NewsAre DEF Exists
<1>2. ASSUME NEW m \in Machine, NEW mine \in BOOLEAN, RequestRemoval(m, mine)
      PROVE  TypeOK'
  <2>1. rows[m] \in Row /\ [rows[m] EXCEPT !.pending = TRUE] \in Row
    BY <1>2, CardTypes DEF RequestRemoval, Exists
  <2>2. [type |-> "decommissioning", id |-> m] \in News
    BY NewsAre
  <2>3. CASE Write(m, [rows[m] EXCEPT !.pending = TRUE],
                   [type |-> "decommissioning", id |-> m], mine)
    BY <2>1, <2>2, <2>3, WriteType
  <2>4. CASE /\ answers' = answers \cup {[type |-> "decommissioning", id |-> m]}
             /\ UNCHANGED <<server, open, pushes, cache, read, misled>>
    BY <2>2, <2>4 DEF TypeOK, server
  <2> QED BY <1>2, <2>3, <2>4 DEF RequestRemoval
<1>3. ASSUME NEW m \in Machine, NEW mine \in BOOLEAN, DeleteRow(m, mine)
      PROVE  TypeOK'
  BY <1>3, WriteType, NewsAre DEF DeleteRow
<1>4. ASSUME NEW m \in Machine, BeginUpdate(m) PROVE TypeOK'
  <2>1. /\ UNCHANGED <<server, open, pushes, cache, answers, misled>>
        /\ BeginRead("update", {m}) /\ rows'[m] \in Row
    BY <1>4 DEF BeginUpdate, server, Exists
  <2>2. /\ read' \in [Kind -> Reading \cup {NoRead}]
        /\ \A j \in Kind : read'[j] # NoRead => read'[j].left \subseteq DOMAIN read'[j].rows
    <3>1. {m} \in SUBSET Machine /\ \A x \in {m} : rows'[x] \in Row
      BY <2>1
    <3>2. "update" \in Kind
      BY DEF Kind
    <3> QED BY <2>1, <3>1, <3>2, BeginReadType
  <2> QED BY <2>1, <2>2 DEF TypeOK, server
<1>5. ASSUME NEW m \in Machine, Create(m) PROVE TypeOK'
  <2>1. /\ rows' = [rows EXCEPT ![m] = NewRow]
        /\ UNCHANGED <<unpublished, open, pushes, cache, answers>>
        /\ BeginRead("create", {m}) \/ read' = read
    BY <1>5 DEF Create
  <2>2. rows' \in [Machine -> Row \cup {Absent, Gone}] /\ rows'[m] \in Row
    BY <2>1, CardTypes DEF TypeOK
  <2>3. /\ read' \in [Kind -> Reading \cup {NoRead}]
        /\ \A j \in Kind : read'[j] # NoRead => read'[j].left \subseteq DOMAIN read'[j].rows
    <3>1. CASE read' = read
      BY <3>1 DEF TypeOK
    <3>2. CASE BeginRead("create", {m})
      <4>1. {m} \in SUBSET Machine /\ \A x \in {m} : rows'[x] \in Row
        BY <2>2
      <4>2. "create" \in Kind
        BY DEF Kind
      <4> QED BY <3>2, <4>1, <4>2, BeginReadType
    <3> QED BY <2>1, <3>1, <3>2
  <2> QED BY <1>0, <2>1, <2>2, <2>3 DEF TypeOK
<1>6. ASSUME NEW w \in unpublished, Publish(w) PROVE TypeOK'
  <2>1. w.news \in News
    BY DEF TypeOK
  <2>2. /\ unpublished' = unpublished \ {w}
        /\ pushes' = IF open THEN Append(pushes, w.news) ELSE pushes
        /\ answers' = IF w.mine THEN answers \cup {w.news} ELSE answers
        /\ UNCHANGED <<rows, open, cache, read>>
    BY <1>6 DEF Publish
  <2>3. pushes' \in Seq(News)
    BY <2>1, <2>2 DEF TypeOK
  <2>4. answers' \subseteq News
    BY <2>1, <2>2 DEF TypeOK
  <2> QED BY <1>0, <2>2, <2>3, <2>4 DEF TypeOK
<1>7. CASE BeginList
  <2> DEFINE S == {m \in Machine : Exists(m)}
  <2>1. /\ UNCHANGED <<server, open, pushes, cache, answers, misled>>
        /\ BeginRead("list", S) /\ \A m \in S : rows'[m] \in Row
    BY <1>7 DEF BeginList, server, Exists
  <2>2. /\ read' \in [Kind -> Reading \cup {NoRead}]
        /\ \A j \in Kind : read'[j] # NoRead => read'[j].left \subseteq DOMAIN read'[j].rows
    <3> HIDE DEF S
    <3>1. S \in SUBSET Machine
      BY DEF S
    <3> QED BY <2>1, <3>1, BeginReadType DEF Kind
  <2> QED BY <2>1, <2>2 DEF TypeOK, server
<1>8. ASSUME NEW k \in Kind, ReadSession(k) PROVE TypeOK'
  <2>1. UNCHANGED <<server, open, pushes, cache, answers, misled>>
    BY <1>8 DEF ReadSession
  <2>2. /\ read' \in [Kind -> Reading \cup {NoRead}]
        /\ \A j \in Kind : read'[j] # NoRead => read'[j].left \subseteq DOMAIN read'[j].rows
    BY <1>8, ReadSessionType DEF TypeOK
  <2> QED BY <2>1, <2>2 DEF TypeOK, server
<1>9. CASE Connect \/ Disconnect
  <2>1. UNCHANGED <<rows, unpublished, cache, read, answers>>
    BY <1>9 DEF Connect, Disconnect, server
  <2>2. \/ open' = TRUE /\ pushes' = pushes
        \/ open' = FALSE /\ pushes' = <<>>
    <3>1. CASE Connect
      BY <3>1 DEF Connect
    <3>2. CASE Disconnect
      BY <3>2 DEF Disconnect
    <3> QED BY <1>9, <3>1, <3>2
  <2>3. {open', misled'} \subseteq BOOLEAN
    BY <1>0, <2>2, Zenon
  <2>4. pushes' \in Seq(News)
    <3>1. pushes' = pushes \/ pushes' = <<>>
      BY <2>2, Zenon
    <3>2. pushes \in Seq(News)
      BY DEF TypeOK
    <3>3. <<>> \in Seq(News)
      OBVIOUS
    <3> QED BY <3>1, <3>2, <3>3, Zenon
  <2>5. ~open' => pushes' = <<>>
    BY <2>2, Zenon
  <2> QED BY <2>1, <2>3, <2>4, <2>5 DEF TypeOK
<1>10. CASE OnMessage
  <2>1. /\ pushes # <<>> /\ pushes' = Tail(pushes) /\ cache' = Merged(Head(pushes))
        /\ UNCHANGED <<server, open, read, answers>>
    BY <1>10 DEF OnMessage
  <2>2. Head(pushes) \in News /\ pushes' \in Seq(News) /\ open
    BY <2>1 DEF TypeOK
  <2>3. cache' = Unloaded \/ cache' \in [Machine -> Seq(Row)]
    BY <2>1, <2>2, MergedType DEF TypeOK
  <2> QED BY <1>0, <2>1, <2>2, <2>3 DEF TypeOK, server
<1>11. ASSUME NEW a \in answers, OnAnswer(a) PROVE TypeOK'
  <2>1. /\ answers' = answers \ {a} /\ cache' = Merged(a)
        /\ UNCHANGED <<server, open, pushes, read, misled>>
    BY <1>11 DEF OnAnswer
  <2>2. cache' = Unloaded \/ cache' \in [Machine -> Seq(Row)]
    BY <2>1, MergedType DEF TypeOK
  <2> QED BY <2>1, <2>2 DEF TypeOK, server
<1>12. ASSUME NEW k \in Kind, Arrives(k) \/ LoseRead(k)
       PROVE  /\ read' \in [Kind -> Reading \cup {NoRead}]
              /\ \A j \in Kind : read'[j] # NoRead => read'[j].left \subseteq DOMAIN read'[j].rows
  BY <1>12 DEF Arrives, LoseRead, TypeOK
<1>13. CASE OnList
  <2>1. Arrives("list") /\ UNCHANGED <<server, open, pushes, answers, misled>>
    BY <1>13 DEF OnList
  <2>2. cache' \in [Machine -> Seq(Row)]
    <3>1. read["list"] \in Reading
      BY <2>1 DEF Arrives, TypeOK, Kind
    <3>2. \A m \in DOMAIN read["list"].rows : read["list"].rows[m] \in Row
      BY <3>1, ReadingTypes
    <3> QED BY <1>13, <3>2 DEF OnList
  <2> QED BY <1>12, <2>1, <2>2 DEF TypeOK, server, Kind
<1>14. CASE OnUpdate
  <2>1. Arrives("update") /\ UNCHANGED <<server, open, pushes, answers, misled>>
    BY <1>14 DEF OnUpdate
  <2>2. read["update"] \in Reading
    BY <2>1 DEF Arrives, TypeOK, Kind
  <2>3. PICK m \in DOMAIN read["update"].rows :
          cache' = IF cache = Unloaded THEN Unloaded
                   ELSE Patched(m, [card \in Row |-> read["update"].rows[m]])
    BY <1>14 DEF OnUpdate
  <2>4. m \in Machine /\ [card \in Row |-> read["update"].rows[m]] \in [Row -> Row]
    BY <2>2, ReadingTypes
  <2>5. cache' = Unloaded \/ cache' \in [Machine -> Seq(Row)]
    BY <2>3, <2>4, PatchedCards DEF TypeOK
  <2> QED BY <1>12, <2>1, <2>5 DEF TypeOK, server, Kind
<1>15. CASE OnCreate
  <2>1. Arrives("create") /\ UNCHANGED <<server, open, pushes, answers>>
    BY <1>15 DEF OnCreate
  <2>2. read["create"] \in Reading
    BY <2>1 DEF Arrives, TypeOK, Kind
  <2> DEFINE others == IF cache = Unloaded THEN [n \in Machine |-> <<>>] ELSE cache
  <2>3. others \in [Machine -> Seq(Row)]
    BY DEF TypeOK
  <2>4. PICK m \in DOMAIN read["create"].rows :
          cache' = [others EXCEPT ![m] = Append(@, read["create"].rows[m])]
    BY <1>15 DEF OnCreate
  <2> HIDE DEF others
  <2>5. m \in Machine /\ read["create"].rows[m] \in Row
    BY <2>2, ReadingTypes
  <2>6. cache' \in [Machine -> Seq(Row)]
    BY <2>3, <2>4, <2>5
  <2> QED BY <1>0, <1>12, <2>1, <2>6 DEF TypeOK, server, Kind
<1>16. CASE (\E a \in answers : LoseAnswer(a)) \/ \E k \in Kind : LoseRead(k)
  <2>1. CASE \E a \in answers : LoseAnswer(a)
    BY <2>1 DEF LoseAnswer, TypeOK, server
  <2>2. CASE \E k \in Kind : LoseRead(k)
    <3>1. UNCHANGED <<server, open, pushes, cache, answers>>
      BY <2>2 DEF LoseRead
    <3> QED BY <1>0, <1>12, <2>2, <3>1 DEF TypeOK, server
  <2> QED BY <1>16, <2>1, <2>2
<1> QED
  BY <1>1, <1>2, <1>3, <1>4, <1>5, <1>6, <1>7, <1>8, <1>9, <1>10, <1>11, <1>13,
     <1>14, <1>15, <1>16 DEF Next, Request, Receive

-----------------------------------------------------------------------------
(* What agrees with the database, while the dashboard is not misled.       *)

Unsent == {w.news : w \in unpublished}

(* What the dashboard is still to be told.                                 *)
Coming == Unsent \cup {pushes[i] : i \in DOMAIN pushes}

Latest(m) == [type |-> "session", id |-> m, session |-> rows[m].session]

Marked(m) == [type |-> "decommissioning", id |-> m]

Removed(m) == [type |-> "removed", id |-> m]

(* News is of something that happened to a machine.                        *)
IsTrue(n) ==
  /\ rows[n.id] # Absent
  /\ n.type = "removed" => ~Exists(n.id)
  /\ n.type = "decommissioning" /\ Exists(n.id) => rows[n.id].pending
  /\ n.type = "session" /\ Exists(n.id) =>
       \/ n.session = rows[n.id].session
       \/ n.session.rev < rows[n.id].session.rev

TrueNews == \A n \in Coming \cup answers : IsTrue(n)

Superseded(n) ==
  n.type = "session" /\ Exists(n.id) /\ n.session # rows[n.id].session

Follows(m, i) == \E j \in DOMAIN pushes : j > i /\ pushes[j] = Latest(m)

(* A change of session that has been superseded is not the last that comes.*)
InOrder ==
  /\ \A n \in Unsent : Superseded(n) => Latest(n.id) \in Unsent
  /\ \A i \in DOMAIN pushes : Superseded(pushes[i]) =>
       Latest(pushes[i].id) \in Unsent \/ Follows(pushes[i].id, i)
  /\ \A a \in answers : Superseded(a) => Latest(a.id) \in Coming

MarkFresh(m, card) ==
  /\ card.pending => rows[m].pending
  /\ rows[m].pending /\ ~card.pending => Marked(m) \in Coming

SessionFresh(m, session) ==
  \/ session = rows[m].session
  \/ session.rev < rows[m].session.rev /\ Latest(m) \in Coming

(* What has been read of a machine.                                        *)
ReadFresh(k, m) ==
  /\ rows[m] # Absent
  /\ Exists(m) =>
       /\ MarkFresh(m, read[k].rows[m])
       /\ m \notin read[k].left => SessionFresh(m, read[k].rows[m].session)
  /\ ~Exists(m) => Removed(m) \in Coming

ReadsFresh ==
  \A k \in Kind : read[k] # NoRead => \A m \in DOMAIN read[k].rows : ReadFresh(k, m)

Created(m) == read["create"] # NoRead /\ m \in DOMAIN read["create"].rows

OneCreated == \A m, n \in Machine : Created(m) /\ Created(n) => m = n

Listed ==
  read["list"] # NoRead =>
    \A m \in Machine : Exists(m) => m \in DOMAIN read["list"].rows \/ Created(m)

(* The cards of a machine.                                                 *)
CardsFresh(m) ==
  IF Exists(m)
  THEN \/ cache[m] = <<>> /\ Created(m)
       \/ /\ Len(cache[m]) = 1
          /\ MarkFresh(m, cache[m][1]) /\ SessionFresh(m, cache[m][1].session)
  ELSE \/ cache[m] = <<>>
       \/ Len(cache[m]) = 1 /\ Removed(m) \in Coming

CacheFresh == cache # Unloaded => \A m \in Machine : CardsFresh(m)

Agrees == TrueNews /\ InOrder /\ ReadsFresh /\ Listed /\ CacheFresh

Inv == TypeOK /\ OneCreated /\ (~misled => Agrees)

-----------------------------------------------------------------------------
(* At most one create is under way (useCreateMachine's dialog).            *)
LEMMA OneCreatedStep == TypeOK /\ OneCreated /\ [Next]_vars => OneCreated'
PROOF
<1> SUFFICES ASSUME TypeOK, OneCreated, [Next]_vars,
                    NEW m \in Machine, NEW n \in Machine, Created(m)', Created(n)'
             PROVE  m = n
  BY DEF OneCreated
<1>1. CASE read' = read
  BY <1>1 DEF OneCreated, Created
<1>2. ASSUME NEW k \in Kind, Arrives(k) \/ LoseRead(k) PROVE m = n
  BY <1>2 DEF OneCreated, Created, Arrives, LoseRead, TypeOK, Kind
<1>3. ASSUME NEW k \in Kind, ReadSession(k) PROVE m = n
  <2>1. Created(m) /\ Created(n)
    <3>1. /\ DOMAIN read'[k].rows = DOMAIN read[k].rows /\ read[k] # NoRead
          /\ \A j \in Kind : j # k => read'[j] = read[j]
      BY <1>3, ReadSessionType
    <3>2. "create" \in Kind
      BY DEF Kind
    <3> QED BY <3>1, <3>2 DEF Created
  <2> QED BY <2>1 DEF OneCreated
<1>4. ASSUME NEW k \in Kind, NEW S \in SUBSET Machine, \A x \in S : rows'[x] \in Row,
             BeginRead(k, S), k = "create" => \E x \in S : S = {x}
      PROVE  m = n
  <2>1. CASE k = "create"
    <3>1. DOMAIN read'[k].rows = S
      BY <1>4, BeginReadType
    <3>2. m \in S /\ n \in S
      BY <2>1, <3>1 DEF Created
    <3> QED BY <1>4, <2>1, <3>2
  <2>2. CASE k # "create"
    <3>1. Created(m) /\ Created(n)
      BY <1>4, <2>2, BeginReadType DEF Created, Kind
    <3> QED BY <3>1 DEF OneCreated
  <2> QED BY <2>1, <2>2
<1>5. ASSUME NEW x \in Machine, BeginUpdate(x) PROVE m = n
  <2>1. BeginRead("update", {x}) /\ \A y \in {x} : rows'[y] \in Row
    BY <1>5 DEF BeginUpdate, server, Exists
  <2>2. {x} \in SUBSET Machine /\ "update" \in Kind
    BY DEF Kind
  <2> QED BY <1>4, <2>1, <2>2
<1>6. ASSUME NEW x \in Machine, Create(x) PROVE m = n
  <2>1. CASE BeginRead("create", {x})
    <3>1. \A y \in {x} : rows'[y] \in Row
      BY <1>6, CardTypes DEF Create, TypeOK
    <3>2. {x} \in SUBSET Machine /\ "create" \in Kind
      BY DEF Kind
    <3> QED BY <1>4, <2>1, <3>1, <3>2
  <2> QED BY <1>1, <1>6, <2>1 DEF Create
<1>7. CASE BeginList
  <2> DEFINE S == {x \in Machine : Exists(x)}
  <2>1. BeginRead("list", S) /\ \A y \in S : rows'[y] \in Row
    BY <1>7 DEF BeginList, server, Exists
  <2>2. S \in SUBSET Machine /\ "list" \in Kind
    BY DEF Kind
  <2> HIDE DEF S
  <2> QED BY <1>4, <2>1, <2>2
<1>8. \/ read' = read
      \/ BeginList \/ \E x \in Machine : BeginUpdate(x) \/ Create(x)
      \/ \E k \in Kind : ReadSession(k) \/ Arrives(k) \/ LoseRead(k)
  <2>1. ASSUME NEW x \in Machine, Request(x)
        PROVE  read' = read \/ BeginUpdate(x) \/ Create(x)
    BY <2>1 DEF Request, ChangeSession, RequestRemoval, DeleteRow, Write, client
  <2>2. ASSUME NEW w \in unpublished, Publish(w) PROVE read' = read
    BY <2>2 DEF Publish
  <2>3. CASE Connect \/ Disconnect
    BY <2>3 DEF Connect, Disconnect
  <2>4. CASE Receive
    BY <2>4 DEF Receive, OnMessage, OnAnswer, LoseAnswer, OnList, OnUpdate, OnCreate, Kind
  <2> QED BY <2>1, <2>2, <2>3, <2>4 DEF Next, vars
<1> QED BY <1>1, <1>2, <1>3, <1>5, <1>6, <1>7, <1>8

-----------------------------------------------------------------------------
(* Steps that bring no news: reads, and what arrives of them.              *)

(* Nothing is sent and nothing delivered on the socket.                    *)
Quiet == UNCHANGED <<rows, unpublished, pushes>>

(* Then news stays true, in order and on its way (as when useMachines gets *)
(* its list).                                                              *)
LEMMA QuietNews ==
  ASSUME Agrees, Quiet, answers' \subseteq answers
  PROVE  TrueNews' /\ InOrder' /\ Coming' = Coming
PROOF
<1>1. Unsent' = Unsent /\ Coming' = Coming
  BY DEF Quiet, Unsent, Coming
<1>2. TrueNews'
  BY <1>1 DEF Agrees, TrueNews, IsTrue, Exists, Quiet
<1>3. InOrder'
  BY <1>1 DEF Agrees, InOrder, Superseded, Follows, Exists, Latest, Quiet
<1> QED BY <1>1, <1>2, <1>3

(* What was read of a machine (toDto) is as fresh as it was.               *)
LEMMA QuietRead ==
  ASSUME Quiet, Coming' = Coming, NEW k, NEW m, ReadFresh(k, m), read'[k] = read[k]
  PROVE  ReadFresh(k, m)'
BY DEF ReadFresh, MarkFresh, SessionFresh, Exists, Latest, Marked, Removed, Quiet

(* So are cards that are left alone, while their create is under way.      *)
LEMMA QuietCards ==
  ASSUME Quiet, Coming' = Coming, NEW m, CardsFresh(m),
         cache'[m] = cache[m], Created(m) => Created(m)' \/ cache[m] # <<>>
  PROVE  CardsFresh(m)'
BY DEF CardsFresh, MarkFresh, SessionFresh, Exists, Latest, Marked, Removed, Quiet

(* A row, just read, is fresh, but for the session that is read later:     *)
(* what a list or a rename or a create begins with (toDto).                *)
LEMMA BeginReadFresh ==
  ASSUME TypeOK, NEW k \in Kind, NEW S \in SUBSET Machine,
         \A x \in S : rows'[x] \in Row, BeginRead(k, S), NEW m \in S
  PROVE  ReadFresh(k, m)'
PROOF
<1>1. read'[k].rows[m] = rows'[m] /\ m \in read'[k].left
  <2>1. read'[k].rows = [x \in S |-> rows'[x]] /\ read'[k].left = S
    BY BeginReadType
  <2> QED BY <2>1
<1>2. rows'[m] # Absent /\ rows'[m] \in Row
  BY DashboardAssumption
<1> QED BY <1>1, <1>2 DEF ReadFresh, MarkFresh, Exists

(* BeginList: the list has every machine there is.                         *)
LEMMA BeginListStep ==
  ASSUME TypeOK, Agrees, BeginList
  PROVE  Agrees'
PROOF
<1> DEFINE S == {m \in Machine : Exists(m)}
<1>1. /\ UNCHANGED <<rows, unpublished, open, pushes, cache, answers>>
      /\ BeginRead("list", S) /\ \A m \in S : rows'[m] \in Row
      /\ S \in SUBSET Machine /\ "list" \in Kind /\ "create" \in Kind
  BY DEF BeginList, server, Exists, Kind
<1>2. TrueNews' /\ InOrder' /\ Coming' = Coming /\ Quiet
  BY <1>1, QuietNews DEF Quiet
<1>3. /\ DOMAIN read'["list"].rows = S /\ \A j \in Kind : j # "list" => read'[j] = read[j]
      /\ \A m \in S : ReadFresh("list", m)'
  <2> HIDE DEF S
  <2> QED BY <1>1, BeginReadType, BeginReadFresh
<1>4. ReadsFresh'
  <2> SUFFICES ASSUME NEW k \in Kind, read'[k] # NoRead, NEW m \in DOMAIN read'[k].rows
               PROVE  ReadFresh(k, m)'
    BY DEF ReadsFresh
  <2>1. CASE k = "list"
    <3> HIDE DEF S
    <3> QED BY <1>3, <2>1
  <2>2. CASE k # "list"
    <3>1. read'[k] = read[k] /\ ReadFresh(k, m)
      BY <1>3, <2>2 DEF Agrees, ReadsFresh
    <3> QED BY <1>2, <3>1, QuietRead
  <2> QED BY <2>1, <2>2
<1>5. Listed'
  BY <1>1, <1>3 DEF Listed, Exists
<1>6. CacheFresh'
  <2> SUFFICES ASSUME cache # Unloaded, NEW m \in Machine PROVE CardsFresh(m)'
    BY <1>1 DEF CacheFresh
  <2>1. CardsFresh(m) /\ cache'[m] = cache[m] /\ (Created(m) => Created(m)')
    BY <1>1, <1>3 DEF Agrees, CacheFresh, Created
  <2> QED BY <1>2, <2>1, QuietCards
<1> QED BY <1>2, <1>4, <1>5, <1>6 DEF Agrees

(* BeginUpdate: one machine is read again.                                 *)
LEMMA BeginUpdateStep ==
  ASSUME TypeOK, Agrees, NEW x \in Machine, BeginUpdate(x)
  PROVE  Agrees'
PROOF
<1>1. /\ UNCHANGED <<rows, unpublished, open, pushes, cache, answers>>
      /\ BeginRead("update", {x}) /\ \A m \in {x} : rows'[m] \in Row
      /\ {x} \in SUBSET Machine
      /\ "list" \in Kind /\ "create" \in Kind /\ "update" \in Kind
  BY DEF BeginUpdate, server, Exists, Kind
<1>2. TrueNews' /\ InOrder' /\ Coming' = Coming /\ Quiet
  BY <1>1, QuietNews DEF Quiet
<1>3. /\ DOMAIN read'["update"].rows = {x}
      /\ \A j \in Kind : j # "update" => read'[j] = read[j]
      /\ ReadFresh("update", x)'
  BY <1>1, BeginReadType, BeginReadFresh
<1>4. ReadsFresh'
  <2> SUFFICES ASSUME NEW k \in Kind, read'[k] # NoRead, NEW m \in DOMAIN read'[k].rows
               PROVE  ReadFresh(k, m)'
    BY DEF ReadsFresh
  <2>1. CASE k = "update"
    BY <1>3, <2>1
  <2>2. CASE k # "update"
    <3>1. read'[k] = read[k] /\ ReadFresh(k, m)
      BY <1>3, <2>2 DEF Agrees, ReadsFresh
    <3> QED BY <1>2, <3>1, QuietRead
  <2> QED BY <2>1, <2>2
<1>5. read'["list"] = read["list"] /\ read'["create"] = read["create"]
  BY <1>1, <1>3
<1>6. Listed'
  BY <1>1, <1>5 DEF Agrees, Listed, Exists, Created
<1>7. CacheFresh'
  <2> SUFFICES ASSUME cache # Unloaded, NEW m \in Machine PROVE CardsFresh(m)'
    BY <1>1 DEF CacheFresh
  <2>1. CardsFresh(m) /\ cache'[m] = cache[m] /\ (Created(m) => Created(m)')
    BY <1>1, <1>5 DEF Agrees, CacheFresh, Created
  <2> QED BY <1>2, <2>1, QuietCards
<1> QED BY <1>2, <1>4, <1>6, <1>7 DEF Agrees

(* ReadSession: the session is read as it is now, which makes it fresh.    *)
LEMMA ReadSessionStep ==
  ASSUME TypeOK, Agrees, NEW k \in Kind, ReadSession(k)
  PROVE  Agrees'
PROOF
<1>1. UNCHANGED <<rows, unpublished, open, pushes, cache, answers>>
  BY DEF ReadSession, server
<1>2. TrueNews' /\ InOrder' /\ Coming' = Coming /\ Quiet
  BY <1>1, QuietNews DEF Quiet
<1>3. /\ read[k] # NoRead /\ read'[k] # NoRead
      /\ DOMAIN read'[k].rows = DOMAIN read[k].rows
      /\ \A j \in Kind : j # k => read'[j] = read[j]
  BY ReadSessionType
<1>4. PICK x \in read[k].left :
        /\ read'[k].left = read[k].left \ {x}
        /\ \A n \in DOMAIN read[k].rows : n # x =>
             read'[k].rows[n] = read[k].rows[n]
        /\ read'[k].rows[x].pending = read[k].rows[x].pending
        /\ Exists(x) => read'[k].rows[x].session = rows[x].session
  BY ReadSessionType
<1>5. ReadsFresh'
  <2> SUFFICES ASSUME NEW j \in Kind, read'[j] # NoRead, NEW m \in DOMAIN read'[j].rows
               PROVE  ReadFresh(j, m)'
    BY DEF ReadsFresh
  <2>1. CASE j # k
    <3>1. read'[j] = read[j] /\ ReadFresh(j, m)
      BY <1>3, <2>1 DEF Agrees, ReadsFresh
    <3> QED BY <1>2, <3>1, QuietRead
  <2>2. CASE j = k
    <3>1. ReadFresh(k, m) /\ m \in DOMAIN read[k].rows
      BY <1>3, <2>2 DEF Agrees, ReadsFresh
    <3>2. /\ rows'[m] # Absent /\ (~Exists(m)' => Removed(m)' \in Coming')
          /\ Exists(m)' <=> Exists(m)
      BY <1>1, <1>2, <3>1 DEF ReadFresh, Removed, Exists
    <3>3. Exists(m) => MarkFresh(m, read[k].rows[m])'
      <4>1. read'[k].rows[m].pending = read[k].rows[m].pending
        BY <1>4, <3>1
      <4> QED BY <1>1, <1>2, <3>1, <4>1 DEF ReadFresh, MarkFresh, Marked
    <3>4. Exists(m) /\ m \notin read'[k].left
            => SessionFresh(m, read[k].rows[m].session)'
      <4>1. CASE m = x
        BY <1>1, <1>4, <4>1 DEF SessionFresh
      <4>2. CASE m # x
        <5>1. /\ read'[k].rows[m] = read[k].rows[m]
              /\ m \notin read'[k].left => m \notin read[k].left
          BY <1>4, <3>1, <4>2
        <5> QED BY <1>1, <1>2, <3>1, <5>1 DEF ReadFresh, SessionFresh, Latest
      <4> QED BY <4>1, <4>2
    <3> QED BY <2>2, <3>2, <3>3, <3>4 DEF ReadFresh
  <2> QED BY <2>1, <2>2
<1>6. /\ "list" \in Kind /\ "create" \in Kind
      /\ \A j \in Kind : /\ read'[j] = NoRead <=> read[j] = NoRead
                         /\ DOMAIN read'[j].rows = DOMAIN read[j].rows
  BY <1>3 DEF Kind
<1>7. \A m : Created(m)' <=> Created(m)
  BY <1>6 DEF Created
<1>8. Listed'
  BY <1>1, <1>6, <1>7 DEF Agrees, Listed, Exists
<1>9. CacheFresh'
  <2> SUFFICES ASSUME cache # Unloaded, NEW m \in Machine PROVE CardsFresh(m)'
    BY <1>1 DEF CacheFresh
  <2>1. CardsFresh(m) /\ cache'[m] = cache[m] /\ (Created(m) => Created(m)')
    BY <1>1, <1>7 DEF Agrees, CacheFresh
  <2> QED BY <1>2, <2>1, QuietCards
<1> QED BY <1>2, <1>5, <1>8, <1>9 DEF Agrees

(* Connect: the cache and the requests stay as they are.                   *)
LEMMA ConnectStep ==
  ASSUME Agrees, Connect
  PROVE  Agrees'
PROOF
<1>1. UNCHANGED <<rows, unpublished, pushes, cache, read, answers>>
  BY DEF Connect, server
<1>2. TrueNews' /\ InOrder' /\ Coming' = Coming /\ Quiet
  BY <1>1, QuietNews DEF Quiet
<1>3. ReadsFresh' /\ Listed' /\ CacheFresh'
  BY <1>1, <1>2 DEF Agrees, ReadsFresh, ReadFresh, MarkFresh, SessionFresh, Latest,
    Marked, Removed, Listed, Exists, Created, CacheFresh, CardsFresh
<1> QED BY <1>2, <1>3 DEF Agrees

(* An answer to one of the changes is lost: its push is not.               *)
LEMMA LoseAnswerStep ==
  ASSUME Agrees, NEW a \in answers, LoseAnswer(a)
  PROVE  Agrees'
PROOF
<1>1. UNCHANGED <<rows, unpublished, pushes, cache, read>> /\ answers' \subseteq answers
  BY DEF LoseAnswer, server
<1>2. TrueNews' /\ InOrder' /\ Coming' = Coming /\ Quiet
  BY <1>1, QuietNews DEF Quiet
<1>3. ReadsFresh' /\ Listed' /\ CacheFresh'
  BY <1>1, <1>2 DEF Agrees, ReadsFresh, ReadFresh, MarkFresh, SessionFresh, Latest,
    Marked, Removed, Listed, Exists, Created, CacheFresh, CardsFresh
<1> QED BY <1>2, <1>3 DEF Agrees

(* A reading that arrives, or is lost, leaves the others as they are.      *)
LEMMA ReadDone ==
  ASSUME TypeOK, Agrees, Quiet, answers' = answers, NEW k \in Kind,
         Arrives(k) \/ LoseRead(k)
  PROVE  /\ TrueNews' /\ InOrder' /\ Coming' = Coming
         /\ read'[k] = NoRead /\ \A j \in Kind : j # k => read'[j] = read[j]
         /\ ReadsFresh'
         /\ k # "create" => \A m : Created(m)' <=> Created(m)
         /\ k # "create" => Listed'
PROOF
<1>1. TrueNews' /\ InOrder' /\ Coming' = Coming
  BY QuietNews
<1>2. read'[k] = NoRead /\ \A j \in Kind : j # k => read'[j] = read[j]
  BY DEF Arrives, LoseRead, TypeOK
<1>3. ReadsFresh'
  <2> SUFFICES ASSUME NEW j \in Kind, read'[j] # NoRead, NEW m \in DOMAIN read'[j].rows
               PROVE  ReadFresh(j, m)'
    BY DEF ReadsFresh
  <2>1. read'[j] = read[j] /\ ReadFresh(j, m)
    BY <1>2 DEF Agrees, ReadsFresh
  <2> QED BY <1>1, <2>1, QuietRead
<1>4. k # "create" => \A m : Created(m)' <=> Created(m)
  BY <1>2 DEF Created, Kind
<1>5. k # "create" => Listed'
  BY <1>2, <1>4 DEF Agrees, Listed, Exists, Quiet, Kind
<1> QED BY <1>1, <1>2, <1>3, <1>4, <1>5

(* A list or an update that is lost changes nothing else; a create that is *)
(* lost leaves the dashboard without the machine, and misled.              *)
LEMMA LoseReadStep ==
  ASSUME TypeOK, Agrees, ~misled', NEW k \in Kind, LoseRead(k)
  PROVE  Agrees'
PROOF
<1>1. Quiet /\ UNCHANGED <<cache, answers>> /\ k # "create"
  BY DEF LoseRead, Quiet, server
<1>2. CacheFresh'
  <2> SUFFICES ASSUME cache # Unloaded, NEW m \in Machine PROVE CardsFresh(m)'
    BY <1>1 DEF CacheFresh
  <2>1. CardsFresh(m) /\ cache'[m] = cache[m] /\ (Created(m) => Created(m)')
    BY <1>1, ReadDone DEF Agrees, CacheFresh
  <2> QED BY <1>1, <2>1, ReadDone, QuietCards
<1> QED BY <1>1, <1>2, ReadDone DEF Agrees

(* What has been read in full is fresh as a card.                          *)
LEMMA ReadIsCard ==
  ASSUME TypeOK, Agrees, NEW k \in Kind, read[k] # NoRead, read[k].left = {},
         NEW m \in DOMAIN read[k].rows
  PROVE  /\ m \in Machine /\ read[k].rows[m] \in Row
         /\ Exists(m) => /\ MarkFresh(m, read[k].rows[m])
                         /\ SessionFresh(m, read[k].rows[m].session)
         /\ ~Exists(m) => Removed(m) \in Coming
PROOF
<1>1. read[k] \in Reading
  BY DEF TypeOK
<1>2. ReadFresh(k, m)
  BY DEF Agrees, ReadsFresh
<1> QED BY <1>1, <1>2, ReadingTypes DEF ReadFresh

(* OnList: the list replaces the cache, and has all there is, but for what *)
(* is being created.                                                       *)
LEMMA OnListStep ==
  ASSUME TypeOK, Agrees, OnList
  PROVE  Agrees'
PROOF
<1>1. /\ Arrives("list") /\ Quiet /\ answers' = answers
      /\ cache' = [m \in Machine |-> IF m \in DOMAIN read["list"].rows
                                     THEN <<read["list"].rows[m]>> ELSE <<>>]
  BY DEF OnList, Quiet, server
<1>2. "list" \in Kind /\ "list" # "create" /\ read["list"] # NoRead /\ read["list"].left = {}
  BY <1>1 DEF Kind, Arrives
<1>3. CacheFresh'
  <2> SUFFICES ASSUME NEW m \in Machine PROVE CardsFresh(m)'
    BY DEF CacheFresh
  <2>1. CASE m \in DOMAIN read["list"].rows
    <3>1. Len(cache'[m]) = 1 /\ cache'[m][1] = read["list"].rows[m]
      BY <1>1, <2>1
    <3>2. /\ Exists(m) => /\ MarkFresh(m, read["list"].rows[m])
                          /\ SessionFresh(m, read["list"].rows[m].session)
          /\ ~Exists(m) => Removed(m) \in Coming
      BY <1>2, <2>1, ReadIsCard
    <3>3. Coming' = Coming
      BY <1>1, <1>2, ReadDone
    <3> QED
      BY <1>1, <3>1, <3>2, <3>3
      DEF Quiet, CardsFresh, MarkFresh, SessionFresh, Exists, Latest, Marked, Removed
  <2>2. CASE m \notin DOMAIN read["list"].rows
    <3>1. cache'[m] = <<>>
      BY <1>1, <2>2
    <3>2. Exists(m) => Created(m)
      BY <1>2, <2>2 DEF Agrees, Listed
    <3>3. Created(m)' <=> Created(m)
      BY <1>1, <1>2, ReadDone
    <3>4. Exists(m)' <=> Exists(m)
      BY <1>1 DEF Exists, Quiet
    <3>5. Exists(m)' => Created(m)'
      BY <3>2, <3>3, <3>4, Zenon
    <3> QED BY <3>1, <3>5 DEF CardsFresh
  <2> QED BY <2>1, <2>2
<1> QED BY <1>1, <1>2, <1>3, ReadDone DEF Agrees

(* OnUpdate: a machine read again replaces its card (use-machines.ts).     *)
LEMMA OnUpdateStep ==
  ASSUME TypeOK, Agrees, OnUpdate
  PROVE  Agrees'
PROOF
<1>1. Arrives("update") /\ Quiet /\ answers' = answers
  BY DEF OnUpdate, Quiet, server
<1>2. /\ "update" \in Kind /\ "update" # "create"
      /\ read["update"] # NoRead /\ read["update"].left = {}
  BY <1>1 DEF Kind, Arrives
<1>3. PICK x \in DOMAIN read["update"].rows :
        cache' = IF cache = Unloaded THEN Unloaded
                 ELSE Patched(x, [card \in Row |-> read["update"].rows[x]])
  BY DEF OnUpdate
<1> DEFINE row == read["update"].rows[x]
<1>4. /\ x \in Machine /\ row \in Row
      /\ Exists(x) => MarkFresh(x, row) /\ SessionFresh(x, row.session)
      /\ ~Exists(x) => Removed(x) \in Coming
  BY <1>2, ReadIsCard
<1>5. Coming' = Coming /\ \A m : Created(m)' <=> Created(m)
  BY <1>1, <1>2, ReadDone
<1> HIDE DEF row
<1>6. CacheFresh'
  <2> SUFFICES ASSUME cache' # Unloaded, NEW m \in Machine PROVE CardsFresh(m)'
    BY DEF CacheFresh
  <2> DEFINE change == [card \in Row |-> row]
  <2>1. cache # Unloaded /\ cache' = Patched(x, change)
    BY <1>3 DEF row
  <2>2. cache \in [Machine -> Seq(Row)] /\ CardsFresh(m)
    BY <2>1 DEF TypeOK, Agrees, CacheFresh
  <2>3. change \in [Row -> Row] /\ \A card \in Row : change[card] = row
    BY <1>4
  <2> HIDE DEF change
  <2>4. CASE m # x
    <3>1. cache'[m] = cache[m]
      BY <1>4, <2>1, <2>2, <2>3, <2>4, PatchedCards
    <3> QED BY <1>1, <1>5, <2>2, <3>1, QuietCards
  <2>5. CASE m = x
    <3>1. /\ cache' \in [Machine -> Seq(Row)] /\ Len(cache'[m]) = Len(cache[m])
          /\ \A i \in 1 .. Len(cache[m]) : cache'[m][i] = row
      <4>1. \A i \in 1 .. Len(cache[m]) : cache[m][i] \in Row
        BY <2>2
      <4> QED BY <1>4, <2>1, <2>2, <2>3, <2>5, <4>1, PatchedCards
    <3>2. CASE cache[m] = <<>>
      <4>1. cache'[m] = <<>>
        BY <3>1, <3>2
      <4> QED BY <1>1, <1>5, <2>2, <3>2, <4>1, QuietCards
    <3>3. CASE cache[m] # <<>>
      <4>1. Len(cache'[m]) = 1 /\ cache'[m][1] = row
        BY <2>2, <3>1, <3>3 DEF CardsFresh
      <4> QED
        BY <1>1, <1>4, <1>5, <2>5, <4>1
        DEF Quiet, CardsFresh, MarkFresh, SessionFresh, Exists, Latest, Marked, Removed
    <3> QED BY <3>2, <3>3
  <2> QED BY <2>4, <2>5
<1> QED BY <1>1, <1>2, <1>6, ReadDone DEF Agrees

(* OnCreate: the new machine's card is the only one it has, or the         *)
(* dashboard is misled (useCreateMachine).                                 *)
LEMMA OnCreateStep ==
  ASSUME TypeOK, OneCreated, Agrees, ~misled', OnCreate
  PROVE  Agrees'
PROOF
<1>1. /\ Arrives("create") /\ Quiet /\ answers' = answers
      /\ "create" \in Kind /\ "list" \in Kind
      /\ read["create"] # NoRead /\ read["create"].left = {}
  BY DEF OnCreate, Quiet, server, Kind, Arrives
<1>2. PICK x \in DOMAIN read["create"].rows :
        /\ cache # Unloaded /\ cache[x] = <<>>
        /\ cache' = [cache EXCEPT ![x] = Append(@, read["create"].rows[x])]
        /\ read["list"] # NoRead => x \in DOMAIN read["list"].rows
  BY DEF OnCreate
<1> DEFINE row == read["create"].rows[x]
<1>3. /\ x \in Machine /\ row \in Row
      /\ Exists(x) => MarkFresh(x, row) /\ SessionFresh(x, row.session)
      /\ ~Exists(x) => Removed(x) \in Coming
  BY <1>1, ReadIsCard
<1>4. \A m \in Machine : Created(m) => m = x
  BY <1>1, <1>3 DEF OneCreated, Created
<1>5. /\ TrueNews' /\ InOrder' /\ Coming' = Coming /\ ReadsFresh'
      /\ \A j \in Kind : j # "create" => read'[j] = read[j]
  BY <1>1, ReadDone
<1>6. Listed'
  <2>1. read'["list"] = read["list"]
    BY <1>1, <1>5
  <2> QED BY <1>1, <1>2, <1>4, <2>1 DEF Agrees, Listed, Exists, Quiet
<1> HIDE DEF row
<1>7. CacheFresh'
  <2> SUFFICES ASSUME NEW m \in Machine PROVE CardsFresh(m)'
    BY DEF CacheFresh
  <2>1. cache \in [Machine -> Seq(Row)] /\ CardsFresh(m)
    BY <1>2 DEF TypeOK, Agrees, CacheFresh
  <2>2. CASE m # x
    <3>1. cache'[m] = cache[m] /\ ~Created(m)
      BY <1>2, <1>4, <2>1, <2>2
    <3> QED BY <1>1, <1>5, <2>1, <3>1, QuietCards
  <2>3. CASE m = x
    <3>1. Len(cache'[m]) = 1 /\ cache'[m][1] = row
      BY <1>2, <1>3, <2>1, <2>3 DEF row
    <3> QED
      BY <1>1, <1>3, <1>5, <2>3, <3>1
      DEF Quiet, CardsFresh, MarkFresh, SessionFresh, Exists, Latest, Marked, Removed
  <2> QED BY <2>2, <2>3
<1> QED BY <1>5, <1>6, <1>7 DEF Agrees

(* What merging news does to the cards: it concerns one machine and keeps  *)
(* their number, or takes them away (use-realtime.ts).                     *)
LEMMA MergedCards ==
  ASSUME NEW n \in News, cache \in [Machine -> Seq(Row)], cache # Unloaded
  PROVE  /\ \A m \in Machine : m # n.id => Merged(n)[m] = cache[m]
         /\ n.type = "removed" => Merged(n)[n.id] = <<>>
         /\ n.type # "removed" =>
              /\ cache[n.id] = <<>> => Merged(n)[n.id] = <<>>
              /\ Len(Merged(n)[n.id]) = Len(cache[n.id])
         /\ n.type = "session" => \A i \in 1 .. Len(cache[n.id]) :
              /\ Merged(n)[n.id][i].session = n.session
              /\ Merged(n)[n.id][i].pending = cache[n.id][i].pending
         /\ n.type = "decommissioning" => \A i \in 1 .. Len(cache[n.id]) :
              /\ Merged(n)[n.id][i].session = cache[n.id][i].session
              /\ Merged(n)[n.id][i].pending = TRUE
PROOF
<1>1. n.id \in Machine /\ cache[n.id] \in Seq(Row)
  BY NewsTypes
<1>2. \A i \in 1 .. Len(cache[n.id]) : cache[n.id][i] \in Row
  BY <1>1
<1>3. CASE n.type = "removed"
  BY <1>1, <1>3 DEF Merged
<1>4. ASSUME NEW change \in [Row -> Row], Merged(n) = Patched(n.id, change)
      PROVE  /\ \A m \in Machine : m # n.id => Merged(n)[m] = cache[m]
             /\ cache[n.id] = <<>> => Merged(n)[n.id] = <<>>
             /\ Len(Merged(n)[n.id]) = Len(cache[n.id])
             /\ \A i \in 1 .. Len(cache[n.id]) :
                  Merged(n)[n.id][i] = change[cache[n.id][i]]
  <2>1. /\ Merged(n) \in [Machine -> Seq(Row)]
        /\ \A m \in Machine : m # n.id => Merged(n)[m] = cache[m]
        /\ Len(Merged(n)[n.id]) = Len(cache[n.id])
        /\ \A i \in 1 .. Len(cache[n.id]) : Merged(n)[n.id][i] = change[cache[n.id][i]]
    BY <1>1, <1>4, PatchedCards
  <2>2. cache[n.id] = <<>> => Merged(n)[n.id] = <<>>
    BY <1>1, <2>1
  <2> QED BY <2>1, <2>2
<1>5. CASE n.type = "session"
  <2>1. n.session \in Session /\ Merged(n) = Patched(n.id, WithSession(n.session))
    BY <1>5, NewsTypes DEF Merged
  <2>2. /\ WithSession(n.session) \in [Row -> Row]
        /\ \A card \in Row : WithSession(n.session)[card] = [card EXCEPT !.session = n.session]
    BY <2>1, Changes
  <2>3. \A i \in 1 .. Len(cache[n.id]) :
          Merged(n)[n.id][i] = [cache[n.id][i] EXCEPT !.session = n.session]
    BY <1>2, <1>4, <2>1, <2>2
  <2>4. \A i \in 1 .. Len(cache[n.id]) :
              /\ Merged(n)[n.id][i].session = n.session
              /\ Merged(n)[n.id][i].pending = cache[n.id][i].pending
    <3> TAKE i \in 1 .. Len(cache[n.id])
    <3> DEFINE card == cache[n.id][i]
    <3>1. card \in Row /\ Merged(n)[n.id][i] = [card EXCEPT !.session = n.session]
      BY <1>2, <2>3
    <3> HIDE DEF card
    <3>2. /\ Merged(n)[n.id][i].session = n.session
          /\ Merged(n)[n.id][i].pending = card.pending
      BY <2>1, <3>1, CardTypes
    <3> QED BY <3>2 DEF card
  <2> QED BY <1>4, <1>5, <2>1, <2>2, <2>4
<1>6. CASE n.type = "decommissioning"
  <2>1. Merged(n) = Patched(n.id, GreyedOut)
    BY <1>6 DEF Merged
  <2>2. \A i \in 1 .. Len(cache[n.id]) :
          Merged(n)[n.id][i] = [cache[n.id][i] EXCEPT !.pending = TRUE]
    BY <1>2, <1>4, <2>1, Changes
  <2>3. \A i \in 1 .. Len(cache[n.id]) :
              /\ Merged(n)[n.id][i].session = cache[n.id][i].session
              /\ Merged(n)[n.id][i].pending = TRUE
    <3> TAKE i \in 1 .. Len(cache[n.id])
    <3> DEFINE card == cache[n.id][i]
    <3>1. card \in Row /\ Merged(n)[n.id][i] = [card EXCEPT !.pending = TRUE]
      BY <1>2, <2>2
    <3> HIDE DEF card
    <3>2. /\ Merged(n)[n.id][i].session = card.session
          /\ Merged(n)[n.id][i].pending = TRUE
      BY <3>1, CardTypes
    <3> QED BY <3>2 DEF card
  <2> QED BY <1>4, <1>6, <2>1, <2>3, Changes
<1> QED BY <1>3, <1>5, <1>6, NewsTypes

-----------------------------------------------------------------------------
(* Steps that bring news to the dashboard.                                 *)

(* News of one machine is not news of another, nor of another kind.        *)
LEMMA NewsDiffer ==
  ASSUME NEW m, NEW n
  PROVE  /\ Latest(m).type = "session" /\ Latest(m).id = m
         /\ Latest(m).session = rows[m].session
         /\ Marked(m).type = "decommissioning" /\ Marked(m).id = m
         /\ Removed(m).type = "removed" /\ Removed(m).id = m
BY DEF Latest, Marked, Removed

(* Merging true news (a push or an answer) leaves the cards fresh, if what *)
(* supersedes it is still to come.                                         *)
LEMMA MergedFresh ==
  ASSUME TypeOK, Agrees, UNCHANGED <<rows, read>>,
         NEW n \in News, IsTrue(n), cache' = Merged(n),
         \A c \in Coming : c \in Coming' \/ c = n,
         Superseded(n) => Latest(n.id) \in Coming'
  PROVE  CacheFresh'
PROOF
<1> SUFFICES ASSUME cache' # Unloaded, NEW m \in Machine PROVE CardsFresh(m)'
  BY DEF CacheFresh
<1>1. cache # Unloaded /\ cache \in [Machine -> Seq(Row)] /\ CardsFresh(m)
  BY DEF Merged, TypeOK, Agrees, CacheFresh
<1>2. /\ Exists(m)' <=> Exists(m)
      /\ Created(m)' <=> Created(m)
      /\ Latest(m)' = Latest(m) /\ Marked(m)' = Marked(m) /\ Removed(m)' = Removed(m)
  BY DEF Exists, Created, Latest, Marked, Removed
<1>3. CASE m # n.id
  <2>1. cache'[m] = cache[m]
    BY <1>1, <1>3, MergedCards
  <2>2. /\ Latest(m) \in Coming => Latest(m) \in Coming'
        /\ Marked(m) \in Coming => Marked(m) \in Coming'
        /\ Removed(m) \in Coming => Removed(m) \in Coming'
    BY <1>3, NewsDiffer
  <2>3. MarkFresh(m, cache[m][1]) => MarkFresh(m, cache[m][1])'
    BY <1>2, <2>1, <2>2 DEF MarkFresh
  <2>4. SessionFresh(m, cache[m][1].session) => SessionFresh(m, cache[m][1].session)'
    BY <1>2, <2>1, <2>2 DEF SessionFresh
  <2>5. CASE Exists(m)
    BY <1>1, <1>2, <2>1, <2>3, <2>4, <2>5 DEF CardsFresh
  <2>6. CASE ~Exists(m)
    BY <1>1, <1>2, <2>1, <2>2, <2>6 DEF CardsFresh
  <2> QED BY <2>5, <2>6
<1>4. CASE m = n.id /\ n.type = "removed"
  <2>1. cache'[m] = <<>> /\ ~Exists(m)'
    BY <1>1, <1>2, <1>4, MergedCards DEF IsTrue
  <2> QED BY <2>1 DEF CardsFresh
<1>5. CASE m = n.id /\ n.type = "session"
  <2>1. /\ Marked(m) \in Coming => Marked(m) \in Coming'
        /\ Removed(m) \in Coming => Removed(m) \in Coming'
    BY <1>5, NewsDiffer
  <2>2. /\ cache[m] = <<>> => cache'[m] = <<>>
        /\ Len(cache'[m]) = Len(cache[m])
        /\ Len(cache[m]) = 1 => /\ cache'[m][1].session = n.session
                                /\ cache'[m][1].pending = cache[m][1].pending
    <3>1. /\ cache[n.id] = <<>> => Merged(n)[n.id] = <<>>
          /\ Len(Merged(n)[n.id]) = Len(cache[n.id])
          /\ \A i \in 1 .. Len(cache[n.id]) :
               /\ Merged(n)[n.id][i].session = n.session
               /\ Merged(n)[n.id][i].pending = cache[n.id][i].pending
      BY <1>1, <1>5, MergedCards
    <3> QED BY <1>5, <3>1
  <2>3. Exists(m) => SessionFresh(m, n.session)'
    BY <1>2, <1>5 DEF IsTrue, Superseded, SessionFresh
  <2>4. SessionFresh(m, n.session)' /\ Len(cache[m]) = 1
          => SessionFresh(m, cache[m][1].session)'
    BY <2>2
  <2>5. Len(cache[m]) = 1 /\ MarkFresh(m, cache[m][1]) => MarkFresh(m, cache[m][1])'
    BY <1>2, <2>1, <2>2 DEF MarkFresh
  <2>6. CASE Exists(m)
    BY <1>1, <1>2, <2>2, <2>3, <2>4, <2>5, <2>6 DEF CardsFresh
  <2>7. CASE ~Exists(m)
    BY <1>1, <1>2, <2>1, <2>2, <2>7 DEF CardsFresh
  <2> QED BY <2>6, <2>7
<1>6. CASE m = n.id /\ n.type = "decommissioning"
  <2>1. /\ Latest(m) \in Coming => Latest(m) \in Coming'
        /\ Removed(m) \in Coming => Removed(m) \in Coming'
    BY <1>6, NewsDiffer
  <2>2. /\ cache[m] = <<>> => cache'[m] = <<>>
        /\ Len(cache'[m]) = Len(cache[m])
        /\ Len(cache[m]) = 1 => /\ cache'[m][1].session = cache[m][1].session
                                /\ cache'[m][1].pending = TRUE
    <3>1. /\ cache[n.id] = <<>> => Merged(n)[n.id] = <<>>
          /\ Len(Merged(n)[n.id]) = Len(cache[n.id])
          /\ \A i \in 1 .. Len(cache[n.id]) :
               /\ Merged(n)[n.id][i].session = cache[n.id][i].session
               /\ Merged(n)[n.id][i].pending = TRUE
      BY <1>1, <1>6, MergedCards
    <3> QED BY <1>6, <3>1
  <2>3. Exists(m) /\ Len(cache[m]) = 1 => MarkFresh(m, cache[m][1])'
    BY <1>6, <2>2 DEF IsTrue, MarkFresh
  <2>4. Len(cache[m]) = 1 /\ SessionFresh(m, cache[m][1].session)
          => SessionFresh(m, cache[m][1].session)'
    BY <1>2, <2>1, <2>2 DEF SessionFresh
  <2>5. CASE Exists(m)
    BY <1>1, <1>2, <2>2, <2>3, <2>4, <2>5 DEF CardsFresh
  <2>6. CASE ~Exists(m)
    BY <1>1, <1>2, <2>1, <2>2, <2>6 DEF CardsFresh
  <2> QED BY <2>5, <2>6
<1> QED BY <1>3, <1>4, <1>5, <1>6, NewsTypes

(* OnAnswer: what the dashboard asked for itself.                          *)
LEMMA OnAnswerStep ==
  ASSUME TypeOK, Agrees, NEW a \in answers, OnAnswer(a)
  PROVE  Agrees'
PROOF
<1>1. /\ UNCHANGED <<rows, unpublished, pushes, read>> /\ cache' = Merged(a)
      /\ answers' \subseteq answers
  BY DEF OnAnswer, server
<1>2. TrueNews' /\ InOrder' /\ Coming' = Coming /\ Quiet
  BY <1>1, QuietNews DEF Quiet
<1>3. a \in News /\ IsTrue(a) /\ (Superseded(a) => Latest(a.id) \in Coming)
  BY DEF TypeOK, Agrees, TrueNews, InOrder
<1>4. CacheFresh'
  BY <1>1, <1>2, <1>3, MergedFresh
<1>5. ReadsFresh' /\ Listed'
  BY <1>1, <1>2 DEF Agrees, ReadsFresh, ReadFresh, MarkFresh, SessionFresh, Latest,
    Marked, Removed, Listed, Exists, Created
<1> QED BY <1>2, <1>4, <1>5 DEF Agrees

(* News may be dropped, or delivered, when nothing on its way is older:    *)
(* what misled records of a push (use-realtime.ts).                        *)
LEMMA ReadsOutdated ==
  ASSUME TypeOK, Agrees, UNCHANGED <<rows, read>>,
         \A c \in Coming : c \in Coming' \/ ~Outdates(c)
  PROVE  ReadsFresh'
PROOF
<1> SUFFICES ASSUME NEW k \in Kind, read[k] # NoRead, NEW m \in DOMAIN read[k].rows
             PROVE  ReadFresh(k, m)'
  BY DEF ReadsFresh
<1>1. ReadFresh(k, m)
  BY DEF Agrees, ReadsFresh
<1>2. /\ Exists(m)' <=> Exists(m)
      /\ Latest(m)' = Latest(m) /\ Marked(m)' = Marked(m) /\ Removed(m)' = Removed(m)
  BY DEF Exists, Latest, Marked, Removed
<1>3. Removed(m) \in Coming => Removed(m) \in Coming'
  <2>1. Outdates(Removed(m))
    BY NewsDiffer DEF Outdates
  <2> QED BY <2>1
<1>4. Marked(m) \in Coming /\ ~read[k].rows[m].pending => Marked(m) \in Coming'
  <2> SUFFICES ASSUME ~read[k].rows[m].pending PROVE Outdates(Marked(m))
    OBVIOUS
  <2> QED BY NewsDiffer DEF Outdates
<1>5. Latest(m) \in Coming /\ m \notin read[k].left
        /\ read[k].rows[m].session.rev < rows[m].session.rev => Latest(m) \in Coming'
  <2> SUFFICES ASSUME m \notin read[k].left,
                      read[k].rows[m].session.rev < rows[m].session.rev
               PROVE  Outdates(Latest(m))
    OBVIOUS
  <2> QED BY NewsDiffer DEF Outdates
<1> QED BY <1>1, <1>2, <1>3, <1>4, <1>5 DEF ReadFresh, MarkFresh, SessionFresh

(* The same of the answers: none is older, or what supersedes it comes.    *)
LEMMA AnswersOutdated ==
  ASSUME TypeOK, Agrees, UNCHANGED rows,
         \A c \in Coming : c \in Coming' \/ ~Outdates(c)
  PROVE  \A a \in answers : Superseded(a)' => Latest(a.id)' \in Coming'
PROOF
<1> SUFFICES ASSUME NEW a \in answers, Superseded(a)', Latest(a.id)' \notin Coming'
             PROVE  FALSE
  OBVIOUS
<1>1. Superseded(a) /\ Latest(a.id) \in Coming /\ Latest(a.id)' = Latest(a.id)
  BY DEF Agrees, InOrder, Superseded, Exists, Latest
<1>2. a.session.rev < rows[a.id].session.rev
  BY <1>1 DEF Agrees, TrueNews, IsTrue, Superseded
<1>3. Outdates(Latest(a.id))
  BY <1>1, <1>2, NewsDiffer DEF Outdates, Superseded
<1> QED BY <1>1, <1>3

(* Disconnect: what is lost on the socket would have outdated nothing, or  *)
(* the dashboard is misled.                                                *)
LEMMA DisconnectStep ==
  ASSUME TypeOK, Agrees, ~misled', Disconnect
  PROVE  Agrees'
PROOF
<1>1. /\ UNCHANGED <<rows, unpublished, cache, read, answers>> /\ pushes' = <<>>
      /\ \A i \in DOMAIN pushes : cache = Unloaded /\ ~Outdates(pushes[i])
  BY DEF Disconnect, server, Missed
<1>2. Coming' = Unsent /\ Unsent' = Unsent
  BY <1>1 DEF Coming, Unsent
<1>3. \A c \in Coming : c \in Coming' \/ ~Outdates(c)
  BY <1>1, <1>2 DEF Coming
<1>4. TrueNews'
  BY <1>1, <1>2 DEF Agrees, TrueNews, IsTrue, Exists, Coming
<1>5. InOrder'
  <2>1. \A n \in Unsent' : Superseded(n)' => Latest(n.id)' \in Unsent'
    BY <1>1, <1>2 DEF Agrees, InOrder, Superseded, Exists, Latest
  <2>2. \A a \in answers' : Superseded(a)' => Latest(a.id)' \in Coming'
    BY <1>1, <1>3, AnswersOutdated
  <2>3. DOMAIN pushes' = {}
    BY <1>1
  <2> QED BY <2>1, <2>2, <2>3 DEF InOrder
<1>6. ReadsFresh'
  BY <1>1, <1>3, ReadsOutdated
<1>7. Listed'
  BY <1>1 DEF Agrees, Listed, Exists, Created
<1>8. CacheFresh'
  <2>1. CASE pushes = <<>>
    <3>1. Quiet /\ Coming' = Coming
      BY <1>1, <2>1 DEF Quiet, Coming, Unsent
    <3> QED BY <1>1, <3>1, QuietCards DEF Agrees, CacheFresh, Created
  <2>2. CASE pushes # <<>>
    <3>1. 1 \in DOMAIN pushes
      BY <2>2 DEF TypeOK
    <3> QED BY <1>1, <3>1 DEF CacheFresh
  <2> QED BY <2>1, <2>2
<1> QED BY <1>4, <1>5, <1>6, <1>7, <1>8 DEF Agrees

(* OnMessage: a push is merged when nothing on its way is older.           *)
LEMMA OnMessageStep ==
  ASSUME TypeOK, Agrees, ~misled', OnMessage
  PROVE  Agrees'
PROOF
<1> DEFINE n == Head(pushes)
<1>1. /\ UNCHANGED <<rows, unpublished, read, answers>>
      /\ pushes' = Tail(pushes) /\ cache' = Merged(n) /\ ~Outdates(n)
  BY DEF OnMessage, server
<1>2. /\ pushes \in Seq(News) /\ pushes # <<>> /\ n \in News
      /\ n = pushes[1] /\ 1 \in DOMAIN pushes
      /\ DOMAIN pushes = 1 .. Len(pushes) /\ DOMAIN pushes' = 1 .. Len(pushes) - 1
      /\ \A i \in DOMAIN pushes' : pushes'[i] = pushes[i + 1]
  BY <1>1 DEF OnMessage, TypeOK
<1> HIDE DEF n
<1>3. Unsent' = Unsent
  BY <1>1 DEF Unsent
<1>4. /\ Coming' \subseteq Coming
      /\ \A i \in DOMAIN pushes : i > 1 => pushes[i] \in Coming'
      /\ \A c \in Coming : c \in Coming' \/ c = n
  <2>1. \A i \in DOMAIN pushes : i > 1 => pushes[i] \in Coming'
    <3> SUFFICES ASSUME NEW i \in DOMAIN pushes, i > 1 PROVE pushes[i] \in Coming'
      OBVIOUS
    <3>1. i - 1 \in DOMAIN pushes' /\ pushes'[i - 1] = pushes[i]
      BY <1>2
    <3> QED BY <3>1 DEF Coming
  <2>2. \A i \in DOMAIN pushes : i = 1 \/ i > 1
    BY <1>2
  <2>3. \A i \in DOMAIN pushes' : i + 1 \in DOMAIN pushes
    BY <1>2
  <2>4. \A c \in Coming : c \in Coming' \/ c = n
    BY <1>2, <1>3, <2>1, <2>2 DEF Coming
  <2>5. Coming' \subseteq Coming
    BY <1>2, <1>3, <2>3 DEF Coming
  <2> QED BY <2>1, <2>4, <2>5
<1>5. IsTrue(n) /\ (Superseded(n) => Latest(n.id) \in Coming')
  <2>1. n \in Coming
    BY <1>2 DEF Coming
  <2>2. Superseded(n) => Latest(n.id) \in Unsent \/ Follows(n.id, 1)
    BY <1>2 DEF Agrees, InOrder
  <2>3. Unsent \subseteq Coming'
    BY <1>3 DEF Coming
  <2>4. Follows(n.id, 1) => Latest(n.id) \in Coming'
    BY <1>4 DEF Follows
  <2> QED BY <2>1, <2>2, <2>3, <2>4 DEF Agrees, TrueNews
<1>6. \A c \in Coming : c \in Coming' \/ ~Outdates(c)
  BY <1>1, <1>4
<1>7. TrueNews'
  BY <1>1, <1>4 DEF Agrees, TrueNews, IsTrue, Exists
<1>8. InOrder'
  <2>1. \A x \in Unsent' : Superseded(x)' => Latest(x.id)' \in Unsent'
    BY <1>1, <1>3 DEF Agrees, InOrder, Superseded, Exists, Latest
  <2>2. \A a \in answers' : Superseded(a)' => Latest(a.id)' \in Coming'
    BY <1>1, <1>6, AnswersOutdated
  <2>3. ASSUME NEW i \in DOMAIN pushes', NEW p, p = pushes'[i], Superseded(p)'
        PROVE  Latest(p.id)' \in Unsent' \/ Follows(p.id, i)'
    <3>1. /\ i + 1 \in DOMAIN pushes /\ p = pushes[i + 1] /\ Superseded(p)
          /\ Latest(p.id) \in Unsent \/ Follows(p.id, i + 1)
      <4>1. i + 1 \in DOMAIN pushes /\ p = pushes[i + 1]
        BY <1>2, <2>3
      <4>2. Superseded(p)
        BY <1>1, <2>3 DEF Superseded, Exists
      <4> QED BY <4>1, <4>2 DEF Agrees, InOrder
    <3>2. Latest(p.id)' = Latest(p.id)
      BY <1>1 DEF Latest
    <3>3. ASSUME Follows(p.id, i + 1) PROVE Follows(p.id, i)'
      <4>1. PICK j \in DOMAIN pushes : j > i + 1 /\ pushes[j] = Latest(p.id)
        BY <3>3 DEF Follows
      <4>2. j - 1 \in DOMAIN pushes' /\ j - 1 > i /\ pushes'[j - 1] = pushes[j]
        BY <1>2, <4>1
      <4> QED BY <3>2, <4>1, <4>2 DEF Follows
    <3> QED BY <1>3, <3>1, <3>2, <3>3
  <2>4. \A i \in DOMAIN pushes' : Superseded(pushes[i])' =>
          Latest(pushes[i].id)' \in Unsent' \/ Follows(pushes[i].id, i)'
    BY <2>3
  <2> QED BY <2>1, <2>2, <2>4 DEF InOrder
<1>9. ReadsFresh'
  BY <1>1, <1>6, ReadsOutdated
<1>10. Listed'
  BY <1>1 DEF Agrees, Listed, Exists, Created
<1>11. CacheFresh'
  BY <1>1, <1>2, <1>4, <1>5, MergedFresh
<1> QED BY <1>7, <1>8, <1>9, <1>10, <1>11 DEF Agrees

(* Publish: broadcasts in the order of the changes keep their order on the *)
(* socket (broadcastToOperators); while it is closed, nothing that has     *)
(* been read, or answered, is older.                                       *)
LEMMA PublishStep ==
  ASSUME TypeOK, Agrees, ~misled', NEW w \in unpublished, Publish(w)
  PROVE  Agrees'
PROOF
<1> DEFINE n == w.news
<1>1. /\ unpublished' = unpublished \ {w} /\ UNCHANGED <<rows, open, cache, read>>
      /\ pushes' = IF open THEN Append(pushes, n) ELSE pushes
      /\ answers' \subseteq answers \cup {n}
      /\ ~open => cache = Unloaded /\ ~Outdates(n)
      /\ ~ \E u \in unpublished :
             /\ n.type = "session" /\ u.news.type = "session" /\ u.news.id = n.id
             /\ u.news.session.rev < n.session.rev
  BY DEF Publish, Missed
<1>2. n \in News /\ n \in Unsent /\ n \in Coming /\ IsTrue(n)
  BY DEF TypeOK, Unsent, Coming, Agrees, TrueNews
<1>3. Unsent' \subseteq Unsent /\ \A c \in Unsent : c \in Unsent' \/ c = n
  BY <1>1 DEF Unsent
<1> HIDE DEF n
<1>4. \A x : Superseded(x)' <=> Superseded(x)
  BY <1>1 DEF Superseded, Exists
<1>5. \A m : Latest(m)' = Latest(m) /\ Marked(m)' = Marked(m) /\ Removed(m)' = Removed(m)
  BY <1>1 DEF Latest, Marked, Removed
<1>6. \A x \in Unsent' : Superseded(x) => Latest(x.id) \in Unsent'
  <2> SUFFICES ASSUME NEW x \in Unsent', Superseded(x), Latest(x.id) = n PROVE FALSE
    <3>1. \A x \in Unsent' : Superseded(x) => Latest(x.id) \in Unsent
      BY <1>3 DEF Agrees, InOrder
    <3> QED BY <1>3, <3>1
  <2>1. x \in Unsent /\ x.session.rev < rows[x.id].session.rev /\ x.type = "session"
    BY <1>3 DEF Superseded, Agrees, TrueNews, IsTrue, Coming
  <2>2. n.type = "session" /\ n.id = x.id /\ n.session = rows[x.id].session
    BY NewsDiffer
  <2>3. PICK u \in unpublished : u.news = x
    BY <2>1 DEF Unsent
  <2> QED BY <1>1, <2>1, <2>2, <2>3
<1>7. Superseded(n) => Latest(n.id) \in Unsent'
  <2>1. Superseded(n) => Latest(n.id) \in Unsent /\ Latest(n.id) # n
    BY <1>2, NewsDiffer DEF Agrees, InOrder, Superseded
  <2> QED BY <1>3, <2>1
<1>8. CASE open
  <2>1. /\ pushes \in Seq(News) /\ pushes' = Append(pushes, n)
        /\ DOMAIN pushes = 1 .. Len(pushes) /\ DOMAIN pushes' = 1 .. Len(pushes) + 1
        /\ \A i \in DOMAIN pushes : pushes'[i] = pushes[i]
        /\ pushes'[Len(pushes) + 1] = n
    BY <1>1, <1>2, <1>8 DEF TypeOK
  <2>2. Coming' = Coming
    <3>1. \A i \in DOMAIN pushes' : pushes'[i] \in Coming
      <4>1. \A i \in DOMAIN pushes' : i \in DOMAIN pushes \/ i = Len(pushes) + 1
        BY <2>1
      <4> QED BY <1>2, <2>1, <4>1 DEF Coming
    <3>2. \A i \in DOMAIN pushes : pushes[i] \in Coming'
      <4>1. \A i \in DOMAIN pushes : i \in DOMAIN pushes'
        BY <2>1
      <4> QED BY <2>1, <4>1 DEF Coming
    <3>3. n \in Coming'
      <4>1. Len(pushes) + 1 \in DOMAIN pushes'
        BY <2>1
      <4> QED BY <2>1, <4>1 DEF Coming
    <3>4. Coming' \subseteq Coming
      BY <1>3, <3>1 DEF Coming
    <3>5. Coming \subseteq Coming'
      <4>1. Unsent' \subseteq Coming'
        BY DEF Coming
      <4> QED BY <1>3, <3>2, <3>3, <4>1 DEF Coming
    <3> QED BY <3>4, <3>5
  <2>3. TrueNews'
    BY <1>1, <1>2, <2>2 DEF Agrees, TrueNews, IsTrue, Exists
  <2>4. InOrder'
    <3>1. \A a \in answers' : Superseded(a) => Latest(a.id) \in Coming
      BY <1>1, <1>2 DEF Agrees, InOrder, Coming
    <3>2. ASSUME NEW i \in DOMAIN pushes', NEW p, p = pushes'[i], Superseded(p)
          PROVE  Latest(p.id) \in Unsent' \/ Follows(p.id, i)'
      <4>1. CASE i = Len(pushes) + 1
        BY <1>7, <2>1, <3>2, <4>1
      <4>2. CASE i \in DOMAIN pushes
        <5>1. Latest(p.id) \in Unsent \/ Follows(p.id, i)
          BY <2>1, <3>2, <4>2 DEF Agrees, InOrder
        <5>2. ASSUME Follows(p.id, i) PROVE Follows(p.id, i)'
          <6>1. PICK j \in DOMAIN pushes : j > i /\ pushes[j] = Latest(p.id)
            BY <5>2 DEF Follows
          <6>2. j \in DOMAIN pushes' /\ pushes'[j] = pushes[j]
            BY <2>1, <6>1
          <6> QED BY <1>5, <6>1, <6>2 DEF Follows
        <5>3. ASSUME Latest(p.id) = n PROVE Follows(p.id, i)'
          <6>1. /\ Len(pushes) + 1 \in DOMAIN pushes' /\ Len(pushes) + 1 > i
                /\ pushes'[Len(pushes) + 1] = Latest(p.id)
            BY <2>1, <4>2, <5>3
          <6> QED BY <1>5, <6>1 DEF Follows
        <5> QED BY <1>3, <5>1, <5>2, <5>3
      <4> QED BY <2>1, <4>1, <4>2
    <3>3. \A i \in DOMAIN pushes' : Superseded(pushes[i])' =>
            Latest(pushes[i].id)' \in Unsent' \/ Follows(pushes[i].id, i)'
      BY <1>4, <1>5, <3>2
    <3> QED BY <1>4, <1>5, <1>6, <2>2, <3>1, <3>3 DEF InOrder
  <2>5. ReadsFresh' /\ Listed' /\ CacheFresh'
    BY <1>1, <2>2 DEF Agrees, ReadsFresh, ReadFresh, MarkFresh, SessionFresh, Latest,
      Marked, Removed, Listed, Exists, Created, CacheFresh, CardsFresh
  <2> QED BY <2>3, <2>4, <2>5 DEF Agrees
<1>9. CASE ~open
  <2>1. pushes = <<>> /\ pushes' = <<>> /\ cache = Unloaded /\ ~Outdates(n)
    BY <1>1, <1>9 DEF TypeOK
  <2>2. Coming = Unsent /\ Coming' = Unsent'
    BY <2>1 DEF Coming
  <2>3. \A c \in Coming : c \in Coming' \/ ~Outdates(c)
    BY <1>3, <2>1, <2>2
  <2>4. TrueNews'
    BY <1>1, <1>2, <1>3, <2>2 DEF Agrees, TrueNews, IsTrue, Exists
  <2>5. InOrder'
    <3>1. \A a \in answers : Superseded(a)' => Latest(a.id)' \in Coming'
      BY <1>1, <2>3, AnswersOutdated
    <3>2. \A a \in answers' : Superseded(a)' => Latest(a.id)' \in Coming'
      BY <1>1, <1>4, <1>5, <1>7, <2>2, <3>1
    <3>3. DOMAIN pushes' = {}
      BY <2>1
    <3> QED BY <1>4, <1>5, <1>6, <3>2, <3>3 DEF InOrder
  <2>6. ReadsFresh'
    BY <1>1, <2>3, ReadsOutdated
  <2>7. Listed' /\ CacheFresh'
    BY <1>1, <2>1 DEF Agrees, Listed, Exists, Created, CacheFresh
  <2> QED BY <2>4, <2>5, <2>6, <2>7 DEF Agrees
<1> QED BY <1>8, <1>9

-----------------------------------------------------------------------------
(* Steps that change the database.                                         *)

(* Create: a new machine has no news and no card yet, and whoever reads it *)
(* by this dashboard reads it fresh.                                       *)
LEMMA CreateStep ==
  ASSUME TypeOK, Agrees, ~misled', NEW x \in Machine, Create(x)
  PROVE  Agrees'
PROOF
<1>1. /\ rows[x] = Absent /\ rows' = [rows EXCEPT ![x] = NewRow]
      /\ UNCHANGED <<unpublished, open, pushes, cache, answers>>
      /\ \/ BeginRead("create", {x})
         \/ read' = read /\ cache = Unloaded /\ read["list"] = NoRead
  BY DEF Create
<1>2. /\ rows' \in [Machine -> Row \cup {Absent, Gone}]
      /\ rows'[x] \in Row /\ Exists(x)' /\ ~Exists(x)
      /\ \A m : m # x => rows'[m] = rows[m] /\ (Exists(m)' <=> Exists(m))
  BY <1>1, CardTypes, DashboardAssumption DEF TypeOK, Exists
<1>3. Coming' = Coming /\ Unsent' = Unsent
  BY <1>1 DEF Coming, Unsent
<1>4. \A m : m # x => /\ Latest(m)' = Latest(m) /\ Marked(m)' = Marked(m)
                      /\ Removed(m)' = Removed(m)
  BY <1>2 DEF Latest, Marked, Removed
<1>5. \A n \in Coming \cup answers : n.id # x
  BY <1>1 DEF Agrees, TrueNews, IsTrue
<1>6. TrueNews'
  BY <1>1, <1>2, <1>3, <1>5 DEF Agrees, TrueNews, IsTrue
<1>7. InOrder'
  <2>1. \A i \in DOMAIN pushes : pushes[i].id # x
    BY <1>5 DEF Coming
  <2>2. \A n \in Unsent : n.id # x
    BY <1>5 DEF Coming
  <2>3. \A n : n.id # x => (Superseded(n)' <=> Superseded(n))
    BY <1>2 DEF Superseded
  <2>4. \A m, i : m # x => (Follows(m, i)' <=> Follows(m, i))
    BY <1>1, <1>4 DEF Follows
  <2>5. \A i \in DOMAIN pushes' : Superseded(pushes[i])' =>
          Latest(pushes[i].id)' \in Unsent' \/ Follows(pushes[i].id, i)'
    BY <1>1, <1>3, <1>4, <2>1, <2>3, <2>4 DEF Agrees, InOrder
  <2> QED BY <1>1, <1>3, <1>4, <1>5, <2>2, <2>3, <2>5 DEF Agrees, InOrder
<1>8. \A k \in Kind : read[k] # NoRead => x \notin DOMAIN read[k].rows
  BY <1>1 DEF Agrees, ReadsFresh, ReadFresh
<1>9. ASSUME NEW k \in Kind, read[k] # NoRead, NEW m \in DOMAIN read[k].rows,
             read'[k] = read[k]
      PROVE  ReadFresh(k, m)'
  <2>1. m # x /\ ReadFresh(k, m)
    BY <1>8, <1>9 DEF Agrees, ReadsFresh
  <2>2. /\ rows'[m] = rows[m] /\ (Exists(m)' <=> Exists(m))
        /\ Latest(m)' = Latest(m) /\ Marked(m)' = Marked(m) /\ Removed(m)' = Removed(m)
    BY <1>2, <1>4, <2>1
  <2> QED BY <1>3, <1>9, <2>1, <2>2 DEF ReadFresh, MarkFresh, SessionFresh
<1>10. CASE BeginRead("create", {x})
  <2>0. {x} \in SUBSET Machine /\ "create" \in Kind /\ "list" \in Kind
    BY DEF Kind
  <2>1. /\ DOMAIN read'["create"].rows = {x} /\ read'["create"] # NoRead
        /\ \A j \in Kind : j # "create" => read'[j] = read[j]
    BY <1>2, <1>10, <2>0, BeginReadType
  <2>2. ReadFresh("create", x)'
    BY <1>2, <1>10, <2>0, BeginReadFresh
  <2>3. ReadsFresh'
    <3> SUFFICES ASSUME NEW k \in Kind, read'[k] # NoRead, NEW m \in DOMAIN read'[k].rows
                 PROVE  ReadFresh(k, m)'
      BY DEF ReadsFresh
    <3>1. CASE k = "create"
      BY <2>1, <2>2, <3>1
    <3>2. CASE k # "create"
      BY <1>9, <2>1, <3>2
    <3> QED BY <3>1, <3>2
  <2>4. Created(x)' /\ \A m : ~Created(m)
    <3>1. read["create"] = NoRead
      BY <1>10 DEF BeginRead
    <3> QED BY <2>1, <3>1 DEF Created
  <2>5. Listed'
    BY <1>2, <2>0, <2>1, <2>4 DEF Agrees, Listed
  <2>6. CacheFresh'
    <3> SUFFICES ASSUME cache # Unloaded, NEW m \in Machine PROVE CardsFresh(m)'
      BY <1>1 DEF CacheFresh
    <3>1. CardsFresh(m) /\ cache' = cache
      BY <1>1 DEF Agrees, CacheFresh
    <3>2. CASE m = x
      <4>1. cache[m] = <<>>
        <5>1. Removed(x) \notin Coming
          BY <1>5, NewsDiffer
        <5> QED BY <1>2, <3>1, <3>2, <5>1 DEF CardsFresh
      <4> QED BY <1>2, <2>4, <3>1, <3>2, <4>1 DEF CardsFresh
    <3>3. CASE m # x
      <4>1. /\ rows'[m] = rows[m] /\ (Exists(m)' <=> Exists(m)) /\ ~Created(m)
            /\ Latest(m)' = Latest(m) /\ Marked(m)' = Marked(m) /\ Removed(m)' = Removed(m)
        BY <1>2, <1>4, <2>4, <3>3
      <4> QED BY <1>3, <3>1, <4>1 DEF CardsFresh, MarkFresh, SessionFresh
    <3> QED BY <3>2, <3>3
  <2> QED BY <1>6, <1>7, <2>3, <2>5, <2>6 DEF Agrees
<1>11. CASE read' = read /\ cache = Unloaded /\ read["list"] = NoRead
  <2>1. ReadsFresh'
    BY <1>9, <1>11 DEF ReadsFresh
  <2>2. Listed' /\ CacheFresh'
    BY <1>1, <1>11 DEF Listed, CacheFresh
  <2> QED BY <1>6, <1>7, <2>1, <2>2 DEF Agrees
<1> QED BY <1>1, <1>10, <1>11

(* A card, or what was read of a machine, stays fresh when its row is      *)
(* written: the news of it is about to be broadcast.                       *)
LEMMA WrittenFresh ==
  ASSUME NEW m, NEW row \in Row, NEW n, rows[m] \in Row, rows'[m] = row,
         Coming' = Coming \cup {n},
         \/ row.session = rows[m].session
         \/ rows[m].session.rev < row.session.rev /\ n = Latest(m)',
         row.pending = rows[m].pending \/ (row.pending /\ n = Marked(m))
  PROVE  /\ \A card \in Row : MarkFresh(m, card) => MarkFresh(m, card)'
         /\ \A s \in Session : SessionFresh(m, s) => SessionFresh(m, s)'
PROOF
<1>1. Marked(m)' = Marked(m)
  BY DEF Marked
<1>2. \A card \in Row : MarkFresh(m, card) => MarkFresh(m, card)'
  BY <1>1 DEF MarkFresh
<1>3. ASSUME NEW s \in Session, SessionFresh(m, s) PROVE SessionFresh(m, s)'
  <2>1. CASE row.session = rows[m].session
    <3>1. Latest(m)' = Latest(m)
      BY <2>1 DEF Latest
    <3> QED BY <1>3, <2>1, <3>1 DEF SessionFresh
  <2>2. CASE rows[m].session.rev < row.session.rev /\ n = Latest(m)'
    <3>1. /\ s.rev \in 0 .. MaxRev /\ rows[m].session.rev \in 0 .. MaxRev
          /\ row.session.rev \in 0 .. MaxRev
      BY CardTypes DEF Session
    <3>2. s.rev < row.session.rev
      BY <1>3, <2>2, <3>1, DashboardAssumption DEF SessionFresh
    <3> QED BY <2>2, <3>2 DEF SessionFresh
  <2> QED BY <2>1, <2>2
<1> QED BY <1>2, <1>3

(* Write: what was fresh stays so, since the change is about to be         *)
(* broadcast, and what was news before is still true, if out of date.      *)
LEMMA WriteStep ==
  ASSUME TypeOK, Agrees, NEW m \in Machine, Exists(m), NEW row \in Row \cup {Gone},
         NEW n \in News, NEW mine, Write(m, row, n, mine),
         n.id = m, IsTrue(n)', ~Superseded(n)',
         row \in Row =>
           /\ \/ row.session = rows[m].session
              \/ rows[m].session.rev < row.session.rev /\ n = Latest(m)'
           /\ row.pending = rows[m].pending \/ (row.pending /\ n = Marked(m)),
         row = Gone => n = Removed(m)
  PROVE  Agrees'
PROOF
<1>1. /\ rows' = [rows EXCEPT ![m] = row]
      /\ unpublished' = unpublished \cup {[news |-> n, mine |-> mine]}
      /\ UNCHANGED <<pushes, cache, read, answers>>
  BY DEF Write, client
<1>2. Unsent' = Unsent \cup {n}
  <2> DEFINE w == [news |-> n, mine |-> mine]
  <2>1. unpublished' = unpublished \cup {w} /\ w.news = n
    BY <1>1
  <2> HIDE DEF w
  <2> QED BY <2>1 DEF Unsent
<1>3. Coming' = Coming \cup {n}
  BY <1>1, <1>2 DEF Coming
<1>4. /\ rows[m] \in Row /\ rows'[m] = row /\ (Exists(m)' <=> row \in Row)
      /\ row \in Row \/ row = Gone
      /\ \A x : x # m => rows'[x] = rows[x] /\ (Exists(x)' <=> Exists(x))
  BY <1>1 DEF TypeOK, Exists
<1>5. \A x : x # m => Latest(x)' = Latest(x)
  BY <1>4 DEF Latest
<1>6. \A x : Marked(x)' = Marked(x) /\ Removed(x)' = Removed(x)
  BY DEF Marked, Removed
<1>7. Coming \cup answers \subseteq News
  BY DEF TypeOK, Coming, Unsent
<1>8. TrueNews'
  <2> SUFFICES ASSUME NEW c \in Coming \cup answers PROVE IsTrue(c)'
    BY <1>1, <1>3 DEF TrueNews
  <2>1. IsTrue(c) /\ c \in News
    BY <1>7 DEF Agrees, TrueNews
  <2>2. CASE c.id # m
    BY <1>4, <2>1, <2>2 DEF IsTrue
  <2>3. CASE c.id = m /\ row = Gone
    <3>1. ~Exists(m)' /\ rows'[m] # Absent
      BY <1>4, <2>3, DashboardAssumption
    <3> QED BY <2>3, <3>1 DEF IsTrue
  <2>4. CASE c.id = m /\ row \in Row
    <3>1. rows'[m] # Absent /\ c.type # "removed"
      BY <1>4, <2>1, <2>4, DashboardAssumption DEF IsTrue
    <3>2. c.type = "decommissioning" => row.pending
      BY <2>1, <2>4 DEF IsTrue
    <3>3. c.type = "session" =>
            c.session = row.session \/ c.session.rev < row.session.rev
      <4> SUFFICES ASSUME c.type = "session", row.session # rows[m].session
                   PROVE  c.session.rev < row.session.rev
        BY <2>1, <2>4 DEF IsTrue
      <4>1. /\ c.session.rev \in 0 .. MaxRev /\ row.session.rev \in 0 .. MaxRev
            /\ rows[m].session.rev \in 0 .. MaxRev
        BY <1>4, <2>1, <2>4, CardTypes, NewsTypes DEF Session
      <4>2. c.session = rows[m].session \/ c.session.rev < rows[m].session.rev
        BY <2>1, <2>4 DEF IsTrue
      <4> QED BY <2>4, <4>1, <4>2, DashboardAssumption
    <3> QED BY <1>4, <2>4, <3>1, <3>2, <3>3 DEF IsTrue
  <2> QED BY <1>4, <2>2, <2>3, <2>4
<1>9. \A c : Superseded(c)' =>
        \/ Superseded(c) /\ Latest(c.id)' = Latest(c.id)
        \/ Latest(c.id)' = n
  <2> SUFFICES ASSUME NEW c, Superseded(c)', Latest(c.id)' # n
               PROVE  Superseded(c) /\ Latest(c.id)' = Latest(c.id)
    OBVIOUS
  <2>1. CASE c.id # m
    BY <1>4, <1>5, <2>1 DEF Superseded
  <2>2. CASE c.id = m
    <3>1. row \in Row /\ row.session = rows[m].session
      BY <1>4, <2>2 DEF Superseded
    <3> QED BY <1>4, <2>2, <3>1 DEF Superseded, Latest
  <2> QED BY <2>1, <2>2
<1>10. InOrder'
  <2>1. \A c \in Unsent' : Superseded(c)' => Latest(c.id)' \in Unsent'
    BY <1>2, <1>9 DEF Agrees, InOrder
  <2>2. ASSUME NEW i \in DOMAIN pushes, NEW p, p = pushes[i], Superseded(p)'
        PROVE  Latest(p.id)' \in Unsent' \/ Follows(p.id, i)'
    <3>1. CASE Latest(p.id)' = n
      BY <1>2, <3>1
    <3>2. CASE Superseded(p) /\ Latest(p.id)' = Latest(p.id)
      <4>1. Latest(p.id) \in Unsent \/ Follows(p.id, i)
        BY <2>2, <3>2 DEF Agrees, InOrder
      <4> QED BY <1>1, <1>2, <3>2, <4>1 DEF Follows
    <3> QED BY <1>9, <2>2, <3>1, <3>2
  <2>3. \A i \in DOMAIN pushes' : Superseded(pushes[i])' =>
          Latest(pushes[i].id)' \in Unsent' \/ Follows(pushes[i].id, i)'
    BY <1>1, <2>2
  <2>4. \A a \in answers' : Superseded(a)' => Latest(a.id)' \in Coming'
    BY <1>1, <1>3, <1>9 DEF Agrees, InOrder
  <2> QED BY <2>1, <2>3, <2>4 DEF InOrder
<1>11. row \in Row => /\ \A card \in Row : MarkFresh(m, card) => MarkFresh(m, card)'
                      /\ \A s \in Session : SessionFresh(m, s) => SessionFresh(m, s)'
  BY <1>3, <1>4, WrittenFresh
<1>12. \A x : x # m => /\ \A card : MarkFresh(x, card) => MarkFresh(x, card)'
                       /\ \A s : SessionFresh(x, s) => SessionFresh(x, s)'
  BY <1>3, <1>4, <1>5, <1>6 DEF MarkFresh, SessionFresh
<1>13. row = Gone => Removed(m)' \in Coming'
  BY <1>3, <1>6
<1>14. ReadsFresh'
  <2> SUFFICES ASSUME NEW k \in Kind, read[k] # NoRead, NEW x \in DOMAIN read[k].rows
               PROVE  ReadFresh(k, x)'
    BY <1>1 DEF ReadsFresh
  <2> DEFINE card == read[k].rows[x]
  <2>1. ReadFresh(k, x) /\ card \in Row /\ read' = read
    BY <1>1, ReadingTypes DEF Agrees, ReadsFresh, TypeOK
  <2>2. card.session \in Session
    BY <2>1, CardTypes
  <2>3. CASE x # m
    <3>1. /\ rows'[x] = rows[x] /\ (Exists(x)' <=> Exists(x))
          /\ Removed(x) \in Coming => Removed(x)' \in Coming'
          /\ MarkFresh(x, read[k].rows[x]) => MarkFresh(x, read[k].rows[x])'
          /\ SessionFresh(x, read[k].rows[x].session)
               => SessionFresh(x, read[k].rows[x].session)'
      BY <1>3, <1>4, <1>6, <1>12, <2>1, <2>3
    <3> QED BY <2>1, <3>1 DEF ReadFresh
  <2>4. CASE x = m /\ row \in Row
    <3>1. /\ rows'[m] # Absent /\ Exists(m)'
          /\ MarkFresh(m, read[k].rows[m]) => MarkFresh(m, read[k].rows[m])'
          /\ SessionFresh(m, read[k].rows[m].session)
               => SessionFresh(m, read[k].rows[m].session)'
      BY <1>4, <1>11, <2>1, <2>2, <2>4, DashboardAssumption
    <3> QED BY <2>1, <2>4, <3>1 DEF ReadFresh
  <2>5. CASE x = m /\ row = Gone
    <3>1. rows'[m] # Absent /\ ~Exists(m)' /\ Removed(m)' \in Coming'
      BY <1>4, <1>13, <2>5, DashboardAssumption
    <3> QED BY <2>5, <3>1 DEF ReadFresh
  <2> QED BY <1>4, <2>3, <2>4, <2>5
<1>15. Listed'
  BY <1>1, <1>4 DEF Agrees, Listed, Created
<1>16. CacheFresh'
  <2> SUFFICES ASSUME cache # Unloaded, NEW x \in Machine PROVE CardsFresh(x)'
    BY <1>1 DEF CacheFresh
  <2>1. CardsFresh(x) /\ cache' = cache /\ (Created(x)' <=> Created(x))
    BY <1>1 DEF Agrees, CacheFresh, Created
  <2>2. Len(cache[x]) = 1 => cache[x][1] \in Row /\ cache[x][1].session \in Session
    <3>1. cache[x] \in Seq(Row)
      BY DEF TypeOK
    <3> QED BY <3>1, CardTypes
  <2>3. CASE x # m
    <3>1. /\ Exists(x)' <=> Exists(x)
          /\ Removed(x) \in Coming => Removed(x)' \in Coming'
          /\ MarkFresh(x, cache[x][1]) => MarkFresh(x, cache[x][1])'
          /\ SessionFresh(x, cache[x][1].session) => SessionFresh(x, cache[x][1].session)'
      BY <1>3, <1>4, <1>6, <1>12, <2>1, <2>3
    <3> QED BY <2>1, <3>1 DEF CardsFresh
  <2>4. CASE x = m /\ row \in Row
    <3>1. /\ Exists(m)'
          /\ Len(cache[m]) = 1 =>
               /\ MarkFresh(m, cache[m][1]) => MarkFresh(m, cache[m][1])'
               /\ SessionFresh(m, cache[m][1].session)
                    => SessionFresh(m, cache[m][1].session)'
      BY <1>4, <1>11, <2>1, <2>2, <2>4
    <3> QED BY <2>1, <2>4, <3>1 DEF CardsFresh
  <2>5. CASE x = m /\ row = Gone
    <3>1. ~Exists(m)' /\ Removed(m)' \in Coming'
      BY <1>4, <1>13, <2>5, DashboardAssumption
    <3> QED BY <2>1, <2>5, <3>1 DEF CardsFresh
  <2> QED BY <1>4, <2>3, <2>4, <2>5
<1> QED BY <1>8, <1>10, <1>14, <1>15, <1>16 DEF Agrees

(* ChangeSession: a session is started, extended or ended.                 *)
LEMMA ChangeSessionStep ==
  ASSUME TypeOK, Agrees, NEW m \in Machine, NEW mine \in BOOLEAN, ChangeSession(m, mine)
  PROVE  Agrees'
PROOF
<1>1. PICK s \in Session :
        /\ s.rev = rows[m].session.rev + 1
        /\ Write(m, [rows[m] EXCEPT !.session = s],
                 [type |-> "session", id |-> m, session |-> s], mine)
  BY ChangeSessionWrites
<1>2. Exists(m) /\ rows[m] \in Row
  BY DEF ChangeSession, Exists
<1> DEFINE row == [rows[m] EXCEPT !.session = s]
           n == [type |-> "session", id |-> m, session |-> s]
<1>3. row \in Row /\ row.session = s /\ row.pending = rows[m].pending
  BY <1>2, CardTypes
<1>4. /\ n \in News /\ n.id = m /\ n.type = "session" /\ n.session = s
  BY NewsAre
<1> HIDE DEF row
<1>5. rows'[m] = row
  BY <1>1 DEF Write, TypeOK, row
<1>6. n = Latest(m)'
  BY <1>3, <1>5 DEF Latest
<1> HIDE DEF n
<1>7. rows[m].session.rev < s.rev
  BY <1>1, <1>2, CardTypes, DashboardAssumption
<1>8. IsTrue(n)' /\ ~Superseded(n)'
  BY <1>3, <1>4, <1>5, DashboardAssumption DEF IsTrue, Superseded, Exists
<1>9. Write(m, row, n, mine) /\ row # Gone
  BY <1>1, <1>3, DashboardAssumption DEF row, n
<1> QED BY <1>2, <1>3, <1>4, <1>6, <1>7, <1>8, <1>9, WriteStep

(* RequestRemoval: a mark is set, or found, and answered.                  *)
LEMMA RequestRemovalStep ==
  ASSUME TypeOK, Agrees, NEW m \in Machine, NEW mine \in BOOLEAN, RequestRemoval(m, mine)
  PROVE  Agrees'
PROOF
<1>1. Exists(m) /\ rows[m] \in Row
  BY DEF RequestRemoval, Exists
<1> DEFINE row == [rows[m] EXCEPT !.pending = TRUE]
           n == [type |-> "decommissioning", id |-> m]
<1>2. row \in Row /\ row.session = rows[m].session /\ row.pending = TRUE
  BY <1>1, CardTypes
<1>3. n \in News /\ n.id = m /\ n.type = "decommissioning" /\ n = Marked(m)
  BY NewsAre DEF Marked
<1> HIDE DEF row, n
<1>4. CASE Write(m, row, n, mine)
  <2>1. rows'[m] = row
    BY <1>4 DEF Write, TypeOK
  <2>2. IsTrue(n)' /\ ~Superseded(n)'
    BY <1>2, <1>3, <2>1, DashboardAssumption DEF IsTrue, Superseded, Exists
  <2>3. row # Gone
    BY <1>2, DashboardAssumption
  <2> QED BY <1>1, <1>2, <1>3, <1>4, <2>2, <2>3, WriteStep
<1>5. CASE /\ rows[m].pending /\ answers' = answers \cup {n}
           /\ UNCHANGED <<rows, unpublished, pushes, cache, read>>
  <2>1. Unsent' = Unsent /\ Coming' = Coming
    BY <1>5 DEF Unsent, Coming
  <2>2. IsTrue(n) /\ ~Superseded(n)
    BY <1>1, <1>3, <1>5, DashboardAssumption DEF IsTrue, Superseded
  <2>3. TrueNews' /\ InOrder'
    <3>1. TrueNews'
      BY <1>5, <2>1, <2>2 DEF Agrees, TrueNews, IsTrue, Exists
    <3>2. InOrder'
      BY <1>5, <2>1, <2>2 DEF Agrees, InOrder, Superseded, Follows, Exists, Latest
    <3> QED BY <3>1, <3>2
  <2>4. ReadsFresh' /\ Listed' /\ CacheFresh'
    BY <1>5, <2>1 DEF Agrees, ReadsFresh, ReadFresh, MarkFresh, SessionFresh, Latest,
      Marked, Removed, Listed, Exists, Created, CacheFresh, CardsFresh
  <2> QED BY <2>3, <2>4 DEF Agrees
<1> QED BY <1>4, <1>5 DEF RequestRemoval, server, row, n

(* DeleteRow: the machine is removed.                                      *)
LEMMA DeleteRowStep ==
  ASSUME TypeOK, Agrees, NEW m \in Machine, NEW mine \in BOOLEAN, DeleteRow(m, mine)
  PROVE  Agrees'
PROOF
<1> DEFINE n == [type |-> "removed", id |-> m]
<1>1. Exists(m) /\ Write(m, Gone, n, mine)
  BY DEF DeleteRow
<1>2. n \in News /\ n.id = m /\ n.type = "removed" /\ n = Removed(m)
  BY NewsAre DEF Removed
<1> HIDE DEF n
<1>3. rows'[m] = Gone
  BY <1>1 DEF Write, TypeOK
<1>4. IsTrue(n)' /\ ~Superseded(n)'
  BY <1>2, <1>3, DashboardAssumption DEF IsTrue, Superseded, Exists
<1>5. Gone \notin Row
  BY DashboardAssumption
<1> QED BY <1>1, <1>2, <1>4, <1>5, WriteStep

-----------------------------------------------------------------------------
(* The theorems.                                                           *)

(* A dashboard that has just been opened holds nothing (useRealtime).      *)
LEMMA InitInv == Init => Inv
PROOF
<1> SUFFICES ASSUME Init PROVE Inv
  OBVIOUS
<1>1. TypeOK
  <2>1. rows \in [Machine -> Row \cup {Absent, Gone}]
    BY CardTypes DEF Init
  <2>2. {open, misled} \subseteq BOOLEAN
    BY Zenon DEF Init
  <2>3. pushes = <<>> /\ pushes \in Seq(News) /\ unpublished = {} /\ answers = {}
    BY DEF Init
  <2>4. cache = Unloaded /\ read \in [Kind -> Reading \cup {NoRead}]
        /\ \A k \in Kind : read[k] = NoRead
    BY DEF Init
  <2> QED BY <2>1, <2>2, <2>3, <2>4 DEF TypeOK
<1>2. \A k \in Kind : read[k] = NoRead
  BY DEF Init
<1>3. OneCreated /\ Listed /\ ReadsFresh /\ CacheFresh
  BY <1>2 DEF Init, OneCreated, Created, Listed, ReadsFresh, CacheFresh, Kind
<1>4. TrueNews /\ InOrder
  <2>1. Unsent = {} /\ DOMAIN pushes = {} /\ answers = {}
    BY DEF Init, Unsent
  <2>2. Coming = {}
    BY <2>1 DEF Coming
  <2> QED BY <2>1, <2>2 DEF TrueNews, InOrder
<1> QED BY <1>1, <1>3, <1>4 DEF Inv, Agrees

(* Every step keeps the invariant.                                         *)
LEMMA NextInv == Inv /\ [Next]_vars => Inv'
PROOF
<1> SUFFICES ASSUME Inv, [Next]_vars PROVE Inv'
  OBVIOUS
<1>1. TypeOK /\ OneCreated /\ TypeOK' /\ OneCreated'
  BY TypeStep, OneCreatedStep DEF Inv
<1>2. ASSUME ~misled' PROVE Agrees'
  <2>1. CASE Next
    <3>1. ~misled /\ Agrees
      BY <1>1, <1>2, <2>1, MisledType DEF Inv
    <3>2. ASSUME NEW m \in Machine, Request(m) PROVE Agrees'
      BY <1>1, <1>2, <3>1, <3>2, ChangeSessionStep, RequestRemovalStep, DeleteRowStep,
         BeginUpdateStep, CreateStep DEF Request
    <3>3. ASSUME NEW w \in unpublished, Publish(w) PROVE Agrees'
      BY <1>1, <1>2, <3>1, <3>3, PublishStep
    <3>4. CASE BeginList
      BY <1>1, <3>1, <3>4, BeginListStep
    <3>5. ASSUME NEW k \in Kind, ReadSession(k) PROVE Agrees'
      BY <1>1, <3>1, <3>5, ReadSessionStep
    <3>6. CASE Connect
      BY <3>1, <3>6, ConnectStep
    <3>7. CASE Disconnect
      BY <1>1, <1>2, <3>1, <3>7, DisconnectStep
    <3>8. CASE Receive
      BY <1>1, <1>2, <3>1, <3>8, OnMessageStep, OnAnswerStep, LoseAnswerStep, OnListStep,
         OnUpdateStep, OnCreateStep, LoseReadStep DEF Receive
    <3> QED BY <2>1, <3>2, <3>3, <3>4, <3>5, <3>6, <3>7, <3>8 DEF Next
  <2>2. CASE UNCHANGED vars
    BY <1>2, <2>2 DEF Inv, Agrees, TrueNews, IsTrue, InOrder, Superseded, Follows, Coming,
      Unsent, ReadsFresh, ReadFresh, MarkFresh, SessionFresh, Latest, Marked, Removed,
      Listed, Exists, Created, CacheFresh, CardsFresh, vars
  <2> QED BY <2>1, <2>2
<1> QED BY <1>1, <1>2 DEF Inv

(* Whatever is on its way, what the dashboard holds or is about to be told *)
(* is what the database holds, unless it was misled (use-realtime.ts,      *)
(* use-machines.ts).                                                       *)
THEOREM Invariant == Spec => []Inv
BY InitInv, NextInv, PTL DEF Spec

(* Every reachable state of the dashboard and the server has its type.     *)
THEOREM TypeCorrect == Spec => []TypeOK
PROOF
<1>1. Inv => TypeOK
  BY DEF Inv
<1> QED BY <1>1, Invariant, PTL

(* A dashboard that was not misled shows each machine as the database has  *)
(* it, once everything about it has arrived (use-realtime.ts: no refetch). *)
THEOREM NoRefetchNeeded == Spec => []ShowsServer
PROOF
<1>1. Inv => ShowsServer
  <2> SUFFICES ASSUME Inv, ~misled, cache # Unloaded, NEW m \in Machine, Told(m)
               PROVE  ShownRight(m)
    BY DEF ShowsServer
  <2>1. CardsFresh(m) /\ cache[m] \in Seq(Row)
    BY DEF Inv, Agrees, CacheFresh, TypeOK
  <2>2. \A n \in Coming : n.id # m
    BY DEF Told, Coming, Unsent
  <2>3. Latest(m) \notin Coming /\ Marked(m) \notin Coming /\ Removed(m) \notin Coming
    BY <2>2, NewsDiffer
  <2>4. ~Created(m)
    BY DEF Told, Created
  <2>5. CASE ~Exists(m)
    BY <2>1, <2>3, <2>5 DEF CardsFresh, ShownRight
  <2>6. CASE Exists(m)
    <3> DEFINE card == cache[m][1]
    <3>1. Len(cache[m]) = 1 /\ MarkFresh(m, card) /\ SessionFresh(m, card.session)
      BY <2>1, <2>4, <2>6 DEF CardsFresh
    <3>2. card \in Row /\ rows[m] \in Row /\ cache[m] = <<card>>
      BY <2>1, <2>6, <3>1 DEF Exists
    <3> HIDE DEF card
    <3>3. card.session = rows[m].session
      BY <2>3, <3>1 DEF SessionFresh
    <3>4. card.pending = rows[m].pending
      <4>1. card.pending \in BOOLEAN /\ rows[m].pending \in BOOLEAN
        BY <3>2 DEF Row
      <4> QED BY <2>3, <3>1, <4>1 DEF MarkFresh
    <3>5. card = rows[m]
      BY <3>2, <3>3, <3>4 DEF Row
    <3> QED BY <2>6, <3>2, <3>5 DEF ShownRight
  <2> QED BY <2>5, <2>6
<1> QED BY <1>1, Invariant, PTL
=============================================================================
