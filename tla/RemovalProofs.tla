--------------------------- MODULE RemovalProofs ---------------------------
(***************************************************************************)
(* What holds of Removal for every number of connections, of operators and *)
(* of faults.                                                              *)
(***************************************************************************)
EXTENDS Removal, TLAPS

(* An acknowledgement is only ever of a release, and a release only ever   *)
(* of a machine whose removal was requested; a direct removal goes on only *)
(* while the credential is unusable.                                       *)
Honest ==
  /\ command \/ acking \/ finalizing = "asked" => released
  /\ \A s \in Socket : Carries(inbox[s], "ack") => released
  /\ told \/ released => row # "managed"
  /\ \A s \in Socket :
       Carries(outbox[s], Decommission) \/ gateway[s] = "pending" => row # "managed"
  /\ \A o \in Operator :
       /\ request[o] = "marked" => row # "managed"
       /\ request[o] \in {"unusable", "deleting"} => ~usable

(* The agent's end of a connection and the server's.                       *)
Wired ==
  \A s \in Socket :
    /\ conn = s => ready[s] \in {"open", "closing"}
    /\ conn # s => outbox[s] = <<>>
    /\ ready[s] \in {"none", "closed"} => inbox[s] = <<>>

(* The server sends messages only where it listens for the answer.         *)
Heard ==
  /\ registry # NoSocket => gateway[registry] \in Listening
  /\ \A s \in Socket :
       Carries(outbox[s], Decommission) \/ Carries(outbox[s], SessionState) =>
         gateway[s] \in Listening

(* From the read of isPendingDecommission on, the instruction is somewhere.*)
Instructed ==
  \A s \in Socket :
    /\ row = "pending" /\ conn = s /\ ready[s] = "open"
    /\ gateway[s] \in {"managed", "done"}
    => \/ released \/ told
       \/ Carries(outbox[s], Decommission)
       \/ \E o \in Operator : request[o] = "marked"

Inv ==
  /\ TypeOK /\ OpenIsRegistered /\ Honest /\ Wired /\ Heard /\ HelloIsHeard
  /\ Instructed

-----------------------------------------------------------------------------
(* What a queue carries.                                                   *)

(* Appending adds the one message.                                         *)
LEMMA AppendCarries ==
  ASSUME NEW S, NEW q \in Seq(S), NEW m \in S, NEW x
  PROVE  Carries(Append(q, m), x) <=> Carries(q, x) \/ m = x
PROOF
<1> DEFINE r == Append(q, m)
<1>1. /\ Len(q) \in Nat /\ Len(r) = Len(q) + 1
      /\ DOMAIN q = 1 .. Len(q) /\ DOMAIN r = 1 .. Len(q) + 1
      /\ \A i \in DOMAIN q : i \in DOMAIN r /\ r[i] = q[i]
      /\ r[Len(q) + 1] = m
  OBVIOUS
<1>2. ASSUME Carries(r, x) PROVE Carries(q, x) \/ m = x
  <2>1. PICK i \in DOMAIN r : r[i] = x
    BY <1>2 DEF Carries
  <2>2. i = Len(q) + 1 \/ i \in DOMAIN q
    BY <1>1
  <2> QED BY <1>1, <2>1, <2>2 DEF Carries
<1>3. ASSUME Carries(q, x) PROVE Carries(r, x)
  BY <1>1, <1>3 DEF Carries
<1>4. ASSUME m = x PROVE Carries(r, x)
  <2>1. Len(q) + 1 \in DOMAIN r
    BY <1>1
  <2> QED BY <1>1, <1>4, <2>1 DEF Carries
<1> QED BY <1>2, <1>3, <1>4

(* Taking the head leaves the rest.                                        *)
LEMMA TailCarries ==
  ASSUME NEW S, NEW q \in Seq(S), q # <<>>, NEW x
  PROVE  Carries(q, x) <=> Head(q) = x \/ Carries(Tail(q), x)
PROOF
<1> DEFINE r == Tail(q)
<1>1. /\ Len(q) \in Nat \ {0} /\ q[1] = Head(q)
      /\ DOMAIN q = 1 .. Len(q) /\ DOMAIN r = 1 .. Len(q) - 1
      /\ \A i \in DOMAIN r : r[i] = q[i + 1]
  OBVIOUS
<1>2. ASSUME Carries(q, x), Head(q) # x PROVE Carries(r, x)
  <2>1. PICK i \in DOMAIN q : q[i] = x
    BY <1>2 DEF Carries
  <2>2. i - 1 \in DOMAIN r /\ i = (i - 1) + 1
    BY <1>1, <1>2, <2>1
  <2>3. r[i - 1] = x
    BY <1>1, <2>1, <2>2
  <2> QED BY <2>2, <2>3 DEF Carries
<1>3. ASSUME Head(q) = x PROVE Carries(q, x)
  <2>1. 1 \in DOMAIN q
    BY <1>1
  <2> QED BY <1>1, <1>3, <2>1 DEF Carries
<1>4. ASSUME Carries(r, x) PROVE Carries(q, x)
  <2>1. PICK i \in DOMAIN r : r[i] = x
    BY <1>4 DEF Carries
  <2>2. i + 1 \in DOMAIN q /\ q[i + 1] = x
    BY <1>1, <2>1
  <2> QED BY <2>2 DEF Carries
<1> QED BY <1>2, <1>3, <1>4

(* An empty one carries nothing.                                           *)
LEMMA NothingCarried == \A x : ~Carries(<<>>, x)
BY DEF Carries

(* The messages of the server differ from each other.                      *)
LEMMA Messages ==
  /\ Decommission \in ServerMessage /\ SessionState \in ServerMessage
  /\ Decommission # SessionState
  /\ \A code \in {4000, 4001, 4002, 4003} : Close(code) \in ServerMessage
  /\ \A code : Close(code) # Decommission /\ Close(code) # SessionState
  /\ Decommission.type # "close" /\ SessionState.type # "close"
PROOF
<1>1. /\ Decommission.type = "decommission" /\ SessionState.type = "session_state"
      /\ \A code : Close(code).type = "close"
  BY DEF Decommission, SessionState, Close
<1>2. /\ Decommission \in ServerMessage /\ SessionState \in ServerMessage
      /\ \A code \in {4000, 4001, 4002, 4003} : Close(code) \in ServerMessage
  BY DEF ServerMessage
<1> QED BY <1>1, <1>2

(* A message sent on a socket is added to its queue if the agent is there. *)
LEMMA SentQueues ==
  ASSUME NEW m \in ServerMessage, NEW s \in Socket,
         outbox \in [Socket -> Seq(ServerMessage)]
  PROVE  /\ Sent(outbox, s, m) \in [Socket -> Seq(ServerMessage)]
         /\ \A t \in Socket : \A x :
              Carries(Sent(outbox, s, m)[t], x) <=>
                Carries(outbox[t], x) \/ (t = s /\ conn = s /\ m = x)
         /\ \A t \in Socket : conn # t => Sent(outbox, s, m)[t] = outbox[t]
PROOF
<1>1. CASE conn = s
  <2>1. Sent(outbox, s, m) = [outbox EXCEPT ![s] = Append(outbox[s], m)]
    BY <1>1 DEF Sent
  <2>2. Append(outbox[s], m) \in Seq(ServerMessage)
    OBVIOUS
  <2>3. \A x : Carries(Append(outbox[s], m), x) <=> Carries(outbox[s], x) \/ m = x
    BY AppendCarries
  <2> QED BY <1>1, <2>1, <2>2, <2>3
<1>2. CASE conn # s
  BY <1>2 DEF Sent
<1> QED BY <1>1, <1>2

-----------------------------------------------------------------------------
(* The first state.                                                        *)
LEMMA InitInv == Init => Inv
PROOF
<1> SUFFICES ASSUME Init PROVE Inv
  OBVIOUS
<1>1. TypeOK
  <2>1. <<>> \in Seq({"ack", "heartbeat"}) /\ <<>> \in Seq(ServerMessage)
    OBVIOUS
  <2>2. /\ inbox \in [Socket -> Seq({"ack", "heartbeat"})]
        /\ outbox \in [Socket -> Seq(ServerMessage)]
    BY <2>1 DEF Init
  <2>3. faults \in 0 .. MaxFaults
    BY RemovalAssumption DEF Init
  <2>4. /\ gateway \in [Socket -> Listening \cup {"none", "opened", "valid",
                                                  "invalid", "refused"}]
        /\ ready \in [Socket -> {"none", "open", "closing", "closed"}]
        /\ request \in [Operator -> {"idle", "unusable", "deleting", "managed",
                                     "marked", "done"}]
    BY DEF Init, Listening
  <2> QED BY <2>2, <2>3, <2>4 DEF Init, TypeOK
<1>2. OpenIsRegistered /\ Heard /\ HelloIsHeard
  BY NothingCarried, RemovalAssumption
     DEF Init, OpenIsRegistered, Heard, HelloIsHeard, Listening
<1>3. Honest
  BY NothingCarried DEF Init, Honest
<1>4. Wired
  BY RemovalAssumption DEF Init, Wired
<1>5. Instructed
  BY DEF Init, Instructed
<1> QED BY <1>1, <1>2, <1>3, <1>4, <1>5 DEF Inv

-----------------------------------------------------------------------------
(* Types.                                                                  *)

(* What TypeOK says of everything but the queues.                          *)
Control ==
  /\ row \in {"managed", "pending", "removed"}
  /\ registry \in Socket \cup {NoSocket} /\ conn \in Socket \cup {NoSocket}
  /\ gateway \in [Socket -> Listening \cup {"none", "opened", "valid", "invalid",
                                            "refused"}]
  /\ ready \in [Socket -> {"none", "open", "closing", "closed"}]
  /\ request \in [Operator -> {"idle", "unusable", "deleting", "managed", "marked",
                             "done"}]
  /\ finalizing \in {"no", "asked", "deleted"}
  /\ client \in {"trying", "stopped"}
  /\ {usable, revoking, running, released, told, command, acking, greeted} \subseteq BOOLEAN
  /\ faults \in 0 .. MaxFaults

(* Control is a part of TypeOK.                                            *)
LEMMA ControlTypes == TypeOK => Control
BY DEF TypeOK, Control

(* Every step keeps the types of all but the queues.                       *)
LEMMA ControlStep == TypeOK /\ [Next]_vars => Control'
PROOF
<1> SUFFICES ASSUME TypeOK, [Next]_vars PROVE Control'
  OBVIOUS
<1> USE DEF Next, Handshake, SocketStep, FinishRequest, ServiceStep,
            ClientStep, vars, api, agent, VerifyCredential, Reject, Accept,
            RecordHeartbeat, HeartbeatOfRemoved, IsPendingDecommission, Greet,
            HandleDisconnect, Forget, ReceiveMessage, ReadMachine, HardDelete,
            DeleteRow, MarkPending, Tell, DeleteIfPending, CloseFinalized,
            Revoke, CloseRevoked, Connect, HandleCommand, AgentReceive,
            OnDecommission, Start, LoseConnection, AgentStops, ApiRestarts,
            GatewayStep, RequestStep, ApiEnds, DropConnection,
            DisconnectMachine, RegisterAgent, UnregisterAgent, Control,
            Listening
<1>1. Control
  BY ControlTypes
<1>2. faults' \in 0 .. MaxFaults
  <2>1. faults' = faults \/ Fault
    OBVIOUS
  <2> QED BY <1>1, <2>1, RemovalAssumption DEF Fault
<1>3. \/ gateway' = gateway
      \/ gateway' = [s \in Socket |-> "none"]
      \/ \E s \in Socket : \E to \in Listening \cup {"none", "opened", "valid",
                                                    "invalid", "refused"} :
           gateway' = [gateway EXCEPT ![s] = to]
  BY <1>1
<1>4. \/ ready' = ready
      \/ ready' = [s \in Socket |-> "none"]
      \/ \E s \in Socket : \E to \in {"none", "open", "closing", "closed"} :
           ready' = [ready EXCEPT ![s] = to]
  BY <1>1
<1>5. \/ request' = request
      \/ request' = [o \in Operator |-> "idle"]
      \/ \E o \in Operator : \E to \in {"idle", "unusable", "deleting", "managed",
                                        "marked", "done"} :
           request' = [request EXCEPT ![o] = to]
  BY <1>1
<1>6. row' \in {"managed", "pending", "removed"}
  BY <1>1
<1>7. registry' \in Socket \cup {NoSocket}
  BY <1>1
<1>8. conn' \in Socket \cup {NoSocket}
  BY <1>1
<1>9. finalizing' \in {"no", "asked", "deleted"}
  BY <1>1
<1>10. client' \in {"trying", "stopped"}
  BY <1>1
<1>11. usable' = usable \/ usable' = FALSE
  OBVIOUS
<1>12. revoking' = revoking \/ revoking' = TRUE \/ revoking' = FALSE
  OBVIOUS
<1>13. running' = running \/ running' = TRUE \/ running' = FALSE
  OBVIOUS
<1>14. released' = released \/ released' = TRUE
  OBVIOUS
<1>15. \/ told' = told \/ told' = FALSE
       \/ told' = (told \/ Head(outbox[conn]) = Decommission)
  OBVIOUS
<1>16. \/ command' = command \/ command' = FALSE
       \/ command' = released
       \/ command' = (command \/ ~released)
  OBVIOUS
<1>17. \/ acking' = acking \/ acking' = TRUE \/ acking' = FALSE
       \/ acking' = (acking \/ command)
  OBVIOUS
<1>18. greeted' = greeted \/ greeted' = TRUE \/ greeted' = FALSE
  OBVIOUS
<1> HIDE DEF Next
<1>19. {usable, revoking, running, released, told, command, acking, greeted}' \subseteq BOOLEAN
  BY <1>1, <1>11, <1>12, <1>13, <1>14, <1>15, <1>16, <1>17, <1>18, Zenon
<1> QED
  BY <1>1, <1>2, <1>3, <1>4, <1>5, <1>6, <1>7, <1>8, <1>9, <1>10, <1>19

(* What a step does to the inboxes: nothing, it empties them, or it puts   *)
(* in a message or takes one out of one of them.                           *)
Received ==
  \/ inbox' = inbox
  \/ inbox' = [s \in Socket |-> <<>>]
  \/ \E s \in Socket : inbox' = [inbox EXCEPT ![s] = <<>>]
  \/ \E s \in Socket : inbox' = [inbox EXCEPT ![s] = <<"ack">>]
  \/ \E s \in Socket : inbox[s] # <<>> /\ inbox' = [inbox EXCEPT ![s] = Tail(@)]
  \/ \E s \in Socket : inbox' = [inbox EXCEPT ![s] = Append(@, "ack")]
  \/ \E s \in Socket : inbox' = [inbox EXCEPT ![s] = Append(@, "heartbeat")]

(* The same of the outboxes.                                               *)
Dispatched ==
  \/ outbox' = outbox
  \/ outbox' = [s \in Socket |-> <<>>]
  \/ \E s \in Socket : outbox' = [outbox EXCEPT ![s] = <<>>]
  \/ \E s \in Socket : outbox[s] # <<>> /\ outbox' = [outbox EXCEPT ![s] = Tail(@)]
  \/ \E s \in Socket : \E m \in ServerMessage : outbox' = Sent(outbox, s, m)

(* Every handler and task moves the queues in one of these ways.           *)
LEMMA QueuesMove ==
  ASSUME TypeOK, [Next]_vars
  PROVE  Received /\ Dispatched
PROOF
<1> USE DEF Received, Dispatched
<1>1. conn \in Socket \cup {NoSocket} /\ registry \in Socket \cup {NoSocket}
  BY DEF TypeOK
<1>2. CASE \E s \in Socket : Handshake(s)
  <2>1. inbox' = inbox \/ ApiEnds
    BY <1>2 DEF Handshake, VerifyCredential, Reject, Accept, RecordHeartbeat,
                IsPendingDecommission, Greet, agent
  <2>2. Dispatched \/ ApiEnds
    BY <1>1, <1>2, Messages
       DEF Handshake, VerifyCredential, Reject, Accept, RecordHeartbeat,
           IsPendingDecommission, Greet, RegisterAgent, SendTo, api
  <2> QED BY <2>1, <2>2 DEF ApiEnds
<1>3. CASE \E s \in Socket : SocketStep(s)
  <2>1. Received \/ ApiEnds
    BY <1>3 DEF SocketStep, HandleDisconnect, Forget, ReceiveMessage,
                HeartbeatOfRemoved, agent
  <2>2. outbox' = outbox \/ ApiEnds
    BY <1>3 DEF SocketStep, HandleDisconnect, Forget, ReceiveMessage,
                HeartbeatOfRemoved, api
  <2> QED BY <2>1, <2>2 DEF ApiEnds
<1>4. CASE \E o \in Operator : ReadMachine(o) \/ FinishRequest(o)
  <2>1. inbox' = inbox
    BY <1>4 DEF FinishRequest, ReadMachine, HardDelete, DeleteRow, MarkPending,
                Tell, agent
  <2>2. Dispatched
    BY <1>1, <1>4, Messages
       DEF FinishRequest, ReadMachine, HardDelete, DeleteRow, MarkPending, Tell,
           SendTo, DisconnectMachine, api
  <2> QED BY <2>1, <2>2
<1>5. CASE ServiceStep \/ Revoke
  <2>1. inbox' = inbox
    BY <1>5 DEF ServiceStep, DeleteIfPending, CloseFinalized, CloseRevoked,
                Revoke, agent
  <2>2. Dispatched
    BY <1>1, <1>5, Messages
       DEF ServiceStep, DeleteIfPending, CloseFinalized, CloseRevoked, Revoke,
           SendTo, DisconnectMachine, api
  <2> QED BY <2>1, <2>2
<1>6. CASE ClientStep \/ OnDecommission \/ Start
  <2>1. Received
    BY <1>1, <1>6 DEF ClientStep, HandleCommand, AgentReceive, Connect,
                      OnDecommission, Start, DropConnection, SentFirst
  <2>2. Dispatched
    BY <1>1, <1>6 DEF ClientStep, HandleCommand, AgentReceive, Connect,
                      OnDecommission, Start, DropConnection
  <2> QED BY <2>1, <2>2
<1>7. CASE LoseConnection \/ AgentStops \/ ApiRestarts
  <2>1. Received
    BY <1>1, <1>7 DEF LoseConnection, AgentStops, ApiRestarts, DropConnection,
                      ApiEnds
  <2>2. Dispatched
    BY <1>1, <1>7 DEF LoseConnection, AgentStops, ApiRestarts, DropConnection,
                      ApiEnds
  <2> QED BY <2>1, <2>2
<1>8. CASE UNCHANGED vars
  BY <1>8 DEF vars
<1> HIDE DEF Received, Dispatched
<1> QED
  BY <1>2, <1>3, <1>4, <1>5, <1>6, <1>7, <1>8 DEF Next

(* So every step keeps the types of the queues.                            *)
LEMMA QueuesStep ==
  ASSUME TypeOK, [Next]_vars
  PROVE  /\ inbox' \in [Socket -> Seq({"ack", "heartbeat"})]
         /\ outbox' \in [Socket -> Seq(ServerMessage)]
PROOF
<1>1. /\ inbox \in [Socket -> Seq({"ack", "heartbeat"})]
      /\ outbox \in [Socket -> Seq(ServerMessage)]
  BY DEF TypeOK
<1>2. Received /\ Dispatched
  BY QueuesMove
<1>3. <<>> \in Seq({"ack", "heartbeat"}) /\ <<"ack">> \in Seq({"ack", "heartbeat"})
  OBVIOUS
<1>4. inbox' \in [Socket -> Seq({"ack", "heartbeat"})]
  <2>1. \A s \in Socket : /\ Append(inbox[s], "ack") \in Seq({"ack", "heartbeat"})
                          /\ Append(inbox[s], "heartbeat") \in Seq({"ack", "heartbeat"})
                          /\ inbox[s] # <<>> => Tail(inbox[s]) \in Seq({"ack", "heartbeat"})
    BY <1>1
  <2> QED BY <1>1, <1>2, <1>3, <2>1 DEF Received
<1>5. outbox' \in [Socket -> Seq(ServerMessage)]
  <2>1. \A s \in Socket : outbox[s] # <<>> => Tail(outbox[s]) \in Seq(ServerMessage)
    BY <1>1
  <2>2. \A s \in Socket : \A m \in ServerMessage :
          Sent(outbox, s, m) \in [Socket -> Seq(ServerMessage)]
    BY <1>1, SentQueues
  <2>3. <<>> \in Seq(ServerMessage)
    OBVIOUS
  <2> QED BY <1>1, <1>2, <2>1, <2>2, <2>3 DEF Dispatched
<1> QED BY <1>4, <1>5

(* Hence TypeOK is inductive.                                              *)
LEMMA TypeStep == TypeOK /\ [Next]_vars => TypeOK'
PROOF
<1>1. ASSUME Control',
             inbox' \in [Socket -> Seq({"ack", "heartbeat"})],
             outbox' \in [Socket -> Seq(ServerMessage)]
      PROVE  TypeOK'
  BY <1>1 DEF Control, TypeOK
<1> QED BY <1>1, ControlStep, QueuesStep

-----------------------------------------------------------------------------
(* What the operations do to the queues and to the sockets.                *)

(* Nothing is sent but, perhaps, close frames.                             *)
OnlyCloses ==
  \A t \in Socket :
    /\ conn # t => outbox'[t] = outbox[t]
    /\ \A m \in {Decommission, SessionState} :
         Carries(outbox'[t], m) <=> Carries(outbox[t], m)

(* A close frame is no message.                                            *)
LEMMA CloseSent ==
  ASSUME TypeOK, NEW s \in Socket, NEW code \in {4000, 4001, 4002, 4003},
         outbox' = Sent(outbox, s, Close(code))
  PROVE  OnlyCloses
PROOF
<1> DEFINE m == Close(code)
<1>1. /\ m \in ServerMessage /\ m # Decommission /\ m # SessionState
      /\ outbox \in [Socket -> Seq(ServerMessage)]
      /\ outbox' = Sent(outbox, s, m)
  BY Messages DEF TypeOK
<1> HIDE DEF m
<1>2. /\ \A t \in Socket : \A x :
           Carries(Sent(outbox, s, m)[t], x) <=>
             Carries(outbox[t], x) \/ (t = s /\ conn = s /\ m = x)
      /\ \A t \in Socket : conn # t => Sent(outbox, s, m)[t] = outbox[t]
  BY <1>1, SentQueues
<1> QED BY <1>1, <1>2 DEF OnlyCloses

(* Where nothing is sent, no message is.                                   *)
LEMMA NothingSent == outbox' = outbox => OnlyCloses
BY DEF OnlyCloses

(* disconnectMachine closes the registered socket, and no other.           *)
LEMMA Disconnects ==
  ASSUME TypeOK, NEW code \in {4000, 4001, 4002, 4003}, DisconnectMachine(code)
  PROVE  /\ registry' = NoSocket /\ OnlyCloses
         /\ \A t \in Socket :
              \/ ready'[t] = ready[t] /\ (t = registry => ready[t] # "open")
              \/ t = registry /\ ready[t] = "open" /\ ready'[t] = "closing"
PROOF
<1>1. Control
  BY ControlTypes
<1>2. CASE registry # NoSocket /\ ready[registry] = "open"
  <2>1. /\ registry' = NoSocket /\ registry \in Socket
        /\ ready' = [ready EXCEPT ![registry] = "closing"]
        /\ outbox' = Sent(outbox, registry, Close(code))
    BY <1>1, <1>2 DEF Control, DisconnectMachine
  <2> QED BY <1>1, <1>2, <2>1, CloseSent DEF Control
<1>3. CASE ~(registry # NoSocket /\ ready[registry] = "open")
  BY <1>1, <1>3, NothingSent, RemovalAssumption DEF Control, DisconnectMachine
<1> QED BY <1>2, <1>3

(* registerAgent closes the socket it replaces.                            *)
LEMMA Registers ==
  ASSUME TypeOK, NEW s \in Socket, RegisterAgent(s)
  PROVE  /\ registry' = s /\ OnlyCloses
         /\ \A t \in Socket :
              \/ ready'[t] = ready[t] /\ (t = registry /\ t # s => ready[t] # "open")
              \/ t = registry /\ t # s /\ ready[t] = "open" /\ ready'[t] = "closing"
PROOF
<1>1. Control
  BY ControlTypes
<1>2. CASE registry \notin {s, NoSocket} /\ ready[registry] = "open"
  <2>1. /\ registry' = s /\ registry \in Socket
        /\ ready' = [ready EXCEPT ![registry] = "closing"]
        /\ outbox' = Sent(outbox, registry, Close(4000))
    BY <1>1, <1>2 DEF Control, RegisterAgent
  <2> QED BY <1>1, <1>2, <2>1, CloseSent DEF Control
<1>3. CASE ~(registry \notin {s, NoSocket} /\ ready[registry] = "open")
  BY <1>1, <1>3, NothingSent, RemovalAssumption DEF Control, RegisterAgent
<1> QED BY <1>2, <1>3

(* A refused socket is closed if it is still open.                         *)
LEMMA Rejects ==
  ASSUME TypeOK, NEW s \in Socket, Reject(s)
  PROVE  /\ OnlyCloses
         /\ gateway[s] = "invalid" /\ gateway' = [gateway EXCEPT ![s] = "refused"]
         /\ \A t \in Socket :
              \/ ready'[t] = ready[t]
              \/ t = s /\ ready[t] = "open" /\ ready'[t] = "closing"
         /\ UNCHANGED <<row, usable, registry, inbox, request, finalizing,
                        released, told, command, acking, conn>>
PROOF
<1>1. Control
  BY ControlTypes
<1>2. CASE ready[s] = "open"
  <2>1. /\ ready' = [ready EXCEPT ![s] = "closing"]
        /\ outbox' = Sent(outbox, s, Close(4001))
    BY <1>2 DEF Reject
  <2> QED
    BY <1>1, <1>2, <2>1, CloseSent DEF Control, Reject, GatewayStep, agent
<1>3. CASE ready[s] # "open"
  BY <1>1, <1>3, NothingSent DEF Control, Reject, GatewayStep, agent
<1> QED BY <1>2, <1>3

(* What is sent is on its way if the socket is open at both ends.          *)
LEMMA Sends ==
  ASSUME TypeOK, NEW s \in Socket \cup {NoSocket},
         NEW m \in {Decommission, SessionState}, SendTo(s, m)
  PROVE  \A t \in Socket :
           /\ conn # t => outbox'[t] = outbox[t]
           /\ \A x \in {Decommission, SessionState} :
                Carries(outbox'[t], x) <=>
                  Carries(outbox[t], x)
                    \/ (t = s /\ ready[s] = "open" /\ conn = s /\ m = x)
PROOF
<1>1. outbox \in [Socket -> Seq(ServerMessage)] /\ m \in ServerMessage
  BY Messages DEF TypeOK
<1>2. CASE s # NoSocket /\ ready[s] = "open"
  <2>1. s \in Socket /\ outbox' = Sent(outbox, s, m)
    BY <1>2 DEF SendTo
  <2>2. /\ \A t \in Socket : \A x :
             Carries(Sent(outbox, s, m)[t], x) <=>
               Carries(outbox[t], x) \/ (t = s /\ conn = s /\ m = x)
        /\ \A t \in Socket : conn # t => Sent(outbox, s, m)[t] = outbox[t]
    BY <1>1, <2>1, SentQueues
  <2> QED BY <1>2, <2>1, <2>2
<1>3. CASE ~(s # NoSocket /\ ready[s] = "open")
  <2>1. outbox' = outbox
    BY <1>3 DEF SendTo
  <2> QED BY <1>3, <2>1, RemovalAssumption
<1> QED BY <1>2, <1>3

(* AgentReceive takes the first message, and answers it once.              *)
LEMMA Receives ==
  ASSUME TypeOK, AgentReceive
  PROVE  /\ conn \in Socket /\ conn' \in {conn, NoSocket}
         /\ told => told'
         /\ told' => told \/ Carries(outbox[conn], Decommission)
         /\ \A t \in Socket :
              /\ conn # t => outbox'[t] = outbox[t] /\ inbox'[t] = inbox[t]
              /\ conn' # t /\ conn = t => outbox'[t] = <<>>
              /\ \A m : Carries(outbox'[t], m) => Carries(outbox[t], m)
              /\ conn' = t /\ Carries(outbox[t], Decommission) =>
                   told' \/ Carries(outbox'[t], Decommission)
              /\ Carries(inbox'[t], "ack") => Carries(inbox[t], "ack")
              /\ Carries(inbox'[t], "heartbeat") =>
                   \/ Carries(inbox[t], "heartbeat")
                   \/ Carries(outbox[t], Decommission)
                   \/ Carries(outbox[t], SessionState)
PROOF
<1> DEFINE q == outbox[conn]
           m == Head(q)
<1>1. /\ conn \in Socket /\ q # <<>> /\ q \in Seq(ServerMessage)
      /\ inbox[conn] \in Seq({"ack", "heartbeat"})
      /\ outbox \in [Socket -> Seq(ServerMessage)]
      /\ inbox \in [Socket -> Seq({"ack", "heartbeat"})] /\ told \in BOOLEAN
  BY DEF AgentReceive, TypeOK
<1>2. /\ m \in ServerMessage
      /\ \A x : Carries(q, x) <=> m = x \/ Carries(Tail(q), x)
  BY <1>1, TailCarries
<1>3. told' = (told \/ m = Decommission)
  BY DEF AgentReceive
<1>4. CASE m.type = "close"
  <2>1. /\ conn' = NoSocket /\ inbox' = inbox
        /\ outbox' = [outbox EXCEPT ![conn] = <<>>]
    BY <1>4 DEF AgentReceive
  <2> HIDE DEF q, m
  <2> QED BY <1>1, <1>2, <1>3, <2>1, NothingCarried, RemovalAssumption DEF q
<1>5. CASE m.type # "close"
  <2>1. m \in {Decommission, SessionState}
    BY <1>2, <1>5 DEF ServerMessage, Close
  <2>2. /\ conn' = conn /\ outbox' = [outbox EXCEPT ![conn] = Tail(q)]
        /\ \/ inbox' = inbox
           \/ inbox' = [inbox EXCEPT ![conn] = Append(inbox[conn], "heartbeat")]
    BY <1>5 DEF AgentReceive
  <2>3. /\ \A x : Carries(Append(inbox[conn], "heartbeat"), x) <=>
                    Carries(inbox[conn], x) \/ "heartbeat" = x
        /\ "heartbeat" # "ack"
    BY <1>1, AppendCarries
  <2> HIDE DEF m
  <2>4. \A t \in Socket :
          /\ conn # t => outbox'[t] = outbox[t] /\ inbox'[t] = inbox[t]
          /\ \A x : Carries(outbox'[t], x) => Carries(outbox[t], x)
          /\ Carries(inbox'[t], "ack") => Carries(inbox[t], "ack")
    BY <1>1, <1>2, <2>2, <2>3
  <2>5. \A t \in Socket :
          conn' = t /\ Carries(outbox[t], Decommission) =>
            told' \/ Carries(outbox'[t], Decommission)
    BY <1>1, <1>2, <1>3, <2>2
  <2>6. \A t \in Socket :
          Carries(inbox'[t], "heartbeat") =>
            \/ Carries(inbox[t], "heartbeat")
            \/ Carries(outbox[t], Decommission) \/ Carries(outbox[t], SessionState)
    BY <1>1, <1>2, <2>1, <2>2
  <2>7. told' => told \/ Carries(outbox[conn], Decommission)
    BY <1>2, <1>3
  <2> QED BY <1>1, <1>3, <2>2, <2>4, <2>5, <2>6, <2>7
<1> QED BY <1>4, <1>5

(* The server takes the first message of the agent.                        *)
LEMMA Arrives ==
  ASSUME TypeOK, NEW s \in Socket, ReceiveMessage(s)
  PROVE  /\ \A t \in Socket :
              /\ \A m : Carries(inbox'[t], m) => Carries(inbox[t], m)
              /\ inbox[t] = <<>> => inbox'[t] = <<>>
         /\ finalizing' = "asked" => finalizing = "asked" \/ Carries(inbox[s], "ack")
PROOF
<1>1. /\ inbox[s] # <<>> /\ inbox[s] \in Seq({"ack", "heartbeat"})
      /\ inbox \in [Socket -> Seq({"ack", "heartbeat"})]
      /\ inbox' = [inbox EXCEPT ![s] = Tail(inbox[s])]
      /\ finalizing' = "asked" => finalizing = "asked" \/ Head(inbox[s]) = "ack"
  BY DEF ReceiveMessage, TypeOK
<1>2. \A x : Carries(inbox[s], x) <=>
               Head(inbox[s]) = x \/ Carries(Tail(inbox[s]), x)
  BY <1>1, TailCarries
<1> QED BY <1>1, <1>2

(* A command is acknowledged on the connection there is.                   *)
LEMMA Acknowledges ==
  ASSUME TypeOK, HandleCommand
  PROVE  /\ conn \in Socket /\ command
         /\ \A t \in Socket :
              /\ conn # t => inbox'[t] = inbox[t]
              /\ Carries(inbox'[t], "heartbeat") => Carries(inbox[t], "heartbeat")
PROOF
<1>1. /\ conn \in Socket /\ command /\ inbox[conn] \in Seq({"ack", "heartbeat"})
      /\ inbox \in [Socket -> Seq({"ack", "heartbeat"})]
      /\ inbox' = [inbox EXCEPT ![conn] = Append(inbox[conn], "ack")]
  BY DEF HandleCommand, TypeOK
<1>2. \A x : Carries(Append(inbox[conn], "ack"), x) <=>
               Carries(inbox[conn], x) \/ "ack" = x
  BY <1>1, AppendCarries
<1> QED BY <1>1, <1>2

(* A new connection starts with the acknowledgement, if one is due.        *)
LEMMA Connects ==
  ASSUME TypeOK, NEW s \in Socket, Connect(s)
  PROVE  /\ conn = NoSocket /\ conn' = s
         /\ gateway[s] = "none" /\ gateway' = [gateway EXCEPT ![s] = "opened"]
         /\ ready[s] = "none" /\ ready' = [ready EXCEPT ![s] = "open"]
         /\ (acking' => acking \/ command) /\ ~command'
         /\ \A t \in Socket :
              /\ s # t => inbox'[t] = inbox[t]
              /\ Carries(inbox'[t], "ack") => Carries(inbox[t], "ack") \/ acking \/ command
         /\ ~Carries(inbox'[s], "heartbeat")
         /\ UNCHANGED <<row, usable, registry, outbox, request, finalizing,
                        released, told>>
PROOF
<1>1. /\ inbox \in [Socket -> Seq({"ack", "heartbeat"})]
      /\ inbox' = [inbox EXCEPT ![s] = SentFirst]
  BY DEF Connect, TypeOK
<1>2. /\ ~Carries(SentFirst, "heartbeat")
      /\ Carries(SentFirst, "ack") => acking \/ command
  BY DEF Carries, SentFirst
<1>3. /\ \A t \in Socket :
           /\ s # t => inbox'[t] = inbox[t]
           /\ Carries(inbox'[t], "ack") => Carries(inbox[t], "ack") \/ acking \/ command
      /\ ~Carries(inbox'[s], "heartbeat")
  BY <1>1, <1>2
<1> QED BY <1>3 DEF Connect

(* A dead connection leaves the queue to the server empty.                 *)
LEMMA Departs ==
  ASSUME TypeOK, NEW s \in Socket, HandleDisconnect(s)
  PROVE  /\ conn # s /\ ready[s] \in {"open", "closing"}
         /\ ready' = [ready EXCEPT ![s] = "closed"]
         /\ inbox'[s] = <<>>
         /\ \A t \in Socket :
              /\ s # t => inbox'[t] = inbox[t]
              /\ \A m : Carries(inbox'[t], m) => Carries(inbox[t], m)
         /\ registry' \in {registry, NoSocket}
         /\ registry' # s \/ gateway[s] \notin Listening
         /\ registry # s => registry' = registry
         /\ UNCHANGED <<row, usable, gateway, outbox, request, finalizing, conn,
                        released, told, command, acking>>
PROOF
<1>1. /\ inbox \in [Socket -> Seq({"ack", "heartbeat"})]
      /\ inbox' = [inbox EXCEPT ![s] = <<>>]
  BY DEF HandleDisconnect, TypeOK
<1>2. /\ inbox'[s] = <<>>
      /\ \A t \in Socket :
           /\ s # t => inbox'[t] = inbox[t]
           /\ \A m : Carries(inbox'[t], m) => Carries(inbox[t], m)
  BY <1>1, NothingCarried
<1>3. registry' \in {registry, NoSocket} /\ (registry # s => registry' = registry)
  BY DEF HandleDisconnect, UnregisterAgent
<1>4. registry' # s \/ gateway[s] \notin Listening
  BY RemovalAssumption DEF HandleDisconnect, UnregisterAgent
<1> QED BY <1>2, <1>3, <1>4 DEF HandleDisconnect, agent

(* Losing a connection empties the queues at the agent's end.              *)
LEMMA Drops ==
  ASSUME TypeOK, Wired, DropConnection
  PROVE  /\ conn' = NoSocket
         /\ \A t \in Socket :
              /\ outbox'[t] = <<>>
              /\ inbox'[t] \in {inbox[t], <<>>}
              /\ \A m : Carries(inbox'[t], m) => Carries(inbox[t], m)
PROOF
<1>1. /\ inbox \in [Socket -> Seq({"ack", "heartbeat"})]
      /\ outbox \in [Socket -> Seq(ServerMessage)]
  BY DEF TypeOK
<1>2. conn' = NoSocket
  BY DEF DropConnection
<1>3. \A t \in Socket : outbox'[t] = <<>>
  BY <1>1, RemovalAssumption DEF DropConnection, Wired
<1>4. \A t \in Socket : inbox'[t] \in {inbox[t], <<>>}
  BY <1>1 DEF DropConnection
<1> QED BY <1>2, <1>3, <1>4, NothingCarried

(* The end of the API process ends every connection and every handler.     *)
LEMMA Ends ==
  ASSUME ApiEnds
  PROVE  /\ registry' = NoSocket /\ conn' = NoSocket
         /\ \A s \in Socket :
              /\ gateway'[s] = "none" /\ ready'[s] = "none"
              /\ inbox'[s] = <<>> /\ outbox'[s] = <<>>
         /\ \A o \in Operator : request'[o] = "idle"
         /\ finalizing' = "no" /\ ~revoking'
         /\ UNCHANGED <<row, usable, released, told, command, acking>>
BY DEF ApiEnds

-----------------------------------------------------------------------------
(* Every step keeps every part of the invariant.                           *)

(* At most one authenticated connection stays open, and it is registered.  *)
LEMMA OpenIsRegisteredStep ==
  ASSUME TypeOK, OpenIsRegistered, [Next]_vars
  PROVE  OpenIsRegistered'
PROOF
<1> USE DEF OpenIsRegistered, Control, Listening
<1> USE ControlTypes, RemovalAssumption, NothingCarried
<1>1. ASSUME UNCHANGED <<gateway, ready, registry>> PROVE OpenIsRegistered'
  BY <1>1
<1>2. ASSUME NEW s \in Socket, VerifyCredential(s) PROVE OpenIsRegistered'
  BY <1>2 DEF VerifyCredential, GatewayStep, agent
<1>3. ASSUME NEW s \in Socket, Reject(s) PROVE OpenIsRegistered'
  BY <1>3, Rejects DEF OnlyCloses
<1>4. ASSUME NEW s \in Socket, Accept(s) PROVE OpenIsRegistered'
  BY <1>4, Registers DEF Accept, GatewayStep, agent, OnlyCloses
<1>5. ASSUME NEW s \in Socket, RecordHeartbeat(s) PROVE OpenIsRegistered'
  BY <1>5, Ends DEF RecordHeartbeat, GatewayStep, agent
<1>6. ASSUME NEW s \in Socket, IsPendingDecommission(s) PROVE OpenIsRegistered'
  BY <1>6 DEF IsPendingDecommission, GatewayStep, agent
<1>7. ASSUME NEW s \in Socket, Greet(s) PROVE OpenIsRegistered'
  BY <1>7, Sends DEF Greet, agent
<1>8. ASSUME NEW s \in Socket, HandleDisconnect(s) PROVE OpenIsRegistered'
  BY <1>8, Departs
<1>9. ASSUME NEW s \in Socket, Forget(s) PROVE OpenIsRegistered'
  BY <1>9 DEF Forget, agent
<1>10. ASSUME NEW s \in Socket, HeartbeatOfRemoved(s) PROVE OpenIsRegistered'
  BY <1>10, Ends DEF HeartbeatOfRemoved
<1>11. ASSUME NEW o \in Operator, HardDelete(o) PROVE OpenIsRegistered'
  BY <1>11, Disconnects DEF HardDelete, RequestStep, agent, OnlyCloses
<1>12. ASSUME CloseFinalized PROVE OpenIsRegistered'
  BY <1>12, Disconnects DEF CloseFinalized, agent, OnlyCloses
<1>13. ASSUME CloseRevoked PROVE OpenIsRegistered'
  BY <1>13, Disconnects DEF CloseRevoked, agent, OnlyCloses
<1>14. ASSUME NEW s \in Socket, Connect(s) PROVE OpenIsRegistered'
  BY <1>14, Connects
<1>15. ASSUME ApiRestarts PROVE OpenIsRegistered'
  BY <1>15, Ends DEF ApiRestarts
<1>16. ASSUME \/ \E s \in Socket : ReceiveMessage(s)
              \/ \E o \in Operator : ReadMachine(o) \/ DeleteRow(o) \/ MarkPending(o) \/ Tell(o)
              \/ DeleteIfPending \/ Revoke \/ HandleCommand \/ AgentReceive
              \/ OnDecommission \/ Start \/ LoseConnection \/ AgentStops
      PROVE  OpenIsRegistered'
  BY <1>1, <1>16
     DEF ReceiveMessage, ReadMachine, DeleteRow, MarkPending, Tell,
         DeleteIfPending, Revoke, HandleCommand, AgentReceive, OnDecommission,
         Start, LoseConnection, AgentStops, RequestStep, agent, api
<1> QED
  BY <1>1, <1>2, <1>3, <1>4, <1>5, <1>6, <1>7, <1>8, <1>9, <1>10, <1>11,
     <1>12, <1>13, <1>14, <1>15, <1>16
     DEF Next, Handshake, SocketStep, FinishRequest, ServiceStep, ClientStep,
         vars

(* Queues are filled only while both ends, or the agent's, are there.      *)
LEMMA WiredStep ==
  ASSUME TypeOK, Wired, [Next]_vars
  PROVE  Wired'
PROOF
<1> USE DEF Wired, Control, Listening
<1> USE ControlTypes, RemovalAssumption, NothingCarried
<1>1. ASSUME UNCHANGED <<conn, ready, outbox, inbox>> PROVE Wired'
  BY <1>1
<1>2. ASSUME NEW s \in Socket, Reject(s) PROVE Wired'
  BY <1>2, Rejects DEF OnlyCloses
<1>3. ASSUME NEW s \in Socket, Accept(s) PROVE Wired'
  BY <1>3, Registers DEF Accept, GatewayStep, agent, OnlyCloses
<1>4. ASSUME NEW s \in Socket, RecordHeartbeat(s) PROVE Wired'
  BY <1>4, Ends DEF RecordHeartbeat, GatewayStep, agent
<1>5. ASSUME NEW s \in Socket, Greet(s) PROVE Wired'
  BY <1>5, Sends DEF Greet, agent
<1>6. ASSUME NEW s \in Socket, HandleDisconnect(s) PROVE Wired'
  BY <1>6, Departs
<1>7. ASSUME NEW s \in Socket, Forget(s) PROVE Wired'
  BY <1>7 DEF Forget, agent
<1>8. ASSUME NEW s \in Socket, ReceiveMessage(s) PROVE Wired'
  BY <1>8, Arrives DEF ReceiveMessage, agent
<1>9. ASSUME NEW s \in Socket, HeartbeatOfRemoved(s) PROVE Wired'
  BY <1>9, Ends DEF HeartbeatOfRemoved
<1>10. ASSUME NEW o \in Operator, HardDelete(o) PROVE Wired'
  BY <1>10, Disconnects DEF HardDelete, RequestStep, agent, OnlyCloses
<1>11. ASSUME NEW o \in Operator, Tell(o) PROVE Wired'
  BY <1>11, Sends DEF Tell, RequestStep, agent
<1>12. ASSUME CloseFinalized PROVE Wired'
  BY <1>12, Disconnects DEF CloseFinalized, agent, OnlyCloses
<1>13. ASSUME CloseRevoked PROVE Wired'
  BY <1>13, Disconnects DEF CloseRevoked, agent, OnlyCloses
<1>14. ASSUME NEW s \in Socket, Connect(s) PROVE Wired'
  BY <1>14, Connects
<1>15. ASSUME HandleCommand PROVE Wired'
  BY <1>15, Acknowledges DEF HandleCommand, api
<1>16. ASSUME AgentReceive PROVE Wired'
  BY <1>16, Receives DEF AgentReceive, api
<1>17. ASSUME LoseConnection PROVE Wired'
  BY <1>17, Drops DEF LoseConnection, api
<1>18. ASSUME AgentStops PROVE Wired'
  BY <1>18, Drops DEF AgentStops, api
<1>19. ASSUME ApiRestarts PROVE Wired'
  BY <1>19, Ends DEF ApiRestarts
<1>20. ASSUME \/ \E s \in Socket : VerifyCredential(s) \/ IsPendingDecommission(s)
              \/ \E o \in Operator : ReadMachine(o) \/ DeleteRow(o) \/ MarkPending(o)
              \/ DeleteIfPending \/ Revoke \/ OnDecommission \/ Start
      PROVE  Wired'
  BY <1>1, <1>20
     DEF VerifyCredential, IsPendingDecommission, ReadMachine, DeleteRow,
         MarkPending, DeleteIfPending, Revoke, OnDecommission, Start,
         GatewayStep, RequestStep, agent, api
<1> QED
  BY <1>1, <1>2, <1>3, <1>4, <1>5, <1>6, <1>7, <1>8, <1>9, <1>10, <1>11,
     <1>12, <1>13, <1>14, <1>15, <1>16, <1>17, <1>18, <1>19, <1>20
     DEF Next, Handshake, SocketStep, FinishRequest, ServiceStep, ClientStep,
         vars

(* The server sends only from where it listens.                            *)
LEMMA HeardStep ==
  ASSUME TypeOK, Heard, Wired, [Next]_vars
  PROVE  Heard'
PROOF
<1> USE DEF Heard, Control, Listening
<1> USE ControlTypes, RemovalAssumption, NothingCarried
<1>1. ASSUME UNCHANGED <<registry, gateway, outbox>> PROVE Heard'
  BY <1>1
<1>2. ASSUME NEW s \in Socket, VerifyCredential(s) PROVE Heard'
  BY <1>2 DEF VerifyCredential, GatewayStep, agent
<1>3. ASSUME NEW s \in Socket, Reject(s) PROVE Heard'
  BY <1>3, Rejects DEF OnlyCloses
<1>4. ASSUME NEW s \in Socket, Accept(s) PROVE Heard'
  BY <1>4, Registers DEF Accept, GatewayStep, agent, OnlyCloses
<1>5. ASSUME NEW s \in Socket, RecordHeartbeat(s) PROVE Heard'
  BY <1>5, Ends DEF RecordHeartbeat, GatewayStep, agent
<1>6. ASSUME NEW s \in Socket, IsPendingDecommission(s) PROVE Heard'
  BY <1>6 DEF IsPendingDecommission, GatewayStep, agent
<1>7. ASSUME NEW s \in Socket, Greet(s) PROVE Heard'
  BY <1>7, Sends DEF Greet, agent
<1>8. ASSUME NEW s \in Socket, HandleDisconnect(s) PROVE Heard'
  BY <1>8, Departs
<1>9. ASSUME NEW s \in Socket, Forget(s) PROVE Heard'
  BY <1>9 DEF Forget, agent, Wired
<1>10. ASSUME NEW s \in Socket, HeartbeatOfRemoved(s) PROVE Heard'
  BY <1>10, Ends DEF HeartbeatOfRemoved
<1>11. ASSUME NEW o \in Operator, HardDelete(o) PROVE Heard'
  BY <1>11, Disconnects DEF HardDelete, RequestStep, agent, OnlyCloses
<1>12. ASSUME NEW o \in Operator, Tell(o) PROVE Heard'
  BY <1>12, Sends DEF Tell, RequestStep, agent
<1>13. ASSUME CloseFinalized PROVE Heard'
  BY <1>13, Disconnects DEF CloseFinalized, agent, OnlyCloses
<1>14. ASSUME CloseRevoked PROVE Heard'
  BY <1>14, Disconnects DEF CloseRevoked, agent, OnlyCloses
<1>15. ASSUME NEW s \in Socket, Connect(s) PROVE Heard'
  BY <1>15, Connects
<1>16. ASSUME AgentReceive PROVE Heard'
  BY <1>16, Receives DEF AgentReceive, api
<1>17. ASSUME LoseConnection PROVE Heard'
  BY <1>17, Drops DEF LoseConnection, api
<1>18. ASSUME AgentStops PROVE Heard'
  BY <1>18, Drops DEF AgentStops, api
<1>19. ASSUME ApiRestarts PROVE Heard'
  BY <1>19, Ends DEF ApiRestarts
<1>20. ASSUME \/ \E s \in Socket : ReceiveMessage(s)
              \/ \E o \in Operator : ReadMachine(o) \/ DeleteRow(o) \/ MarkPending(o)
              \/ DeleteIfPending \/ Revoke \/ HandleCommand \/ OnDecommission
              \/ Start
      PROVE  Heard'
  BY <1>1, <1>20
     DEF ReceiveMessage, ReadMachine, DeleteRow, MarkPending, DeleteIfPending,
         Revoke, HandleCommand, OnDecommission, Start, RequestStep, agent, api
<1> QED
  BY <1>1, <1>2, <1>3, <1>4, <1>5, <1>6, <1>7, <1>8, <1>9, <1>10, <1>11,
     <1>12, <1>13, <1>14, <1>15, <1>16, <1>17, <1>18, <1>19, <1>20
     DEF Next, Handshake, SocketStep, FinishRequest, ServiceStep, ClientStep,
         vars

(* The first heartbeat answers a message of the server.                    *)
LEMMA HelloIsHeardStep ==
  ASSUME TypeOK, HelloIsHeard, Heard, Wired, [Next]_vars
  PROVE  HelloIsHeard'
PROOF
<1> USE DEF HelloIsHeard, Control, Listening
<1> USE ControlTypes, RemovalAssumption, NothingCarried
<1>1. ASSUME UNCHANGED <<inbox, gateway>> PROVE HelloIsHeard'
  BY <1>1
<1>2. ASSUME NEW s \in Socket, VerifyCredential(s) PROVE HelloIsHeard'
  BY <1>2 DEF VerifyCredential, GatewayStep, agent
<1>3. ASSUME NEW s \in Socket, Reject(s) PROVE HelloIsHeard'
  BY <1>3, Rejects DEF OnlyCloses
<1>4. ASSUME NEW s \in Socket, Accept(s) PROVE HelloIsHeard'
  BY <1>4, Registers DEF Accept, GatewayStep, agent, OnlyCloses
<1>5. ASSUME NEW s \in Socket, RecordHeartbeat(s) PROVE HelloIsHeard'
  BY <1>5, Ends DEF RecordHeartbeat, GatewayStep, agent
<1>6. ASSUME NEW s \in Socket, IsPendingDecommission(s) PROVE HelloIsHeard'
  BY <1>6 DEF IsPendingDecommission, GatewayStep, agent
<1>7. ASSUME NEW s \in Socket, Greet(s) PROVE HelloIsHeard'
  BY <1>7, Sends DEF Greet, agent
<1>8. ASSUME NEW s \in Socket, HandleDisconnect(s) PROVE HelloIsHeard'
  BY <1>8, Departs
<1>9. ASSUME NEW s \in Socket, Forget(s) PROVE HelloIsHeard'
  BY <1>9 DEF Forget, agent, Wired
<1>10. ASSUME NEW s \in Socket, ReceiveMessage(s) PROVE HelloIsHeard'
  BY <1>10, Arrives DEF ReceiveMessage, agent
<1>11. ASSUME NEW s \in Socket, HeartbeatOfRemoved(s) PROVE HelloIsHeard'
  BY <1>11, Ends DEF HeartbeatOfRemoved
<1>12. ASSUME NEW s \in Socket, Connect(s) PROVE HelloIsHeard'
  BY <1>12, Connects
<1>13. ASSUME HandleCommand PROVE HelloIsHeard'
  BY <1>13, Acknowledges DEF HandleCommand, api
<1>14. ASSUME AgentReceive PROVE HelloIsHeard'
  BY <1>14, Receives DEF AgentReceive, api, Heard
<1>15. ASSUME LoseConnection PROVE HelloIsHeard'
  BY <1>15, Drops DEF LoseConnection, api
<1>16. ASSUME AgentStops PROVE HelloIsHeard'
  BY <1>16, Drops DEF AgentStops, api
<1>17. ASSUME ApiRestarts PROVE HelloIsHeard'
  BY <1>17, Ends DEF ApiRestarts
<1>18. ASSUME \/ \E o \in Operator : ReadMachine(o) \/ HardDelete(o) \/ DeleteRow(o) \/ MarkPending(o) \/ Tell(o)
              \/ DeleteIfPending \/ CloseFinalized \/ Revoke \/ CloseRevoked
              \/ OnDecommission \/ Start
      PROVE  HelloIsHeard'
  BY <1>1, <1>18
     DEF ReadMachine, HardDelete, DeleteRow, MarkPending, Tell,
         DeleteIfPending, CloseFinalized, Revoke, CloseRevoked,
         OnDecommission, Start, RequestStep, agent, api
<1> QED
  BY <1>1, <1>2, <1>3, <1>4, <1>5, <1>6, <1>7, <1>8, <1>9, <1>10, <1>11,
     <1>12, <1>13, <1>14, <1>15, <1>16, <1>17, <1>18
     DEF Next, Handshake, SocketStep, FinishRequest, ServiceStep, ClientStep,
         vars

(* Only a requested removal is accepted, and only an accepted one          *)
(* acknowledged.                                                           *)
LEMMA HonestStep ==
  ASSUME TypeOK, Honest, Wired, [Next]_vars
  PROVE  Honest'
PROOF
<1> USE DEF Honest, Control, Listening
<1> USE ControlTypes, RemovalAssumption, NothingCarried
<1>1. ASSUME UNCHANGED <<command, acking, finalizing, inbox, released,
                        told, row, outbox, gateway, request, usable>>
      PROVE  Honest'
  BY <1>1
<1>2. ASSUME NEW s \in Socket, VerifyCredential(s) PROVE Honest'
  BY <1>2 DEF VerifyCredential, GatewayStep, agent
<1>3. ASSUME NEW s \in Socket, Reject(s) PROVE Honest'
  BY <1>3, Rejects DEF OnlyCloses
<1>4. ASSUME NEW s \in Socket, Accept(s) PROVE Honest'
  BY <1>4, Registers DEF Accept, GatewayStep, agent, OnlyCloses
<1>5. ASSUME NEW s \in Socket, RecordHeartbeat(s) PROVE Honest'
  BY <1>5, Ends DEF RecordHeartbeat, GatewayStep, agent
<1>6. ASSUME NEW s \in Socket, IsPendingDecommission(s) PROVE Honest'
  BY <1>6 DEF IsPendingDecommission, GatewayStep, agent
<1>7. ASSUME NEW s \in Socket, Greet(s) PROVE Honest'
  <2>1. CASE gateway[s] = "pending"
    <3>1. SendTo(s, Decommission) /\ row # "managed"
      BY <1>7, <2>1 DEF Greet
    <3> QED BY <1>7, <2>1, <3>1, Sends DEF Greet, agent
  <2>2. CASE gateway[s] = "managed"
    <3>1. SendTo(s, SessionState) /\ SessionState # Decommission
      BY <1>7, <2>2, Messages DEF Greet
    <3> QED BY <1>7, <2>2, <3>1, Sends DEF Greet, agent
  <2> QED BY <1>7, <2>1, <2>2 DEF Greet
<1>8. ASSUME NEW s \in Socket, HandleDisconnect(s) PROVE Honest'
  BY <1>8, Departs
<1>9. ASSUME NEW s \in Socket, Forget(s) PROVE Honest'
  BY <1>9 DEF Forget, agent
<1>10. ASSUME NEW s \in Socket, ReceiveMessage(s) PROVE Honest'
  BY <1>10, Arrives DEF ReceiveMessage, agent
<1>11. ASSUME NEW s \in Socket, HeartbeatOfRemoved(s) PROVE Honest'
  BY <1>11, Ends DEF HeartbeatOfRemoved
<1>12. ASSUME NEW o \in Operator, ReadMachine(o) PROVE Honest'
  BY <1>12 DEF ReadMachine, RequestStep, agent
<1>13. ASSUME NEW o \in Operator, HardDelete(o) PROVE Honest'
  BY <1>13, Disconnects DEF HardDelete, RequestStep, agent, OnlyCloses
<1>14. ASSUME NEW o \in Operator, DeleteRow(o) PROVE Honest'
  BY <1>14 DEF DeleteRow, RequestStep, agent
<1>15. ASSUME NEW o \in Operator, MarkPending(o) PROVE Honest'
  BY <1>15 DEF MarkPending, RequestStep, agent
<1>16. ASSUME NEW o \in Operator, Tell(o) PROVE Honest'
  BY <1>16, Sends DEF Tell, RequestStep, agent
<1>17. ASSUME DeleteIfPending PROVE Honest'
  BY <1>17 DEF DeleteIfPending, agent
<1>18. ASSUME CloseFinalized PROVE Honest'
  BY <1>18, Disconnects DEF CloseFinalized, agent, OnlyCloses
<1>19. ASSUME Revoke PROVE Honest'
  BY <1>19 DEF Revoke, agent
<1>20. ASSUME CloseRevoked PROVE Honest'
  BY <1>20, Disconnects DEF CloseRevoked, agent, OnlyCloses
<1>21. ASSUME NEW s \in Socket, Connect(s) PROVE Honest'
  BY <1>21, Connects
<1>22. ASSUME HandleCommand PROVE Honest'
  BY <1>22, Acknowledges DEF HandleCommand, api
<1>23. ASSUME AgentReceive PROVE Honest'
  BY <1>23, Receives DEF AgentReceive, api
<1>24. ASSUME OnDecommission PROVE Honest'
  BY <1>24 DEF OnDecommission, api
<1>25. ASSUME Start PROVE Honest'
  BY <1>25 DEF Start, api
<1>26. ASSUME LoseConnection PROVE Honest'
  BY <1>26, Drops DEF LoseConnection, api
<1>27. ASSUME AgentStops PROVE Honest'
  BY <1>27, Drops DEF AgentStops, api
<1>28. ASSUME ApiRestarts PROVE Honest'
  BY <1>28, Ends DEF ApiRestarts
<1> QED
  BY <1>1, <1>2, <1>3, <1>4, <1>5, <1>6, <1>7, <1>8, <1>9, <1>10, <1>11,
     <1>12, <1>13, <1>14, <1>15, <1>16, <1>17, <1>18, <1>19, <1>20, <1>21,
     <1>22, <1>23, <1>24, <1>25, <1>26, <1>27, <1>28
     DEF Next, Handshake, SocketStep, FinishRequest, ServiceStep, ClientStep,
         vars

(* The instruction is not lost between the request and the greeting.       *)
LEMMA InstructedStep ==
  ASSUME TypeOK, Instructed, OpenIsRegistered, Heard, Wired, [Next]_vars
  PROVE  Instructed'
PROOF
<1> USE DEF Instructed, Control, Listening
<1> USE ControlTypes, RemovalAssumption, NothingCarried
<1>1. ASSUME UNCHANGED <<row, conn, ready, gateway, released, told, outbox,
                        request>>
      PROVE  Instructed'
  BY <1>1
<1>2. ASSUME NEW s \in Socket, VerifyCredential(s) PROVE Instructed'
  BY <1>2 DEF VerifyCredential, GatewayStep, agent
<1>3. ASSUME NEW s \in Socket, Reject(s) PROVE Instructed'
  BY <1>3, Rejects DEF OnlyCloses
<1>4. ASSUME NEW s \in Socket, Accept(s) PROVE Instructed'
  BY <1>4, Registers DEF Accept, GatewayStep, agent, OnlyCloses
<1>5. ASSUME NEW s \in Socket, RecordHeartbeat(s) PROVE Instructed'
  BY <1>5, Ends DEF RecordHeartbeat, GatewayStep, agent
<1>6. ASSUME NEW s \in Socket, IsPendingDecommission(s) PROVE Instructed'
  BY <1>6 DEF IsPendingDecommission, GatewayStep, agent
<1>7. ASSUME NEW s \in Socket, Greet(s) PROVE Instructed'
  BY <1>7, Sends DEF Greet, agent
<1>8. ASSUME NEW s \in Socket, HandleDisconnect(s) PROVE Instructed'
  BY <1>8, Departs
<1>9. ASSUME NEW s \in Socket, Forget(s) PROVE Instructed'
  BY <1>9 DEF Forget, agent
<1>10. ASSUME NEW s \in Socket, HeartbeatOfRemoved(s) PROVE Instructed'
  BY <1>10, Ends DEF HeartbeatOfRemoved
<1>11. ASSUME NEW o \in Operator, ReadMachine(o) PROVE Instructed'
  BY <1>11 DEF ReadMachine, RequestStep, agent
<1>12. ASSUME NEW o \in Operator, HardDelete(o) PROVE Instructed'
  BY <1>12, Disconnects DEF HardDelete, RequestStep, agent, OnlyCloses
<1>13. ASSUME NEW o \in Operator, DeleteRow(o) PROVE Instructed'
  BY <1>13 DEF DeleteRow, RequestStep, agent
<1>14. ASSUME NEW o \in Operator, MarkPending(o) PROVE Instructed'
  BY <1>14 DEF MarkPending, RequestStep, agent
<1>15. ASSUME NEW o \in Operator, Tell(o) PROVE Instructed'
  <2>1. /\ SendTo(registry, Decommission)
        /\ UNCHANGED <<row, gateway, ready, conn, released, told>>
    BY <1>15 DEF Tell, agent
  <2>2. registry \in Socket \cup {NoSocket}
    OBVIOUS
  <2>3. \A t \in Socket : Carries(outbox[t], Decommission) =>
                            Carries(outbox'[t], Decommission)
    BY <2>1, <2>2, Sends
  <2>4. \A t \in Socket : t = registry /\ ready[t] = "open" /\ conn = t =>
                            Carries(outbox'[t], Decommission)
    BY <2>1, <2>2, Sends
  <2>5. \A t \in Socket : ready[t] = "open" /\ gateway[t] \in {"managed", "done"} =>
                            t = registry
    BY DEF OpenIsRegistered
  <2> QED BY <2>1, <2>3, <2>4, <2>5
<1>16. ASSUME DeleteIfPending PROVE Instructed'
  BY <1>16 DEF DeleteIfPending, agent
<1>17. ASSUME CloseFinalized PROVE Instructed'
  BY <1>17, Disconnects DEF CloseFinalized, agent, OnlyCloses
<1>18. ASSUME CloseRevoked PROVE Instructed'
  BY <1>18, Disconnects DEF CloseRevoked, agent, OnlyCloses
<1>19. ASSUME NEW s \in Socket, Connect(s) PROVE Instructed'
  BY <1>19, Connects
<1>20. ASSUME AgentReceive PROVE Instructed'
  BY <1>20, Receives DEF AgentReceive, api
<1>21. ASSUME OnDecommission PROVE Instructed'
  BY <1>21 DEF OnDecommission, api
<1>22. ASSUME LoseConnection PROVE Instructed'
  BY <1>22, Drops DEF LoseConnection, api
<1>23. ASSUME AgentStops PROVE Instructed'
  BY <1>23, Drops DEF AgentStops, api
<1>24. ASSUME ApiRestarts PROVE Instructed'
  BY <1>24, Ends DEF ApiRestarts
<1>25. ASSUME \/ \E s \in Socket : ReceiveMessage(s)
              \/ Revoke \/ HandleCommand \/ Start
      PROVE  Instructed'
  BY <1>1, <1>25 DEF ReceiveMessage, Revoke, HandleCommand, Start, agent, api
<1> QED
  BY <1>1, <1>2, <1>3, <1>4, <1>5, <1>6, <1>7, <1>8, <1>9, <1>10, <1>11,
     <1>12, <1>13, <1>14, <1>15, <1>16, <1>17, <1>18, <1>19, <1>20, <1>21,
     <1>22, <1>23, <1>24, <1>25
     DEF Next, Handshake, SocketStep, FinishRequest, ServiceStep, ClientStep,
         vars

(* Hence every step keeps the invariant.                                   *)
LEMMA InvStep == Inv /\ [Next]_vars => Inv'
BY TypeStep, OpenIsRegisteredStep, WiredStep, HeardStep, HelloIsHeardStep,
   HonestStep, InstructedStep DEF Inv

(* The invariant holds in every run.                                       *)
LEMMA Invariance == Spec => []Inv
PROOF
<1>1. Init => Inv
  BY InitInv
<1>2. Inv /\ [Next]_vars => Inv'
  BY InvStep
<1> QED BY <1>1, <1>2, PTL DEF Spec

-----------------------------------------------------------------------------
(* What the specification promises.                                        *)

(* Every variable keeps its type.                                          *)
THEOREM TypeCorrect == Spec => []TypeOK
PROOF
<1>1. Inv => TypeOK
  BY DEF Inv
<1> QED BY <1>1, Invariance, PTL

(* "There's only ever one authoritative socket per machine" of the         *)
(* connection registry: with any number of overlapping connections, an     *)
(* authenticated open one is the one pushes go to.                         *)
THEOREM OneAuthoritativeSocket == Spec => []OpenIsRegistered
PROOF
<1>1. Inv => OpenIsRegistered
  BY DEF Inv
<1> QED BY <1>1, Invariance, PTL

(* requestDecommission's message is never lost between the request and     *)
(* the handshake, however many operators ask and sockets overlap.          *)
THEOREM InstructionGetsThrough == Spec => []InstructionNotMissed
PROOF
<1>1. Inv => InstructionNotMissed
  BY DEF Inv, Instructed, InstructionNotMissed
<1> QED BY <1>1, Invariance, PTL

(* The agent's first heartbeat on a connection finds the listener of       *)
(* handleConnection attached.                                              *)
THEOREM FirstHeartbeatHeard == Spec => []HelloIsHeard
PROOF
<1>1. Inv => HelloIsHeard
  BY DEF Inv
<1> QED BY <1>1, Invariance, PTL

(* A step of Removal is one of the lifecycle, or does not touch it.        *)
LEMMA LifecycleStep ==
  ASSUME TypeOK, Honest, [Next]_vars
  PROVE  [Lifecycle!Next]_(Lifecycle!vars)
PROOF
<1> USE DEF Lifecycle!Next, Lifecycle!vars, Lifecycle!Request,
            Lifecycle!Release, Lifecycle!Finalize, Lifecycle!Revoke,
            Lifecycle!RemoveDirectly
<1>1. ASSUME UNCHANGED <<row, usable, released>>
      PROVE  [Lifecycle!Next]_(Lifecycle!vars)
  BY <1>1
<1>2. ASSUME NEW o \in Operator, DeleteRow(o)
      PROVE  [Lifecycle!Next]_(Lifecycle!vars)
  BY <1>2, ControlTypes DEF DeleteRow, RequestStep, agent, Honest, Control
<1>3. ASSUME NEW o \in Operator, MarkPending(o)
      PROVE  [Lifecycle!Next]_(Lifecycle!vars)
  BY <1>3, ControlTypes DEF MarkPending, agent, Control
<1>4. ASSUME DeleteIfPending PROVE [Lifecycle!Next]_(Lifecycle!vars)
  BY <1>4 DEF DeleteIfPending, agent, Honest
<1>5. ASSUME Revoke PROVE [Lifecycle!Next]_(Lifecycle!vars)
  BY <1>5 DEF Revoke, agent
<1>6. ASSUME OnDecommission PROVE [Lifecycle!Next]_(Lifecycle!vars)
  BY <1>6, ControlTypes DEF OnDecommission, Honest, Control
<1>7. ASSUME \/ \E s \in Socket : Handshake(s) \/ SocketStep(s)
             \/ \E o \in Operator : ReadMachine(o) \/ HardDelete(o) \/ Tell(o)
             \/ CloseFinalized \/ CloseRevoked \/ ClientStep \/ Start
             \/ LoseConnection \/ AgentStops \/ ApiRestarts \/ UNCHANGED vars
      PROVE  UNCHANGED <<row, usable, released>>
  BY <1>7
     DEF Handshake, SocketStep, ClientStep, VerifyCredential, Reject, Accept,
         RecordHeartbeat, HeartbeatOfRemoved, IsPendingDecommission, Greet,
         HandleDisconnect, Forget, ReceiveMessage, ReadMachine, HardDelete, Tell,
         CloseFinalized, CloseRevoked, Connect, HandleCommand, AgentReceive,
         Start, LoseConnection, AgentStops, ApiRestarts, ApiEnds, agent, vars
<1> QED
  BY <1>1, <1>2, <1>3, <1>4, <1>5, <1>6, <1>7
     DEF Next, FinishRequest, ServiceStep

(* The hand-off of docs/enrollment.md: finalizeDecommission deletes only   *)
(* what its agent has durably let go of, and a usable credential is never  *)
(* removed directly, whatever is lost, repeated or restarted.              *)
THEOREM HandoffKept == Spec => KeepsLifecycle
PROOF
<1>1. Init => Lifecycle!Init
  BY DEF Init, Lifecycle!Init
<1>2. Inv /\ [Next]_vars => [Lifecycle!Next]_(Lifecycle!vars)
  BY LifecycleStep DEF Inv
<1> QED BY <1>1, <1>2, Invariance, PTL DEF Spec, KeepsLifecycle, Lifecycle!Spec

(* "Revocation is immediate": once revokeCredential has closed what the    *)
(* registry holds, no authenticated connection is open.                    *)
THEOREM RevocationDisconnects == Spec => RevokedIsDisconnected
PROOF
<1> DEFINE Gone ==
      revoking /\ ~revoking' =>
        \A s \in Socket : gateway'[s] \in Listening => ready'[s] # "open"
<1>1. Inv /\ [Next]_vars => Gone
  <2> SUFFICES ASSUME Inv, [Next]_vars PROVE Gone
    OBVIOUS
  <2>1. CASE CloseRevoked
    <3>1. TypeOK /\ OpenIsRegistered /\ DisconnectMachine(4001)
      BY <2>1 DEF Inv, CloseRevoked
    <3>2. registry' = NoSocket
      BY <3>1, Disconnects
    <3>3. OpenIsRegistered'
      BY <3>1, OpenIsRegisteredStep
    <3> QED BY <3>2, <3>3, RemovalAssumption DEF OpenIsRegistered
  <2>2. CASE ApiEnds
    BY <2>2, Ends
  <2>3. CASE ~CloseRevoked /\ ~ApiEnds
    <3>1. ASSUME NEW s \in Socket, Handshake(s) \/ SocketStep(s)
          PROVE  revoking' = revoking
      BY <2>3, <3>1
     DEF Handshake, SocketStep, VerifyCredential, Reject, Accept,
         RecordHeartbeat, HeartbeatOfRemoved, IsPendingDecommission, Greet,
         HandleDisconnect, Forget, ReceiveMessage
    <3>2. ASSUME NEW o \in Operator, ReadMachine(o) \/ FinishRequest(o)
          PROVE  revoking' = revoking
      BY <3>2 DEF FinishRequest, ReadMachine, HardDelete, DeleteRow,
                  MarkPending,
         Tell
    <3>3. ASSUME \/ ClientStep \/ OnDecommission \/ Start
                 \/ LoseConnection \/ AgentStops
          PROVE  revoking' = revoking
      BY <3>3 DEF ClientStep, Connect, HandleCommand, AgentReceive,
         OnDecommission, Start, LoseConnection, AgentStops, api
    <3>4. ASSUME DeleteIfPending \/ CloseFinalized
          PROVE  revoking' = revoking
      BY <3>4 DEF DeleteIfPending, CloseFinalized
    <3>5. ASSUME Revoke PROVE revoking'
      BY <3>5 DEF Revoke
    <3>6. revoking' = revoking \/ revoking'
      BY <2>3, <3>1, <3>2, <3>3, <3>4, <3>5
     DEF Next, ServiceStep, ApiRestarts, vars
    <3> QED BY <3>6, ControlTypes DEF Inv, Control
  <2> QED BY <2>1, <2>2, <2>3
<1>2. Spec => [][Gone]_vars
  BY <1>1, Invariance, PTL DEF Spec
<1> QED BY <1>2 DEF RevokedIsDisconnected
=============================================================================
