------------------------------ MODULE Removal ------------------------------
(***************************************************************************)
(* Removing a machine end to end: the operator's request and the finalizer *)
(* (machines.service.ts), the WebSocket gateway's handshake and message    *)
(* listener (realtime.gateway.ts), the connection registry                 *)
(* (connection-registry.service.ts), the network, the agent's connection   *)
(* task (agent/src/client.rs) and the part of its run loop that accepts a  *)
(* decommission (agent/src/main.rs, detailed in Agent).                    *)
(*                                                                         *)
(* The API is one Node process: a handler runs undisturbed from one await  *)
(* to the next, so a database call and the code after its await are two    *)
(* steps, and every other handler may run between them.  A heartbeat       *)
(* appears where it fails, and session_state without its contents.  One    *)
(* machine, enrolled at the start.                                         *)
(***************************************************************************)
EXTENDS Naturals, Sequences

CONSTANTS Socket,     \* connections that may exist at once
          NoSocket,
          Operator,   \* removal requests, one by each
          MayRevoke,  \* whether the credential may be revoked
          MaxFaults   \* bound of lost connections and restarts

ASSUME RemovalAssumption ==
  NoSocket \notin Socket /\ MayRevoke \in BOOLEAN /\ MaxFaults \in Nat

VARIABLES
  row,        \* the machine's row: "managed", "pending" or "removed"
  usable,     \* credentialHash set and credentialRevokedAt null
  registry,   \* the machine's entry in agentSockets, or NoSocket
  gateway,    \* per socket, how far handleConnection has come
  ready,      \* per socket, the server's readyState
  inbox,      \* per socket, what is under way to the server
  outbox,     \* per socket, what is under way to the agent
  request,    \* per operator, how far requestDecommission has come
  finalizing, \* finalizeDecommission: "no", "asked" or "deleted"
  revoking,   \* revokeCredential has updated the row
  running,    \* the agent process runs
  released,   \* `decommissioned`, in the state file and so in the loop
  told,       \* a Decommission event waits for the loop
  command,    \* an AckDecommission command waits for the client task
  acking,     \* `ack_decommission` of the client task
  client,     \* the client task: "trying" or "stopped"
  conn,       \* its connection, or NoSocket
  greeted,    \* a message of the server has come on it
  faults

api == <<registry, gateway, ready, request, finalizing, revoking>>
agent == <<running, released, told, command, acking, client, conn, greeted>>
vars == <<row, usable, registry, gateway, ready, inbox, outbox, request,
          finalizing, revoking, running, released, told, command, acking,
          client, conn, greeted, faults>>

(* What the server sends: two messages and the close frames.               *)
Decommission == [type |-> "decommission"]
SessionState == [type |-> "session_state"]
Close(code) == [type |-> "close", code |-> code]
ServerMessage == {Decommission, SessionState}
                   \cup {Close(code) : code \in {4000, 4001, 4002, 4003}}

(* The listener is attached when the credential was found valid.           *)
Listening == {"registered", "beaten", "pending", "managed", "done"}

Init ==
  /\ row = "managed" /\ usable = TRUE
  /\ registry = NoSocket
  /\ gateway = [s \in Socket |-> "none"]
  /\ ready = [s \in Socket |-> "none"]
  /\ inbox = [s \in Socket |-> <<>>]
  /\ outbox = [s \in Socket |-> <<>>]
  /\ request = [o \in Operator |-> "idle"]
  /\ finalizing = "no" /\ revoking = FALSE
  /\ running = TRUE /\ released = FALSE
  /\ told = FALSE /\ command = FALSE /\ acking = FALSE
  /\ client = "trying" /\ conn = NoSocket /\ greeted = FALSE
  /\ faults = 0

-----------------------------------------------------------------------------
(* Sockets and the registry.                                               *)

(* What is sent on a socket reaches an agent still at its other end.       *)
Sent(out, s, m) ==
  IF conn = s THEN [out EXCEPT ![s] = Append(@, m)] ELSE out

SendTo(s, m) ==
  outbox' = IF s # NoSocket /\ ready[s] = "open" THEN Sent(outbox, s, m)
                                                 ELSE outbox

(* registerAgent: a socket that is still open is replaced (and, to avoid   *)
(* two of them, closed).                                                   *)
RegisterWithoutClosing(s) ==
  /\ registry' = s
  /\ UNCHANGED <<ready, outbox>>

RegisterAgent(s) ==
  /\ registry' = s
  /\ IF registry \notin {s, NoSocket} /\ ready[registry] = "open"
       THEN /\ ready' = [ready EXCEPT ![registry] = "closing"]
            /\ outbox' = Sent(outbox, registry, Close(4000))
       ELSE UNCHANGED <<ready, outbox>>

(* unregisterAgent: only the entry of this very socket goes, not one that  *)
(* has replaced it.                                                        *)
UnregisterWhateverIsThere(s) == registry' = NoSocket

UnregisterAgent(s) == registry' = IF registry = s THEN NoSocket ELSE registry

(* disconnectMachine.                                                      *)
DisconnectMachine(code) ==
  /\ registry' = NoSocket
  /\ IF registry # NoSocket /\ ready[registry] = "open"
       THEN /\ ready' = [ready EXCEPT ![registry] = "closing"]
            /\ outbox' = Sent(outbox, registry, Close(code))
       ELSE UNCHANGED <<ready, outbox>>

(* The API process ends and comes back (docker-compose.yml): its memory,   *)
(* its sockets and the requests it was serving are gone.                   *)
ApiEnds ==
  /\ registry' = NoSocket
  /\ gateway' = [s \in Socket |-> "none"]
  /\ ready' = [s \in Socket |-> "none"]
  /\ inbox' = [s \in Socket |-> <<>>]
  /\ outbox' = [s \in Socket |-> <<>>]
  /\ request' = [o \in Operator |-> "idle"]
  /\ finalizing' = "no" /\ revoking' = FALSE
  /\ conn' = NoSocket /\ greeted' = FALSE
  /\ UNCHANGED <<row, usable, running, released, told, command, acking, client>>

-----------------------------------------------------------------------------
(* handleConnection and authenticateAgent, one step per await.             *)

GatewayStep(s, from, to) ==
  gateway[s] = from /\ gateway' = [gateway EXCEPT ![s] = to]

(* verifyMachineCredential reads the row ...                               *)
VerifyCredential(s) ==
  /\ GatewayStep(s, "opened", IF row # "removed" /\ usable THEN "valid"
                                                           ELSE "invalid")
  /\ UNCHANGED <<row, usable, registry, ready, inbox, outbox, request,
                 finalizing, revoking, agent, faults>>

(* ... and only after hashing does the handler go on: refuse the socket,   *)
Reject(s) ==
  /\ GatewayStep(s, "invalid", "refused")
  /\ IF ready[s] = "open"
       THEN /\ ready' = [ready EXCEPT ![s] = "closing"]
            /\ outbox' = Sent(outbox, s, Close(4001))
       ELSE UNCHANGED <<ready, outbox>>
  /\ UNCHANGED <<row, usable, registry, inbox, request, finalizing, revoking,
                 agent, faults>>

(* or register it and attach the message listener.                         *)
Accept(s) ==
  /\ GatewayStep(s, "valid", "registered")
  /\ RegisterAgent(s)
  /\ UNCHANGED <<row, usable, inbox, request, finalizing, revoking, agent, faults>>

(* recordHeartbeat fails when the row is gone.  Nobody awaits the handler, *)
(* so its rejection ends the handler and may end the process.              *)
RecordHeartbeat(s) ==
  \/ /\ GatewayStep(s, "registered", IF row = "removed" THEN "done" ELSE "beaten")
     /\ UNCHANGED <<row, usable, registry, ready, inbox, outbox, request,
                    finalizing, revoking, agent, faults>>
  \/ /\ gateway[s] = "registered" /\ row = "removed"
     /\ ApiEnds
     /\ UNCHANGED faults

(* The same failure of a later heartbeat; one of an existing machine       *)
(* changes nothing here.                                                   *)
HeartbeatOfRemoved(s) ==
  /\ conn = s /\ ready[s] = "open" /\ gateway[s] \in Listening
  /\ row = "removed"
  /\ ApiEnds
  /\ UNCHANGED faults

(* isPendingDecommission reads the row (the slips: handing a missing row   *)
(* on, not asking at all) ...                                              *)
GreetWithRow(s) ==
  /\ GatewayStep(s, "beaten", row)
  /\ UNCHANGED <<row, usable, registry, ready, inbox, outbox, request,
                 finalizing, revoking, agent, faults>>

AlwaysManaged(s) ==
  /\ GatewayStep(s, "beaten", "managed")
  /\ UNCHANGED <<row, usable, registry, ready, inbox, outbox, request,
                 finalizing, revoking, agent, faults>>

IsPendingDecommission(s) ==
  /\ GatewayStep(s, "beaten", IF row = "pending" THEN "pending" ELSE "managed")
  /\ UNCHANGED <<row, usable, registry, ready, inbox, outbox, request,
                 finalizing, revoking, agent, faults>>

(* ... and the agent is greeted with what was read.                        *)
Greet(s) ==
  /\ gateway[s] \in {"pending", "managed"}
  /\ SendTo(s, IF gateway[s] = "pending" THEN Decommission ELSE SessionState)
  /\ gateway' = [gateway EXCEPT ![s] = "done"]
  /\ UNCHANGED <<row, usable, registry, ready, inbox, request, finalizing,
                 revoking, agent, faults>>

(* handleDisconnect, some time after the agent's end has gone.  A handler  *)
(* still authenticating goes on, and may yet register the dead socket.     *)
HandleDisconnect(s) ==
  /\ conn # s
  /\ ready[s] \in {"open", "closing"}
  /\ ready' = [ready EXCEPT ![s] = "closed"]
  /\ IF gateway[s] \in Listening THEN UnregisterAgent(s) ELSE UNCHANGED registry
  /\ inbox' = [inbox EXCEPT ![s] = <<>>]
  /\ UNCHANGED <<row, usable, gateway, outbox, request, finalizing, revoking,
                 agent, faults>>

(* The slot of a socket that both sides are done with is free again.       *)
Forget(s) ==
  /\ ready[s] = "closed" /\ registry # s
  /\ gateway[s] \in {"done", "refused"}
  /\ gateway' = [gateway EXCEPT ![s] = "none"]
  /\ ready' = [ready EXCEPT ![s] = "none"]
  /\ UNCHANGED <<row, usable, registry, inbox, outbox, request, finalizing,
                 revoking, agent, faults>>

(* handleAgentMessage: a message with no listener is dropped; an           *)
(* acknowledgement issues the conditional delete, a heartbeat records the   *)
(* agent's version.                                                        *)
ReceiveMessage(s) ==
  /\ inbox[s] # <<>>
  /\ inbox' = [inbox EXCEPT ![s] = Tail(@)]
  /\ finalizing' = IF /\ Head(inbox[s]) = "ack" /\ finalizing = "no"
                      /\ gateway[s] \in Listening
                     THEN "asked" ELSE finalizing
  /\ UNCHANGED <<row, usable, registry, gateway, ready, outbox, request,
                 revoking, agent, faults>>

-----------------------------------------------------------------------------
(* machines.service.ts.                                                    *)

RequestStep(o, from, to) ==
  request[o] = from /\ request' = [request EXCEPT ![o] = to]

(* requestDecommission: requireMachine reads the row.                      *)
ReadMachine(o) ==
  /\ row # "removed"
  /\ RequestStep(o, "idle", IF ~usable THEN "unusable"
                            ELSE IF row = "pending" THEN "marked" ELSE "managed")
  /\ UNCHANGED <<row, usable, registry, gateway, ready, inbox, outbox,
                 finalizing, revoking, agent, faults>>

(* hardDelete closes the socket first, then deletes the row.               *)
HardDelete(o) ==
  /\ RequestStep(o, "unusable", "deleting")
  /\ DisconnectMachine(4002)
  /\ UNCHANGED <<row, usable, gateway, inbox, finalizing, revoking, agent, faults>>

DeleteRow(o) ==
  /\ RequestStep(o, "deleting", "done")
  /\ row' = "removed"
  /\ UNCHANGED <<usable, registry, gateway, ready, inbox, outbox, finalizing,
                 revoking, agent, faults>>

(* A machine not yet pending is marked; the update fails if it is gone.    *)
MarkPending(o) ==
  /\ RequestStep(o, "managed", IF row = "removed" THEN "done" ELSE "marked")
  /\ row' = IF row = "removed" THEN row ELSE "pending"
  /\ UNCHANGED <<usable, registry, gateway, ready, inbox, outbox, finalizing,
                 revoking, agent, faults>>

(* Tell the agent, if it is connected.                                     *)
Tell(o) ==
  /\ RequestStep(o, "marked", "done")
  /\ SendTo(registry, Decommission)
  /\ UNCHANGED <<row, usable, registry, gateway, ready, inbox, finalizing,
                 revoking, agent, faults>>

(* finalizeDecommission: deleteMany where pending ...                      *)
DeleteIfPending ==
  /\ finalizing = "asked"
  /\ row' = IF row = "pending" THEN "removed" ELSE row
  /\ finalizing' = IF row = "pending" THEN "deleted" ELSE "no"
  /\ UNCHANGED <<usable, registry, gateway, ready, inbox, outbox, request,
                 revoking, agent, faults>>

(* ... and, if that deleted the row, the socket is closed as finalized.    *)
CloseFinalized ==
  /\ finalizing = "deleted"
  /\ finalizing' = "no"
  /\ DisconnectMachine(4003)
  /\ UNCHANGED <<row, usable, gateway, inbox, request, revoking, agent, faults>>

(* revokeCredential: the update, then the live connection is closed.       *)
Revoke ==
  /\ MayRevoke
  /\ row # "removed" /\ usable
  /\ usable' = FALSE /\ revoking' = TRUE
  /\ UNCHANGED <<row, registry, gateway, ready, inbox, outbox, request,
                 finalizing, agent, faults>>

CloseRevoked ==
  /\ revoking
  /\ revoking' = FALSE
  /\ DisconnectMachine(4001)
  /\ UNCHANGED <<row, usable, gateway, inbox, request, finalizing, agent, faults>>

-----------------------------------------------------------------------------
(* The agent: its connection task ...                                      *)

(* connect_and_serve opens the socket, drains the commands and, once it    *)
(* has been told to acknowledge, does so before anything else (the slip:   *)
(* but for the first heartbeat).                                           *)
GreetingFirst == IF acking \/ command THEN <<"heartbeat", "ack">> ELSE <<"heartbeat">>

SentFirst == IF acking \/ command THEN <<"ack">> ELSE <<>>

Connect(s) ==
  /\ running /\ client = "trying" /\ conn = NoSocket
  /\ gateway[s] = "none" /\ ready[s] = "none"
  /\ conn' = s
  /\ gateway' = [gateway EXCEPT ![s] = "opened"]
  /\ ready' = [ready EXCEPT ![s] = "open"]
  /\ acking' = (acking \/ command)
  /\ command' = FALSE
  /\ inbox' = [inbox EXCEPT ![s] = SentFirst]
  /\ greeted' = FALSE
  /\ UNCHANGED <<row, usable, registry, outbox, request, finalizing, revoking,
                 running, released, told, client, faults>>

(* The command arriving on a live connection.                              *)
HandleCommand ==
  /\ running /\ conn # NoSocket /\ command
  /\ acking' = TRUE /\ command' = FALSE
  /\ inbox' = [inbox EXCEPT ![conn] = Append(@, "ack")]
  /\ UNCHANGED <<row, usable, api, outbox, running, released, told, client,
                 conn, greeted, faults>>

(* A decommission goes on to the run loop; a close frame ends the          *)
(* connection, and the task itself when it says that the removal is final. *)
(* The first heartbeat answers the server's first message.                 *)
RetriesForever(code) == code = 4003

Finalizes(code) == code = 4003 \/ (code = 4001 /\ acking)

AgentReceive ==
  /\ running /\ conn # NoSocket /\ outbox[conn] # <<>>
  /\ LET m == Head(outbox[conn])
     IN /\ told' = (told \/ m = Decommission)
        /\ IF m.type = "close"
             THEN /\ conn' = NoSocket
                  /\ outbox' = [outbox EXCEPT ![conn] = <<>>]
                  /\ client' = IF Finalizes(m.code) THEN "stopped" ELSE client
                  /\ greeted' = FALSE
                  /\ UNCHANGED inbox
             ELSE /\ outbox' = [outbox EXCEPT ![conn] = Tail(@)]
                  /\ greeted' = TRUE
                  /\ inbox' = IF greeted THEN inbox
                              ELSE [inbox EXCEPT ![conn] = Append(@, "heartbeat")]
                  /\ UNCHANGED <<conn, client>>
  /\ UNCHANGED <<row, usable, api, running, released, command, acking,
                 faults>>

(* ... and its run loop, which persists the release before it lets the     *)
(* task acknowledge it, and ignores the instruction afterwards.  (The slip: *)
(* going on when the save has failed.)                                     *)
IgnoreFailedSave ==
  /\ running /\ told
  /\ told' = FALSE
  /\ released' \in {released, TRUE}
  /\ command' = TRUE
  /\ UNCHANGED <<row, usable, api, inbox, outbox, running, acking, client, conn,
                 greeted, faults>>

OnDecommission ==
  /\ running /\ told
  /\ told' = FALSE
  /\ released' = TRUE
  /\ command' = (command \/ ~released)
  /\ UNCHANGED <<row, usable, api, inbox, outbox, running, acking, client, conn,
                 greeted, faults>>

Start ==
  /\ ~running
  /\ running' = TRUE
  /\ command' = released
  /\ UNCHANGED <<row, usable, api, inbox, outbox, released, told, acking, client,
                 conn, greeted, faults>>

-----------------------------------------------------------------------------
(* Faults.                                                                 *)

Fault == faults < MaxFaults /\ faults' = faults + 1

(* The agent's end of the connection is gone; what was under way to the    *)
(* server may still arrive.                                                *)
DropConnection ==
  /\ conn' = NoSocket /\ greeted' = FALSE
  /\ IF conn = NoSocket THEN UNCHANGED <<inbox, outbox>>
     ELSE /\ outbox' = [outbox EXCEPT ![conn] = <<>>]
          /\ inbox' \in {inbox, [inbox EXCEPT ![conn] = <<>>]}

LoseConnection ==
  /\ Fault /\ conn # NoSocket
  /\ DropConnection
  /\ UNCHANGED <<row, usable, api, running, released, told, command, acking,
                 client>>

(* The agent stops or is killed, or the save of its release fails.         *)
AgentStops ==
  /\ Fault /\ running
  /\ running' = FALSE
  /\ told' = FALSE /\ command' = FALSE /\ acking' = FALSE
  /\ client' = "trying"
  /\ DropConnection
  /\ UNCHANGED <<row, usable, api, released>>

ApiRestarts == Fault /\ ApiEnds

-----------------------------------------------------------------------------
Handshake(s) ==
  \/ VerifyCredential(s) \/ Reject(s) \/ Accept(s) \/ RecordHeartbeat(s)
  \/ IsPendingDecommission(s) \/ Greet(s)

SocketStep(s) ==
  HandleDisconnect(s) \/ Forget(s) \/ ReceiveMessage(s) \/ HeartbeatOfRemoved(s)

(* A request, once read, runs to its end.                                  *)
FinishRequest(o) == HardDelete(o) \/ DeleteRow(o) \/ MarkPending(o) \/ Tell(o)

ServiceStep == DeleteIfPending \/ CloseFinalized \/ CloseRevoked

ClientStep == HandleCommand \/ AgentReceive \/ \E s \in Socket : Connect(s)

Next ==
  \/ \E s \in Socket : Handshake(s) \/ SocketStep(s)
  \/ \E o \in Operator : ReadMachine(o) \/ FinishRequest(o)
  \/ ServiceStep \/ Revoke
  \/ ClientStep \/ OnDecommission \/ Start
  \/ LoseConnection \/ AgentStops \/ ApiRestarts

Spec == Init /\ [][Next]_vars

(* Every handler and task that can go on does, the agent is restarted and  *)
(* keeps reconnecting.  Nobody has to request or to revoke anything, and   *)
(* nothing has to fail.                                                    *)
Fairness ==
  /\ \A s \in Socket :
       /\ WF_vars(Handshake(s))
       /\ WF_vars(HandleDisconnect(s) \/ Forget(s))
       /\ WF_vars(ReceiveMessage(s)) /\ WF_vars(HeartbeatOfRemoved(s))
  /\ \A o \in Operator : WF_vars(FinishRequest(o))
  /\ WF_vars(DeleteIfPending) /\ WF_vars(CloseFinalized) /\ WF_vars(CloseRevoked)
  /\ WF_vars(ClientStep) /\ WF_vars(OnDecommission) /\ WF_vars(Start)

FairSpec == Spec /\ Fairness

-----------------------------------------------------------------------------
(* m is somewhere in the queue.                                            *)
Carries(queue, m) == \E i \in DOMAIN queue : queue[i] = m

TypeOK ==
  /\ row \in {"managed", "pending", "removed"}
  /\ registry \in Socket \cup {NoSocket} /\ conn \in Socket \cup {NoSocket}
  /\ gateway \in [Socket -> Listening \cup {"none", "opened", "valid", "invalid",
                                            "refused"}]
  /\ ready \in [Socket -> {"none", "open", "closing", "closed"}]
  /\ inbox \in [Socket -> Seq({"ack", "heartbeat"})]
  /\ outbox \in [Socket -> Seq(ServerMessage)]
  /\ request \in [Operator -> {"idle", "unusable", "deleting", "managed", "marked",
                             "done"}]
  /\ finalizing \in {"no", "asked", "deleted"}
  /\ client \in {"trying", "stopped"}
  /\ {usable, revoking, running, released, told, command, acking, greeted} \subseteq BOOLEAN
  /\ faults \in 0 .. MaxFaults

(* "There's only ever one authoritative socket per machine": an            *)
(* authenticated open connection is the one pushes go to, through          *)
(* reconnects, replaced and half-open connections.                         *)
OpenIsRegistered ==
  \A s \in Socket :
    gateway[s] \in Listening /\ ready[s] = "open" => registry = s

(* The instruction to let go is never lost between the request and the     *)
(* handshake: a greeted, connected agent of a pending machine has it, or   *)
(* it is still on its way.                                                 *)
InstructionNotMissed ==
  \A s \in Socket :
    /\ row = "pending" /\ conn = s /\ ready[s] = "open" /\ gateway[s] = "done"
    => \/ released \/ told
       \/ Carries(outbox[s], Decommission)
       \/ \E o \in Operator : request[o] = "marked"

(* "A heartbeat sent immediately is silently dropped", and the agent's     *)
(* version with it: the first one is under way only once the server        *)
(* listens, after overlapping handshakes and pushes that overtake the      *)
(* greeting, too.                                                          *)
HelloIsHeard ==
  \A s \in Socket :
    Carries(inbox[s], "heartbeat") => gateway[s] \in Listening

(* "Revocation is immediate": when revokeCredential returns, no            *)
(* authenticated connection of the machine is open, replaced or half-open  *)
(* ones included.  (A handshake that had read the row before may still get *)
(* in afterwards.)                                                         *)
RevokedIsDisconnected ==
  [][revoking /\ ~revoking' =>
       \A s \in Socket : gateway'[s] \in Listening => ready'[s] # "open"]_vars

Lifecycle == INSTANCE Handoff
               WITH row <- row, usable <- usable, released <- released

(* The acknowledged hand-off of docs/enrollment.md: whatever is lost,      *)
(* repeated or restarted, a row with a usable credential is deleted only   *)
(* when it is pending and its agent has durably let go.                    *)
KeepsLifecycle == Lifecycle!Spec

(* A requested removal reaches the agent, offline when it was asked or not.*)
RequestReachesAgent ==
  row = "pending" ~> (released \/ row = "removed" \/ ~usable)

(* Once the machine is gone its agent stops calling the server.            *)
QuietAfterRemoval == (row = "removed" /\ released) ~> client = "stopped"

(* docs/enrollment.md: the agent "safely re-delivers the ack on its next   *)
(* connect", so a removal its agent has accepted completes.                *)
AcceptedIsFinalized ==
  (row = "pending" /\ released) ~> (row = "removed" \/ ~usable)
=============================================================================
