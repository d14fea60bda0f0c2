--------------------------- MODULE CommandPipeline ---------------------------
(***************************************************************************)
(* The command path of the firmware, from the MQTT broker to the relays    *)
(* and back: the esp-mqtt task and the event handler it runs               *)
(* (mqtt_event_handler_cb), cmd_queue, the command task                    *)
(* (gpio_command_task / handle_command), mqtt_out_queue and the output     *)
(* task (mqtt_out_task).                                                   *)
(*                                                                         *)
(* The three tasks share two bounded queues and the API lock of esp-mqtt,  *)
(* a recursive mutex.  The esp-mqtt task holds it while it runs the event  *)
(* handler; esp_mqtt_client_publish takes it too.  One iteration of the    *)
(* esp-mqtt loop that calls no handler only touches state guarded by the   *)
(* lock and is one action; where a handler runs, the lock stays held over  *)
(* several actions.                                                        *)
(***************************************************************************)
EXTENDS Integers, Sequences, FiniteSets

CONSTANTS
  PulseCmds,   \* commands answered by publish_resp / publish_status_now, QoS 0
  JsonCmds,    \* commands answered with a cJSON document, QoS 1
  SilentCmds,  \* commands handle_command drops without an answer
  OtaMsgs,     \* otaUpdate messages, handled inside the event handler
  BadMsgs,     \* payloads the event handler consumes without effect
  Event,       \* what the other producers publish: card, QR, status, OTA result
  NoMsg,       \* no message in hand
  CmdCap,      \* length of cmd_queue, 64 in main.c
  OutCap,      \* length of mqtt_out_queue, 64 in main.c
  MaxDrops,    \* bound: connections lost
  MaxRestarts, \* bound: reboots
  MaxEvents,   \* bound: messages of the other producers
  MaxUnparsed  \* bound: commands for which there was no memory

Commands == PulseCmds \cup JsonCmds \cup SilentCmds
Messages == Commands \cup OtaMsgs \cup BadMsgs

ASSUME CapAssumption == CmdCap \in Nat \ {0} /\ OutCap \in Nat \ {0}
ASSUME BoundAssumption == MaxDrops \in Nat /\ MaxRestarts \in Nat /\ MaxEvents \in Nat
ASSUME MemoryAssumption == MaxUnparsed \in Nat
ASSUME NamesAssumption == Event \notin Messages /\ NoMsg \notin Messages \cup {Event}
ASSUME KindsAssumption ==
  /\ Commands \cap (OtaMsgs \cup BadMsgs) = {}
  /\ OtaMsgs \cap BadMsgs = {}
  /\ PulseCmds \cap (JsonCmds \cup SilentCmds) = {}
  /\ JsonCmds \cap SilentCmds = {}

VARIABLES
  brokerQ,     \* the broker's session queue: published at QoS 1, not yet acknowledged
  published,   \* every message published to the device so far
  readPos,     \* how many of brokerQ the device has read on this connection
  acks,        \* PUBACKs written by the device and not yet seen by the broker
  clientState, \* client->state of esp-mqtt
  lock,        \* the task that holds the API lock across actions
  mqttPc,      \* where the esp-mqtt task is
  mqttMsg,     \* the message the event handler has in hand
  connected,   \* s_mqtt_connected
  cmdQ,        \* cmd_queue
  cmdPc,       \* where the command task is
  cmd,         \* the command in its hands
  outQ,        \* mqtt_out_queue
  outPc,       \* where the output task is
  outMsg,      \* the message in its hands
  handled,     \* commands handle_command has returned from, oldest first
  drops,       \* connections lost so far
  lostQos0,    \* QoS 0 messages esp_mqtt_client_publish has lost so far
  restarts,    \* reboots so far
  events,      \* messages produced so far by the other producers
  unparsed     \* history: commands the handler had no memory to parse

brokerVars == <<brokerQ, published, acks>>
cmdVars == <<cmdQ, cmdPc, cmd, handled>>
outVars == <<outPc, outMsg, lostQos0>>
envVars == <<restarts, events, unparsed>>
vars == <<brokerQ, published, readPos, acks, clientState, lock, mqttPc, mqttMsg, connected,
          cmdQ, cmdPc, cmd, outQ, outPc, outMsg, handled, drops, lostQos0, restarts, events,
          unparsed>>

OutMessages == [src : Messages \cup {Event}, qos : {0, 1}]
NoOut == [src |-> NoMsg, qos |-> 0]
HandlerPcs == {"connected", "disconnected", "data", "enqueue", "otaRefused", "ack"}

Init ==
  /\ brokerQ = << >> /\ published = {} /\ readPos = 0 /\ acks = 0
  /\ clientState = "INIT" /\ lock = "none" /\ mqttPc = "loop" /\ mqttMsg = NoMsg
  /\ connected = FALSE
  /\ cmdQ = << >> /\ cmdPc = "receive" /\ cmd = NoMsg /\ handled = << >>
  /\ outQ = << >> /\ outPc = "receive" /\ outMsg = NoOut
  /\ drops = 0 /\ lostQos0 = 0 /\ restarts = 0 /\ events = 0 /\ unparsed = {}

-----------------------------------------------------------------------------
(* The broker (external): a persistent session, messages published at QoS 1. *)

BrokerPublishes(m) ==
  /\ m \notin published
  /\ published' = published \cup {m}
  /\ brokerQ' = Append(brokerQ, m)
  /\ UNCHANGED <<readPos, acks, clientState, lock, mqttPc, mqttMsg, connected, drops, outQ>>
  /\ UNCHANGED <<cmdVars, outVars, envVars>>

BrokerReceivesAck ==
  /\ acks > 0
  /\ acks' = acks - 1
  /\ readPos' = readPos - 1
  /\ brokerQ' = Tail(brokerQ)
  /\ UNCHANGED <<published, clientState, lock, mqttPc, mqttMsg, connected, drops, outQ>>
  /\ UNCHANGED <<cmdVars, outVars, envVars>>

-----------------------------------------------------------------------------
(* mqtt_enqueue: xQueueSend waits 50 ms for room, then drops the message.  The *)
(* caller never waits longer, whatever happens to the connection.              *)

(* Mutation: portMAX_DELAY instead of 50 ms. *)
EnqueueForever(m) == Len(outQ) < OutCap /\ outQ' = Append(outQ, m)

Enqueue(m) == outQ' = IF Len(outQ) < OutCap THEN Append(outQ, m) ELSE outQ

(* The esp-mqtt task takes the lock and runs the handler at pc.                *)
RunHandler(pc) == lock' = "mqtt" /\ mqttPc' = pc

(* The handler, or a whole iteration, is over: the lock is given back.         *)
BackToLoop == lock' = "none" /\ mqttPc' = "loop" /\ mqttMsg' = NoMsg

AtLoop == mqttPc = "loop" /\ lock = "none"

(* esp_mqtt_abort_connection of an established connection.                     *)
DropConnection ==
  /\ drops < MaxDrops
  /\ drops' = drops + 1
  /\ clientState' = "WAIT_RECONNECT"

(* Mutation: disable_clean_session left false, the broker forgets the session. *)
MqttConnectsClean ==
  /\ AtLoop
  /\ clientState = "INIT"
  /\ clientState' = "CONNECTED"
  /\ brokerQ' = << >> /\ readPos' = 0 /\ acks' = 0
  /\ RunHandler("connected")
  /\ UNCHANGED <<published, mqttMsg, connected, drops, outQ>>
  /\ UNCHANGED <<cmdVars, outVars, envVars>>

(* A connection that is set up starts with an empty TCP stream: the broker     *)
(* sends again all it holds unacknowledged.                                    *)
MqttConnects ==
  /\ AtLoop
  /\ clientState = "INIT"
  /\ clientState' = "CONNECTED"
  /\ readPos' = 0
  /\ acks' = 0
  /\ RunHandler("connected")
  /\ UNCHANGED <<brokerQ, published, mqttMsg, connected, drops, outQ>>
  /\ UNCHANGED <<cmdVars, outVars, envVars>>

MqttConnectFails ==
  /\ AtLoop
  /\ clientState = "INIT"
  /\ clientState' = "WAIT_RECONNECT"
  /\ RunHandler("disconnected")
  /\ UNCHANGED <<brokerVars, readPos, mqttMsg, connected, drops, outQ>>
  /\ UNCHANGED <<cmdVars, outVars, envVars>>

MqttWaitOver ==
  /\ AtLoop
  /\ clientState = "WAIT_RECONNECT"
  /\ clientState' = "INIT"
  /\ UNCHANGED <<brokerVars, readPos, lock, mqttPc, mqttMsg, connected, drops, outQ>>
  /\ UNCHANGED <<cmdVars, outVars, envVars>>

MqttReceives ==
  /\ AtLoop
  /\ clientState = "CONNECTED"
  /\ readPos < Len(brokerQ)
  /\ readPos' = readPos + 1
  /\ mqttMsg' = brokerQ[readPos + 1]
  /\ RunHandler("data")
  /\ UNCHANGED <<brokerVars, clientState, connected, drops, outQ>>
  /\ UNCHANGED <<cmdVars, outVars, envVars>>

(* Nothing has arrived: the iteration ends and the next one polls again.       *)
MqttPolls ==
  /\ AtLoop
  /\ clientState = "CONNECTED"
  /\ readPos = Len(brokerQ)
  /\ UNCHANGED vars

MqttConnectionLost ==
  /\ AtLoop
  /\ clientState = "CONNECTED"
  /\ DropConnection
  /\ RunHandler("disconnected")
  /\ UNCHANGED <<brokerVars, readPos, mqttMsg, connected, outQ>>
  /\ UNCHANGED <<cmdVars, outVars, envVars>>

(* MQTT_EVENT_CONNECTED: the flag, then the subscription.                      *)
OnConnected ==
  /\ mqttPc = "connected"
  /\ connected' = TRUE
  /\ BackToLoop
  /\ UNCHANGED <<brokerVars, readPos, clientState, drops, outQ>>
  /\ UNCHANGED <<cmdVars, outVars, envVars>>

(* Mutation: the handler does not clear the flag. *)
OnDisconnectedKeepsFlag ==
  /\ mqttPc = "disconnected"
  /\ BackToLoop
  /\ UNCHANGED <<brokerVars, readPos, clientState, connected, drops, outQ>>
  /\ UNCHANGED <<cmdVars, outVars, envVars>>

(* MQTT_EVENT_DISCONNECTED, dispatched by the esp-mqtt task.                   *)
OnDisconnected ==
  /\ mqttPc = "disconnected"
  /\ connected' = FALSE
  /\ BackToLoop
  /\ UNCHANGED <<brokerVars, readPos, clientState, drops, outQ>>
  /\ UNCHANGED <<cmdVars, outVars, envVars>>

(* cJSON_ParseWithLength finds no memory: the message is dropped like one that *)
(* is no JSON, and acknowledged like any other.                                *)
CannotParse ==
  /\ Cardinality(unparsed \cup {mqttMsg}) =< MaxUnparsed
  /\ unparsed' = unparsed \cup {mqttMsg}

(* MQTT_EVENT_DATA: parsing decides what the message is.  ota_start_async may  *)
(* fail: no memory for its argument or for its task.                           *)
OnData ==
  /\ mqttPc = "data"
  /\ \/ mqttMsg \in Commands /\ mqttPc' = "enqueue" /\ UNCHANGED unparsed
     \/ mqttMsg \in Commands /\ mqttPc' = "ack" /\ CannotParse
     \/ mqttMsg \in OtaMsgs /\ mqttPc' \in {"otaRefused", "ack"} /\ UNCHANGED unparsed
     \/ mqttMsg \in BadMsgs /\ mqttPc' = "ack" /\ UNCHANGED unparsed
  /\ UNCHANGED <<brokerVars, readPos, clientState, lock, mqttMsg, connected, drops, outQ>>
  /\ UNCHANGED <<cmdVars, outVars, restarts, events>>

(* Mutation: a full cmd_queue is not waited for, the command is dropped. *)
OnDataEnqueuesOrDrops ==
  /\ mqttPc = "enqueue"
  /\ cmdQ' = IF Len(cmdQ) < CmdCap THEN Append(cmdQ, mqttMsg) ELSE cmdQ
  /\ mqttPc' = "ack"
  /\ UNCHANGED <<brokerVars, readPos, clientState, lock, mqttMsg, connected, drops, outQ>>
  /\ UNCHANGED <<cmdPc, cmd, handled, outVars, envVars>>

(* Mutation: xQueueSendToFront. *)
OnDataEnqueuesInFront ==
  /\ mqttPc = "enqueue"
  /\ Len(cmdQ) < CmdCap
  /\ cmdQ' = <<mqttMsg>> \o cmdQ
  /\ mqttPc' = "ack"
  /\ UNCHANGED <<brokerVars, readPos, clientState, lock, mqttMsg, connected, drops, outQ>>
  /\ UNCHANGED <<cmdPc, cmd, handled, outVars, envVars>>

(* Mutation: the queue is written without looking at its length. *)
OnDataEnqueuesUnbounded ==
  /\ mqttPc = "enqueue"
  /\ cmdQ' = Append(cmdQ, mqttMsg)
  /\ mqttPc' = "ack"
  /\ UNCHANGED <<brokerVars, readPos, clientState, lock, mqttMsg, connected, drops, outQ>>
  /\ UNCHANGED <<cmdPc, cmd, handled, outVars, envVars>>

(* xQueueSend(cmd_queue, &cmd, portMAX_DELAY): waits for room, the lock held.  *)
OnDataEnqueues ==
  /\ mqttPc = "enqueue"
  /\ Len(cmdQ) < CmdCap
  /\ cmdQ' = Append(cmdQ, mqttMsg)
  /\ mqttPc' = "ack"
  /\ UNCHANGED <<brokerVars, readPos, clientState, lock, mqttMsg, connected, drops, outQ>>
  /\ UNCHANGED <<cmdPc, cmd, handled, outVars, envVars>>

(* The KO answer to an otaUpdate is enqueued by the handler itself.            *)
OnDataRefusesOta ==
  /\ mqttPc = "otaRefused"
  /\ Enqueue([src |-> mqttMsg, qos |-> 1])
  /\ mqttPc' = "ack"
  /\ UNCHANGED <<brokerVars, readPos, clientState, lock, mqttMsg, connected, drops>>
  /\ UNCHANGED <<cmdVars, outVars, envVars>>

(* esp-mqtt acknowledges a QoS 1 message after its handler has returned.       *)
MqttAcks ==
  /\ mqttPc = "ack"
  /\ acks' = acks + 1
  /\ BackToLoop
  /\ UNCHANGED <<brokerQ, published, readPos, clientState, connected, drops, outQ>>
  /\ UNCHANGED <<cmdVars, outVars, envVars>>

MqttAckFails ==
  /\ mqttPc = "ack"
  /\ DropConnection
  /\ RunHandler("disconnected")
  /\ UNCHANGED <<brokerVars, readPos, mqttMsg, connected, outQ>>
  /\ UNCHANGED <<cmdVars, outVars, envVars>>

-----------------------------------------------------------------------------
(* gpio_command_task.                                                          *)

(* Mutation: xQueuePeek, the command stays in the queue. *)
CmdPeeks ==
  /\ cmdPc = "receive"
  /\ cmdQ # << >>
  /\ Len(handled) < 5
  /\ cmd' = Head(cmdQ)
  /\ cmdPc' = "execute"
  /\ UNCHANGED <<brokerVars, readPos, clientState, lock, mqttPc, mqttMsg, connected, drops>>
  /\ UNCHANGED <<cmdQ, handled, outQ, outVars, envVars>>

CmdReceives ==
  /\ cmdPc = "receive"
  /\ cmdQ # << >>
  /\ cmd' = Head(cmdQ)
  /\ cmdQ' = Tail(cmdQ)
  /\ cmdPc' = "execute"
  /\ UNCHANGED <<brokerVars, readPos, clientState, lock, mqttPc, mqttMsg, connected, drops>>
  /\ UNCHANGED <<handled, outQ, outVars, envVars>>

(* handle_command drives the pins, waits out the pulse and builds the answer.  *)
CmdExecutes ==
  /\ cmdPc = "execute"
  /\ cmdPc' = "answer"
  /\ UNCHANGED <<brokerVars, readPos, clientState, lock, mqttPc, mqttMsg, connected, drops>>
  /\ UNCHANGED <<cmdQ, cmd, handled, outQ, outVars, envVars>>

CmdAnswers ==
  /\ cmdPc = "answer"
  /\ IF cmd \in SilentCmds
       THEN outQ' = outQ
       ELSE Enqueue([src |-> cmd, qos |-> IF cmd \in PulseCmds THEN 0 ELSE 1])
  /\ handled' = Append(handled, cmd)
  /\ cmd' = NoMsg
  /\ cmdPc' = "receive"
  /\ UNCHANGED <<brokerVars, readPos, clientState, lock, mqttPc, mqttMsg, connected, drops>>
  /\ UNCHANGED <<cmdQ, outVars, envVars>>

-----------------------------------------------------------------------------
(* mqtt_out_task.                                                              *)

OutReceives ==
  /\ outPc = "receive"
  /\ outQ # << >>
  /\ outMsg' = Head(outQ)
  /\ outQ' = Tail(outQ)
  /\ outPc' = "wait"
  /\ UNCHANGED <<brokerVars, readPos, clientState, lock, mqttPc, mqttMsg, connected, drops>>
  /\ UNCHANGED <<lostQos0, cmdVars, envVars>>

(* Mutation: no waiting loop, every message is published at once. *)
OutDoesNotWait ==
  /\ outPc = "wait"
  /\ outPc' = "publish"
  /\ UNCHANGED <<brokerVars, readPos, clientState, lock, mqttPc, mqttMsg, connected, drops>>
  /\ UNCHANGED <<outQ, outMsg, lostQos0, cmdVars, envVars>>

(* The polling loop ends when it reads s_mqtt_connected true; the flag may     *)
(* change before the lock is taken.                                            *)
OutSeesConnected ==
  /\ outPc = "wait"
  /\ connected
  /\ outPc' = "publish"
  /\ UNCHANGED <<brokerVars, readPos, clientState, lock, mqttPc, mqttMsg, connected, drops>>
  /\ UNCHANGED <<outQ, outMsg, lostQos0, cmdVars, envVars>>

LosesIfQos0 == lostQos0' = IF outMsg.qos = 0 THEN lostQos0 + 1 ELSE lostQos0

(* esp_mqtt_client_publish under the lock.  A QoS 1 message that is not        *)
(* written stays in the outbox of esp-mqtt; a QoS 0 message is lost.           *)
OutPublishes ==
  /\ outPc = "publish"
  /\ lock = "none"
  /\ IF clientState = "CONNECTED" THEN UNCHANGED lostQos0 ELSE LosesIfQos0
  /\ outPc' = "receive"
  /\ outMsg' = NoOut
  /\ UNCHANGED <<brokerVars, readPos, clientState, lock, mqttPc, mqttMsg, connected, drops>>
  /\ UNCHANGED <<outQ, cmdVars, envVars>>

(* The write fails: the output task itself aborts the connection, and the      *)
(* event handler runs in its context.                                          *)
OutPublishFails ==
  /\ outPc = "publish"
  /\ lock = "none"
  /\ clientState = "CONNECTED"
  /\ DropConnection
  /\ LosesIfQos0
  /\ lock' = "out"
  /\ outPc' = "disconnected"
  /\ UNCHANGED <<brokerVars, readPos, mqttPc, mqttMsg, connected, outQ, outMsg, cmdVars, envVars>>

OutOnDisconnected ==
  /\ outPc = "disconnected"
  /\ connected' = FALSE
  /\ lock' = "none"
  /\ outPc' = "receive"
  /\ outMsg' = NoOut
  /\ UNCHANGED <<brokerVars, readPos, clientState, mqttPc, mqttMsg, drops>>
  /\ UNCHANGED <<outQ, lostQos0, cmdVars, envVars>>

-----------------------------------------------------------------------------
(* rc522_task, gm861s_task, status_task and ota_task publish through           *)
(* mqtt_enqueue.                                                               *)
ProducerPublishes ==
  /\ events < MaxEvents
  /\ events' = events + 1
  /\ Enqueue([src |-> Event, qos |-> 1])
  /\ UNCHANGED <<brokerVars, readPos, clientState, lock, mqttPc, mqttMsg, connected, drops>>
  /\ UNCHANGED <<cmdVars, outVars, restarts, unparsed>>

(* WIFI_EVENT_STA_DISCONNECTED clears the flag, from the system event task     *)
(* and without the lock.  Whether the TCP connection survives is left open, as *)
(* the code relies on neither; what follows for the flag is in Connectivity.   *)
WifiClearsFlag ==
  /\ connected
  /\ connected' = FALSE
  /\ UNCHANGED <<brokerVars, readPos, clientState, lock, mqttPc, mqttMsg, drops, outQ>>
  /\ UNCHANGED <<cmdVars, outVars, envVars>>

(* esp_restart at the end of an OTA, or a power cut: all tasks and queues      *)
(* start afresh, the broker keeps the session.                                 *)
Restart ==
  /\ restarts < MaxRestarts
  /\ restarts' = restarts + 1
  /\ clientState' = "INIT" /\ connected' = FALSE
  /\ BackToLoop
  /\ cmdQ' = << >> /\ cmdPc' = "receive" /\ cmd' = NoMsg
  /\ outQ' = << >> /\ outPc' = "receive" /\ outMsg' = NoOut
  /\ UNCHANGED <<brokerVars, readPos, handled, drops, lostQos0, events, unparsed>>

-----------------------------------------------------------------------------
Broker == (\E m \in Messages : BrokerPublishes(m)) \/ BrokerReceivesAck
EventHandler ==
  \/ OnConnected \/ OnDisconnected \/ OnData \/ OnDataEnqueues \/ OnDataRefusesOta
  \/ MqttAcks \/ MqttAckFails
MqttLoop ==
  \/ MqttConnects \/ MqttConnectFails \/ MqttWaitOver \/ MqttReceives \/ MqttPolls
  \/ MqttConnectionLost
CommandTask == CmdReceives \/ CmdExecutes \/ CmdAnswers
OutTask ==
  \/ OutReceives \/ OutSeesConnected \/ OutPublishes \/ OutPublishFails \/ OutOnDisconnected
Environment == ProducerPublishes \/ WifiClearsFlag \/ Restart

Next == Broker \/ EventHandler \/ MqttLoop \/ CommandTask \/ OutTask \/ Environment

SafeSpec == Init /\ [][Next]_vars

(* FreeRTOS runs every ready task: the command task, the handler once it       *)
(* runs, and a read of data that has arrived.  The output task competes for    *)
(* the lock with the esp-mqtt task, which waits for data without it between    *)
(* iterations: the lock is free again and again, hence strong fairness.        *)
Fairness ==
  /\ WF_vars(CommandTask)
  /\ WF_vars(EventHandler)
  /\ WF_vars(MqttReceives)
  /\ WF_vars(OutReceives)
  /\ WF_vars(OutSeesConnected)
  /\ SF_vars(OutPublishes \/ OutPublishFails)
  /\ WF_vars(OutOnDisconnected)

Spec == SafeSpec /\ Fairness
-----------------------------------------------------------------------------
(* Properties.                                                                 *)

(* Every variable has its type and both queues keep their length.              *)
TypeOK ==
  /\ brokerQ \in Seq(Messages) /\ published \subseteq Messages
  /\ readPos \in Int /\ acks \in Int
  /\ clientState \in {"INIT", "CONNECTED", "WAIT_RECONNECT"}
  /\ lock \in {"none", "mqtt", "out"}
  /\ mqttPc \in {"loop"} \cup HandlerPcs /\ mqttMsg \in Messages \cup {NoMsg}
  /\ connected \in BOOLEAN
  /\ cmdQ \in Seq(Commands) /\ Len(cmdQ) =< CmdCap
  /\ cmdPc \in {"receive", "execute", "answer"} /\ cmd \in Commands \cup {NoMsg}
  /\ outQ \in Seq(OutMessages) /\ Len(outQ) =< OutCap
  /\ outPc \in {"receive", "wait", "publish", "disconnected"}
  /\ outMsg \in OutMessages \cup {NoOut}
  /\ handled \in Seq(Commands)
  /\ drops \in Nat /\ lostQos0 \in Nat /\ restarts \in Nat /\ events \in Nat
  /\ unparsed \subseteq Commands

(* The flag the readers, the status task and the output task rely on is never  *)
(* ahead of the client: once no handler is running, s_mqtt_connected means     *)
(* that esp-mqtt is connected (mqtt_manager.c writes it in the two handlers).  *)
FlagNotAhead == (lock = "none" /\ connected) => clientState = "CONNECTED"

(* The check of s_mqtt_connected and the publication are not one step: the     *)
(* connection can go between them.  No more than one QoS 0 answer is lost for  *)
(* each connection lost, because the output task waits again before the next.  *)
LossPerDrop == lostQos0 =< drops

(* What Init and the steps of the code preserve, and LossPerDrop follows from: *)
(* an answer about to be lost is already paid for by a lost connection.        *)
LossInDoubt ==
  clientState # "CONNECTED" /\ (outPc = "publish" \/ (connected /\ lock # "out"))
LossAccounted == lostQos0 + (IF LossInDoubt THEN 1 ELSE 0) =< drops

Occurrences(seq, c) == Cardinality({i \in DOMAIN seq : seq[i] = c})
Contents(seq) == {seq[i] : i \in DOMAIN seq}

(* QoS 1 gives at-least-once: a command that moves a relay is executed again   *)
(* only if a connection or the device went down before the broker had the      *)
(* acknowledgement, once each time.                                            *)
ExecutedTwiceOnlyByLoss ==
  \A c \in published \cap Commands : Occurrences(handled, c) =< 1 + drops + restarts

(* A published command is held by the broker, in cmd_queue, in hand or done,   *)
(* or there was no memory to parse it (mqtt_manager.c:179); a reboot can take  *)
(* no more than cmd_queue and the command in hand with it, since what is       *)
(* blocked in the event handler is not yet acknowledged.                       *)
LostOnlyByRestart ==
  Cardinality({c \in (published \cap Commands) \ unparsed :
                 c # cmd /\ c \notin Contents(brokerQ) \cup Contents(cmdQ) \cup Contents(handled)})
    =< restarts * (CmdCap + 1)

(* The promise made to the server: commands accepted into cmd_queue are        *)
(* executed one at a time in their order, and always come to be executed.      *)
Service == INSTANCE CommandService WITH
  Capacity <- CmdCap + 1,
  accepted <- (IF cmd = NoMsg THEN << >> ELSE <<cmd>>) \o cmdQ,
  executed <- handled
ServiceSpec == Service!Spec

(* No circular wait: the event handler blocked on a full cmd_queue holds the   *)
(* API lock that mqtt_out_task needs to drain mqtt_out_queue, to which the     *)
(* command task and the handler itself write.  With or without a connection,   *)
(* the handler always gets its place in cmd_queue and the lock is given back.  *)
HandlerReturns == lock = "mqtt" ~> lock # "mqtt"

(* If the connection comes to stay and the flag with it, every published       *)
(* command is executed, or there was no memory for it, or the device was       *)
(* rebooted meanwhile.                                                         *)
StableLink == <>[](connected /\ clientState = "CONNECTED")
PublishedIsExecuted ==
  StableLink => \A c \in Commands :
    c \in published ~> (c \in Contents(handled) \cup unparsed \/ restarts > 0)

(* If the connection comes to stay and the flag with it, the output task never *)
(* keeps a message in its hands and mqtt_out_queue is drained.                 *)
OutputDrains == StableLink => []<>(outPc = "receive" /\ outQ = << >>)
=============================================================================
