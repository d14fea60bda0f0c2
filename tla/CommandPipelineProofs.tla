------------------------ MODULE CommandPipelineProofs ------------------------
(***************************************************************************)
(* Proofs about CommandPipeline, for any set of commands, any queue        *)
(* lengths and any number of lost connections and reboots.  The inductive  *)
(* invariant has five parts; LossAccounted is the one LossPerDrop needs,   *)
(* the others say who holds what when.  The refinement of CommandService   *)
(* follows, and behind it the proofs that count commands: how many can be  *)
(* lost, and how often one is executed.                                    *)
(***************************************************************************)
EXTENDS CommandPipeline, SequenceTheorems, FiniteSetTheorems, TLAPS

MessagePcs == {"data", "enqueue", "otaRefused", "ack"}

(* What the device has read and acknowledged lies within what the broker holds. *)
WindowInv ==
  /\ 0 =< acks /\ acks =< readPos /\ readPos =< Len(brokerQ)
  /\ mqttPc \in MessagePcs => acks < readPos

(* The lock is held exactly while a handler runs. *)
LockInv ==
  /\ lock = "mqtt" <=> mqttPc \in HandlerPcs
  /\ lock = "out" <=> outPc = "disconnected"

(* What the tasks have in their hands. *)
HandInv ==
  /\ mqttPc \in MessagePcs => mqttMsg \in Messages
  /\ mqttPc = "enqueue" => mqttMsg \in Commands
  /\ (cmdPc = "receive") = (cmd = NoMsg)

(* Whichever task runs a handler, the client is in the state the event tells of; *)
(* s_mqtt_connected is only ahead of it until the handler has run.               *)
StateInv ==
  /\ mqttPc \in MessagePcs \cup {"connected"} => clientState = "CONNECTED"
  /\ mqttPc = "disconnected" \/ outPc = "disconnected" => clientState = "WAIT_RECONNECT"
  /\ connected => \/ clientState = "CONNECTED"
                  \/ mqttPc = "disconnected"
                  \/ outPc = "disconnected"

IInv == TypeOK /\ WindowInv /\ LockInv /\ HandInv /\ StateInv /\ LossAccounted

(* mqtt_enqueue keeps mqtt_out_queue within its length: what does not fit is dropped. *)
LEMMA EnqueueKeepsType ==
  ASSUME NEW m \in OutMessages, outQ \in Seq(OutMessages), Len(outQ) =< OutCap, Enqueue(m)
  PROVE  outQ' \in Seq(OutMessages) /\ Len(outQ') =< OutCap
  <1>1. Append(outQ, m) \in Seq(OutMessages) /\ Len(Append(outQ, m)) = Len(outQ) + 1
    OBVIOUS
  <1> QED
    BY <1>1, CapAssumption, LenProperties DEF Enqueue

(* Every step of every task keeps the types and the lengths of the queues. *)
LEMMA TypeStep ==
  ASSUME TypeOK, WindowInv, HandInv, [Next]_vars
  PROVE  TypeOK'
  <1> USE CapAssumption, BoundAssumption, NamesAssumption DEF TypeOK, HandlerPcs, vars,
       brokerVars, cmdVars, outVars, envVars
  <1>1. ASSUME NEW m \in Messages, BrokerPublishes(m) PROVE TypeOK'
    BY <1>1 DEF BrokerPublishes
  <1>2. CASE BrokerReceivesAck
    <2>1. brokerQ # << >>
      BY <1>2 DEF BrokerReceivesAck, WindowInv
    <2>2. Tail(brokerQ) \in Seq(Messages)
      BY <2>1
    <2> QED
      BY <1>2, <2>2 DEF BrokerReceivesAck
  <1>3. CASE OnConnected
    BY <1>3 DEF OnConnected, BackToLoop
  <1>4. CASE OnDisconnected
    BY <1>4 DEF OnDisconnected, BackToLoop
  <1>5. CASE OnData
    <2>1. unparsed' \subseteq Commands
      BY <1>5 DEF OnData, CannotParse
    <2>2. mqttPc' \in {"enqueue", "ack", "otaRefused"}
      BY <1>5 DEF OnData
    <2> QED
      BY <1>5, <2>1, <2>2 DEF OnData
  <1>6. CASE OnDataEnqueues
    <2>1. mqttMsg \in Commands
      BY <1>6 DEF OnDataEnqueues, HandInv
    <2>2. Append(cmdQ, mqttMsg) \in Seq(Commands) /\ Len(Append(cmdQ, mqttMsg)) = Len(cmdQ) + 1
      BY <2>1
    <2>3. Len(Append(cmdQ, mqttMsg)) =< CmdCap
      BY <1>6, <2>2, LenProperties DEF OnDataEnqueues
    <2> QED
      BY <1>6, <2>2, <2>3 DEF OnDataEnqueues
  <1>7. CASE OnDataRefusesOta
    <2>1. [src |-> mqttMsg, qos |-> 1] \in OutMessages
      BY <1>7 DEF OnDataRefusesOta, HandInv, MessagePcs, OutMessages
    <2>2. outQ' \in Seq(OutMessages) /\ Len(outQ') =< OutCap
      BY <1>7, <2>1, EnqueueKeepsType DEF OnDataRefusesOta
    <2> QED
      BY <1>7, <2>2 DEF OnDataRefusesOta
  <1>8. CASE MqttAcks
    BY <1>8 DEF MqttAcks, BackToLoop
  <1>9. CASE MqttAckFails
    BY <1>9 DEF MqttAckFails, DropConnection, RunHandler
  <1>10. CASE MqttConnects
    BY <1>10 DEF MqttConnects, AtLoop, RunHandler
  <1>11. CASE MqttConnectFails
    BY <1>11 DEF MqttConnectFails, AtLoop, RunHandler
  <1>12. CASE MqttWaitOver
    BY <1>12 DEF MqttWaitOver, AtLoop
  <1>13. CASE MqttReceives
    <2>1. brokerQ[readPos + 1] \in Messages
      BY <1>13 DEF MqttReceives, WindowInv
    <2> QED
      BY <1>13, <2>1 DEF MqttReceives, AtLoop, RunHandler
  <1>14. CASE MqttPolls
    BY <1>14 DEF MqttPolls
  <1>15. CASE MqttConnectionLost
    BY <1>15 DEF MqttConnectionLost, AtLoop, DropConnection, RunHandler
  <1>16. CASE CmdReceives
    BY <1>16 DEF CmdReceives
  <1>17. CASE CmdExecutes
    BY <1>17 DEF CmdExecutes
  <1>18. CASE CmdAnswers
    <2>1. cmd \in Commands
      BY <1>18 DEF CmdAnswers, HandInv
    <2>2. [src |-> cmd, qos |-> IF cmd \in PulseCmds THEN 0 ELSE 1] \in OutMessages
      BY <2>1 DEF OutMessages, Messages
    <2>3. outQ' \in Seq(OutMessages) /\ Len(outQ') =< OutCap
      BY <1>18, <2>2, EnqueueKeepsType DEF CmdAnswers
    <2> QED
      BY <1>18, <2>1, <2>3 DEF CmdAnswers
  <1>19. CASE OutReceives
    BY <1>19 DEF OutReceives
  <1>20. CASE OutSeesConnected
    BY <1>20 DEF OutSeesConnected
  <1>21. CASE OutPublishes
    BY <1>21 DEF OutPublishes, LosesIfQos0
  <1>22. CASE OutPublishFails
    BY <1>22 DEF OutPublishFails, DropConnection, LosesIfQos0
  <1>23. CASE OutOnDisconnected
    BY <1>23 DEF OutOnDisconnected
  <1>24. CASE ProducerPublishes
    <2>1. [src |-> Event, qos |-> 1] \in OutMessages
      BY DEF OutMessages
    <2>2. outQ' \in Seq(OutMessages) /\ Len(outQ') =< OutCap
      BY <1>24, <2>1, EnqueueKeepsType DEF ProducerPublishes
    <2> QED
      BY <1>24, <2>2 DEF ProducerPublishes
  <1>25. CASE WifiClearsFlag
    <2>1. connected' \in BOOLEAN
      BY <1>25 DEF WifiClearsFlag
    <2> QED
      BY <1>25, <2>1 DEF WifiClearsFlag
  <1>26. CASE Restart
    <2>1. << >> \in Seq(Commands) /\ << >> \in Seq(OutMessages)
      OBVIOUS
    <2>2. Len(cmdQ') = 0 /\ Len(outQ') = 0
      BY <1>26 DEF Restart
    <2>3. connected' \in BOOLEAN
      BY <1>26 DEF Restart
    <2>4. restarts' \in Nat
      BY <1>26 DEF Restart
    <2> QED
      BY <1>26, <2>1, <2>2, <2>3, <2>4 DEF Restart, BackToLoop
  <1>27. CASE UNCHANGED vars
    BY <1>27
  <1> QED
    BY <1>1, <1>2, <1>3, <1>4, <1>5, <1>6, <1>7, <1>8, <1>9, <1>10, <1>11, <1>12, <1>13, <1>14,
         <1>15, <1>16, <1>17, <1>18, <1>19, <1>20, <1>21, <1>22, <1>23, <1>24, <1>25, <1>26, <1>27
    DEF Next, Broker, EventHandler, MqttLoop, CommandTask, OutTask, Environment

(* Reading and acknowledging stay in step with the broker's session queue. *)
LEMMA WindowStep ==
  ASSUME TypeOK, WindowInv, [Next]_vars
  PROVE  WindowInv'
  <1> USE DEF WindowInv, TypeOK, MessagePcs, vars, brokerVars, cmdVars, outVars, envVars
  <1>1. ASSUME NEW m \in Messages, BrokerPublishes(m) PROVE WindowInv'
    BY <1>1 DEF BrokerPublishes
  <1>2. CASE BrokerReceivesAck
    BY <1>2 DEF BrokerReceivesAck
  <1>3. CASE OnConnected
    BY <1>3 DEF OnConnected, BackToLoop
  <1>4. CASE OnDisconnected
    BY <1>4 DEF OnDisconnected, BackToLoop
  <1>5. CASE OnData
    BY <1>5 DEF OnData
  <1>6. CASE OnDataEnqueues
    BY <1>6 DEF OnDataEnqueues
  <1>7. CASE OnDataRefusesOta
    BY <1>7 DEF OnDataRefusesOta, Enqueue
  <1>8. CASE MqttAcks
    BY <1>8 DEF MqttAcks, BackToLoop
  <1>9. CASE MqttAckFails
    BY <1>9 DEF MqttAckFails, DropConnection, RunHandler
  <1>10. CASE MqttConnects
    BY <1>10 DEF MqttConnects, AtLoop, RunHandler
  <1>11. CASE MqttConnectFails
    BY <1>11 DEF MqttConnectFails, AtLoop, RunHandler
  <1>12. CASE MqttWaitOver
    BY <1>12 DEF MqttWaitOver, AtLoop
  <1>13. CASE MqttReceives
    BY <1>13 DEF MqttReceives, AtLoop, RunHandler
  <1>14. CASE MqttPolls
    BY <1>14 DEF MqttPolls
  <1>15. CASE MqttConnectionLost
    BY <1>15 DEF MqttConnectionLost, AtLoop, DropConnection, RunHandler
  <1>16. CASE CmdReceives
    BY <1>16 DEF CmdReceives
  <1>17. CASE CmdExecutes
    BY <1>17 DEF CmdExecutes
  <1>18. CASE CmdAnswers
    BY <1>18 DEF CmdAnswers, Enqueue
  <1>19. CASE OutReceives
    BY <1>19 DEF OutReceives
  <1>20. CASE OutSeesConnected
    BY <1>20 DEF OutSeesConnected
  <1>21. CASE OutPublishes
    BY <1>21 DEF OutPublishes, LosesIfQos0
  <1>22. CASE OutPublishFails
    BY <1>22 DEF OutPublishFails, DropConnection, LosesIfQos0
  <1>23. CASE OutOnDisconnected
    BY <1>23 DEF OutOnDisconnected
  <1>24. CASE ProducerPublishes
    BY <1>24 DEF ProducerPublishes, Enqueue
  <1>25. CASE WifiClearsFlag
    BY <1>25 DEF WifiClearsFlag
  <1>26. CASE Restart
    BY <1>26 DEF Restart, BackToLoop
  <1>27. CASE UNCHANGED vars
    BY <1>27
  <1> QED
    BY <1>1, <1>2, <1>3, <1>4, <1>5, <1>6, <1>7, <1>8, <1>9, <1>10, <1>11, <1>12, <1>13, <1>14,
         <1>15, <1>16, <1>17, <1>18, <1>19, <1>20, <1>21, <1>22, <1>23, <1>24, <1>25, <1>26, <1>27
    DEF Next, Broker, EventHandler, MqttLoop, CommandTask, OutTask, Environment

(* A handler takes the lock and gives it back. *)
LEMMA LockStep ==
  ASSUME TypeOK, LockInv, [Next]_vars
  PROVE  LockInv'
  <1> USE DEF LockInv, TypeOK, HandlerPcs, vars, brokerVars, cmdVars, outVars, envVars
  <1>1. ASSUME NEW m \in Messages, BrokerPublishes(m) PROVE LockInv'
    BY <1>1 DEF BrokerPublishes
  <1>2. CASE BrokerReceivesAck
    BY <1>2 DEF BrokerReceivesAck
  <1>3. CASE OnConnected
    BY <1>3 DEF OnConnected, BackToLoop
  <1>4. CASE OnDisconnected
    BY <1>4 DEF OnDisconnected, BackToLoop
  <1>5. CASE OnData
    BY <1>5 DEF OnData
  <1>6. CASE OnDataEnqueues
    BY <1>6 DEF OnDataEnqueues
  <1>7. CASE OnDataRefusesOta
    BY <1>7 DEF OnDataRefusesOta, Enqueue
  <1>8. CASE MqttAcks
    BY <1>8 DEF MqttAcks, BackToLoop
  <1>9. CASE MqttAckFails
    BY <1>9 DEF MqttAckFails, DropConnection, RunHandler
  <1>10. CASE MqttConnects
    BY <1>10 DEF MqttConnects, AtLoop, RunHandler
  <1>11. CASE MqttConnectFails
    BY <1>11 DEF MqttConnectFails, AtLoop, RunHandler
  <1>12. CASE MqttWaitOver
    BY <1>12 DEF MqttWaitOver, AtLoop
  <1>13. CASE MqttReceives
    BY <1>13 DEF MqttReceives, AtLoop, RunHandler
  <1>14. CASE MqttPolls
    BY <1>14 DEF MqttPolls
  <1>15. CASE MqttConnectionLost
    BY <1>15 DEF MqttConnectionLost, AtLoop, DropConnection, RunHandler
  <1>16. CASE CmdReceives
    BY <1>16 DEF CmdReceives
  <1>17. CASE CmdExecutes
    BY <1>17 DEF CmdExecutes
  <1>18. CASE CmdAnswers
    BY <1>18 DEF CmdAnswers, Enqueue
  <1>19. CASE OutReceives
    BY <1>19 DEF OutReceives
  <1>20. CASE OutSeesConnected
    BY <1>20 DEF OutSeesConnected
  <1>21. CASE OutPublishes
    BY <1>21 DEF OutPublishes, LosesIfQos0
  <1>22. CASE OutPublishFails
    BY <1>22 DEF OutPublishFails, DropConnection, LosesIfQos0
  <1>23. CASE OutOnDisconnected
    BY <1>23 DEF OutOnDisconnected
  <1>24. CASE ProducerPublishes
    BY <1>24 DEF ProducerPublishes, Enqueue
  <1>25. CASE WifiClearsFlag
    BY <1>25 DEF WifiClearsFlag
  <1>26. CASE Restart
    BY <1>26 DEF Restart, BackToLoop
  <1>27. CASE UNCHANGED vars
    BY <1>27
  <1> QED
    BY <1>1, <1>2, <1>3, <1>4, <1>5, <1>6, <1>7, <1>8, <1>9, <1>10, <1>11, <1>12, <1>13, <1>14,
         <1>15, <1>16, <1>17, <1>18, <1>19, <1>20, <1>21, <1>22, <1>23, <1>24, <1>25, <1>26, <1>27
    DEF Next, Broker, EventHandler, MqttLoop, CommandTask, OutTask, Environment

(* No task works on a message it has not received. *)
LEMMA HandStep ==
  ASSUME TypeOK, WindowInv, HandInv, [Next]_vars
  PROVE  HandInv'
  <1> USE NamesAssumption DEF HandInv, WindowInv, TypeOK, MessagePcs, vars, brokerVars, cmdVars,
       outVars, envVars
  <1>1. ASSUME NEW m \in Messages, BrokerPublishes(m) PROVE HandInv'
    BY <1>1 DEF BrokerPublishes
  <1>2. CASE BrokerReceivesAck
    BY <1>2 DEF BrokerReceivesAck
  <1>3. CASE OnConnected
    BY <1>3 DEF OnConnected, BackToLoop
  <1>4. CASE OnDisconnected
    BY <1>4 DEF OnDisconnected, BackToLoop
  <1>5. CASE OnData
    BY <1>5 DEF OnData
  <1>6. CASE OnDataEnqueues
    BY <1>6 DEF OnDataEnqueues
  <1>7. CASE OnDataRefusesOta
    BY <1>7 DEF OnDataRefusesOta, Enqueue
  <1>8. CASE MqttAcks
    BY <1>8 DEF MqttAcks, BackToLoop
  <1>9. CASE MqttAckFails
    BY <1>9 DEF MqttAckFails, DropConnection, RunHandler
  <1>10. CASE MqttConnects
    BY <1>10 DEF MqttConnects, AtLoop, RunHandler
  <1>11. CASE MqttConnectFails
    BY <1>11 DEF MqttConnectFails, AtLoop, RunHandler
  <1>12. CASE MqttWaitOver
    BY <1>12 DEF MqttWaitOver, AtLoop
  <1>13. CASE MqttReceives
    BY <1>13 DEF MqttReceives, AtLoop, RunHandler
  <1>14. CASE MqttPolls
    BY <1>14 DEF MqttPolls
  <1>15. CASE MqttConnectionLost
    BY <1>15 DEF MqttConnectionLost, AtLoop, DropConnection, RunHandler
  <1>16. CASE CmdReceives
    <2>1. Head(cmdQ) \in Commands
      BY <1>16 DEF CmdReceives
    <2>2. cmd' # NoMsg
      BY <1>16, <2>1 DEF CmdReceives, Messages
    <2> QED
      BY <1>16, <2>2 DEF CmdReceives
  <1>17. CASE CmdExecutes
    BY <1>17 DEF CmdExecutes
  <1>18. CASE CmdAnswers
    BY <1>18 DEF CmdAnswers, Enqueue
  <1>19. CASE OutReceives
    BY <1>19 DEF OutReceives
  <1>20. CASE OutSeesConnected
    BY <1>20 DEF OutSeesConnected
  <1>21. CASE OutPublishes
    BY <1>21 DEF OutPublishes, LosesIfQos0
  <1>22. CASE OutPublishFails
    BY <1>22 DEF OutPublishFails, DropConnection, LosesIfQos0
  <1>23. CASE OutOnDisconnected
    BY <1>23 DEF OutOnDisconnected
  <1>24. CASE ProducerPublishes
    BY <1>24 DEF ProducerPublishes, Enqueue
  <1>25. CASE WifiClearsFlag
    BY <1>25 DEF WifiClearsFlag
  <1>26. CASE Restart
    BY <1>26 DEF Restart, BackToLoop
  <1>27. CASE UNCHANGED vars
    BY <1>27
  <1> QED
    BY <1>1, <1>2, <1>3, <1>4, <1>5, <1>6, <1>7, <1>8, <1>9, <1>10, <1>11, <1>12, <1>13, <1>14,
         <1>15, <1>16, <1>17, <1>18, <1>19, <1>20, <1>21, <1>22, <1>23, <1>24, <1>25, <1>26, <1>27
    DEF Next, Broker, EventHandler, MqttLoop, CommandTask, OutTask, Environment

(* The client state and the flag agree but for the moment a handler takes. *)
LEMMA StateStep ==
  ASSUME TypeOK, LockInv, StateInv, [Next]_vars
  PROVE  StateInv'
  <1> USE DEF StateInv, LockInv, TypeOK, MessagePcs, HandlerPcs, vars, brokerVars, cmdVars, outVars, envVars
  <1>1. ASSUME NEW m \in Messages, BrokerPublishes(m) PROVE StateInv'
    BY <1>1 DEF BrokerPublishes
  <1>2. CASE BrokerReceivesAck
    BY <1>2 DEF BrokerReceivesAck
  <1>3. CASE OnConnected
    BY <1>3 DEF OnConnected, BackToLoop
  <1>4. CASE OnDisconnected
    BY <1>4 DEF OnDisconnected, BackToLoop
  <1>5. CASE OnData
    BY <1>5 DEF OnData
  <1>6. CASE OnDataEnqueues
    BY <1>6 DEF OnDataEnqueues
  <1>7. CASE OnDataRefusesOta
    BY <1>7 DEF OnDataRefusesOta, Enqueue
  <1>8. CASE MqttAcks
    BY <1>8 DEF MqttAcks, BackToLoop
  <1>9. CASE MqttAckFails
    BY <1>9 DEF MqttAckFails, DropConnection, RunHandler
  <1>10. CASE MqttConnects
    BY <1>10 DEF MqttConnects, AtLoop, RunHandler
  <1>11. CASE MqttConnectFails
    BY <1>11 DEF MqttConnectFails, AtLoop, RunHandler
  <1>12. CASE MqttWaitOver
    BY <1>12 DEF MqttWaitOver, AtLoop
  <1>13. CASE MqttReceives
    BY <1>13 DEF MqttReceives, AtLoop, RunHandler
  <1>14. CASE MqttPolls
    BY <1>14 DEF MqttPolls
  <1>15. CASE MqttConnectionLost
    BY <1>15 DEF MqttConnectionLost, AtLoop, DropConnection, RunHandler
  <1>16. CASE CmdReceives
    BY <1>16 DEF CmdReceives
  <1>17. CASE CmdExecutes
    BY <1>17 DEF CmdExecutes
  <1>18. CASE CmdAnswers
    BY <1>18 DEF CmdAnswers, Enqueue
  <1>19. CASE OutReceives
    BY <1>19 DEF OutReceives
  <1>20. CASE OutSeesConnected
    BY <1>20 DEF OutSeesConnected
  <1>21. CASE OutPublishes
    BY <1>21 DEF OutPublishes, LosesIfQos0
  <1>22. CASE OutPublishFails
    BY <1>22 DEF OutPublishFails, DropConnection, LosesIfQos0
  <1>23. CASE OutOnDisconnected
    BY <1>23 DEF OutOnDisconnected
  <1>24. CASE ProducerPublishes
    BY <1>24 DEF ProducerPublishes, Enqueue
  <1>25. CASE WifiClearsFlag
    BY <1>25 DEF WifiClearsFlag
  <1>26. CASE Restart
    BY <1>26 DEF Restart, BackToLoop
  <1>27. CASE UNCHANGED vars
    BY <1>27
  <1> QED
    BY <1>1, <1>2, <1>3, <1>4, <1>5, <1>6, <1>7, <1>8, <1>9, <1>10, <1>11, <1>12, <1>13, <1>14,
         <1>15, <1>16, <1>17, <1>18, <1>19, <1>20, <1>21, <1>22, <1>23, <1>24, <1>25, <1>26, <1>27
    DEF Next, Broker, EventHandler, MqttLoop, CommandTask, OutTask, Environment

(* Each lost answer has a lost connection of its own. *)
LEMMA LossStep ==
  ASSUME TypeOK, LockInv, StateInv, LossAccounted, [Next]_vars
  PROVE  LossAccounted'
  <1> USE DEF LossAccounted, LossInDoubt, StateInv, LockInv, TypeOK, MessagePcs, HandlerPcs,
       vars, brokerVars, cmdVars, outVars, envVars
  <1>1. ASSUME NEW m \in Messages, BrokerPublishes(m) PROVE LossAccounted'
    BY <1>1 DEF BrokerPublishes
  <1>2. CASE BrokerReceivesAck
    BY <1>2 DEF BrokerReceivesAck
  <1>3. CASE OnConnected
    BY <1>3 DEF OnConnected, BackToLoop
  <1>4. CASE OnDisconnected
    BY <1>4 DEF OnDisconnected, BackToLoop
  <1>5. CASE OnData
    BY <1>5 DEF OnData
  <1>6. CASE OnDataEnqueues
    BY <1>6 DEF OnDataEnqueues
  <1>7. CASE OnDataRefusesOta
    BY <1>7 DEF OnDataRefusesOta, Enqueue
  <1>8. CASE MqttAcks
    BY <1>8 DEF MqttAcks, BackToLoop
  <1>9. CASE MqttAckFails
    BY <1>9 DEF MqttAckFails, DropConnection, RunHandler
  <1>10. CASE MqttConnects
    BY <1>10 DEF MqttConnects, AtLoop, RunHandler
  <1>11. CASE MqttConnectFails
    BY <1>11 DEF MqttConnectFails, AtLoop, RunHandler
  <1>12. CASE MqttWaitOver
    BY <1>12 DEF MqttWaitOver, AtLoop
  <1>13. CASE MqttReceives
    BY <1>13 DEF MqttReceives, AtLoop, RunHandler
  <1>14. CASE MqttPolls
    BY <1>14 DEF MqttPolls
  <1>15. CASE MqttConnectionLost
    BY <1>15 DEF MqttConnectionLost, AtLoop, DropConnection, RunHandler
  <1>16. CASE CmdReceives
    BY <1>16 DEF CmdReceives
  <1>17. CASE CmdExecutes
    BY <1>17 DEF CmdExecutes
  <1>18. CASE CmdAnswers
    BY <1>18 DEF CmdAnswers, Enqueue
  <1>19. CASE OutReceives
    BY <1>19 DEF OutReceives
  <1>20. CASE OutSeesConnected
    BY <1>20 DEF OutSeesConnected
  <1>21. CASE OutPublishes
    BY <1>21 DEF OutPublishes, LosesIfQos0
  <1>22. CASE OutPublishFails
    BY <1>22 DEF OutPublishFails, DropConnection, LosesIfQos0
  <1>23. CASE OutOnDisconnected
    BY <1>23 DEF OutOnDisconnected
  <1>24. CASE ProducerPublishes
    BY <1>24 DEF ProducerPublishes, Enqueue
  <1>25. CASE WifiClearsFlag
    BY <1>25 DEF WifiClearsFlag
  <1>26. CASE Restart
    BY <1>26 DEF Restart, BackToLoop
  <1>27. CASE UNCHANGED vars
    BY <1>27
  <1> QED
    BY <1>1, <1>2, <1>3, <1>4, <1>5, <1>6, <1>7, <1>8, <1>9, <1>10, <1>11, <1>12, <1>13, <1>14,
         <1>15, <1>16, <1>17, <1>18, <1>19, <1>20, <1>21, <1>22, <1>23, <1>24, <1>25, <1>26, <1>27
    DEF Next, Broker, EventHandler, MqttLoop, CommandTask, OutTask, Environment

(* The five parts together are inductive. *)
LEMMA InitIInv == Init => IInv
  <1> SUFFICES ASSUME Init PROVE IInv
    OBVIOUS
  <1>1. << >> \in Seq(Messages) /\ << >> \in Seq(Commands) /\ << >> \in Seq(OutMessages)
    OBVIOUS
  <1>2. Len(brokerQ) = 0 /\ Len(cmdQ) = 0 /\ Len(outQ) = 0
    BY DEF Init
  <1>3. TypeOK
    <2>1. connected \in BOOLEAN
      BY DEF Init
    <2>2. published \subseteq Messages /\ readPos \in Int /\ acks \in Int
      BY DEF Init
    <2> QED
      BY <1>1, <1>2, <2>1, <2>2, CapAssumption DEF Init, TypeOK
  <1>4. WindowInv /\ LockInv /\ HandInv /\ StateInv /\ LossAccounted
    BY <1>2 DEF Init, WindowInv, LockInv, HandInv, StateInv, LossAccounted, LossInDoubt,
                HandlerPcs, MessagePcs
  <1> QED
    BY <1>3, <1>4 DEF IInv

LEMMA StepIInv == IInv /\ [Next]_vars => IInv'
  BY TypeStep, WindowStep, LockStep, HandStep, StateStep, LossStep DEF IInv

THEOREM Invariance == SafeSpec => []IInv
  BY InitIInv, StepIInv, PTL DEF SafeSpec

(* Every variable of the tasks, queues and connection always has its type, and *)
(* cmd_queue and mqtt_out_queue never exceed the length they are created with. *)
THEOREM TypeCorrect == SafeSpec => []TypeOK
  <1>1. IInv => TypeOK
    BY DEF IInv
  <1> QED
    BY <1>1, Invariance, PTL

(* s_mqtt_connected is never ahead of esp-mqtt once no event handler runs. *)
THEOREM FlagNeverAhead == SafeSpec => []FlagNotAhead
  <1>1. IInv => FlagNotAhead
    BY DEF IInv, FlagNotAhead, StateInv, LockInv, TypeOK, HandlerPcs
  <1> QED
    BY <1>1, Invariance, PTL

(* However the tasks interleave, each lost connection costs at most one QoS 0  *)
(* answer: the one between the check of the flag and the publication.          *)
THEOREM LossBounded == SafeSpec => []LossPerDrop
  <1>1. IInv => LossPerDrop
    BY DEF IInv, LossPerDrop, LossAccounted, TypeOK
  <1> QED
    BY <1>1, Invariance, PTL

-----------------------------------------------------------------------------
(* The pipeline implements CommandService. *)

InHand == IF cmd = NoMsg THEN << >> ELSE <<cmd>>
Accepted == InHand \o cmdQ

(* Accepting a command appends it to what the service holds.  Taking it out of *)
(* cmd_queue changes nothing for the service, returning from handle_command    *)
(* executes the oldest one.                                                    *)
LEMMA AcceptStep ==
  ASSUME IInv, OnDataEnqueues
  PROVE  \E c \in Commands : Service!Accept(c)
  <1> USE DEF IInv, TypeOK, HandInv
  <1>1. mqttMsg \in Commands
    BY DEF OnDataEnqueues
  <1>2. InHand \in Seq(Commands) /\ Len(InHand) =< 1
    BY DEF InHand
  <1>3. Len(Accepted) < CmdCap + 1
    <2>1. Len(Accepted) = Len(InHand) + Len(cmdQ)
      BY <1>2, ConcatProperties DEF Accepted
    <2>2. Len(cmdQ) < CmdCap
      BY DEF OnDataEnqueues
    <2> QED
      BY <1>2, <2>1, <2>2, CapAssumption, LenProperties
  <1>4. Accepted' = Append(Accepted, mqttMsg)
    <2>1. Append(cmdQ, mqttMsg) = cmdQ \o <<mqttMsg>>
      BY <1>1, AppendIsConcat
    <2>2. Append(Accepted, mqttMsg) = (InHand \o cmdQ) \o <<mqttMsg>>
      <3>1. InHand \o cmdQ \in Seq(Commands)
        BY <1>2, ConcatProperties
      <3> HIDE DEF IInv, TypeOK, HandInv
      <3> QED
        BY <1>1, <3>1, AppendIsConcat DEF Accepted
    <2>3. (InHand \o cmdQ) \o <<mqttMsg>> = InHand \o (cmdQ \o <<mqttMsg>>)
      BY <1>1, <1>2, ConcatAssociative
    <2>4. InHand' = InHand /\ cmdQ' = Append(cmdQ, mqttMsg)
      BY DEF OnDataEnqueues, InHand
    <2> QED
      BY <2>1, <2>2, <2>3, <2>4 DEF Accepted
  <1>5. handled' = handled
    BY DEF OnDataEnqueues
  <1> QED
    BY <1>1, <1>3, <1>4, <1>5 DEF Service!Accept, Accepted, InHand

LEMMA TakeStep ==
  ASSUME IInv, CmdReceives
  PROVE  Accepted' = Accepted /\ handled' = handled
  <1> USE DEF IInv, TypeOK, HandInv
  <1>1. InHand = << >> /\ cmdQ \in Seq(Commands) /\ cmdQ # << >>
    BY DEF CmdReceives, InHand
  <1>2. cmd' = Head(cmdQ) /\ cmdQ' = Tail(cmdQ) /\ handled' = handled
    BY DEF CmdReceives
  <1>3. Head(cmdQ) \in Commands /\ Head(cmdQ) # NoMsg
    BY <1>1, NamesAssumption DEF Messages
  <1>4. InHand' = <<Head(cmdQ)>>
    BY <1>2, <1>3 DEF InHand
  <1>5. << >> \o cmdQ = cmdQ
    BY <1>1, ConcatEmptySeq
  <1>6. <<Head(cmdQ)>> \o Tail(cmdQ) = cmdQ
    BY <1>1, ConcatProperties, HeadTailProperties
  <1> QED
    BY <1>1, <1>2, <1>4, <1>5, <1>6 DEF Accepted

LEMMA ExecuteStep ==
  ASSUME IInv, CmdAnswers
  PROVE  Service!Execute
  <1> USE DEF IInv, TypeOK, HandInv
  <1>1. cmd \in Commands /\ cmd # NoMsg
    BY NamesAssumption DEF CmdAnswers, Messages
  <1>2. Accepted = <<cmd>> \o cmdQ
    BY <1>1 DEF Accepted, InHand
  <1>3. Accepted # << >> /\ Head(Accepted) = cmd /\ Tail(Accepted) = cmdQ
    BY <1>1, <1>2, ConcatProperties
  <1>4. Accepted' = cmdQ
    BY ConcatEmptySeq DEF CmdAnswers, Accepted, InHand
  <1>5. handled' = Append(handled, cmd)
    BY DEF CmdAnswers
  <1> QED
    BY <1>3, <1>4, <1>5 DEF Service!Execute, Accepted, InHand

LEMMA RestartStep ==
  ASSUME Restart
  PROVE  Service!Reboot
  <1>1. Accepted' = << >> /\ handled' = handled
    BY ConcatEmptySeq DEF Restart, BackToLoop, Accepted, InHand
  <1> QED
    BY <1>1 DEF Service!Reboot, Accepted, InHand

(* No other step touches cmd_queue, the command in hand or what was executed. *)
Aside ==
  \/ \E m \in Messages : BrokerPublishes(m)
  \/ BrokerReceivesAck
  \/ OnConnected \/ OnDisconnected \/ OnData \/ OnDataRefusesOta \/ MqttAcks \/ MqttAckFails
  \/ MqttLoop
  \/ CmdExecutes
  \/ OutTask
  \/ ProducerPublishes \/ WifiClearsFlag

LEMMA AsideStep ==
  ASSUME Aside \/ UNCHANGED vars
  PROVE  UNCHANGED <<cmd, cmdQ, handled>>
  <1> USE DEF cmdVars, vars
  <1>1. CASE \/ \E m \in Messages : BrokerPublishes(m)
             \/ BrokerReceivesAck
    BY <1>1 DEF BrokerPublishes, BrokerReceivesAck
  <1>2. CASE OnConnected \/ OnDisconnected \/ OnData \/ OnDataRefusesOta \/ MqttAcks \/ MqttAckFails
    BY <1>2 DEF OnConnected, OnDisconnected, OnData, OnDataRefusesOta, MqttAcks, MqttAckFails
  <1>3. CASE MqttLoop
    BY <1>3 DEF MqttLoop, MqttConnects, MqttConnectFails, MqttWaitOver, MqttReceives, MqttPolls,
                MqttConnectionLost
  <1>4. CASE CmdExecutes
    BY <1>4 DEF CmdExecutes
  <1>5. CASE OutTask
    BY <1>5 DEF OutTask, OutReceives, OutSeesConnected, OutPublishes, OutPublishFails,
                OutOnDisconnected
  <1>6. CASE ProducerPublishes \/ WifiClearsFlag
    BY <1>6 DEF ProducerPublishes, WifiClearsFlag
  <1>7. CASE UNCHANGED vars
    BY <1>7
  <1> QED
    BY <1>1, <1>2, <1>3, <1>4, <1>5, <1>6, <1>7 DEF Aside

(* The pipeline of queues and tasks keeps the promise made to the server, as   *)
(* far as safety goes: commands accepted into cmd_queue are executed one at a  *)
(* time, in order, and none is forgotten but by a reboot.                      *)
ServiceSafety == Service!SafeSpec

THEOREM Implementation == SafeSpec => ServiceSafety
  <1>1. Init => Service!Init
    BY ConcatEmptySeq DEF Init, Service!Init
  <1>2. IInv /\ [Next]_vars => [Service!Next]_(Service!vars)
    <2> SUFFICES ASSUME IInv, [Next]_vars PROVE Service!Next \/ UNCHANGED Service!vars
      OBVIOUS
    <2>1. CASE OnDataEnqueues
      BY <2>1, AcceptStep DEF Service!Next
    <2>2. CASE CmdReceives
      BY <2>2, TakeStep DEF Service!vars, Accepted, InHand
    <2>3. CASE CmdAnswers
      BY <2>3, ExecuteStep DEF Service!Next
    <2>4. CASE Restart
      BY <2>4, RestartStep DEF Service!Next
    <2>5. CASE Aside \/ UNCHANGED vars
      BY <2>5, AsideStep DEF Service!vars
    <2> QED
      BY <2>1, <2>2, <2>3, <2>4, <2>5
      DEF Next, Broker, EventHandler, CommandTask, Environment, Aside
  <1> QED
    BY <1>1, <1>2, Invariance, PTL DEF SafeSpec, ServiceSafety, Service!SafeSpec

-----------------------------------------------------------------------------
(* Counting commands.                                                          *)
(* What the broker sends again if asked to: all it has that is not             *)
(* acknowledged, on its way or not.                                            *)
Unacked == {brokerQ[i] : i \in (acks + 1)..Len(brokerQ)}

(* What the device has taken over: in cmd_queue, in hand or executed.          *)
Taken == Contents(cmdQ) \cup Contents(handled) \cup {cmd} \cup unparsed

(* A message is acknowledged when it is read, handled and, if it is a command, *)
(* taken over; only commands are.                                              *)
ReadInv ==
  /\ clientState = "CONNECTED" => readPos = acks + (IF mqttPc \in MessagePcs THEN 1 ELSE 0)
  /\ mqttPc \in MessagePcs => mqttMsg = brokerQ[readPos]
  /\ mqttPc = "otaRefused" => mqttMsg \notin Commands
  /\ mqttPc = "ack" /\ mqttMsg \in Commands => mqttMsg \in Taken

(* What the broker need not keep and the device no longer has; a reboot adds   *)
(* what cmd_queue and the command task hold.                                   *)
Missing == {c \in published \cap Commands : c \notin Taken \cup Unacked}
MissingInv ==
  /\ IsFiniteSet(published)
  /\ Cardinality(Missing) =< restarts * (CmdCap + 1)

(* Every message is published once, and nothing comes from elsewhere.          *)
OnceInv ==
  /\ \A i, j \in 1..Len(brokerQ) : brokerQ[i] = brokerQ[j] => i = j
  /\ Contents(brokerQ) \subseteq published /\ Contents(cmdQ) \subseteq published
  /\ Contents(handled) \subseteq published /\ cmd \in published \cup {NoMsg}

(* The device will be given c by the event handler without a further loss.     *)
Due(c) ==
  \/ clientState = "CONNECTED" /\ \E i \in (readPos + 1)..Len(brokerQ) : brokerQ[i] = c
  \/ mqttPc \in {"data", "enqueue"} /\ mqttMsg = c
  \/ clientState # "CONNECTED" /\ c \in Contents(brokerQ)

One(b) == IF b THEN 1 ELSE 0
Executions(c) == Occurrences(handled, c) + Occurrences(cmdQ, c) + One(cmd = c) + One(Due(c))
ExecutionsInv == \A c \in Commands : Executions(c) =< 1 + drops + restarts

DeliveryInv == ReadInv /\ MissingInv /\ OnceInv /\ ExecutionsInv

-----------------------------------------------------------------------------
(* Queues as sets and as bags.                                                 *)

LEMMA ContentsAppend ==
  ASSUME NEW S, NEW q \in Seq(S), NEW e \in S
  PROVE  Contents(Append(q, e)) = Contents(q) \cup {e}
  <1>1. Append(q, e) \in Seq(S) /\ Len(Append(q, e)) = Len(q) + 1
    OBVIOUS
  <1>2. \A i \in 1..Len(q) : Append(q, e)[i] = q[i]
    OBVIOUS
  <1>3. Append(q, e)[Len(q) + 1] = e
    OBVIOUS
  <1>4. DOMAIN Append(q, e) = 1..(Len(q) + 1) /\ DOMAIN q = 1..Len(q) /\ Len(q) \in Nat
    BY <1>1, LenProperties
  <1>5. \A i \in 1..(Len(q) + 1) : i \in 1..Len(q) \/ i = Len(q) + 1
    BY <1>4
  <1>6. Len(q) + 1 \in 1..(Len(q) + 1) /\ \A i \in 1..Len(q) : i \in 1..(Len(q) + 1)
    BY <1>4
  <1> QED
    BY <1>2, <1>3, <1>4, <1>5, <1>6 DEF Contents

LEMMA ContentsHeadTail ==
  ASSUME NEW S, NEW q \in Seq(S), q # << >>
  PROVE  Contents(q) = {Head(q)} \cup Contents(Tail(q))
  <1>1. /\ Tail(q) \in Seq(S) /\ Len(Tail(q)) = Len(q) - 1 /\ Len(q) \in Nat \ {0}
        /\ Head(q) = q[1]
    OBVIOUS
  <1>2. \A i \in 1..Len(Tail(q)) : Tail(q)[i] = q[i + 1]
    OBVIOUS
  <1>3. DOMAIN Tail(q) = 1..Len(Tail(q)) /\ DOMAIN q = 1..Len(q)
    BY <1>1, LenProperties
  <1>4. \A i \in 1..Len(q) : i = 1 \/ (i - 1 \in 1..Len(Tail(q)) /\ (i - 1) + 1 = i)
    BY <1>1
  <1>5. 1 \in 1..Len(q) /\ \A i \in 1..Len(Tail(q)) : i + 1 \in 1..Len(q)
    BY <1>1
  <1>6. ASSUME NEW e \in Contents(q) PROVE e \in {Head(q)} \cup Contents(Tail(q))
    <2>1. PICK i \in 1..Len(q) : q[i] = e
      BY <1>3 DEF Contents
    <2>2. CASE i = 1
      BY <1>1, <2>1, <2>2
    <2>3. CASE i # 1
      <3>1. i - 1 \in 1..Len(Tail(q)) /\ Tail(q)[i - 1] = e
        BY <1>2, <1>4, <2>1, <2>3
      <3> QED
        BY <1>3, <3>1 DEF Contents
    <2> QED
      BY <2>2, <2>3
  <1>7. \A e \in Contents(Tail(q)) : e \in Contents(q)
    BY <1>2, <1>3, <1>5 DEF Contents
  <1>8. Head(q) \in Contents(q)
    BY <1>1, <1>3, <1>5 DEF Contents
  <1> QED
    BY <1>6, <1>7, <1>8

(* A queue holds no more messages than its length.                             *)
LEMMA ContentsBounded ==
  ASSUME NEW S, NEW q \in Seq(S)
  PROVE  IsFiniteSet(Contents(q)) /\ Cardinality(Contents(q)) =< Len(q)
  <1>1. DOMAIN q = 1..Len(q) /\ Len(q) \in Nat
    BY LenProperties
  <1>2. q \in [1..Len(q) -> Contents(q)] /\ \A e \in Contents(q) : \E i \in 1..Len(q) : q[i] = e
    BY <1>1, LenProperties DEF Contents
  <1>3. q \in Surjection(1..Len(q), Contents(q))
    BY <1>2 DEF Surjection
  <1>4. IsFiniteSet(1..Len(q)) /\ Cardinality(1..Len(q)) = Len(q)
    BY <1>1, FS_Interval
  <1> QED
    BY <1>3, <1>4, FS_Surjection

Places(q, c) == {i \in DOMAIN q : q[i] = c}

LEMMA PlacesFinite ==
  ASSUME NEW S, NEW q \in Seq(S), NEW c
  PROVE  /\ IsFiniteSet(Places(q, c)) /\ Occurrences(q, c) = Cardinality(Places(q, c))
         /\ Occurrences(q, c) \in Nat
  <1>1. IsFiniteSet(DOMAIN q) /\ Places(q, c) \subseteq DOMAIN q
    BY LenProperties, FS_Interval DEF Places
  <1>2. IsFiniteSet(Places(q, c))
    BY <1>1, FS_Subset
  <1> QED
    BY <1>2, FS_CardinalityType DEF Places, Occurrences

LEMMA OccurrencesAbsent ==
  ASSUME NEW S, NEW q \in Seq(S), NEW c, c \notin Contents(q)
  PROVE  Occurrences(q, c) = 0
  <1>1. Places(q, c) = {}
    BY DEF Places, Contents
  <1> QED
    BY <1>1, PlacesFinite, FS_EmptySet

LEMMA OccurrencesAppend ==
  ASSUME NEW S, NEW q \in Seq(S), NEW e \in S, NEW c
  PROVE  Occurrences(Append(q, e), c) = Occurrences(q, c) + One(e = c)
  <1>1. Append(q, e) \in Seq(S) /\ Len(Append(q, e)) = Len(q) + 1 /\ Len(q) \in Nat
    OBVIOUS
  <1>2. /\ \A i \in 1..Len(q) : Append(q, e)[i] = q[i]
        /\ Append(q, e)[Len(q) + 1] = e
    OBVIOUS
  <1>3. DOMAIN Append(q, e) = 1..(Len(q) + 1) /\ DOMAIN q = 1..Len(q)
    BY <1>1, LenProperties
  <1>4. Len(q) + 1 \notin Places(q, c)
    BY <1>1, <1>3 DEF Places
  <1>5. CASE e = c
    <2>1. Places(Append(q, e), c) = Places(q, c) \cup {Len(q) + 1}
      BY <1>1, <1>2, <1>3, <1>5 DEF Places
    <2>2. Cardinality(Places(q, c) \cup {Len(q) + 1}) = Cardinality(Places(q, c)) + 1
      BY <1>4, PlacesFinite, FS_AddElement
    <2> QED
      BY <1>1, <1>5, <2>1, <2>2, PlacesFinite DEF One
  <1>6. CASE e # c
    <2>1. Places(Append(q, e), c) = Places(q, c)
      BY <1>1, <1>2, <1>3, <1>6 DEF Places
    <2>2. Occurrences(Append(q, e), c) = Occurrences(q, c)
      BY <2>1 DEF Places, Occurrences
    <2> QED
      BY <1>6, <2>2, PlacesFinite DEF One
  <1> QED
    BY <1>5, <1>6

LEMMA OccurrencesHeadTail ==
  ASSUME NEW S, NEW q \in Seq(S), q # << >>, NEW c
  PROVE  Occurrences(q, c) = One(Head(q) = c) + Occurrences(Tail(q), c)
  <1> DEFINE Later == Places(q, c) \ {1}
             Shift == [i \in Places(Tail(q), c) |-> i + 1]
  <1>1. /\ Tail(q) \in Seq(S) /\ Len(Tail(q)) = Len(q) - 1 /\ Len(q) \in Nat \ {0}
        /\ Head(q) = q[1]
    OBVIOUS
  <1>2. \A i \in 1..Len(Tail(q)) : Tail(q)[i] = q[i + 1]
    OBVIOUS
  <1>3. DOMAIN Tail(q) = 1..Len(Tail(q)) /\ DOMAIN q = 1..Len(q)
    BY <1>1, LenProperties
  <1>4. \A i \in Places(Tail(q), c) : i \in Nat /\ i + 1 \in Later
    BY <1>1, <1>2, <1>3 DEF Places
  <1>5. \A i \in Later : i - 1 \in Places(Tail(q), c) /\ (i - 1) + 1 = i
    BY <1>1, <1>2, <1>3 DEF Places
  <1>6. Shift \in Bijection(Places(Tail(q), c), Later)
    <2>1. Shift \in [Places(Tail(q), c) -> Later]
      BY <1>4
    <2>2. \A i, j \in Places(Tail(q), c) : Shift[i] = Shift[j] => i = j
      BY <1>4
    <2>3. \A j \in Later : \E i \in Places(Tail(q), c) : Shift[i] = j
      BY <1>5
    <2>4. Shift \in Injection(Places(Tail(q), c), Later)
      BY <2>1, <2>2 DEF Injection, IsInjective
    <2>5. Shift \in Surjection(Places(Tail(q), c), Later)
      BY <2>1, <2>3 DEF Surjection
    <2> QED
      BY <2>4, <2>5 DEF Bijection
  <1>7. Cardinality(Later) = Occurrences(Tail(q), c)
    <2>1. ExistsBijection(Places(Tail(q), c), Later)
      BY <1>6 DEF ExistsBijection
    <2>2. IsFiniteSet(Places(Tail(q), c)) /\ Occurrences(Tail(q), c) = Cardinality(Places(Tail(q), c))
      BY <1>1, PlacesFinite
    <2> HIDE DEF Later
    <2> QED
      BY <2>1, <2>2, FS_Bijection
  <1>8. CASE Head(q) = c
    <2>1. 1 \in Places(q, c)
      BY <1>1, <1>3, <1>8 DEF Places
    <2>2. Cardinality(Later) = Cardinality(Places(q, c)) - 1
      BY <2>1, PlacesFinite, FS_RemoveElement
    <2> HIDE DEF Later
    <2> QED
      BY <1>1, <1>7, <1>8, <2>2, PlacesFinite DEF One
  <1>9. CASE Head(q) # c
    <2>1. Later = Places(q, c)
      BY <1>1, <1>9 DEF Places
    <2> HIDE DEF Later
    <2> QED
      BY <1>1, <1>7, <1>9, <2>1, PlacesFinite DEF One
  <1> QED
    BY <1>8, <1>9

-----------------------------------------------------------------------------
(* What the steps do to what is counted.                                       *)

deliveryVars ==
  <<brokerQ, published, readPos, acks, clientState, mqttPc, mqttMsg, cmd, cmdQ, handled,
    drops, restarts>>

(* The output task and the other producers have no part in the delivery.       *)
Quiet ==
  \/ MqttPolls \/ CmdExecutes
  \/ OutReceives \/ OutSeesConnected \/ OutPublishes \/ OutOnDisconnected
  \/ ProducerPublishes \/ WifiClearsFlag

LEMMA QuietStep ==
  ASSUME Quiet \/ UNCHANGED vars
  PROVE  UNCHANGED deliveryVars
  <1> USE DEF deliveryVars, vars, brokerVars, cmdVars, envVars
  <1>1. CASE MqttPolls \/ CmdExecutes
    BY <1>1 DEF MqttPolls, CmdExecutes
  <1>2. CASE OutReceives \/ OutSeesConnected \/ OutPublishes \/ OutOnDisconnected
    BY <1>2 DEF OutReceives, OutSeesConnected, OutPublishes, OutOnDisconnected
  <1>3. CASE ProducerPublishes \/ WifiClearsFlag
    BY <1>3 DEF ProducerPublishes, WifiClearsFlag
  <1>4. CASE UNCHANGED vars
    BY <1>4
  <1> QED
    BY <1>1, <1>2, <1>3, <1>4 DEF Quiet

(* A connection that goes takes the message in hand with it, whichever task    *)
(* notices.                                                                    *)
LEMMA DropStep ==
  ASSUME IInv, MqttConnectionLost \/ MqttAckFails \/ OutPublishFails
  PROVE  /\ clientState = "CONNECTED" /\ clientState' = "WAIT_RECONNECT"
         /\ drops' = drops + 1 /\ mqttPc' \notin MessagePcs
         /\ UNCHANGED <<brokerQ, published, readPos, acks, mqttMsg, cmd, cmdQ, handled, restarts>>
  <1> USE DEF IInv, LockInv, StateInv, HandlerPcs, MessagePcs, brokerVars, cmdVars, envVars,
              DropConnection, RunHandler, AtLoop
  <1>1. CASE MqttConnectionLost
    BY <1>1 DEF MqttConnectionLost
  <1>2. CASE MqttAckFails
    BY <1>2 DEF MqttAckFails
  <1>3. CASE OutPublishFails
    <2>1. mqttPc \notin MessagePcs /\ mqttPc' = mqttPc
      BY <1>3 DEF OutPublishFails
    <2> QED
      BY <1>3, <2>1 DEF OutPublishFails
  <1> QED
    BY <1>1, <1>2, <1>3

(* The history of what could not be parsed only grows.                         *)
LEMMA UnparsedGrows ==
  ASSUME [Next]_vars
  PROVE  unparsed \subseteq unparsed'
  <1>1. CASE OnData
    BY <1>1 DEF OnData, CannotParse
  <1>2. CASE ~OnData
    <2> USE <1>2 DEF envVars, vars
    <2>1. CASE Broker
      BY <2>1 DEF Broker, BrokerPublishes, BrokerReceivesAck
    <2>2. CASE EventHandler
      BY <2>2 DEF EventHandler, OnConnected, OnDisconnected, OnDataEnqueues, OnDataRefusesOta,
                  MqttAcks, MqttAckFails
    <2>3. CASE MqttLoop
      BY <2>3 DEF MqttLoop, MqttConnects, MqttConnectFails, MqttWaitOver, MqttReceives,
                  MqttPolls, MqttConnectionLost
    <2>4. CASE CommandTask
      BY <2>4 DEF CommandTask, CmdReceives, CmdExecutes, CmdAnswers
    <2>5. CASE OutTask
      BY <2>5 DEF OutTask, OutReceives, OutSeesConnected, OutPublishes, OutPublishFails,
                  OutOnDisconnected
    <2>6. CASE Environment
      BY <2>6 DEF Environment, ProducerPublishes, WifiClearsFlag, Restart
    <2> QED
      BY <2>1, <2>2, <2>3, <2>4, <2>5, <2>6 DEF Next
  <1> QED
    BY <1>1, <1>2

(* What a command task step moves stays in the device: only a reboot empties it. *)
LEMMA TakenStep ==
  ASSUME IInv, [Next]_vars, ~Restart, NEW c \in Commands
  PROVE  c \in Taken \/ (OnDataEnqueues /\ mqttMsg = c) => c \in Taken'
  <1>5. unparsed \subseteq unparsed'
    BY UnparsedGrows
  <1> USE DEF IInv, TypeOK, HandInv
  <1>1. CASE OnDataEnqueues
    <2>1. Contents(cmdQ') = Contents(cmdQ) \cup {mqttMsg}
      BY <1>1, ContentsAppend DEF OnDataEnqueues
    <2>2. handled' = handled /\ cmd' = cmd
      BY <1>1 DEF OnDataEnqueues
    <2> QED
      BY <1>5, <2>1, <2>2 DEF Taken, Contents
  <1>2. CASE CmdReceives
    <2>1. Contents(cmdQ) = {Head(cmdQ)} \cup Contents(Tail(cmdQ))
      BY <1>2, ContentsHeadTail DEF CmdReceives
    <2>2. /\ cmd' = Head(cmdQ) /\ cmdQ' = Tail(cmdQ) /\ handled' = handled /\ cmd # c
          /\ ~OnDataEnqueues
      BY <1>2, NamesAssumption DEF CmdReceives, OnDataEnqueues, Messages, cmdVars
    <2> QED
      BY <1>5, <2>1, <2>2 DEF Taken, Contents
  <1>3. CASE CmdAnswers
    <2>1. cmd \in Commands
      BY <1>3 DEF CmdAnswers
    <2>2. Contents(handled') = Contents(handled) \cup {cmd}
      BY <1>3, <2>1, ContentsAppend DEF CmdAnswers
    <2>3. cmdQ' = cmdQ /\ ~OnDataEnqueues
      BY <1>3 DEF CmdAnswers, OnDataEnqueues
    <2> QED
      BY <1>5, <2>2, <2>3 DEF Taken, Contents
  <1>4. CASE (Aside \/ UNCHANGED vars) /\ ~OnDataEnqueues
    <2>1. UNCHANGED <<cmd, cmdQ, handled>>
      BY <1>4, AsideStep
    <2> QED
      BY <1>4, <1>5, <2>1 DEF Taken, Contents
  <1> QED
    BY <1>1, <1>2, <1>3, <1>4 DEF Next, Broker, EventHandler, CommandTask, Environment, Aside

(* The broker lets go of a command only when the device has taken it over.     *)
LEMMA UnackedStep ==
  ASSUME IInv, ReadInv, [Next]_vars
  PROVE  /\ \A c \in Commands : c \in Unacked => c \in Unacked' \cup Taken
         /\ published' \subseteq published \cup Unacked'
         /\ IsFiniteSet(published) => IsFiniteSet(published')
  <1> USE DEF IInv, TypeOK, WindowInv, brokerVars
  <1>1. ASSUME NEW m \in Messages, BrokerPublishes(m)
        PROVE  /\ Unacked' = Unacked \cup {m} /\ published' = published \cup {m}
    <2>1. brokerQ' = Append(brokerQ, m) /\ acks' = acks /\ published' = published \cup {m}
      BY <1>1 DEF BrokerPublishes
    <2>2. /\ Len(brokerQ') = Len(brokerQ) + 1 /\ brokerQ'[Len(brokerQ) + 1] = m
          /\ \A i \in 1..Len(brokerQ) : brokerQ'[i] = brokerQ[i]
      BY <2>1
    <2>3. Len(brokerQ) + 1 \in (acks + 1)..Len(brokerQ')
      BY <2>2
    <2>4. \A i \in (acks + 1)..Len(brokerQ') : i = Len(brokerQ) + 1 \/ i \in (acks + 1)..Len(brokerQ)
      BY <2>2
    <2>5. \A i \in (acks + 1)..Len(brokerQ) : i \in 1..Len(brokerQ) /\ i \in (acks + 1)..Len(brokerQ')
      BY <2>2
    <2>6. Unacked' = {brokerQ'[i] : i \in (acks + 1)..Len(brokerQ')}
      BY <2>1 DEF Unacked
    <2>7. \A e \in Unacked' : e \in Unacked \cup {m}
      BY <2>2, <2>4, <2>5, <2>6 DEF Unacked
    <2>8. \A e \in Unacked : e \in Unacked'
      BY <2>2, <2>5, <2>6 DEF Unacked
    <2>9. m \in Unacked'
      BY <2>2, <2>3, <2>6
    <2> QED
      BY <2>1, <2>7, <2>8, <2>9
  <1>2. CASE BrokerReceivesAck
    <2>1. acks > 0 /\ acks' = acks - 1 /\ brokerQ' = Tail(brokerQ) /\ published' = published
      BY <1>2 DEF BrokerReceivesAck
    <2>2. /\ Len(brokerQ') = Len(brokerQ) - 1
          /\ \A i \in 1..(Len(brokerQ) - 1) : brokerQ'[i] = brokerQ[i + 1]
      BY <2>1
    <2>3. ASSUME NEW e \in Unacked PROVE e \in Unacked'
      <3>1. PICK i \in (acks + 1)..Len(brokerQ) : brokerQ[i] = e
        BY DEF Unacked
      <3>2. i - 1 \in (acks' + 1)..Len(brokerQ') /\ brokerQ'[i - 1] = e
        BY <2>1, <2>2, <3>1
      <3> QED
        BY <3>2 DEF Unacked
    <2> QED
      BY <2>1, <2>3
  <1>3. CASE MqttConnects
    <2>1. acks' = 0 /\ brokerQ' = brokerQ /\ published' = published
      BY <1>3 DEF MqttConnects
    <2>2. \A i \in (acks + 1)..Len(brokerQ) : i \in 1..Len(brokerQ)
      OBVIOUS
    <2>3. \A e \in Unacked : e \in Unacked'
      BY <2>1, <2>2 DEF Unacked
    <2> QED
      BY <2>1, <2>3
  <1>4. CASE MqttAcks
    <2>1. /\ mqttPc = "ack" /\ acks' = acks + 1 /\ brokerQ' = brokerQ /\ published' = published
      BY <1>4 DEF MqttAcks
    <2>2. readPos = acks + 1 /\ mqttMsg = brokerQ[readPos]
      BY <2>1 DEF ReadInv, StateInv, MessagePcs
    <2>3. ASSUME NEW c \in Commands, c \in Unacked PROVE c \in Unacked' \cup Taken
      <3>1. PICK i \in (acks + 1)..Len(brokerQ) : brokerQ[i] = c
        BY <2>3 DEF Unacked
      <3>2. CASE i = acks + 1
        BY <2>1, <2>2, <3>1, <3>2 DEF ReadInv
      <3>3. CASE i # acks + 1
        <4>1. i \in (acks' + 1)..Len(brokerQ')
          BY <2>1, <3>1, <3>3
        <4> QED
          BY <2>1, <3>1, <4>1 DEF Unacked
      <3> QED
        BY <3>2, <3>3
    <2> QED
      BY <2>1, <2>3
  <1>5. CASE UNCHANGED <<brokerQ, acks, published>>
    BY <1>5 DEF Unacked
  <1>6. ASSUME NEW m \in Messages, BrokerPublishes(m)
        PROVE  IsFiniteSet(published) => IsFiniteSet(published')
    <2> SUFFICES ASSUME IsFiniteSet(published) PROVE IsFiniteSet(published')
      OBVIOUS
    <2>1. IsFiniteSet(published \cup {m})
      BY FS_AddElement
    <2> QED
      BY <1>1, <1>6, <2>1
  <1>7. \/ \E m \in Messages : BrokerPublishes(m)
        \/ BrokerReceivesAck \/ MqttConnects \/ MqttAcks
        \/ UNCHANGED <<brokerQ, acks, published>>
    <2>1. CASE OnConnected \/ OnDisconnected \/ OnData \/ OnDataEnqueues \/ OnDataRefusesOta
      BY <2>1 DEF OnConnected, OnDisconnected, OnData, OnDataEnqueues, OnDataRefusesOta
    <2>2. CASE MqttConnectFails \/ MqttWaitOver \/ MqttReceives
      BY <2>2 DEF MqttConnectFails, MqttWaitOver, MqttReceives
    <2>3. CASE MqttConnectionLost \/ MqttAckFails \/ OutPublishFails
      BY <2>3, DropStep
    <2>4. CASE CmdReceives \/ CmdAnswers \/ Restart
      BY <2>4 DEF CmdReceives, CmdAnswers, Restart
    <2>5. CASE Quiet \/ UNCHANGED vars
      BY <2>5, QuietStep DEF deliveryVars
    <2> QED
      BY <2>1, <2>2, <2>3, <2>4, <2>5
      DEF Next, Broker, EventHandler, MqttLoop, CommandTask, OutTask, Environment, Quiet
  <1> QED
    BY <1>1, <1>2, <1>3, <1>4, <1>5, <1>6, <1>7

(* Messages are read, handled and acknowledged one at a time and in order.     *)
LEMMA ReadStep ==
  ASSUME IInv, IInv', ReadInv, [Next]_vars
  PROVE  ReadInv'
  <1> DEFINE Counted == clientState = "CONNECTED" =>
                          readPos = acks + (IF mqttPc \in MessagePcs THEN 1 ELSE 0)
             InHandNow == mqttPc \in MessagePcs => mqttMsg = brokerQ[readPos]
             Refused == mqttPc = "otaRefused" => mqttMsg \notin Commands
  <1>1. Counted' /\ InHandNow' /\ Refused'
    <2> USE DEF IInv, TypeOK, WindowInv, LockInv, StateInv, ReadInv, HandlerPcs, MessagePcs,
                brokerVars, cmdVars, BackToLoop, RunHandler, AtLoop
    <2>1. ASSUME NEW m \in Messages, BrokerPublishes(m) PROVE Counted' /\ InHandNow' /\ Refused'
      <3>1. \A i \in 1..Len(brokerQ) : Append(brokerQ, m)[i] = brokerQ[i]
        OBVIOUS
      <3> QED
        BY <2>1, <3>1 DEF BrokerPublishes
    <2>2. CASE BrokerReceivesAck
      <3>1. \A i \in 1..(Len(brokerQ) - 1) : Tail(brokerQ)[i] = brokerQ[i + 1]
        BY <2>2 DEF BrokerReceivesAck
      <3>2. Counted' /\ Refused'
        BY <2>2 DEF BrokerReceivesAck
      <3>3. InHandNow'
        BY <2>2, <3>1 DEF BrokerReceivesAck
      <3> QED
        BY <3>2, <3>3
    <2>3. CASE OnConnected \/ OnDisconnected
      BY <2>3 DEF OnConnected, OnDisconnected
    <2>4. CASE OnData \/ OnDataEnqueues \/ OnDataRefusesOta
      BY <2>4, KindsAssumption DEF OnData, OnDataEnqueues, OnDataRefusesOta
    <2>5. CASE MqttAcks
      BY <2>5 DEF MqttAcks
    <2>6. CASE MqttConnects
      BY <2>6 DEF MqttConnects
    <2>7. CASE MqttConnectFails \/ MqttWaitOver
      BY <2>7 DEF MqttConnectFails, MqttWaitOver
    <2>8. CASE MqttReceives
      BY <2>8 DEF MqttReceives
    <2>9. CASE MqttConnectionLost \/ MqttAckFails \/ OutPublishFails
      BY <2>9, DropStep
    <2>10. CASE CmdReceives \/ CmdAnswers
      BY <2>10 DEF CmdReceives, CmdAnswers
    <2>11. CASE Restart
      BY <2>11 DEF Restart
    <2>12. CASE Quiet \/ UNCHANGED vars
      BY <2>12, QuietStep DEF deliveryVars
    <2> QED
      BY <2>1, <2>2, <2>3, <2>4, <2>5, <2>6, <2>7, <2>8, <2>9, <2>10, <2>11, <2>12
      DEF Next, Broker, EventHandler, MqttLoop, CommandTask, OutTask, Environment, Quiet
  <1>2. ASSUME (mqttPc = "ack" /\ mqttMsg \in Commands)' PROVE mqttMsg' \in Taken'
    <2>1. ~Restart
      BY <1>2 DEF Restart, BackToLoop
    <2>2. /\ mqttMsg' = mqttMsg /\ mqttMsg \in Commands
          /\ mqttPc = "ack" \/ OnDataEnqueues \/ mqttMsg \in unparsed'
      <3> USE <1>2, KindsAssumption DEF IInv, brokerVars, cmdVars, BackToLoop, RunHandler, AtLoop
      <3>1. CASE Broker
        BY <3>1 DEF Broker, BrokerPublishes, BrokerReceivesAck
      <3>2. CASE EventHandler
        <4>1. CASE OnData
          BY <4>1 DEF OnData, CannotParse
        <4>2. CASE OnDataEnqueues
          BY <4>2 DEF OnDataEnqueues
        <4>3. CASE OnDataRefusesOta
          BY <4>3 DEF OnDataRefusesOta, ReadInv
        <4>4. CASE OnConnected \/ OnDisconnected \/ MqttAcks \/ MqttAckFails
          BY <4>4 DEF OnConnected, OnDisconnected, MqttAcks, MqttAckFails
        <4> QED
          BY <3>2, <4>1, <4>2, <4>3, <4>4 DEF EventHandler
      <3>3. CASE MqttLoop /\ ~MqttPolls
        BY <3>3 DEF MqttLoop, MqttConnects, MqttConnectFails, MqttWaitOver, MqttReceives,
                    MqttConnectionLost
      <3>4. CASE CmdReceives \/ CmdAnswers
        BY <3>4 DEF CmdReceives, CmdAnswers
      <3>5. CASE OutPublishFails
        BY <3>5 DEF OutPublishFails
      <3>6. CASE Quiet \/ UNCHANGED vars
        BY <3>6, QuietStep DEF deliveryVars
      <3> QED
        BY <2>1, <3>1, <3>2, <3>3, <3>4, <3>5, <3>6
        DEF Next, MqttLoop, CommandTask, OutTask, Environment, Quiet
    <2> QED
      <3>1. CASE mqttMsg \in unparsed'
        BY <2>2, <3>1 DEF Taken
      <3>2. CASE mqttPc = "ack" \/ OnDataEnqueues
        BY <2>1, <2>2, <3>2, TakenStep DEF ReadInv
      <3> QED
        BY <2>2, <3>1, <3>2
  <1> QED
    BY <1>1, <1>2 DEF ReadInv

(* No step but a reboot takes a command from the broker and the device both;   *)
(* a reboot takes at most what cmd_queue and the command task hold.            *)
LEMMA MissingStep ==
  ASSUME IInv, ReadInv, MissingInv, [Next]_vars
  PROVE  MissingInv'
  <1>1. IsFiniteSet(published')
    BY UnackedStep DEF MissingInv
  <1>2. IsFiniteSet(Missing) /\ Cardinality(Missing) \in Nat
    <2>1. Missing \subseteq published
      BY DEF Missing
    <2> QED
      BY <2>1, FS_Subset, FS_CardinalityType DEF MissingInv
  <1>3. CASE ~Restart
    <2>1. Missing' \subseteq Missing
      BY <1>3, TakenStep, UnackedStep DEF Missing
    <2>2. Cardinality(Missing') =< Cardinality(Missing)
      BY <1>2, <2>1, FS_Subset
    <2>3. restarts' = restarts
      <3> USE <1>3 DEF envVars
      <3>1. CASE Broker
        BY <3>1 DEF Broker, BrokerPublishes, BrokerReceivesAck
      <3>2. CASE EventHandler
        BY <3>2 DEF EventHandler, OnConnected, OnDisconnected, OnData, OnDataEnqueues,
                    OnDataRefusesOta, MqttAcks, MqttAckFails
      <3>3. CASE MqttLoop /\ ~MqttPolls
        BY <3>3 DEF MqttLoop, MqttConnects, MqttConnectFails, MqttWaitOver, MqttReceives,
                    MqttConnectionLost
      <3>4. CASE CmdReceives \/ CmdAnswers \/ OutPublishFails
        BY <3>4 DEF CmdReceives, CmdAnswers, OutPublishFails
      <3>5. CASE Quiet \/ UNCHANGED vars
        BY <3>5, QuietStep DEF deliveryVars
      <3> QED
        BY <3>1, <3>2, <3>3, <3>4, <3>5
        DEF Next, MqttLoop, CommandTask, OutTask, Environment, Quiet
    <2>4. Cardinality(Missing') =< restarts' * (CmdCap + 1)
      <3>1. Cardinality(Missing') \in Nat
        BY <1>2, <2>1, FS_Subset, FS_CardinalityType
      <3>2. restarts * (CmdCap + 1) \in Nat
        BY CapAssumption DEF IInv, TypeOK
      <3> QED
        BY <1>2, <2>2, <2>3, <3>1, <3>2 DEF MissingInv
    <2> QED
      BY <1>1, <2>4 DEF MissingInv
  <1>4. CASE Restart
    <2> DEFINE Held == Contents(cmdQ) \cup {cmd}
    <2>1. /\ published' = published /\ Unacked' = Unacked /\ handled' = handled
          /\ restarts' = restarts + 1 /\ unparsed' = unparsed
      BY <1>4 DEF Restart, brokerVars, Unacked
    <2>2. Missing' \subseteq Missing \cup Held
      BY <2>1 DEF Missing, Taken, Contents
    <2>3. IsFiniteSet(Held) /\ Cardinality(Held) =< CmdCap + 1
      <3>1. IsFiniteSet(Contents(cmdQ)) /\ Cardinality(Contents(cmdQ)) =< Len(cmdQ)
        BY ContentsBounded DEF IInv, TypeOK
      <3>2. Cardinality(Contents(cmdQ)) \in Nat
        BY <3>1, FS_CardinalityType
      <3>3. IsFiniteSet(Held) /\ Cardinality(Held) =< Cardinality(Contents(cmdQ)) + 1
        <4>1. /\ IsFiniteSet(Held)
              /\ Cardinality(Held) = IF cmd \in Contents(cmdQ) THEN Cardinality(Contents(cmdQ))
                                      ELSE Cardinality(Contents(cmdQ)) + 1
          BY <3>1, FS_AddElement, Zenon
        <4> QED
          BY <3>2, <4>1
      <3>4. Cardinality(Held) \in Nat /\ Len(cmdQ) \in Nat /\ Len(cmdQ) =< CmdCap
        BY <3>3, FS_CardinalityType DEF IInv, TypeOK
      <3> QED
        BY <3>1, <3>2, <3>3, <3>4, CapAssumption
    <2> HIDE DEF Held
    <2>4. IsFiniteSet(Missing \cup Held) /\ Cardinality(Missing \cup Held) \in Nat
      BY <1>2, <2>3, FS_Union, FS_CardinalityType
    <2>5. Cardinality(Missing \cup Held) =< Cardinality(Missing) + (CmdCap + 1)
      <3>1. /\ IsFiniteSet(Missing \cap Held)
            /\ Cardinality(Missing \cup Held)
                 = Cardinality(Missing) + Cardinality(Held) - Cardinality(Missing \cap Held)
        <4>1. Missing \cap Held \subseteq Missing
          OBVIOUS
        <4> QED
          BY <4>1, <1>2, <2>3, FS_Union, FS_Subset
      <3>2. Cardinality(Missing \cap Held) \in Nat /\ Cardinality(Held) \in Nat
        BY <2>3, <3>1, FS_CardinalityType
      <3> QED
        BY <1>2, <2>3, <2>4, <3>1, <3>2, CapAssumption
    <2>6. Cardinality(Missing') \in Nat /\ Cardinality(Missing') =< Cardinality(Missing \cup Held)
      BY <2>2, <2>4, FS_Subset, FS_CardinalityType
    <2>7. restarts * (CmdCap + 1) + (CmdCap + 1) = (restarts + 1) * (CmdCap + 1)
      BY CapAssumption DEF IInv, TypeOK
    <2>8. restarts * (CmdCap + 1) \in Nat
      BY CapAssumption DEF IInv, TypeOK
    <2>9. Cardinality(Missing') =< restarts' * (CmdCap + 1)
      BY <1>2, <2>1, <2>4, <2>5, <2>6, <2>7, <2>8, CapAssumption DEF MissingInv
    <2> QED
      BY <1>1, <2>9 DEF MissingInv
  <1> QED
    BY <1>3, <1>4

(* The device has nothing but what was published, each message once. *)
LEMMA OnceStep ==
  ASSUME IInv, ReadInv, OnceInv, [Next]_vars
  PROVE  OnceInv'
  <1> USE NamesAssumption DEF IInv, TypeOK, WindowInv, StateInv, HandInv, brokerVars, cmdVars
  <1>1. ASSUME NEW m \in Messages, BrokerPublishes(m) PROVE OnceInv'
    <2>1. Contents(brokerQ') = Contents(brokerQ) \cup {m}
      BY <1>1, ContentsAppend DEF BrokerPublishes
    <2>2. \A i, j \in 1..Len(brokerQ') : brokerQ'[i] = brokerQ'[j] => i = j
      <3>1. /\ Len(brokerQ') = Len(brokerQ) + 1 /\ brokerQ'[Len(brokerQ) + 1] = m
            /\ \A i \in 1..Len(brokerQ) : brokerQ'[i] = brokerQ[i]
        BY <1>1 DEF BrokerPublishes
      <3>2. m \notin Contents(brokerQ) /\ DOMAIN brokerQ = 1..Len(brokerQ)
        BY <1>1 DEF BrokerPublishes, OnceInv
      <3>3. \A i \in 1..Len(brokerQ) : brokerQ[i] # m
        BY <3>2 DEF Contents
      <3>4. \A i \in 1..Len(brokerQ') : i \in 1..Len(brokerQ) \/ i = Len(brokerQ) + 1
        BY <3>1
      <3>5. \A i, j \in 1..Len(brokerQ) : brokerQ[i] = brokerQ[j] => i = j
        BY DEF OnceInv
      <3>6. ASSUME NEW i \in 1..Len(brokerQ'), NEW j \in 1..Len(brokerQ'), brokerQ'[i] = brokerQ'[j]
            PROVE  i = j
        <4>1. CASE i \in 1..Len(brokerQ) /\ j \in 1..Len(brokerQ)
          BY <3>1, <3>5, <3>6, <4>1
        <4>2. CASE i = Len(brokerQ) + 1 \/ j = Len(brokerQ) + 1
          BY <3>1, <3>3, <3>4, <3>6, <4>2
        <4> QED
          BY <3>4, <4>1, <4>2
      <3> QED
        BY <3>6
    <2>3. /\ published' = published \cup {m} /\ cmdQ' = cmdQ /\ handled' = handled /\ cmd' = cmd
      BY <1>1 DEF BrokerPublishes
    <2> QED
      BY <2>1, <2>2, <2>3 DEF OnceInv
  <1>2. CASE BrokerReceivesAck
    <2>1. Contents(brokerQ) = {Head(brokerQ)} \cup Contents(brokerQ')
      BY <1>2, ContentsHeadTail DEF BrokerReceivesAck
    <2>2. \A i, j \in 1..Len(brokerQ') : brokerQ'[i] = brokerQ'[j] => i = j
      <3>1. /\ Len(brokerQ') = Len(brokerQ) - 1
            /\ \A i \in 1..(Len(brokerQ) - 1) : brokerQ'[i] = brokerQ[i + 1]
        BY <1>2 DEF BrokerReceivesAck
      <3>2. \A i \in 1..Len(brokerQ') : i + 1 \in 1..Len(brokerQ)
        BY <3>1
      <3> QED
        BY <3>1, <3>2 DEF OnceInv
    <2>3. published' = published /\ cmdQ' = cmdQ /\ handled' = handled /\ cmd' = cmd
      BY <1>2 DEF BrokerReceivesAck
    <2> QED
      BY <2>1, <2>2, <2>3 DEF OnceInv
  <1>3. CASE OnDataEnqueues
    <2>1. Contents(cmdQ') = Contents(cmdQ) \cup {mqttMsg}
      BY <1>3, ContentsAppend DEF OnDataEnqueues
    <2>2. mqttMsg \in published
      BY <1>3 DEF OnDataEnqueues, ReadInv, MessagePcs, OnceInv, Contents
    <2>3. /\ brokerQ' = brokerQ /\ published' = published /\ handled' = handled /\ cmd' = cmd
      BY <1>3 DEF OnDataEnqueues
    <2> QED
      BY <2>1, <2>2, <2>3 DEF OnceInv
  <1>4. CASE CmdReceives
    <2>1. Contents(cmdQ) = {Head(cmdQ)} \cup Contents(cmdQ') /\ cmd' = Head(cmdQ)
      BY <1>4, ContentsHeadTail DEF CmdReceives
    <2>2. brokerQ' = brokerQ /\ published' = published /\ handled' = handled
      BY <1>4 DEF CmdReceives
    <2> QED
      BY <2>1, <2>2 DEF OnceInv
  <1>5. CASE CmdAnswers
    <2>1. cmd \in Commands /\ cmd # NoMsg
      BY <1>5 DEF CmdAnswers, Messages
    <2>2. Contents(handled') = Contents(handled) \cup {cmd}
      BY <1>5, <2>1, ContentsAppend DEF CmdAnswers
    <2>3. /\ brokerQ' = brokerQ /\ published' = published /\ cmdQ' = cmdQ /\ cmd' = NoMsg
      BY <1>5 DEF CmdAnswers
    <2> QED
      BY <2>1, <2>2, <2>3 DEF OnceInv
  <1>6. CASE Restart
    BY <1>6 DEF Restart, OnceInv, Contents
  <1>7. CASE UNCHANGED <<brokerQ, published, cmdQ, handled, cmd>>
    BY <1>7 DEF OnceInv, Contents
  <1> QED
    <2>1. CASE OnConnected \/ OnDisconnected \/ OnData \/ OnDataRefusesOta \/ MqttAcks
      BY <1>7, <2>1 DEF OnConnected, OnDisconnected, OnData, OnDataRefusesOta, MqttAcks
    <2>2. CASE MqttConnects \/ MqttConnectFails \/ MqttWaitOver \/ MqttReceives
      BY <1>7, <2>2 DEF MqttConnects, MqttConnectFails, MqttWaitOver, MqttReceives
    <2>3. CASE MqttConnectionLost \/ MqttAckFails \/ OutPublishFails
      BY <1>7, <2>3, DropStep
    <2>4. CASE Quiet \/ UNCHANGED vars
      BY <1>7, <2>4, QuietStep DEF deliveryVars
    <2> QED
      BY <1>1, <1>2, <1>3, <1>4, <1>5, <1>6, <2>1, <2>2, <2>3, <2>4
      DEF Next, Broker, EventHandler, MqttLoop, CommandTask, OutTask, Environment, Quiet

(* A command becomes due again only by a lost connection or a reboot: its      *)
(* first publication aside, it is read once and enqueued once.                 *)
LEMMA DueStep ==
  ASSUME IInv, ReadInv, OnceInv, [Next]_vars, ~Restart,
         ~(MqttConnectionLost \/ MqttAckFails \/ OutPublishFails),
         NEW c \in Commands, ~BrokerPublishes(c)
  PROVE  Due(c)' => Due(c)
  <1> DEFINE Ahead == \E i \in (readPos + 1)..Len(brokerQ) : brokerQ[i] = c
  <1> USE DEF IInv, TypeOK, WindowInv, LockInv, HandInv, StateInv, ReadInv, HandlerPcs, MessagePcs,
              brokerVars, cmdVars, BackToLoop, RunHandler, AtLoop
  <1>1. ASSUME NEW m \in Messages, BrokerPublishes(m) PROVE Due(c)' => Due(c)
    <2>1. m # c /\ brokerQ' = Append(brokerQ, m)
      BY <1>1 DEF BrokerPublishes
    <2>2. UNCHANGED <<readPos, clientState, mqttPc, mqttMsg>>
      BY <1>1 DEF BrokerPublishes
    <2>3. c \in Contents(brokerQ)' => c \in Contents(brokerQ)
      BY <2>1, ContentsAppend
    <2>4. ASSUME Ahead' PROVE Ahead
      <3>1. PICK i \in (readPos + 1)..Len(brokerQ') : brokerQ'[i] = c
        BY <2>2, <2>4
      <3>2. i # Len(brokerQ) + 1 /\ Len(brokerQ') = Len(brokerQ) + 1
        BY <2>1, <3>1
      <3>3. i \in (readPos + 1)..Len(brokerQ) /\ brokerQ'[i] = brokerQ[i]
        BY <2>1, <3>2
      <3> QED
        BY <3>1, <3>3
    <2> QED
      BY <2>2, <2>3, <2>4 DEF Due
  <1>2. CASE BrokerReceivesAck
    <2>1. brokerQ' = Tail(brokerQ) /\ brokerQ # << >> /\ readPos' = readPos - 1
      BY <1>2 DEF BrokerReceivesAck
    <2>2. UNCHANGED <<clientState, mqttPc, mqttMsg>>
      BY <1>2 DEF BrokerReceivesAck
    <2>3. c \in Contents(brokerQ)' => c \in Contents(brokerQ)
      BY <2>1, ContentsHeadTail
    <2>4. ASSUME Ahead' PROVE Ahead
      <3>1. PICK i \in (readPos' + 1)..Len(brokerQ') : brokerQ'[i] = c
        BY <2>4
      <3>2. /\ Len(brokerQ') = Len(brokerQ) - 1 /\ acks > 0
            /\ \A j \in 1..(Len(brokerQ) - 1) : brokerQ'[j] = brokerQ[j + 1]
        BY <1>2, <2>1 DEF BrokerReceivesAck
      <3>3. i + 1 \in (readPos + 1)..Len(brokerQ) /\ brokerQ[i + 1] = c
        BY <2>1, <3>1, <3>2
      <3> QED
        BY <3>3
    <2> QED
      BY <2>2, <2>3, <2>4 DEF Due
  <1>3. CASE OnConnected \/ OnDisconnected
    BY <1>3 DEF OnConnected, OnDisconnected, Due, Contents
  <1>4. CASE OnData
    BY <1>4 DEF OnData, Due, Contents
  <1>5. CASE OnDataEnqueues
    BY <1>5 DEF OnDataEnqueues, Due
  <1>6. CASE OnDataRefusesOta \/ MqttAcks
    BY <1>6 DEF OnDataRefusesOta, MqttAcks, Due, Contents
  <1>7. CASE MqttConnects
    <2>1. /\ clientState = "INIT" /\ clientState' = "CONNECTED" /\ mqttPc' = "connected"
          /\ readPos' = 0 /\ brokerQ' = brokerQ
      BY <1>7 DEF MqttConnects
    <2>2. Ahead' => c \in Contents(brokerQ)
      BY <2>1, LenProperties DEF Contents
    <2> QED
      BY <2>1, <2>2 DEF Due
  <1>8. CASE MqttConnectFails \/ MqttWaitOver
    BY <1>8 DEF MqttConnectFails, MqttWaitOver, Due, Contents
  <1>9. CASE MqttReceives
    <2>1. /\ clientState = "CONNECTED" /\ clientState' = "CONNECTED"
          /\ readPos < Len(brokerQ) /\ readPos' = readPos + 1 /\ brokerQ' = brokerQ
          /\ mqttMsg' = brokerQ[readPos + 1]
      BY <1>9 DEF MqttReceives
    <2>2. Due(c)' => Ahead' \/ mqttMsg' = c
      BY <2>1 DEF Due
    <2>3. Ahead' \/ mqttMsg' = c => Ahead
      BY <2>1
    <2> QED
      BY <2>1, <2>2, <2>3 DEF Due
  <1>10. CASE CmdReceives \/ CmdAnswers
    BY <1>10 DEF CmdReceives, CmdAnswers, Due, Contents
  <1>11. CASE Quiet \/ UNCHANGED vars
    BY <1>11, QuietStep DEF deliveryVars, Due, Contents
  <1> QED
    BY <1>1, <1>2, <1>3, <1>4, <1>5, <1>6, <1>7, <1>8, <1>9, <1>10, <1>11
    DEF Next, Broker, EventHandler, MqttLoop, CommandTask, OutTask, Environment, Quiet

(* What has been enqueued is not enqueued again: it comes from the broker once. *)
LEMMA EnqueuedIsNotDue ==
  ASSUME IInv, ReadInv, OnceInv, OnDataEnqueues
  PROVE  Due(mqttMsg) /\ ~Due(mqttMsg)'
  <1> USE DEF IInv, TypeOK, WindowInv, StateInv, ReadInv, MessagePcs
  <1>1. /\ clientState = "CONNECTED" /\ mqttPc = "enqueue" /\ mqttPc' = "ack"
        /\ UNCHANGED <<brokerQ, readPos, clientState, mqttMsg>>
    BY DEF OnDataEnqueues, brokerVars
  <1>2. brokerQ[readPos] = mqttMsg /\ readPos \in 1..Len(brokerQ)
    BY <1>1
  <1>3. \A i \in (readPos + 1)..Len(brokerQ) : i \in 1..Len(brokerQ) /\ i # readPos
    BY <1>2
  <1>4. ~ \E i \in (readPos + 1)..Len(brokerQ) : brokerQ[i] = mqttMsg
    BY <1>2, <1>3 DEF OnceInv
  <1> QED
    BY <1>1, <1>4 DEF Due

(* A sum stays within a bound that grows.                                      *)
LEMMA BoundGrows ==
  ASSUME NEW m \in Int, NEW n \in Int, NEW d \in Nat, NEW r \in Nat, NEW d2 \in Nat, NEW r2 \in Nat,
         m =< n, n =< 1 + d + r, d2 >= d, r2 >= r
  PROVE  m =< 1 + d2 + r2
  OBVIOUS

(* Each execution after the first has a lost connection or a reboot of its own. *)
LEMMA ExecutionsStep ==
  ASSUME IInv, ReadInv, OnceInv, ExecutionsInv, [Next]_vars
  PROVE  ExecutionsInv'
  <1> SUFFICES ASSUME NEW c \in Commands PROVE Executions(c)' =< 1 + drops' + restarts'
    BY DEF ExecutionsInv
  <1> USE DEF IInv, TypeOK, HandInv
  <1> DEFINE H == Occurrences(handled, c)
             Q == Occurrences(cmdQ, c)
             C == One(cmd = c)
             D == One(Due(c))
  <1>1. H \in Nat /\ Q \in Nat
    BY PlacesFinite
  <1>2. C \in {0, 1} /\ D \in {0, 1} /\ D' \in {0, 1}
    BY DEF One
  <1>3. H + Q + C + D =< 1 + drops + restarts
    BY DEF ExecutionsInv, Executions
  <1>4. Executions(c)' = H' + Q' + C' + D'
    BY DEF Executions
  <1>5. UNCHANGED <<cmd, cmdQ, handled>> => H' = H /\ Q' = Q /\ C' = C
    BY DEF Occurrences, One
  <1>6. drops' \in Nat /\ restarts' \in Nat /\ drops' >= drops /\ restarts' >= restarts
    <2>1. CASE OnConnected \/ OnDisconnected \/ OnData \/ OnDataEnqueues \/ OnDataRefusesOta \/ MqttAcks
      BY <2>1 DEF OnConnected, OnDisconnected, OnData, OnDataEnqueues, OnDataRefusesOta, MqttAcks, envVars
    <2>2. CASE MqttConnects \/ MqttConnectFails \/ MqttWaitOver \/ MqttReceives \/ Broker
      BY <2>2 DEF MqttConnects, MqttConnectFails, MqttWaitOver, MqttReceives, envVars, Broker,
                  BrokerPublishes, BrokerReceivesAck
    <2>3. CASE MqttConnectionLost \/ MqttAckFails \/ OutPublishFails
      BY <2>3, DropStep
    <2>4. CASE CmdReceives \/ CmdAnswers \/ Restart
      BY <2>4 DEF CmdReceives, CmdAnswers, Restart, envVars
    <2>5. CASE Quiet \/ UNCHANGED vars
      BY <2>5, QuietStep DEF deliveryVars
    <2> QED
      BY <2>1, <2>2, <2>3, <2>4, <2>5
      DEF Next, EventHandler, MqttLoop, CommandTask, OutTask, Environment, Quiet
  <1>7. CASE Restart
    <2>1. handled' = handled /\ cmdQ' = << >> /\ cmd' = NoMsg /\ restarts' = restarts + 1
      BY <1>7 DEF Restart
    <2>2. H' = H /\ Q' = 0 /\ C' = 0
      <3>1. << >> \in Seq(Commands) /\ c \notin Contents(<< >>)
        BY DEF Contents
      <3>2. Occurrences(<< >>, c) = 0
        BY <3>1, OccurrencesAbsent
      <3>3. cmd' # c
        BY <2>1, NamesAssumption DEF Messages
      <3> QED
        BY <2>1, <3>2, <3>3 DEF Occurrences, One
    <2> QED
      BY <1>1, <1>2, <1>3, <1>4, <1>6, <2>1, <2>2
  <1>8. CASE MqttConnectionLost \/ MqttAckFails \/ OutPublishFails
    <2>1. UNCHANGED <<cmd, cmdQ, handled>> /\ drops' = drops + 1 /\ restarts' = restarts
      BY <1>8, DropStep
    <2> QED
      BY <1>1, <1>2, <1>3, <1>4, <1>5, <1>6, <2>1
  <1>9. CASE BrokerPublishes(c)
    <2>1. UNCHANGED <<cmd, cmdQ, handled>> /\ c \notin published
      BY <1>9 DEF BrokerPublishes, cmdVars
    <2>2. H = 0 /\ Q = 0
      BY <2>1, OccurrencesAbsent DEF OnceInv
    <2>3. C = 0
      BY <2>1, NamesAssumption DEF OnceInv, One, Messages
    <2> QED
      BY <1>2, <1>4, <1>5, <1>6, <2>1, <2>2, <2>3
  <1>10. CASE /\ ~Restart /\ ~(MqttConnectionLost \/ MqttAckFails \/ OutPublishFails)
              /\ ~BrokerPublishes(c)
    <2>1. D' =< D /\ (OnDataEnqueues /\ mqttMsg = c => D = 1 /\ D' = 0)
      <3>1. Due(c)' => Due(c)
        BY <1>10, DueStep
      <3>2. ASSUME OnDataEnqueues, mqttMsg = c PROVE D = 1 /\ D' = 0
        <4>1. mqttMsg' = mqttMsg
          BY <3>2 DEF OnDataEnqueues
        <4>2. Due(c) /\ ~Due(c)'
          BY <3>2, <4>1, EnqueuedIsNotDue DEF Due
        <4> QED
          BY <4>2 DEF One
      <3>3. D' =< D
        BY <3>1 DEF One
      <3> QED
        BY <3>2, <3>3
    <2>2. H' + Q' + C' + D' =< H + Q + C + D
      <3>1. CASE OnDataEnqueues
        <4>1. mqttMsg \in Commands /\ cmdQ' = Append(cmdQ, mqttMsg) /\ cmd' = cmd /\ handled' = handled
          BY <3>1 DEF OnDataEnqueues
        <4>2. Q' = Q + One(mqttMsg = c)
          BY <4>1, OccurrencesAppend
        <4>4. H' = H /\ C' = C
          BY <4>1
        <4>3. One(mqttMsg = c) + D' =< D /\ One(mqttMsg = c) \in {0, 1}
          BY <1>2, <2>1, <3>1 DEF One
        <4> QED
          BY <1>1, <1>2, <4>2, <4>3, <4>4
      <3>2. CASE CmdReceives
        <4>1. /\ cmdQ # << >> /\ cmd' = Head(cmdQ) /\ cmdQ' = Tail(cmdQ) /\ handled' = handled
              /\ cmd = NoMsg
          BY <3>2 DEF CmdReceives
        <4>2. Q = One(Head(cmdQ) = c) + Q' /\ Q' \in Nat
          <5>1. Tail(cmdQ) \in Seq(Commands) /\ cmdQ \in Seq(Commands)
            BY <4>1
          <5>2. Occurrences(cmdQ, c) = One(Head(cmdQ) = c) + Occurrences(Tail(cmdQ), c)
            BY <4>1, <5>1, OccurrencesHeadTail
          <5>3. Occurrences(Tail(cmdQ), c) \in Nat
            BY <5>1, PlacesFinite
          <5> QED
            BY <4>1, <5>2, <5>3
        <4>3. C = 0 /\ C' = One(Head(cmdQ) = c) /\ C' \in {0, 1}
          BY <4>1, NamesAssumption DEF One, Messages
        <4>4. H' = H
          BY <4>1
        <4> QED
          BY <1>1, <1>2, <2>1, <4>2, <4>3, <4>4
      <3>3. CASE CmdAnswers
        <4>1. cmd \in Commands /\ handled' = Append(handled, cmd) /\ cmdQ' = cmdQ /\ cmd' = NoMsg
          BY <3>3 DEF CmdAnswers
        <4>2. H' = H + C /\ Q' = Q
          BY <4>1, OccurrencesAppend
        <4>3. C' = 0
          BY <4>1, NamesAssumption DEF One, Messages
        <4> QED
          BY <1>1, <1>2, <2>1, <4>2, <4>3
      <3>4. CASE Aside \/ UNCHANGED vars
        BY <1>1, <1>2, <1>5, <2>1, <3>4, AsideStep
      <3> QED
        BY <1>10, <3>1, <3>2, <3>3, <3>4
        DEF Next, Broker, EventHandler, CommandTask, Environment, Aside
    <2>3. H' \in Nat /\ Q' \in Nat /\ C' \in {0, 1}
      <3>1. handled' \in Seq(Commands) /\ cmdQ' \in Seq(Commands)
        BY StepIInv
      <3> QED
        BY <3>1, PlacesFinite DEF One
    <2>5. drops \in Nat /\ restarts \in Nat
      OBVIOUS
    <2> HIDE DEF H, Q, C, D, IInv, TypeOK, HandInv
    <2>4. H' + Q' + C' + D' \in Int /\ H + Q + C + D \in Int
      BY <1>1, <1>2, <2>3
    <2>6. H' + Q' + C' + D' =< 1 + drops' + restarts'
      BY <1>3, <1>6, <2>2, <2>4, <2>5, BoundGrows
    <2> QED
      BY <1>4, <2>6
  <1> QED
    BY <1>7, <1>8, <1>9, <1>10

-----------------------------------------------------------------------------
LEMMA InitDelivery == Init => DeliveryInv
  <1> SUFFICES ASSUME Init PROVE DeliveryInv
    OBVIOUS
  <1> USE NamesAssumption, CapAssumption DEF Init
  <1>1. Contents(<< >>) = {}
    BY DEF Contents
  <1>2. ReadInv
    BY DEF ReadInv, MessagePcs
  <1>3. MissingInv
    <2>1. Missing = {}
      BY DEF Missing
    <2> QED
      BY <2>1, FS_EmptySet DEF MissingInv
  <1>4. OnceInv
    BY <1>1 DEF OnceInv
  <1>5. ExecutionsInv
    <2> SUFFICES ASSUME NEW c \in Commands PROVE Executions(c) =< 1 + drops + restarts
      BY DEF ExecutionsInv
    <2>1. << >> \in Seq(Commands) /\ c \notin Contents(<< >>)
      BY <1>1
    <2>2. Occurrences(<< >>, c) = 0
      BY <2>1, OccurrencesAbsent
    <2>3. One(cmd = c) = 0
      BY DEF One, Messages
    <2>4. One(Due(c)) = 0
      BY <1>1 DEF One, Due
    <2> QED
      BY <2>2, <2>3, <2>4 DEF Executions
  <1> QED
    BY <1>2, <1>3, <1>4, <1>5 DEF DeliveryInv

LEMMA StepDelivery == IInv /\ IInv' /\ DeliveryInv /\ [Next]_vars => DeliveryInv'
  BY ReadStep, MissingStep, OnceStep, ExecutionsStep DEF DeliveryInv

LEMMA DeliveryInvariance == SafeSpec => []DeliveryInv
  BY InitDelivery, StepDelivery, Invariance, PTL DEF SafeSpec

(* Over any number of lost connections and reboots, a command published once   *)
(* (at QoS 1, and enqueued by the event handler before it is acknowledged) is  *)
(* executed at most once more for each of them.                                *)
THEOREM ExecutionsBounded == SafeSpec => []ExecutedTwiceOnlyByLoss
  <1>1. IInv /\ DeliveryInv => ExecutedTwiceOnlyByLoss
    <2> SUFFICES ASSUME IInv, DeliveryInv, NEW c \in Commands
                 PROVE  Occurrences(handled, c) =< 1 + drops + restarts
      BY DEF ExecutedTwiceOnlyByLoss
    <2>1. Occurrences(handled, c) \in Nat /\ Occurrences(cmdQ, c) \in Nat
      BY PlacesFinite DEF IInv, TypeOK
    <2>2. One(cmd = c) \in {0, 1} /\ One(Due(c)) \in {0, 1}
      BY DEF One
    <2>3. Executions(c) =< 1 + drops + restarts
      BY DEF DeliveryInv, ExecutionsInv
    <2> QED
      BY <2>1, <2>2, <2>3 DEF Executions, IInv, TypeOK
  <1> QED
    BY <1>1, Invariance, DeliveryInvariance, PTL

(* A command leaves the broker's hands only when the device has it, so a       *)
(* reboot (the end of an OTA, a power cut) loses no more than cmd_queue and    *)
(* the command in hand, however long the queue is.                             *)
THEOREM LossByRestartBounded == SafeSpec => []LostOnlyByRestart
  <1>1. IInv /\ DeliveryInv => LostOnlyByRestart
    <2> SUFFICES ASSUME IInv, DeliveryInv PROVE LostOnlyByRestart
      OBVIOUS
    <2> DEFINE Lost == {c \in (published \cap Commands) \ unparsed :
                 c # cmd /\ c \notin Contents(brokerQ) \cup Contents(cmdQ) \cup Contents(handled)}
    <2>1. Unacked \subseteq Contents(brokerQ)
      <3>1. \A i \in (acks + 1)..Len(brokerQ) : i \in DOMAIN brokerQ
        BY LenProperties DEF IInv, TypeOK, WindowInv
      <3> QED
        BY <3>1 DEF Unacked, Contents
    <2>2. Lost \subseteq Missing
      BY <2>1 DEF Missing, Taken
    <2>3. IsFiniteSet(Missing) /\ Missing \subseteq published
      <3>1. Missing \subseteq published
        BY DEF Missing
      <3> QED
        BY <3>1, FS_Subset DEF DeliveryInv, MissingInv
    <2>4. IsFiniteSet(Lost) /\ Cardinality(Lost) =< Cardinality(Missing)
      BY <2>2, <2>3, FS_Subset
    <2>5. Cardinality(Lost) \in Nat /\ Cardinality(Missing) \in Nat
      BY <2>3, <2>4, FS_CardinalityType
    <2>6. restarts * (CmdCap + 1) \in Nat
      BY CapAssumption DEF IInv, TypeOK
    <2> QED
      BY <2>4, <2>5, <2>6 DEF DeliveryInv, MissingInv, LostOnlyByRestart
  <1> QED
    BY <1>1, Invariance, DeliveryInvariance, PTL
=============================================================================
