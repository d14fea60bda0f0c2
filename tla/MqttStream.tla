----------------------------- MODULE MqttStream -----------------------------
(***************************************************************************)
(* How esp-mqtt cuts the bytes of a connection into messages, with a read  *)
(* that may return fewer bytes than it asked for or none, one receive      *)
(* going on where the last one stopped, and messages longer than the input *)
(* buffer handed over in pieces (mqtt_message_receive, deliver_publish).   *)
(*                                                                         *)
(* External: the broker, that sends whole messages, and TCP, that brings   *)
(* the bytes in order and in any pieces.                                   *)
(***************************************************************************)
EXTENDS MqttMsg

CONSTANTS
  Messages,    \* the messages of the broker: [type, id, data]; data only for PUBLISH
  InBuffer,    \* in_buffer_length
  MaxSent,     \* bound: messages on a connection
  MaxPieces,   \* bound: bytes that have arrived one by one and not been read
  MaxConnects  \* bound: connections

ASSUME StreamAssumption == InBuffer \in Nat /\ MaxSent \in Nat /\ MaxPieces \in Nat /\ MaxConnects \in Nat

(* The client publishes and subscribes at QoS 1 and never unsubscribes.        *)
ASSUME MessagesAssumption ==
  \A m \in Messages :
    /\ m.type \in {Type.PUBLISH, Type.PUBACK, Type.SUBACK, Type.PINGRESP}
    /\ m.type # Type.PINGRESP => m.id \in 1..(256 * 256 - 1)
    /\ m.data \in Seq(0..255) /\ Len(m.data) + 5 < 128 ^ 4
    /\ m.type # Type.PUBLISH => m.data = << >>

(* A PUBLISH is handed over in pieces only if its header fits into the buffer. *)
ASSUME BufferAssumption == InBuffer >= 10

VARIABLES
  net,       \* bytes sent by the broker and not read
  arrived,   \* how many of them a read can get
  state,     \* of the client: connecting, connected, or closed
  pc,        \* idle between two receives, or what the receive does next
  buf,       \* in_buffer, up to in_buffer_read_len
  before,    \* previous_in_buffer_read_len
  rest,      \* bytes of the PUBLISH that deliver_publish has still to read
  got,       \* bytes of it delivered to the event handler
  connects,  \* connections so far
  sent,      \* history: the messages of this connection
  done,      \* history: how many messages were taken from it
  inStep,    \* history: they were those that were sent
  acked,     \* history: PUBLISH messages acknowledged before they were delivered whole
  stretched, \* history: a byte behind the header was taken for one of its length
  gaveUp     \* history: deliver_publish ended for want of data

readVars == <<net, arrived, pc, buf>>
histVars == <<done, inStep, acked, stretched, gaveUp>>
vars == <<readVars, state, before, rest, got, connects, sent, histVars>>

Topic == <<116>>
Wire(m) ==
  CASE m.type = Type.PUBLISH -> mqtt_msg_publish(Topic, m.data, 1, 0, m.id)
    [] m.type = Type.SUBACK -> fini_message(m.type, 0, 0, 0, Bytes2(m.id) \o <<0>>)
    [] m.type = Type.PINGRESP -> fini_message(m.type, 0, 0, 0, << >>)
    [] OTHER -> Answer(m.type, m.id)
Connack == fini_message(Type.CONNACK, 0, 0, 0, <<0, 0>>)

Init ==
  /\ net = Connack /\ arrived = 0 /\ state = "connecting" /\ pc = "idle" /\ buf = << >>
  /\ before = 0 /\ rest = 0 /\ got = 0 /\ connects = 1 /\ sent = << >>
  /\ done = 0 /\ inStep = TRUE /\ acked = {} /\ stretched = FALSE /\ gaveUp = FALSE

-----------------------------------------------------------------------------
(* Reads.                                                                      *)
Read(n) ==
  /\ buf' = buf \o SubSeq(net, 1, n)
  /\ net' = SubSeq(net, n + 1, Len(net)) /\ arrived' = arrived - n

(* esp_mqtt_abort_connection, or esp_mqtt_connect fails.                       *)
Closes == state' = "closed" /\ pc' = "idle"

(* A message that is refused: the stream and the client are out of step.       *)
Refuses ==
  /\ Closes /\ inStep' = FALSE
  /\ UNCHANGED <<net, arrived, buf, before, rest, got, connects, sent, done, acked, stretched, gaveUp>>

(* What is to be read next of the message that buf is the beginning of.        *)
TargetLen(b) == Min({mqtt_get_total_length(b), InBuffer})
(* The header of a long PUBLISH as the code counts it, without the two bytes   *)
(* of the length of the topic.                                                 *)
HeaderLen(b) == DataStart(b) - 2
ReadsRest == pc' = IF Len(buf') < TargetLen(buf') THEN "rest" ELSE "process"
GoesOn ==
  IF mqtt_get_total_length(buf') =< InBuffer THEN ReadsRest
  ELSE IF mqtt_get_type(buf') # Type.PUBLISH THEN pc' = "refuse"
  ELSE IF Len(buf') < FixedHeaderLen(buf') + 2 THEN pc' = "topic"
  ELSE IF HeaderLen(buf') > InBuffer THEN pc' = "refuse"
  ELSE ReadsRest

(* Mutation: only a message of which nothing but the type is there is resumed  *)
(* in its length.                                                              *)
LengthFollowsType == Len(buf) = 1

(* A receive that goes on looks at the last byte read, whatever it is.         *)
LengthFollows == Len(buf) = 1 \/ (Len(buf) < 6 /\ buf[Len(buf)] >= 128)
HeaderComplete == \E k \in 2..Len(buf) : buf[k] < 128

ReceiveFirst ==
  /\ pc = "idle" /\ state # "closed" /\ buf = << >> /\ arrived > 0
  /\ Read(1) /\ before' = 0
  /\ pc' = IF mqtt_has_valid_msg_hdr(net[1]) THEN "length" ELSE "refuse"
  /\ UNCHANGED <<state, rest, got, connects, sent, histVars>>

ReceiveResumed ==
  /\ pc = "idle" /\ state # "closed" /\ buf # << >>
  /\ UNCHANGED buf /\ before' = Len(buf)
  /\ IF LengthFollows THEN pc' = "length" ELSE GoesOn
  /\ stretched' = (stretched \/ (LengthFollows /\ HeaderComplete))
  /\ UNCHANGED <<net, arrived, state, rest, got, connects, sent, done, inStep, acked, gaveUp>>

ReadLength ==
  /\ pc = "length" /\ arrived > 0
  /\ Read(1)
  /\ IF Len(buf') < 6 /\ net[1] >= 128 THEN UNCHANGED pc ELSE GoesOn
  /\ UNCHANGED <<state, before, rest, got, connects, sent, histVars>>

(* The number of bytes asked for is right when none of the two is there.       *)
ReadTopicLen ==
  /\ pc = "topic" /\ arrived > 0
  /\ Read(Min({arrived, Len(buf) - FixedHeaderLen(buf) + 2}))
  /\ IF Len(buf') < FixedHeaderLen(buf') + 2 THEN pc' = "idle" ELSE GoesOn
  /\ UNCHANGED <<state, before, rest, got, connects, sent, histVars>>

(* Mutation: the rest of the message is read whatever its length. *)
ReadWholeRest ==
  /\ pc = "rest" /\ arrived > 0
  /\ Read(Min({arrived, mqtt_get_total_length(buf) - Len(buf)}))
  /\ pc' = IF Len(buf') < TargetLen(buf) THEN "idle" ELSE "process"
  /\ UNCHANGED <<state, before, rest, got, connects, sent, histVars>>

ReadRest ==
  /\ pc = "rest" /\ arrived > 0
  /\ Read(Min({arrived, TargetLen(buf) - Len(buf)}))
  /\ pc' = IF Len(buf') < TargetLen(buf) THEN "idle" ELSE "process"
  /\ UNCHANGED <<state, before, rest, got, connects, sent, histVars>>

(* A read gets nothing: the message goes on with the next receive, but for one *)
(* that got nothing at all, and for the CONNACK.                               *)
ReadNothing ==
  /\ pc \in {"length", "topic", "rest"} /\ arrived = 0
  /\ IF state = "connecting" \/ Len(buf) = before THEN Closes ELSE pc' = "idle" /\ UNCHANGED state
  /\ UNCHANGED <<net, arrived, buf, before, rest, got, connects, sent, histVars>>

Refused == pc = "refuse" /\ Refuses

(* The broker or the network ends the connection, and a read says so; or no    *)
(* CONNACK comes in time.                                                      *)
ConnectionLost ==
  /\ state # "closed" /\ pc \notin {"process", "refuse", "ack"}
  /\ Closes
  /\ UNCHANGED <<net, arrived, buf, before, rest, got, connects, sent, histVars>>

-----------------------------------------------------------------------------
(* mqtt_process_receive: a message is taken, rightly if the next one that was  *)
(* sent has this type, identifier and length of data.                          *)
Expected == IF done < Len(sent) THEN sent[done + 1] ELSE [type |-> 0, id |-> 0, data |-> << >>]

(* Mutation: in_buffer_read_len is not set back. *)
TakenButKept(length) ==
  /\ pc' = "idle" /\ UNCHANGED buf /\ done' = done + 1
  /\ inStep' = (inStep /\ Expected.type = mqtt_get_type(buf))

Taken(length) ==
  /\ pc' = "idle" /\ buf' = << >> /\ done' = done + 1
  /\ inStep' = (inStep /\ Expected.type = mqtt_get_type(buf)
                       /\ (Expected.type = Type.PINGRESP \/ Expected.id = mqtt_get_id(buf))
                       /\ Len(Expected.data) = length)

(* esp_mqtt_connect: the first message must be a CONNACK that accepts.         *)
ProcessConnack ==
  /\ pc = "process" /\ state = "connecting"
  /\ IF mqtt_get_type(buf) = Type.CONNACK /\ buf[4] = 0
     THEN state' = "connected" /\ pc' = "idle" /\ buf' = << >> ELSE Closes /\ UNCHANGED buf
  /\ UNCHANGED <<net, arrived, before, rest, got, connects, sent, histVars>>

(* A SUBACK without a return code is refused if the outbox has its SUBSCRIBE.  *)
ProcessAnswer ==
  /\ pc = "process" /\ state = "connected" /\ mqtt_get_type(buf) # Type.PUBLISH
  /\ \/ mqtt_get_type(buf) = Type.SUBACK /\ Len(buf) =< 4 /\ Refuses
     \/ /\ Taken(0)
        /\ UNCHANGED <<net, arrived, state, before, rest, got, connects, sent, acked, stretched, gaveUp>>

(* deliver_publish: the first MQTT_EVENT_DATA ...                              *)
DeliverFirst ==
  /\ pc = "process" /\ state = "connected" /\ mqtt_get_type(buf) = Type.PUBLISH
  /\ IF HasTopic(buf)
     THEN LET data == IF HasData(buf) THEN mqtt_get_publish_data(buf) ELSE << >>
              more == mqtt_get_total_length(buf) - Len(buf)
          IN /\ got' = Len(data) /\ rest' = IF more > 0 THEN more ELSE 0
             /\ pc' = IF more > 0 THEN "chunk" ELSE "ack"
             /\ UNCHANGED <<net, arrived, buf, state, before, connects, sent, histVars>>
     ELSE Refuses

(* ... and one for every read of the rest.                                     *)
DeliverMore ==
  /\ pc = "chunk" /\ arrived > 0
  /\ LET n == Min({arrived, rest, InBuffer}) IN
       /\ net' = SubSeq(net, n + 1, Len(net)) /\ arrived' = arrived - n
       /\ got' = got + n /\ rest' = rest - n
       /\ pc' = IF rest' = 0 THEN "ack" ELSE "chunk"
  /\ UNCHANGED <<buf, state, before, connects, sent, histVars>>

(* No data for network_timeout_ms: the read error is taken as one between two  *)
(* messages, and the message as delivered.                                     *)
ChunkTimesOut ==
  /\ pc = "chunk" /\ arrived = 0
  /\ pc' = "ack" /\ gaveUp' = TRUE
  /\ UNCHANGED <<net, arrived, buf, state, before, rest, got, connects, sent, done, inStep, acked, stretched>>

(* Mutation: acknowledged with the first piece. *)
AcksFirstPiece(ok) ==
  /\ pc \in {"chunk", "ack"} /\ mqtt_get_qos(buf) = 1
  /\ IF ok THEN /\ acked' = IF rest > 0 THEN acked \cup {mqtt_get_id(buf)} ELSE acked
                /\ Taken(got) /\ UNCHANGED state
     ELSE Closes /\ UNCHANGED <<buf, done, inStep, acked>>
  /\ UNCHANGED <<net, arrived, before, rest, got, connects, sent, stretched, gaveUp>>

(* The PUBACK is written, or the write fails.                                  *)
Acks(ok) ==
  /\ pc = "ack"
  /\ IF ok \/ mqtt_get_qos(buf) = 0
     THEN /\ acked' = IF mqtt_get_qos(buf) = 1 /\ rest > 0 THEN acked \cup {mqtt_get_id(buf)} ELSE acked
          /\ Taken(got) /\ UNCHANGED state
     ELSE Closes /\ UNCHANGED <<buf, done, inStep, acked>>
  /\ UNCHANGED <<net, arrived, before, rest, got, connects, sent, stretched, gaveUp>>

-----------------------------------------------------------------------------
BrokerSends(m) ==
  /\ state = "connected" /\ Len(sent) < MaxSent
  /\ sent' = Append(sent, m) /\ net' = net \o Wire(m)
  /\ UNCHANGED <<arrived, state, pc, buf, before, rest, got, connects, histVars>>

BytesArrive(n) ==
  /\ arrived < n /\ arrived' = n
  /\ UNCHANGED <<net, state, pc, buf, before, rest, got, connects, sent, histVars>>

(* esp_mqtt_connect starts with an empty buffer.                               *)
Reconnects ==
  /\ state = "closed" /\ connects < MaxConnects /\ connects' = connects + 1
  /\ state' = "connecting" /\ net' = Connack /\ arrived' = 0
  /\ buf' = << >> /\ before' = 0 /\ rest' = 0 /\ got' = 0
  /\ sent' = << >> /\ done' = 0 /\ inStep' = TRUE /\ stretched' = FALSE /\ gaveUp' = FALSE
  /\ acked' = {}
  /\ UNCHANGED pc

Next ==
  \/ ReceiveFirst \/ ReceiveResumed \/ ReadLength \/ ReadTopicLen \/ ReadRest \/ ReadNothing
  \/ Refused \/ ConnectionLost
  \/ ProcessConnack \/ ProcessAnswer \/ DeliverFirst \/ DeliverMore \/ ChunkTimesOut
  \/ \E ok \in BOOLEAN : Acks(ok)
  \/ \E m \in Messages : BrokerSends(m)
  \/ arrived < MaxPieces /\ arrived < Len(net) /\ BytesArrive(arrived + 1)
  \/ BytesArrive(Len(net))
  \/ Reconnects

Spec == Init /\ [][Next]_vars
-----------------------------------------------------------------------------
(* The state has its types, and the buffer its length.                         *)
TypeOK ==
  /\ net \in Seq(0..255) /\ arrived \in 0..Len(net)
  /\ state \in {"connecting", "connected", "closed"}
  /\ pc \in {"idle", "length", "topic", "rest", "process", "refuse", "chunk", "ack"}
  /\ buf \in Seq(0..255) /\ Len(buf) =< InBuffer
  /\ before \in 0..InBuffer /\ rest \in Nat /\ got \in Nat
  /\ sent \in Seq(Messages) /\ connects \in 1..MaxConnects /\ done \in Nat
  /\ {inStep, stretched, gaveUp} \subseteq BOOLEAN

(* However TCP cuts the stream, the messages that are taken from it are those  *)
(* the broker sent, whole and in order, and none is refused - but for two ways *)
(* to lose step: a receive goes on behind a byte of 128 or more, which it      *)
(* takes for one of the length (mqtt_client.c:1284), and the rest of a long    *)
(* PUBLISH is late (mqtt_client.c:1161).                                       *)
InStepUnless == inStep \/ stretched \/ gaveUp

(* When the client has read all that was sent and waits, nothing is left in    *)
(* the buffer that it should have handled, but for the same two reasons.       *)
NothingHeldBack ==
  (state = "connected" /\ pc = "idle" /\ net = << >>)
     => (done = Len(sent) /\ buf = << >>) \/ stretched \/ gaveUp

(* QoS 1: a PUBLISH is acknowledged when the event handler has had all of it,  *)
(* unless the rest of it was late.                                             *)
AckedIsWhole == acked = {} \/ gaveUp
=============================================================================
