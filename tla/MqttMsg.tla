------------------------------ MODULE MqttMsg ------------------------------
(***************************************************************************)
(* lib/mqtt_msg.c for MQTT 3.1.1: the messages of the client, and what it  *)
(* reads out of the messages of the broker.  A message is a sequence of    *)
(* bytes; a message that cannot be made is the empty one.                  *)
(***************************************************************************)
EXTENDS Integers, Sequences, FiniteSets, FiniteSetsExt

Type == [CONNECT |-> 1, CONNACK |-> 2, PUBLISH |-> 3, PUBACK |-> 4, PUBREC |-> 5, PUBREL |-> 6,
         PUBCOMP |-> 7, SUBSCRIBE |-> 8, SUBACK |-> 9, UNSUBSCRIBE |-> 10, UNSUBACK |-> 11,
         PINGREQ |-> 12, PINGRESP |-> 13, DISCONNECT |-> 14]
Failed == << >>

-----------------------------------------------------------------------------
(* Making messages.                                                            *)
Bytes2(n) == <<n \div 256, n % 256>>
String(s) == Bytes2(Len(s)) \o s

(* Seven bits in each byte, the eighth says that another one follows.          *)
LengthBytes(n) ==
  LET size == Min({k \in 1..4 : n < 128 ^ k})
  IN [k \in 1..size |-> ((n \div 128 ^ (k - 1)) % 128) + (IF k < size THEN 128 ELSE 0)]

fini_message(type, dup, qos, retain, body) ==
  IF Len(body) >= 128 ^ 4 THEN Failed
  ELSE <<16 * type + 8 * dup + 2 * qos + retain>> \o LengthBytes(Len(body)) \o body

mqtt_msg_publish(topic, data, qos, retain, id) ==
  IF topic = << >> \/ (qos > 0 /\ id = 0) THEN Failed
  ELSE fini_message(Type.PUBLISH, 0, qos, retain,
                    String(topic) \o (IF qos > 0 THEN Bytes2(id) ELSE << >>) \o data)

(* mqtt_msg_puback, pubrec, pubrel, pubcomp.                                   *)
Answer(type, id) ==
  IF id = 0 THEN Failed
  ELSE fini_message(type, 0, IF type = Type.PUBREL THEN 1 ELSE 0, 0, Bytes2(id))

-----------------------------------------------------------------------------
(* Reading messages, of which buf may hold only the beginning.                 *)
mqtt_get_type(buf) == buf[1] \div 16
mqtt_get_dup(buf) == (buf[1] \div 8) % 2
mqtt_get_qos(buf) == (buf[1] \div 2) % 4
mqtt_get_retain(buf) == buf[1] % 2

FixedHeaderLen(buf) == Min({k \in 2..Len(buf) : buf[k] < 128} \cup {Len(buf)})

(* Seven bits of each byte; beyond five of them the shift is undefined.        *)
LengthPart(buf, k) == IF k =< FixedHeaderLen(buf) THEN (buf[k] % 128) * 128 ^ (k - 2) ELSE 0
mqtt_get_total_length(buf) ==
  FixedHeaderLen(buf) + LengthPart(buf, 2) + LengthPart(buf, 3) + LengthPart(buf, 4)
    + LengthPart(buf, 5) + LengthPart(buf, 6)

mqtt_has_valid_msg_hdr(byte) ==
  LET flags == byte % 16
      type == byte \div 16
  IN \/ /\ type \in {Type.PUBREL, Type.SUBSCRIBE, Type.UNSUBSCRIBE}
        /\ flags = 2
     \/ /\ type = Type.PUBLISH
        /\ mqtt_get_qos(<<byte>>) < 3
        /\ mqtt_get_qos(<<byte>>) > 0 \/ mqtt_get_dup(<<byte>>) = 0
     \/ /\ type \in 1..14 \ {Type.PUBREL, Type.SUBSCRIBE, Type.UNSUBSCRIBE, Type.PUBLISH}
        /\ flags = 0

TopicLen(buf) == 256 * buf[FixedHeaderLen(buf) + 1] + buf[FixedHeaderLen(buf) + 2]
TopicEnd(buf) == FixedHeaderLen(buf) + 2 + TopicLen(buf)
HasTopic(buf) == FixedHeaderLen(buf) + 2 < Len(buf) /\ TopicEnd(buf) =< Len(buf)

(* Where the data of a PUBLISH begins: behind the topic and the identifier.    *)
DataStart(buf) == TopicEnd(buf) + (IF mqtt_get_qos(buf) > 0 THEN 2 ELSE 0)
HasData(buf) ==
  /\ FixedHeaderLen(buf) + 2 < Len(buf) /\ TopicEnd(buf) < Len(buf)
  /\ mqtt_get_qos(buf) > 0 => TopicEnd(buf) + 2 < Len(buf)
  /\ DataStart(buf) =< mqtt_get_total_length(buf)

mqtt_get_publish_topic(buf) == SubSeq(buf, FixedHeaderLen(buf) + 3, TopicEnd(buf))
mqtt_get_publish_data(buf) ==
  SubSeq(buf, DataStart(buf) + 1, Min({Len(buf), mqtt_get_total_length(buf)}))

mqtt_get_id(buf) ==
  CASE mqtt_get_type(buf) = Type.PUBLISH ->
         IF HasTopic(buf) /\ mqtt_get_qos(buf) > 0 /\ TopicEnd(buf) + 2 =< Len(buf)
         THEN 256 * buf[TopicEnd(buf) + 1] + buf[TopicEnd(buf) + 2] ELSE 0
    [] mqtt_get_type(buf) \in {Type[t] : t \in {"PUBACK", "PUBREC", "PUBREL", "PUBCOMP", "SUBACK",
                                              "UNSUBACK", "SUBSCRIBE", "UNSUBSCRIBE"}} ->
         IF Len(buf) >= 4 /\ buf[2] < 128 THEN 256 * buf[3] + buf[4] ELSE 0
    [] OTHER -> 0
=============================================================================
