-------------------------- MODULE MqttStreamProofs --------------------------
(***************************************************************************)
(* Proofs about MqttStream, for any messages, any input buffer that holds  *)
(* a header and however TCP cuts the bytes: what the client has read and   *)
(* what is still on its way are the messages of the broker from the one    *)
(* that comes next, and the place of the receive fits what it has read.    *)
(***************************************************************************)
EXTENDS MqttStream, TLAPS

Byte == 0..255

(* A message whose header says how long it is.                                 *)
WellFormed(w) ==
  /\ w \in Seq(Byte)
  /\ FixedHeaderLen(w) \in 2..5 /\ FixedHeaderLen(w) =< Len(w)
  /\ \A k \in 2..FixedHeaderLen(w) : w[k] < 128 <=> k = FixedHeaderLen(w)
  /\ mqtt_get_total_length(w) = Len(w)
  /\ mqtt_has_valid_msg_hdr(w[1])
  /\ Len(w) > InBuffer => mqtt_get_type(w) = Type.PUBLISH

PrefixOf(b, w) == Len(b) =< Len(w) /\ \A j \in 1..Len(b) : b[j] = w[j]

(* The messages of list from number k on are what stream has behind the first  *)
(* start bytes: at tells where each of them begins.                            *)
StandAt(at, list, k, start, stream) ==
  /\ at \in [k..(Len(list) + 1) -> Nat]
  /\ at[k] = start /\ at[Len(list) + 1] = Len(stream)
  /\ \A i, j \in k..(Len(list) + 1) : i =< j => at[i] =< at[j]
  /\ \A i \in k..Len(list) :
       /\ at[i + 1] = at[i] + Len(Wire(list[i]))
       /\ \A j \in 1..Len(Wire(list[i])) : stream[at[i] + j] = Wire(list[i])[j]

Follows(list, k, start, stream) == \E at : StandAt(at, list, k, start, stream)

(* All but the first n bytes of w are at the head of the stream, the messages  *)
(* of list from number k on behind them.                                       *)
Ahead(w, n, list, k, stream) ==
  /\ n \in 0..Len(w) /\ Len(w) - n =< Len(stream)
  /\ \A j \in 1..(Len(w) - n) : stream[j] = w[n + j]
  /\ Follows(list, k, Len(w) - n, stream)

(* The first bytes of w that the buffer takes before w is handled.             *)
Full(w) == IF Len(w) > InBuffer THEN InBuffer ELSE Len(w)

(* Where the receive is with b, a part of w, in the buffer.                    *)
Place(w, p, b) ==
  LET header == FixedHeaderLen(w) IN
  \/ p = "idle" /\ Len(b) < Len(w) /\ Len(b) =< InBuffer
  \/ p = "length" /\ Len(b) >= 1 /\ Len(b) < header
  \/ p = "topic" /\ Len(w) > InBuffer /\ header =< Len(b) /\ Len(b) < header + 2
  \/ p = "rest" /\ header =< Len(b) /\ Len(b) < Full(w)
  \/ p = "process" /\ Len(b) = Full(w)

(* The message that comes next, and the number of the one behind it.           *)
Awaited == IF state = "connecting" THEN Connack ELSE Wire(sent[done + 1])
Behind == IF state = "connecting" THEN 1 ELSE done + 2

Expecting ==
  \/ state = "connecting" /\ sent = << >> /\ done = 0
  \/ state = "connected" /\ done < Len(sent)

Reading ==
  /\ Expecting
  /\ PrefixOf(buf, Awaited) /\ Ahead(Awaited, Len(buf), sent, Behind, net)
  /\ Place(Awaited, pc, buf)

(* A PUBLISH that is being delivered, or has been.                             *)
Delivering ==
  LET m == sent[done + 1]
      w == Wire(m)
  IN /\ state = "connected" /\ done < Len(sent) /\ m.type = Type.PUBLISH
     /\ PrefixOf(buf, w) /\ Len(buf) = Full(w)
     /\ rest \in 0..Len(w) /\ got \in Nat /\ got + rest = Len(m.data)
     /\ Ahead(w, Len(w) - rest, sent, done + 2, net)
     /\ \/ pc = "chunk" /\ rest > 0
        \/ pc = "ack" /\ rest = 0

(* All that was sent has been handled.                                         *)
Quiet == state = "connected" /\ done = Len(sent) /\ pc = "idle" /\ buf = << >> /\ net = << >>

Typed ==
  /\ net \in Seq(Byte) /\ arrived \in 0..Len(net) /\ buf \in Seq(Byte)
  /\ sent \in Seq(Messages) /\ done \in 0..Len(sent)

Aligned == Typed /\ (Reading \/ Delivering \/ Quiet)

AckInv ==
  /\ (pc = "ack" /\ rest > 0) => gaveUp
  /\ acked = {} \/ gaveUp

-----------------------------------------------------------------------------
(* Bytes and lengths.                                                          *)

LEMMA MinIs ==
  ASSUME NEW S, NEW x \in S, S \subseteq Int, \A y \in S : x =< y
  PROVE  Min(S) = x
<1> DEFINE Least(z) == \A y \in S : z =< y
<1>1. x \in S /\ Least(x) OBVIOUS
<1>2. ASSUME NEW z \in S, Least(z) PROVE z = x
  BY <1>2
<1>3. Min(S) \in S /\ Least(Min(S)) BY <1>1, Zenon DEF Min
<1> QED BY <1>2, <1>3

(* The powers of 128 are divisors, and n is the sum of its digits.             *)
Digit(n, k) == (n \div 128 ^ (k - 1)) % 128

LEMMA Digits ==
  ASSUME NEW n \in Nat
  PROVE  /\ \A k \in 1..4 : Digit(n, k) \in 0..127
         /\ n < 128 ^ 1 => Digit(n, 1) * 128 ^ 0 = n
         /\ n < 128 ^ 2 => Digit(n, 1) * 128 ^ 0 + Digit(n, 2) * 128 ^ 1 = n
         /\ n < 128 ^ 3 => Digit(n, 1) * 128 ^ 0 + Digit(n, 2) * 128 ^ 1 + Digit(n, 3) * 128 ^ 2 = n
         /\ n < 128 ^ 4 => Digit(n, 1) * 128 ^ 0 + Digit(n, 2) * 128 ^ 1 + Digit(n, 3) * 128 ^ 2
                             + Digit(n, 4) * 128 ^ 3 = n
<1>1. 128 ^ 0 = 1 /\ 128 ^ 1 = 128 /\ 128 ^ 2 = 16384 /\ 128 ^ 3 = 2097152 /\ 128 ^ 4 = 268435456
  BY SMT
<1>2. /\ Digit(n, 1) = (n \div 1) % 128
      /\ Digit(n, 2) = (n \div 128) % 128
      /\ Digit(n, 3) = (n \div 16384) % 128
      /\ Digit(n, 4) = (n \div 2097152) % 128
  <2>1. 128 ^ (1 - 1) = 1 /\ 128 ^ (2 - 1) = 128 /\ 128 ^ (3 - 1) = 16384 /\ 128 ^ (4 - 1) = 2097152
    BY SMT
  <2> QED BY <2>1, SMT DEF Digit
<1>3. \A k \in 1..4 : Digit(n, k) \in 0..127
  <2>1. /\ (n \div 1) % 128 \in 0..127 /\ (n \div 128) % 128 \in 0..127
        /\ (n \div 16384) % 128 \in 0..127 /\ (n \div 2097152) % 128 \in 0..127
    BY SMT
  <2>2. /\ Digit(n, 1) \in 0..127 /\ Digit(n, 2) \in 0..127
        /\ Digit(n, 3) \in 0..127 /\ Digit(n, 4) \in 0..127
    BY <1>2, <2>1, SMT
  <2>3. ASSUME NEW k \in 1..4 PROVE k = 1 \/ k = 2 \/ k = 3 \/ k = 4 BY SMT
  <2> QED BY <2>2, <2>3
<1>4. n < 128 => ((n \div 1) % 128) * 1 = n BY SMT
<1>5. n < 16384 => ((n \div 1) % 128) * 1 + ((n \div 128) % 128) * 128 = n BY SMT
<1>6. n < 2097152 => ((n \div 1) % 128) * 1 + ((n \div 128) % 128) * 128
                       + ((n \div 16384) % 128) * 16384 = n
  BY SMT
<1>7. n < 268435456 => ((n \div 1) % 128) * 1 + ((n \div 128) % 128) * 128
                         + ((n \div 16384) % 128) * 16384 + ((n \div 2097152) % 128) * 2097152 = n
  BY SMT
<1> QED BY <1>1, <1>2, <1>3, <1>4, <1>5, <1>6, <1>7, SMT

(* The number of bytes that say how long n is.                                 *)
LEMMA LengthSize ==
  ASSUME NEW n \in Nat, n < 128 ^ 4
  PROVE  LET size == Min({k \in 1..4 : n < 128 ^ k})
         IN size \in 1..4 /\ n < 128 ^ size /\ (n < 128 ^ 1 => size = 1)
<1> DEFINE S == {k \in 1..4 : n < 128 ^ k}
<1>1. 4 \in S /\ S \subseteq 1..4 OBVIOUS
<1>2. S \subseteq Int /\ \A k \in S : n < 128 ^ k OBVIOUS
<1>3. 1 \in S <=> n < 128 ^ 1 OBVIOUS
<1> HIDE DEF S
<1>4. CASE 1 \in S
  <2>1. 1 \in S /\ \A y \in S : 1 =< y BY <1>1, <1>4
  <2>2. Min(S) = 1 BY <1>2, <2>1, MinIs
  <2> QED BY <2>1, <2>2, <1>2, <1>3, <1>4 DEF S
<1>5. CASE 1 \notin S /\ 2 \in S
  <2>1. 2 \in S /\ \A y \in S : 2 =< y BY <1>1, <1>5
  <2>2. Min(S) = 2 BY <1>2, <2>1, MinIs
  <2> QED BY <2>1, <2>2, <1>2, <1>3, <1>5 DEF S
<1>6. CASE 1 \notin S /\ 2 \notin S /\ 3 \in S
  <2>1. 3 \in S /\ \A y \in S : 3 =< y BY <1>1, <1>6
  <2>2. Min(S) = 3 BY <1>2, <2>1, MinIs
  <2> QED BY <2>1, <2>2, <1>2, <1>3, <1>6 DEF S
<1>7. CASE 1 \notin S /\ 2 \notin S /\ 3 \notin S
  <2>1. 4 \in S /\ \A y \in S : 4 =< y BY <1>1, <1>7
  <2>2. Min(S) = 4 BY <1>2, <2>1, MinIs
  <2> QED BY <2>1, <2>2, <1>2, <1>3, <1>7 DEF S
<1> QED BY <1>4, <1>5, <1>6, <1>7

(* They are bytes of 128 or more up to the last one, with seven bits of n each.*)
LEMMA LengthBytesSay ==
  ASSUME NEW n \in Nat, n < 128 ^ 4
  PROVE  LET bytes == LengthBytes(n)
             part(k) == IF k =< Len(bytes) THEN (bytes[k] % 128) * 128 ^ (k - 1) ELSE 0
         IN /\ bytes \in Seq(Byte) /\ Len(bytes) \in 1..4
            /\ \A k \in 1..Len(bytes) : bytes[k] < 128 <=> k = Len(bytes)
            /\ part(1) + part(2) + part(3) + part(4) = n
            /\ n < 128 ^ 1 => Len(bytes) = 1
<1> DEFINE size == Min({k \in 1..4 : n < 128 ^ k})
           bytes == LengthBytes(n)
           part(k) == IF k =< Len(bytes) THEN (bytes[k] % 128) * 128 ^ (k - 1) ELSE 0
<1>1. size \in 1..4 /\ n < 128 ^ size /\ (n < 128 ^ 1 => size = 1) BY LengthSize
<1>2. bytes = [k \in 1..size |-> Digit(n, k) + (IF k < size THEN 128 ELSE 0)]
  BY DEF LengthBytes, Digit
<1>3. \A k \in 1..4 : Digit(n, k) \in 0..127 BY Digits
<1> HIDE DEF size, bytes
<1>4. \A k \in 1..size : bytes[k] = Digit(n, k) + (IF k < size THEN 128 ELSE 0) BY <1>2
<1>5. bytes \in Seq(Byte) /\ Len(bytes) = size
  <2>1. \A k \in 1..size : bytes[k] \in Byte BY <1>1, <1>3, <1>4 DEF Byte
  <2>2. bytes \in [1..size -> Byte] BY <1>2, <2>1
  <2> QED BY <2>2, <1>1
<1>6. \A k \in 1..size : bytes[k] < 128 <=> k = size BY <1>1, <1>3, <1>4
<1>7. \A k \in 1..size : bytes[k] % 128 = Digit(n, k) BY <1>1, <1>3, <1>4
<1>8. \A k \in 1..4 : part(k) = IF k =< size THEN Digit(n, k) * 128 ^ (k - 1) ELSE 0
  BY <1>1, <1>5, <1>7
<1>9. part(1) + part(2) + part(3) + part(4) = n
  <2>1. /\ part(1) = Digit(n, 1) * 128 ^ 0
        /\ part(2) = IF 2 =< size THEN Digit(n, 2) * 128 ^ 1 ELSE 0
        /\ part(3) = IF 3 =< size THEN Digit(n, 3) * 128 ^ 2 ELSE 0
        /\ part(4) = IF 4 =< size THEN Digit(n, 4) * 128 ^ 3 ELSE 0
    BY <1>1, <1>8
  <2> HIDE DEF part
  <2>2. size = 1 \/ size = 2 \/ size = 3 \/ size = 4 BY <1>1
  <2>3. CASE size = 1 BY <1>1, <1>3, <2>1, <2>3, Digits
  <2>4. CASE size = 2 BY <1>1, <1>3, <2>1, <2>4, Digits
  <2>5. CASE size = 3 BY <1>1, <1>3, <2>1, <2>5, Digits
  <2>6. CASE size = 4 BY <1>1, <1>3, <2>1, <2>6, Digits
  <2> QED BY <2>2, <2>3, <2>4, <2>5, <2>6
<1>10. n < 128 ^ 1 => Len(bytes) = 1 BY <1>1, <1>5
<1> QED BY <1>1, <1>5, <1>6, <1>9, <1>10 DEF bytes

-----------------------------------------------------------------------------
(* The header of a message, and of the beginning of one.                       *)

HeaderEnds(w, F) ==
  w \in Seq(Byte) /\ F \in 2..Len(w) /\ \A k \in 2..F : w[k] < 128 <=> k = F

LEMMA HeaderLength ==
  ASSUME NEW w, NEW F, HeaderEnds(w, F)
  PROVE  FixedHeaderLen(w) = F
<1> DEFINE S == {k \in 2..Len(w) : w[k] < 128} \cup {Len(w)}
<1>1. F \in S /\ S \subseteq Int BY DEF HeaderEnds
<1>2. \A y \in S : F =< y BY DEF HeaderEnds, Byte
<1>3. Min(S) = F BY <1>1, <1>2, MinIs
<1> QED BY <1>3 DEF FixedHeaderLen

LEMMA PrefixHeader ==
  ASSUME NEW w, NEW b \in Seq(Byte), WellFormed(w), PrefixOf(b, w), Len(b) >= FixedHeaderLen(w)
  PROVE  /\ FixedHeaderLen(b) = FixedHeaderLen(w)
         /\ mqtt_get_total_length(b) = Len(w)
         /\ mqtt_get_type(b) = mqtt_get_type(w)
         /\ mqtt_get_qos(b) = mqtt_get_qos(w)
<1> DEFINE F == FixedHeaderLen(w)
<1>1. /\ w \in Seq(Byte) /\ F \in 2..5 /\ F =< Len(w) /\ mqtt_get_total_length(w) = Len(w)
      /\ \A k \in 2..F : w[k] < 128 <=> k = F
  BY DEF WellFormed
<1> HIDE DEF F
<1>2. Len(b) \in Nat /\ \A j \in 1..Len(b) : b[j] = w[j] BY DEF PrefixOf
<1>3. F =< Len(b) BY DEF F
<1>4. \A k \in 1..F : b[k] = w[k] BY <1>1, <1>2, <1>3
<1>5. HeaderEnds(b, F) BY <1>1, <1>2, <1>3, <1>4 DEF HeaderEnds
<1>6. FixedHeaderLen(b) = F BY <1>5, HeaderLength
<1>7. \A k \in 2..6 : LengthPart(b, k) = LengthPart(w, k)
  BY <1>1, <1>4, <1>6 DEF LengthPart, F
<1>8. mqtt_get_total_length(b) = mqtt_get_total_length(w)
  BY <1>6, <1>7 DEF mqtt_get_total_length, F
<1>9. b[1] = w[1] BY <1>1, <1>4
<1> QED BY <1>1, <1>6, <1>8, <1>9 DEF F, mqtt_get_type, mqtt_get_qos

(* What fini_message puts together.                                            *)
LEMMA Framed ==
  ASSUME NEW h \in Byte, NEW body \in Seq(Byte), Len(body) < 128 ^ 4
  PROVE  LET w == <<h>> \o LengthBytes(Len(body)) \o body
             F == FixedHeaderLen(w)
         IN /\ w \in Seq(Byte) /\ Len(w) = F + Len(body) /\ w[1] = h
            /\ F \in 2..5 /\ (Len(body) < 128 ^ 1 => F = 2)
            /\ \A k \in 2..F : w[k] < 128 <=> k = F
            /\ \A j \in 1..Len(body) : w[F + j] = body[j]
            /\ mqtt_get_total_length(w) = Len(w)
<1> DEFINE n == Len(body)
           bytes == LengthBytes(n)
           part(k) == IF k =< Len(bytes) THEN (bytes[k] % 128) * 128 ^ (k - 1) ELSE 0
           w == <<h>> \o bytes \o body
           F == 1 + Len(bytes)
<1>1. n \in Nat /\ n < 128 ^ 4 OBVIOUS
<1> HIDE DEF n
<1>2. /\ bytes \in Seq(Byte) /\ Len(bytes) \in 1..4
      /\ \A k \in 1..Len(bytes) : bytes[k] < 128 <=> k = Len(bytes)
      /\ part(1) + part(2) + part(3) + part(4) = n
      /\ n < 128 ^ 1 => Len(bytes) = 1
  BY <1>1, LengthBytesSay
<1> HIDE DEF bytes, part
<1>3. F \in 2..5 /\ (n < 128 ^ 1 => F = 2)
  <2>1. Len(bytes) \in 1..4 BY <1>2
  <2>2. n < 128 ^ 1 => Len(bytes) = 1 BY <1>2
  <2>3. n < 128 ^ 1 => F = 2
    <3> HAVE n < 128 ^ 1
    <3>1. Len(bytes) = 1 BY <2>2
    <3> QED BY <3>1
  <2>4. \A i \in 1..4 : 1 + i \in 2..5 OBVIOUS
  <2> QED BY <2>1, <2>3, <2>4
<1>4. w \in Seq(Byte) /\ Len(w) = F + n /\ w[1] = h BY <1>1, <1>2 DEF n
<1>5. \A k \in 2..F : w[k] = bytes[k - 1] BY <1>2
<1>6. \A j \in 1..n : w[F + j] = body[j] BY <1>2 DEF n
<1>7. \A k \in 2..F : w[k] < 128 <=> k = F
  <2> TAKE k \in 2..F
  <2>1. k - 1 \in 1..Len(bytes) BY <1>2
  <2> QED BY <1>2, <1>5, <2>1
<1> HIDE DEF w
<1>8. HeaderEnds(w, F) BY <1>1, <1>3, <1>4, <1>7 DEF HeaderEnds
<1>9. FixedHeaderLen(w) = F BY <1>8, HeaderLength
<1>10. mqtt_get_total_length(w) = Len(w)
  <2>1. \A k \in 2..5 : LengthPart(w, k) = part(k - 1)
    <3> TAKE k \in 2..5
    <3>1. k =< F <=> k - 1 =< Len(bytes) BY <1>2
    <3>2. k =< F => w[k] = bytes[k - 1] BY <1>5
    <3>3. k - 2 = (k - 1) - 1 OBVIOUS
    <3> QED BY <1>9, <3>1, <3>2, <3>3 DEF LengthPart, part
  <2>2. LengthPart(w, 6) = 0 BY <1>3, <1>9 DEF LengthPart
  <2>3. /\ LengthPart(w, 2) = part(1) /\ LengthPart(w, 3) = part(2)
        /\ LengthPart(w, 4) = part(3) /\ LengthPart(w, 5) = part(4)
    BY <2>1
  <2>4. \A k \in 1..4 : part(k) \in Int
    <3> TAKE k \in 1..4
    <3>1. 128 ^ (k - 1) \in Int OBVIOUS
    <3>2. k =< Len(bytes) => bytes[k] \in Int
      <4> SUFFICES ASSUME k =< Len(bytes) PROVE bytes[k] \in Int OBVIOUS
      <4>1. bytes[k] \in Byte BY <1>2
      <4>2. Byte \subseteq Int BY DEF Byte
      <4> QED BY <4>1, <4>2
    <3> QED BY <1>2, <3>1, <3>2 DEF part
  <2>5. F \in Nat BY <1>3
  <2> HIDE DEF F
  <2>6. mqtt_get_total_length(w) = F + (part(1) + part(2) + part(3) + part(4))
    <3>1. mqtt_get_total_length(w) =
            F + LengthPart(w, 2) + LengthPart(w, 3) + LengthPart(w, 4)
              + LengthPart(w, 5) + LengthPart(w, 6)
      BY <1>9 DEF mqtt_get_total_length
    <3> DEFINE a == part(1)
               b == part(2)
               c == part(3)
               d == part(4)
    <3>2. mqtt_get_total_length(w) = F + a + b + c + d + 0 BY <2>2, <2>3, <3>1
    <3>3. a \in Int /\ b \in Int /\ c \in Int /\ d \in Int BY <2>4
    <3>4. mqtt_get_total_length(w) = F + (a + b + c + d)
      <4> HIDE DEF a, b, c, d
      <4> QED BY <2>5, <3>2, <3>3
    <3> QED BY <3>4
  <2>7. part(1) + part(2) + part(3) + part(4) = n BY <1>2
  <2>8. Len(w) = F + n BY <1>4
  <2> QED BY <2>6, <2>7, <2>8
<1> QED BY <1>3, <1>4, <1>6, <1>7, <1>9, <1>10 DEF w, n, bytes

-----------------------------------------------------------------------------
(* The messages of the broker.                                                 *)

Kinds == {Type.CONNACK, Type.PUBLISH, Type.PUBACK, Type.SUBACK, Type.PINGRESP}

LEMMA KindsAre ==
  /\ Type.CONNACK = 2 /\ Type.PUBLISH = 3 /\ Type.PUBACK = 4 /\ Type.PUBREL = 6
  /\ Type.SUBSCRIBE = 8 /\ Type.SUBACK = 9 /\ Type.UNSUBSCRIBE = 10 /\ Type.PINGRESP = 13
  /\ Kinds = {2, 3, 4, 9, 13}
BY DEF Type, Kinds

LEMMA FirstByte ==
  ASSUME NEW type \in Kinds, NEW qos \in 0..1, qos = 1 <=> type = Type.PUBLISH
  PROVE  LET h == 16 * type + 8 * 0 + 2 * qos + 0
         IN h \in Byte /\ h \div 16 = type /\ (h \div 2) % 4 = qos /\ mqtt_has_valid_msg_hdr(h)
<1> DEFINE h == 16 * type + 8 * 0 + 2 * qos + 0
<1>1. type \in {2, 3, 4, 9, 13} /\ (qos = 1 <=> type = 3) BY KindsAre
<1>2. h \in Byte /\ h \div 16 = type /\ (h \div 2) % 4 = qos BY <1>1 DEF Byte
<1>3. mqtt_has_valid_msg_hdr(h)
  <2>1. CASE type = 3
    <3>1. h = 50 /\ 50 \div 16 = 3 /\ (50 \div 2) % 4 = 1 BY <1>1, <2>1
    <3>2. mqtt_get_qos(<<50>>) = 1 BY <3>1 DEF mqtt_get_qos
    <3>3. h \div 16 = Type.PUBLISH BY <3>1, KindsAre
    <3> HIDE DEF h
    <3> QED BY <3>1, <3>2, <3>3 DEF mqtt_has_valid_msg_hdr
  <2>2. CASE type # 3
    <3>1. h % 16 = 0 /\ h \div 16 = type BY <1>1, <2>2
    <3>2. type \in 1..14 \ {Type.PUBREL, Type.SUBSCRIBE, Type.UNSUBSCRIBE, Type.PUBLISH}
      BY <1>1, <2>2, KindsAre
    <3> HIDE DEF h
    <3> QED BY <3>1, <3>2 DEF mqtt_has_valid_msg_hdr
  <2> QED BY <2>1, <2>2
<1> QED BY <1>2, <1>3

LEMMA FiniShape ==
  ASSUME NEW type \in Kinds, NEW qos \in 0..1, qos = 1 <=> type = Type.PUBLISH,
         NEW body \in Seq(Byte), Len(body) < 128 ^ 4,
         type = Type.PUBLISH \/ Len(body) =< 3
  PROVE  LET w == fini_message(type, 0, qos, 0, body)
             F == FixedHeaderLen(w)
         IN /\ WellFormed(w) /\ Len(w) = F + Len(body)
            /\ mqtt_get_type(w) = type /\ mqtt_get_qos(w) = qos
            /\ \A j \in 1..Len(body) : w[F + j] = body[j]
            /\ Len(body) =< 3 => F = 2
<1> DEFINE h == 16 * type + 8 * 0 + 2 * qos + 0
           w == <<h>> \o LengthBytes(Len(body)) \o body
           F == FixedHeaderLen(w)
<1>1. h \in Byte /\ h \div 16 = type /\ (h \div 2) % 4 = qos /\ mqtt_has_valid_msg_hdr(h)
  BY FirstByte
<1>2. fini_message(type, 0, qos, 0, body) = w
  <2>1. ~(Len(body) >= 128 ^ 4) /\ Len(body) \in Nat OBVIOUS
  <2> QED BY <2>1, Zenon DEF fini_message
<1> HIDE DEF h
<1>3. /\ w \in Seq(Byte) /\ Len(w) = F + Len(body) /\ w[1] = h
      /\ F \in 2..5 /\ (Len(body) < 128 ^ 1 => F = 2)
      /\ \A k \in 2..F : w[k] < 128 <=> k = F
      /\ \A j \in 1..Len(body) : w[F + j] = body[j]
      /\ mqtt_get_total_length(w) = Len(w)
  BY <1>1, Framed
<1> HIDE DEF w
<1>4. Len(body) =< 3 => Len(body) < 128 ^ 1 OBVIOUS
<1>5. mqtt_get_type(w) = type /\ mqtt_get_qos(w) = qos
  BY <1>1, <1>3 DEF mqtt_get_type, mqtt_get_qos
<1>6. Len(w) > InBuffer => mqtt_get_type(w) = Type.PUBLISH
  <2>1. Len(body) =< 3 => Len(w) =< 8 BY <1>3
  <2> QED BY <2>1, <1>3, <1>5, BufferAssumption, StreamAssumption
<1>7. WellFormed(w) BY <1>1, <1>3, <1>6 DEF WellFormed
<1> QED BY <1>2, <1>3, <1>4, <1>5, <1>7

LEMMA ConnackShape ==
  /\ WellFormed(Connack) /\ Len(Connack) = 4
  /\ mqtt_get_type(Connack) = Type.CONNACK /\ Connack[4] = 0
<1> DEFINE body == <<0, 0>>
<1>1. body \in Seq(Byte) /\ Len(body) = 2 /\ body[2] = 0 BY DEF Byte
<1>2. Type.CONNACK \in Kinds /\ 0 \in 0..1 /\ ~(0 = 1) /\ Type.CONNACK # Type.PUBLISH
  BY KindsAre DEF Kinds
<1>3. Len(body) < 128 ^ 4 BY <1>1
<1>4. \A qos \in 0..1 : qos = 0 =>
        LET w == fini_message(Type.CONNACK, 0, qos, 0, body)
            F == FixedHeaderLen(w)
        IN /\ WellFormed(w) /\ Len(w) = F + Len(body)
           /\ mqtt_get_type(w) = Type.CONNACK
           /\ \A j \in 1..Len(body) : w[F + j] = body[j]
           /\ Len(body) =< 3 => F = 2
  <2> TAKE qos \in 0..1
  <2> HAVE qos = 0
  <2>1. qos = 1 <=> Type.CONNACK = Type.PUBLISH BY <1>2
  <2>2. Len(body) =< 3 BY <1>1
  <2> HIDE DEF body
  <2> QED BY <1>1, <1>2, <1>3, <2>1, <2>2, FiniShape
<1> DEFINE F == FixedHeaderLen(Connack)
<1>5. /\ WellFormed(Connack) /\ Len(Connack) = F + Len(body)
      /\ mqtt_get_type(Connack) = Type.CONNACK
      /\ \A j \in 1..Len(body) : Connack[F + j] = body[j]
      /\ Len(body) =< 3 => F = 2
  BY <1>4 DEF Connack
<1>6. F = 2 /\ Len(Connack) = 4 BY <1>1, <1>5
<1>7. 2 \in 1..Len(body) /\ F + 2 = 4 BY <1>1, <1>6
<1> QED BY <1>1, <1>5, <1>6, <1>7

Ids == 1..(256 * 256 - 1)

LEMMA MessageIs ==
  ASSUME NEW m \in Messages
  PROVE  /\ m.type \in {Type.PUBLISH, Type.PUBACK, Type.SUBACK, Type.PINGRESP}
         /\ m.type # Type.PINGRESP => m.id \in Ids
         /\ m.data \in Seq(Byte) /\ Len(m.data) + 5 < 128 ^ 4
         /\ m.type # Type.PUBLISH => m.data = << >>
<1>1. m.type \in {Type.PUBLISH, Type.PUBACK, Type.SUBACK, Type.PINGRESP}
  BY MessagesAssumption
<1>2. m.type # Type.PINGRESP => m.id \in Ids BY MessagesAssumption DEF Ids
<1>3. m.data \in Seq(Byte) BY MessagesAssumption DEF Byte
<1>4. Len(m.data) + 5 < 128 ^ 4 BY MessagesAssumption
<1>5. m.type # Type.PUBLISH => m.data = << >> BY MessagesAssumption
<1> QED BY <1>1, <1>2, <1>3, <1>4, <1>5

LEMMA Joined ==
  ASSUME NEW a \in Seq(Byte), NEW b \in Seq(Byte)
  PROVE  /\ a \o b \in Seq(Byte) /\ Len(a \o b) = Len(a) + Len(b)
         /\ \A j \in 1..Len(a) : (a \o b)[j] = a[j]
         /\ \A j \in 1..Len(b) : (a \o b)[Len(a) + j] = b[j]
OBVIOUS

LEMMA Pair ==
  ASSUME NEW a \in Byte, NEW b \in Byte
  PROVE  /\ <<a, b>> \in Seq(Byte) /\ Len(<<a, b>>) = 2
         /\ <<a, b>>[1] = a /\ <<a, b>>[2] = b
OBVIOUS

LEMMA TwoBytes ==
  ASSUME NEW n \in Ids
  PROVE  /\ Bytes2(n) \in Seq(Byte) /\ Len(Bytes2(n)) = 2 /\ n # 0
         /\ 256 * Bytes2(n)[1] + Bytes2(n)[2] = n
<1>1. n \div 256 \in Byte /\ n % 256 \in Byte /\ 256 * (n \div 256) + (n % 256) = n /\ n # 0
  <2> DEFINE top == 256 * 256
  <2>1. top \in Int OBVIOUS
  <2>2. n \in 1..(top - 1) BY Zenon DEF Ids
  <2>3. n \in Int /\ n >= 1 /\ n < top
    <3> HIDE DEF top
    <3> QED BY <2>1, <2>2
  <2>4. n \div 256 \in Int /\ 256 * (n \div 256) + (n % 256) = n /\ n % 256 \in 0..255 BY <2>3
  <2> DEFINE q == n \div 256
             r == n % 256
  <2>5. q \in Int /\ 256 * q + r = n /\ r \in 0..255 BY <2>4
  <2>6. q \in 0..255
    <3> HIDE DEF q, r
    <3> QED BY <2>3, <2>5
  <2>7. q \in 0..255 /\ r \in 0..255 /\ 256 * q + r = n /\ n # 0 BY <2>3, <2>5, <2>6
  <2> QED BY <2>7 DEF Byte
<1> DEFINE a == n \div 256
           b == n % 256
<1>2. Bytes2(n) = <<a, b>> BY DEF Bytes2
<1> HIDE DEF a, b
<1>3. a \in Byte /\ b \in Byte /\ 256 * a + b = n /\ n # 0 BY <1>1 DEF a, b
<1> QED BY <1>2, <1>3, Pair

(* A message that only has an identifier: its first bytes say which.           *)
ShortShape(m) ==
  LET w == Wire(m) IN
  /\ WellFormed(w) /\ mqtt_get_type(w) = m.type /\ Len(w) =< 5
  /\ m.type = Type.SUBACK => Len(w) = 5
  /\ m.type # Type.PINGRESP => Len(w) >= 4 /\ w[2] < 128 /\ 256 * w[3] + w[4] = m.id

LEMMA ShortMessages ==
  ASSUME NEW m \in Messages, m.type # Type.PUBLISH
  PROVE  ShortShape(m)
<1> DEFINE body == IF m.type = Type.SUBACK THEN Bytes2(m.id) \o <<0>>
                   ELSE IF m.type = Type.PINGRESP THEN << >> ELSE Bytes2(m.id)
<1>1. m.type \in {Type.PUBACK, Type.SUBACK, Type.PINGRESP}
      /\ (m.type # Type.PINGRESP => m.id \in Ids)
  BY MessageIs
<1>2. m.type \in Kinds BY <1>1 DEF Kinds
<1>3. m.type # Type.PINGRESP =>
        /\ Bytes2(m.id) \in Seq(Byte) /\ Len(Bytes2(m.id)) = 2 /\ m.id # 0
        /\ 256 * Bytes2(m.id)[1] + Bytes2(m.id)[2] = m.id
  BY <1>1, TwoBytes
<1>4. /\ body \in Seq(Byte) /\ Len(body) =< 3
      /\ m.type = Type.SUBACK => Len(body) = 3
      /\ m.type # Type.PINGRESP => Len(body) >= 2 /\ 256 * body[1] + body[2] = m.id
  <2>1. CASE m.type = Type.SUBACK
    <3>1. m.type # Type.PINGRESP BY <2>1, KindsAre
    <3>2. body = Bytes2(m.id) \o <<0>> BY <2>1
    <3> DEFINE id == Bytes2(m.id)
    <3>3. <<0>> \in Seq(Byte) /\ Len(<<0>>) = 1 BY DEF Byte
    <3>4. id \in Seq(Byte) /\ Len(id) = 2 /\ 256 * id[1] + id[2] = m.id BY <1>3, <3>1
    <3> HIDE DEF body, id
    <3>5. body \in Seq(Byte) /\ Len(body) = 3 /\ \A j \in 1..2 : body[j] = id[j]
      BY <3>2, <3>3, <3>4, Joined DEF id
    <3>6. body[1] = id[1] /\ body[2] = id[2] BY <3>5
    <3>7. Len(body) = 3 /\ body \in Seq(Byte) /\ 256 * body[1] + body[2] = m.id
      BY <3>4, <3>5, <3>6
    <3> QED BY <3>7
  <2>2. CASE m.type = Type.PINGRESP
    <3>1. m.type # Type.SUBACK BY <2>2, KindsAre
    <3>2. body = << >> BY <2>2, <3>1
    <3> HIDE DEF body
    <3>3. body \in Seq(Byte) /\ Len(body) = 0 BY <3>2
    <3>4. Len(body) =< 3 BY <3>3
    <3>5. m.type = Type.SUBACK => Len(body) = 3 BY <3>1
    <3>6. m.type # Type.PINGRESP => Len(body) >= 2 /\ 256 * body[1] + body[2] = m.id BY <2>2
    <3> QED BY <3>3, <3>4, <3>5, <3>6
  <2>3. CASE m.type = Type.PUBACK
    <3>1. m.type # Type.SUBACK /\ m.type # Type.PINGRESP BY <2>3, KindsAre
    <3> DEFINE id == Bytes2(m.id)
    <3>2. body = id BY <3>1
    <3>3. id \in Seq(Byte) /\ Len(id) = 2 /\ 256 * id[1] + id[2] = m.id BY <1>3, <3>1
    <3> HIDE DEF body, id
    <3> QED BY <3>1, <3>2, <3>3
  <2> QED BY <1>1, <2>1, <2>2, <2>3
<1> DEFINE w == fini_message(m.type, 0, 0, 0, body)
<1>5. Wire(m) = w
  <2>1. CASE m.type = Type.SUBACK
    <3>1. body = Bytes2(m.id) \o <<0>> BY <2>1
    <3> HIDE DEF body
    <3> QED BY <2>1, <3>1, KindsAre DEF Wire
  <2>2. CASE m.type = Type.PINGRESP
    <3>1. body = << >> BY <2>2, KindsAre
    <3> HIDE DEF body
    <3> QED BY <2>2, <3>1, KindsAre DEF Wire
  <2>3. CASE m.type = Type.PUBACK
    <3>1. body = Bytes2(m.id) /\ m.id # 0 /\ m.type # Type.PUBREL BY <2>3, <1>3, KindsAre
    <3>2. m.type # Type.SUBACK /\ m.type # Type.PINGRESP BY <2>3, KindsAre
    <3> HIDE DEF body
    <3>3. Wire(m) = Answer(m.type, m.id) BY <2>3, <3>2, KindsAre DEF Wire
    <3> QED BY <3>1, <3>3 DEF Answer
  <2> QED BY <1>1, <2>1, <2>2, <2>3
<1> HIDE DEF body
<1>6. Len(body) < 128 ^ 4 BY <1>4
<1>7. \A qos \in 0..1 : qos = 0 =>
        LET v == fini_message(m.type, 0, qos, 0, body)
            F == FixedHeaderLen(v)
        IN /\ WellFormed(v) /\ Len(v) = F + Len(body) /\ mqtt_get_type(v) = m.type
           /\ \A j \in 1..Len(body) : v[F + j] = body[j]
           /\ F = 2
  <2> TAKE qos \in 0..1
  <2> HAVE qos = 0
  <2>1. qos = 1 <=> m.type = Type.PUBLISH OBVIOUS
  <2> QED BY <1>2, <1>4, <1>6, <2>1, FiniShape
<1>8. /\ WellFormed(w) /\ Len(w) = 2 + Len(body) /\ mqtt_get_type(w) = m.type
      /\ \A j \in 1..Len(body) : w[2 + j] = body[j]
      /\ FixedHeaderLen(w) = 2
  BY <1>7
<1> HIDE DEF w
<1>9. m.type # Type.PINGRESP => w[3] = body[1] /\ w[4] = body[2]
  <2> HAVE m.type # Type.PINGRESP
  <2>1. 1 \in 1..Len(body) /\ 2 \in 1..Len(body) BY <1>4
  <2> QED BY <1>8, <2>1
<1>10. w[2] < 128 BY <1>8 DEF WellFormed
<1>11. Len(w) =< 5 /\ (m.type = Type.SUBACK => Len(w) = 5)
  <2>0. body \in Seq(Byte) /\ Len(body) =< 3 BY <1>4
  <2>1. Len(body) \in Nat BY <2>0
  <2>2. \A i \in Nat : i =< 3 => 2 + i =< 5 /\ (i = 3 => 2 + i = 5) OBVIOUS
  <2> QED BY <1>4, <1>8, <2>0, <2>1, <2>2
<1>12. m.type # Type.PINGRESP => Len(w) >= 4 /\ 256 * w[3] + w[4] = m.id
  <2> HAVE m.type # Type.PINGRESP
  <2>1. Len(body) >= 2 /\ 256 * body[1] + body[2] = m.id BY <1>4
  <2>2. Len(w) >= 4 BY <2>1, <1>4, <1>8
  <2> QED BY <2>1, <2>2, <1>9
<1> QED BY <1>5, <1>8, <1>10, <1>11, <1>12 DEF ShortShape

(* A command: behind the header come the topic, of one byte, the identifier    *)
(* and the data.                                                               *)
PublishShape(m) ==
  LET w == Wire(m)
      F == FixedHeaderLen(w)
  IN /\ WellFormed(w) /\ mqtt_get_type(w) = Type.PUBLISH /\ mqtt_get_qos(w) = 1
     /\ Len(w) = F + 5 + Len(m.data)
     /\ w[F + 1] = 0 /\ w[F + 2] = 1 /\ 256 * w[F + 4] + w[F + 5] = m.id

LEMMA PublishMessages ==
  ASSUME NEW m \in Messages, m.type = Type.PUBLISH
  PROVE  PublishShape(m)
<1> DEFINE body == String(Topic) \o Bytes2(m.id) \o m.data
<1>1. m.id \in Ids /\ m.data \in Seq(Byte) /\ Len(m.data) + 5 < 128 ^ 4
  BY MessageIs, KindsAre
<1>2. /\ String(Topic) \in Seq(Byte) /\ Len(String(Topic)) = 3
      /\ String(Topic)[1] = 0 /\ String(Topic)[2] = 1
  <2> DEFINE head == Bytes2(1)
  <2>1. Len(Topic) = 1 /\ Topic \in Seq(Byte) BY DEF Topic, Byte
  <2>2. head = <<0, 1>> BY DEF Bytes2
  <2>4. String(Topic) = head \o Topic BY <2>1 DEF String
  <2> HIDE DEF head
  <2>3. head \in Seq(Byte) /\ Len(head) = 2 /\ head[1] = 0 /\ head[2] = 1 BY <2>2 DEF Byte
  <2>5. 1 \in 1..Len(head) /\ 2 \in 1..Len(head) BY <2>3
  <2>6. /\ head \o Topic \in Seq(Byte) /\ Len(head \o Topic) = Len(head) + Len(Topic)
        /\ (head \o Topic)[1] = head[1] /\ (head \o Topic)[2] = head[2]
    BY <2>1, <2>3, <2>5, Joined
  <2> QED BY <2>1, <2>3, <2>4, <2>6
<1>3. /\ Bytes2(m.id) \in Seq(Byte) /\ Len(Bytes2(m.id)) = 2 /\ m.id # 0
      /\ 256 * Bytes2(m.id)[1] + Bytes2(m.id)[2] = m.id
  BY <1>1, TwoBytes
<1>4. /\ body \in Seq(Byte) /\ Len(body) = 5 + Len(m.data)
      /\ body[1] = 0 /\ body[2] = 1
      /\ body[4] = Bytes2(m.id)[1] /\ body[5] = Bytes2(m.id)[2]
  <2> DEFINE head == String(Topic)
             id == Bytes2(m.id)
             front == head \o id
  <2> HIDE DEF head, id
  <2>1. /\ front \in Seq(Byte) /\ Len(front) = Len(head) + Len(id)
        /\ \A j \in 1..Len(head) : front[j] = head[j]
        /\ \A j \in 1..Len(id) : front[Len(head) + j] = id[j]
    BY <1>2, <1>3, Joined DEF head, id
  <2>2. body = front \o m.data BY DEF head, id
  <2> HIDE DEF front, body
  <2>3. Len(head) = 3 /\ Len(id) = 2 /\ head[1] = 0 /\ head[2] = 1 BY <1>2, <1>3 DEF head, id
  <2>4. Len(front) = 5 /\ front[1] = 0 /\ front[2] = 1 /\ front[4] = id[1] /\ front[5] = id[2]
    <3>1. 1 \in 1..Len(head) /\ 2 \in 1..Len(head) /\ 1 \in 1..Len(id) /\ 2 \in 1..Len(id)
      BY <2>3
    <3>2. Len(head) + 1 = 4 /\ Len(head) + 2 = 5 BY <2>3
    <3> QED BY <2>1, <2>3, <3>1, <3>2
  <2>5. /\ body \in Seq(Byte) /\ Len(body) = 5 + Len(m.data)
        /\ \A j \in 1..5 : body[j] = front[j]
    <3> DEFINE data == m.data
    <3>1. data \in Seq(Byte) BY <1>1
    <3>2. body = front \o data BY <2>2
    <3> HIDE DEF data
    <3>3. /\ body \in Seq(Byte) /\ Len(body) = Len(front) + Len(data)
          /\ \A j \in 1..Len(front) : body[j] = front[j]
      BY <2>1, <3>1, <3>2, Joined
    <3> QED BY <2>4, <3>3 DEF data
  <2>6. /\ body[1] = front[1] /\ body[2] = front[2] /\ body[4] = front[4] /\ body[5] = front[5]
    BY <2>5
  <2> QED BY <2>4, <2>5, <2>6 DEF id
<1>5. Wire(m) = fini_message(Type.PUBLISH, 0, 1, 0, body)
  <2>1. m.id # 0 /\ Topic # << >> BY <1>3 DEF Topic
  <2>2. Wire(m) = mqtt_msg_publish(Topic, m.data, 1, 0, m.id) BY KindsAre DEF Wire
  <2> QED BY <2>1, <2>2 DEF mqtt_msg_publish
<1> HIDE DEF body
<1>6. Len(body) < 128 ^ 4 BY <1>1, <1>4
<1>7. Type.PUBLISH \in Kinds BY DEF Kinds
<1>8. \A qos \in 0..1 : qos = 1 =>
        LET v == fini_message(Type.PUBLISH, 0, qos, 0, body)
            F == FixedHeaderLen(v)
        IN /\ WellFormed(v) /\ Len(v) = F + Len(body)
           /\ mqtt_get_type(v) = Type.PUBLISH /\ mqtt_get_qos(v) = qos
           /\ \A j \in 1..Len(body) : v[F + j] = body[j]
  <2> TAKE qos \in 0..1
  <2> HAVE qos = 1
  <2> QED BY <1>4, <1>6, <1>7, FiniShape
<1> DEFINE w == Wire(m)
           F == FixedHeaderLen(w)
<1>9. /\ WellFormed(w) /\ Len(w) = F + Len(body)
      /\ mqtt_get_type(w) = Type.PUBLISH /\ mqtt_get_qos(w) = 1
      /\ \A j \in 1..Len(body) : w[F + j] = body[j]
  BY <1>5, <1>8
<1>10. 1..5 \subseteq 1..Len(body) BY <1>1, <1>4
<1>11. F \in Nat BY <1>9 DEF WellFormed
<1> HIDE DEF w, F
<1>12. /\ w[F + 1] = body[1] /\ w[F + 2] = body[2]
       /\ w[F + 4] = body[4] /\ w[F + 5] = body[5]
  BY <1>9, <1>10
<1>13. Len(w) = F + 5 + Len(m.data)
  <2>1. Len(m.data) \in Nat BY <1>1
  <2>2. \A i \in Nat : F + (5 + i) = F + 5 + i BY <1>11
  <2> QED BY <1>4, <1>9, <2>1, <2>2
<1> QED BY <1>3, <1>4, <1>9, <1>12, <1>13 DEF PublishShape, w, F

-----------------------------------------------------------------------------
(* Streams of messages.                                                        *)

LEMMA WireIs ==
  ASSUME NEW m \in Messages
  PROVE  WellFormed(Wire(m)) /\ Wire(m) \in Seq(Byte) /\ Len(Wire(m)) \in Nat \ {0}
<1>1. WellFormed(Wire(m))
  <2>1. CASE m.type = Type.PUBLISH BY <2>1, PublishMessages DEF PublishShape
  <2>2. CASE m.type # Type.PUBLISH BY <2>2, ShortMessages DEF ShortShape
  <2> QED BY <2>1, <2>2
<1> QED BY <1>1 DEF WellFormed

LEMMA ShiftedBy ==
  ASSUME NEW a \in Nat, NEW n \in Nat, NEW d \in Nat, d =< a
  PROVE  (a + n) - d = (a - d) + n
OBVIOUS

LEMMA InsideOf ==
  ASSUME NEW a \in Nat, NEW n \in Nat, NEW s \in Nat, NEW j \in 1..n, a + n =< s
  PROVE  a + j \in 1..s
OBVIOUS

LEMMA ShiftedInside ==
  ASSUME NEW a \in Nat, NEW n \in Nat, NEW d \in Nat, NEW s \in Nat, NEW j \in 1..n,
         d =< a, a + n =< s
  PROVE  (a - d) + j \in 1..(s - d) /\ d + ((a - d) + j) = a + j
OBVIOUS

(* Bytes are taken from the head of the stream.                                *)
LEMMA FollowsDrop ==
  ASSUME NEW list \in Seq(Messages), NEW k \in 1..(Len(list) + 1),
         NEW stream \in Seq(Byte), NEW start \in Nat, NEW d \in 0..start,
         NEW new \in Seq(Byte), Len(new) = Len(stream) - d,
         \A j \in 1..Len(new) : new[j] = stream[d + j],
         Follows(list, k, start, stream)
  PROVE  Follows(list, k, start - d, new)
<1> DEFINE L == Len(list)
<1>0. L \in Nat /\ k \in 1..(L + 1) OBVIOUS
<1>1. PICK at : StandAt(at, list, k, start, stream) BY DEF Follows
<1> DEFINE new_at == [i \in k..(L + 1) |-> at[i] - d]
<1>2. /\ at \in [k..(L + 1) -> Nat] /\ at[k] = start /\ at[L + 1] = Len(stream)
      /\ \A i, j \in k..(L + 1) : i =< j => at[i] =< at[j]
      /\ \A i \in k..L :
           /\ at[i + 1] = at[i] + Len(Wire(list[i]))
           /\ \A j \in 1..Len(Wire(list[i])) : stream[at[i] + j] = Wire(list[i])[j]
  BY <1>1 DEF StandAt
<1>w. \A i \in 1..L : list[i] \in Messages /\ Len(Wire(list[i])) \in Nat BY WireIs
<1> HIDE DEF L
<1>3. \A i \in k..(L + 1) : at[i] \in Nat /\ d =< at[i] /\ at[i] =< Len(stream)
  <2> TAKE i \in k..(L + 1)
  <2>1. k \in k..(L + 1) /\ L + 1 \in k..(L + 1) /\ k =< i /\ i =< L + 1 BY <1>0
  <2>2. at[k] =< at[i] /\ at[i] =< at[L + 1] /\ at[i] \in Nat BY <1>2, <2>1
  <2> QED BY <1>2, <2>2
<1>4. new_at \in [k..(L + 1) -> Nat] BY <1>3
<1>5. new_at[k] = start - d /\ new_at[L + 1] = Len(new)
  <2>1. k \in k..(L + 1) /\ L + 1 \in k..(L + 1) BY <1>0
  <2> QED BY <1>2, <2>1
<1>6. \A i, j \in k..(L + 1) : i =< j => new_at[i] =< new_at[j] BY <1>2, <1>3
<1>7. ASSUME NEW i \in k..L
      PROVE  /\ new_at[i + 1] = new_at[i] + Len(Wire(list[i]))
             /\ \A j \in 1..Len(Wire(list[i])) : new[new_at[i] + j] = Wire(list[i])[j]
  <2> DEFINE n == Len(Wire(list[i]))
  <2>1. n \in Nat BY <1>0, <1>w
  <2>2. i \in k..(L + 1) /\ i + 1 \in k..(L + 1) BY <1>0
  <2>3. at[i + 1] = at[i] + n /\ \A j \in 1..n : stream[at[i] + j] = Wire(list[i])[j]
    BY <1>2
  <2> HIDE DEF n
  <2>4. at[i] \in Nat /\ d =< at[i] /\ at[i] + n =< Len(stream) BY <1>3, <2>2, <2>3
  <2>5. new_at[i] = at[i] - d /\ new_at[i + 1] = at[i + 1] - d BY <2>2
  <2> HIDE DEF new_at
  <2>d. d \in Nat OBVIOUS
  <2>6. new_at[i + 1] = new_at[i] + n BY <2>1, <2>3, <2>4, <2>5, <2>d, ShiftedBy
  <2>7. ASSUME NEW j \in 1..n PROVE new[new_at[i] + j] = Wire(list[i])[j]
    <3> DEFINE a == at[i]
               p == new_at[i]
               s == Len(stream)
    <3>1. /\ a \in Nat /\ s \in Nat /\ d =< a /\ a + n =< s
          /\ p = a - d /\ Len(new) = s - d
      BY <2>4, <2>5
    <3>2. stream[a + j] = Wire(list[i])[j] BY <2>3
    <3> HIDE DEF a, p, s
    <3>3. p + j \in 1..Len(new) /\ d + (p + j) = a + j
      <4>1. (a - d) + j \in 1..(s - d) /\ d + ((a - d) + j) = a + j
        BY <2>1, <2>d, <3>1, ShiftedInside
      <4> QED BY <3>1, <4>1
    <3>4. new[p + j] = stream[d + (p + j)] BY <3>3
    <3> QED BY <3>2, <3>3, <3>4 DEF p
  <2> QED BY <2>6, <2>7 DEF n
<1> HIDE DEF new_at
<1>8. StandAt(new_at, list, k, start - d, new) BY <1>4, <1>5, <1>6, <1>7 DEF StandAt, L
<1> QED BY <1>8 DEF Follows

(* The broker sends a message.                                                 *)
LEMMA FollowsAppend ==
  ASSUME NEW list \in Seq(Messages), NEW k \in 1..(Len(list) + 1),
         NEW stream \in Seq(Byte), NEW start \in Nat, NEW m \in Messages,
         Follows(list, k, start, stream)
  PROVE  Follows(Append(list, m), k, start, stream \o Wire(m))
<1> DEFINE L == Len(list)
           longer == Append(list, m)
           new == stream \o Wire(m)
<1>0. L \in Nat /\ k \in 1..(L + 1) OBVIOUS
<1>1. PICK at : StandAt(at, list, k, start, stream) BY DEF Follows
<1> DEFINE new_at == [i \in k..(L + 2) |-> IF i =< L + 1 THEN at[i] ELSE Len(new)]
<1>2. /\ at \in [k..(L + 1) -> Nat] /\ at[k] = start /\ at[L + 1] = Len(stream)
      /\ \A i, j \in k..(L + 1) : i =< j => at[i] =< at[j]
      /\ \A i \in k..L :
           /\ at[i + 1] = at[i] + Len(Wire(list[i]))
           /\ \A j \in 1..Len(Wire(list[i])) : stream[at[i] + j] = Wire(list[i])[j]
  BY <1>1 DEF StandAt
<1>w. \A i \in 1..L : list[i] \in Messages /\ Len(Wire(list[i])) \in Nat BY WireIs
<1>3. Wire(m) \in Seq(Byte) /\ Len(Wire(m)) \in Nat BY WireIs
<1>4. /\ Len(new) = Len(stream) + Len(Wire(m))
      /\ \A j \in 1..Len(stream) : new[j] = stream[j]
      /\ \A j \in 1..Len(Wire(m)) : new[Len(stream) + j] = Wire(m)[j]
  BY <1>3, Joined
<1>5. /\ Len(longer) = L + 1 /\ longer[L + 1] = m
      /\ \A i \in 1..L : longer[i] = list[i]
  OBVIOUS
<1>s. Len(stream) \in Nat /\ Len(new) \in Nat BY <1>3, <1>4
<1> HIDE DEF L, longer, new
<1>6. \A i \in k..(L + 1) : at[i] \in Nat /\ at[i] =< Len(stream)
  <2> TAKE i \in k..(L + 1)
  <2>1. L + 1 \in k..(L + 1) /\ i =< L + 1 BY <1>0
  <2>2. at[i] =< at[L + 1] /\ at[i] \in Nat BY <1>2, <2>1
  <2> QED BY <1>2, <2>2
<1>7. \A i \in k..(L + 1) : new_at[i] = at[i] BY <1>0
<1>8. L + 2 \in k..(L + 2) /\ new_at[L + 2] = Len(new) BY <1>0
<1>9. new_at \in [k..(L + 2) -> Nat] BY <1>0, <1>6, <1>s
<1> HIDE DEF new_at
<1>10. new_at[k] = start
  <2>1. k \in k..(L + 1) BY <1>0
  <2> QED BY <1>2, <1>7, <2>1
<1>11. ASSUME NEW i \in k..(L + 2), NEW j \in k..(L + 2), i =< j PROVE new_at[i] =< new_at[j]
  <2>1. CASE j =< L + 1
    <3>1. i \in k..(L + 1) /\ j \in k..(L + 1) BY <1>0, <1>11, <2>1
    <3>2. at[i] =< at[j] BY <1>2, <1>11, <3>1
    <3> QED BY <1>7, <3>1, <3>2
  <2>2. CASE j = L + 2 /\ i =< L + 1
    <3>1. i \in k..(L + 1) BY <1>0, <2>2
    <3> QED BY <1>3, <1>4, <1>6, <1>7, <1>8, <1>s, <2>2, <3>1
  <2>3. CASE j = L + 2 /\ i = L + 2 BY <1>8, <1>s, <2>3
  <2> QED BY <1>0, <1>11, <2>1, <2>2, <2>3
<1>12. ASSUME NEW i \in k..(L + 1)
       PROVE  /\ new_at[i + 1] = new_at[i] + Len(Wire(longer[i]))
              /\ \A j \in 1..Len(Wire(longer[i])) : new[new_at[i] + j] = Wire(longer[i])[j]
  <2>1. CASE i =< L
    <3>1. /\ i \in k..L /\ i \in k..(L + 1) /\ i + 1 \in k..(L + 1) /\ i \in 1..L
      BY <1>0, <2>1
    <3> DEFINE w == Wire(list[i])
    <3>2. longer[i] = list[i] /\ Len(w) \in Nat BY <1>5, <1>w, <3>1
    <3>3. new_at[i] = at[i] /\ new_at[i + 1] = at[i + 1] BY <1>7, <3>1
    <3>4. at[i + 1] = at[i] + Len(w) /\ \A j \in 1..Len(w) : stream[at[i] + j] = w[j]
      BY <1>2, <3>1
    <3>5. at[i] \in Nat /\ at[i + 1] =< Len(stream) BY <1>6, <3>1
    <3> HIDE DEF w
    <3>6. ASSUME NEW j \in 1..Len(w) PROVE new[new_at[i] + j] = w[j]
      <4>0. at[i] + Len(w) =< Len(stream) BY <3>4, <3>5
      <4>1. at[i] + j \in 1..Len(stream) BY <1>s, <3>2, <3>5, <4>0, InsideOf
      <4> QED BY <1>4, <3>3, <3>4, <4>1
    <3> QED BY <3>2, <3>3, <3>4, <3>6 DEF w
  <2>2. CASE i = L + 1
    <3>1. L + 1 \in k..(L + 1) BY <1>0
    <3>2. new_at[i] = Len(stream) BY <1>2, <1>7, <2>2, <3>1
    <3>3. new_at[i + 1] = Len(new) /\ longer[i] = m
      <4>1. i + 1 = L + 2 BY <1>0, <2>2
      <4> QED BY <1>5, <1>8, <2>2, <4>1
    <3> QED BY <1>4, <3>2, <3>3
  <2> QED BY <1>0, <2>1, <2>2
<1>13. StandAt(new_at, longer, k, start, new)
  <2>1. Len(longer) + 1 = L + 2 BY <1>0, <1>5
  <2> QED BY <1>5, <1>8, <1>9, <1>10, <1>11, <1>12, <2>1 DEF StandAt
<1> QED BY <1>13 DEF Follows, longer, new

(* The next message is at the place that is known, the others behind it.       *)
LEMMA FollowsNext ==
  ASSUME NEW list \in Seq(Messages), NEW k \in 1..Len(list),
         NEW stream \in Seq(Byte), NEW start \in Nat,
         Follows(list, k, start, stream)
  PROVE  /\ start + Len(Wire(list[k])) =< Len(stream)
         /\ \A j \in 1..Len(Wire(list[k])) : stream[start + j] = Wire(list[k])[j]
         /\ Follows(list, k + 1, start + Len(Wire(list[k])), stream)
<1> DEFINE L == Len(list)
           w == Wire(list[k])
<1>0. L \in Nat /\ k \in 1..L OBVIOUS
<1>1. PICK at : StandAt(at, list, k, start, stream) BY DEF Follows
<1> DEFINE new_at == [i \in (k + 1)..(L + 1) |-> at[i]]
<1>2. /\ at \in [k..(L + 1) -> Nat] /\ at[k] = start /\ at[L + 1] = Len(stream)
      /\ \A i, j \in k..(L + 1) : i =< j => at[i] =< at[j]
      /\ \A i \in k..L :
           /\ at[i + 1] = at[i] + Len(Wire(list[i]))
           /\ \A j \in 1..Len(Wire(list[i])) : stream[at[i] + j] = Wire(list[i])[j]
  BY <1>1 DEF StandAt
<1> HIDE DEF L
<1>3. k \in k..L /\ k + 1 \in k..(L + 1) /\ L + 1 \in k..(L + 1) /\ k + 1 =< L + 1 BY <1>0
<1>4. at[k + 1] = start + Len(w) /\ \A j \in 1..Len(w) : stream[start + j] = w[j]
  BY <1>2, <1>3
<1>5. at[k + 1] =< Len(stream) BY <1>2, <1>3
<1>6. \A i \in (k + 1)..(L + 1) : i \in k..(L + 1) /\ new_at[i] = at[i] BY <1>0
<1>7. \A i \in (k + 1)..L : i \in k..L /\ i \in (k + 1)..(L + 1) /\ i + 1 \in (k + 1)..(L + 1)
  BY <1>0
<1>8. new_at \in [(k + 1)..(L + 1) -> Nat] BY <1>2, <1>6
<1>9. k + 1 \in (k + 1)..(L + 1) /\ L + 1 \in (k + 1)..(L + 1) BY <1>0
<1> HIDE DEF new_at
<1>10. new_at[k + 1] = start + Len(w) /\ new_at[L + 1] = Len(stream) BY <1>2, <1>4, <1>6, <1>9
<1>11. \A i, j \in (k + 1)..(L + 1) : i =< j => new_at[i] =< new_at[j] BY <1>2, <1>6
<1>12. \A i \in (k + 1)..L :
         /\ new_at[i + 1] = new_at[i] + Len(Wire(list[i]))
         /\ \A j \in 1..Len(Wire(list[i])) : stream[new_at[i] + j] = Wire(list[i])[j]
  BY <1>2, <1>6, <1>7
<1>13. StandAt(new_at, list, k + 1, start + Len(w), stream)
  BY <1>8, <1>10, <1>11, <1>12 DEF StandAt, L
<1> QED BY <1>4, <1>5, <1>13 DEF Follows

(* When no message is left to come, nothing is left in the stream.             *)
LEMMA FollowsNone ==
  ASSUME NEW list, NEW start \in Nat, NEW stream
  PROVE  Follows(list, Len(list) + 1, start, stream) => Len(stream) = start
BY DEF Follows, StandAt

LEMMA NoneFollows ==
  ASSUME NEW list \in Seq(Messages), NEW stream \in Seq(Byte)
  PROVE  Follows(list, Len(list) + 1, Len(stream), stream)
<1> DEFINE L == Len(list)
           at == [i \in (L + 1)..(L + 1) |-> Len(stream)]
<1>1. L \in Nat /\ Len(stream) \in Nat OBVIOUS
<1> HIDE DEF L
<1>2. at \in [(L + 1)..(L + 1) -> Nat] /\ at[L + 1] = Len(stream) BY <1>1
<1>3. \A i, j \in (L + 1)..(L + 1) : i =< j => at[i] =< at[j] BY <1>1
<1>4. (L + 1)..L = {} BY <1>1
<1> HIDE DEF at
<1>5. StandAt(at, list, L + 1, Len(stream), stream) BY <1>2, <1>3, <1>4 DEF StandAt, L
<1> QED BY <1>5 DEF Follows, L

-----------------------------------------------------------------------------
(* What a read does to the buffer and to the stream.                           *)

LEMMA StreamCut ==
  ASSUME NEW stream \in Seq(Byte), NEW n \in 0..Len(stream)
  PROVE  LET cut == SubSeq(stream, n + 1, Len(stream))
         IN /\ cut \in Seq(Byte) /\ Len(cut) = Len(stream) - n
            /\ \A j \in 1..Len(cut) : cut[j] = stream[n + j]
<1> DEFINE L == Len(stream)
           cut == SubSeq(stream, n + 1, L)
<1>1. L \in Nat /\ n \in 0..L OBVIOUS
<1>2. cut = [j \in 1..(L - n) |-> stream[n + j]]
  <2>1. \A j \in 1..(L - n) : (n + 1) + j - 1 = n + j BY <1>1
  <2>2. (L - (n + 1)) + 1 = L - n BY <1>1
  <2> QED BY <1>1, <2>1, <2>2
<1>3. \A j \in 1..(L - n) : stream[n + j] \in Byte
  <2> TAKE j \in 1..(L - n)
  <2>1. n + j \in 1..L BY <1>1
  <2> QED BY <2>1
<1>4. L - n \in Nat BY <1>1
<1> HIDE DEF cut, L
<1>5. cut \in Seq(Byte) /\ Len(cut) = L - n BY <1>2, <1>3, <1>4
<1> QED BY <1>2, <1>5 DEF cut, L

LEMMA AheadMoves ==
  ASSUME NEW w \in Seq(Byte), NEW stream \in Seq(Byte), NEW list \in Seq(Messages),
         NEW k \in 1..(Len(list) + 1), NEW start \in Nat, NEW n \in 0..Len(stream),
         start + n =< Len(w), Ahead(w, start, list, k, stream)
  PROVE  Ahead(w, start + n, list, k, SubSeq(stream, n + 1, Len(stream)))
<1> DEFINE cut == SubSeq(stream, n + 1, Len(stream))
           W == Len(w)
           L == Len(stream)
<1>1. /\ cut \in Seq(Byte) /\ Len(cut) = L - n
      /\ \A j \in 1..Len(cut) : cut[j] = stream[n + j]
  BY StreamCut
<1>2. /\ start \in 0..W /\ W - start =< L /\ start + n =< W
      /\ \A j \in 1..(W - start) : stream[j] = w[start + j]
      /\ Follows(list, k, W - start, stream)
  BY DEF Ahead
<1>3. W \in Nat /\ L \in Nat /\ n \in 0..L OBVIOUS
<1> HIDE DEF cut, W, L
<1>4. /\ start + n \in 0..W /\ W - (start + n) =< Len(cut)
      /\ W - start \in Nat /\ n \in 0..(W - start) /\ (W - start) - n = W - (start + n)
  BY <1>1, <1>2, <1>3
<1>5. \A j \in 1..(W - (start + n)) : cut[j] = w[(start + n) + j]
  <2> TAKE j \in 1..(W - (start + n))
  <2>1. j \in 1..Len(cut) /\ n + j \in 1..(W - start) /\ start + (n + j) = (start + n) + j
    BY <1>1, <1>2, <1>3, <1>4
  <2> QED BY <1>1, <1>2, <2>1
<1>6. Follows(list, k, (W - start) - n, cut) BY <1>1, <1>2, <1>4, FollowsDrop DEF L
<1>7. Follows(list, k, W - (start + n), cut) BY <1>4, <1>6
<1> QED BY <1>4, <1>5, <1>7 DEF Ahead, cut, W, L

LEMMA PrefixGrows ==
  ASSUME NEW w \in Seq(Byte), NEW b \in Seq(Byte), NEW stream \in Seq(Byte), NEW list, NEW k,
         NEW n \in 0..Len(stream), Len(b) + n =< Len(w),
         PrefixOf(b, w), Ahead(w, Len(b), list, k, stream)
  PROVE  LET longer == b \o SubSeq(stream, 1, n)
         IN longer \in Seq(Byte) /\ Len(longer) = Len(b) + n /\ PrefixOf(longer, w)
<1> DEFINE head == SubSeq(stream, 1, n)
           longer == b \o head
           B == Len(b)
<1>1. B \in Nat /\ n \in Nat /\ n =< Len(stream) OBVIOUS
<1>2. head \in Seq(Byte) /\ Len(head) = n /\ \A j \in 1..n : head[j] = stream[j]
  <2>1. head = [j \in 1..n |-> stream[j]]
    <3>1. \A j \in 1..n : 1 + j - 1 = j BY <1>1
    <3>2. (n - 1) + 1 = n BY <1>1
    <3> QED BY <3>1, <3>2, <1>1
  <2>2. \A j \in 1..n : stream[j] \in Byte BY <1>1
  <2> HIDE DEF head
  <2> QED BY <1>1, <2>1, <2>2
<1>3. B + n =< Len(w) /\ Len(w) \in Nat OBVIOUS
<1>4. \A j \in 1..(Len(w) - B) : stream[j] = w[B + j] BY DEF Ahead
<1>5. \A j \in 1..B : b[j] = w[j] BY DEF PrefixOf
<1> HIDE DEF head
<1>6. /\ longer \in Seq(Byte) /\ Len(longer) = B + n
      /\ \A j \in 1..B : longer[j] = b[j]
      /\ \A j \in 1..n : longer[B + j] = head[j]
  BY <1>2, Joined
<1> HIDE DEF longer, B
<1>7. ASSUME NEW j \in 1..(B + n) PROVE longer[j] = w[j]
  <2>1. CASE j =< B
    <3>1. j \in 1..B BY <1>1, <2>1
    <3> QED BY <1>5, <1>6, <3>1
  <2>2. CASE j > B
    <3>1. j - B \in 1..n /\ j - B \in 1..(Len(w) - B) /\ B + (j - B) = j BY <1>1, <1>3, <2>2
    <3> QED BY <1>2, <1>4, <1>6, <3>1
  <2> QED BY <1>1, <2>1, <2>2
<1> QED BY <1>3, <1>6, <1>7 DEF PrefixOf, longer, head, B

(* The next byte of the stream is the next one of the message.                 *)
LEMMA NextByte ==
  ASSUME NEW w \in Seq(Byte), NEW start \in Nat, NEW list, NEW k, NEW stream,
         start < Len(w), Ahead(w, start, list, k, stream)
  PROVE  stream[1] = w[start + 1]
<1>1. 1 \in 1..(Len(w) - start) OBVIOUS
<1> QED BY <1>1 DEF Ahead

(* The broker sends one more.                                                  *)
LEMMA AheadAppend ==
  ASSUME NEW w \in Seq(Byte), NEW stream \in Seq(Byte), NEW list \in Seq(Messages),
         NEW k \in 1..(Len(list) + 1), NEW start, NEW m \in Messages,
         Ahead(w, start, list, k, stream)
  PROVE  Ahead(w, start, Append(list, m), k, stream \o Wire(m))
<1> DEFINE new == stream \o Wire(m)
<1>1. /\ start \in 0..Len(w) /\ Len(w) - start =< Len(stream)
      /\ \A j \in 1..(Len(w) - start) : stream[j] = w[start + j]
      /\ Follows(list, k, Len(w) - start, stream)
  BY DEF Ahead
<1>2. Wire(m) \in Seq(Byte) /\ Len(Wire(m)) \in Nat BY WireIs
<1>3. Len(new) = Len(stream) + Len(Wire(m)) /\ \A j \in 1..Len(stream) : new[j] = stream[j]
  BY <1>2, Joined
<1>4. Len(stream) \in Nat /\ Len(w) - start \in Nat BY <1>1
<1>5. Follows(Append(list, m), k, Len(w) - start, new) BY <1>1, <1>4, FollowsAppend
<1> HIDE DEF new
<1>6. Len(w) - start =< Len(new) BY <1>1, <1>2, <1>3, <1>4
<1>7. \A j \in 1..(Len(w) - start) : new[j] = w[start + j]
  <2> TAKE j \in 1..(Len(w) - start)
  <2>1. j \in 1..Len(stream) BY <1>1, <1>4
  <2> QED BY <1>1, <1>3, <2>1
<1> QED BY <1>1, <1>5, <1>6, <1>7 DEF Ahead, new

(* Behind the last byte of a message the next one begins.                      *)
LEMMA AheadNext ==
  ASSUME NEW w \in Seq(Byte), NEW stream \in Seq(Byte), NEW list \in Seq(Messages),
         NEW k \in 1..(Len(list) + 1), Ahead(w, Len(w), list, k, stream)
  PROVE  /\ k =< Len(list) => Ahead(Wire(list[k]), 0, list, k + 1, stream)
         /\ k = Len(list) + 1 => stream = << >>
<1>1. Len(w) \in Nat /\ Len(w) - Len(w) = 0 OBVIOUS
<1>2. Follows(list, k, 0, stream) BY <1>1 DEF Ahead
<1>3. ASSUME k =< Len(list) PROVE Ahead(Wire(list[k]), 0, list, k + 1, stream)
  <2> DEFINE next == Wire(list[k])
  <2>1. k \in 1..Len(list) BY <1>3
  <2>2. next \in Seq(Byte) /\ Len(next) \in Nat BY <2>1, WireIs
  <2>3. /\ 0 + Len(next) =< Len(stream)
        /\ \A j \in 1..Len(next) : stream[0 + j] = next[j]
        /\ Follows(list, k + 1, 0 + Len(next), stream)
    BY <1>2, <2>1, FollowsNext
  <2> HIDE DEF next
  <2>4. 0 + Len(next) = Len(next) /\ Len(next) - 0 = Len(next) /\ 0 \in 0..Len(next) BY <2>2
  <2>5. \A j \in 1..Len(next) : stream[j] = next[0 + j] BY <2>2, <2>3
  <2> QED BY <2>3, <2>4, <2>5 DEF Ahead, next
<1>4. k = Len(list) + 1 => stream = << >>
  <2> HAVE k = Len(list) + 1
  <2>1. Len(stream) = 0 BY <1>2, FollowsNone
  <2> QED BY <2>1
<1> QED BY <1>3, <1>4

-----------------------------------------------------------------------------
(* What the client makes of the beginning of a message.                        *)

(* A message of which the receive can tell where it ends; when it is longer    *)
(* than the buffer, it has a topic of one byte and an identifier.              *)
Readable(w) ==
  /\ WellFormed(w)
  /\ Len(w) > InBuffer => TopicLen(w) = 1 /\ mqtt_get_qos(w) = 1

LEMMA PublishBytes ==
  ASSUME NEW m \in Messages, m.type = Type.PUBLISH, NEW b \in Seq(Byte),
         PrefixOf(b, Wire(m)), Len(b) >= FixedHeaderLen(Wire(m)) + 2
  PROVE  TopicLen(b) = 1 /\ mqtt_get_qos(b) = 1
<1> DEFINE w == Wire(m)
           F == FixedHeaderLen(w)
<1>1. WellFormed(w) /\ mqtt_get_qos(w) = 1 /\ w[F + 1] = 0 /\ w[F + 2] = 1
  BY PublishMessages DEF PublishShape
<1>2. F \in 2..5 /\ w \in Seq(Byte) BY <1>1 DEF WellFormed
<1>3. Len(b) >= F + 2 /\ PrefixOf(b, w) OBVIOUS
<1> HIDE DEF w, F
<1>4. Len(b) >= F BY <1>2, <1>3
<1>5. FixedHeaderLen(b) = F /\ mqtt_get_qos(b) = 1 BY <1>1, <1>3, <1>4, PrefixHeader DEF F
<1>6. F + 1 \in 1..Len(b) /\ F + 2 \in 1..Len(b) BY <1>2, <1>3
<1>7. b[F + 1] = 0 /\ b[F + 2] = 1 BY <1>1, <1>3, <1>6 DEF PrefixOf
<1> QED BY <1>5, <1>7 DEF TopicLen

LEMMA WireReadable ==
  ASSUME NEW m \in Messages
  PROVE  Readable(Wire(m))
<1> DEFINE w == Wire(m)
<1>1. WellFormed(w) /\ w \in Seq(Byte) BY WireIs
<1>2. ASSUME Len(w) > InBuffer PROVE TopicLen(w) = 1 /\ mqtt_get_qos(w) = 1
  <2>1. m.type = Type.PUBLISH
    <3> SUFFICES ASSUME m.type # Type.PUBLISH PROVE FALSE OBVIOUS
    <3>1. Len(w) =< 5 BY ShortMessages DEF ShortShape
    <3> QED BY <1>1, <1>2, <3>1, StreamAssumption, BufferAssumption
  <2>2. Len(w) = FixedHeaderLen(w) + 5 + Len(m.data) /\ Len(m.data) \in Nat
    BY <2>1, PublishMessages, MessageIs DEF PublishShape
  <2>3. FixedHeaderLen(w) \in 2..5 BY <1>1 DEF WellFormed
  <2>4. PrefixOf(w, w) /\ Len(w) >= FixedHeaderLen(w) + 2 BY <1>1, <2>2, <2>3 DEF PrefixOf
  <2> HIDE DEF w
  <2> QED BY <1>1, <2>1, <2>4, PublishBytes DEF w
<1> QED BY <1>1, <1>2 DEF Readable

LEMMA ConnackReadable == Readable(Connack)
BY ConnackShape, StreamAssumption, BufferAssumption DEF Readable

LEMMA TargetIs ==
  ASSUME NEW w, Readable(w), NEW b \in Seq(Byte), PrefixOf(b, w), Len(b) >= FixedHeaderLen(w)
  PROVE  TargetLen(b) = Full(w)
<1>1. WellFormed(w) BY DEF Readable
<1>2. mqtt_get_total_length(b) = Len(w) BY <1>1, PrefixHeader
<1>3. Len(w) \in Nat /\ InBuffer \in Nat BY <1>1, StreamAssumption DEF WellFormed
<1> DEFINE S == {Len(w), InBuffer}
<1>4. TargetLen(b) = Min(S) BY <1>2 DEF TargetLen
<1>5. S \subseteq Int BY <1>3
<1>6. CASE Len(w) > InBuffer
  <2>1. InBuffer \in S /\ \A y \in S : InBuffer =< y BY <1>3, <1>6
  <2> HIDE DEF S
  <2>2. Min(S) = InBuffer BY <1>5, <2>1, MinIs
  <2> QED BY <1>4, <1>6, <2>2 DEF Full
<1>7. CASE ~(Len(w) > InBuffer)
  <2>1. Len(w) \in S /\ \A y \in S : Len(w) =< y BY <1>3, <1>7
  <2> HIDE DEF S
  <2>2. Min(S) = Len(w) BY <1>5, <2>1, MinIs
  <2> QED BY <1>4, <1>7, <2>2 DEF Full
<1> QED BY <1>6, <1>7

(* GoesOn takes the receive to the place that fits what it has read.           *)
LEMMA GoesOnFits ==
  ASSUME NEW w, Readable(w), buf' \in Seq(Byte), PrefixOf(buf', w),
         Len(buf') >= FixedHeaderLen(w), Len(buf') =< InBuffer, GoesOn
  PROVE  Place(w, pc', buf')
<1> DEFINE b == buf'
           F == FixedHeaderLen(w)
<1>1. WellFormed(w) /\ w \in Seq(Byte) /\ F \in 2..5 BY DEF Readable, WellFormed
<1>2. /\ FixedHeaderLen(b) = F /\ mqtt_get_total_length(b) = Len(w)
      /\ mqtt_get_type(b) = mqtt_get_type(w) /\ mqtt_get_qos(b) = mqtt_get_qos(w)
  BY <1>1, PrefixHeader
<1>3. TargetLen(b) = Full(w) BY TargetIs
<1>4. Len(b) \in Nat /\ Len(w) \in Nat /\ InBuffer \in Nat /\ Len(b) =< Len(w)
  BY <1>1, StreamAssumption DEF PrefixOf
<1>5. Full(w) \in Nat /\ Len(b) =< Full(w) BY <1>4 DEF Full
<1>6. ReadsRest => Place(w, pc', buf')
  <2> HAVE ReadsRest
  <2>1. pc' = IF Len(b) < Full(w) THEN "rest" ELSE "process" BY <1>3 DEF ReadsRest
  <2>2. CASE Len(b) < Full(w) BY <2>1, <2>2 DEF Place
  <2>3. CASE ~(Len(b) < Full(w))
    <3>1. Len(b) = Full(w) BY <1>4, <1>5, <2>3
    <3> QED BY <2>1, <2>3, <3>1 DEF Place
  <2> QED BY <2>2, <2>3
<1>7. CASE Len(w) =< InBuffer BY <1>2, <1>6, <1>7 DEF GoesOn
<1>8. CASE Len(w) > InBuffer
  <2>1. mqtt_get_type(b) = Type.PUBLISH BY <1>1, <1>2, <1>8 DEF WellFormed
  <2>2. TopicLen(w) = 1 /\ mqtt_get_qos(w) = 1 BY <1>8 DEF Readable
  <2>3. ~(mqtt_get_total_length(b) =< InBuffer) BY <1>2, <1>4, <1>8
  <2>4. CASE Len(b) < F + 2
    <3>1. pc' = "topic" BY <1>2, <2>1, <2>3, <2>4 DEF GoesOn
    <3> QED BY <1>8, <2>4, <3>1 DEF Place
  <2>5. CASE ~(Len(b) < F + 2)
    <3>1. F + 1 \in 1..Len(b) /\ F + 2 \in 1..Len(b) BY <1>1, <1>4, <2>5
    <3>2. TopicLen(b) = TopicLen(w) BY <1>2, <3>1 DEF TopicLen, PrefixOf
    <3>3. DataStart(b) = F + 2 + 1 + 2 BY <1>2, <2>2, <3>2 DEF DataStart, TopicEnd
    <3>4. ~(HeaderLen(b) > InBuffer) BY <1>1, <1>4, <3>3, BufferAssumption DEF HeaderLen
    <3>5. ReadsRest BY <1>2, <2>1, <2>3, <2>5, <3>4 DEF GoesOn
    <3> QED BY <1>6, <3>5
  <2> QED BY <2>4, <2>5
<1> QED BY <1>4, <1>7, <1>8

-----------------------------------------------------------------------------
(* The steps of a receive.                                                     *)

LEMMA AwaitedIs ==
  ASSUME Typed, Expecting
  PROVE  /\ Readable(Awaited) /\ Awaited \in Seq(Byte) /\ Len(Awaited) \in Nat
         /\ FixedHeaderLen(Awaited) \in 2..5 /\ FixedHeaderLen(Awaited) =< Len(Awaited)
         /\ Behind \in 1..(Len(sent) + 1)
         /\ InBuffer \in Nat /\ InBuffer >= 10 /\ Full(Awaited) \in Nat
         /\ Full(Awaited) =< Len(Awaited) /\ Full(Awaited) =< InBuffer
<1>1. Readable(Awaited) /\ Behind \in 1..(Len(sent) + 1)
  <2>1. CASE state = "connecting" /\ sent = << >> /\ done = 0
    <3>1. Awaited = Connack /\ Behind = 1 /\ Len(sent) = 0 BY <2>1 DEF Awaited, Behind
    <3> QED BY <3>1, ConnackReadable
  <2>2. CASE state = "connected" /\ done < Len(sent)
    <3>1. Awaited = Wire(sent[done + 1]) /\ Behind = done + 2 BY <2>2 DEF Awaited, Behind
    <3>2. sent \in Seq(Messages) /\ done \in 0..Len(sent) BY DEF Typed
    <3>3. done + 1 \in 1..Len(sent) /\ done + 2 \in 1..(Len(sent) + 1) BY <2>2, <3>2
    <3>4. sent[done + 1] \in Messages BY <3>2, <3>3
    <3> QED BY <3>1, <3>3, <3>4, WireReadable
  <2> QED BY <2>1, <2>2 DEF Expecting
<1>2. /\ Awaited \in Seq(Byte) /\ Len(Awaited) \in Nat
      /\ FixedHeaderLen(Awaited) \in 2..5 /\ FixedHeaderLen(Awaited) =< Len(Awaited)
  BY <1>1 DEF Readable, WellFormed
<1>3. InBuffer \in Nat /\ InBuffer >= 10 BY StreamAssumption, BufferAssumption
<1>4. /\ Full(Awaited) \in Nat
      /\ Full(Awaited) =< Len(Awaited) /\ Full(Awaited) =< InBuffer
  BY <1>2, <1>3 DEF Full
<1> QED BY <1>1, <1>2, <1>3, <1>4

LEMMA ReadGets ==
  ASSUME Typed, Reading, NEW n \in 0..arrived, Read(n), Len(buf) + n =< Len(Awaited)
  PROVE  /\ buf' \in Seq(Byte) /\ Len(buf') = Len(buf) + n /\ PrefixOf(buf', Awaited)
         /\ net' \in Seq(Byte) /\ arrived' \in 0..Len(net')
         /\ Ahead(Awaited, Len(buf'), sent, Behind, net')
<1>1. net \in Seq(Byte) /\ buf \in Seq(Byte) /\ sent \in Seq(Messages) /\ arrived \in 0..Len(net)
  BY DEF Typed
<1>2. Awaited \in Seq(Byte) /\ Behind \in 1..(Len(sent) + 1) BY AwaitedIs DEF Reading
<1>3. PrefixOf(buf, Awaited) /\ Ahead(Awaited, Len(buf), sent, Behind, net) BY DEF Reading
<1>4. n \in 0..Len(net) /\ Len(buf) \in Nat BY <1>1
<1>5. /\ buf' = buf \o SubSeq(net, 1, n) /\ net' = SubSeq(net, n + 1, Len(net))
      /\ arrived' = arrived - n
  BY DEF Read
<1> DEFINE w == Awaited
<1>6. w \in Seq(Byte) /\ Len(buf) + n =< Len(w) BY <1>2
<1> HIDE DEF w
<1>7. buf' \in Seq(Byte) /\ Len(buf') = Len(buf) + n /\ PrefixOf(buf', w)
  BY <1>1, <1>3, <1>4, <1>5, <1>6, PrefixGrows DEF w
<1>8. Ahead(w, Len(buf) + n, sent, Behind, net')
  BY <1>1, <1>2, <1>3, <1>4, <1>5, <1>6, AheadMoves DEF w
<1>9. net' \in Seq(Byte) /\ Len(net') = Len(net) - n BY <1>1, <1>4, <1>5, StreamCut
<1>10. arrived' \in 0..Len(net') BY <1>1, <1>4, <1>5, <1>9
<1> QED BY <1>7, <1>8, <1>9, <1>10 DEF w

LEMMA ReadFits ==
  ASSUME Typed, Expecting, UNCHANGED <<state, sent, done>>,
         buf' \in Seq(Byte), PrefixOf(buf', Awaited), net' \in Seq(Byte), arrived' \in 0..Len(net'),
         Ahead(Awaited, Len(buf'), sent, Behind, net'), Place(Awaited, pc', buf')
  PROVE  Aligned'
<1>1. Awaited' = Awaited /\ Behind' = Behind BY DEF Awaited, Behind
<1>2. Expecting' BY DEF Expecting
<1>3. Typed' BY DEF Typed
<1>4. Reading' BY <1>1, <1>2 DEF Reading
<1> QED BY <1>3, <1>4 DEF Aligned

LEMMA MovesFit ==
  ASSUME Typed, Reading, UNCHANGED <<net, arrived, buf, state, sent, done>>,
         Place(Awaited, pc', buf)
  PROVE  Aligned'
BY ReadFits DEF Typed, Reading

(* In the places of a receive nothing else goes on.                            *)
LEMMA ReceiveReads ==
  ASSUME Aligned,
         \/ pc \in {"length", "topic", "rest", "refuse"}
         \/ pc = "idle" /\ (buf # << >> \/ arrived > 0)
  PROVE  Typed /\ Reading /\ pc # "refuse"
<1>1. Typed BY DEF Aligned
<1>2. ~Delivering BY DEF Delivering
<1>3. ~Quiet
  <2> SUFFICES ASSUME Quiet PROVE FALSE OBVIOUS
  <2>1. pc = "idle" /\ buf = << >> /\ Len(net) = 0 BY DEF Quiet
  <2> QED BY <1>1, <2>1 DEF Typed
<1>4. Reading BY <1>2, <1>3 DEF Aligned
<1>5. pc # "refuse" BY <1>4 DEF Reading, Place
<1> QED BY <1>1, <1>4, <1>5

LEMMA ReadsOne ==
  ASSUME Typed, Reading, arrived > 0, Read(1), Len(buf) < Len(Awaited)
  PROVE  /\ buf' \in Seq(Byte) /\ Len(buf') = Len(buf) + 1 /\ PrefixOf(buf', Awaited)
         /\ net' \in Seq(Byte) /\ arrived' \in 0..Len(net')
         /\ Ahead(Awaited, Len(buf'), sent, Behind, net')
         /\ net[1] = Awaited[Len(buf) + 1]
<1> DEFINE w == Awaited
<1>1. w \in Seq(Byte) /\ Len(w) \in Nat BY AwaitedIs DEF Reading
<1>2. Len(buf) \in Nat /\ arrived \in Nat BY DEF Typed
<1>3. \A n \in 0..arrived : (n = 1 /\ Read(n)) =>
        /\ buf' \in Seq(Byte) /\ Len(buf') = Len(buf) + n /\ PrefixOf(buf', w)
        /\ net' \in Seq(Byte) /\ arrived' \in 0..Len(net')
        /\ Ahead(w, Len(buf'), sent, Behind, net')
  <2> TAKE n \in 0..arrived
  <2> HAVE n = 1 /\ Read(n)
  <2>1. Len(buf) + n =< Len(w) BY <1>1, <1>2
  <2> QED BY <2>1, ReadGets
<1>4. 1 \in 0..arrived BY <1>2
<1>5. Ahead(w, Len(buf), sent, Behind, net) /\ Len(buf) < Len(w) BY DEF Reading
<1> HIDE DEF w
<1>6. net[1] = w[Len(buf) + 1] BY <1>1, <1>2, <1>5, NextByte
<1> QED BY <1>3, <1>4, <1>6 DEF w

LEMMA ReceiveFirstStep ==
  ASSUME Aligned, ReceiveFirst
  PROVE  Aligned'
<1>1. pc = "idle" /\ buf = << >> /\ arrived > 0 /\ Read(1) /\ UNCHANGED <<state, sent, done>>
  BY DEF ReceiveFirst, histVars
<1>2. Typed /\ Reading BY <1>1, ReceiveReads
<1> DEFINE w == Awaited
<1>3. /\ Readable(w) /\ Len(w) \in Nat
      /\ FixedHeaderLen(w) \in 2..5 /\ FixedHeaderLen(w) =< Len(w)
  BY <1>2, AwaitedIs DEF Reading
<1>4. Len(buf) = 0 /\ Len(buf) < Len(w) BY <1>1, <1>3
<1>5. /\ buf' \in Seq(Byte) /\ Len(buf') = 1 /\ PrefixOf(buf', w)
      /\ net' \in Seq(Byte) /\ arrived' \in 0..Len(net')
      /\ Ahead(w, Len(buf'), sent, Behind, net')
      /\ net[1] = w[1]
  BY <1>1, <1>2, <1>4, ReadsOne
<1>6. pc' = "length"
  <2>1. mqtt_has_valid_msg_hdr(w[1]) BY <1>3 DEF Readable, WellFormed
  <2> QED BY <1>5, <2>1 DEF ReceiveFirst
<1>7. Place(w, pc', buf') BY <1>3, <1>5, <1>6 DEF Place
<1> QED BY <1>1, <1>2, <1>5, <1>7, ReadFits DEF Reading

LEMMA ReceiveResumedStep ==
  ASSUME Aligned, ReceiveResumed, ~stretched'
  PROVE  Aligned'
<1>1. /\ pc = "idle" /\ buf # << >> /\ UNCHANGED <<net, arrived, buf, state, sent, done>>
      /\ IF LengthFollows THEN pc' = "length" ELSE GoesOn
      /\ ~(LengthFollows /\ HeaderComplete)
  BY DEF ReceiveResumed
<1>2. Typed /\ Reading BY <1>1, ReceiveReads
<1> DEFINE w == Awaited
           F == FixedHeaderLen(w)
           B == Len(buf)
<1>3. /\ Readable(w) /\ w \in Seq(Byte) /\ Len(w) \in Nat /\ F \in 2..5 /\ F =< Len(w)
      /\ \A k \in 2..F : w[k] < 128 <=> k = F
  BY <1>2, AwaitedIs DEF Reading, Readable, WellFormed
<1>4. /\ buf \in Seq(Byte) /\ B \in Nat \ {0} /\ PrefixOf(buf, w)
      /\ B < Len(w) /\ B =< InBuffer
  <2>1. buf \in Seq(Byte) /\ PrefixOf(buf, w) BY <1>2 DEF Typed, Reading
  <2>2. B \in Nat \ {0} BY <1>1, <2>1
  <2>3. B < Len(w) /\ B =< InBuffer BY <1>1, <1>2 DEF Reading, Place
  <2> QED BY <2>1, <2>2, <2>3
<1>p. \A j \in 1..B : buf[j] = w[j] BY <1>4 DEF PrefixOf
<1> HIDE DEF w, F, B
<1>5. ASSUME LengthFollows PROVE Place(w, pc', buf)
  <2>1. B < F
    <3> SUFFICES ASSUME F =< B PROVE FALSE BY <1>3, <1>4
    <3>1. F \in 2..B BY <1>3, <1>4
    <3>2. buf[F] < 128
      <4>1. F \in 1..B /\ F \in 2..F BY <1>3, <3>1
      <4> QED BY <1>3, <1>p, <4>1
    <3>3. HeaderComplete BY <3>1, <3>2 DEF HeaderComplete, B
    <3> QED BY <1>1, <1>5, <3>3
  <2> QED BY <1>1, <1>4, <1>5, <2>1 DEF Place, F, B
<1>6. ASSUME ~LengthFollows PROVE Place(w, pc', buf)
  <2>1. B >= F
    <3> SUFFICES ASSUME B < F PROVE FALSE BY <1>3, <1>4
    <3>1. B # 1 /\ B < 6 BY <1>3, <1>6 DEF LengthFollows, B
    <3>2. B \in 2..F /\ B # F /\ B \in 1..B BY <1>3, <1>4, <3>1
    <3>3. ~(w[B] < 128) /\ buf[B] = w[B] BY <1>3, <1>p, <3>2
    <3>4. buf[B] \in Byte BY <1>4, <3>2 DEF B
    <3>5. buf[B] >= 128 BY <3>3, <3>4 DEF Byte
    <3> QED BY <1>6, <3>1, <3>5 DEF LengthFollows, B
  <2>2. GoesOn /\ buf' = buf BY <1>1, <1>6
  <2> QED BY <1>3, <1>4, <2>1, <2>2, GoesOnFits DEF B, F
<1>7. Place(w, pc', buf) BY <1>5, <1>6
<1> QED BY <1>1, <1>2, <1>7, MovesFit DEF w
LEMMA ReadLengthStep ==
  ASSUME Aligned, ReadLength
  PROVE  Aligned'
<1>1. /\ pc = "length" /\ arrived > 0 /\ Read(1) /\ UNCHANGED <<state, sent, done>>
      /\ IF Len(buf') < 6 /\ net[1] >= 128 THEN UNCHANGED pc ELSE GoesOn
  BY DEF ReadLength, histVars
<1>2. Typed /\ Reading BY <1>1, ReceiveReads
<1> DEFINE w == Awaited
           F == FixedHeaderLen(w)
           B == Len(buf)
<1>3. /\ Readable(w) /\ w \in Seq(Byte) /\ Len(w) \in Nat /\ F \in 2..5 /\ F =< Len(w)
      /\ \A k \in 2..F : w[k] < 128 <=> k = F
      /\ InBuffer \in Nat /\ InBuffer >= 10
  BY <1>2, AwaitedIs DEF Reading, Readable, WellFormed
<1>4. B \in Nat /\ B >= 1 /\ B < F BY <1>1, <1>2 DEF Typed, Reading, Place
<1>5. B < Len(w) BY <1>3, <1>4
<1>6. /\ buf' \in Seq(Byte) /\ Len(buf') = B + 1 /\ PrefixOf(buf', w)
      /\ net' \in Seq(Byte) /\ arrived' \in 0..Len(net')
      /\ Ahead(w, Len(buf'), sent, Behind, net')
      /\ net[1] = w[B + 1]
  BY <1>1, <1>2, <1>5, ReadsOne
<1> HIDE DEF w, F, B
<1>7. B + 1 \in 2..F /\ B + 1 \in 1..Len(w) BY <1>3, <1>4
<1>8. w[B + 1] >= 128 <=> B + 1 # F
  <2>1. w[B + 1] \in Byte BY <1>3, <1>7
  <2>2. \A i \in Byte : i >= 128 <=> ~(i < 128) BY DEF Byte
  <2> QED BY <1>3, <1>7, <2>1, <2>2
<1>9. Place(w, pc', buf')
  <2>1. CASE w[B + 1] >= 128
    <3>1. B + 1 < F BY <1>3, <1>7, <1>8, <2>1
    <3>2. pc' = "length" BY <1>1, <1>3, <1>6, <2>1, <3>1
    <3>3. Len(buf') >= 1 /\ Len(buf') < F BY <1>4, <1>6, <3>1
    <3> QED BY <3>2, <3>3 DEF Place, F
  <2>2. CASE ~(w[B + 1] >= 128)
    <3>1. B + 1 = F BY <1>3, <1>7, <1>8, <2>2
    <3>2. GoesOn BY <1>1, <1>6, <2>2
    <3>3. Len(buf') >= F /\ Len(buf') =< InBuffer BY <1>3, <1>6, <3>1
    <3> QED BY <1>3, <1>6, <3>2, <3>3, GoesOnFits DEF F
  <2> QED BY <2>1, <2>2
<1> QED BY <1>1, <1>2, <1>6, <1>9, ReadFits DEF Reading, w

(* As many bytes as a read asks for, or as there are.                          *)
LEMMA MinTwo ==
  ASSUME NEW a \in Int, NEW b \in Int
  PROVE  Min({a, b}) \in Int /\ Min({a, b}) = IF a =< b THEN a ELSE b
<1> DEFINE S == {a, b}
<1>1. CASE a =< b
  <2>1. a \in S /\ S \subseteq Int /\ \A y \in S : a =< y BY <1>1
  <2> HIDE DEF S
  <2>2. Min(S) = a BY <2>1, MinIs
  <2> QED BY <1>1, <2>2 DEF S
<1>2. CASE ~(a =< b)
  <2>1. b \in S /\ S \subseteq Int /\ \A y \in S : b =< y BY <1>2
  <2> HIDE DEF S
  <2>2. Min(S) = b BY <2>1, MinIs
  <2> QED BY <1>2, <2>2 DEF S
<1> QED BY <1>1, <1>2

LEMMA ReadTopicLenStep ==
  ASSUME Aligned, ReadTopicLen
  PROVE  Aligned'
<1> DEFINE asked == Len(buf) - FixedHeaderLen(buf) + 2
           n == Min({arrived, asked})
           w == Awaited
           F == FixedHeaderLen(w)
<1>1. /\ pc = "topic" /\ arrived > 0 /\ Read(n) /\ UNCHANGED <<state, sent, done>>
      /\ IF Len(buf') < FixedHeaderLen(buf') + 2 THEN pc' = "idle" ELSE GoesOn
  BY DEF ReadTopicLen, histVars
<1>2. Typed /\ Reading BY <1>1, ReceiveReads
<1>3. /\ Readable(w) /\ w \in Seq(Byte) /\ Len(w) \in Nat /\ F \in 2..5 /\ F =< Len(w)
      /\ InBuffer \in Nat /\ InBuffer >= 10
  BY <1>2, AwaitedIs DEF Reading
<1>4. /\ Len(w) > InBuffer /\ F =< Len(buf) /\ Len(buf) < F + 2
      /\ buf \in Seq(Byte) /\ PrefixOf(buf, w) /\ arrived \in Nat
  BY <1>1, <1>2 DEF Typed, Reading, Place
<1>5. FixedHeaderLen(buf) = F
  <2>1. WellFormed(w) /\ Len(buf) >= F BY <1>3, <1>4 DEF Readable
  <2> HIDE DEF w
  <2> QED BY <1>4, <2>1, PrefixHeader DEF F
<1>6. asked \in Nat /\ asked =< 3 /\ Len(buf) \in Nat BY <1>3, <1>4, <1>5
<1> HIDE DEF asked
<1>7. n \in 0..arrived /\ n =< 3 BY <1>4, <1>6, MinTwo
<1> HIDE DEF n
<1>8. Len(buf) + n =< Len(w) /\ Len(buf) + n =< 9 BY <1>3, <1>4, <1>6, <1>7
<1>9. /\ buf' \in Seq(Byte) /\ Len(buf') = Len(buf) + n /\ PrefixOf(buf', w)
      /\ net' \in Seq(Byte) /\ arrived' \in 0..Len(net')
      /\ Ahead(w, Len(buf'), sent, Behind, net')
  BY <1>1, <1>2, <1>7, <1>8, ReadGets
<1>10. Len(buf') >= F /\ Len(buf') =< InBuffer /\ Len(buf') < Len(w)
  BY <1>3, <1>4, <1>6, <1>7, <1>8, <1>9
<1>11. Place(w, pc', buf')
  <2> HIDE DEF w, F
  <2>1. CASE pc' = "idle" BY <1>10, <2>1 DEF Place
  <2>2. CASE GoesOn BY <1>3, <1>9, <1>10, <2>2, GoesOnFits DEF F
  <2> QED BY <1>1, <2>1, <2>2
<1> QED BY <1>1, <1>2, <1>9, <1>11, ReadFits DEF Reading

LEMMA ReadRestStep ==
  ASSUME Aligned, ReadRest
  PROVE  Aligned'
<1> DEFINE asked == TargetLen(buf) - Len(buf)
           n == Min({arrived, asked})
           w == Awaited
           F == FixedHeaderLen(w)
<1>1. /\ pc = "rest" /\ arrived > 0 /\ Read(n) /\ UNCHANGED <<state, sent, done>>
      /\ pc' = IF Len(buf') < TargetLen(buf) THEN "idle" ELSE "process"
  BY DEF ReadRest, histVars
<1>2. Typed /\ Reading BY <1>1, ReceiveReads
<1>3. /\ Readable(w) /\ w \in Seq(Byte) /\ Len(w) \in Nat
      /\ Full(w) \in Nat /\ Full(w) =< Len(w) /\ Full(w) =< InBuffer /\ InBuffer \in Nat
  BY <1>2, AwaitedIs DEF Reading
<1>4. /\ F =< Len(buf) /\ Len(buf) < Full(w) /\ F \in Nat
      /\ buf \in Seq(Byte) /\ PrefixOf(buf, w) /\ arrived \in Nat
  <2>1. buf \in Seq(Byte) /\ arrived \in Nat BY <1>2 DEF Typed
  <2>2. PrefixOf(buf, w) /\ Place(w, pc, buf) BY <1>2 DEF Reading
  <2>3. F =< Len(buf) /\ Len(buf) < Full(w) BY <1>1, <2>2 DEF Place
  <2>4. F \in Nat BY <1>2, AwaitedIs DEF Reading
  <2> QED BY <2>1, <2>2, <2>3, <2>4
<1>5. TargetLen(buf) = Full(w)
  <2>1. Len(buf) >= F BY <1>4
  <2> HIDE DEF w
  <2> QED BY <1>3, <1>4, <2>1, TargetIs DEF F
<1>6. asked \in Nat /\ Len(buf) + asked = Full(w) /\ Len(buf) \in Nat BY <1>3, <1>4, <1>5
<1> HIDE DEF asked
<1>7. n \in 0..arrived /\ n =< asked BY <1>4, <1>6, MinTwo
<1> HIDE DEF n
<1>8. Len(buf) + n =< Full(w) /\ Len(buf) + n =< Len(w) BY <1>3, <1>6, <1>7
<1>9. /\ buf' \in Seq(Byte) /\ Len(buf') = Len(buf) + n /\ PrefixOf(buf', w)
      /\ net' \in Seq(Byte) /\ arrived' \in 0..Len(net')
      /\ Ahead(w, Len(buf'), sent, Behind, net')
  BY <1>1, <1>2, <1>7, <1>8, ReadGets
<1>10. Len(buf') \in Nat /\ Len(buf') =< Full(w) BY <1>8, <1>9
<1>11. Place(w, pc', buf')
  <2> HIDE DEF w, F
  <2>1. CASE Len(buf') < Full(w)
    <3>1. pc' = "idle" BY <1>1, <1>5, <2>1
    <3>2. Len(buf') < Len(w) /\ Len(buf') =< InBuffer BY <1>3, <1>10, <2>1
    <3> QED BY <3>1, <3>2 DEF Place
  <2>2. CASE ~(Len(buf') < Full(w))
    <3>1. pc' = "process" BY <1>1, <1>5, <2>2
    <3>2. Len(buf') = Full(w) BY <1>3, <1>10, <2>2
    <3> QED BY <3>1, <3>2 DEF Place
  <2> QED BY <2>1, <2>2
<1> QED BY <1>1, <1>2, <1>9, <1>11, ReadFits DEF Reading

LEMMA ReadNothingStep ==
  ASSUME Aligned, ReadNothing, state' # "closed"
  PROVE  Aligned'
<1>1. /\ pc \in {"length", "topic", "rest"} /\ pc' = "idle"
      /\ UNCHANGED <<net, arrived, buf, state, sent, done>>
  BY DEF ReadNothing, Closes, histVars
<1>2. Typed /\ Reading BY <1>1, ReceiveReads
<1> DEFINE w == Awaited
           F == FixedHeaderLen(w)
<1>3. /\ Len(w) \in Nat /\ F \in 2..5 /\ F =< Len(w) /\ InBuffer \in Nat /\ InBuffer >= 10
      /\ Full(w) \in Nat /\ Full(w) =< Len(w) /\ Full(w) =< InBuffer
  BY <1>2, AwaitedIs DEF Reading
<1>4. Len(buf) \in Nat /\ Place(w, pc, buf) BY <1>2 DEF Typed, Reading
<1> HIDE DEF w, F
<1>5. Len(buf) < Len(w) /\ Len(buf) =< InBuffer
  <2>1. CASE pc = "length"
    <3>1. Len(buf) < F BY <1>4, <2>1 DEF Place, F
    <3> QED BY <1>3, <1>4, <3>1
  <2>2. CASE pc = "topic"
    <3>1. Len(w) > InBuffer /\ Len(buf) < F + 2 BY <1>4, <2>2 DEF Place, F
    <3> QED BY <1>3, <1>4, <3>1
  <2>3. CASE pc = "rest"
    <3>1. Len(buf) < Full(w) BY <1>4, <2>3 DEF Place
    <3> QED BY <1>3, <1>4, <3>1
  <2> QED BY <1>1, <2>1, <2>2, <2>3
<1>6. Place(w, pc', buf) BY <1>1, <1>5 DEF Place
<1> QED BY <1>1, <1>2, <1>6, MovesFit DEF w

-----------------------------------------------------------------------------
(* The steps that handle a message.                                            *)

(* Of a command that is there as far as the buffer takes it the client reads   *)
(* the topic, the identifier and where the data begin.                         *)
LEMMA PublishFull ==
  ASSUME NEW m \in Messages, m.type = Type.PUBLISH, NEW b \in Seq(Byte),
         PrefixOf(b, Wire(m)), Len(b) = Full(Wire(m))
  PROVE  LET F == FixedHeaderLen(Wire(m))
         IN /\ FixedHeaderLen(b) = F /\ F \in 2..5 /\ F + 5 =< Len(b)
            /\ Len(b) =< Len(Wire(m)) /\ Len(Wire(m)) = F + 5 + Len(m.data)
            /\ mqtt_get_total_length(b) = Len(Wire(m))
            /\ mqtt_get_type(b) = Type.PUBLISH /\ mqtt_get_qos(b) = 1
            /\ TopicEnd(b) = F + 3 /\ DataStart(b) = F + 5
            /\ HasTopic(b) /\ mqtt_get_id(b) = m.id
<1> DEFINE w == Wire(m)
           F == FixedHeaderLen(w)
<1>1. /\ WellFormed(w) /\ mqtt_get_type(w) = Type.PUBLISH /\ mqtt_get_qos(w) = 1
      /\ Len(w) = F + 5 + Len(m.data)
      /\ 256 * w[F + 4] + w[F + 5] = m.id
  BY PublishMessages DEF PublishShape
<1>2. F \in 2..5 /\ Len(m.data) \in Nat /\ InBuffer \in Nat /\ InBuffer >= 10
  BY <1>1, MessageIs, StreamAssumption, BufferAssumption DEF WellFormed
<1>3. Len(b) = Full(w) /\ PrefixOf(b, w) OBVIOUS
<1>t. TopicLen(b) = 1 /\ mqtt_get_qos(b) = 1 /\ F + 5 =< Len(b) /\ Len(b) =< Len(w)
  <2>1. F + 5 =< Len(b) /\ Len(b) =< Len(w) BY <1>1, <1>2, <1>3 DEF Full
  <2>2. Len(b) >= F + 2 BY <1>2, <2>1
  <2> QED BY <2>1, <2>2, PublishBytes
<1> HIDE DEF w, F
<1>4. Len(b) >= F BY <1>2, <1>t
<1>5. /\ FixedHeaderLen(b) = F /\ mqtt_get_total_length(b) = Len(w)
      /\ mqtt_get_type(b) = Type.PUBLISH
  BY <1>1, <1>3, <1>4, PrefixHeader DEF F
<1>6. TopicEnd(b) = F + 3 /\ DataStart(b) = F + 5
  <2>1. TopicEnd(b) = F + 2 + 1 BY <1>5, <1>t DEF TopicEnd
  <2> QED BY <1>2, <1>t, <2>1 DEF DataStart
<1>7. HasTopic(b) BY <1>2, <1>4, <1>5, <1>6, <1>t DEF HasTopic
<1>8. mqtt_get_id(b) = m.id
  <2>1. F + 4 \in 1..Len(b) /\ F + 5 \in 1..Len(b) BY <1>2, <1>t
  <2>2. b[F + 4] = w[F + 4] /\ b[F + 5] = w[F + 5] BY <1>3, <2>1 DEF PrefixOf
  <2>3. TopicEnd(b) + 1 = F + 4 /\ TopicEnd(b) + 2 = F + 5 BY <1>2, <1>6
  <2>4. /\ mqtt_get_type(b) = Type.PUBLISH /\ HasTopic(b) /\ mqtt_get_qos(b) > 0
        /\ TopicEnd(b) + 2 =< Len(b)
    BY <1>5, <1>7, <1>t, <2>3
  <2>5. mqtt_get_type(b) \notin {Type[t] : t \in {"PUBACK", "PUBREC", "PUBREL", "PUBCOMP", "SUBACK",
                                              "UNSUBACK", "SUBSCRIBE", "UNSUBSCRIBE"}}
    BY <1>5 DEF Type
  <2>6. mqtt_get_id(b) = 256 * b[TopicEnd(b) + 1] + b[TopicEnd(b) + 2]
    BY <2>4, <2>5 DEF mqtt_get_id
  <2> QED BY <1>1, <2>2, <2>3, <2>6
<1> QED BY <1>1, <1>2, <1>5, <1>6, <1>7, <1>8, <1>t DEF w, F

(* A message is done with: the next one is at the head of the stream.          *)
LEMMA AfterMessage ==
  ASSUME Typed, state = "connected", done < Len(sent),
         Ahead(Wire(sent[done + 1]), Len(Wire(sent[done + 1])), sent, done + 2, net),
         buf' = << >>, pc' = "idle", done' = done + 1, UNCHANGED <<net, arrived, state, sent>>
  PROVE  Aligned'
<1>1. /\ net \in Seq(Byte) /\ arrived \in 0..Len(net) /\ sent \in Seq(Messages)
      /\ done \in 0..Len(sent) /\ Len(sent) \in Nat
  BY DEF Typed
<1>2. done + 1 \in 1..Len(sent) /\ done + 2 \in 1..(Len(sent) + 1) /\ sent[done + 1] \in Messages
  <2>1. done + 1 \in 1..Len(sent) /\ done + 2 \in 1..(Len(sent) + 1) BY <1>1
  <2> QED BY <1>1, <2>1
<1>3. Wire(sent[done + 1]) \in Seq(Byte) BY <1>2, WireIs
<1>4. /\ done + 2 =< Len(sent) => Ahead(Wire(sent[done + 2]), 0, sent, (done + 2) + 1, net)
      /\ done + 2 = Len(sent) + 1 => net = << >>
  BY <1>1, <1>2, <1>3, AheadNext
<1>5. Typed'
  <2>1. << >> \in Seq(Byte) OBVIOUS
  <2>2. done' \in 0..Len(sent') BY <1>1, <1>2
  <2> QED BY <1>1, <2>1, <2>2 DEF Typed
<1>6. CASE done + 2 = Len(sent) + 1
  <2>1. done' = Len(sent') BY <1>1, <1>6
  <2>2. Quiet' BY <1>4, <1>6, <2>1 DEF Quiet
  <2> QED BY <1>5, <2>2 DEF Aligned
<1>7. CASE done + 2 =< Len(sent)
  <2> DEFINE next == Wire(sent[done + 2])
  <2>1. done' + 1 = done + 2 /\ done' + 2 = (done + 2) + 1 /\ done' < Len(sent') BY <1>1, <1>7
  <2>2. Awaited' = next /\ Behind' = (done + 2) + 1 /\ Expecting'
    BY <2>1 DEF Awaited, Behind, Expecting
  <2>3. sent[done + 2] \in Messages
    <3>1. done + 2 \in 1..Len(sent) BY <1>1, <1>7
    <3> QED BY <1>1, <3>1
  <2>4. next \in Seq(Byte) /\ Len(next) \in Nat \ {0} BY <2>3, WireIs
  <2>5. Ahead(next, 0, sent, (done + 2) + 1, net) BY <1>4, <1>7
  <2> HIDE DEF next
  <2>6. Len(buf') = 0 /\ InBuffer \in Nat BY StreamAssumption
  <2>7. PrefixOf(buf', next) /\ Place(next, pc', buf') BY <2>4, <2>6 DEF PrefixOf, Place
  <2>8. Reading' BY <2>2, <2>5, <2>6, <2>7 DEF Reading
  <2> QED BY <1>5, <2>8 DEF Aligned
<1> QED BY <1>1, <1>2, <1>6, <1>7

(* A message that is handled is the one that comes next.                       *)
LEMMA ProcessHandles ==
  ASSUME Aligned, pc = "process"
  PROVE  /\ Typed /\ Reading /\ Len(buf) = Full(Awaited)
         /\ Len(buf) >= FixedHeaderLen(Awaited)
         /\ mqtt_get_type(buf) = mqtt_get_type(Awaited)
<1>1. Typed /\ Reading
  <2>1. ~Delivering /\ ~Quiet BY DEF Delivering, Quiet
  <2> QED BY <2>1 DEF Aligned
<1> DEFINE w == Awaited
           F == FixedHeaderLen(w)
<1>2. Len(buf) = Full(w) /\ PrefixOf(buf, w) BY <1>1 DEF Reading, Place
<1>3. /\ Readable(w) /\ F \in 2..5 /\ F =< Len(w) /\ Len(w) \in Nat
      /\ InBuffer \in Nat /\ InBuffer >= 10
  BY <1>1, AwaitedIs DEF Reading
<1> HIDE DEF w, F
<1>4. Len(buf) >= F BY <1>2, <1>3 DEF Full
<1>5. WellFormed(w) /\ buf \in Seq(Byte) BY <1>1, <1>3 DEF Readable, Typed
<1>6. mqtt_get_type(buf) = mqtt_get_type(w) BY <1>2, <1>4, <1>5, PrefixHeader DEF F
<1> QED BY <1>1, <1>2, <1>4, <1>6 DEF w, F

LEMMA ProcessConnackStep ==
  ASSUME Aligned, ProcessConnack, state' # "closed"
  PROVE  Aligned'
<1>1. /\ pc = "process" /\ state = "connecting" /\ state' = "connected" /\ pc' = "idle"
      /\ buf' = << >> /\ UNCHANGED <<net, arrived, sent, done>>
  BY DEF ProcessConnack, Closes, histVars
<1>2. Typed /\ Reading /\ Len(buf) = Full(Awaited) BY <1>1, ProcessHandles
<1>3. sent = << >> /\ done = 0 /\ Awaited = Connack /\ Behind = 1
  BY <1>1, <1>2 DEF Reading, Expecting, Awaited, Behind
<1>4. Connack \in Seq(Byte) /\ Len(Connack) = 4 BY ConnackShape DEF WellFormed
<1>5. Len(buf) = Len(Connack)
  <2>1. Full(Connack) = 4 BY <1>4, StreamAssumption, BufferAssumption DEF Full
  <2> QED BY <1>2, <1>3, <1>4, <2>1
<1>6. Ahead(Connack, Len(Connack), sent, 1, net) BY <1>2, <1>3, <1>5 DEF Reading
<1>7. net \in Seq(Byte) /\ sent \in Seq(Messages) /\ arrived \in 0..Len(net) BY <1>2 DEF Typed
<1>8. Len(sent) = 0 /\ 1 \in 1..(Len(sent) + 1) BY <1>3
<1>9. \A k \in 1..(Len(sent) + 1) :
        (k = Len(sent) + 1 /\ Ahead(Connack, Len(Connack), sent, k, net)) => net = << >>
  BY <1>4, <1>7, AheadNext
<1>10. net = << >> BY <1>6, <1>8, <1>9
<1>11. Typed'
  <2>1. << >> \in Seq(Byte) OBVIOUS
  <2> QED BY <1>1, <1>2, <2>1 DEF Typed
<1>12. Quiet' BY <1>1, <1>3, <1>8, <1>10 DEF Quiet
<1> QED BY <1>11, <1>12 DEF Aligned
LEMMA ProcessAnswerStep ==
  ASSUME Aligned, ProcessAnswer, inStep
  PROVE  Aligned' /\ inStep'
<1> DEFINE m == sent[done + 1]
           w == Wire(m)
<1>1. pc = "process" /\ state = "connected" /\ mqtt_get_type(buf) # Type.PUBLISH
  BY DEF ProcessAnswer
<1>2. /\ Typed /\ Reading /\ Len(buf) = Full(Awaited)
      /\ mqtt_get_type(buf) = mqtt_get_type(Awaited)
  BY <1>1, ProcessHandles
<1>3. Awaited = w /\ Behind = done + 2 /\ done < Len(sent)
  BY <1>1, <1>2 DEF Reading, Expecting, Awaited, Behind
<1>4. m \in Messages
  <2>1. sent \in Seq(Messages) /\ done + 1 \in 1..Len(sent) BY <1>2, <1>3 DEF Typed
  <2> QED BY <2>1
<1>5. PrefixOf(buf, w) /\ Ahead(w, Len(buf), sent, done + 2, net) BY <1>2, <1>3 DEF Reading
<1>6. m.type # Type.PUBLISH
  BY <1>1, <1>2, <1>3, <1>4, PublishMessages DEF PublishShape
<1>7. /\ m.type \in {Type.PUBACK, Type.SUBACK, Type.PINGRESP}
      /\ m.data = << >>
  BY <1>4, <1>6, MessageIs
<1>8. /\ WellFormed(w) /\ mqtt_get_type(w) = m.type /\ Len(w) =< 5
      /\ m.type = Type.SUBACK => Len(w) = 5
      /\ m.type # Type.PINGRESP => Len(w) >= 4 /\ w[2] < 128 /\ 256 * w[3] + w[4] = m.id
  BY <1>4, <1>6, ShortMessages DEF ShortShape
<1> HIDE DEF m, w
<1>9. Len(buf) = Len(w)
  <2>1. Len(w) \in Nat BY <1>8 DEF WellFormed
  <2>2. Full(w) = Len(w) BY <1>8, <2>1, StreamAssumption, BufferAssumption DEF Full
  <2> QED BY <1>2, <1>3, <2>2
<1>10. mqtt_get_type(buf) = m.type BY <1>2, <1>3, <1>8
<1>11. m.type = Type.PINGRESP \/ mqtt_get_id(buf) = m.id
  <2> SUFFICES ASSUME m.type # Type.PINGRESP PROVE mqtt_get_id(buf) = m.id OBVIOUS
  <2>1. Len(w) >= 4 /\ w[2] < 128 /\ 256 * w[3] + w[4] = m.id /\ Len(w) \in Nat
    BY <1>8 DEF WellFormed
  <2>2. 2 \in 1..Len(buf) /\ 3 \in 1..Len(buf) /\ 4 \in 1..Len(buf) BY <1>9, <2>1
  <2>3. buf[2] = w[2] /\ buf[3] = w[3] /\ buf[4] = w[4] BY <1>5, <2>2 DEF PrefixOf
  <2>4. mqtt_get_type(buf) # Type.PUBLISH BY <1>1
  <2>5. mqtt_get_type(buf) \in {Type[t] : t \in {"PUBACK", "PUBREC", "PUBREL", "PUBCOMP", "SUBACK",
                                              "UNSUBACK", "SUBSCRIBE", "UNSUBSCRIBE"}}
    BY <1>7, <1>10
  <2>6. mqtt_get_id(buf) = IF Len(buf) >= 4 /\ buf[2] < 128 THEN 256 * buf[3] + buf[4] ELSE 0
    BY <2>4, <2>5 DEF mqtt_get_id
  <2> QED BY <1>9, <2>1, <2>3, <2>6
<1>12. ~(mqtt_get_type(buf) = Type.SUBACK /\ Len(buf) =< 4)
  <2> SUFFICES ASSUME mqtt_get_type(buf) = Type.SUBACK PROVE ~(Len(buf) =< 4) OBVIOUS
  <2>1. Len(buf) = 5 BY <1>8, <1>9, <1>10
  <2> QED BY <2>1
<1>13. Taken(0) /\ UNCHANGED <<net, arrived, state, sent>>
  BY <1>12 DEF ProcessAnswer
<1>14. Expected = m BY <1>3 DEF Expected, m
<1>15. inStep'
  <2>1. Len(m.data) = 0 BY <1>7
  <2> QED BY <1>10, <1>11, <1>13, <1>14, <2>1 DEF Taken
<1>16. Ahead(w, Len(w), sent, done + 2, net) BY <1>5, <1>9
<1>17. buf' = << >> /\ pc' = "idle" /\ done' = done + 1 BY <1>13 DEF Taken
<1> QED BY <1>1, <1>2, <1>3, <1>13, <1>15, <1>16, <1>17, AfterMessage DEF m, w

(* Of d bytes of data g have been handed over, r are still to come.            *)
Shared(g, r, p, w, b, d) ==
  /\ g \in Nat /\ r \in 0..w /\ g + r = d
  /\ r = w - b /\ w - r = b
  /\ \/ p = "chunk" /\ r > 0
     \/ p = "ack" /\ r = 0

LEMMA FirstPiece ==
  ASSUME NEW F \in Nat, NEW b \in Nat, NEW w \in Nat, NEW d \in Nat,
         F + 5 =< b, b =< w, w = F + 5 + d,
         NEW g, g = b - (F + 5),
         NEW r, r = IF w - b > 0 THEN w - b ELSE 0,
         NEW p, p = IF w - b > 0 THEN "chunk" ELSE "ack"
  PROVE  Shared(g, r, p, w, b, d)
<1>1. CASE w - b > 0 BY <1>1 DEF Shared
<1>2. CASE ~(w - b > 0)
  <2>1. b = w /\ r = 0 BY <1>2
  <2> QED BY <1>2, <2>1 DEF Shared
<1> QED BY <1>1, <1>2

(* The pieces of a command that have been handed over, and the rest of it, are *)
(* the whole of its data.                                                      *)
LEMMA DeliverFirstStep ==
  ASSUME Aligned, DeliverFirst, inStep
  PROVE  Aligned' /\ inStep'
<1> DEFINE m == sent[done + 1]
           w == Wire(m)
           F == FixedHeaderLen(w)
           data == IF HasData(buf) THEN mqtt_get_publish_data(buf) ELSE << >>
           more == mqtt_get_total_length(buf) - Len(buf)
<1>1. pc = "process" /\ state = "connected" /\ mqtt_get_type(buf) = Type.PUBLISH
  BY DEF DeliverFirst
<1>2. /\ Typed /\ Reading /\ Len(buf) = Full(Awaited)
      /\ mqtt_get_type(buf) = mqtt_get_type(Awaited)
  BY <1>1, ProcessHandles
<1>3. Awaited = w /\ Behind = done + 2 /\ done < Len(sent)
  BY <1>1, <1>2 DEF Reading, Expecting, Awaited, Behind
<1>4. m \in Messages /\ buf \in Seq(Byte)
  <2>1. sent \in Seq(Messages) /\ done + 1 \in 1..Len(sent) BY <1>2, <1>3 DEF Typed
  <2> QED BY <1>2, <2>1 DEF Typed
<1>5. /\ PrefixOf(buf, w) /\ Ahead(w, Len(buf), sent, done + 2, net) /\ Len(buf) = Full(w)
  BY <1>2, <1>3 DEF Reading
<1>6. m.type = Type.PUBLISH
  BY <1>1, <1>2, <1>3, <1>4, ShortMessages DEF ShortShape
<1>7. /\ FixedHeaderLen(buf) = F /\ F \in 2..5 /\ F + 5 =< Len(buf)
      /\ Len(buf) =< Len(w) /\ Len(w) = F + 5 + Len(m.data)
      /\ mqtt_get_total_length(buf) = Len(w)
      /\ mqtt_get_qos(buf) = 1
      /\ TopicEnd(buf) = F + 3 /\ DataStart(buf) = F + 5 /\ HasTopic(buf)
  BY <1>4, <1>5, <1>6, PublishFull
<1>8. Len(m.data) \in Nat BY <1>4, MessageIs
<1>9. Len(w) \in Nat /\ Len(buf) \in Nat BY <1>4, WireIs
<1>10. /\ got' = Len(data) /\ rest' = IF more > 0 THEN more ELSE 0
       /\ pc' = IF more > 0 THEN "chunk" ELSE "ack"
       /\ UNCHANGED <<net, arrived, buf, state, sent, done, inStep>>
  BY <1>7 DEF DeliverFirst, histVars
<1>11. Len(data) = Len(buf) - (F + 5)
  <2>1. CASE HasData(buf)
    <3> DEFINE to == Min({Len(buf), mqtt_get_total_length(buf)})
    <3>1. to = Len(buf) BY <1>7, <1>9, MinTwo
    <3>2. data = SubSeq(buf, F + 5 + 1, Len(buf)) BY <1>7, <2>1, <3>1 DEF mqtt_get_publish_data
    <3> HIDE DEF data, F
    <3>3. F + 5 \in 0..Len(buf) BY <1>7, <1>9
    <3>4. \A n \in 0..Len(buf) : n = F + 5 => Len(data) = Len(buf) - n BY <1>4, <3>2, StreamCut
    <3> QED BY <3>3, <3>4
  <2>2. CASE ~HasData(buf)
    <3>1. ~(F + 5 < Len(buf))
      <4> SUFFICES ASSUME F + 5 < Len(buf) PROVE FALSE OBVIOUS
      <4>1. /\ FixedHeaderLen(buf) + 2 < Len(buf) /\ TopicEnd(buf) < Len(buf)
            /\ TopicEnd(buf) + 2 < Len(buf) /\ DataStart(buf) =< mqtt_get_total_length(buf)
        BY <1>7, <1>8, <1>9
      <4> QED BY <2>2, <4>1 DEF HasData
    <3>2. data = << >> BY <2>2
    <3> HIDE DEF data, F
    <3>3. Len(buf) = F + 5 BY <1>7, <1>9, <3>1
    <3> QED BY <1>7, <3>2, <3>3
  <2> QED BY <2>1, <2>2
<1>12. more = Len(w) - Len(buf) BY <1>7
<1> HIDE DEF data, more, F, w, m
<1>13. /\ got' \in Nat /\ rest' \in 0..Len(w) /\ got' + rest' = Len(m.data)
       /\ rest' = Len(w) - Len(buf) /\ Len(w) - rest' = Len(buf)
       /\ \/ pc' = "chunk" /\ rest' > 0
          \/ pc' = "ack" /\ rest' = 0
  <2>1. F \in Nat BY <1>7
  <2>2. /\ F + 5 =< Len(buf) /\ Len(buf) =< Len(w) /\ Len(w) = F + 5 + Len(m.data)
        /\ got' = Len(buf) - (F + 5)
        /\ rest' = IF Len(w) - Len(buf) > 0 THEN Len(w) - Len(buf) ELSE 0
        /\ pc' = IF Len(w) - Len(buf) > 0 THEN "chunk" ELSE "ack"
    BY <1>7, <1>10, <1>11, <1>12
  <2>3. Shared(got', rest', pc', Len(w), Len(buf), Len(m.data))
    BY <1>8, <1>9, <2>1, <2>2, FirstPiece
  <2> QED BY <2>3 DEF Shared
<1>14. m' = m /\ w' = w BY <1>10 DEF m, w
<1>15. Delivering'
  BY <1>1, <1>3, <1>5, <1>6, <1>10, <1>13, <1>14 DEF Delivering, m, w
<1>16. Typed' BY <1>2, <1>10 DEF Typed
<1> QED BY <1>10, <1>15, <1>16 DEF Aligned
LEMMA MinThree ==
  ASSUME NEW a \in Nat, NEW b \in Nat, NEW c \in Nat
  PROVE  Min({a, b, c}) \in Nat /\ Min({a, b, c}) =< a /\ Min({a, b, c}) =< b
<1> DEFINE S == {a, b, c}
<1>1. \E x \in S : \A y \in S : x =< y
  <2>1. CASE a =< b /\ a =< c BY <2>1
  <2>2. CASE b =< a /\ b =< c BY <2>2
  <2>3. CASE c =< a /\ c =< b BY <2>3
  <2> QED BY <2>1, <2>2, <2>3
<1>2. a \in S /\ b \in S /\ S \subseteq Nat OBVIOUS
<1> HIDE DEF S
<1>3. PICK x \in S : \A y \in S : x =< y BY <1>1
<1>4. S \subseteq Int BY <1>2
<1>5. Min(S) = x BY <1>3, <1>4, MinIs
<1>6. Min(S) \in Nat /\ Min(S) =< a /\ Min(S) =< b BY <1>2, <1>3, <1>5
<1> QED BY <1>6 DEF S

LEMMA DeliverMoreStep ==
  ASSUME Aligned, DeliverMore
  PROVE  Aligned'
<1> DEFINE n == Min({arrived, rest, InBuffer})
           m == sent[done + 1]
           w == Wire(m)
<1>1. /\ pc = "chunk"
      /\ net' = SubSeq(net, n + 1, Len(net)) /\ arrived' = arrived - n
      /\ got' = got + n /\ rest' = rest - n
      /\ pc' = IF rest' = 0 THEN "ack" ELSE "chunk"
      /\ UNCHANGED <<buf, state, sent, done>>
  <2>1. /\ pc = "chunk" /\ pc' = IF rest' = 0 THEN "ack" ELSE "chunk"
        /\ UNCHANGED <<buf, state, sent, done>>
    BY DEF DeliverMore, histVars
  <2>2. net' = SubSeq(net, n + 1, Len(net)) /\ arrived' = arrived - n
    BY DEF DeliverMore
  <2>3. got' = got + n /\ rest' = rest - n BY DEF DeliverMore
  <2> QED BY <2>1, <2>2, <2>3
<1>2. Typed /\ Delivering BY <1>1 DEF Aligned, Reading, Place, Quiet
<1>3. /\ state = "connected" /\ done < Len(sent) /\ m.type = Type.PUBLISH
      /\ PrefixOf(buf, w) /\ Len(buf) = Full(w)
      /\ rest \in 0..Len(w) /\ got \in Nat /\ got + rest = Len(m.data)
      /\ Ahead(w, Len(w) - rest, sent, done + 2, net)
  BY <1>2 DEF Delivering
<1>4. /\ net \in Seq(Byte) /\ Len(net) \in Nat /\ arrived \in 0..Len(net) /\ sent \in Seq(Messages)
      /\ done + 1 \in 1..Len(sent) /\ done + 2 \in 1..(Len(sent) + 1)
  <2> HIDE DEF n, m, w
  <2>1. net \in Seq(Byte) /\ arrived \in 0..Len(net) /\ sent \in Seq(Messages) /\ done \in Nat
    BY <1>2 DEF Typed
  <2>2. Len(net) \in Nat /\ Len(sent) \in Nat /\ done < Len(sent) BY <1>3, <2>1
  <2> QED BY <2>1, <2>2
<1>5. w \in Seq(Byte) /\ Len(w) \in Nat
  <2>1. m \in Messages BY <1>4
  <2> HIDE DEF m
  <2> QED BY <2>1, WireIs
<1>6. n \in Nat /\ n =< arrived /\ n =< rest
  <2>1. arrived \in Nat /\ rest \in Nat /\ InBuffer \in Nat BY <1>3, <1>4, <1>5, StreamAssumption
  <2> QED BY <2>1, MinThree
<1> HIDE DEF n, m, w
<1>7. n \in 0..Len(net) BY <1>4, <1>6
<1>8. net' \in Seq(Byte) /\ Len(net') = Len(net) - n BY <1>1, <1>4, <1>7, StreamCut
<1>9. arrived' \in 0..Len(net') BY <1>1, <1>4, <1>6, <1>8
<1>10. /\ Len(w) - rest \in Nat /\ (Len(w) - rest) + n =< Len(w)
       /\ (Len(w) - rest) + n = Len(w) - rest'
  BY <1>1, <1>3, <1>5, <1>6
<1>11. Ahead(w, (Len(w) - rest) + n, sent, done + 2, net')
  BY <1>1, <1>3, <1>4, <1>5, <1>7, <1>10, AheadMoves
<1>12. /\ rest' \in 0..Len(w) /\ got' \in Nat /\ got' + rest' = got + rest
       /\ \/ pc' = "chunk" /\ rest' > 0
          \/ pc' = "ack" /\ rest' = 0
  <2>1. rest' \in 0..Len(w) /\ got' \in Nat /\ got' + rest' = got + rest
    BY <1>1, <1>3, <1>5, <1>6
  <2> QED BY <1>1, <2>1
<1>13. m' = m /\ w' = w BY <1>1 DEF m, w
<1>14. Delivering'
  <2>1. Ahead(w, Len(w) - rest', sent, done + 2, net') BY <1>10, <1>11
  <2>2. got' + rest' = Len(m.data) BY <1>3, <1>12
  <2> QED BY <1>1, <1>3, <1>12, <1>13, <2>1, <2>2 DEF Delivering, m, w
<1>15. Typed' BY <1>1, <1>2, <1>8, <1>9 DEF Typed
<1> QED BY <1>14, <1>15 DEF Aligned

LEMMA AcksStep ==
  ASSUME Aligned, NEW ok \in BOOLEAN, Acks(ok), state' # "closed", inStep
  PROVE  Aligned' /\ inStep'
<1> DEFINE m == sent[done + 1]
           w == Wire(m)
<1>1. pc = "ack" /\ UNCHANGED <<net, arrived, sent>> BY DEF Acks
<1>2. Typed /\ Delivering BY <1>1 DEF Aligned, Reading, Place, Quiet
<1>3. /\ state = "connected" /\ done < Len(sent) /\ m.type = Type.PUBLISH
      /\ PrefixOf(buf, w) /\ Len(buf) = Full(w)
      /\ rest = 0 /\ got \in Nat /\ got + rest = Len(m.data)
      /\ Ahead(w, Len(w) - rest, sent, done + 2, net)
  BY <1>1, <1>2 DEF Delivering
<1>4. m \in Messages /\ buf \in Seq(Byte)
  <2>1. sent \in Seq(Messages) /\ done + 1 \in 1..Len(sent) BY <1>2, <1>3 DEF Typed
  <2> QED BY <1>2, <2>1 DEF Typed
<1>5. w \in Seq(Byte) /\ Len(w) \in Nat
  <2> HIDE DEF m
  <2> QED BY <1>4, WireIs
<1>6. mqtt_get_type(buf) = Type.PUBLISH /\ mqtt_get_id(buf) = m.id
  BY <1>3, <1>4, PublishFull
<1> HIDE DEF m, w
<1>7. Taken(got) /\ UNCHANGED state BY DEF Acks, Closes
<1>8. Expected = m BY <1>3 DEF Expected, m
<1>9. inStep'
  <2>1. Len(m.data) = got BY <1>3
  <2> QED BY <1>3, <1>6, <1>7, <1>8, <2>1 DEF Taken
<1>10. Ahead(w, Len(w), sent, done + 2, net) BY <1>3, <1>5
<1>11. buf' = << >> /\ pc' = "idle" /\ done' = done + 1 BY <1>7 DEF Taken
<1> QED BY <1>1, <1>2, <1>3, <1>7, <1>9, <1>10, <1>11, AfterMessage DEF m, w

-----------------------------------------------------------------------------
(* The broker, the network and a new connection.                               *)

LEMMA BrokerSendsStep ==
  ASSUME Aligned, NEW m \in Messages, BrokerSends(m)
  PROVE  Aligned'
<1>1. /\ state = "connected" /\ sent' = Append(sent, m) /\ net' = net \o Wire(m)
      /\ UNCHANGED <<arrived, state, pc, buf, rest, got, done>>
  BY DEF BrokerSends, histVars
<1>2. /\ net \in Seq(Byte) /\ arrived \in 0..Len(net) /\ buf \in Seq(Byte)
      /\ sent \in Seq(Messages) /\ done \in 0..Len(sent) /\ Len(sent) \in Nat
  BY DEF Aligned, Typed
<1>3. /\ sent' \in Seq(Messages) /\ Len(sent') = Len(sent) + 1 /\ sent'[Len(sent) + 1] = m
      /\ \A i \in 1..Len(sent) : sent'[i] = sent[i]
  BY <1>1, <1>2
<1>4. /\ Wire(m) \in Seq(Byte) /\ Len(Wire(m)) \in Nat \ {0}
      /\ net' \in Seq(Byte) /\ Len(net') = Len(net) + Len(Wire(m))
  BY <1>1, <1>2, WireIs, Joined
<1>5. Typed'
  <2>1. arrived' \in 0..Len(net') BY <1>1, <1>2, <1>4
  <2>2. done' \in 0..Len(sent') BY <1>1, <1>2, <1>3
  <2> QED BY <1>1, <1>2, <1>3, <1>4, <2>1, <2>2 DEF Typed
<1>6. ASSUME done < Len(sent)
      PROVE  /\ sent'[done' + 1] = sent[done + 1] /\ done' < Len(sent')
             /\ done + 2 \in 1..(Len(sent) + 1) /\ sent[done + 1] \in Messages
  <2>1. done + 1 \in 1..Len(sent) BY <1>2, <1>6
  <2> QED BY <1>1, <1>2, <1>3, <1>6, <2>1
<1>7. CASE Reading
  <2>1. done < Len(sent) /\ Awaited = Wire(sent[done + 1]) /\ Behind = done + 2
    BY <1>1, <1>7 DEF Reading, Expecting, Awaited, Behind
  <2>2. Awaited' = Awaited /\ Behind' = Behind /\ Expecting'
    BY <1>1, <1>6, <2>1 DEF Awaited, Behind, Expecting
  <2>3. Awaited \in Seq(Byte) BY <1>6, <2>1, WireIs
  <2>4. Ahead(Awaited, Len(buf), sent', Behind, net')
    BY <1>1, <1>2, <1>6, <1>7, <2>1, <2>3, AheadAppend DEF Reading
  <2>5. Reading' BY <1>1, <1>7, <2>2, <2>4 DEF Reading
  <2> QED BY <1>5, <2>5 DEF Aligned
<1>8. CASE Delivering
  <2> DEFINE w == Wire(sent[done + 1])
  <2>1. done < Len(sent) /\ Ahead(w, Len(w) - rest, sent, done + 2, net)
    BY <1>8 DEF Delivering
  <2>2. w \in Seq(Byte) BY <1>6, <2>1, WireIs
  <2>3. Ahead(w, Len(w) - rest, sent', done + 2, net')
    BY <1>1, <1>2, <1>6, <2>1, <2>2, AheadAppend
  <2>4. Delivering' BY <1>1, <1>6, <1>8, <2>1, <2>3 DEF Delivering
  <2> QED BY <1>5, <2>4 DEF Aligned
<1>9. CASE Quiet
  <2> DEFINE w == Wire(m)
  <2>1. done = Len(sent) /\ pc = "idle" /\ buf = << >> /\ net = << >> BY <1>9 DEF Quiet
  <2>2. net' = w BY <1>1, <1>4, <2>1
  <2>3. done' + 1 = Len(sent) + 1 /\ done' + 2 = Len(sent') + 1 /\ done' < Len(sent')
    BY <1>1, <1>2, <1>3, <2>1
  <2>4. Awaited' = w /\ Behind' = Len(sent') + 1 /\ Expecting'
    BY <1>1, <1>3, <2>3 DEF Awaited, Behind, Expecting
  <2>5. w \in Seq(Byte) /\ Len(w) \in Nat \ {0} BY <1>4
  <2> HIDE DEF w
  <2>6. Follows(sent', Len(sent') + 1, Len(w), w) BY <1>3, <2>5, NoneFollows
  <2>7. Len(w) - 0 = Len(w) /\ 0 \in 0..Len(w) BY <2>5
  <2>8. Ahead(w, 0, sent', Len(sent') + 1, w)
    <3>1. \A j \in 1..Len(w) : w[j] = w[0 + j] BY <2>5
    <3> QED BY <2>5, <2>6, <2>7, <3>1 DEF Ahead
  <2>9. Len(buf') = 0 /\ InBuffer \in Nat BY <1>1, <2>1, StreamAssumption
  <2>10. PrefixOf(buf', w) /\ Place(w, pc', buf')
    BY <1>1, <2>1, <2>5, <2>9 DEF PrefixOf, Place
  <2>11. Reading' BY <2>2, <2>4, <2>8, <2>9, <2>10 DEF Reading
  <2> QED BY <1>5, <2>11 DEF Aligned
<1> QED BY <1>7, <1>8, <1>9 DEF Aligned

LEMMA ArrivalStep ==
  ASSUME Aligned, UNCHANGED <<net, state, pc, buf, rest, got, sent, done>>,
         arrived' \in 0..Len(net)
  PROVE  Aligned'
<1>1. Typed' BY DEF Aligned, Typed
<1>2. Reading => Reading' BY DEF Reading, Expecting, Awaited, Behind
<1>3. Delivering => Delivering' BY DEF Delivering
<1>4. Quiet => Quiet' BY DEF Quiet
<1> QED BY <1>1, <1>2, <1>3, <1>4 DEF Aligned

(* What a connection begins with.                                              *)
LEMMA Fresh ==
  /\ Connack \in Seq(Byte) /\ << >> \in Seq(Byte) /\ << >> \in Seq(Messages)
  /\ PrefixOf(<< >>, Connack) /\ Place(Connack, "idle", << >>)
  /\ Ahead(Connack, 0, << >>, 1, Connack)
<1> DEFINE list == << >>
           w == Connack
<1>1. list \in Seq(Messages) /\ Len(list) = 0 OBVIOUS
<1>2. w \in Seq(Byte) /\ Len(w) = 4 BY ConnackShape DEF WellFormed
<1> HIDE DEF list, w
<1>3. Follows(list, Len(list) + 1, Len(w), w) BY <1>1, <1>2, NoneFollows
<1>4. Follows(list, 1, Len(w) - 0, w)
  <2>1. Len(w) - 0 = Len(w) /\ Len(list) + 1 = 1 BY <1>1, <1>2
  <2> QED BY <1>3, <2>1
<1>5. Ahead(w, 0, list, 1, w)
  <2>1. 0 \in 0..Len(w) /\ Len(w) - 0 =< Len(w) /\ \A j \in 1..(Len(w) - 0) : w[j] = w[0 + j]
    BY <1>2
  <2> QED BY <1>4, <2>1 DEF Ahead
<1>6. PrefixOf(<< >>, w) /\ Place(w, "idle", << >>)
  BY <1>2, StreamAssumption DEF PrefixOf, Place
<1> QED BY <1>2, <1>5, <1>6 DEF list, w
-----------------------------------------------------------------------------
(* The invariant.                                                              *)

LEMMA GoesOnPlaces == GoesOn => pc' \in {"rest", "process", "refuse", "topic"}
BY DEF GoesOn, ReadsRest

(* A receive goes on only on a connection, and acknowledges what is whole.     *)
AckIInv == (state = "closed" => pc = "idle") /\ AckInv

LEMMA AckInit == Init => AckIInv
BY DEF Init, AckIInv, AckInv

LEMMA AckNext ==
  ASSUME AckIInv, [Next]_vars
  PROVE  AckIInv'
<1> USE DEF AckIInv, AckInv, histVars
<1>1. CASE ReceiveFirst BY <1>1 DEF ReceiveFirst
<1>2. CASE ReceiveResumed BY <1>2, GoesOnPlaces DEF ReceiveResumed
<1>3. CASE ReadLength BY <1>3, GoesOnPlaces DEF ReadLength
<1>4. CASE ReadTopicLen BY <1>4, GoesOnPlaces DEF ReadTopicLen
<1>5. CASE ReadRest BY <1>5 DEF ReadRest
<1>6. CASE ReadNothing BY <1>6 DEF ReadNothing, Closes
<1>7. CASE Refused BY <1>7 DEF Refused, Refuses, Closes
<1>8. CASE ConnectionLost BY <1>8 DEF ConnectionLost, Closes
<1>9. CASE ProcessConnack BY <1>9 DEF ProcessConnack, Closes
<1>10. CASE ProcessAnswer BY <1>10 DEF ProcessAnswer, Refuses, Closes, Taken
<1>11. CASE DeliverFirst
  <2>1. CASE Refuses BY <2>1 DEF Refuses, Closes
  <2>2. CASE ~Refuses
    <3> DEFINE more == mqtt_get_total_length(buf) - Len(buf)
    <3>1. /\ rest' = IF more > 0 THEN more ELSE 0
          /\ pc' = IF more > 0 THEN "chunk" ELSE "ack"
          /\ state = "connected" /\ UNCHANGED <<state, acked, gaveUp>>
      BY <1>11, <2>2 DEF DeliverFirst
    <3> QED BY <3>1
  <2> QED BY <2>1, <2>2
<1>12. CASE DeliverMore
  <2>1. /\ pc = "chunk" /\ pc' = IF rest' = 0 THEN "ack" ELSE "chunk"
        /\ UNCHANGED <<state, acked, gaveUp>>
    BY <1>12 DEF DeliverMore
  <2> QED BY <2>1
<1>13. CASE ChunkTimesOut BY <1>13 DEF ChunkTimesOut
<1>14. ASSUME NEW ok \in BOOLEAN, Acks(ok) PROVE AckIInv'
  BY <1>14 DEF Acks, Taken, Closes
<1>15. ASSUME NEW m \in Messages, BrokerSends(m) PROVE AckIInv' BY <1>15 DEF BrokerSends
<1>16. ASSUME NEW n, BytesArrive(n) PROVE AckIInv' BY <1>16 DEF BytesArrive
<1>17. CASE Reconnects BY <1>17 DEF Reconnects
<1>18. CASE UNCHANGED vars BY <1>18 DEF vars, readVars
<1> QED BY <1>1, <1>2, <1>3, <1>4, <1>5, <1>6, <1>7, <1>8, <1>9, <1>10, <1>11, <1>12, <1>13,
           <1>14, <1>15, <1>16, <1>17, <1>18 DEF Next

(* The client is in step with the broker, unless it has lost step in one of    *)
(* the two ways.                                                               *)
InStep == stretched \/ gaveUp \/ (inStep /\ (state = "closed" \/ Aligned))

LEMMA InStepInit == Init => InStep
<1> SUFFICES ASSUME Init PROVE InStep OBVIOUS
<1>1. /\ net = Connack /\ arrived = 0 /\ state = "connecting" /\ pc = "idle" /\ buf = << >>
      /\ sent = << >> /\ done = 0 /\ inStep = TRUE
  BY DEF Init
<1>2. Len(sent) = 0 /\ Len(buf) = 0 BY <1>1
<1>3. Typed
  <2>1. arrived \in 0..Len(net) BY <1>1, ConnackShape
  <2> QED BY <1>1, <1>2, <2>1, Fresh DEF Typed
<1>4. Awaited = Connack /\ Behind = 1 BY <1>1 DEF Awaited, Behind
<1>5. Reading BY <1>1, <1>2, <1>4, Fresh DEF Reading, Expecting
<1> QED BY <1>1, <1>3, <1>5 DEF InStep, Aligned

LEMMA ReconnectsStep ==
  ASSUME state = "closed" => pc = "idle", Reconnects
  PROVE  InStep'
<1>1. /\ net' = Connack /\ arrived' = 0 /\ state' = "connecting" /\ pc' = "idle" /\ buf' = << >>
      /\ sent' = << >> /\ done' = 0 /\ inStep' = TRUE
  BY DEF Reconnects
<1>2. Len(sent') = 0 /\ Len(buf') = 0 BY <1>1
<1>3. Typed'
  <2>1. arrived' \in 0..Len(net') BY <1>1, ConnackShape
  <2> QED BY <1>1, <1>2, <2>1, Fresh DEF Typed
<1>4. Awaited' = Connack /\ Behind' = 1 BY <1>1 DEF Awaited, Behind
<1>5. Reading' BY <1>1, <1>2, <1>4, Fresh DEF Reading, Expecting
<1> QED BY <1>1, <1>3, <1>5 DEF InStep, Aligned

(* Steps that lose nothing, on a connection that has lost nothing.             *)
LEMMA AlignedNext ==
  ASSUME Aligned, inStep, Next, ~stretched', ~gaveUp', state # "closed", state' # "closed"
  PROVE  inStep' /\ Aligned'
<1>1. CASE ReceiveFirst BY <1>1, ReceiveFirstStep DEF ReceiveFirst, histVars
<1>2. CASE ReceiveResumed BY <1>2, ReceiveResumedStep DEF ReceiveResumed
<1>3. CASE ReadLength BY <1>3, ReadLengthStep DEF ReadLength, histVars
<1>4. CASE ReadTopicLen BY <1>4, ReadTopicLenStep DEF ReadTopicLen, histVars
<1>5. CASE ReadRest BY <1>5, ReadRestStep DEF ReadRest, histVars
<1>6. CASE ReadNothing BY <1>6, ReadNothingStep DEF ReadNothing, histVars
<1>7. CASE Refused BY <1>7, ReceiveReads DEF Refused
<1>8. CASE ConnectionLost BY <1>8 DEF ConnectionLost, Closes
<1>9. CASE ProcessConnack BY <1>9, ProcessConnackStep DEF ProcessConnack, histVars
<1>10. CASE ProcessAnswer BY <1>10, ProcessAnswerStep
<1>11. CASE DeliverFirst BY <1>11, DeliverFirstStep
<1>12. CASE DeliverMore BY <1>12, DeliverMoreStep DEF DeliverMore, histVars
<1>13. CASE ChunkTimesOut BY <1>13 DEF ChunkTimesOut
<1>14. ASSUME NEW ok \in BOOLEAN, Acks(ok) PROVE inStep' /\ Aligned' BY <1>14, AcksStep
<1>15. ASSUME NEW m \in Messages, BrokerSends(m) PROVE inStep' /\ Aligned'
  BY <1>15, BrokerSendsStep DEF BrokerSends, histVars
<1>16. CASE arrived < MaxPieces /\ arrived < Len(net) /\ BytesArrive(arrived + 1)
  <2>1. /\ arrived' = arrived + 1 /\ inStep' = inStep
        /\ UNCHANGED <<net, state, pc, buf, rest, got, sent, done>>
    BY <1>16 DEF BytesArrive, histVars
  <2>2. arrived' \in 0..Len(net) BY <1>16, <2>1 DEF Aligned, Typed
  <2> QED BY <2>1, <2>2, ArrivalStep
<1>17. CASE BytesArrive(Len(net))
  <2>1. /\ arrived' = Len(net) /\ inStep' = inStep
        /\ UNCHANGED <<net, state, pc, buf, rest, got, sent, done>>
    BY <1>17 DEF BytesArrive, histVars
  <2>2. arrived' \in 0..Len(net) BY <2>1 DEF Aligned, Typed
  <2> QED BY <2>1, <2>2, ArrivalStep
<1>18. CASE Reconnects BY <1>18 DEF Reconnects
<1> QED BY <1>1, <1>2, <1>3, <1>4, <1>5, <1>6, <1>7, <1>8, <1>9, <1>10, <1>11, <1>12, <1>13,
           <1>14, <1>15, <1>16, <1>17, <1>18 DEF Next
LEMMA ClosingNext ==
  ASSUME Aligned, inStep, Next, state # "closed", state' = "closed"
  PROVE  inStep'
<1> USE DEF histVars
<1>1. CASE ReceiveFirst BY <1>1 DEF ReceiveFirst
<1>2. CASE ReceiveResumed BY <1>2 DEF ReceiveResumed
<1>3. CASE ReadLength BY <1>3 DEF ReadLength
<1>4. CASE ReadTopicLen BY <1>4 DEF ReadTopicLen
<1>5. CASE ReadRest BY <1>5 DEF ReadRest
<1>6. CASE ReadNothing BY <1>6 DEF ReadNothing
<1>7. CASE Refused BY <1>7, ReceiveReads DEF Refused
<1>8. CASE ConnectionLost BY <1>8 DEF ConnectionLost
<1>9. CASE ProcessConnack BY <1>9 DEF ProcessConnack
<1>10. CASE ProcessAnswer BY <1>10, ProcessAnswerStep
<1>11. CASE DeliverFirst BY <1>11, DeliverFirstStep
<1>12. CASE DeliverMore BY <1>12 DEF DeliverMore
<1>13. CASE ChunkTimesOut BY <1>13 DEF ChunkTimesOut
<1>14. ASSUME NEW ok \in BOOLEAN, Acks(ok) PROVE inStep' BY <1>14 DEF Acks
<1>15. ASSUME NEW m \in Messages, BrokerSends(m) PROVE inStep' BY <1>15 DEF BrokerSends
<1>16. ASSUME NEW n, BytesArrive(n) PROVE inStep' BY <1>16 DEF BytesArrive
<1>17. CASE Reconnects BY <1>17 DEF Reconnects
<1> QED BY <1>1, <1>2, <1>3, <1>4, <1>5, <1>6, <1>7, <1>8, <1>9, <1>10, <1>11, <1>12, <1>13,
           <1>14, <1>15, <1>16, <1>17 DEF Next

(* What has been lost stays lost until the next connection.                    *)
LEMMA LossStays ==
  ASSUME Next, ~Reconnects, stretched \/ gaveUp
  PROVE  stretched' \/ gaveUp'
<1> USE DEF histVars
<1>1. CASE ReceiveFirst BY <1>1 DEF ReceiveFirst
<1>2. CASE ReceiveResumed BY <1>2 DEF ReceiveResumed
<1>3. CASE ReadLength BY <1>3 DEF ReadLength
<1>4. CASE ReadTopicLen BY <1>4 DEF ReadTopicLen
<1>5. CASE ReadRest BY <1>5 DEF ReadRest
<1>6. CASE ReadNothing BY <1>6 DEF ReadNothing
<1>7. CASE Refused BY <1>7 DEF Refused, Refuses
<1>8. CASE ConnectionLost BY <1>8 DEF ConnectionLost
<1>9. CASE ProcessConnack BY <1>9 DEF ProcessConnack
<1>10. CASE ProcessAnswer BY <1>10 DEF ProcessAnswer, Refuses
<1>11. CASE DeliverFirst
  <2>1. UNCHANGED <<stretched, gaveUp>> BY <1>11 DEF DeliverFirst, Refuses
  <2> QED BY <2>1
<1>12. CASE DeliverMore BY <1>12 DEF DeliverMore
<1>13. CASE ChunkTimesOut BY <1>13 DEF ChunkTimesOut
<1>14. ASSUME NEW ok \in BOOLEAN, Acks(ok) PROVE stretched' \/ gaveUp' BY <1>14 DEF Acks
<1>15. ASSUME NEW m \in Messages, BrokerSends(m) PROVE stretched' \/ gaveUp'
  BY <1>15 DEF BrokerSends
<1>16. ASSUME NEW n, BytesArrive(n) PROVE stretched' \/ gaveUp' BY <1>16 DEF BytesArrive
<1> QED BY <1>1, <1>2, <1>3, <1>4, <1>5, <1>6, <1>7, <1>8, <1>9, <1>10, <1>11, <1>12, <1>13,
           <1>14, <1>15, <1>16 DEF Next

(* On a closed connection only bytes arrive.                                   *)
LEMMA ClosedNext ==
  ASSUME Next, ~Reconnects, state = "closed", pc = "idle"
  PROVE  UNCHANGED <<state, inStep>>
<1>1. \E n : BytesArrive(n)
  BY DEF Next, ReceiveFirst, ReceiveResumed, ReadLength, ReadTopicLen, ReadRest, ReadNothing,
         Refused, ConnectionLost, ProcessConnack, ProcessAnswer, DeliverFirst, DeliverMore,
         ChunkTimesOut, Acks, BrokerSends
<1> QED BY <1>1 DEF BytesArrive, histVars

LEMMA InStepNext ==
  ASSUME AckIInv, InStep, [Next]_vars
  PROVE  InStep'
<1>1. CASE Reconnects BY <1>1, ReconnectsStep DEF AckIInv
<1>2. CASE Next /\ ~Reconnects /\ (stretched \/ gaveUp) BY <1>2, LossStays DEF InStep
<1>3. CASE Next /\ ~Reconnects /\ ~(stretched \/ gaveUp)
  <2>1. inStep /\ (state = "closed" \/ Aligned) BY <1>3 DEF InStep
  <2>2. CASE state = "closed"
    <3>1. pc = "idle" BY <2>2 DEF AckIInv
    <3> QED BY <1>3, <2>1, <2>2, <3>1, ClosedNext DEF InStep
  <2>3. CASE state # "closed" /\ state' = "closed"
    <3>1. Aligned BY <2>1, <2>3
    <3>2. inStep' BY <1>3, <2>1, <2>3, <3>1, ClosingNext
    <3> QED BY <2>3, <3>2 DEF InStep
  <2>4. CASE state # "closed" /\ state' # "closed"
    <3>1. Aligned BY <2>1, <2>4
    <3>2. CASE stretched' \/ gaveUp' BY <3>2 DEF InStep
    <3>3. CASE ~stretched' /\ ~gaveUp'
      <4>1. inStep' /\ Aligned' BY <1>3, <2>1, <2>4, <3>1, <3>3, AlignedNext
      <4> QED BY <4>1 DEF InStep
    <3> QED BY <3>2, <3>3
  <2> QED BY <2>2, <2>3, <2>4
<1>4. CASE UNCHANGED vars
  <2>1. UNCHANGED <<net, arrived, state, pc, buf, rest, got, sent, done, inStep, stretched, gaveUp>>
    BY <1>4 DEF vars, readVars, histVars
  <2>2. Aligned => Aligned'
    <3> SUFFICES ASSUME Aligned PROVE Aligned' OBVIOUS
    <3>1. arrived' \in 0..Len(net) BY <2>1 DEF Aligned, Typed
    <3> QED BY <2>1, <3>1, ArrivalStep
  <2> QED BY <2>1, <2>2 DEF InStep
<1> QED BY <1>1, <1>2, <1>3, <1>4

(* The inductive invariant of the stream.                                      *)
IInv == AckIInv /\ InStep

(* Every state of a run fulfils it.                                            *)
THEOREM Invariance == Spec => []IInv
<1>1. Init => IInv BY AckInit, InStepInit DEF IInv
<1>2. IInv /\ [Next]_vars => IInv' BY AckNext, InStepNext DEF IInv
<1> QED BY <1>1, <1>2, PTL DEF Spec

(* However TCP cuts the bytes, the messages that are taken from the stream are *)
(* those the broker sent, whole and in order, and none is refused, as long as  *)
(* no byte behind a header is taken for one of its length and no rest of a     *)
(* long PUBLISH is given up (mqtt_message_receive, deliver_publish).           *)
THEOREM InStepWithBroker == Spec => []InStepUnless
<1>1. IInv => InStepUnless BY DEF IInv, InStep, InStepUnless
<1> QED BY <1>1, Invariance, PTL

(* A client that waits with nothing left to read has handled all that was      *)
(* sent, and its buffer is empty.                                              *)
THEOREM NothingIsHeldBack == Spec => []NothingHeldBack
<1>1. IInv => NothingHeldBack
  <2> SUFFICES ASSUME IInv, state = "connected", pc = "idle", net = << >>, ~stretched, ~gaveUp
               PROVE  done = Len(sent) /\ buf = << >>
    BY DEF NothingHeldBack
  <2>1. Aligned BY DEF IInv, InStep
  <2>2. ~Delivering BY DEF Delivering
  <2>3. ~Reading
    <3> SUFFICES ASSUME Reading PROVE FALSE OBVIOUS
    <3>1. Typed BY <2>1 DEF Aligned
    <3>2. Len(Awaited) \in Nat BY <3>1, AwaitedIs DEF Reading
    <3>3. Len(buf) < Len(Awaited) /\ Len(buf) \in Nat BY <3>1 DEF Reading, Place, Typed
    <3>4. Len(Awaited) - Len(buf) =< Len(net) BY DEF Reading, Ahead
    <3> QED BY <3>2, <3>3, <3>4
  <2> QED BY <2>1, <2>2, <2>3 DEF Aligned, Quiet
<1> QED BY <1>1, Invariance, PTL

(* A PUBLISH is acknowledged only when all of its data have been handed over,  *)
(* unless the wait for its rest was given up.                                  *)
THEOREM AcknowledgedWhole == Spec => []AckedIsWhole
<1>1. IInv => AckedIsWhole BY DEF IInv, AckIInv, AckInv, AckedIsWhole
<1> QED BY <1>1, Invariance, PTL
=============================================================================
