-------------------------- MODULE MqttOutboxProofs --------------------------
(***************************************************************************)
(* Proofs about MqttOutbox, for any number of messages, connections and    *)
(* ids: while no id is drawn twice, an id names one message in the outbox, *)
(* on its way to the broker and on its way back, so that what the client   *)
(* marks and removes by its id is the message it means.                    *)
(***************************************************************************)
EXTENDS MqttOutbox, SequenceTheorems, FiniteSetTheorems, TLAPS

Packet == [msg : 0..MaxPublish, id : Ids]

(* No number beyond those given out.                                           *)
UpTo(list, n) == \A i \in DOMAIN list : list[i].msg =< n

(* Each place of a list has an id and, a SUBSCRIBE apart, a message of its     *)
(* own.                                                                        *)
Distinct(box) ==
  \A i, j \in DOMAIN box : i # j =>
    box[i].id # box[j].id /\ (box[i].msg = box[j].msg => box[i].msg = SUBSCRIBE)

(* What is QUEUED is a publication that was not written yet.                   *)
Unwritten(box, written) ==
  \A i \in DOMAIN box : box[i].pending = "QUEUED" =>
    box[i].msg \notin written \cup {SUBSCRIBE} /\ box[i].qos = 1

(* A packet that goes by the id of an item carries its message.                *)
NamesAgree(box, packets) ==
  \A i \in DOMAIN box, k \in DOMAIN packets :
    packets[k].id = box[i].id => packets[k].msg = box[i].msg

InOrder(box, written, there, back) ==
  Distinct(box) /\ Unwritten(box, written) /\ NamesAgree(box, there) /\ NamesAgree(box, back)

(* The broker answers what it has got.                                         *)
AcksReceived == \A k \in DOMAIN acks : acks[k].msg \in received

IInv ==
  /\ TypeOK
  /\ UpTo(outbox, published) /\ UpTo(wire, published)
  /\ AcksReceived
  /\ clash \/ InOrder(outbox, sent, wire, acks)
-----------------------------------------------------------------------------
(* The list and its lookups.                                                   *)

(* Every set of numbers has a least one: of the intervals 0..n that end in the *)
(* set one has no other inside it.                                             *)
LEMMA MinIsLeast ==
  ASSUME NEW S, S \subseteq Nat, S # {}
  PROVE  Min(S) \in S /\ \A y \in S : Min(S) =< y
  <1> DEFINE T == {0..n : n \in S}
  <1>1. T \subseteq FiniteSubsetsOf(Nat) /\ T # {}
    <2>1. \A n \in S : n \in Int /\ 0..n \subseteq Nat /\ IsFiniteSet(0..n)
      BY FS_Interval
    <2> QED
      BY <2>1 DEF FiniteSubsetsOf
  <1>2. PICK t \in T : \A u \in T : ~ (<<u, t>> \in StrictSubsetOrdering(Nat))
    <2> HIDE DEF T
    <2> QED
      BY <1>1, FS_StrictSubsetOrderingWellFounded, WFMin
  <1>3. PICK x \in S : t = 0..x
    OBVIOUS
  <1>4. ASSUME NEW y \in S PROVE x =< y
    <2>1. SUFFICES ASSUME y < x PROVE FALSE
      BY <1>3
    <2>2. x \in 0..x /\ x \notin 0..y /\ 0..y \subseteq 0..x
      BY <2>1
    <2>3. 0..y \in T /\ 0..y \subseteq Nat /\ 0..x \subseteq Nat
      OBVIOUS
    <2>4. <<0..y, t>> \in StrictSubsetOrdering(Nat)
      BY <1>3, <2>2, <2>3 DEF StrictSubsetOrdering
    <2> QED
      BY <1>2, <2>3, <2>4
  <1> QED
    BY <1>4 DEF Min

(* A lookup finds the first of the places, or NULL if there is none.           *)
LEMMA FirstOfProperties ==
  ASSUME NEW S, S \subseteq Nat \ {0}
  PROVE  /\ FirstOf(S) = 0 => S = {}
         /\ FirstOf(S) # 0 => FirstOf(S) \in S /\ \A j \in S : FirstOf(S) =< j
         /\ S # {} => FirstOf(S) # 0
  <1>1. CASE S = {}
    BY <1>1 DEF FirstOf
  <1>2. CASE S # {}
    <2>1. Min(S) \in S /\ \A y \in S : Min(S) =< y
      BY <1>2, MinIsLeast
    <2>2. FirstOf(S) = Min(S)
      BY <1>2 DEF FirstOf
    <2> QED
      BY <1>2, <2>1, <2>2
  <1> QED
    BY <1>1, <1>2

LEMMA BoxProperties ==
  ASSUME NEW S, NEW box \in Seq(S)
  PROVE  /\ Len(box) \in Nat /\ DOMAIN box = 1..Len(box)
         /\ \A i \in DOMAIN box : box[i] \in S /\ i \in Nat \ {0}
  BY LenProperties, ElementOfSeq

(* The items of a are items of b, none of them twice.                          *)
Picks(a, b) ==
  \E f \in [DOMAIN a -> DOMAIN b] :
    /\ \A k, l \in DOMAIN a : k # l => f[k] # f[l]
    /\ \A k \in DOMAIN a : a[k] = b[f[k]]

(* What holds of all the places of a list holds of any of them.                *)
LEMMA PicksInOrder ==
  ASSUME NEW a, NEW b, Picks(a, b), NEW n, NEW written, NEW there, NEW back
  PROVE  /\ UpTo(b, n) => UpTo(a, n)
         /\ InOrder(b, written, there, back) => InOrder(a, written, there, back)
  <1>1. PICK f \in [DOMAIN a -> DOMAIN b] :
          /\ \A k, l \in DOMAIN a : k # l => f[k] # f[l]
          /\ \A k \in DOMAIN a : a[k] = b[f[k]]
    BY DEF Picks
  <1>2. UpTo(b, n) => UpTo(a, n)
    BY <1>1 DEF UpTo
  <1>3. Distinct(b) => Distinct(a)
    BY <1>1 DEF Distinct
  <1>4. Unwritten(b, written) => Unwritten(a, written)
    BY <1>1 DEF Unwritten
  <1>5. \A packets : NamesAgree(b, packets) => NamesAgree(a, packets)
    BY <1>1 DEF NamesAgree
  <1> QED
    BY <1>2, <1>3, <1>4, <1>5 DEF InOrder

(* outbox_delete_expired keeps every item that is young enough.  Its places    *)
(* among them are numbers from 1 to their count, no two alike, hence all.      *)
LEMMA ExpiredPicks ==
  ASSUME NEW box \in Seq(Item)
  PROVE  LET kept == outbox_delete_expired(box)
         IN /\ kept \in Seq(Item) /\ Picks(kept, box)
            /\ \A i \in DOMAIN box : box[i].age =< Expire => \E k \in DOMAIN kept : kept[k] = box[i]
  <1> DEFINE K == {i \in DOMAIN box : box[i].age =< Expire}
             upTo(i) == {j \in K : j =< i}
             place(i) == Cardinality(upTo(i))
             r == [i \in K |-> place(i)]
             c == Cardinality(K)
             at(n) == CHOOSE i \in K : place(i) = n
  <1>1. IsFiniteSet(K) /\ c \in Nat /\ K \subseteq Nat
    <2>1. IsFiniteSet(1..Len(box)) /\ DOMAIN box = 1..Len(box) /\ Len(box) \in Nat
      BY BoxProperties, FS_Interval
    <2>2. IsFiniteSet(K)
      BY <2>1, FS_Subset
    <2> QED
      BY <2>1, <2>2, FS_CardinalityType
  <1>2. \A i \in K : IsFiniteSet(upTo(i)) /\ place(i) \in 1..c
    <2> TAKE i \in K
    <2>1. upTo(i) \subseteq K /\ i \in upTo(i)
      BY <1>1
    <2>2. IsFiniteSet(upTo(i)) /\ place(i) =< c
      BY <1>1, <2>1, FS_Subset
    <2>3. place(i) \in Nat /\ place(i) # 0
      BY <2>1, <2>2, FS_CardinalityType, FS_EmptySet
    <2> QED
      BY <1>1, <2>2, <2>3
  <1>3. \A i, j \in K : i < j => place(i) # place(j)
    <2> SUFFICES ASSUME NEW i \in K, NEW j \in K, i < j PROVE place(i) # place(j)
      OBVIOUS
    <2>1. upTo(i) \subseteq upTo(j) /\ j \in upTo(j) /\ j \notin upTo(i)
      BY <1>1
    <2>2. IsFiniteSet(upTo(j))
      BY <1>2
    <2> QED
      BY <2>1, <2>2, FS_Subset
  <1>4. \A i, j \in K : i # j => place(i) # place(j)
    <2> SUFFICES ASSUME NEW i \in K, NEW j \in K, i # j PROVE place(i) # place(j)
      OBVIOUS
    <2>1. i < j \/ j < i
      BY <1>1
    <2> QED
      BY <1>3, <2>1
  <1>5. \A n \in 1..c : \E i \in K : place(i) = n
    <2>1. r \in [K -> 1..c]
      BY <1>2
    <2>2. \A i, j \in K : i # j => r[i] # r[j]
      BY <1>4
    <2> HIDE DEF r
    <2>3. r \in Injection(K, 1..c)
      BY <2>1, <2>2 DEF Injection, IsInjective
    <2>4. IsFiniteSet(1..c) /\ Cardinality(1..c) = c
      BY <1>1, FS_Interval
    <2>5. r \in Surjection(K, 1..c)
      <3> HIDE DEF c, K
      <3> QED
        BY <2>3, <2>4, FS_Injection DEF c
    <2>6. \A n \in 1..c : \E i \in K : r[i] = n
      BY <2>5 DEF Surjection
    <2> QED
      BY <2>6 DEF r
  <1>6. outbox_delete_expired(box) = [n \in 1..c |-> box[at(n)]]
    BY DEF outbox_delete_expired
  <1>7. \A n \in 1..c : at(n) \in K /\ place(at(n)) = n
    <2> HIDE DEF K, c, place
    <2> QED
      BY <1>5
  <1>8. \A i \in K : at(place(i)) = i
    BY <1>2, <1>4, <1>7
  <1>9. \A i \in DOMAIN box : box[i] \in Item
    BY BoxProperties
  <1>10. \A n \in 1..c : at(n) \in DOMAIN box
    BY <1>7
  <1> DEFINE kept == [n \in 1..c |-> box[at(n)]]
  <1> HIDE DEF at, c, place
  <1>11. kept \in Seq(Item) /\ DOMAIN kept = 1..c
    <2>1. \A n \in 1..c : box[at(n)] \in Item
      BY <1>9, <1>10
    <2>2. kept \in [1..c -> Item]
      BY <2>1
    <2>3. kept \in Seq(Item)
      BY <1>1, <2>2, SeqDef
    <2> QED
      BY <2>3
  <1>12. Picks(kept, box)
    <2> DEFINE f == [n \in 1..c |-> at(n)]
    <2>1. f \in [DOMAIN kept -> DOMAIN box]
      BY <1>10, <1>11
    <2>2. \A k, l \in DOMAIN kept : k # l => f[k] # f[l]
      BY <1>7, <1>11
    <2>3. \A k \in DOMAIN kept : kept[k] = box[f[k]]
      BY <1>11
    <2> HIDE DEF f, kept
    <2> QED
      BY <2>1, <2>2, <2>3 DEF Picks
  <1>13. ASSUME NEW i \in DOMAIN box, box[i].age =< Expire
         PROVE  \E k \in DOMAIN kept : kept[k] = box[i]
    <2>1. i \in K
      BY <1>13
    <2>2. place(i) \in 1..c /\ at(place(i)) = i
      BY <1>2, <1>8, <2>1
    <2>3. kept[place(i)] = box[i]
      BY <2>2
    <2> QED
      BY <1>11, <2>2, <2>3
  <1> QED
    BY <1>6, <1>11, <1>12, <1>13

(* outbox_delete_item takes one item out and leaves the others.                *)
LEMMA WithoutPicks ==
  ASSUME NEW box \in Seq(Item), NEW i \in DOMAIN box
  PROVE  /\ Without(box, i) \in Seq(Item) /\ Picks(Without(box, i), box)
         /\ \A j \in DOMAIN box \ {i} : \E k \in DOMAIN Without(box, i) : Without(box, i)[k] = box[j]
  <1> DEFINE n == Len(box)
             before == SubSeq(box, 1, i - 1)
             behind == SubSeq(box, i + 1, n)
             rest == before \o behind
             from(k) == IF k < i THEN k ELSE k + 1
  <1>1. n \in Nat /\ DOMAIN box = 1..n /\ i \in 1..n /\ \A j \in 1..n : box[j] \in Item
    BY BoxProperties
  <1>2. before \in Seq(Item) /\ Len(before) = i - 1 /\ \A k \in 1..(i - 1) : before[k] = box[k]
    <2>1. \A k \in 1..(i - 1) : box[k] \in Item
      BY <1>1
    <2>2. /\ before \in Seq(Item)
          /\ Len(before) = IF 1 =< i - 1 THEN i - 1 - 1 + 1 ELSE 0
          /\ \A k \in 1..(i - 1 - 1 + 1) : before[k] = box[1 + k - 1]
      BY <1>1, <2>1, SubSeqProperties
    <2> QED
      BY <1>1, <2>2
  <1>3. behind \in Seq(Item) /\ Len(behind) = n - i /\ \A k \in 1..(n - i) : behind[k] = box[i + k]
    <2>1. \A k \in (i + 1)..n : box[k] \in Item
      BY <1>1
    <2>2. /\ behind \in Seq(Item)
          /\ Len(behind) = IF i + 1 =< n THEN n - (i + 1) + 1 ELSE 0
          /\ \A k \in 1..(n - (i + 1) + 1) : behind[k] = box[i + 1 + k - 1]
      BY <1>1, <2>1, SubSeqProperties
    <2>3. n - (i + 1) + 1 = n - i /\ \A k \in 1..(n - i) : i + 1 + k - 1 = i + k
      BY <1>1
    <2>4. Len(behind) = n - i
      BY <1>1, <2>2
    <2> HIDE DEF behind
    <2> QED
      BY <2>2, <2>3, <2>4
  <1>4. /\ rest \in Seq(Item) /\ Len(rest) = n - 1
        /\ \A k \in 1..(n - 1) : rest[k] = box[from(k)]
    <2> HIDE DEF before, behind
    <2>1. /\ rest \in Seq(Item) /\ Len(rest) = Len(before) + Len(behind)
          /\ \A k \in 1..(Len(before) + Len(behind)) :
               rest[k] = IF k =< Len(before) THEN before[k] ELSE behind[k - Len(before)]
      BY <1>2, <1>3, ConcatProperties
    <2>2. Len(before) + Len(behind) = n - 1
      BY <1>1, <1>2, <1>3
    <2>3. ASSUME NEW k \in 1..(n - 1) PROVE rest[k] = box[from(k)]
      <3>1. CASE k < i
        BY <1>1, <1>2, <2>1, <2>2, <3>1
      <3>2. CASE ~ (k < i)
        <4>1. k - (i - 1) \in 1..(n - i) /\ i + (k - (i - 1)) = k + 1
          BY <1>1, <3>2
        <4>2. rest[k] = behind[k - (i - 1)]
          BY <1>1, <1>2, <2>1, <2>2, <3>2
        <4> QED
          BY <1>3, <3>2, <4>1, <4>2
      <3> QED
        BY <3>1, <3>2
    <2> QED
      BY <2>1, <2>2, <2>3
  <1>5. Without(box, i) = rest
    BY DEF Without
  <1> HIDE DEF rest
  <1>6. DOMAIN rest = 1..(n - 1)
    BY <1>4, LenProperties
  <1>7. Picks(rest, box)
    <2> DEFINE f == [k \in 1..(n - 1) |-> from(k)]
    <2>1. f \in [DOMAIN rest -> DOMAIN box]
      BY <1>1, <1>6
    <2>2. \A k, l \in DOMAIN rest : k # l => f[k] # f[l]
      BY <1>1, <1>6
    <2>3. \A k \in DOMAIN rest : rest[k] = box[f[k]]
      BY <1>4, <1>6
    <2> HIDE DEF f
    <2> QED
      BY <2>1, <2>2, <2>3 DEF Picks
  <1>8. ASSUME NEW j \in DOMAIN box \ {i} PROVE \E k \in DOMAIN rest : rest[k] = box[j]
    <2>1. CASE j < i
      <3>1. j \in 1..(n - 1) /\ from(j) = j
        BY <1>1, <2>1
      <3> QED
        BY <1>4, <1>6, <3>1
    <2>2. CASE ~ (j < i)
      <3>1. j - 1 \in 1..(n - 1) /\ from(j - 1) = j
        BY <1>1, <2>2
      <3> QED
        BY <1>4, <1>6, <3>1
    <2> QED
      BY <2>1, <2>2
  <1> QED
    BY <1>4, <1>5, <1>7, <1>8

LEMMA PicksItself ==
  ASSUME NEW box PROVE Picks(box, box)
  <1> DEFINE f == [k \in DOMAIN box |-> k]
  <1>1. f \in [DOMAIN box -> DOMAIN box] /\ \A k \in DOMAIN box : f[k] = k
    OBVIOUS
  <1> HIDE DEF f
  <1> QED
    BY <1>1 DEF Picks

(* outbox_delete removes at most one item, of the id and the kind of the       *)
(* acknowledgement.                                                            *)
LEMMA DeletePicks ==
  ASSUME NEW box \in Seq(Item), NEW ack
  PROVE  LET left == outbox_delete(box, ack)
         IN /\ left \in Seq(Item) /\ Picks(left, box)
            /\ \A j \in DOMAIN box :
                 \/ \E k \in DOMAIN left : left[k] = box[j]
                 \/ box[j].id = ack.id
  <1> DEFINE meant == {j \in DOMAIN box :
               box[j].id = ack.id /\ (box[j].msg = SUBSCRIBE) = (ack.msg = SUBSCRIBE)}
             i == FirstOf(meant)
  <1>1. meant \subseteq Nat \ {0} /\ meant \subseteq DOMAIN box
    BY BoxProperties
  <1>2. i # 0 => i \in meant
    <2> HIDE DEF meant
    <2> QED
      BY <1>1, FirstOfProperties
  <1>3. outbox_delete(box, ack) = IF i = 0 THEN box ELSE Without(box, i)
    BY DEF outbox_delete
  <1>4. i # 0 => i \in DOMAIN box /\ box[i].id = ack.id
    BY <1>2
  <1> HIDE DEF meant, i
  <1>5. CASE i = 0
    BY <1>3, <1>5, PicksItself
  <1>6. CASE i # 0
    <2>1. outbox_delete(box, ack) = Without(box, i) /\ i \in DOMAIN box /\ box[i].id = ack.id
      BY <1>3, <1>4, <1>6
    <2>2. /\ Without(box, i) \in Seq(Item) /\ Picks(Without(box, i), box)
          /\ \A j \in DOMAIN box \ {i} : \E k \in DOMAIN Without(box, i) : Without(box, i)[k] = box[j]
      BY <2>1, WithoutPicks
    <2> QED
      BY <2>1, <2>2
  <1> QED
    BY <1>5, <1>6

(* outbox_get by an id that only one place has.                                *)
LEMMA GetFinds ==
  ASSUME NEW box \in Seq(Item), NEW i \in DOMAIN box,
         \A j \in DOMAIN box : j # i => box[j].id # box[i].id
  PROVE  outbox_get(box, box[i].id) = i
  <1> DEFINE places == {j \in DOMAIN box : box[j].id = box[i].id}
  <1>1. places = {i} /\ places \subseteq Nat \ {0}
    BY BoxProperties
  <1>2. FirstOf(places) = i
    <2> HIDE DEF places
    <2> QED
      BY <1>1, FirstOfProperties
  <1> QED
    BY <1>2 DEF outbox_get

LEMMA GetIsPlace ==
  ASSUME NEW box \in Seq(Item), NEW id
  PROVE  outbox_get(box, id) \in {0} \cup DOMAIN box
  <1> DEFINE places == {j \in DOMAIN box : box[j].id = id}
  <1>1. places \subseteq Nat \ {0} /\ places \subseteq DOMAIN box
    BY BoxProperties
  <1>2. FirstOf(places) \in {0} \cup places
    <2> HIDE DEF places
    <2> QED
      BY <1>1, FirstOfProperties
  <1> QED
    BY <1>1, <1>2 DEF outbox_get

LEMMA DequeueFinds ==
  ASSUME NEW box \in Seq(Item), NEW pending, outbox_dequeue(box, pending) # 0
  PROVE  LET i == outbox_dequeue(box, pending) IN i \in DOMAIN box /\ box[i].pending = pending
  <1> DEFINE places == {j \in DOMAIN box : box[j].pending = pending}
  <1>1. places \subseteq Nat \ {0}
    BY BoxProperties
  <1>2. FirstOf(places) # 0 => FirstOf(places) \in places
    <2> HIDE DEF places
    <2> QED
      BY <1>1, FirstOfProperties
  <1> QED
    BY <1>2 DEF outbox_dequeue

-----------------------------------------------------------------------------
(* Changes that leave the items where they are.                                *)

(* The items are the same but for their age and for being no longer QUEUED.    *)
Relabels(b, a) ==
  /\ DOMAIN b = DOMAIN a
  /\ \A j \in DOMAIN a :
       /\ b[j].msg = a[j].msg /\ b[j].id = a[j].id /\ b[j].qos = a[j].qos
       /\ b[j].pending = "QUEUED" => a[j].pending = "QUEUED"

LEMMA RelabelsInOrder ==
  ASSUME NEW a, NEW b, Relabels(b, a), NEW n, NEW written, NEW there, NEW back
  PROVE  /\ UpTo(a, n) => UpTo(b, n)
         /\ InOrder(a, written, there, back) => InOrder(b, written, there, back)
  <1>1. UpTo(a, n) => UpTo(b, n)
    BY DEF UpTo, Relabels
  <1>2. Distinct(a) => Distinct(b)
    BY DEF Distinct, Relabels
  <1>3. Unwritten(a, written) => Unwritten(b, written)
    BY DEF Unwritten, Relabels
  <1>4. \A packets : NamesAgree(a, packets) => NamesAgree(b, packets)
    BY DEF NamesAgree, Relabels
  <1> QED
    BY <1>1, <1>2, <1>3, <1>4 DEF InOrder

LEMMA RelabelsTwice ==
  ASSUME NEW a, NEW b, NEW c, Relabels(b, a), Relabels(c, b)
  PROVE  Relabels(c, a)
  BY DEF Relabels

(* Writing the item of a place, which is then no longer QUEUED.                *)
LEMMA WrittenInOrder ==
  ASSUME NEW a, NEW b, Relabels(b, a), NEW i \in DOMAIN a, b[i].pending # "QUEUED",
         NEW written, NEW there, NEW back, NEW gone, InOrder(a, written, there, back),
         \A k \in DOMAIN gone : \/ gone[k] = [msg |-> a[i].msg, id |-> a[i].id]
                                \/ \E l \in DOMAIN there : gone[k] = there[l]
  PROVE  InOrder(b, written \cup {a[i].msg}, gone, back)
  <1>1. Distinct(b)
    BY RelabelsInOrder DEF InOrder, Distinct, Relabels
  <1>2. Unwritten(b, written \cup {a[i].msg})
    <2> SUFFICES ASSUME NEW j \in DOMAIN b, b[j].pending = "QUEUED"
                 PROVE  b[j].msg \notin (written \cup {a[i].msg}) \cup {SUBSCRIBE} /\ b[j].qos = 1
      BY DEF Unwritten
    <2>1. j \in DOMAIN a /\ j # i /\ a[j].pending = "QUEUED" /\ b[j].msg = a[j].msg /\ b[j].qos = a[j].qos
      BY DEF Relabels
    <2>2. a[j].msg \notin written \cup {SUBSCRIBE} /\ a[j].qos = 1
      BY <2>1 DEF InOrder, Unwritten
    <2>3. a[j].msg # a[i].msg
      BY <2>1, <2>2 DEF InOrder, Distinct
    <2> QED
      BY <2>1, <2>2, <2>3
  <1>3. NamesAgree(b, gone)
    <2> SUFFICES ASSUME NEW j \in DOMAIN b, NEW k \in DOMAIN gone, gone[k].id = b[j].id
                 PROVE  gone[k].msg = b[j].msg
      BY DEF NamesAgree
    <2>1. j \in DOMAIN a /\ b[j].msg = a[j].msg /\ b[j].id = a[j].id
      BY DEF Relabels
    <2>2. CASE gone[k] = [msg |-> a[i].msg, id |-> a[i].id]
      <3>1. gone[k].id = a[i].id /\ gone[k].msg = a[i].msg
        BY <2>2
      <3>2. j = i
        BY <2>1, <3>1 DEF InOrder, Distinct
      <3> QED
        BY <2>1, <3>1, <3>2
    <2>3. CASE \E l \in DOMAIN there : gone[k] = there[l]
      BY <2>1, <2>3 DEF InOrder, NamesAgree
    <2> QED
      BY <2>2, <2>3
  <1>4. NamesAgree(b, back)
    BY DEF InOrder, NamesAgree, Relabels
  <1> QED
    BY <1>1, <1>2, <1>3, <1>4 DEF InOrder

(* outbox_set_pending(..., TRANSMITTED) and outbox_set_tick.                   *)
LEMMA SetPendingRelabels ==
  ASSUME NEW box \in Seq(Item), NEW id
  PROVE  LET after == outbox_set_pending(box, id, "TRANSMITTED")
         IN after \in Seq(Item) /\ Len(after) = Len(box) /\ Relabels(after, box)
  <1> DEFINE i == outbox_get(box, id)
             after == outbox_set_pending(box, id, "TRANSMITTED")
  <1>1. i \in {0} \cup DOMAIN box
    BY GetIsPlace
  <1>2. /\ Len(box) \in Nat /\ DOMAIN box = 1..Len(box)
        /\ \A j \in DOMAIN box : box[j] \in Item /\ j # 0
    BY BoxProperties
  <1>3. CASE i = 0
    <2>1. after = box
      BY <1>3 DEF outbox_set_pending
    <2> QED
      BY <2>1 DEF Relabels
  <1>4. CASE i # 0
    <2>1. after = [box EXCEPT ![i].pending = "TRANSMITTED"]
      BY <1>4 DEF outbox_set_pending
    <2>2. i \in DOMAIN box
      BY <1>1, <1>4
    <2> HIDE DEF i
    <2>3. after = [box EXCEPT ![i] = [box[i] EXCEPT !.pending = "TRANSMITTED"]]
      BY <2>1
    <2>4. [box[i] EXCEPT !.pending = "TRANSMITTED"] \in Item
      BY <1>2, <2>2 DEF Item
    <2>5. after \in Seq(Item) /\ Len(after) = Len(box)
      BY <2>2, <2>3, <2>4, ExceptSeq
    <2>6. DOMAIN after = DOMAIN box
      BY <2>3
    <2>7. \A j \in DOMAIN box : after[j] = IF j = i THEN [box[i] EXCEPT !.pending = "TRANSMITTED"] ELSE box[j]
      BY <2>3
    <2>8. \A j \in DOMAIN box :
            /\ after[j].msg = box[j].msg /\ after[j].id = box[j].id /\ after[j].qos = box[j].qos
            /\ after[j].pending = "QUEUED" => box[j].pending = "QUEUED"
      BY <1>2, <2>2, <2>7 DEF Item
    <2> QED
      BY <2>5, <2>6, <2>8 DEF Relabels
  <1> QED
    BY <1>3, <1>4

LEMMA SetTickRelabels ==
  ASSUME Expire \in Nat, NEW box \in Seq(Item), NEW id
  PROVE  LET after == outbox_set_tick(box, id)
         IN after \in Seq(Item) /\ Len(after) = Len(box) /\ Relabels(after, box)
  <1> DEFINE i == outbox_get(box, id)
             after == outbox_set_tick(box, id)
  <1>1. i \in {0} \cup DOMAIN box
    BY GetIsPlace
  <1>2. /\ Len(box) \in Nat /\ DOMAIN box = 1..Len(box)
        /\ \A j \in DOMAIN box : box[j] \in Item /\ j # 0
    BY BoxProperties
  <1>3. CASE i = 0
    <2>1. after = box
      BY <1>3 DEF outbox_set_tick
    <2> QED
      BY <2>1 DEF Relabels
  <1>4. CASE i # 0
    <2>1. after = [box EXCEPT ![i].age = 0]
      BY <1>4 DEF outbox_set_tick
    <2>2. i \in DOMAIN box
      BY <1>1, <1>4
    <2> HIDE DEF i
    <2>3. after = [box EXCEPT ![i] = [box[i] EXCEPT !.age = 0]]
      BY <2>1
    <2>4. [box[i] EXCEPT !.age = 0] \in Item
      <3>1. box[i] \in Item /\ 0 \in 0..(Expire + 1)
        BY <1>2, <2>2
      <3> QED
        BY <3>1 DEF Item
    <2>5. after \in Seq(Item) /\ Len(after) = Len(box)
      BY <2>2, <2>3, <2>4, ExceptSeq
    <2>6. DOMAIN after = DOMAIN box
      BY <2>3
    <2>7. \A j \in DOMAIN box : after[j] = IF j = i THEN [box[i] EXCEPT !.age = 0] ELSE box[j]
      BY <2>3
    <2>8. \A j \in DOMAIN box :
            /\ after[j].msg = box[j].msg /\ after[j].id = box[j].id /\ after[j].qos = box[j].qos
            /\ after[j].pending = "QUEUED" => box[j].pending = "QUEUED"
      BY <1>2, <2>2, <2>7 DEF Item
    <2> QED
      BY <2>5, <2>6, <2>8 DEF Relabels
  <1> QED
    BY <1>3, <1>4

(* By an id that only one place has, outbox_set_pending finds that place.      *)
LEMMA SetPendingMarks ==
  ASSUME NEW box \in Seq(Item), NEW i \in DOMAIN box,
         \A j \in DOMAIN box : j # i => box[j].id # box[i].id
  PROVE  outbox_set_pending(box, box[i].id, "TRANSMITTED")[i].pending = "TRANSMITTED"
  <1>1. outbox_get(box, box[i].id) = i /\ i # 0 /\ box[i] \in Item
    BY GetFinds, BoxProperties
  <1>2. outbox_set_pending(box, box[i].id, "TRANSMITTED") = [box EXCEPT ![i].pending = "TRANSMITTED"]
    BY <1>1 DEF outbox_set_pending
  <1>3. [box EXCEPT ![i].pending = "TRANSMITTED"][i] = [box[i] EXCEPT !.pending = "TRANSMITTED"]
    OBVIOUS
  <1> QED
    BY <1>1, <1>2, <1>3 DEF Item

-----------------------------------------------------------------------------
(* Storing a message.                                                          *)
LEMMA EnqueueProperties ==
  ASSUME Expire \in Nat, NEW box \in Seq(Item), NEW m \in 0..MaxPublish, NEW id \in Ids, NEW qos \in 0..1
  PROVE  LET stored == outbox_enqueue(box, m, id, qos)
             last == Len(box) + 1
         IN /\ stored \in Seq(Item) /\ DOMAIN stored = 1..last /\ DOMAIN box = 1..Len(box) /\ Len(box) \in Nat
            /\ last \in DOMAIN stored /\ last \notin DOMAIN box /\ DOMAIN box \subseteq DOMAIN stored
            /\ \A j \in DOMAIN stored : j = last \/ j \in DOMAIN box
            /\ \A j \in DOMAIN box : stored[j] = box[j]
            /\ stored[last].msg = m /\ stored[last].id = id /\ stored[last].qos = qos
  <1> DEFINE item == [msg |-> m, id |-> id, qos |-> qos, age |-> 0, pending |-> "QUEUED"]
             stored == outbox_enqueue(box, m, id, qos)
             last == Len(box) + 1
  <1>1. item \in Item
    <2>1. 0 \in 0..(Expire + 1)
      OBVIOUS
    <2> QED
      BY <2>1 DEF Item
  <1>2. item.msg = m /\ item.id = id /\ item.qos = qos
    OBVIOUS
  <1> HIDE DEF item
  <1>3. stored = Append(box, item)
    BY DEF outbox_enqueue, item
  <1>4. /\ stored \in Seq(Item) /\ Len(stored) = Len(box) + 1
        /\ \A i \in 1..Len(box) : stored[i] = box[i]
        /\ stored[Len(box) + 1] = item
    BY <1>1, <1>3, AppendProperties
  <1>5. Len(box) \in Nat /\ DOMAIN box = 1..Len(box) /\ DOMAIN stored = 1..Len(stored)
    BY <1>4, LenProperties
  <1> HIDE DEF stored
  <1> QED
    BY <1>2, <1>4, <1>5 DEF stored

(* Once the item at a place is marked, with the packet of it written or not.   *)
MarkedInOrder(list, at, written, there, back, m, id) ==
  \A b, gone :
    /\ Relabels(b, list) /\ b[at].pending # "QUEUED"
    /\ \A k \in DOMAIN gone : \/ gone[k] = [msg |-> m, id |-> id]
                              \/ \E l \in DOMAIN there : gone[k] = there[l]
    => InOrder(b, written, gone, back) /\ InOrder(b, written \cup {m}, gone, back)

(* A new id and a message that is new, or a SUBSCRIBE, leave the ids one by    *)
(* one and every packet with its item; the list is in order once the item is   *)
(* marked, or if the item is a publication that was not written.               *)
LEMMA EnqueueInOrder ==
  ASSUME Expire \in Nat, NEW box \in Seq(Item), NEW m \in 0..MaxPublish, NEW id \in Ids, NEW qos \in 0..1,
         NEW written, NEW there, NEW back, InOrder(box, written, there, back),
         \A j \in DOMAIN box : box[j].id # id /\ (box[j].msg = m => m = SUBSCRIBE),
         \A k \in DOMAIN there : there[k].id # id,
         \A k \in DOMAIN back : back[k].id # id
  PROVE  LET stored == outbox_enqueue(box, m, id, qos)
             last == Len(box) + 1
         IN /\ \A j \in DOMAIN stored : j # last => stored[j].id # id
            /\ m \notin written /\ m # SUBSCRIBE /\ qos = 1 => InOrder(stored, written, there, back)
            /\ MarkedInOrder(stored, last, written, there, back, m, id)
  <1> DEFINE stored == outbox_enqueue(box, m, id, qos)
             last == Len(box) + 1
  <1>1. /\ last \in DOMAIN stored /\ last \notin DOMAIN box /\ DOMAIN box \subseteq DOMAIN stored
        /\ \A j \in DOMAIN stored : j = last \/ j \in DOMAIN box
        /\ \A j \in DOMAIN box : stored[j] = box[j]
        /\ stored[last].msg = m /\ stored[last].id = id /\ stored[last].qos = qos
    BY EnqueueProperties
  <1> HIDE DEF stored, last
  <1>2. \A j \in DOMAIN stored : j # last => stored[j].id # id
    BY <1>1
  <1>3. Distinct(stored)
    <2>1. Distinct(box)
      BY DEF InOrder
    <2> SUFFICES ASSUME NEW i \in DOMAIN stored, NEW j \in DOMAIN stored, i # j
                 PROVE  stored[i].id # stored[j].id /\ (stored[i].msg = stored[j].msg => stored[i].msg = SUBSCRIBE)
      BY DEF Distinct
    <2>2. CASE i = last
      <3>1. j \in DOMAIN box /\ stored[j] = box[j]
        BY <1>1, <2>2
      <3> QED
        BY <1>1, <2>2, <3>1
    <2>3. CASE j = last
      <3>1. i \in DOMAIN box /\ stored[i] = box[i]
        BY <1>1, <2>3
      <3> QED
        BY <1>1, <2>3, <3>1
    <2>4. CASE i # last /\ j # last
      BY <1>1, <2>1, <2>4 DEF Distinct
    <2> QED
      BY <2>2, <2>3, <2>4
  <1>4. NamesAgree(stored, there) /\ NamesAgree(stored, back)
    <2>1. NamesAgree(box, there) /\ NamesAgree(box, back)
      BY DEF InOrder
    <2>2. ASSUME NEW p, NamesAgree(box, p), \A k \in DOMAIN p : p[k].id # id
          PROVE  NamesAgree(stored, p)
      BY <1>1, <2>2 DEF NamesAgree
    <2> QED
      BY <2>1, <2>2
  <1>5. ASSUME m \notin written, m # SUBSCRIBE, qos = 1
        PROVE  InOrder(stored, written, there, back)
    <2>1. Unwritten(box, written)
      BY DEF InOrder
    <2>2. Unwritten(stored, written)
      BY <1>1, <1>5, <2>1 DEF Unwritten
    <2> QED
      BY <1>3, <1>4, <2>2 DEF InOrder
  <1>6. ASSUME NEW b, Relabels(b, stored), b[last].pending # "QUEUED", NEW gone,
               \A k \in DOMAIN gone : \/ gone[k] = [msg |-> m, id |-> id]
                                      \/ \E l \in DOMAIN there : gone[k] = there[l]
        PROVE  InOrder(b, written, gone, back) /\ InOrder(b, written \cup {m}, gone, back)
    <2>1. Distinct(b)
      BY <1>3, <1>6 DEF Distinct, Relabels
    <2>2. NamesAgree(b, back)
      BY <1>4, <1>6 DEF NamesAgree, Relabels
    <2>3. NamesAgree(b, gone)
      <3> SUFFICES ASSUME NEW j \in DOMAIN b, NEW k \in DOMAIN gone, gone[k].id = b[j].id
                   PROVE  gone[k].msg = b[j].msg
        BY DEF NamesAgree
      <3>1. j \in DOMAIN stored /\ b[j].msg = stored[j].msg /\ b[j].id = stored[j].id
        BY <1>6 DEF Relabels
      <3>2. CASE gone[k] = [msg |-> m, id |-> id]
        <4>1. gone[k].id = id /\ gone[k].msg = m
          BY <3>2
        <4>2. j = last
          BY <1>2, <3>1, <4>1
        <4> QED
          BY <1>1, <3>1, <4>1, <4>2
      <3>3. CASE \E l \in DOMAIN there : gone[k] = there[l]
        BY <1>4, <3>1, <3>3 DEF NamesAgree
      <3> QED
        BY <1>6, <3>2, <3>3
    <2>4. Unwritten(b, written \cup {m}) /\ Unwritten(b, written)
      <3> SUFFICES ASSUME NEW j \in DOMAIN b, b[j].pending = "QUEUED"
                   PROVE  b[j].msg \notin (written \cup {m}) \cup {SUBSCRIBE} /\ b[j].qos = 1
        BY DEF Unwritten
      <3>1. j \in DOMAIN stored /\ stored[j].pending = "QUEUED" /\ b[j].msg = stored[j].msg /\ b[j].qos = stored[j].qos
        BY <1>6 DEF Relabels
      <3>2. j \in DOMAIN box /\ stored[j] = box[j]
        BY <1>1, <1>6, <3>1
      <3>3. box[j].msg \notin written \cup {SUBSCRIBE} /\ box[j].qos = 1
        BY <3>1, <3>2 DEF InOrder, Unwritten
      <3> QED
        BY <3>1, <3>2, <3>3
    <2> QED
      BY <2>1, <2>2, <2>3, <2>4 DEF InOrder
  <1>7. MarkedInOrder(stored, last, written, there, back, m, id)
    BY <1>6 DEF MarkedInOrder
  <1> QED
    BY <1>2, <1>5, <1>7 DEF stored, last

-----------------------------------------------------------------------------
(* Packets.                                                                    *)
LEMMA PacketsProperties ==
  ASSUME NEW s \in Seq(Packet)
  PROVE  /\ Len(s) \in Nat /\ DOMAIN s = 1..Len(s)
         /\ \A k \in DOMAIN s : s[k] \in Packet /\ s[k].msg \in 0..MaxPublish /\ s[k].id \in Ids
  <1>1. \A p \in Packet : p.msg \in 0..MaxPublish /\ p.id \in Ids
    BY DEF Packet
  <1> QED
    BY <1>1, BoxProperties

(* Every packet of a is a packet of b.                                         *)
From(a, b) == \A k \in DOMAIN a : \E l \in DOMAIN b : a[k] = b[l]

LEMMA NoPackets ==
  /\ << >> \in Seq(Packet) /\ DOMAIN << >> = {}
  /\ \A s : From(<< >>, s) /\ From(s, s)
  <1>1. << >> \in Seq(Packet) /\ DOMAIN << >> = {}
    OBVIOUS
  <1> QED
    BY <1>1 DEF From

LEMMA HeadAndTail ==
  ASSUME NEW s \in Seq(Packet), s # << >>
  PROVE  /\ Tail(s) \in Seq(Packet) /\ From(Tail(s), s)
         /\ Head(s) \in Packet /\ 1 \in DOMAIN s /\ Head(s) = s[1]
  <1>1. /\ Head(s) \in Packet /\ Tail(s) \in Seq(Packet) /\ Len(Tail(s)) = Len(s) - 1
        /\ \A i \in 1..Len(Tail(s)) : Tail(s)[i] = s[i + 1]
    BY HeadTailProperties
  <1>2. /\ Len(s) \in Nat /\ DOMAIN s = 1..Len(s) /\ DOMAIN Tail(s) = 1..Len(Tail(s)) /\ Len(s) # 0
    BY <1>1, PacketsProperties, EmptySeq
  <1>3. \A i \in DOMAIN Tail(s) : i + 1 \in DOMAIN s /\ Tail(s)[i] = s[i + 1]
    BY <1>1, <1>2
  <1>4. Head(s) = s[1] /\ 1 \in DOMAIN s
    BY <1>2
  <1> QED
    BY <1>1, <1>3, <1>4 DEF From

LEMMA FromProperties ==
  ASSUME NEW s, NEW r, From(r, s)
  PROVE  /\ \A n : UpTo(s, n) => UpTo(r, n)
         /\ \A box : NamesAgree(box, s) => NamesAgree(box, r)
  <1>1. \A n : UpTo(s, n) => UpTo(r, n)
    BY DEF From, UpTo
  <1>2. ASSUME NEW box, NamesAgree(box, s) PROVE NamesAgree(box, r)
    BY <1>2 DEF From, NamesAgree
  <1> QED
    BY <1>1, <1>2

LEMMA FewerInOrder ==
  ASSUME NEW box, NEW written, NEW there, NEW back, InOrder(box, written, there, back),
         NEW there2, From(there2, there), NEW back2, From(back2, back)
  PROVE  InOrder(box, written, there2, back2)
  BY FromProperties DEF InOrder

LEMMA AppendPacket ==
  ASSUME NEW s \in Seq(Packet), NEW p \in Packet
  PROVE  /\ Append(s, p) \in Seq(Packet)
         /\ \A k \in DOMAIN Append(s, p) : Append(s, p)[k] = p \/ \E l \in DOMAIN s : Append(s, p)[k] = s[l]
  <1>1. /\ Append(s, p) \in Seq(Packet) /\ Len(Append(s, p)) = Len(s) + 1
        /\ \A i \in 1..Len(s) : Append(s, p)[i] = s[i]
        /\ Append(s, p)[Len(s) + 1] = p
    BY AppendProperties
  <1>2. /\ Len(s) \in Nat /\ DOMAIN s = 1..Len(s)
        /\ DOMAIN Append(s, p) = 1..(Len(s) + 1)
    BY <1>1, PacketsProperties
  <1>3. \A k \in 1..(Len(s) + 1) : k = Len(s) + 1 \/ k \in 1..Len(s)
    BY <1>2
  <1> QED
    BY <1>1, <1>2, <1>3

(* A write adds its packet or loses it.                                        *)
LEMMA SendingCarries ==
  ASSUME wire \in Seq(Packet), NEW m \in 0..MaxPublish, NEW id \in Ids, Sending(m, id)
  PROVE  /\ wire' \in Seq(Packet)
         /\ \A k \in DOMAIN wire' : \/ wire'[k] = [msg |-> m, id |-> id]
                                    \/ \E l \in DOMAIN wire : wire'[k] = wire[l]
         /\ \A n \in Int : UpTo(wire, n) /\ m =< n => UpTo(wire', n)
  <1> DEFINE p == [msg |-> m, id |-> id]
  <1>1. p \in Packet /\ p.msg = m
    BY DEF Packet
  <1>2. wire' = Append(wire, p) \/ wire' = wire
    BY DEF Sending
  <1> HIDE DEF p
  <1>3. /\ wire' \in Seq(Packet)
        /\ \A k \in DOMAIN wire' : wire'[k] = p \/ \E l \in DOMAIN wire : wire'[k] = wire[l]
    <2>1. CASE wire' = Append(wire, p)
      <3>1. /\ Append(wire, p) \in Seq(Packet)
            /\ \A k \in DOMAIN Append(wire, p) :
                 Append(wire, p)[k] = p \/ \E l \in DOMAIN wire : Append(wire, p)[k] = wire[l]
        BY <1>1, AppendPacket
      <3> QED
        BY <2>1, <3>1
    <2>2. CASE wire' = wire
      BY <2>2
    <2> QED
      BY <1>2, <2>1, <2>2
  <1>4. ASSUME NEW n \in Int, UpTo(wire, n), m =< n PROVE UpTo(wire', n)
    BY <1>1, <1>3, <1>4 DEF UpTo
  <1> QED
    BY <1>3, <1>4 DEF p

-----------------------------------------------------------------------------
(* The parts of the invariant that change together.                            *)
TypedList == outbox \in Seq(Item) /\ UpTo(outbox, published)
TypedWire == wire \in Seq(Packet) /\ UpTo(wire, published)

LEMMA OneResend ==
  ASSUME TypeOK, TypedWire, state = "connected",
         NEW box \in Seq(Item), UpTo(box, published), NEW i \in DOMAIN box,
         NEW after \in Seq(Item), Relabels(after, box),
         InOrder(box, sent, wire, acks) => after[i].pending # "QUEUED",
         Resend(box, i, after)
  PROVE  /\ state' \in {"connected", "wait"} /\ lastQos' \in 0..1 /\ alive' \in BOOLEAN
         /\ outbox' \in Seq(Item) /\ Relabels(outbox', box)
         /\ wire' \in Seq(Packet) /\ UpTo(wire', published) /\ sent' \subseteq 0..published
         /\ state' # "connected" => acks' = << >>
         /\ InOrder(box, sent, wire, acks) => InOrder(outbox', sent', wire', acks)
  <1>1. /\ box[i] \in Item /\ box[i].msg \in 0..MaxPublish /\ box[i].id \in Ids /\ box[i].qos \in 0..1
        /\ box[i].msg =< published /\ published \in Nat
        /\ box[i].msg \in 0..published
    <2>1. box[i] \in Item
      BY BoxProperties
    <2>2. box[i].msg \in 0..MaxPublish /\ box[i].id \in Ids /\ box[i].qos \in 0..1
      BY <2>1 DEF Item
    <2>3. box[i].msg =< published /\ published \in 0..MaxPublish
      BY DEF UpTo, TypeOK
    <2> QED
      BY <2>1, <2>2, <2>3, OutboxAssumption
  <1>2. lastQos' = box[i].qos
    BY DEF Resend
  <1>3. CASE Sending(box[i].msg, box[i].id) /\ outbox' = after
    <2>1. /\ wire' \in Seq(Packet) /\ UpTo(wire', published)
          /\ \A k \in DOMAIN wire' : \/ wire'[k] = [msg |-> box[i].msg, id |-> box[i].id]
                                     \/ \E l \in DOMAIN wire : wire'[k] = wire[l]
      BY <1>1, <1>3, SendingCarries DEF TypedWire
    <2>2. sent' = sent \cup {box[i].msg} /\ state' = state /\ alive' = alive
      BY <1>3 DEF Sending
    <2>3. ASSUME InOrder(box, sent, wire, acks) PROVE InOrder(outbox', sent', wire', acks)
      <3>1. after[i].pending # "QUEUED"
        BY <2>3
      <3>2. InOrder(after, sent \cup {box[i].msg}, wire', acks)
        BY <2>1, <2>3, <3>1, WrittenInOrder
      <3> QED
        BY <1>3, <2>2, <3>2
    <2>4. sent' \subseteq 0..published
      BY <1>1, <2>2 DEF TypeOK
    <2> QED
      BY <1>1, <1>2, <1>3, <2>1, <2>2, <2>3, <2>4 DEF TypeOK
  <1>4. CASE Abort /\ outbox' = box /\ UNCHANGED sent
    <2>1. state' = "wait" /\ alive' = FALSE /\ wire' = << >> /\ acks' = << >> /\ outbox' = box /\ sent' = sent
      BY <1>4 DEF Abort
    <2>2. Relabels(box, box)
      BY DEF Relabels
    <2>3. From(wire', wire) /\ From(acks, acks) /\ wire' \in Seq(Packet)
      BY <2>1, NoPackets
    <2>4. InOrder(box, sent, wire, acks) => InOrder(outbox', sent', wire', acks)
      BY <2>1, <2>3, FewerInOrder
    <2>5. UpTo(wire', published)
      BY <2>3, FromProperties DEF TypedWire
    <2> QED
      BY <1>1, <1>2, <2>1, <2>2, <2>3, <2>4, <2>5 DEF TypeOK
  <1> QED
    BY <1>3, <1>4 DEF Resend

LEMMA ResendsStep ==
  ASSUME TypeOK, TypedWire, state = "connected",
         NEW box \in Seq(Item), UpTo(box, published), Resends(box)
  PROVE  /\ state' \in {"connected", "wait"} /\ lastQos' \in 0..1 /\ alive' \in BOOLEAN
         /\ resendAge' \in {Unset, 0, 1}
         /\ outbox' \in Seq(Item) /\ Relabels(outbox', box)
         /\ wire' \in Seq(Packet) /\ UpTo(wire', published) /\ sent' \subseteq 0..published
         /\ state' # "connected" => acks' = << >>
         /\ InOrder(box, sent, wire, acks) => InOrder(outbox', sent', wire', acks)
  <1> DEFINE q == outbox_dequeue(box, "QUEUED")
             t == outbox_dequeue(box, "TRANSMITTED")
             due == resendAge = 1
             marked == IF box[q].qos > 0 THEN outbox_set_pending(box, box[q].id, "TRANSMITTED") ELSE box
  <1>1. Relabels(box, box)
    BY DEF Relabels
  <1>2. CASE q # 0 /\ Resend(box, q, marked) /\ resendAge' = IF resendAge = Unset THEN 0 ELSE resendAge
    <2>1. q \in DOMAIN box /\ box[q].pending = "QUEUED"
      BY <1>2, DequeueFinds
    <2>2. marked \in Seq(Item) /\ Relabels(marked, box)
      BY <1>1, SetPendingRelabels
    <2>3. ASSUME InOrder(box, sent, wire, acks) PROVE marked[q].pending # "QUEUED"
      <3>1. box[q].qos = 1
        BY <2>1, <2>3 DEF InOrder, Unwritten
      <3>2. \A j \in DOMAIN box : j # q => box[j].id # box[q].id
        BY <2>1, <2>3 DEF InOrder, Distinct
      <3>3. outbox_set_pending(box, box[q].id, "TRANSMITTED")[q].pending = "TRANSMITTED"
        BY <2>1, <3>2, SetPendingMarks
      <3> QED
        BY <3>1, <3>3
    <2>4. resendAge' \in {Unset, 0, 1}
      BY <1>2 DEF TypeOK
    <2> HIDE DEF q, marked
    <2> QED
      BY <1>2, <2>1, <2>2, <2>3, <2>4, OneResend
  <1>3. CASE resendAge' = (IF due \/ resendAge = Unset THEN 0 ELSE resendAge) /\ t # 0 /\ Resend(box, t, box)
    <2>1. t \in DOMAIN box /\ box[t].pending # "QUEUED"
      BY <1>3, DequeueFinds
    <2>2. resendAge' \in {Unset, 0, 1}
      BY <1>3 DEF TypeOK
    <2> HIDE DEF t
    <2> QED
      BY <1>1, <1>3, <2>1, <2>2, OneResend
  <1>4. CASE resendAge' = (IF due \/ resendAge = Unset THEN 0 ELSE resendAge) /\ NoResend(box)
    <2>1. /\ outbox' = box /\ state' = state /\ lastQos' = lastQos /\ alive' = alive
          /\ wire' = wire /\ sent' = sent
      BY <1>4 DEF NoResend
    <2>2. resendAge' \in {Unset, 0, 1}
      BY <1>4 DEF TypeOK
    <2> QED
      BY <1>1, <2>1, <2>2 DEF TypeOK, TypedWire
  <1>5. \/ q # 0 /\ Resend(box, q, marked) /\ resendAge' = IF resendAge = Unset THEN 0 ELSE resendAge
        \/ /\ resendAge' = IF due \/ resendAge = Unset THEN 0 ELSE resendAge
           /\ IF due /\ t # 0 /\ box[t].age > 1 THEN Resend(box, t, box) ELSE NoResend(box)
    BY DEF Resends
  <1> QED
    BY <1>2, <1>3, <1>4, <1>5

-----------------------------------------------------------------------------
(* The invariant.                                                              *)
LEMMA Typed ==
  ASSUME IInv
  PROVE  /\ TypeOK /\ outbox \in Seq(Item) /\ wire \in Seq(Packet) /\ acks \in Seq(Packet)
         /\ UpTo(outbox, published) /\ UpTo(wire, published)
         /\ published \in Nat /\ published \in 0..MaxPublish /\ Expire \in Nat /\ MaxPublish \in Nat
  BY OutboxAssumption DEF IInv, TypeOK, Packet

LEMMA InitIInv == Init => IInv
  <1> SUFFICES ASSUME Init PROVE IInv
    OBVIOUS
  <1>1. outbox = << >> /\ wire = << >> /\ acks = << >> /\ DOMAIN << >> = {}
    BY DEF Init
  <1>2. TypeOK
    <2>1. state \in {"connected", "wait"} /\ alive \in BOOLEAN /\ clash \in BOOLEAN
      BY DEF Init
    <2>2. /\ lastQos \in 0..1 /\ resendAge \in {Unset, 0, 1}
          /\ published \in 0..MaxPublish /\ connects \in 0..MaxConnects
          /\ received \subseteq 0..published /\ sent \subseteq 0..published
      BY OutboxAssumption DEF Init
    <2>3. outbox \in Seq(Item) /\ wire \in Seq(Packet) /\ acks \in Seq(Packet)
      BY <1>1
    <2> QED
      BY <2>1, <2>2, <2>3 DEF TypeOK, Packet
  <1>3. UpTo(outbox, published) /\ UpTo(wire, published) /\ AcksReceived
    BY <1>1 DEF UpTo, AcksReceived
  <1>4. InOrder(outbox, sent, wire, acks)
    BY <1>1 DEF InOrder, Distinct, Unwritten, NamesAgree
  <1> QED
    BY <1>2, <1>3, <1>4 DEF IInv

(* The pass: a list with some items expired and at most one acknowledged.      *)
LEMMA PassStep == IInv /\ Pass => IInv'
  <1> SUFFICES ASSUME IInv, Pass PROVE IInv'
    OBVIOUS
  <1> DEFINE kept == outbox_delete_expired(outbox)
  <1>1. /\ TypeOK /\ outbox \in Seq(Item) /\ wire \in Seq(Packet) /\ acks \in Seq(Packet)
        /\ UpTo(outbox, published) /\ UpTo(wire, published)
    BY Typed
  <1>2. /\ kept \in Seq(Item) /\ UpTo(kept, published)
        /\ InOrder(outbox, sent, wire, acks) => InOrder(kept, sent, wire, acks)
    BY <1>1, ExpiredPicks, PicksInOrder
  <1>3. /\ state = "connected"
        /\ published' = published /\ connects' = connects /\ received' = received /\ clash' = clash
    BY DEF Pass
  <1>4. ASSUME NEW box \in Seq(Item), UpTo(box, published), Resends(box),
               InOrder(outbox, sent, wire, acks) => InOrder(box, sent, wire, acks),
               NEW back \in Seq(Packet), From(back, acks), state' = "connected" => acks' = back
        PROVE  IInv'
    <2>1. /\ state' \in {"connected", "wait"} /\ lastQos' \in 0..1 /\ alive' \in BOOLEAN
          /\ resendAge' \in {Unset, 0, 1}
          /\ outbox' \in Seq(Item) /\ Relabels(outbox', box)
          /\ wire' \in Seq(Packet) /\ UpTo(wire', published) /\ sent' \subseteq 0..published
          /\ state' # "connected" => acks' = << >>
          /\ InOrder(box, sent, wire, acks) => InOrder(outbox', sent', wire', acks)
      BY <1>1, <1>3, <1>4, ResendsStep DEF TypedWire
    <2>2. acks' \in Seq(Packet) /\ From(acks', acks)
      BY <1>4, <2>1, NoPackets
    <2>3. UpTo(outbox', published)
      BY <1>4, <2>1, RelabelsInOrder
    <2>4. AcksReceived'
      BY <1>3, <2>2 DEF From, AcksReceived, IInv
    <2>5. From(wire', wire')
      BY NoPackets
    <2>6. clash' \/ InOrder(outbox', sent', wire', acks')
      BY <1>3, <1>4, <2>1, <2>2, <2>5, FewerInOrder DEF IInv
    <2>7. TypeOK'
      BY <1>1, <1>3, <2>1, <2>2 DEF TypeOK, Packet
    <2> QED
      BY <1>3, <2>1, <2>3, <2>4, <2>6, <2>7 DEF IInv
  <1>5. CASE Resends(kept) /\ (state' = "connected" => acks' = acks)
    <2>1. From(acks, acks)
      BY NoPackets
    <2> QED
      BY <1>1, <1>2, <1>4, <1>5, <2>1
  <1>6. CASE /\ acks # << >> /\ Resends(outbox_delete(kept, Head(acks)))
             /\ (state' = "connected" => acks' = Tail(acks))
    <2> DEFINE left == outbox_delete(kept, Head(acks))
    <2>1. left \in Seq(Item) /\ Picks(left, kept)
      BY <1>2, DeletePicks
    <2> HIDE DEF left, kept
    <2>2. /\ UpTo(left, published)
          /\ InOrder(kept, sent, wire, acks) => InOrder(left, sent, wire, acks)
      BY <1>2, <2>1, PicksInOrder
    <2>3. Tail(acks) \in Seq(Packet) /\ From(Tail(acks), acks)
      BY <1>1, <1>6, HeadAndTail
    <2>4. Resends(left)
      BY <1>6 DEF left
    <2> QED
      BY <1>2, <1>4, <1>6, <2>1, <2>2, <2>3, <2>4
  <1> QED
    BY <1>5, <1>6 DEF Pass

(* The list after messages have expired, with everything else as it was.       *)
LEMMA ExpiredStep ==
  ASSUME IInv, outbox' = outbox_delete_expired(outbox), clash' = clash, sent' = sent, published' = published,
         wire' \in Seq(Packet), From(wire', wire), acks' \in Seq(Packet), From(acks', acks)
  PROVE  /\ outbox' \in Seq(Item) /\ UpTo(outbox', published') /\ UpTo(wire', published')
         /\ clash' \/ InOrder(outbox', sent', wire', acks')
  <1>1. /\ outbox \in Seq(Item) /\ UpTo(outbox, published) /\ UpTo(wire, published)
    BY Typed
  <1>2. /\ outbox' \in Seq(Item) /\ UpTo(outbox', published)
        /\ InOrder(outbox, sent, wire, acks) => InOrder(outbox', sent, wire, acks)
    BY <1>1, ExpiredPicks, PicksInOrder
  <1>3. UpTo(wire', published)
    BY <1>1, FromProperties
  <1>4. clash \/ InOrder(outbox', sent, wire', acks')
    BY <1>2, FewerInOrder DEF IInv
  <1> QED
    BY <1>2, <1>3, <1>4

LEMMA PassLosesStep == IInv /\ PassLoses => IInv'
  <1> SUFFICES ASSUME IInv, PassLoses PROVE IInv'
    OBVIOUS
  <1>1. /\ outbox' = outbox_delete_expired(outbox)
        /\ state' = "wait" /\ alive' = FALSE /\ wire' = << >> /\ acks' = << >>
        /\ lastQos' = lastQos /\ resendAge' = resendAge /\ published' = published
        /\ connects' = connects /\ received' = received /\ sent' = sent /\ clash' = clash
    BY DEF PassLoses, Abort
  <1>2. /\ wire' \in Seq(Packet) /\ From(wire', wire) /\ acks' \in Seq(Packet) /\ From(acks', acks)
        /\ DOMAIN acks' = {}
    BY <1>1, NoPackets
  <1>3. /\ outbox' \in Seq(Item) /\ UpTo(outbox', published') /\ UpTo(wire', published')
        /\ clash' \/ InOrder(outbox', sent', wire', acks')
    BY <1>1, <1>2, ExpiredStep
  <1>4. TypeOK'
    BY <1>1, <1>2, <1>3 DEF IInv, TypeOK, Packet
  <1>5. AcksReceived'
    BY <1>2 DEF AcksReceived
  <1> QED
    BY <1>3, <1>4, <1>5 DEF IInv

LEMMA PassWaitsStep == IInv /\ PassWaits => IInv'
  <1> SUFFICES ASSUME IInv, PassWaits PROVE IInv'
    OBVIOUS
  <1>1. /\ outbox' = outbox_delete_expired(outbox)
        /\ state' = state /\ alive' = alive /\ wire' = wire /\ acks' = acks
        /\ lastQos' = lastQos /\ resendAge' = resendAge /\ published' = published
        /\ connects' = connects /\ received' = received /\ sent' = sent /\ clash' = clash
    BY DEF PassWaits, netVars
  <1>2. wire' \in Seq(Packet) /\ From(wire', wire) /\ acks' \in Seq(Packet) /\ From(acks', acks)
    BY <1>1, NoPackets, Typed
  <1>3. /\ outbox' \in Seq(Item) /\ UpTo(outbox', published') /\ UpTo(wire', published')
        /\ clash' \/ InOrder(outbox', sent', wire', acks')
    BY <1>1, <1>2, ExpiredStep
  <1>4. TypeOK'
    BY <1>1, <1>2, <1>3 DEF IInv, TypeOK, Packet
  <1>5. AcksReceived'
    BY <1>1 DEF IInv, AcksReceived
  <1> QED
    BY <1>3, <1>4, <1>5 DEF IInv

(* An id that no item and no packet goes by, unless clash tells.               *)
LEMMA NewId ==
  ASSUME IInv, NEW id \in Ids, append_message_id(id)
  PROVE  /\ clash' \in BOOLEAN
         /\ clash => clash'
         /\ ~clash' => /\ \A j \in DOMAIN outbox : outbox[j].id # id
                       /\ \A k \in DOMAIN wire : wire[k].id # id
                       /\ \A k \in DOMAIN acks : acks[k].id # id
  <1>1. clash' = (clash \/ id \in InUse)
    BY DEF append_message_id
  <1>2. id \notin InUse => /\ \A j \in DOMAIN outbox : outbox[j].id # id
                           /\ \A k \in DOMAIN wire : wire[k].id # id
                           /\ \A k \in DOMAIN acks : acks[k].id # id
    BY DEF InUse
  <1> QED
    BY <1>1, <1>2

(* A publication is stored under a new number: no item has it and it was not   *)
(* written.  It stays QUEUED, or is written and marked.                        *)
LEMMA PublishStep ==
  ASSUME NEW id \in Ids
  PROVE  IInv /\ Publish(id) => IInv'
  <1> SUFFICES ASSUME IInv, Publish(id) PROVE IInv'
    OBVIOUS
  <1> DEFINE m == published + 1
             stored == outbox_enqueue(outbox, m, id, 1)
             last == Len(outbox) + 1
             marked == outbox_set_pending(outbox_set_tick(stored, id), id, "TRANSMITTED")
  <1>1. /\ TypeOK /\ outbox \in Seq(Item) /\ wire \in Seq(Packet) /\ acks \in Seq(Packet)
        /\ UpTo(outbox, published) /\ UpTo(wire, published)
        /\ published \in Nat /\ Expire \in Nat /\ MaxPublish \in Nat
    BY Typed
  <1>2. /\ published < MaxPublish /\ published' = m /\ append_message_id(id) /\ lastQos' = 1
        /\ resendAge' = resendAge /\ connects' = connects /\ received' = received
    BY DEF Publish
  <1>3. m \in 0..MaxPublish /\ m # SUBSCRIBE /\ published =< m /\ 1 \in 0..1
    BY <1>1, <1>2 DEF SUBSCRIBE
  <1>4. sent \subseteq 0..published /\ m \notin sent /\ received \subseteq 0..m /\ sent \subseteq 0..m
    BY <1>1 DEF TypeOK
  <1>5. ASSUME NEW list, UpTo(list, published),
               \A j \in DOMAIN list : list[j].msg \in Nat
        PROVE  UpTo(list, m) /\ \A j \in DOMAIN list : list[j].msg # m
    BY <1>1, <1>5 DEF UpTo
  <1>6. /\ \A j \in DOMAIN outbox : outbox[j].msg \in 0..MaxPublish
        /\ \A j \in DOMAIN wire : wire[j].msg \in 0..MaxPublish
    <2>1. \A j \in DOMAIN outbox : outbox[j] \in Item
      BY <1>1, BoxProperties
    <2> QED
      BY <1>1, <2>1, PacketsProperties DEF Item
  <1>7. UpTo(outbox, m) /\ UpTo(wire, m) /\ \A j \in DOMAIN outbox : outbox[j].msg # m
    BY <1>1, <1>5, <1>6
  <1> HIDE DEF m
  <1>8. /\ stored \in Seq(Item) /\ DOMAIN stored = 1..last
        /\ last \in DOMAIN stored
        /\ \A j \in DOMAIN stored : j = last \/ j \in DOMAIN outbox
        /\ \A j \in DOMAIN outbox : stored[j] = outbox[j]
        /\ stored[last].msg = m /\ stored[last].id = id
    <2>1. \A qos \in 0..1 :
            LET list == outbox_enqueue(outbox, m, id, qos) IN
            /\ list \in Seq(Item) /\ DOMAIN list = 1..last
            /\ last \in DOMAIN list
            /\ \A j \in DOMAIN list : j = last \/ j \in DOMAIN outbox
            /\ \A j \in DOMAIN outbox : list[j] = outbox[j]
            /\ list[last].msg = m /\ list[last].id = id
      <3> TAKE qos \in 0..1
      <3>1. outbox \in Seq(Item) /\ Expire \in Nat /\ m \in 0..MaxPublish
        BY <1>1, <1>3
      <3> HIDE DEF stored, marked
      <3> QED
        BY <3>1, EnqueueProperties
    <2>2. 1 \in 0..1
      BY <1>3
    <2> QED
      BY <2>1, <2>2
  <1>9. UpTo(stored, m)
    <2>1. m \in Nat
      BY <1>3
    <2> QED
      BY <1>7, <1>8, <2>1 DEF UpTo
  <1>10. /\ clash' \in BOOLEAN
         /\ ~clash' => /\ InOrder(outbox, sent, wire, acks)
                       /\ \A j \in DOMAIN outbox : outbox[j].id # id
                       /\ \A k \in DOMAIN wire : wire[k].id # id
                       /\ \A k \in DOMAIN acks : acks[k].id # id
    BY <1>2, NewId DEF IInv
  <1>11. ~clash' => /\ \A j \in DOMAIN stored : j # last => stored[j].id # id
                    /\ InOrder(stored, sent, wire, acks)
                    /\ MarkedInOrder(stored, last, sent, wire, acks, m, id)
    <2> SUFFICES ASSUME ~clash'
                 PROVE  /\ \A j \in DOMAIN stored : j # last => stored[j].id # id
                        /\ InOrder(stored, sent, wire, acks)
                        /\ MarkedInOrder(stored, last, sent, wire, acks, m, id)
      OBVIOUS
    <2>1. /\ InOrder(outbox, sent, wire, acks)
          /\ \A j \in DOMAIN outbox : outbox[j].id # id /\ (outbox[j].msg = m => m = SUBSCRIBE)
          /\ \A k \in DOMAIN wire : wire[k].id # id
          /\ \A k \in DOMAIN acks : acks[k].id # id
      BY <1>7, <1>10
    <2>2. \A qos \in 0..1 :
            LET list == outbox_enqueue(outbox, m, id, qos) IN
            /\ \A j \in DOMAIN list : j # last => list[j].id # id
            /\ m \notin sent /\ m # SUBSCRIBE /\ qos = 1 => InOrder(list, sent, wire, acks)
            /\ MarkedInOrder(list, last, sent, wire, acks, m, id)
      BY <1>1, <1>3, <2>1, EnqueueInOrder
    <2> QED
      BY <1>3, <1>4, <2>2
  <1>12. CASE state = "wait" /\ outbox' = stored /\ UNCHANGED <<state, netVars, sent>>
    <2>1. state' = state /\ alive' = alive /\ wire' = wire /\ acks' = acks /\ sent' = sent
      BY <1>12 DEF netVars
    <2> HIDE DEF stored, last
    <2>2. TypeOK'
      BY <1>1, <1>2, <1>3, <1>4, <1>8, <1>10, <1>12, <2>1 DEF TypeOK, Packet
    <2>3. AcksReceived'
      BY <1>2, <2>1 DEF IInv, AcksReceived
    <2> QED
      BY <1>2, <1>7, <1>9, <1>11, <1>12, <2>1, <2>2, <2>3 DEF IInv
  <1>13. CASE state = "connected" /\ Sending(m, id) /\ outbox' = marked /\ UNCHANGED acks
    <2>1. state' = state /\ alive' = alive /\ acks' = acks /\ sent' = sent \cup {m}
      BY <1>13 DEF Sending
    <2>2. /\ wire' \in Seq(Packet) /\ UpTo(wire', m)
          /\ \A k \in DOMAIN wire' : \/ wire'[k] = [msg |-> m, id |-> id]
                                     \/ \E l \in DOMAIN wire : wire'[k] = wire[l]
      <3>1. m \in Int /\ m =< m
        BY <1>3
      <3> QED
        BY <1>1, <1>3, <1>7, <1>13, <3>1, SendingCarries
    <2> DEFINE ticked == outbox_set_tick(stored, id)
    <2>3. ticked \in Seq(Item) /\ Relabels(ticked, stored)
      BY <1>1, <1>8, SetTickRelabels
    <2>4. marked \in Seq(Item) /\ Relabels(marked, ticked)
      BY <2>3, SetPendingRelabels
    <2> HIDE DEF ticked, marked, stored, last
    <2>5. Relabels(marked, stored)
      BY <2>3, <2>4, RelabelsTwice
    <2>6. UpTo(marked, m)
      BY <1>9, <2>5, RelabelsInOrder
    <2>7. ASSUME ~clash' PROVE InOrder(marked, sent \cup {m}, wire', acks)
      <3>1. last \in DOMAIN ticked /\ ticked[last].id = id /\ \A j \in DOMAIN ticked : j # last => ticked[j].id # id
        BY <1>8, <1>11, <2>3, <2>7 DEF Relabels
      <3>2. outbox_set_pending(ticked, ticked[last].id, "TRANSMITTED")[last].pending = "TRANSMITTED"
        BY <2>3, <3>1, SetPendingMarks
      <3>3. marked[last].pending # "QUEUED"
        BY <3>1, <3>2 DEF marked, ticked
      <3> QED
        BY <1>11, <2>2, <2>5, <2>7, <3>3 DEF MarkedInOrder
    <2>8. TypeOK'
      <3>1. sent' \subseteq 0..m
        BY <1>3, <1>4, <2>1
      <3> QED
        BY <1>1, <1>2, <1>3, <1>4, <1>10, <1>13, <2>1, <2>2, <2>4, <3>1 DEF TypeOK, Packet
    <2>9. AcksReceived'
      BY <1>2, <2>1 DEF IInv, AcksReceived
    <2> QED
      BY <1>2, <1>13, <2>1, <2>2, <2>6, <2>7, <2>8, <2>9 DEF IInv
  <1>14. CASE state = "connected" /\ outbox' = stored /\ Abort /\ UNCHANGED sent
    <2>1. state' = "wait" /\ alive' = FALSE /\ wire' = << >> /\ acks' = << >> /\ sent' = sent
      BY <1>14 DEF Abort
    <2>2. /\ wire' \in Seq(Packet) /\ From(wire', wire) /\ acks' \in Seq(Packet) /\ From(acks', acks)
          /\ DOMAIN acks' = {}
      BY <2>1, NoPackets
    <2> HIDE DEF stored, last
    <2>3. UpTo(wire', m)
      BY <1>7, <2>2, FromProperties
    <2>4. ~clash' => InOrder(stored, sent, wire', acks')
      BY <1>11, <2>2, FewerInOrder
    <2>5. TypeOK'
      BY <1>1, <1>2, <1>3, <1>4, <1>8, <1>10, <1>14, <2>1, <2>2 DEF TypeOK, Packet
    <2>6. AcksReceived'
      BY <2>2 DEF AcksReceived
    <2> QED
      BY <1>2, <1>9, <1>14, <2>1, <2>3, <2>4, <2>5, <2>6 DEF IInv
  <1> QED
    BY <1>12, <1>13, <1>14 DEF Publish, m, stored, marked

(* On a new connection nothing is on its way but a SUBSCRIBE, which is stored  *)
(* and marked before it is written.                                            *)
LEMMA ConnectsStep ==
  ASSUME NEW id \in Ids
  PROVE  IInv /\ Connects(id) => IInv'
  <1> SUFFICES ASSUME IInv, Connects(id) PROVE IInv'
    OBVIOUS
  <1> DEFINE kept == outbox_delete_expired(outbox)
             stored == outbox_enqueue(kept, SUBSCRIBE, id, lastQos)
             last == Len(kept) + 1
             marked == outbox_set_pending(stored, id, "TRANSMITTED")
  <1>1. /\ TypeOK /\ outbox \in Seq(Item) /\ wire \in Seq(Packet) /\ acks \in Seq(Packet)
        /\ UpTo(outbox, published) /\ UpTo(wire, published)
        /\ published \in Nat /\ Expire \in Nat /\ MaxPublish \in Nat
    BY Typed
  <1>2. /\ connects < MaxConnects /\ connects' = connects + 1
        /\ state' = "connected" /\ alive' = TRUE /\ acks' = << >>
        /\ append_message_id(id)
        /\ wire' \in {<<[msg |-> SUBSCRIBE, id |-> id]>>, << >>}
        /\ received' = received \ {SUBSCRIBE}
        /\ lastQos' = lastQos /\ resendAge' = resendAge /\ published' = published /\ sent' = sent
    BY DEF Connects
  <1>3. outbox' = marked
    BY DEF Connects, Subscribes
  <1>4. SUBSCRIBE \in 0..MaxPublish /\ SUBSCRIBE =< published /\ lastQos \in 0..1 /\ SUBSCRIBE \in Int
    BY <1>1 DEF SUBSCRIBE, TypeOK
  <1>5. /\ kept \in Seq(Item) /\ Picks(kept, outbox)
        /\ UpTo(kept, published)
        /\ InOrder(outbox, sent, wire, acks) => InOrder(kept, sent, wire, acks)
    BY <1>1, ExpiredPicks, PicksInOrder
  <1>6. /\ clash' \in BOOLEAN
        /\ ~clash' => /\ InOrder(kept, sent, wire, acks)
                      /\ \A j \in DOMAIN kept : kept[j].id # id
                      /\ \A k \in DOMAIN wire : wire[k].id # id
                      /\ \A k \in DOMAIN acks : acks[k].id # id
    <2>1. /\ clash' \in BOOLEAN
          /\ ~clash' => /\ InOrder(outbox, sent, wire, acks)
                        /\ \A j \in DOMAIN outbox : outbox[j].id # id
                        /\ \A k \in DOMAIN wire : wire[k].id # id
                        /\ \A k \in DOMAIN acks : acks[k].id # id
      BY <1>2, NewId DEF IInv
    <2>2. (\A j \in DOMAIN outbox : outbox[j].id # id) => \A j \in DOMAIN kept : kept[j].id # id
      BY <1>5 DEF Picks
    <2> QED
      BY <1>5, <2>1, <2>2
  <1> HIDE DEF kept
  <1>7. /\ stored \in Seq(Item) /\ last \in DOMAIN stored
        /\ \A j \in DOMAIN stored : j = last \/ j \in DOMAIN kept
        /\ \A j \in DOMAIN kept : stored[j] = kept[j]
        /\ stored[last].msg = SUBSCRIBE /\ stored[last].id = id
    <2>1. \A m \in 0..MaxPublish, qos \in 0..1 :
            LET list == outbox_enqueue(kept, m, id, qos) IN
            /\ list \in Seq(Item) /\ last \in DOMAIN list
            /\ \A j \in DOMAIN list : j = last \/ j \in DOMAIN kept
            /\ \A j \in DOMAIN kept : list[j] = kept[j]
            /\ list[last].msg = m /\ list[last].id = id
      <3> TAKE m \in 0..MaxPublish, qos \in 0..1
      <3>1. kept \in Seq(Item) /\ Expire \in Nat
        BY <1>1, <1>5
      <3> HIDE DEF stored, marked
      <3> QED
        BY <3>1, EnqueueProperties
    <2> QED
      BY <1>4, <2>1
  <1>8. ~clash' => /\ \A j \in DOMAIN stored : j # last => stored[j].id # id
                   /\ MarkedInOrder(stored, last, sent, wire, acks, SUBSCRIBE, id)
    <2> HIDE DEF marked
    <2> SUFFICES ASSUME ~clash'
                 PROVE  /\ \A j \in DOMAIN stored : j # last => stored[j].id # id
                        /\ MarkedInOrder(stored, last, sent, wire, acks, SUBSCRIBE, id)
      OBVIOUS
    <2>1. kept \in Seq(Item) /\ Expire \in Nat /\ SUBSCRIBE \in 0..MaxPublish /\ lastQos \in 0..1
      BY <1>1, <1>4, <1>5
    <2>2. /\ InOrder(kept, sent, wire, acks)
          /\ \A j \in DOMAIN kept : kept[j].id # id
          /\ \A k \in DOMAIN wire : wire[k].id # id
          /\ \A k \in DOMAIN acks : acks[k].id # id
      BY <1>6
    <2> QED
      BY <2>1, <2>2, EnqueueInOrder
  <1>9. UpTo(stored, published)
    BY <1>4, <1>5, <1>7 DEF UpTo
  <1> HIDE DEF stored, last
  <1>10. marked \in Seq(Item) /\ Relabels(marked, stored)
    BY <1>7, SetPendingRelabels
  <1>11. UpTo(marked, published)
    BY <1>9, <1>10, RelabelsInOrder
  <1>12. /\ wire' \in Seq(Packet) /\ UpTo(wire', published)
         /\ \A k \in DOMAIN wire' : wire'[k] = [msg |-> SUBSCRIBE, id |-> id]
    <2> DEFINE p == [msg |-> SUBSCRIBE, id |-> id]
    <2>1. p \in Packet /\ p.msg = SUBSCRIBE
      BY <1>4 DEF Packet
    <2> HIDE DEF p
    <2>2. wire' = <<p>> \/ wire' = << >>
      BY <1>2 DEF p
    <2>3. <<p>> \in Seq(Packet) /\ << >> \in Seq(Packet)
      BY <2>1
    <2>4. \A k \in DOMAIN wire' : wire'[k] = p
      BY <2>2
    <2>5. UpTo(wire', published)
      BY <1>4, <2>1, <2>4 DEF UpTo
    <2> QED
      BY <2>2, <2>3, <2>4, <2>5 DEF p
  <1>13. acks' \in Seq(Packet) /\ From(acks', acks) /\ DOMAIN acks' = {}
    BY <1>2, NoPackets
  <1>14. ASSUME ~clash' PROVE InOrder(outbox', sent', wire', acks')
    <2>1. outbox_set_pending(stored, stored[last].id, "TRANSMITTED")[last].pending = "TRANSMITTED"
      BY <1>7, <1>8, <1>14, SetPendingMarks
    <2>2. marked[last].pending # "QUEUED"
      BY <1>7, <2>1
    <2>3. InOrder(marked, sent, wire', acks)
      BY <1>8, <1>10, <1>12, <1>14, <2>2 DEF MarkedInOrder
    <2>4. From(wire', wire')
      BY NoPackets
    <2> QED
      BY <1>2, <1>3, <1>13, <2>3, <2>4, FewerInOrder
  <1> HIDE DEF marked
  <1>15. TypeOK'
    <2>1. connects \in 0..MaxConnects /\ received \subseteq 0..published
      BY <1>1 DEF TypeOK
    <2>2. connects' \in 0..MaxConnects
      BY <1>2, <2>1, OutboxAssumption
    <2>3. received' \subseteq 0..published'
      BY <1>2, <2>1
    <2> QED
      BY <1>1, <1>2, <1>3, <1>6, <1>10, <1>12, <1>13, <2>2, <2>3 DEF TypeOK, Packet
  <1>16. AcksReceived'
    BY <1>13 DEF AcksReceived
  <1> QED
    BY <1>2, <1>3, <1>11, <1>12, <1>14, <1>15, <1>16 DEF IInv

LEMMA BrokerTakesStep == IInv /\ BrokerTakes => IInv'
  <1> SUFFICES ASSUME IInv, BrokerTakes PROVE IInv'
    OBVIOUS
  <1>1. /\ TypeOK /\ outbox \in Seq(Item) /\ wire \in Seq(Packet) /\ acks \in Seq(Packet)
        /\ UpTo(outbox, published) /\ UpTo(wire, published)
        /\ published \in Nat /\ MaxPublish \in Nat
    BY Typed
  <1>2. /\ wire # << >> /\ received' = received \cup {Head(wire).msg}
        /\ acks' = Append(acks, Head(wire)) /\ wire' = Tail(wire)
        /\ state' = state /\ outbox' = outbox /\ lastQos' = lastQos /\ resendAge' = resendAge
        /\ alive' = alive /\ published' = published /\ connects' = connects /\ sent' = sent /\ clash' = clash
    BY DEF BrokerTakes
  <1> DEFINE p == Head(wire)
  <1>3. /\ wire' \in Seq(Packet) /\ From(wire', wire)
        /\ p \in Packet /\ 1 \in DOMAIN wire /\ p = wire[1]
    BY <1>1, <1>2, HeadAndTail
  <1>4. p.msg \in 0..published
    <2>1. p.msg \in 0..MaxPublish
      BY <1>3 DEF Packet
    <2>2. p.msg =< published
      BY <1>1, <1>3 DEF UpTo
    <2> QED
      BY <1>1, <2>1, <2>2
  <1> HIDE DEF p
  <1>5. /\ acks' \in Seq(Packet)
        /\ \A k \in DOMAIN acks' : acks'[k] = p \/ \E l \in DOMAIN acks : acks'[k] = acks[l]
    <2>1. acks' = Append(acks, p)
      BY <1>2 DEF p
    <2>2. /\ Append(acks, p) \in Seq(Packet)
          /\ \A k \in DOMAIN Append(acks, p) :
               Append(acks, p)[k] = p \/ \E l \in DOMAIN acks : Append(acks, p)[k] = acks[l]
      BY <1>1, <1>3, AppendPacket
    <2> QED
      BY <2>1, <2>2
  <1>6. received' = received \cup {p.msg}
    BY <1>2 DEF p
  <1>7. AcksReceived'
    BY <1>5, <1>6 DEF IInv, AcksReceived
  <1>8. UpTo(wire', published)
    BY <1>1, <1>3, FromProperties
  <1>9. ASSUME InOrder(outbox, sent, wire, acks) PROVE InOrder(outbox, sent, wire', acks')
    <2>1. NamesAgree(outbox, wire) /\ NamesAgree(outbox, acks)
      BY <1>9 DEF InOrder
    <2>2. NamesAgree(outbox, acks')
      BY <1>3, <1>5, <2>1 DEF NamesAgree
    <2>3. NamesAgree(outbox, wire')
      BY <1>3, <2>1, FromProperties
    <2> QED
      BY <1>9, <2>2, <2>3 DEF InOrder
  <1>10. TypeOK'
    BY <1>1, <1>2, <1>3, <1>4, <1>5, <1>6 DEF TypeOK, Packet
  <1> QED
    BY <1>1, <1>2, <1>7, <1>8, <1>9, <1>10 DEF IInv

LEMMA LinkDiesStep == IInv /\ LinkDies => IInv'
  <1> SUFFICES ASSUME IInv, LinkDies PROVE IInv'
    OBVIOUS
  <1>1. TypeOK /\ UpTo(outbox, published) /\ UpTo(wire, published)
    BY Typed
  <1>2. /\ alive' = FALSE /\ wire' = << >> /\ acks' = << >>
        /\ state' = state /\ outbox' = outbox /\ lastQos' = lastQos /\ resendAge' = resendAge
        /\ published' = published /\ connects' = connects /\ received' = received
        /\ sent' = sent /\ clash' = clash
    BY DEF LinkDies
  <1>3. /\ wire' \in Seq(Packet) /\ From(wire', wire) /\ acks' \in Seq(Packet) /\ From(acks', acks)
        /\ DOMAIN acks' = {}
    BY <1>2, NoPackets
  <1>4. UpTo(wire', published)
    BY <1>1, <1>3, FromProperties
  <1>5. InOrder(outbox, sent, wire, acks) => InOrder(outbox, sent, wire', acks')
    BY <1>3, FewerInOrder
  <1>6. TypeOK'
    BY <1>1, <1>2, <1>3 DEF TypeOK, Packet
  <1>7. AcksReceived'
    BY <1>3 DEF AcksReceived
  <1> QED
    BY <1>1, <1>2, <1>4, <1>5, <1>6, <1>7 DEF IInv

LEMMA TickStep == IInv /\ Tick => IInv'
  <1> SUFFICES ASSUME IInv, Tick PROVE IInv'
    OBVIOUS
  <1>1. TypeOK /\ outbox \in Seq(Item) /\ UpTo(outbox, published) /\ UpTo(wire, published) /\ Expire \in Nat
    BY Typed
  <1>2. /\ outbox' = [i \in DOMAIN outbox |-> [outbox[i] EXCEPT !.age = Older(outbox[i].age, Expire + 1)]]
        /\ resendAge' = IF resendAge = Unset THEN Unset ELSE Older(resendAge, 1)
        /\ state' = state /\ lastQos' = lastQos /\ alive' = alive /\ wire' = wire /\ acks' = acks
        /\ published' = published /\ connects' = connects /\ received' = received
        /\ sent' = sent /\ clash' = clash
    BY DEF Tick, netVars
  <1>3. Len(outbox) \in Nat /\ DOMAIN outbox = 1..Len(outbox) /\ \A i \in DOMAIN outbox : outbox[i] \in Item
    BY <1>1, BoxProperties
  <1>4. \A i \in DOMAIN outbox : [outbox[i] EXCEPT !.age = Older(outbox[i].age, Expire + 1)] \in Item
    <2> TAKE i \in DOMAIN outbox
    <2>1. outbox[i].age \in 0..(Expire + 1)
      BY <1>3 DEF Item
    <2>2. Older(outbox[i].age, Expire + 1) \in 0..(Expire + 1)
      BY <1>1, <2>1 DEF Older
    <2>3. outbox[i] \in Item
      BY <1>3
    <2> QED
      BY <2>2, <2>3 DEF Item
  <1>5. outbox' \in Seq(Item)
    <2>1. outbox' \in [1..Len(outbox) -> Item]
      BY <1>2, <1>3, <1>4
    <2> QED
      BY <1>3, <2>1, SeqDef
  <1>6. Relabels(outbox', outbox)
    <2>1. DOMAIN outbox' = DOMAIN outbox
      BY <1>2
    <2>2. ASSUME NEW j \in DOMAIN outbox
          PROVE  /\ outbox'[j].msg = outbox[j].msg /\ outbox'[j].id = outbox[j].id
                 /\ outbox'[j].qos = outbox[j].qos /\ outbox'[j].pending = outbox[j].pending
      BY <1>2, <1>3 DEF Item
    <2> QED
      BY <2>1, <2>2 DEF Relabels
  <1>7. /\ UpTo(outbox', published)
        /\ InOrder(outbox, sent, wire, acks) => InOrder(outbox', sent, wire, acks)
    BY <1>1, <1>6, RelabelsInOrder
  <1>8. resendAge' \in {Unset, 0, 1}
    BY <1>1, <1>2 DEF TypeOK, Older, Unset
  <1>9. TypeOK'
    BY <1>1, <1>2, <1>5, <1>8 DEF TypeOK
  <1>10. AcksReceived'
    BY <1>2 DEF IInv, AcksReceived
  <1> QED
    BY <1>1, <1>2, <1>7, <1>9, <1>10 DEF IInv

LEMMA StepIInv == IInv /\ [Next]_vars => IInv'
  <1> SUFFICES ASSUME IInv, [Next]_vars PROVE IInv'
    OBVIOUS
  <1>1. CASE UNCHANGED vars
    BY <1>1 DEF vars, netVars, IInv, TypeOK, AcksReceived
  <1>2. CASE \E id \in Ids : Publish(id)
    BY <1>2, PublishStep
  <1>3. CASE TaskPass
    BY <1>3, PassStep, PassLosesStep, PassWaitsStep, ConnectsStep DEF TaskPass
  <1>4. CASE BrokerTakes \/ LinkDies \/ Tick
    BY <1>4, BrokerTakesStep, LinkDiesStep, TickStep
  <1> QED
    BY <1>1, <1>2, <1>3, <1>4 DEF Next

(* The inductive invariant, of every behaviour and for any constants.          *)
THEOREM Invariance == Spec => []IInv
  <1>1. Init => IInv
    BY InitIInv
  <1>2. IInv /\ [Next]_vars => IInv'
    BY StepIInv
  <1> QED
    BY <1>1, <1>2, PTL DEF Spec

-----------------------------------------------------------------------------
(* The state always has its types (TypeOK).                                    *)
THEOREM TypeCorrect == Spec => []TypeOK
  <1>1. IInv => TypeOK
    BY DEF IInv
  <1> QED
    BY <1>1, Invariance, PTL

(* QueuedIsUnsent: what the task takes for not yet transmitted, and sends in   *)
(* its next pass, was never written, for any number of messages, connections   *)
(* and ids, unless an id was drawn that something else still went by.          *)
THEOREM UnsentIsUnwritten == Spec => []QueuedIsUnsent
  <1>1. IInv => QueuedIsUnsent
    BY DEF IInv, QueuedIsUnsent, InOrder, Unwritten
  <1> QED
    BY <1>1, Invariance, PTL

-----------------------------------------------------------------------------
(* What leaves the outbox.                                                     *)

(* A message stays if an item of it does.                                      *)
LEMMA StaysInBox ==
  ASSUME NEW m, NEW box, Relabels(outbox', box), NEW k \in DOMAIN box, box[k].msg = m
  PROVE  InBox(m)'
  BY DEF InBox, Relabels

(* What is stored behind the others leaves them where they are.                *)
LEMMA StaysWhenStored ==
  ASSUME Expire \in Nat, NEW box \in Seq(Item), NEW s \in 0..MaxPublish, NEW id \in Ids, NEW qos \in 0..1,
         outbox' \in Seq(Item), Relabels(outbox', outbox_enqueue(box, s, id, qos)),
         NEW m, NEW k \in DOMAIN box, box[k].msg = m
  PROVE  InBox(m)'
  <1> DEFINE stored == outbox_enqueue(box, s, id, qos)
  <1>1. DOMAIN box \subseteq DOMAIN stored /\ \A j \in DOMAIN box : stored[j] = box[j]
    BY EnqueueProperties
  <1> HIDE DEF stored
  <1>2. k \in DOMAIN stored /\ stored[k].msg = m
    BY <1>1
  <1> QED
    BY <1>2, StaysInBox DEF stored

LEMMA GoneStep ==
  ASSUME IInv, Next, ~clash', NEW m \in 0..published, InBox(m), ~InBox(m)', ~(AgeOf(m) > Expire)
  PROVE  m \in received
  <1> DEFINE places == {i \in DOMAIN outbox : outbox[i].msg = m}
             first == FirstOf(places)
             kept == outbox_delete_expired(outbox)
  <1>1. /\ TypeOK /\ outbox \in Seq(Item) /\ wire \in Seq(Packet) /\ acks \in Seq(Packet)
        /\ UpTo(outbox, published) /\ UpTo(wire, published)
        /\ published \in Nat /\ Expire \in Nat /\ MaxPublish \in Nat
    BY Typed
  <1>2. first \in DOMAIN outbox /\ outbox[first].msg = m
    <2>1. places # {} /\ places \subseteq Nat \ {0}
      BY <1>1, BoxProperties DEF InBox
    <2>2. first \in places
      <3> HIDE DEF places
      <3> QED
        BY <2>1, FirstOfProperties
    <2> QED
      BY <2>2
  <1>3. outbox[first].age =< Expire
    <2>1. outbox[first].age = AgeOf(m)
      BY DEF AgeOf
    <2>2. outbox[first] \in Item
      BY <1>1, <1>2, BoxProperties
    <2>3. outbox[first].age \in 0..(Expire + 1)
      BY <2>2 DEF Item
    <2> QED
      BY <1>1, <2>1, <2>3
  <1> HIDE DEF first, places
  <1>4. /\ kept \in Seq(Item) /\ UpTo(kept, published)
        /\ InOrder(outbox, sent, wire, acks) => InOrder(kept, sent, wire, acks)
        /\ \E k \in DOMAIN kept : kept[k] = outbox[first]
    BY <1>1, <1>2, <1>3, ExpiredPicks, PicksInOrder
  <1>5. PICK k \in DOMAIN kept : kept[k].msg = m
    BY <1>2, <1>4
  <1>6. Relabels(outbox, outbox) /\ Relabels(kept, kept)
    BY DEF Relabels
  <1>7. CASE Pass
    <2> HIDE DEF kept
    <2>1. clash' = clash /\ state = "connected"
      BY <1>7 DEF Pass
    <2>2. ASSUME NEW box \in Seq(Item), UpTo(box, published), Resends(box), NEW l \in DOMAIN box, box[l].msg = m
          PROVE  FALSE
      <3>1. Relabels(outbox', box)
        BY <1>1, <2>1, <2>2, ResendsStep DEF TypedWire
      <3> QED
        BY <2>2, <3>1, StaysInBox
    <2>3. CASE Resends(kept)
      BY <1>4, <1>5, <2>2, <2>3
    <2>4. CASE acks # << >> /\ Resends(outbox_delete(kept, Head(acks)))
      <3> DEFINE left == outbox_delete(kept, Head(acks))
      <3>1. left \in Seq(Item) /\ Picks(left, kept)
        BY <1>4, DeletePicks
      <3>2. (\E l \in DOMAIN left : left[l] = kept[k]) \/ kept[k].id = Head(acks).id
        BY <1>4, <1>5, DeletePicks
      <3> HIDE DEF left
      <3>3. UpTo(left, published)
        BY <1>4, <3>1, PicksInOrder
      <3>4. Resends(left)
        BY <2>4 DEF left
      <3>5. kept[k].id = Head(acks).id
        BY <1>5, <2>2, <3>1, <3>2, <3>3, <3>4
      <3>6. 1 \in DOMAIN acks /\ Head(acks) = acks[1]
        BY <1>1, <2>4, HeadAndTail
      <3>7. NamesAgree(kept, acks)
        BY <1>4, <2>1 DEF IInv, InOrder
      <3>8. acks[1].msg = m
        BY <1>5, <3>5, <3>6, <3>7 DEF NamesAgree
      <3> QED
        BY <3>6, <3>8 DEF IInv, AcksReceived
    <2> QED
      BY <1>7, <2>3, <2>4 DEF Pass, kept
  <1>8. CASE PassLoses \/ PassWaits
    <2>1. outbox' = kept
      BY <1>8 DEF PassLoses, PassWaits
    <2> HIDE DEF kept
    <2> QED
      BY <1>5, <1>6, <2>1, StaysInBox
  <1>9. ASSUME NEW id \in Ids, Connects(id) PROVE FALSE
    <2> DEFINE stored == outbox_enqueue(kept, SUBSCRIBE, id, lastQos)
    <2>1. outbox' = outbox_set_pending(stored, id, "TRANSMITTED")
      BY <1>9 DEF Connects, Subscribes
    <2>2. SUBSCRIBE \in 0..MaxPublish /\ lastQos \in 0..1
      BY <1>1 DEF SUBSCRIBE, TypeOK
    <2> HIDE DEF kept
    <2>3. stored \in Seq(Item)
      BY <1>1, <1>4, <2>2, EnqueueProperties
    <2>4. outbox' \in Seq(Item) /\ Relabels(outbox', stored)
      <3> HIDE DEF stored
      <3> QED
        BY <2>1, <2>3, SetPendingRelabels
    <2> QED
      BY <1>1, <1>4, <1>5, <2>2, <2>4, StaysWhenStored
  <1>10. ASSUME NEW id \in Ids, Publish(id) PROVE FALSE
    <2> DEFINE new == published + 1
               stored == outbox_enqueue(outbox, new, id, 1)
               ticked == outbox_set_tick(stored, id)
    <2>1. \/ outbox' = stored
          \/ outbox' = outbox_set_pending(ticked, id, "TRANSMITTED")
      BY <1>10 DEF Publish
    <2>2. new \in 0..MaxPublish /\ 1 \in 0..1
      BY <1>1, <1>10 DEF Publish
    <2>3. stored \in Seq(Item)
      <3>1. \A qos \in 0..1 : outbox_enqueue(outbox, new, id, qos) \in Seq(Item)
        <4> HIDE DEF new
        <4> QED
          BY <1>1, <2>2, EnqueueProperties
      <3> QED
        BY <2>2, <3>1
    <2>4. outbox' \in Seq(Item) /\ Relabels(outbox', stored)
      <3> HIDE DEF stored
      <3>1. Relabels(stored, stored)
        BY DEF Relabels
      <3>2. ticked \in Seq(Item) /\ Relabels(ticked, stored)
        BY <1>1, <2>3, SetTickRelabels
      <3> HIDE DEF ticked
      <3>3. CASE outbox' = outbox_set_pending(ticked, id, "TRANSMITTED")
        <4>1. outbox' \in Seq(Item) /\ Relabels(outbox', ticked)
          BY <3>2, <3>3, SetPendingRelabels
        <4> QED
          BY <3>2, <4>1, RelabelsTwice
      <3> QED
        BY <2>1, <2>3, <3>1, <3>3
    <2>5. \A qos \in 0..1 : Relabels(outbox', outbox_enqueue(outbox, new, id, qos)) => InBox(m)'
      <3> HIDE DEF new, stored
      <3> QED
        BY <1>1, <1>2, <2>2, <2>4, StaysWhenStored
    <2> QED
      BY <2>2, <2>4, <2>5
  <1>11. CASE BrokerTakes \/ LinkDies
    <2>1. outbox' = outbox
      BY <1>11 DEF BrokerTakes, LinkDies
    <2> QED
      BY <1>2, <1>6, <2>1, StaysInBox
  <1>12. CASE Tick
    <2>1. outbox' = [i \in DOMAIN outbox |-> [outbox[i] EXCEPT !.age = Older(outbox[i].age, Expire + 1)]]
      BY <1>12 DEF Tick
    <2>2. outbox[first] \in Item
      BY <1>1, <1>2, BoxProperties
    <2>3. first \in DOMAIN outbox' /\ outbox'[first].msg = m
      BY <1>2, <2>1, <2>2 DEF Item
    <2> QED
      BY <2>3 DEF InBox
  <1> QED
    BY <1>7, <1>8, <1>9, <1>10, <1>11, <1>12 DEF Next, TaskPass

(* GoneOnlyIfDone: for any number of messages, connections and ids, a message  *)
(* leaves the outbox (outbox_delete, outbox_delete_expired) only if the broker *)
(* has got it or it is older than 30 s, whatever becomes of the connection,    *)
(* unless an id was drawn that something else still went by.                   *)
THEOREM NothingGoneEarly == Spec => GoneOnlyIfDone
  <1>1. IInv /\ [Next]_vars =>
          [\A m \in 0..published :
             InBox(m) /\ ~InBox(m)' => m \in received \/ AgeOf(m) > Expire \/ clash']_vars
    BY GoneStep
  <1> QED
    BY <1>1, Invariance, PTL DEF Spec, GoneOnlyIfDone
=============================================================================
