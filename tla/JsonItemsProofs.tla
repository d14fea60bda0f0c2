-------------------------- MODULE JsonItemsProofs --------------------------
(***************************************************************************)
(* Proofs about JsonItems, for any finite memory and any names: whatever   *)
(* the order of the calls, nothing is lost, and the pointers implement the *)
(* lists of JsonLists.  The pointers are compared with a function from     *)
(* items to lists, and the lists with a forest whose roots the caller      *)
(* holds: every function is a step of the forest, and changes the pointers *)
(* as that step says.                                                      *)
(***************************************************************************)
EXTENDS JsonItems, FiniteSetTheorems, WellFoundedInduction, SequenceTheorems, TLAPS

Heaps ==
  [next : [Items -> Items \cup {NULL}], prev : [Items -> Items \cup {NULL}],
   child : [Items -> Items \cup {NULL}]]

(* No item is in two places of the lists.                                      *)
Once(k) ==
  \A a, b \in Items : \A n \in DOMAIN k[a], m \in DOMAIN k[b] :
    k[a][n] = k[b][m] => a = b /\ n = m

(* The lists k of the items of L, of which those in H are in no list.  Nothing *)
(* but what is in H and in what is in it exists: there is no circle.           *)
Forest(k, L, H) ==
  /\ k \in [Items -> Seq(Items)] /\ L \subseteq Items /\ H \subseteq L
  /\ \A a \in Items : ToSet(k[a]) \subseteq L \ H /\ (a \notin L => k[a] = << >>)
  /\ Once(k)
  /\ \A S \in SUBSET Items : H \subseteq S /\ Lists!Closed(k, S) => L \subseteq S

(* The pointers draw s as the list of a.                                       *)
Row(h, a, s) ==
  /\ h.child[a] = IF Len(s) = 0 THEN NULL ELSE s[1]
  /\ \A n \in 1..Len(s) : h.next[s[n]] = Behind(s, n) /\ h.prev[s[n]] = Before(s, n)

(* The pointers draw all lists, and those of the other items point nowhere.    *)
Points(h, k) == \A a \in Items : Row(h, a, k[a])

Unlinked(h, L, H) == \A i \in Items \ (L \ H) : h.next[i] = NULL /\ h.prev[i] = NULL

Draws(h, k, L, H) == h \in Heaps /\ Forest(k, L, H) /\ Points(h, k) /\ Unlinked(h, L, H)

(* The inductive invariant.                                                    *)
IInv == Draws(heap, Kids, live, held)

-----------------------------------------------------------------------------
(* Sequences. *)

LEMMA InSeq ==
  ASSUME NEW S, NEW s \in Seq(S)
  PROVE  /\ Len(s) \in Nat /\ DOMAIN s = 1..Len(s) /\ ToSet(s) \subseteq S
         /\ \A n \in DOMAIN s : s[n] \in S /\ s[n] \in ToSet(s) /\ n \in Nat /\ n # 0 /\ n =< Len(s)
         /\ \A x \in ToSet(s) : \E n \in DOMAIN s : s[n] = x
         /\ s = << >> <=> Len(s) = 0
  BY LenProperties, ElementOfSeq, EmptySeq DEF ToSet

(* t is s with e at place n, or without what is there.                         *)
Inserted(t, s, n, e) ==
  /\ Len(t) = Len(s) + 1
  /\ \A m \in 1..(Len(s) + 1) : t[m] = IF m < n THEN s[m] ELSE IF m = n THEN e ELSE s[m - 1]
Removed(t, s, n) ==
  /\ Len(t) = Len(s) - 1
  /\ \A m \in 1..(Len(s) - 1) : t[m] = IF m < n THEN s[m] ELSE s[m + 1]

LEMMA Inserting ==
  ASSUME NEW S, NEW s \in Seq(S), NEW n \in 1..(Len(s) + 1), NEW e \in S
  PROVE  InsertAt(s, n, e) \in Seq(S) /\ Inserted(InsertAt(s, n, e), s, n, e)
  <1> DEFINE p == SubSeq(s, 1, n - 1)
             q == SubSeq(s, n, Len(s))
  <1>0. Len(s) \in Nat /\ n \in Nat /\ n >= 1 /\ n =< Len(s) + 1
    BY LenProperties
  <1>1. /\ p \in Seq(S) /\ Len(p) = n - 1
        /\ \A i \in 1..(n - 1) : p[i] = s[i]
    <2>1. \A i \in 1..(n - 1) : s[i] \in S
      BY <1>0, ElementOfSeq
    <2>2. /\ p \in Seq(S)
          /\ Len(p) = IF 1 =< n - 1 THEN (n - 1) - 1 + 1 ELSE 0
          /\ \A i \in 1..((n - 1) - 1 + 1) : p[i] = s[1 + i - 1]
      BY <1>0, <2>1, SubSeqProperties
    <2> QED
      BY <1>0, <2>2
  <1>2. /\ q \in Seq(S) /\ Len(q) = Len(s) - n + 1
        /\ \A i \in 1..(Len(s) - n + 1) : q[i] = s[n + i - 1]
    <2>1. \A i \in n..Len(s) : s[i] \in S
      BY <1>0, ElementOfSeq
    <2>2. /\ q \in Seq(S)
          /\ Len(q) = IF n =< Len(s) THEN Len(s) - n + 1 ELSE 0
          /\ \A i \in 1..(Len(s) - n + 1) : q[i] = s[n + i - 1]
      BY <1>0, <2>1, SubSeqProperties
    <2> QED
      BY <1>0, <2>2
  <1>3. <<e>> \in Seq(S) /\ Len(<<e>>) = 1 /\ <<e>>[1] = e
    OBVIOUS
  <1> HIDE DEF p, q
  <1> DEFINE r == p \o <<e>>
  <1>4. /\ r \in Seq(S) /\ Len(r) = n
        /\ \A i \in 1..n : r[i] = IF i < n THEN s[i] ELSE e
    <2>1. /\ r \in Seq(S) /\ Len(r) = Len(p) + Len(<<e>>)
          /\ \A i \in 1..(Len(p) + Len(<<e>>)) :
               r[i] = IF i <= Len(p) THEN p[i] ELSE <<e>>[i - Len(p)]
      BY <1>1, <1>3, ConcatProperties
    <2> QED
      BY <1>0, <1>1, <1>3, <2>1
  <1>7. InsertAt(s, n, e) = r \o q
    BY DEF InsertAt, p, q
  <1> HIDE DEF r
  <1>5. /\ r \o q \in Seq(S) /\ Len(r \o q) = Len(r) + Len(q)
        /\ \A i \in 1..(Len(r) + Len(q)) : (r \o q)[i] = IF i <= Len(r) THEN r[i] ELSE q[i - Len(r)]
    BY <1>2, <1>4, ConcatProperties
  <1>6. /\ Len(r) + Len(q) = Len(s) + 1
        /\ \A i \in 1..(Len(s) + 1) : (r \o q)[i] = IF i =< n THEN r[i] ELSE q[i - n]
    BY <1>0, <1>2, <1>4, <1>5
  <1>8. ASSUME NEW m \in 1..(Len(s) + 1)
        PROVE (r \o q)[m] = IF m < n THEN s[m] ELSE IF m = n THEN e ELSE s[m - 1]
    <2>1. CASE m =< n
      BY <1>0, <1>4, <1>6, <2>1
    <2>2. CASE m > n
      <3>1. m - n \in 1..(Len(s) - n + 1) /\ n + (m - n) - 1 = m - 1
        BY <1>0, <2>2
      <3>2. (r \o q)[m] = q[m - n]
        BY <1>0, <1>6, <2>2
      <3>3. q[m - n] = s[m - 1]
        BY <1>2, <3>1
      <3> QED
        BY <1>0, <2>2, <3>2, <3>3
    <2>3. m =< n \/ m > n
      BY <1>0
    <2> QED
      BY <2>1, <2>2, <2>3
  <1> QED
    BY <1>5, <1>6, <1>7, <1>8 DEF Inserted

LEMMA Removing ==
  ASSUME NEW S, NEW s \in Seq(S), NEW n \in 1..Len(s)
  PROVE  RemoveAt(s, n) \in Seq(S) /\ Removed(RemoveAt(s, n), s, n)
  <1> DEFINE p == SubSeq(s, 1, n - 1)
             q == SubSeq(s, n + 1, Len(s))
  <1>0. Len(s) \in Nat /\ n \in Nat /\ n >= 1 /\ n =< Len(s)
    BY LenProperties
  <1>1. /\ p \in Seq(S) /\ Len(p) = n - 1
        /\ \A i \in 1..(n - 1) : p[i] = s[i]
    <2>1. \A i \in 1..(n - 1) : s[i] \in S
      BY <1>0, ElementOfSeq
    <2>2. /\ p \in Seq(S)
          /\ Len(p) = IF 1 =< n - 1 THEN (n - 1) - 1 + 1 ELSE 0
          /\ \A i \in 1..((n - 1) - 1 + 1) : p[i] = s[1 + i - 1]
      BY <1>0, <2>1, SubSeqProperties
    <2> QED
      BY <1>0, <2>2
  <1>2. /\ q \in Seq(S) /\ Len(q) = Len(s) - n
        /\ \A i \in 1..(Len(s) - n) : q[i] = s[n + i]
    <2>1. \A i \in (n + 1)..Len(s) : s[i] \in S
      BY <1>0, ElementOfSeq
    <2>2. /\ q \in Seq(S)
          /\ Len(q) = IF n + 1 =< Len(s) THEN Len(s) - (n + 1) + 1 ELSE 0
          /\ \A i \in 1..(Len(s) - (n + 1) + 1) : q[i] = s[(n + 1) + i - 1]
      BY <1>0, <2>1, SubSeqProperties
    <2> QED
      BY <1>0, <2>2
  <1> HIDE DEF p, q
  <1>3. /\ p \o q \in Seq(S) /\ Len(p \o q) = Len(s) - 1
        /\ \A i \in 1..(Len(s) - 1) : (p \o q)[i] = IF i =< n - 1 THEN p[i] ELSE q[i - (n - 1)]
    <2>1. /\ p \o q \in Seq(S) /\ Len(p \o q) = Len(p) + Len(q)
          /\ \A i \in 1..(Len(p) + Len(q)) : (p \o q)[i] = IF i <= Len(p) THEN p[i] ELSE q[i - Len(p)]
      BY <1>1, <1>2, ConcatProperties
    <2>2. Len(p) = n - 1 /\ Len(p) + Len(q) = Len(s) - 1
      BY <1>0, <1>1, <1>2
    <2> QED
      BY <2>1, <2>2
  <1>4. RemoveAt(s, n) = p \o q
    BY DEF RemoveAt, p, q
  <1>5. ASSUME NEW m \in 1..(Len(s) - 1)
        PROVE RemoveAt(s, n)[m] = IF m < n THEN s[m] ELSE s[m + 1]
    <2>1. CASE m < n
      BY <1>0, <1>1, <1>3, <1>4, <2>1
    <2>2. CASE m >= n
      <3>1. m - (n - 1) \in 1..(Len(s) - n) /\ n + (m - (n - 1)) = m + 1
        BY <1>0, <2>2
      <3> QED
        BY <1>0, <1>2, <1>3, <1>4, <2>2, <3>1
    <2> QED
      BY <1>0, <2>1, <2>2
  <1> QED
    BY <1>3, <1>4, <1>5 DEF Removed

LEMMA Appending ==
  ASSUME NEW S, NEW s \in Seq(S), NEW e \in S
  PROVE  Append(s, e) = InsertAt(s, Len(s) + 1, e)
  <1>1. Len(s) \in Nat /\ Len(s) + 1 \in 1..(Len(s) + 1)
    BY LenProperties
  <1>2. /\ InsertAt(s, Len(s) + 1, e) \in Seq(S)
        /\ Inserted(InsertAt(s, Len(s) + 1, e), s, Len(s) + 1, e)
    BY <1>1, Inserting
  <1>3. /\ Append(s, e) \in Seq(S) /\ Len(Append(s, e)) = Len(s) + 1
        /\ \A m \in 1..(Len(s) + 1) : Append(s, e)[m] = IF m = Len(s) + 1 THEN e ELSE s[m]
    BY <1>1, LenProperties
  <1>4. \A m \in 1..(Len(s) + 1) : Append(s, e)[m] = InsertAt(s, Len(s) + 1, e)[m]
    BY <1>1, <1>2, <1>3 DEF Inserted
  <1>5. Len(Append(s, e)) = Len(InsertAt(s, Len(s) + 1, e))
    BY <1>2, <1>3 DEF Inserted
  <1> QED
    BY <1>2, <1>3, <1>4, <1>5, SeqEqual

-----------------------------------------------------------------------------
(* What an item owns.                                                          *)

LEMMA ClosedIs ==
  ASSUME NEW k, NEW S
  PROVE  Lists!Closed(k, S) <=> \A j \in S : \A x \in ToSet(k[j]) : x \in S
  BY DEF Lists!Closed, Lists!ToSet, ToSet

(* Within is the least closed set with the item in it.                         *)
LEMMA WithinIs ==
  ASSUME NEW k \in [Items -> Seq(Items)], NEW i \in Items
  PROVE  /\ Lists!Within(k, i) \subseteq Items /\ i \in Lists!Within(k, i)
         /\ Lists!Closed(k, Lists!Within(k, i))
         /\ \A S \in SUBSET Items : i \in S /\ Lists!Closed(k, S) => Lists!Within(k, i) \subseteq S
  <1> DEFINE W == Lists!Within(k, i)
  <1>1. \A j \in Items : ToSet(k[j]) \subseteq Items
    BY InSeq
  <1>2. \A j : j \in W <=> j \in Items /\ \A S \in SUBSET Items :
                                            i \in S /\ Lists!Closed(k, S) => j \in S
    BY DEF Lists!Within
  <1> HIDE DEF W
  <1>3. W \subseteq Items /\ i \in W
    BY <1>2
  <1>4. \A S \in SUBSET Items : i \in S /\ Lists!Closed(k, S) => W \subseteq S
    BY <1>2
  <1>5. ASSUME NEW j \in W, NEW x \in ToSet(k[j]) PROVE x \in W
    <2>1. x \in Items
      BY <1>1, <1>3
    <2>2. ASSUME NEW S \in SUBSET Items, i \in S, Lists!Closed(k, S) PROVE x \in S
      <3>1. j \in S
        BY <1>2, <2>2
      <3> QED
        BY <2>2, <3>1, ClosedIs
    <2> QED
      BY <1>2, <2>1, <2>2
  <1>6. Lists!Closed(k, W)
    BY <1>5, ClosedIs
  <1> QED
    BY <1>3, <1>4, <1>6 DEF W

(* Lists that agree on what is in the item have the same in it.                *)
LEMMA WithinSame ==
  ASSUME NEW k \in [Items -> Seq(Items)], NEW l \in [Items -> Seq(Items)], NEW i \in Items,
         \A j \in Lists!Within(k, i) : l[j] = k[j]
  PROVE  Lists!Within(l, i) = Lists!Within(k, i)
  <1> DEFINE V == Lists!Within(k, i)
             W == Lists!Within(l, i)
  <1>1. /\ V \subseteq Items /\ i \in V /\ Lists!Closed(k, V)
        /\ \A S \in SUBSET Items : i \in S /\ Lists!Closed(k, S) => V \subseteq S
    BY WithinIs
  <1>2. /\ W \subseteq Items /\ i \in W /\ Lists!Closed(l, W)
        /\ \A S \in SUBSET Items : i \in S /\ Lists!Closed(l, S) => W \subseteq S
    BY WithinIs
  <1> HIDE DEF V, W
  <1>3. \A j \in V : l[j] = k[j]
    BY DEF V
  <1>4. W \subseteq V
    <2>1. Lists!Closed(l, V)
      BY <1>1, <1>3 DEF Lists!Closed
    <2> QED
      BY <1>1, <1>2, <2>1
  <1>5. Lists!Closed(k, W)
    BY <1>2, <1>3, <1>4 DEF Lists!Closed
  <1>6. V \subseteq W
    BY <1>1, <1>2, <1>5
  <1> QED
    BY <1>4, <1>6 DEF V, W

(* An item in a list is in no other list and not held; the others are held.    *)
LEMMA InForest ==
  ASSUME NEW k, NEW L, NEW H, Forest(k, L, H)
  PROVE  /\ k \in [Items -> Seq(Items)] /\ L \subseteq Items /\ H \subseteq L
         /\ \A a \in Items : \A x \in ToSet(k[a]) : a \in L /\ x \in L /\ x \notin H
         /\ \A a, b \in Items : \A x \in ToSet(k[a]) : x \in ToSet(k[b]) => a = b
         /\ \A x \in L \ H : \E a \in L : x \in ToSet(k[a])
         /\ Lists!Closed(k, L)
         /\ \A S \in SUBSET Items : H \subseteq S /\ Lists!Closed(k, S) => L \subseteq S
  <1>1. /\ k \in [Items -> Seq(Items)] /\ L \subseteq Items /\ H \subseteq L
        /\ \A a \in Items : ToSet(k[a]) \subseteq L \ H /\ (a \notin L => k[a] = << >>)
        /\ \A S \in SUBSET Items : H \subseteq S /\ Lists!Closed(k, S) => L \subseteq S
    BY DEF Forest
  <1>2. \A a \in Items : \A x \in ToSet(k[a]) : a \in L /\ x \in L /\ x \notin H
    BY <1>1 DEF ToSet
  <1>3. \A a, b \in Items : \A x \in ToSet(k[a]) : x \in ToSet(k[b]) => a = b
    BY DEF Forest, Once, ToSet
  <1>4. Lists!Closed(k, L)
    BY <1>1, <1>2, ClosedIs
  <1>5. ASSUME NEW x \in L \ H PROVE \E a \in L : x \in ToSet(k[a])
    <2> DEFINE S == H \cup {y \in L : \E a \in L : y \in ToSet(k[a])}
    <2>1. S \in SUBSET Items /\ H \subseteq S /\ S \subseteq L
      BY <1>1
    <2>2. Lists!Closed(k, S)
      <3>1. \A j \in S : \A y \in ToSet(k[j]) : y \in S
        BY <1>1, <1>2, <2>1
      <3> QED
        BY <3>1, ClosedIs
    <2>3. L \subseteq S
      BY <1>1, <2>1, <2>2
    <2> QED
      BY <2>3
  <1> QED
    BY <1>1, <1>2, <1>3, <1>4, <1>5

(* All that is in an item but the item itself is in a list of one of them.     *)
LEMMA OwnerWithin ==
  ASSUME NEW k \in [Items -> Seq(Items)], NEW i \in Items, NEW x \in Lists!Within(k, i), x # i
  PROVE  \E o \in Lists!Within(k, i) : x \in ToSet(k[o])
  <1> DEFINE W == Lists!Within(k, i)
             S == {y \in W : y = i \/ \E o \in W : y \in ToSet(k[o])}
  <1>1. /\ W \subseteq Items /\ i \in W /\ Lists!Closed(k, W)
        /\ \A T \in SUBSET Items : i \in T /\ Lists!Closed(k, T) => W \subseteq T
    BY WithinIs
  <1>2. x \in W
    OBVIOUS
  <1> HIDE DEF W
  <1>3. S \in SUBSET Items /\ i \in S
    BY <1>1
  <1>4. Lists!Closed(k, S)
    <2>1. \A j \in W : \A y \in ToSet(k[j]) : y \in W
      BY <1>1, ClosedIs
    <2>2. \A j \in S : \A y \in ToSet(k[j]) : y \in S
      BY <2>1
    <2> QED
      BY <2>2, ClosedIs
  <1>5. W \subseteq S
    BY <1>1, <1>3, <1>4
  <1> QED
    BY <1>2, <1>5 DEF W

LEMMA WithinLive ==
  ASSUME NEW k, NEW L, NEW H, Forest(k, L, H), NEW i \in L
  PROVE  Lists!Within(k, i) \subseteq L
  BY InForest, WithinIs

(* A held item is in nothing but itself.                                       *)
LEMMA HeldWithin ==
  ASSUME NEW k, NEW L, NEW H, Forest(k, L, H), NEW i \in Items, NEW x \in H,
         x \in Lists!Within(k, i)
  PROVE  x = i
  BY InForest, WithinIs, OwnerWithin

(* No list is in an item of it.                                                *)
LEMMA NoCircle ==
  ASSUME NEW k, NEW L, NEW H, Forest(k, L, H), NEW a \in Items, NEW x \in ToSet(k[a])
  PROVE  a \notin Lists!Within(k, x)
  <1> DEFINE W == Lists!Within(k, x)
             S == L \ W
  <1>1. /\ k \in [Items -> Seq(Items)] /\ L \subseteq Items /\ H \subseteq L
        /\ \A b \in Items : \A y \in ToSet(k[b]) : b \in L /\ y \in L /\ y \notin H
        /\ \A b, c \in Items : \A y \in ToSet(k[b]) : y \in ToSet(k[c]) => b = c
        /\ \A T \in SUBSET Items : H \subseteq T /\ Lists!Closed(k, T) => L \subseteq T
    <2>1. /\ k \in [Items -> Seq(Items)] /\ L \subseteq Items /\ H \subseteq L
          /\ \A b \in Items : \A y \in ToSet(k[b]) : b \in L /\ y \in L /\ y \notin H
          /\ \A b, c \in Items : \A y \in ToSet(k[b]) : y \in ToSet(k[c]) => b = c
      BY InForest
    <2>2. \A T \in SUBSET Items : H \subseteq T /\ Lists!Closed(k, T) => L \subseteq T
      BY DEF Forest
    <2> QED
      BY <2>1, <2>2
  <1>2. x \in L /\ x \notin H /\ x \in Items
    BY <1>1
  <1>3. W \subseteq Items /\ x \in W
    BY <1>1, <1>2, WithinIs
  <1>4. \A y \in W : y # x => \E o \in W : y \in ToSet(k[o])
    BY <1>1, <1>2, OwnerWithin
  <1>5. SUFFICES ASSUME a \in W PROVE FALSE
    OBVIOUS
  <1> HIDE DEF W
  <1>6. H \subseteq S
    BY <1>1, <1>2, <1>3, <1>4
  <1>7. ASSUME NEW j \in S, NEW y \in ToSet(k[j]) PROVE y \in S
    <2>1. j \in Items /\ j \notin W /\ y \in L
      BY <1>1
    <2>2. SUFFICES ASSUME y \in W PROVE FALSE
      BY <2>1
    <2>3. CASE y = x
      BY <1>1, <1>5, <2>1, <2>3
    <2>4. CASE y # x
      BY <1>1, <1>3, <1>4, <2>1, <2>2, <2>4
    <2> QED
      BY <2>3, <2>4
  <1>8. Lists!Closed(k, S)
    <2>1. \A j \in S : \A y \in ToSet(k[j]) : y \in S
      BY <1>7
    <2> QED
      BY <2>1, ClosedIs
  <1>9. L \subseteq S
    BY <1>1, <1>6, <1>8
  <1> QED
    BY <1>2, <1>3, <1>9

-----------------------------------------------------------------------------
(* The forest after each step. *)

LEMMA KidsAre ==
  ASSUME NEW k \in [Items -> Seq(Items)], NEW a \in Items
  PROVE  /\ k[a] \in Seq(Items) /\ Len(k[a]) \in Nat /\ DOMAIN k[a] = 1..Len(k[a])
         /\ \A n \in DOMAIN k[a] :
              k[a][n] \in Items /\ k[a][n] \in ToSet(k[a]) /\ n \in Nat /\ 1 =< n /\ n =< Len(k[a])
         /\ \A x \in ToSet(k[a]) : x \in Items /\ \E n \in DOMAIN k[a] : k[a][n] = x
         /\ k[a] = << >> <=> Len(k[a]) = 0
  <1>1. k[a] \in Seq(Items)
    OBVIOUS
  <1> QED
    BY <1>1, InSeq

LEMMA OnceAt ==
  ASSUME NEW k, Once(k), NEW a \in Items, NEW b \in Items,
         NEW n \in DOMAIN k[a], NEW m \in DOMAIN k[b], k[a][n] = k[b][m]
  PROVE  a = b /\ n = m
  BY DEF Once

(* i put into the list of a as its n-th item.                                  *)
With(k, a, n, i) == [k EXCEPT ![a] = InsertAt(@, n, i)]

IsWith(l, k, a, n, i) ==
  /\ \A b \in Items : b # a => l[b] = k[b]
  /\ Inserted(l[a], k[a], n, i)
  /\ DOMAIN l[a] = 1..(Len(k[a]) + 1)
  /\ ToSet(l[a]) = ToSet(k[a]) \cup {i}

LEMMA WithIs ==
  ASSUME NEW k \in [Items -> Seq(Items)], NEW a \in Items, NEW n \in 1..(Len(k[a]) + 1), NEW i \in Items
  PROVE  With(k, a, n, i) \in [Items -> Seq(Items)] /\ IsWith(With(k, a, n, i), k, a, n, i)
  <1> DEFINE l == With(k, a, n, i)
  <1>1. k[a] \in Seq(Items) /\ Len(k[a]) \in Nat /\ DOMAIN k[a] = 1..Len(k[a])
    BY KidsAre
  <1>2. InsertAt(k[a], n, i) \in Seq(Items) /\ Inserted(InsertAt(k[a], n, i), k[a], n, i)
    BY <1>1, Inserting
  <1>3. l[a] = InsertAt(k[a], n, i) /\ l \in [Items -> Seq(Items)] /\ \A b \in Items : b # a => l[b] = k[b]
    BY <1>2 DEF With
  <1>4. DOMAIN l[a] = 1..(Len(k[a]) + 1)
    BY <1>2, <1>3, KidsAre DEF Inserted
  <1> HIDE DEF l
  <1>5. \A m \in 1..(Len(k[a]) + 1) :
          l[a][m] = IF m < n THEN k[a][m] ELSE IF m = n THEN i ELSE k[a][m - 1]
    BY <1>2, <1>3 DEF Inserted
  <1>6. ASSUME NEW x \in ToSet(l[a]) PROVE x \in ToSet(k[a]) \cup {i}
    <2>1. PICK m \in 1..(Len(k[a]) + 1) : l[a][m] = x
      BY <1>4 DEF ToSet
    <2>2. CASE m = n
      BY <1>5, <2>1, <2>2
    <2>3. CASE m < n
      <3>1. m \in DOMAIN k[a]
        BY <1>1, <2>1, <2>3
      <3> QED
        BY <1>5, <2>1, <2>3, <3>1 DEF ToSet
    <2>4. CASE m > n
      <3>1. m - 1 \in DOMAIN k[a] /\ ~ (m < n) /\ m # n
        BY <1>1, <2>1, <2>4
      <3>2. l[a][m] = k[a][m - 1]
        BY <1>5, <3>1
      <3> QED
        BY <2>1, <3>1, <3>2 DEF ToSet
    <2> QED
      BY <1>1, <2>1, <2>2, <2>3, <2>4
  <1>7. ASSUME NEW x \in ToSet(k[a]) PROVE x \in ToSet(l[a])
    <2>1. PICK m \in 1..Len(k[a]) : k[a][m] = x
      BY <1>1 DEF ToSet
    <2>2. CASE m < n
      <3>1. m \in 1..(Len(k[a]) + 1) /\ l[a][m] = x
        BY <1>1, <1>5, <2>1, <2>2
      <3> QED
        BY <1>4, <3>1 DEF ToSet
    <2>3. CASE m >= n
      <3>1. m + 1 \in 1..(Len(k[a]) + 1) /\ ~ (m + 1 < n) /\ m + 1 # n /\ (m + 1) - 1 = m
        BY <1>1, <2>1, <2>3
      <3>2. l[a][m + 1] = k[a][(m + 1) - 1]
        BY <1>5, <3>1
      <3> QED
        BY <1>4, <2>1, <3>1, <3>2 DEF ToSet
    <2> QED
      BY <1>1, <2>1, <2>2, <2>3
  <1>8. i \in ToSet(l[a])
    <2>1. n \in 1..(Len(k[a]) + 1) /\ l[a][n] = i
      BY <1>1, <1>5
    <2> QED
      BY <1>4, <2>1 DEF ToSet
  <1>9. ToSet(l[a]) = ToSet(k[a]) \cup {i}
    BY <1>6, <1>7, <1>8
  <1> QED
    BY <1>2, <1>3, <1>4, <1>9 DEF l, IsWith

LEMMA ForestWith ==
  ASSUME NEW k, NEW L, NEW H, Forest(k, L, H), NEW i \in H, NEW a \in L \ Lists!Within(k, i),
         NEW n \in 1..(Len(k[a]) + 1)
  PROVE  Forest(With(k, a, n, i), L, H \ {i})
  <1> DEFINE l == With(k, a, n, i)
             W == Lists!Within(k, i)
  <1>1. /\ k \in [Items -> Seq(Items)] /\ L \subseteq Items /\ H \subseteq L
        /\ \A b \in Items : \A x \in ToSet(k[b]) : b \in L /\ x \in L /\ x \notin H
        /\ \A S \in SUBSET Items : H \subseteq S /\ Lists!Closed(k, S) => L \subseteq S
    <2>1. /\ k \in [Items -> Seq(Items)] /\ L \subseteq Items /\ H \subseteq L
          /\ \A b \in Items : \A x \in ToSet(k[b]) : b \in L /\ x \in L /\ x \notin H
      BY InForest
    <2>2. \A S \in SUBSET Items : H \subseteq S /\ Lists!Closed(k, S) => L \subseteq S
      BY DEF Forest
    <2> QED
      BY <2>1, <2>2
  <1>2. a \in Items /\ i \in Items /\ i \in L
    BY <1>1
  <1>3. /\ l \in [Items -> Seq(Items)]
        /\ \A b \in Items : b # a => l[b] = k[b]
        /\ DOMAIN l[a] = 1..(Len(k[a]) + 1) /\ Inserted(l[a], k[a], n, i)
        /\ ToSet(l[a]) = ToSet(k[a]) \cup {i}
    <2>1. l \in [Items -> Seq(Items)] /\ IsWith(l, k, a, n, i)
      BY <1>1, <1>2, WithIs
    <2> HIDE DEF l
    <2> QED
      BY <2>1 DEF IsWith
  <1>0. \A m \in 1..(Len(k[a]) + 1) :
          l[a][m] = IF m < n THEN k[a][m] ELSE IF m = n THEN i ELSE k[a][m - 1]
    BY <1>3 DEF Inserted
  <1>4. W \subseteq Items /\ i \in W /\ \A j \in W : \A x \in ToSet(k[j]) : x \in W
    BY <1>1, <1>2, WithinIs, ClosedIs
  <1>5. a \notin W /\ Len(k[a]) \in Nat /\ DOMAIN k[a] = 1..Len(k[a])
    BY <1>1, <1>2, KidsAre
  <1>6. \A b \in Items : b \notin L => k[b] = << >>
    BY DEF Forest
  <1>7. \A b \in Items : i \notin ToSet(k[b])
    BY <1>1
  <1> HIDE DEF l, W
  <1>8. \A b \in Items : ToSet(l[b]) \subseteq L \ (H \ {i}) /\ (b \notin L => l[b] = << >>)
    <2>1. ASSUME NEW b \in Items, b # a
          PROVE  ToSet(l[b]) \subseteq L \ (H \ {i}) /\ (b \notin L => l[b] = << >>)
      BY <1>1, <1>3, <1>6, <2>1
    <2>2. ToSet(l[a]) \subseteq L \ (H \ {i})
      BY <1>1, <1>2, <1>3
    <2>3. a \in L
      OBVIOUS
    <2> QED
      BY <2>1, <2>2, <2>3
  <1>9. Once(l)
    <2> SUFFICES ASSUME NEW b \in Items, NEW c \in Items, NEW p \in DOMAIN l[b], NEW q \in DOMAIN l[c],
                        l[b][p] = l[c][q]
                 PROVE  b = c /\ p = q
      BY DEF Once
    <2> DEFINE was(d, m) == IF d = a /\ m > n THEN m - 1 ELSE m
    <2>1. ASSUME NEW d \in Items, NEW m \in DOMAIN l[d], ~ (d = a /\ m = n)
          PROVE  was(d, m) \in DOMAIN k[d] /\ l[d][m] = k[d][was(d, m)]
      <3>1. CASE d # a
        <4>1. was(d, m) = m /\ l[d] = k[d]
          BY <1>3, <3>1
        <4> QED
          BY <2>1, <4>1
      <3>2. CASE d = a
        <4>1. m \in 1..(Len(k[a]) + 1) /\ m # n /\ m \in Nat /\ n \in Nat /\ n =< Len(k[a]) + 1 /\ 1 =< n
          BY <1>3, <1>5, <2>1, <3>2
        <4>2. CASE m < n
          <5>1. m \in 1..Len(k[a]) /\ was(d, m) = m
            BY <1>5, <4>1, <4>2
          <5>2. l[a][m] = k[a][m]
            BY <1>0, <4>1, <4>2
          <5> QED
            BY <1>5, <3>2, <5>1, <5>2
        <4>3. CASE m > n
          <5>1. m - 1 \in 1..Len(k[a]) /\ was(d, m) = m - 1 /\ ~ (m < n)
            BY <1>5, <3>2, <4>1, <4>3
          <5>2. l[a][m] = k[a][m - 1]
            BY <1>0, <4>1, <5>1
          <5> QED
            BY <1>5, <3>2, <5>1, <5>2
        <4> QED
          BY <4>1, <4>2, <4>3
      <3> QED
        BY <3>1, <3>2
    <2>2. ASSUME NEW d \in Items, NEW m \in DOMAIN l[d], l[d][m] = i PROVE d = a /\ m = n
      <3>1. SUFFICES ASSUME ~ (d = a /\ m = n) PROVE FALSE
        OBVIOUS
      <3>2. was(d, m) \in DOMAIN k[d] /\ k[d][was(d, m)] = i
        BY <2>1, <2>2, <3>1
      <3> QED
        BY <1>7, <3>2 DEF ToSet
    <2>3. l[a][n] = i
      BY <1>0, <1>5
    <2>4. CASE (b = a /\ p = n) \/ (c = a /\ q = n)
      BY <2>2, <2>3, <2>4
    <2>5. CASE ~ (b = a /\ p = n) /\ ~ (c = a /\ q = n)
      <3>1. /\ was(b, p) \in DOMAIN k[b] /\ was(c, q) \in DOMAIN k[c]
            /\ k[b][was(b, p)] = k[c][was(c, q)]
        BY <2>1, <2>5
      <3>2. b = c /\ was(b, p) = was(c, q)
        <4> HIDE DEF was
        <4> QED
          BY <3>1, OnceAt DEF Forest
      <3>3. CASE b # a
        BY <3>2, <3>3
      <3>4. CASE b = a
        <4>1. /\ p \in Nat /\ q \in Nat /\ n \in Nat /\ p # n /\ q # n
          BY <1>3, <1>5, <2>5, <3>2, <3>4
        <4> QED
          BY <3>2, <3>4, <4>1
      <3> QED
        BY <3>3, <3>4
    <2> QED
      BY <2>4, <2>5
  <1>10. ASSUME NEW S \in SUBSET Items, H \ {i} \subseteq S, Lists!Closed(l, S) PROVE L \subseteq S
    <2>1. \A j \in S : \A x \in ToSet(l[j]) : x \in S
      BY <1>10, ClosedIs
    <2>2. \A j \in Items : ToSet(k[j]) \subseteq ToSet(l[j])
      BY <1>3
    <2>3. \A j \in S \cup W : \A x \in ToSet(k[j]) : x \in S \cup W
      BY <1>4, <2>1, <2>2
    <2>4. S \cup W \in SUBSET Items /\ H \subseteq S \cup W /\ Lists!Closed(k, S \cup W)
      BY <1>4, <1>10, <2>3, ClosedIs
    <2>5. a \in S
      BY <1>1, <1>5, <2>4
    <2>6. i \in S
      BY <1>3, <2>1, <2>5
    <2>7. H \subseteq S /\ Lists!Closed(k, S)
      BY <1>10, <2>1, <2>2, <2>6, ClosedIs
    <2> QED
      BY <1>1, <2>7
  <1>11. H \ {i} \subseteq L
    BY <1>1
  <1> QED
    BY <1>1, <1>3, <1>8, <1>9, <1>10, <1>11 DEF Forest, l

(* The n-th item taken out of the list of a.                                   *)
Drop(k, a, n) == [k EXCEPT ![a] = RemoveAt(@, n)]

IsDrop(l, k, a, n) ==
  /\ \A b \in Items : b # a => l[b] = k[b]
  /\ Removed(l[a], k[a], n)
  /\ DOMAIN l[a] = 1..(Len(k[a]) - 1)
  /\ ToSet(l[a]) \subseteq ToSet(k[a]) /\ ToSet(k[a]) \subseteq ToSet(l[a]) \cup {k[a][n]}

LEMMA DropIs ==
  ASSUME NEW k \in [Items -> Seq(Items)], NEW a \in Items, NEW n \in DOMAIN k[a]
  PROVE  Drop(k, a, n) \in [Items -> Seq(Items)] /\ IsDrop(Drop(k, a, n), k, a, n)
  <1> DEFINE l == Drop(k, a, n)
  <1>1. k[a] \in Seq(Items) /\ Len(k[a]) \in Nat /\ DOMAIN k[a] = 1..Len(k[a])
    BY KidsAre
  <1>2. RemoveAt(k[a], n) \in Seq(Items) /\ Removed(RemoveAt(k[a], n), k[a], n)
    BY <1>1, Removing
  <1>3. l[a] = RemoveAt(k[a], n) /\ l \in [Items -> Seq(Items)] /\ \A b \in Items : b # a => l[b] = k[b]
    BY <1>2 DEF Drop
  <1>4. DOMAIN l[a] = 1..(Len(k[a]) - 1)
    <2>1. DOMAIN RemoveAt(k[a], n) = 1..Len(RemoveAt(k[a], n))
      BY <1>2, LenProperties
    <2> QED
      BY <1>2, <1>3, <2>1 DEF Removed
  <1> HIDE DEF l
  <1>5. \A m \in 1..(Len(k[a]) - 1) : l[a][m] = IF m < n THEN k[a][m] ELSE k[a][m + 1]
    BY <1>2, <1>3 DEF Removed
  <1>6. ASSUME NEW x \in ToSet(l[a]) PROVE x \in ToSet(k[a])
    <2>1. PICK m \in 1..(Len(k[a]) - 1) : l[a][m] = x
      BY <1>4 DEF ToSet
    <2>2. m \in DOMAIN k[a] /\ m + 1 \in DOMAIN k[a]
      BY <1>1
    <2> QED
      BY <1>5, <2>1, <2>2 DEF ToSet
  <1>7. ASSUME NEW x \in ToSet(k[a]), x # k[a][n] PROVE x \in ToSet(l[a])
    <2>1. PICK m \in 1..Len(k[a]) : k[a][m] = x
      BY <1>1 DEF ToSet
    <2>2. CASE m < n
      <3>1. m \in 1..(Len(k[a]) - 1) /\ l[a][m] = x
        BY <1>1, <1>5, <2>1, <2>2
      <3> QED
        BY <1>4, <3>1 DEF ToSet
    <2>3. CASE m > n
      <3>1. m - 1 \in 1..(Len(k[a]) - 1) /\ ~ (m - 1 < n) /\ (m - 1) + 1 = m
        BY <1>1, <2>1, <2>3
      <3>2. l[a][m - 1] = k[a][(m - 1) + 1]
        BY <1>5, <3>1
      <3> QED
        BY <1>4, <2>1, <3>1, <3>2 DEF ToSet
    <2> QED
      BY <1>1, <1>7, <2>1, <2>2, <2>3
  <1>8. ToSet(l[a]) \subseteq ToSet(k[a]) /\ ToSet(k[a]) \subseteq ToSet(l[a]) \cup {k[a][n]}
    BY <1>6, <1>7
  <1> QED
    BY <1>2, <1>3, <1>4, <1>8 DEF l, IsDrop

LEMMA ForestDrop ==
  ASSUME NEW k, NEW L, NEW H, Forest(k, L, H), NEW a \in Items, NEW n \in DOMAIN k[a]
  PROVE  Forest(Drop(k, a, n), L, H \cup {k[a][n]})
  <1> DEFINE l == Drop(k, a, n)
             i == k[a][n]
  <1>1. /\ k \in [Items -> Seq(Items)] /\ L \subseteq Items /\ H \subseteq L
        /\ \A b \in Items : \A x \in ToSet(k[b]) : b \in L /\ x \in L /\ x \notin H
        /\ \A S \in SUBSET Items : H \subseteq S /\ Lists!Closed(k, S) => L \subseteq S
    <2>1. /\ k \in [Items -> Seq(Items)] /\ L \subseteq Items /\ H \subseteq L
          /\ \A b \in Items : \A x \in ToSet(k[b]) : b \in L /\ x \in L /\ x \notin H
      BY InForest
    <2>2. \A S \in SUBSET Items : H \subseteq S /\ Lists!Closed(k, S) => L \subseteq S
      BY DEF Forest
    <2> QED
      BY <2>1, <2>2
  <1>2. /\ Len(k[a]) \in Nat /\ DOMAIN k[a] = 1..Len(k[a]) /\ i \in ToSet(k[a]) /\ i \in L
        /\ n \in Nat /\ 1 =< n /\ n =< Len(k[a])
    BY <1>1, KidsAre
  <1>3. /\ l \in [Items -> Seq(Items)]
        /\ \A b \in Items : b # a => l[b] = k[b]
        /\ DOMAIN l[a] = 1..(Len(k[a]) - 1) /\ Removed(l[a], k[a], n)
        /\ ToSet(l[a]) \subseteq ToSet(k[a]) /\ ToSet(k[a]) \subseteq ToSet(l[a]) \cup {i}
    <2>1. l \in [Items -> Seq(Items)] /\ IsDrop(l, k, a, n)
      BY <1>1, DropIs
    <2> HIDE DEF l
    <2> QED
      BY <2>1 DEF IsDrop
  <1>4. \A m \in 1..(Len(k[a]) - 1) : l[a][m] = IF m < n THEN k[a][m] ELSE k[a][m + 1]
    BY <1>3 DEF Removed
  <1>5. \A b \in Items : b \notin L => k[b] = << >>
    BY DEF Forest
  <1> DEFINE was(d, m) == IF d = a /\ m >= n THEN m + 1 ELSE m
  <1> HIDE DEF l
  <1>6. ASSUME NEW d \in Items, NEW m \in DOMAIN l[d]
        PROVE  /\ was(d, m) \in DOMAIN k[d] /\ l[d][m] = k[d][was(d, m)]
               /\ ~ (d = a /\ was(d, m) = n)
    <2>1. CASE d # a
      BY <1>3, <2>1
    <2>2. CASE d = a
      <3>1. m \in 1..(Len(k[a]) - 1) /\ m \in Nat /\ m \in 1..Len(k[a]) /\ m + 1 \in 1..Len(k[a])
        BY <1>2, <1>3, <2>2
      <3>2. CASE m < n
        <4>1. was(d, m) = m /\ m # n
          BY <1>2, <3>1, <3>2
        <4>2. l[a][m] = k[a][m]
          BY <1>4, <3>1, <3>2
        <4> QED
          BY <1>2, <2>2, <3>1, <4>1, <4>2
      <3>3. CASE m >= n
        <4>1. was(d, m) = m + 1 /\ m + 1 # n /\ ~ (m < n)
          BY <1>2, <2>2, <3>1, <3>3
        <4>2. l[a][m] = k[a][m + 1]
          BY <1>4, <3>1, <4>1
        <4> QED
          BY <1>2, <2>2, <3>1, <4>1, <4>2
      <3> QED
        BY <1>2, <3>1, <3>2, <3>3
    <2> QED
      BY <2>1, <2>2
  <1>7. ASSUME NEW d \in Items PROVE i \notin ToSet(l[d])
    <2>1. SUFFICES ASSUME NEW m \in DOMAIN l[d], l[d][m] = i PROVE FALSE
      BY DEF ToSet
    <2>2. was(d, m) \in DOMAIN k[d] /\ k[a][n] = k[d][was(d, m)] /\ ~ (d = a /\ was(d, m) = n)
      BY <1>6, <2>1
    <2> HIDE DEF was
    <2> QED
      BY <2>2, OnceAt DEF Forest
  <1>8. \A b \in Items : ToSet(l[b]) \subseteq L \ (H \cup {i}) /\ (b \notin L => l[b] = << >>)
    <2> HIDE DEF i
    <2>1. ASSUME NEW b \in Items, b # a
          PROVE  ToSet(l[b]) \subseteq L \ (H \cup {i}) /\ (b \notin L => l[b] = << >>)
      BY <1>1, <1>3, <1>5, <1>7, <2>1
    <2>2. ToSet(l[a]) \subseteq L \ (H \cup {i})
      BY <1>1, <1>3, <1>7
    <2>3. a \in L
      BY <1>1, <1>2
    <2> QED
      BY <2>1, <2>2, <2>3
  <1>9. Once(l)
    <2> SUFFICES ASSUME NEW b \in Items, NEW c \in Items, NEW p \in DOMAIN l[b], NEW q \in DOMAIN l[c],
                        l[b][p] = l[c][q]
                 PROVE  b = c /\ p = q
      BY DEF Once
    <2>1. /\ was(b, p) \in DOMAIN k[b] /\ was(c, q) \in DOMAIN k[c]
          /\ k[b][was(b, p)] = k[c][was(c, q)]
      BY <1>6
    <2>2. b = c /\ was(b, p) = was(c, q)
      <3> HIDE DEF was
      <3> QED
        BY <2>1, OnceAt DEF Forest
    <2>3. CASE b # a
      BY <2>2, <2>3
    <2>4. CASE b = a
      <3>1. p \in Nat /\ q \in Nat
        BY <1>2, <1>3, <2>2, <2>4
      <3> QED
        BY <1>2, <2>2, <2>4, <3>1
    <2> QED
      BY <2>3, <2>4
  <1>10. ASSUME NEW S \in SUBSET Items, H \cup {i} \subseteq S, Lists!Closed(l, S) PROVE L \subseteq S
    <2> HIDE DEF i
    <2>1. \A j \in S : \A x \in ToSet(l[j]) : x \in S
      BY <1>10, ClosedIs
    <2>2. \A j \in Items : \A x \in ToSet(k[j]) : x \in ToSet(l[j]) \/ x = i
      BY <1>3
    <2>3. \A j \in S : \A x \in ToSet(k[j]) : x \in S
      BY <1>10, <2>1, <2>2
    <2>4. H \subseteq S /\ Lists!Closed(k, S)
      BY <1>10, <2>3, ClosedIs
    <2> QED
      BY <1>1, <2>4
  <1>11. H \cup {i} \subseteq L
    BY <1>1, <1>2
  <1> QED
    BY <1>1, <1>3, <1>8, <1>9, <1>10, <1>11 DEF Forest, l

(* i put in the place of the n-th item of the list of a.                       *)
Swap(k, a, n, i) == [k EXCEPT ![a][n] = i]

IsSwap(l, k, a, n, i) ==
  /\ \A b \in Items : b # a => l[b] = k[b]
  /\ Len(l[a]) = Len(k[a]) /\ DOMAIN l[a] = DOMAIN k[a]
  /\ \A m \in DOMAIN k[a] : l[a][m] = IF m = n THEN i ELSE k[a][m]
  /\ ToSet(l[a]) \subseteq ToSet(k[a]) \cup {i} /\ ToSet(k[a]) \subseteq ToSet(l[a]) \cup {k[a][n]}
  /\ i \in ToSet(l[a])

LEMMA SwapIs ==
  ASSUME NEW k \in [Items -> Seq(Items)], NEW a \in Items, NEW n \in DOMAIN k[a], NEW i \in Items
  PROVE  Swap(k, a, n, i) \in [Items -> Seq(Items)] /\ IsSwap(Swap(k, a, n, i), k, a, n, i)
  <1> DEFINE l == Swap(k, a, n, i)
             s == [k[a] EXCEPT ![n] = i]
  <1>1. k[a] \in Seq(Items) /\ Len(k[a]) \in Nat /\ DOMAIN k[a] = 1..Len(k[a])
    BY KidsAre
  <1>2. /\ s \in Seq(Items) /\ Len(s) = Len(k[a])
        /\ \A m \in 1..Len(k[a]) : s[m] = IF m = n THEN i ELSE k[a][m]
    BY <1>1, ExceptSeq
  <1>3. l[a] = s /\ l = [k EXCEPT ![a] = s]
    BY DEF Swap
  <1> HIDE DEF s
  <1>4. l \in [Items -> Seq(Items)] /\ \A b \in Items : b # a => l[b] = k[b]
    BY <1>2, <1>3
  <1>5. DOMAIN l[a] = DOMAIN k[a] /\ Len(l[a]) = Len(k[a])
    BY <1>1, <1>2, <1>3, <1>4, KidsAre
  <1> HIDE DEF l
  <1>6. \A m \in DOMAIN k[a] : l[a][m] = IF m = n THEN i ELSE k[a][m]
    BY <1>1, <1>2, <1>3
  <1>7. /\ ToSet(l[a]) \subseteq ToSet(k[a]) \cup {i} /\ ToSet(k[a]) \subseteq ToSet(l[a]) \cup {k[a][n]}
        /\ i \in ToSet(l[a])
    BY <1>5, <1>6 DEF ToSet
  <1> QED
    BY <1>4, <1>5, <1>6, <1>7 DEF l, IsSwap

LEMMA ForestSwap ==
  ASSUME NEW k, NEW L, NEW H, Forest(k, L, H), NEW i \in H, NEW a \in L \ Lists!Within(k, i),
         NEW n \in DOMAIN k[a]
  PROVE  Forest(Swap(k, a, n, i), L, (H \ {i}) \cup {k[a][n]})
  <1> DEFINE l == Swap(k, a, n, i)
             W == Lists!Within(k, i)
             old == k[a][n]
             G == (H \ {i}) \cup {old}
  <1>1. /\ k \in [Items -> Seq(Items)] /\ L \subseteq Items /\ H \subseteq L
        /\ \A b \in Items : \A x \in ToSet(k[b]) : b \in L /\ x \in L /\ x \notin H
        /\ \A S \in SUBSET Items : H \subseteq S /\ Lists!Closed(k, S) => L \subseteq S
    <2>1. /\ k \in [Items -> Seq(Items)] /\ L \subseteq Items /\ H \subseteq L
          /\ \A b \in Items : \A x \in ToSet(k[b]) : b \in L /\ x \in L /\ x \notin H
      BY InForest
    <2>2. \A S \in SUBSET Items : H \subseteq S /\ Lists!Closed(k, S) => L \subseteq S
      BY DEF Forest
    <2> QED
      BY <2>1, <2>2
  <1>2. a \in Items /\ i \in Items /\ i \in L /\ a \in L /\ a \notin W
    BY <1>1
  <1>3. /\ l \in [Items -> Seq(Items)]
        /\ \A b \in Items : b # a => l[b] = k[b]
        /\ DOMAIN l[a] = DOMAIN k[a]
        /\ \A m \in DOMAIN k[a] : l[a][m] = IF m = n THEN i ELSE k[a][m]
        /\ ToSet(l[a]) \subseteq ToSet(k[a]) \cup {i} /\ ToSet(k[a]) \subseteq ToSet(l[a]) \cup {old}
        /\ i \in ToSet(l[a])
    <2>1. l \in [Items -> Seq(Items)] /\ IsSwap(l, k, a, n, i)
      BY <1>1, <1>2, SwapIs
    <2> HIDE DEF l
    <2> QED
      BY <2>1 DEF IsSwap
  <1>4. W \subseteq Items /\ i \in W /\ \A j \in W : \A x \in ToSet(k[j]) : x \in W
    BY <1>1, <1>2, WithinIs, ClosedIs
  <1>5. \A b \in Items : b \notin L => k[b] = << >>
    BY DEF Forest
  <1>6. old \in ToSet(k[a]) /\ old \in L /\ old \notin H /\ old # i
    BY <1>1, <1>2, KidsAre
  <1>7. \A d \in Items : i \notin ToSet(k[d])
    BY <1>1
  <1> HIDE DEF l, W
  <1>8. Once(l)
    <2> SUFFICES ASSUME NEW b \in Items, NEW c \in Items, NEW p \in DOMAIN l[b], NEW q \in DOMAIN l[c],
                        l[b][p] = l[c][q]
                 PROVE  b = c /\ p = q
      BY DEF Once
    <2>1. p \in DOMAIN k[b] /\ q \in DOMAIN k[c]
      BY <1>3
    <2>2. /\ l[b][p] = IF b = a /\ p = n THEN i ELSE k[b][p]
          /\ l[c][q] = IF c = a /\ q = n THEN i ELSE k[c][q]
      BY <1>3, <2>1
    <2>3. k[b][p] # i /\ k[c][q] # i
      BY <1>7, <2>1 DEF ToSet
    <2>4. CASE (b = a /\ p = n) \/ (c = a /\ q = n)
      BY <2>2, <2>3, <2>4
    <2>5. CASE ~ (b = a /\ p = n) /\ ~ (c = a /\ q = n)
      <3>1. k[b][p] = k[c][q]
        BY <2>2, <2>5
      <3> QED
        BY <2>1, <3>1, OnceAt DEF Forest
    <2> QED
      BY <2>4, <2>5
  <1>9. ASSUME NEW d \in Items PROVE old \notin ToSet(l[d])
    <2>1. SUFFICES ASSUME NEW m \in DOMAIN l[d], l[d][m] = old PROVE FALSE
      BY DEF ToSet
    <2>2. m \in DOMAIN k[d] /\ ~ (d = a /\ m = n) /\ k[d][m] = k[a][n]
      BY <1>2, <1>3, <1>6, <2>1
    <2> QED
      BY <1>2, <2>2, OnceAt DEF Forest
  <1> HIDE DEF old
  <1>10. \A b \in Items : ToSet(l[b]) \subseteq L \ G /\ (b \notin L => l[b] = << >>)
    <2>1. ASSUME NEW b \in Items, b # a
          PROVE  ToSet(l[b]) \subseteq L \ G /\ (b \notin L => l[b] = << >>)
      BY <1>1, <1>3, <1>5, <1>9, <2>1
    <2>2. ToSet(l[a]) \subseteq L \ G
      BY <1>1, <1>2, <1>3, <1>6, <1>9
    <2> QED
      BY <1>2, <2>1, <2>2
  <1>11. ASSUME NEW S \in SUBSET Items, G \subseteq S, Lists!Closed(l, S) PROVE L \subseteq S
    <2>1. \A j \in S : \A x \in ToSet(l[j]) : x \in S
      BY <1>11, ClosedIs
    <2>2. \A j \in Items : \A x \in ToSet(k[j]) : x \in ToSet(l[j]) \/ x = old
      BY <1>3
    <2>3. \A j \in S : \A x \in ToSet(k[j]) : x \in S
      BY <1>11, <2>1, <2>2
    <2>4. Lists!Closed(k, S \cup W) /\ H \subseteq S \cup W /\ S \cup W \in SUBSET Items
      BY <1>4, <1>11, <2>3, ClosedIs
    <2>5. a \in S
      BY <1>1, <1>2, <2>4
    <2>6. i \in S
      BY <1>3, <2>1, <2>5
    <2>7. H \subseteq S /\ Lists!Closed(k, S)
      BY <1>11, <2>3, <2>6, ClosedIs
    <2> QED
      BY <1>1, <2>7
  <1>12. G \subseteq L
    BY <1>1, <1>6
  <1> HIDE DEF G
  <1>13. Forest(l, L, G)
    BY <1>1, <1>3, <1>8, <1>10, <1>11, <1>12 DEF Forest
  <1> QED
    BY <1>13 DEF G, l, old

(* A held item deleted, with all that is in it.                                *)
LEMMA ForestCut ==
  ASSUME NEW k, NEW L, NEW H, Forest(k, L, H), NEW i \in H
  PROVE  /\ Forest(Lists!Without(k, Lists!Within(k, i)), L \ Lists!Within(k, i), H \ {i})
         /\ \A a \in Items \ Lists!Within(k, i) : ToSet(k[a]) \cap Lists!Within(k, i) = {}
  <1> DEFINE W == Lists!Within(k, i)
             l == Lists!Without(k, W)
  <1>1. /\ k \in [Items -> Seq(Items)] /\ L \subseteq Items /\ H \subseteq L
        /\ \A b \in Items : \A x \in ToSet(k[b]) : b \in L /\ x \in L /\ x \notin H
        /\ \A b, c \in Items : \A x \in ToSet(k[b]) : x \in ToSet(k[c]) => b = c
        /\ \A S \in SUBSET Items : H \subseteq S /\ Lists!Closed(k, S) => L \subseteq S
    <2>1. /\ k \in [Items -> Seq(Items)] /\ L \subseteq Items /\ H \subseteq L
          /\ \A b \in Items : \A x \in ToSet(k[b]) : b \in L /\ x \in L /\ x \notin H
          /\ \A b, c \in Items : \A x \in ToSet(k[b]) : x \in ToSet(k[c]) => b = c
      BY InForest
    <2>2. \A S \in SUBSET Items : H \subseteq S /\ Lists!Closed(k, S) => L \subseteq S
      BY DEF Forest
    <2> QED
      BY <2>1, <2>2
  <1>2. i \in Items /\ i \in L
    BY <1>1
  <1>3. W \subseteq Items /\ i \in W /\ \A j \in W : \A x \in ToSet(k[j]) : x \in W
    BY <1>1, <1>2, WithinIs, ClosedIs
  <1>4. \A x \in W : x # i => \E o \in W : x \in ToSet(k[o])
    BY <1>1, <1>2, OwnerWithin
  <1>5. \A b \in Items : b \notin L => k[b] = << >>
    BY DEF Forest
  <1>6. << >> \in Seq(Items) /\ DOMAIN << >> = {} /\ ToSet(<< >>) = {}
    BY EmptySeq DEF ToSet
  <1> HIDE DEF W
  <1>7. /\ l \in [Items -> Seq(Items)]
        /\ \A j \in Items : l[j] = IF j \in W THEN << >> ELSE k[j]
    BY <1>1, <1>6 DEF Lists!Without
  <1> HIDE DEF l
  <1>8. ASSUME NEW a \in Items \ W, NEW x \in ToSet(k[a]) PROVE x \notin W
    BY <1>1, <1>3, <1>4, <1>8
  <1>9. H \ {i} \subseteq L \ W
    <2>1. \A x \in H : x \in W => x = i
      BY <1>1, <1>3, <1>4
    <2> QED
      BY <1>1, <2>1
  <1>10. \A b \in Items : ToSet(l[b]) \subseteq (L \ W) \ (H \ {i}) /\ (b \notin L \ W => l[b] = << >>)
    BY <1>1, <1>5, <1>6, <1>7, <1>8
  <1>11. Once(l)
    <2> SUFFICES ASSUME NEW b \in Items, NEW c \in Items, NEW p \in DOMAIN l[b], NEW q \in DOMAIN l[c],
                        l[b][p] = l[c][q]
                 PROVE  b = c /\ p = q
      BY DEF Once
    <2>1. b \notin W /\ c \notin W
      BY <1>6, <1>7
    <2>2. l[b] = k[b] /\ l[c] = k[c]
      BY <1>7, <2>1
    <2>3. p \in DOMAIN k[b] /\ q \in DOMAIN k[c] /\ k[b][p] = k[c][q]
      BY <2>2
    <2> QED
      BY <2>3, OnceAt DEF Forest
  <1>12. ASSUME NEW S \in SUBSET Items, H \ {i} \subseteq S, Lists!Closed(l, S) PROVE L \ W \subseteq S
    <2>1. \A j \in S : \A x \in ToSet(l[j]) : x \in S
      BY <1>12, ClosedIs
    <2>2. \A j \in S \cup W : \A x \in ToSet(k[j]) : x \in S \cup W
      BY <1>3, <1>7, <2>1
    <2>3. Lists!Closed(k, S \cup W) /\ H \subseteq S \cup W /\ S \cup W \in SUBSET Items
      BY <1>3, <1>12, <2>2, ClosedIs
    <2> QED
      BY <1>1, <2>3
  <1>13. Forest(l, L \ W, H \ {i})
    BY <1>1, <1>7, <1>9, <1>10, <1>11, <1>12 DEF Forest
  <1> QED
    BY <1>8, <1>13 DEF l, W

(* New items N with lists of their own; all of them are in r.                  *)
Grown(l, k, N, r) ==
  /\ l \in [Items -> Seq(Items)] /\ \A j \in Items \ N : l[j] = k[j]
  /\ \A j \in N : ToSet(l[j]) \subseteq N \ {r}
  /\ \A a, b \in N : \A n \in DOMAIN l[a], m \in DOMAIN l[b] : l[a][n] = l[b][m] => a = b /\ n = m
  /\ \A S \in SUBSET Items : r \in S /\ Lists!Closed(l, S) => N \subseteq S

LEMMA ForestGrown ==
  ASSUME NEW k, NEW L, NEW H, Forest(k, L, H), NEW N, N \subseteq Items \ L, NEW r \in N,
         NEW l, Grown(l, k, N, r)
  PROVE  Forest(l, L \cup N, H \cup {r}) /\ Lists!Within(l, r) = N
  <1>1. /\ k \in [Items -> Seq(Items)] /\ L \subseteq Items /\ H \subseteq L
        /\ \A b \in Items : \A x \in ToSet(k[b]) : b \in L /\ x \in L /\ x \notin H
        /\ \A S \in SUBSET Items : H \subseteq S /\ Lists!Closed(k, S) => L \subseteq S
    <2>1. k \in [Items -> Seq(Items)] /\ L \subseteq Items /\ H \subseteq L
      BY DEF Forest
    <2>2. \A b \in Items : \A x \in ToSet(k[b]) : b \in L /\ x \in L /\ x \notin H
      BY InForest
    <2>3. \A S \in SUBSET Items : H \subseteq S /\ Lists!Closed(k, S) => L \subseteq S
      BY DEF Forest
    <2> QED
      BY <2>1, <2>2, <2>3
  <1>2. /\ l \in [Items -> Seq(Items)] /\ \A j \in Items \ N : l[j] = k[j]
        /\ \A j \in N : ToSet(l[j]) \subseteq N \ {r}
        /\ \A S \in SUBSET Items : r \in S /\ Lists!Closed(l, S) => N \subseteq S
    BY DEF Grown
  <1>3. \A b \in Items : b \notin L => k[b] = << >>
    BY DEF Forest
  <1>4. \A b \in Items : ToSet(l[b]) \subseteq (L \cup N) \ (H \cup {r}) /\ (b \notin L \cup N => l[b] = << >>)
    <2>1. ASSUME NEW b \in N PROVE ToSet(l[b]) \subseteq (L \cup N) \ (H \cup {r})
      BY <1>1, <1>2
    <2>2. ASSUME NEW b \in Items \ N
          PROVE  ToSet(l[b]) \subseteq (L \cup N) \ (H \cup {r}) /\ (b \notin L \cup N => l[b] = << >>)
      BY <1>1, <1>2, <1>3
    <2> QED
      BY <2>1, <2>2
  <1>5. Once(l)
    <2> SUFFICES ASSUME NEW b \in Items, NEW c \in Items, NEW p \in DOMAIN l[b], NEW q \in DOMAIN l[c],
                        l[b][p] = l[c][q]
                 PROVE  b = c /\ p = q
      BY DEF Once
    <2>1. l[b][p] \in ToSet(l[b]) /\ l[c][q] \in ToSet(l[c])
      BY DEF ToSet
    <2>2. CASE b \in N /\ c \in N
      BY <2>2 DEF Grown
    <2>3. CASE b \notin N /\ c \notin N
      <3>1. l[b] = k[b] /\ l[c] = k[c]
        BY <1>2, <2>3
      <3>2. p \in DOMAIN k[b] /\ q \in DOMAIN k[c] /\ k[b][p] = k[c][q]
        BY <3>1
      <3>3. Once(k)
        BY DEF Forest
      <3> QED
        BY <3>2, <3>3, OnceAt
    <2>4. CASE b \in N /\ c \notin N
      BY <1>1, <1>2, <2>1, <2>4
    <2>5. CASE b \notin N /\ c \in N
      BY <1>1, <1>2, <2>1, <2>5
    <2> QED
      BY <2>2, <2>3, <2>4, <2>5
  <1>6. ASSUME NEW S \in SUBSET Items, H \cup {r} \subseteq S, Lists!Closed(l, S) PROVE L \cup N \subseteq S
    <2>1. N \subseteq S
      BY <1>2, <1>6
    <2>2. \A j \in S : \A x \in ToSet(l[j]) : x \in S
      BY <1>6, ClosedIs
    <2> DEFINE T == S \cap L
    <2>3. \A j \in T : \A x \in ToSet(k[j]) : x \in T
      BY <1>1, <1>2, <2>2
    <2>4. T \in SUBSET Items /\ H \subseteq T
      BY <1>1, <1>6
    <2>5. Lists!Closed(k, T)
      <3> HIDE DEF T
      <3> QED
        BY <2>3, ClosedIs
    <2>6. L \subseteq T
      BY <1>1, <2>4, <2>5
    <2> QED
      BY <2>1, <2>6
  <1>7. L \cup N \subseteq Items /\ H \cup {r} \subseteq L \cup N
    BY <1>1
  <1>8. Forest(l, L \cup N, H \cup {r})
    BY <1>2, <1>4, <1>5, <1>6, <1>7 DEF Forest
  <1>9. Lists!Within(l, r) = N
    <2>1. r \in Items
      OBVIOUS
    <2>2. /\ Lists!Within(l, r) \subseteq Items /\ r \in Lists!Within(l, r)
          /\ Lists!Closed(l, Lists!Within(l, r))
          /\ \A S \in SUBSET Items : r \in S /\ Lists!Closed(l, S) => Lists!Within(l, r) \subseteq S
      BY <1>2, <2>1, WithinIs
    <2>3. \A j \in N : \A x \in ToSet(l[j]) : x \in N
      BY <1>2
    <2>4. Lists!Closed(l, N) /\ N \in SUBSET Items
      BY <2>3, ClosedIs
    <2> QED
      BY <1>2, <2>2, <2>4
  <1> QED
    BY <1>8, <1>9

LEMMA SameCardinality == \A S : Lists!Cardinality(S) = Cardinality(S)
  BY DEF Lists!Cardinality, Cardinality

(* Every item of a forest is in one place.                                     *)
LEMMA OnePlace ==
  ASSUME NEW k, NEW L, NEW H, Forest(k, L, H), NEW i \in L
  PROVE  Lists!Places(k, H, i) = 1
  <1> DEFINE places == {p \in UNION {{j} \X DOMAIN k[j] : j \in Items} : k[p[1]][p[2]] = i}
  <1>1. /\ k \in [Items -> Seq(Items)] /\ L \subseteq Items /\ H \subseteq L
        /\ \A b \in Items : \A x \in ToSet(k[b]) : b \in L /\ x \in L /\ x \notin H
        /\ \A x \in L \ H : \E a \in L : x \in ToSet(k[a])
    BY InForest
  <1>2. Lists!Places(k, H, i) = Cardinality(places) + (IF i \in H THEN 1 ELSE 0)
    <2>1. Lists!Places(k, H, i) = Lists!Cardinality(places) + (IF i \in H THEN 1 ELSE 0)
      BY DEF Lists!Places
    <2> QED
      BY <2>1, SameCardinality
  <1>3. CASE i \in H
    <2>1. places = {}
      BY <1>1, <1>3 DEF ToSet
    <2> HIDE DEF places
    <2>2. Cardinality(places) = 0
      BY <2>1, FS_EmptySet
    <2> QED
      BY <1>2, <1>3, <2>2
  <1>4. CASE i \notin H
    <2>1. PICK a \in L : i \in ToSet(k[a])
      BY <1>1, <1>4
    <2>2. PICK n \in DOMAIN k[a] : k[a][n] = i
      BY <2>1 DEF ToSet
    <2>3. a \in Items
      BY <1>1
    <2>4. <<a, n>> \in places
      BY <2>2, <2>3
    <2>5. ASSUME NEW p \in places PROVE p = <<a, n>>
      <3>0. PICK b \in Items : p \in {b} \X DOMAIN k[b]
        OBVIOUS
      <3>1. PICK m \in DOMAIN k[b] : p = <<b, m>>
        BY <3>0
      <3>2. k[b][m] = k[a][n]
        BY <2>2, <3>1
      <3>3. b = a /\ m = n
        <4>1. Once(k)
          BY DEF Forest
        <4> QED
          BY <2>3, <3>2, <4>1, OnceAt
      <3> QED
        BY <3>1, <3>3
    <2> HIDE DEF places
    <2>6. places = {<<a, n>>}
      BY <2>4, <2>5
    <2>7. Cardinality(places) = 1
      BY <2>6, FS_Singleton
    <2> QED
      BY <1>2, <1>4, <2>7
  <1> QED
    BY <1>3, <1>4

-----------------------------------------------------------------------------
(* The pointers after each function on lists. *)

LEMMA PutNext ==
  ASSUME NEW h \in Heaps, NEW i \in Items, NEW v \in Items \cup {NULL}
  PROVE  /\ Put(h, "next", i, v) \in Heaps
         /\ Put(h, "next", i, v).next = [h.next EXCEPT ![i] = v]
         /\ Put(h, "next", i, v).prev = h.prev /\ Put(h, "next", i, v).child = h.child
  BY DEF Put, Heaps

LEMMA PutPrev ==
  ASSUME NEW h \in Heaps, NEW i \in Items, NEW v \in Items \cup {NULL}
  PROVE  /\ Put(h, "prev", i, v) \in Heaps
         /\ Put(h, "prev", i, v).prev = [h.prev EXCEPT ![i] = v]
         /\ Put(h, "prev", i, v).next = h.next /\ Put(h, "prev", i, v).child = h.child
  BY DEF Put, Heaps

LEMMA PutChild ==
  ASSUME NEW h \in Heaps, NEW i \in Items, NEW v \in Items \cup {NULL}
  PROVE  /\ Put(h, "child", i, v) \in Heaps
         /\ Put(h, "child", i, v).child = [h.child EXCEPT ![i] = v]
         /\ Put(h, "child", i, v).next = h.next /\ Put(h, "child", i, v).prev = h.prev
  BY DEF Put, Heaps

LEMMA PutNull ==
  ASSUME NEW h \in Heaps, NEW i \in Items
  PROVE  /\ Put(h, "next", i, NULL) \in Heaps
         /\ Put(h, "next", i, NULL).next = [h.next EXCEPT ![i] = NULL]
         /\ Put(h, "next", i, NULL).prev = h.prev /\ Put(h, "next", i, NULL).child = h.child
         /\ Put(h, "prev", i, NULL) \in Heaps
         /\ Put(h, "prev", i, NULL).prev = [h.prev EXCEPT ![i] = NULL]
         /\ Put(h, "prev", i, NULL).next = h.next /\ Put(h, "prev", i, NULL).child = h.child
  BY DEF Put, Heaps

LEMMA InHeap ==
  ASSUME NEW h \in Heaps
  PROVE  /\ h.next \in [Items -> Items \cup {NULL}] /\ h.prev \in [Items -> Items \cup {NULL}]
         /\ h.child \in [Items -> Items \cup {NULL}]
  BY DEF Heaps

(* s is a list without repetition that the pointers draw.                      *)
Drawn(h, a, s) ==
  /\ s \in Seq(Items) /\ Row(h, a, s)
  /\ \A p, q \in DOMAIN s : s[p] = s[q] => p = q

(* The same without its operators.                                             *)
Listed(h, a, s) ==
  /\ Len(s) \in Nat /\ DOMAIN s = 1..Len(s)
  /\ \A n \in 1..Len(s) : s[n] \in Items /\ s[n] # NULL /\ s[n] \in ToSet(s)
  /\ \A p, q \in 1..Len(s) : s[p] = s[q] => p = q
  /\ h.child[a] = IF Len(s) = 0 THEN NULL ELSE s[1]
  /\ \A n \in 1..Len(s) : /\ h.next[s[n]] = IF n = Len(s) THEN NULL ELSE s[n + 1]
                          /\ h.prev[s[n]] = IF n = 1 THEN s[Len(s)] ELSE s[n - 1]

LEMMA DrawnIs ==
  ASSUME NEW h, NEW a, NEW s, Drawn(h, a, s)
  PROVE  Listed(h, a, s)
  <1>1. /\ s \in Seq(Items) /\ Row(h, a, s)
        /\ \A p, q \in DOMAIN s : s[p] = s[q] => p = q
    BY DEF Drawn
  <1>2. Len(s) \in Nat /\ DOMAIN s = 1..Len(s) /\ \A n \in 1..Len(s) : s[n] \in Items /\ s[n] \in ToSet(s)
    BY <1>1, InSeq
  <1> QED
    <2>1. \A n \in 1..Len(s) : s[n] # NULL
      BY <1>2, JsonItemsAssumption
    <2>2. /\ h.child[a] = IF Len(s) = 0 THEN NULL ELSE s[1]
          /\ \A n \in 1..Len(s) : h.next[s[n]] = Behind(s, n) /\ h.prev[s[n]] = Before(s, n)
      BY <1>1 DEF Row
    <2>3. \A n \in 1..Len(s) : /\ h.next[s[n]] = IF n = Len(s) THEN NULL ELSE s[n + 1]
                               /\ h.prev[s[n]] = IF n = 1 THEN s[Len(s)] ELSE s[n - 1]
      BY <2>2 DEF Behind, Before
    <2>4. \A p, q \in 1..Len(s) : s[p] = s[q] => p = q
      BY <1>1, <1>2
    <2> QED
      BY <1>1, <1>2, <2>1, <2>2, <2>3, <2>4 DEF Listed

(* g differs from h in the list of a and in the neighbours of X.               *)
Frame(g, h, a, X) ==
  /\ \A b \in Items \ {a} : g.child[b] = h.child[b]
  /\ \A x \in Items \ X : g.next[x] = h.next[x] /\ g.prev[x] = h.prev[x]

LEMMA RowAdd ==
  ASSUME NEW h \in Heaps, NEW a \in Items, NEW s, Drawn(h, a, s),
         NEW i \in Items \ ToSet(s), h.next[i] = NULL,
         NEW t, Inserted(t, s, Len(s) + 1, i)
  PROVE  LET g == add_item_to_array(h, a, i)
         IN g \in Heaps /\ Row(g, a, t) /\ Frame(g, h, a, ToSet(s) \cup {i})
  <1> DEFINE g == add_item_to_array(h, a, i)
             N == Len(s)
  <1>1. /\ N \in Nat /\ \A n \in 1..N : s[n] \in Items /\ s[n] # NULL /\ s[n] \in ToSet(s)
        /\ \A p, q \in 1..N : s[p] = s[q] => p = q
        /\ h.child[a] = IF N = 0 THEN NULL ELSE s[1]
        /\ \A n \in 1..N : /\ h.next[s[n]] = IF n = N THEN NULL ELSE s[n + 1]
                           /\ h.prev[s[n]] = IF n = 1 THEN s[N] ELSE s[n - 1]
    <2>1. Listed(h, a, s)
      BY DrawnIs
    <2> QED
      BY <2>1 DEF Listed
  <1>2. /\ Len(t) = N + 1
        /\ \A m \in 1..(N + 1) : t[m] = IF m < N + 1 THEN s[m] ELSE i
    BY <1>1 DEF Inserted
  <1>3. i \in Items /\ \A n \in 1..N : s[n] # i
    BY <1>1
  <1>4. /\ h.next \in [Items -> Items \cup {NULL}] /\ h.prev \in [Items -> Items \cup {NULL}]
        /\ h.child \in [Items -> Items \cup {NULL}]
    BY InHeap
  <1> SUFFICES g \in Heaps /\ Row(g, a, t) /\ Frame(g, h, a, ToSet(s) \cup {i})
    OBVIOUS
  <1>5. CASE N = 0
    <2> DEFINE h1 == Put(h, "child", a, i)
               h2 == Put(h1, "prev", i, i)
    <2>1. g = Put(h2, "next", i, NULL)
      BY <1>1, <1>5 DEF add_item_to_array
    <2>2. /\ h1 \in Heaps /\ h1.child = [h.child EXCEPT ![a] = i]
          /\ h1.next = h.next /\ h1.prev = h.prev
      BY <1>3, PutChild
    <2> HIDE DEF h1
    <2>3. h2 \in Heaps /\ h2.prev = [h1.prev EXCEPT ![i] = i] /\ h2.next = h1.next /\ h2.child = h1.child
      BY <1>3, <2>2, PutPrev
    <2> HIDE DEF h2, g
    <2>4. g \in Heaps /\ g.next = [h2.next EXCEPT ![i] = NULL] /\ g.prev = h2.prev /\ g.child = h2.child
      BY <1>3, <2>1, <2>3, PutNull
    <2>5. g.child[a] = i /\ g.next[i] = NULL /\ g.prev[i] = i
      BY <1>3, <1>4, <2>2, <2>3, <2>4
    <2>6. Row(g, a, t)
      <3>1. Len(t) = 1 /\ t[1] = i
        BY <1>2, <1>5
      <3> QED
        BY <2>5, <3>1 DEF Row, Behind, Before
    <2>7. Frame(g, h, a, ToSet(s) \cup {i})
      BY <1>4, <2>2, <2>3, <2>4 DEF Frame
    <2> QED
      BY <2>4, <2>6, <2>7
  <1>6. CASE N > 0
    <2> DEFINE last == s[N]
               h1 == Put(h, "next", last, i)
               h2 == Put(h1, "prev", i, last)
    <2>1. /\ h.child[a] = s[1] /\ s[1] # NULL /\ h.prev[s[1]] = last /\ last # NULL
          /\ last \in Items /\ s[1] \in Items /\ last \in ToSet(s) /\ s[1] \in ToSet(s)
      BY <1>1, <1>6
    <2>2. g = Put(h2, "prev", s[1], i)
      BY <2>1 DEF add_item_to_array, suffix_object
    <2> HIDE DEF last
    <2>3. /\ h1 \in Heaps /\ h1.next = [h.next EXCEPT ![last] = i]
          /\ h1.prev = h.prev /\ h1.child = h.child
      BY <1>3, <2>1, PutNext
    <2> HIDE DEF h1
    <2>4. h2 \in Heaps /\ h2.prev = [h1.prev EXCEPT ![i] = last] /\ h2.next = h1.next /\ h2.child = h1.child
      BY <1>3, <2>1, <2>3, PutPrev
    <2> HIDE DEF h2, g
    <2>5. g \in Heaps /\ g.prev = [h2.prev EXCEPT ![s[1]] = i] /\ g.next = h2.next /\ g.child = h2.child
      BY <1>3, <2>1, <2>2, <2>4, PutPrev
    <2>6. /\ g.child = h.child
          /\ \A x \in Items : g.next[x] = IF x = last THEN i ELSE h.next[x]
          /\ \A x \in Items : g.prev[x] = IF x = s[1] THEN i ELSE IF x = i THEN last ELSE h.prev[x]
      BY <1>4, <2>3, <2>4, <2>5
    <2>7. Frame(g, h, a, ToSet(s) \cup {i})
      BY <2>1, <2>6 DEF Frame
    <2>8. ASSUME NEW m \in 1..(N + 1)
          PROVE  g.next[t[m]] = Behind(t, m) /\ g.prev[t[m]] = Before(t, m)
      <3>0. last = s[N] /\ N \in 1..N /\ 1 \in 1..N
        BY <1>1, <1>6 DEF last
      <3>1. CASE m = N + 1
        <4>1. t[m] = i /\ m # 1 /\ t[m - 1] = s[N]
          BY <1>1, <1>2, <1>6, <3>1
        <4>2. g.next[i] = NULL /\ g.prev[i] = last
          BY <1>3, <2>1, <2>6, <3>0
        <4> QED
          BY <1>2, <3>0, <3>1, <4>1, <4>2 DEF Behind, Before
      <3>2. CASE m < N + 1
        <4>1. m \in 1..N /\ t[m] = s[m] /\ s[m] # i /\ s[m] \in Items /\ m # N + 1
          BY <1>1, <1>2, <1>3, <3>2
        <4>2. g.next[t[m]] = t[m + 1]
          <5>1. CASE m = N
            <6>1. t[m + 1] = i
              BY <1>1, <1>2, <5>1
            <6> QED
              BY <2>6, <3>0, <4>1, <5>1, <6>1
          <5>2. CASE m # N
            <6>1. t[m + 1] = s[m + 1]
              BY <1>1, <1>2, <4>1, <5>2
            <6>2. s[m] # last
              BY <1>1, <3>0, <4>1, <5>2
            <6>3. g.next[s[m]] = h.next[s[m]]
              BY <2>6, <4>1, <6>2
            <6>4. h.next[s[m]] = s[m + 1]
              BY <1>1, <4>1, <5>2
            <6> QED
              BY <4>1, <6>1, <6>3, <6>4
          <5> QED
            BY <5>1, <5>2
        <4>3. g.prev[t[m]] = Before(t, m)
          <5>1. CASE m = 1
            <6>1. t[Len(t)] = i
              BY <1>1, <1>2
            <6> QED
              BY <2>1, <2>6, <4>1, <5>1, <6>1 DEF Before
          <5>2. CASE m # 1
            <6>1. t[m - 1] = s[m - 1]
              BY <1>1, <1>2, <4>1, <5>2
            <6>2. s[m] # s[1]
              BY <1>1, <3>0, <4>1, <5>2
            <6> QED
              BY <1>1, <2>6, <4>1, <5>2, <6>1, <6>2 DEF Before
          <5> QED
            BY <5>1, <5>2
        <4> QED
          BY <1>2, <4>1, <4>2, <4>3 DEF Behind
      <3> QED
        BY <1>1, <3>1, <3>2
    <2>9. Row(g, a, t)
      <3>1. t[1] = s[1] /\ Len(t) # 0 /\ Len(t) = N + 1
        BY <1>1, <1>2, <1>6
      <3> QED
        BY <2>1, <2>6, <2>8, <3>1 DEF Row
    <2> QED
      BY <2>5, <2>7, <2>9
  <1> QED
    BY <1>1, <1>5, <1>6

LEMMA RowInsert ==
  ASSUME NEW h \in Heaps, NEW a \in Items, NEW s, Drawn(h, a, s),
         NEW i \in Items \ ToSet(s), NEW n \in 1..Len(s), NEW t, Inserted(t, s, n, i)
  PROVE  LET g == InsertBefore(h, a, s[n], i)
         IN g \in Heaps /\ Row(g, a, t) /\ Frame(g, h, a, ToSet(s) \cup {i})
  <1> DEFINE g == InsertBefore(h, a, s[n], i)
             N == Len(s)
             at == s[n]
             h1 == Put(h, "next", i, at)
             h2 == Put(h1, "prev", i, h.prev[at])
             h3 == Put(h2, "prev", at, i)
  <1>1. /\ N \in Nat /\ \A m \in 1..N : s[m] \in Items /\ s[m] # NULL /\ s[m] \in ToSet(s)
        /\ \A p, q \in 1..N : s[p] = s[q] => p = q
        /\ h.child[a] = IF N = 0 THEN NULL ELSE s[1]
        /\ \A m \in 1..N : /\ h.next[s[m]] = IF m = N THEN NULL ELSE s[m + 1]
                           /\ h.prev[s[m]] = IF m = 1 THEN s[N] ELSE s[m - 1]
    <2>1. Listed(h, a, s)
      BY DrawnIs
    <2> QED
      BY <2>1 DEF Listed
  <1>2. Len(t) = N + 1 /\ \A m \in 1..(N + 1) : t[m] = IF m < n THEN s[m] ELSE IF m = n THEN i ELSE s[m - 1]
    BY DEF Inserted
  <1>3. i \in Items /\ (\A m \in 1..N : s[m] # i) /\ n \in Nat /\ 1 =< n /\ n =< N /\ n \in 1..N /\ 1 \in 1..N
    BY <1>1
  <1>4. /\ h.next \in [Items -> Items \cup {NULL}] /\ h.prev \in [Items -> Items \cup {NULL}]
        /\ h.child \in [Items -> Items \cup {NULL}]
    BY InHeap
  <1>5. /\ at \in Items /\ at # i /\ at \in ToSet(s)
        /\ h.prev[at] = IF n = 1 THEN s[N] ELSE s[n - 1]
        /\ (at = h.child[a] <=> n = 1)
    BY <1>1, <1>3
  <1>6. h.prev[at] \in Items
    BY <1>1, <1>3, <1>5
  <1>7. /\ h1 \in Heaps /\ h1.next = [h.next EXCEPT ![i] = at] /\ h1.prev = h.prev /\ h1.child = h.child
    BY <1>3, <1>5, PutNext
  <1>8. g = IF at = h.child[a] THEN Put(h3, "child", a, i) ELSE Put(h3, "next", h.prev[at], i)
    BY DEF InsertBefore
  <1> HIDE DEF h1, at, g
  <1>9. /\ h2 \in Heaps /\ h2.prev = [h1.prev EXCEPT ![i] = h.prev[at]]
        /\ h2.next = h1.next /\ h2.child = h1.child
    BY <1>3, <1>6, <1>7, PutPrev
  <1> HIDE DEF h2
  <1>10. h3 \in Heaps /\ h3.prev = [h2.prev EXCEPT ![at] = i] /\ h3.next = h2.next /\ h3.child = h2.child
    BY <1>3, <1>5, <1>9, PutPrev
  <1> HIDE DEF h3
  <1>11. /\ g \in Heaps
         /\ g.next = IF n = 1 THEN h3.next ELSE [h3.next EXCEPT ![h.prev[at]] = i]
         /\ g.prev = h3.prev
         /\ g.child = IF n = 1 THEN [h3.child EXCEPT ![a] = i] ELSE h3.child
    <2>1. CASE n = 1
      BY <1>3, <1>5, <1>8, <1>10, <2>1, PutChild
    <2>2. CASE n # 1
      BY <1>3, <1>5, <1>6, <1>8, <1>10, <2>2, PutNext
    <2> QED
      BY <2>1, <2>2
  <1>12. \A x \in Items : g.prev[x] = IF x = at THEN i ELSE IF x = i THEN h.prev[at] ELSE h.prev[x]
    BY <1>4, <1>7, <1>9, <1>10, <1>11
  <1>13. \A x \in Items :
           g.next[x] = IF n # 1 /\ x = h.prev[at] THEN i ELSE IF x = i THEN at ELSE h.next[x]
    BY <1>4, <1>7, <1>9, <1>10, <1>11
  <1>14. \A b \in Items : g.child[b] = IF n = 1 /\ b = a THEN i ELSE h.child[b]
    BY <1>4, <1>7, <1>9, <1>10, <1>11
  <1>15. h.prev[at] \in ToSet(s)
    BY <1>1, <1>3, <1>5
  <1>16. Frame(g, h, a, ToSet(s) \cup {i})
    BY <1>5, <1>12, <1>13, <1>14, <1>15 DEF Frame
  <1>17. ASSUME NEW m \in 1..(N + 1)
         PROVE  g.next[t[m]] = Behind(t, m) /\ g.prev[t[m]] = Before(t, m)
    <2>0. at = s[n] /\ (n # 1 => n - 1 \in 1..N /\ h.prev[at] = s[n - 1]) /\ (n = 1 => h.prev[at] = s[N])
      BY <1>1, <1>3, <1>5 DEF at
    <2>1. CASE m = n
      <3>1. t[m] = i /\ m # N + 1 /\ t[m + 1] = at
        BY <1>1, <1>2, <1>3, <2>0, <2>1
      <3>2. h.prev[at] # i
        BY <1>3, <1>15
      <3>3. g.next[i] = at /\ g.prev[i] = h.prev[at]
        BY <1>3, <1>5, <1>12, <1>13, <3>2
      <3>4. h.prev[at] = Before(t, m)
        <4>1. CASE n = 1
          <5>1. t[N + 1] = s[N]
            BY <1>1, <1>2, <1>3, <4>1
          <5> QED
            BY <1>2, <2>0, <2>1, <4>1, <5>1 DEF Before
        <4>2. CASE n # 1
          <5>1. t[m - 1] = s[n - 1]
            BY <1>1, <1>2, <1>3, <2>1, <4>2
          <5> QED
            BY <2>0, <2>1, <4>2, <5>1 DEF Before
        <4> QED
          BY <4>1, <4>2
      <3> QED
        BY <1>2, <3>1, <3>3, <3>4 DEF Behind
    <2>2. CASE m < n
      <3>1. m \in 1..N /\ m + 1 \in 1..N /\ m # N /\ m # N + 1 /\ t[m] = s[m] /\ s[m] \in Items /\ n # 1
        BY <1>1, <1>2, <1>3, <2>2
      <3>2. s[m] # i /\ s[m] # at
        BY <1>1, <1>3, <2>0, <2>2, <3>1
      <3>3. g.next[s[m]] = t[m + 1]
        <4>1. CASE m = n - 1
          <5>1. t[m + 1] = i /\ s[m] = h.prev[at]
            BY <1>2, <1>3, <2>0, <3>1, <4>1
          <5> QED
            BY <1>13, <3>1, <5>1
        <4>2. CASE m # n - 1
          <5>1. t[m + 1] = s[m + 1]
            BY <1>1, <1>2, <1>3, <2>2, <3>1, <4>2
          <5>2. s[m] # h.prev[at]
            BY <1>1, <2>0, <3>1, <4>2
          <5>3. g.next[s[m]] = h.next[s[m]]
            BY <1>13, <3>1, <3>2, <5>2
          <5>4. h.next[s[m]] = s[m + 1]
            BY <1>1, <3>1
          <5> QED
            BY <5>1, <5>3, <5>4
        <4> QED
          BY <4>1, <4>2
      <3>4. g.prev[s[m]] = Before(t, m)
        <4>1. g.prev[s[m]] = h.prev[s[m]]
          BY <1>12, <3>1, <3>2
        <4>2. CASE m = 1
          <5>1. t[N + 1] = s[N]
            BY <1>1, <1>2, <1>3
          <5>2. h.prev[s[m]] = s[N]
            BY <1>1, <3>1, <4>2
          <5> QED
            BY <1>2, <4>1, <4>2, <5>1, <5>2 DEF Before
        <4>3. CASE m # 1
          <5>1. t[m - 1] = s[m - 1]
            BY <1>1, <1>2, <1>3, <2>2, <3>1, <4>3
          <5>2. h.prev[s[m]] = s[m - 1]
            BY <1>1, <3>1, <4>3
          <5> QED
            BY <4>1, <4>3, <5>1, <5>2 DEF Before
        <4> QED
          BY <4>2, <4>3
      <3> QED
        BY <1>2, <3>1, <3>3, <3>4 DEF Behind
    <2>3. CASE m > n
      <3>1. m - 1 \in 1..N /\ m # 1 /\ t[m] = s[m - 1] /\ s[m - 1] \in Items
        BY <1>1, <1>2, <1>3, <2>3
      <3>2. s[m - 1] # i
        BY <1>3, <3>1
      <3>3. ~ (n # 1 /\ s[m - 1] = h.prev[at])
        BY <1>1, <1>3, <2>0, <2>3, <3>1
      <3>4. g.next[s[m - 1]] = Behind(t, m)
        <4>1. g.next[s[m - 1]] = h.next[s[m - 1]]
          BY <1>13, <3>1, <3>2, <3>3
        <4>2. CASE m = N + 1
          <5>1. h.next[s[m - 1]] = NULL
            BY <1>1, <3>1, <4>2
          <5> QED
            BY <1>2, <4>1, <4>2, <5>1 DEF Behind
        <4>3. CASE m # N + 1
          <5>1. h.next[s[m - 1]] = s[(m - 1) + 1]
            BY <1>1, <3>1, <4>3
          <5>2. t[m + 1] = s[m] /\ (m - 1) + 1 = m
            BY <1>1, <1>2, <1>3, <2>3, <4>3
          <5> QED
            BY <1>2, <4>1, <4>3, <5>1, <5>2 DEF Behind
        <4> QED
          BY <4>2, <4>3
      <3>5. g.prev[s[m - 1]] = t[m - 1]
        <4>1. CASE m - 1 = n
          <5>1. t[m - 1] = i /\ s[m - 1] = at
            BY <1>1, <1>2, <1>3, <2>0, <4>1
          <5> QED
            BY <1>5, <1>12, <5>1
        <4>2. CASE m - 1 # n
          <5>1. t[m - 1] = s[(m - 1) - 1] /\ m - 1 # 1
            <6>1. m - 1 \in 1..(N + 1) /\ ~ (m - 1 < n) /\ m - 1 # 1
              BY <1>1, <1>3, <2>3, <3>1, <4>2
            <6> QED
              BY <1>2, <4>2, <6>1
          <5>2. s[m - 1] # at
            BY <1>1, <1>3, <2>0, <3>1, <4>2
          <5>3. g.prev[s[m - 1]] = h.prev[s[m - 1]]
            BY <1>12, <3>1, <3>2, <5>2
          <5>4. h.prev[s[m - 1]] = s[(m - 1) - 1]
            BY <1>1, <3>1, <5>1
          <5> QED
            BY <5>1, <5>3, <5>4
        <4> QED
          BY <4>1, <4>2
      <3> QED
        BY <3>1, <3>4, <3>5 DEF Before
    <2> QED
      BY <1>3, <2>1, <2>2, <2>3
  <1>18. Row(g, a, t)
    <2>1. g.child[a] = t[1] /\ Len(t) # 0
      <3>1. CASE n = 1
        BY <1>1, <1>2, <1>14, <3>1
      <3>2. CASE n # 1
        <4>1. t[1] = s[1]
          BY <1>1, <1>2, <1>3, <3>2
        <4> QED
          BY <1>1, <1>2, <1>3, <1>14, <3>2, <4>1
      <3> QED
        BY <3>1, <3>2
    <2> QED
      BY <1>2, <1>17, <2>1 DEF Row
  <1> QED
    BY <1>11, <1>16, <1>18 DEF g, at

LEMMA RowDetach ==
  ASSUME NEW h \in Heaps, NEW a \in Items, NEW s, Drawn(h, a, s),
         NEW n \in 1..Len(s), NEW t, Removed(t, s, n)
  PROVE  LET g == DetachItemViaPointer(h, a, s[n])
         IN /\ g \in Heaps /\ Row(g, a, t) /\ Frame(g, h, a, ToSet(s))
            /\ g.next[s[n]] = NULL /\ g.prev[s[n]] = NULL
  <1> DEFINE N == Len(s)
             i == s[n]
             g == DetachItemViaPointer(h, a, i)
             h1 == IF n # 1 THEN Put(h, "next", h.prev[i], h.next[i]) ELSE h
             h2 == IF n # N THEN Put(h1, "prev", h.next[i], h.prev[i]) ELSE h1
             h3 == IF n = 1 THEN Put(h2, "child", a, h.next[i])
                   ELSE IF n = N THEN Put(h2, "prev", h.child[a], h.prev[i]) ELSE h2
             h4 == Put(h3, "prev", i, NULL)
  <1>1. /\ N \in Nat /\ \A m \in 1..N : s[m] \in Items /\ s[m] # NULL /\ s[m] \in ToSet(s)
        /\ \A p, q \in 1..N : s[p] = s[q] => p = q
        /\ h.child[a] = IF N = 0 THEN NULL ELSE s[1]
        /\ \A m \in 1..N : /\ h.next[s[m]] = IF m = N THEN NULL ELSE s[m + 1]
                           /\ h.prev[s[m]] = IF m = 1 THEN s[N] ELSE s[m - 1]
    <2>1. Listed(h, a, s)
      BY DrawnIs
    <2> QED
      BY <2>1 DEF Listed
  <1>2. Len(t) = N - 1 /\ \A m \in 1..(N - 1) : t[m] = IF m < n THEN s[m] ELSE s[m + 1]
    BY DEF Removed
  <1>3. n \in Nat /\ 1 =< n /\ n =< N /\ n \in 1..N /\ 1 \in 1..N
    BY <1>1
  <1>4. /\ h.next \in [Items -> Items \cup {NULL}] /\ h.prev \in [Items -> Items \cup {NULL}]
        /\ h.child \in [Items -> Items \cup {NULL}]
    BY InHeap
  <1>5. /\ i \in Items /\ i \in ToSet(s) /\ h.child[a] = s[1] /\ s[1] \in Items /\ s[1] \in ToSet(s)
        /\ (i = h.child[a] <=> n = 1)
    BY <1>1, <1>3
  <1>6. /\ h.prev[i] = IF n = 1 THEN s[N] ELSE s[n - 1]
        /\ h.next[i] = IF n = N THEN NULL ELSE s[n + 1]
    BY <1>1, <1>3
  <1>7. /\ h.prev[i] \in Items /\ h.prev[i] \in ToSet(s)
        /\ h.next[i] \in Items \cup {NULL} /\ (n # N => h.next[i] \in Items /\ h.next[i] \in ToSet(s))
        /\ (h.next[i] = NULL <=> n = N)
    BY <1>1, <1>3, <1>6
  <1>8. g = Put(h4, "next", i, NULL)
    BY <1>5, <1>7 DEF DetachItemViaPointer
  <1>9. /\ h1 \in Heaps /\ h1.prev = h.prev /\ h1.child = h.child
        /\ h1.next = IF n # 1 THEN [h.next EXCEPT ![h.prev[i]] = h.next[i]] ELSE h.next
    <2>1. CASE n # 1
      BY <1>7, <2>1, PutNext
    <2>2. CASE n = 1
      BY <2>2
    <2> QED
      BY <2>1, <2>2
  <1> HIDE DEF h1, g, i
  <1>10. /\ h2 \in Heaps /\ h2.next = h1.next /\ h2.child = h.child
         /\ h2.prev = IF n # N THEN [h.prev EXCEPT ![h.next[i]] = h.prev[i]] ELSE h.prev
    <2>1. CASE n # N
      BY <1>7, <1>9, <2>1, PutPrev
    <2>2. CASE n = N
      BY <1>9, <2>2
    <2> QED
      BY <2>1, <2>2
  <1> HIDE DEF h2
  <1>11. /\ h3 \in Heaps /\ h3.next = h2.next
         /\ h3.child = IF n = 1 THEN [h.child EXCEPT ![a] = h.next[i]] ELSE h.child
         /\ h3.prev = IF n # 1 /\ n = N THEN [h2.prev EXCEPT ![s[1]] = h.prev[i]] ELSE h2.prev
    <2>1. CASE n = 1
      BY <1>7, <1>10, <2>1, PutChild
    <2>2. CASE n # 1 /\ n = N
      <3>1. h3 = Put(h2, "prev", s[1], h.prev[i])
        BY <1>5, <2>2
      <3> QED
        BY <1>5, <1>7, <1>10, <2>2, <3>1, PutPrev
    <2>3. CASE n # 1 /\ n # N
      BY <1>10, <2>3
    <2> QED
      BY <2>1, <2>2, <2>3
  <1> HIDE DEF h3
  <1>12. h4 \in Heaps /\ h4.prev = [h3.prev EXCEPT ![i] = NULL] /\ h4.next = h3.next /\ h4.child = h3.child
    BY <1>5, <1>11, PutNull
  <1> HIDE DEF h4
  <1>13. g \in Heaps /\ g.next = [h4.next EXCEPT ![i] = NULL] /\ g.prev = h4.prev /\ g.child = h4.child
    BY <1>5, <1>8, <1>12, PutNull
  <1>14. \A x \in Items :
           g.next[x] = IF x = i THEN NULL ELSE IF n # 1 /\ x = h.prev[i] THEN h.next[i] ELSE h.next[x]
    BY <1>4, <1>9, <1>10, <1>11, <1>12, <1>13
  <1>15. \A x \in Items :
           g.prev[x] = IF x = i THEN NULL
                       ELSE IF n # 1 /\ n = N /\ x = s[1] THEN h.prev[i]
                       ELSE IF n # N /\ x = h.next[i] THEN h.prev[i] ELSE h.prev[x]
    <2>1. \A x \in Items : h2.prev[x] = IF n # N /\ x = h.next[i] THEN h.prev[i] ELSE h.prev[x]
      BY <1>4, <1>10
    <2>2. h2.prev \in [Items -> Items \cup {NULL}]
      BY <1>10, InHeap
    <2>3. \A x \in Items : h3.prev[x] = IF n # 1 /\ n = N /\ x = s[1] THEN h.prev[i] ELSE h2.prev[x]
      BY <1>11, <2>2
    <2>4. h3.prev \in [Items -> Items \cup {NULL}]
      BY <1>11, InHeap
    <2>5. \A x \in Items : g.prev[x] = IF x = i THEN NULL ELSE h3.prev[x]
      BY <1>12, <1>13, <2>4
    <2> QED
      BY <2>1, <2>3, <2>5
  <1>16. \A b \in Items : g.child[b] = IF n = 1 /\ b = a THEN h.next[i] ELSE h.child[b]
    BY <1>4, <1>11, <1>12, <1>13
  <1>17. Frame(g, h, a, ToSet(s))
    <2>1. \A b \in Items \ {a} : g.child[b] = h.child[b]
      BY <1>16
    <2>2. ASSUME NEW x \in Items \ ToSet(s) PROVE g.next[x] = h.next[x] /\ g.prev[x] = h.prev[x]
      BY <1>5, <1>7, <1>14, <1>15
    <2> QED
      BY <2>1, <2>2 DEF Frame
  <1>18. ASSUME NEW m \in 1..(N - 1)
         PROVE  g.next[t[m]] = Behind(t, m) /\ g.prev[t[m]] = Before(t, m)
    <2>0. /\ i = s[n] /\ (n # 1 => n - 1 \in 1..N /\ h.prev[i] = s[n - 1]) /\ (n = 1 => h.prev[i] = s[N])
          /\ (n # N => n + 1 \in 1..N /\ h.next[i] = s[n + 1]) /\ m \in Nat /\ 1 =< m /\ m + 1 \in 1..N /\ m \in 1..N
      BY <1>1, <1>3, <1>6 DEF i
    <2>1. CASE m < n
      <3>1. t[m] = s[m] /\ s[m] \in Items /\ n # 1 /\ m # N /\ s[m] # i
        BY <1>1, <1>2, <1>3, <2>0, <2>1
      <3>2. g.next[s[m]] = Behind(t, m)
        <4>1. CASE m = n - 1
          <5>1. s[m] = h.prev[i] /\ g.next[s[m]] = h.next[i]
            BY <1>3, <1>14, <2>0, <3>1, <4>1
          <5>2. CASE n = N
            BY <1>2, <1>6, <4>1, <5>1, <5>2 DEF Behind
          <5>3. CASE n # N
            <6>1. t[m + 1] = s[n + 1] /\ m # N - 1
              BY <1>1, <1>2, <1>3, <2>0, <4>1, <5>3
            <6> QED
              BY <1>2, <2>0, <5>1, <5>3, <6>1 DEF Behind
          <5> QED
            BY <5>2, <5>3
        <4>2. CASE m # n - 1
          <5>1. t[m + 1] = s[m + 1] /\ m # N - 1
            BY <1>1, <1>2, <1>3, <2>0, <2>1, <4>2
          <5>2. s[m] # h.prev[i]
            <6>1. h.prev[i] = s[n - 1] /\ n - 1 \in 1..N /\ m \in 1..N
              BY <2>0, <3>1
            <6>2. \A p, q \in 1..N : s[p] = s[q] => p = q
              BY <1>1
            <6> QED
              BY <4>2, <6>1, <6>2
          <5>3. g.next[s[m]] = h.next[s[m]] /\ h.next[s[m]] = s[m + 1]
            BY <1>1, <1>14, <2>0, <3>1, <5>2
          <5> QED
            BY <1>2, <5>1, <5>3 DEF Behind
        <4> QED
          BY <4>1, <4>2
      <3>3. g.prev[s[m]] = Before(t, m)
        <4>1. ~ (n # N /\ s[m] = h.next[i])
          BY <1>1, <1>3, <2>0, <2>1
        <4>2. CASE m = 1
          <5>1. CASE n = N
            <6>1. g.prev[s[m]] = s[n - 1]
              BY <1>15, <2>0, <3>1, <4>2, <5>1
            <6>2. t[N - 1] = s[N - 1]
              BY <1>1, <1>2, <1>3, <2>0, <5>1
            <6> QED
              BY <1>2, <4>2, <5>1, <6>1, <6>2 DEF Before
          <5>2. CASE n # N
            <6>1. g.prev[s[m]] = h.prev[s[m]] /\ h.prev[s[m]] = s[N]
              BY <1>1, <1>15, <2>0, <3>1, <4>1, <4>2, <5>2
            <6>2. t[N - 1] = s[N]
              <7>1. N - 1 \in 1..(N - 1) /\ ~ (N - 1 < n) /\ (N - 1) + 1 = N
                BY <1>1, <1>3, <2>0, <5>2
              <7> QED
                BY <1>2, <7>1
            <6> QED
              BY <1>2, <4>2, <6>1, <6>2 DEF Before
          <5> QED
            BY <5>1, <5>2
        <4>3. CASE m # 1
          <5>1. s[m] # s[1]
            BY <1>1, <1>3, <2>0, <4>3
          <5>2. g.prev[s[m]] = h.prev[s[m]] /\ h.prev[s[m]] = s[m - 1]
            BY <1>1, <1>15, <2>0, <3>1, <4>1, <4>3, <5>1
          <5>3. t[m - 1] = s[m - 1]
            BY <1>1, <1>2, <1>3, <2>0, <2>1, <4>3
          <5> QED
            BY <4>3, <5>2, <5>3 DEF Before
        <4> QED
          BY <4>2, <4>3
      <3> QED
        BY <3>1, <3>2, <3>3
    <2>2. CASE m >= n
      <3>1. t[m] = s[m + 1] /\ s[m + 1] \in Items /\ n # N /\ s[m + 1] # i /\ m + 1 # 1 /\ (m + 1) - 1 = m
        <4>1. ~ (m < n) /\ n # N /\ m + 1 # n
          BY <1>1, <1>3, <2>0, <2>2
        <4> QED
          BY <1>1, <1>2, <1>3, <2>0, <4>1
      <3>2. g.next[s[m + 1]] = Behind(t, m)
        <4>1. ~ (n # 1 /\ s[m + 1] = h.prev[i])
          BY <1>1, <1>3, <2>0, <2>2
        <4>2. g.next[s[m + 1]] = h.next[s[m + 1]]
          BY <1>14, <3>1, <4>1
        <4>3. CASE m = N - 1
          <5>1. h.next[s[m + 1]] = NULL
            BY <1>1, <2>0, <4>3
          <5> QED
            BY <1>2, <4>2, <4>3, <5>1 DEF Behind
        <4>4. CASE m # N - 1
          <5>1. m + 1 \in 1..(N - 1) /\ ~ (m + 1 < n) /\ m + 1 # N
            BY <1>1, <1>3, <2>0, <2>2, <4>4
          <5>2. t[m + 1] = s[(m + 1) + 1] /\ h.next[s[m + 1]] = s[(m + 1) + 1]
            BY <1>1, <1>2, <2>0, <5>1
          <5> QED
            BY <1>2, <4>2, <4>4, <5>2 DEF Behind
        <4> QED
          BY <4>3, <4>4
      <3>3. g.prev[s[m + 1]] = Before(t, m)
        <4>0. ~ (n # 1 /\ n = N /\ s[m + 1] = s[1])
          BY <3>1
        <4>1. CASE m = n
          <5>1. s[m + 1] = h.next[i] /\ g.prev[s[m + 1]] = h.prev[i]
            BY <1>15, <2>0, <3>1, <4>0, <4>1
          <5>2. CASE n = 1
            <6>1. t[N - 1] = s[N]
              <7>1. N - 1 \in 1..(N - 1) /\ ~ (N - 1 < n) /\ (N - 1) + 1 = N
                BY <1>1, <1>3, <2>0, <3>1
              <7> QED
                BY <1>2, <7>1
            <6> QED
              BY <1>2, <2>0, <4>1, <5>1, <5>2, <6>1 DEF Before
          <5>3. CASE n # 1
            <6>1. t[m - 1] = s[n - 1]
              BY <1>1, <1>2, <1>3, <2>0, <4>1, <5>3
            <6> QED
              BY <2>0, <4>1, <5>1, <5>3, <6>1 DEF Before
          <5> QED
            BY <5>2, <5>3
        <4>2. CASE m # n
          <5>1. s[m + 1] # h.next[i]
            BY <1>1, <2>0, <3>1, <4>2
          <5>2. g.prev[s[m + 1]] = h.prev[s[m + 1]]
            BY <1>15, <3>1, <4>0, <5>1
          <5>3. h.prev[s[m + 1]] = s[m]
            BY <1>1, <2>0, <3>1
          <5>4. m # 1 /\ m - 1 \in 1..(N - 1) /\ ~ (m - 1 < n) /\ (m - 1) + 1 = m
            <6>1. N \in Nat /\ n \in Nat /\ 1 =< n /\ m \in Nat /\ m =< N - 1
              BY <1>1, <1>3, <2>0
            <6>2. m > n
              BY <2>2, <4>2, <6>1
            <6> QED
              BY <6>1, <6>2
          <5>5. t[m - 1] = s[(m - 1) + 1]
            BY <1>2, <5>4
          <5> QED
            BY <5>2, <5>3, <5>4, <5>5 DEF Before
        <4> QED
          BY <4>1, <4>2
      <3> QED
        BY <3>1, <3>2, <3>3
    <2> QED
      BY <1>3, <2>0, <2>1, <2>2
  <1>19. Row(g, a, t)
    <2>1. g.child[a] = IF Len(t) = 0 THEN NULL ELSE t[1]
      <3>1. CASE n = 1 /\ N = 1
        BY <1>2, <1>6, <1>16, <3>1
      <3>2. CASE n = 1 /\ N # 1
        <4>1. 1 \in 1..(N - 1) /\ ~ (1 < n) /\ t[1] = s[2]
          BY <1>1, <1>2, <1>3, <3>2
        <4> QED
          BY <1>2, <1>3, <1>6, <1>16, <3>2, <4>1
      <3>3. CASE n # 1
        <4>1. 1 \in 1..(N - 1) /\ t[1] = s[1]
          BY <1>1, <1>2, <1>3, <3>3
        <4> QED
          BY <1>1, <1>2, <1>3, <1>5, <1>16, <3>3, <4>1
      <3> QED
        BY <3>1, <3>2, <3>3
    <2> QED
      BY <1>2, <1>18, <2>1 DEF Row
  <1>20. g.next[i] = NULL /\ g.prev[i] = NULL
    BY <1>5, <1>14, <1>15
  <1> QED
    BY <1>13, <1>17, <1>19, <1>20 DEF g, i

(* i stands for the n-th item of the list.                                     *)
Swapped(t, s, n, i) ==
  Len(t) = Len(s) /\ \A m \in 1..Len(s) : t[m] = IF m = n THEN i ELSE s[m]

ReplacedRow(g, h, a, t, X, old) ==
  /\ g \in Heaps /\ Row(g, a, t) /\ Frame(g, h, a, X)
  /\ g.next[old] = NULL /\ g.prev[old] = NULL

LEMMA RowReplace ==
  ASSUME NEW h \in Heaps, NEW a \in Items, NEW s, Drawn(h, a, s),
         NEW n \in 1..Len(s), NEW i \in Items \ ToSet(s),
         NEW t, Swapped(t, s, n, i)
  PROVE  ReplacedRow(Replaced(h, a, s[n], i), h, a, t, ToSet(s) \cup {i}, s[n])
  <1> DEFINE N == Len(s)
             old == s[n]
             g == Replaced(h, a, old, i)
             h1 == Put(h, "next", i, h.next[old])
             h2 == Put(h1, "prev", i, h.prev[old])
             h3 == IF n # N THEN Put(h2, "prev", h.next[old], i) ELSE h2
             h4 == IF n = 1 THEN IF N = 1 THEN Put(h3, "prev", i, i) ELSE h3
                   ELSE Put(h3, "next", h.prev[old], i)
             h5 == IF n = 1 THEN Put(h4, "child", a, i)
                   ELSE IF n = N THEN Put(h4, "prev", h.child[a], i) ELSE h4
             h6 == Put(h5, "next", old, NULL)
  <1>1. /\ N \in Nat /\ \A m \in 1..N : s[m] \in Items /\ s[m] # NULL /\ s[m] \in ToSet(s)
        /\ \A p, q \in 1..N : s[p] = s[q] => p = q
        /\ h.child[a] = IF N = 0 THEN NULL ELSE s[1]
        /\ \A m \in 1..N : /\ h.next[s[m]] = IF m = N THEN NULL ELSE s[m + 1]
                           /\ h.prev[s[m]] = IF m = 1 THEN s[N] ELSE s[m - 1]
    <2>1. Listed(h, a, s)
      BY DrawnIs
    <2> QED
      BY <2>1 DEF Listed
  <1>2. Len(t) = N /\ \A m \in 1..N : t[m] = IF m = n THEN i ELSE s[m]
    BY DEF Swapped
  <1>3. /\ n \in Nat /\ 1 =< n /\ n =< N /\ n \in 1..N /\ 1 \in 1..N
        /\ i \in Items /\ \A m \in 1..N : s[m] # i
    BY <1>1
  <1>4. /\ h.next \in [Items -> Items \cup {NULL}] /\ h.prev \in [Items -> Items \cup {NULL}]
        /\ h.child \in [Items -> Items \cup {NULL}]
    BY InHeap
  <1>5. /\ old \in Items /\ old \in ToSet(s) /\ h.child[a] = s[1] /\ s[1] \in Items /\ s[1] \in ToSet(s)
        /\ (h.child[a] = old <=> n = 1) /\ old # i
    BY <1>1, <1>3
  <1>6. /\ h.prev[old] = IF n = 1 THEN s[N] ELSE s[n - 1]
        /\ h.next[old] = IF n = N THEN NULL ELSE s[n + 1]
    BY <1>1, <1>3
  <1>7. /\ h.prev[old] \in Items /\ h.prev[old] \in ToSet(s) /\ h.prev[old] # NULL /\ h.prev[old] # i
        /\ h.next[old] \in Items \cup {NULL} /\ (n # N => h.next[old] \in Items /\ h.next[old] \in ToSet(s))
        /\ (h.next[old] = NULL <=> n = N)
    BY <1>1, <1>3, <1>6
  <1>8. n = 1 => (h.prev[old] = old <=> N = 1)
    <2> SUFFICES ASSUME n = 1 PROVE s[N] = s[1] <=> N = 1
      BY <1>6
    <2>1. N \in 1..N
      BY <1>1, <1>3
    <2> QED
      BY <1>1, <1>3, <2>1
  <1>9. g = Put(h6, "prev", old, NULL)
    <2> DEFINE last == IF n = N THEN Put(Put(h3, "next", h.prev[old], i), "prev", h.child[a], i)
                       ELSE Put(h3, "next", h.prev[old], i)
               only == IF h.prev[old] = old THEN Put(h3, "prev", i, i) ELSE h3
    <2>1. InPlaceOf(h, a, old, i) = IF n = 1 THEN Put(only, "child", a, i) ELSE last
      BY <1>5, <1>7 DEF InPlaceOf
    <2>2. InPlaceOf(h, a, old, i) = h5
      BY <1>8, <2>1
    <2> QED
      BY <2>2 DEF Replaced
  <1>10. /\ h1 \in Heaps /\ h1.next = [h.next EXCEPT ![i] = h.next[old]] /\ h1.prev = h.prev /\ h1.child = h.child
    <2> DEFINE v == h.next[old]
    <2>1. v \in Items \cup {NULL}
      BY <1>7
    <2>2. h1 = Put(h, "next", i, v)
      OBVIOUS
    <2> HIDE DEF v, h1, old
    <2>3. /\ Put(h, "next", i, v) \in Heaps /\ Put(h, "next", i, v).next = [h.next EXCEPT ![i] = v]
          /\ Put(h, "next", i, v).prev = h.prev /\ Put(h, "next", i, v).child = h.child
      BY <1>3, <2>1, PutNext
    <2> QED
      BY <2>2, <2>3 DEF v
  <1> HIDE DEF h1, g, old
  <1>11. /\ h2 \in Heaps /\ h2.prev = [h.prev EXCEPT ![i] = h.prev[old]]
         /\ h2.next = h1.next /\ h2.child = h.child
    BY <1>3, <1>7, <1>10, PutPrev
  <1> HIDE DEF h2
  <1>12. /\ h3 \in Heaps /\ h3.next = h1.next /\ h3.child = h.child
         /\ h3.prev = IF n # N THEN [h2.prev EXCEPT ![h.next[old]] = i] ELSE h2.prev
    <2>1. CASE n # N
      <3>1. h3 = Put(h2, "prev", h.next[old], i) /\ h.next[old] \in Items /\ i \in Items \cup {NULL}
        BY <1>3, <1>7, <2>1
      <3> DEFINE v == h.next[old]
      <3> HIDE DEF h3, v
      <3>2. /\ Put(h2, "prev", v, i) \in Heaps /\ Put(h2, "prev", v, i).prev = [h2.prev EXCEPT ![v] = i]
            /\ Put(h2, "prev", v, i).next = h2.next /\ Put(h2, "prev", v, i).child = h2.child
        <4>1. v \in Items /\ i \in Items \cup {NULL} /\ h2 \in Heaps
          BY <1>11, <3>1 DEF v
        <4> QED
          BY <4>1, PutPrev
      <3> QED
        BY <1>11, <2>1, <3>1, <3>2 DEF v
    <2>2. CASE n = N
      BY <1>11, <2>2
    <2> QED
      BY <2>1, <2>2
  <1> HIDE DEF h3
  <1>13. /\ h4 \in Heaps /\ h4.child = h.child
         /\ h4.next = IF n # 1 THEN [h1.next EXCEPT ![h.prev[old]] = i] ELSE h1.next
         /\ h4.prev = IF N = 1 THEN [h3.prev EXCEPT ![i] = i] ELSE h3.prev
    <2>1. CASE n # 1
      BY <1>3, <1>7, <1>12, <2>1, PutNext
    <2>2. CASE n = 1 /\ N = 1
      BY <1>3, <1>12, <2>2, PutPrev
    <2>3. CASE n = 1 /\ N # 1
      BY <1>12, <2>3
    <2> QED
      BY <2>1, <2>2, <2>3
  <1> HIDE DEF h4
  <1>14. /\ h5 \in Heaps /\ h5.next = h4.next
         /\ h5.child = IF n = 1 THEN [h.child EXCEPT ![a] = i] ELSE h.child
         /\ h5.prev = IF n # 1 /\ n = N THEN [h4.prev EXCEPT ![s[1]] = i] ELSE h4.prev
    <2>1. CASE n = 1
      BY <1>3, <1>13, <2>1, PutChild
    <2>2. CASE n # 1 /\ n = N
      <3>1. h5 = Put(h4, "prev", s[1], i)
        BY <1>5, <2>2
      <3> QED
        BY <1>3, <1>5, <1>13, <2>2, <3>1, PutPrev
    <2>3. CASE n # 1 /\ n # N
      BY <1>13, <2>3
    <2> QED
      BY <2>1, <2>2, <2>3
  <1> HIDE DEF h5
  <1>15. h6 \in Heaps /\ h6.next = [h5.next EXCEPT ![old] = NULL] /\ h6.prev = h5.prev /\ h6.child = h5.child
    BY <1>5, <1>14, PutNull
  <1> HIDE DEF h6
  <1>16. g \in Heaps /\ g.prev = [h6.prev EXCEPT ![old] = NULL] /\ g.next = h6.next /\ g.child = h6.child
    BY <1>5, <1>9, <1>15, PutNull
  <1>17. \A x \in Items :
           g.next[x] = IF x = old THEN NULL ELSE IF n # 1 /\ x = h.prev[old] THEN i
                       ELSE IF x = i THEN h.next[old] ELSE h.next[x]
    <2>1. \A x \in Items : h1.next[x] = IF x = i THEN h.next[old] ELSE h.next[x]
      BY <1>4, <1>10
    <2>2. h1.next \in [Items -> Items \cup {NULL}]
      BY <1>10, InHeap
    <2>3. \A x \in Items : h5.next[x] = IF n # 1 /\ x = h.prev[old] THEN i ELSE h1.next[x]
      BY <1>13, <1>14, <2>2
    <2>4. h5.next \in [Items -> Items \cup {NULL}]
      BY <1>14, InHeap
    <2>5. \A x \in Items : g.next[x] = IF x = old THEN NULL ELSE h5.next[x]
      BY <1>15, <1>16, <2>4
    <2> QED
      BY <2>1, <2>3, <2>5
  <1>18. \A x \in Items :
           g.prev[x] = IF x = old THEN NULL
                       ELSE IF n # 1 /\ n = N /\ x = s[1] THEN i
                       ELSE IF N = 1 /\ x = i THEN i
                       ELSE IF n # N /\ x = h.next[old] THEN i
                       ELSE IF x = i THEN h.prev[old] ELSE h.prev[x]
    <2>1. \A x \in Items : h2.prev[x] = IF x = i THEN h.prev[old] ELSE h.prev[x]
      BY <1>4, <1>11
    <2>2. h2.prev \in [Items -> Items \cup {NULL}]
      BY <1>11, InHeap
    <2>3. \A x \in Items : h3.prev[x] = IF n # N /\ x = h.next[old] THEN i ELSE h2.prev[x]
      BY <1>12, <2>2
    <2>4. h3.prev \in [Items -> Items \cup {NULL}]
      BY <1>12, InHeap
    <2>5. \A x \in Items : h4.prev[x] = IF N = 1 /\ x = i THEN i ELSE h3.prev[x]
      BY <1>13, <2>4
    <2>6. h4.prev \in [Items -> Items \cup {NULL}]
      BY <1>13, InHeap
    <2>7. \A x \in Items : h5.prev[x] = IF n # 1 /\ n = N /\ x = s[1] THEN i ELSE h4.prev[x]
      BY <1>14, <2>6
    <2>8. h5.prev \in [Items -> Items \cup {NULL}]
      BY <1>14, InHeap
    <2>9. \A x \in Items : g.prev[x] = IF x = old THEN NULL ELSE h5.prev[x]
      BY <1>15, <1>16, <2>8
    <2> QED
      BY <2>1, <2>3, <2>5, <2>7, <2>9
  <1>19. \A b \in Items : g.child[b] = IF n = 1 /\ b = a THEN i ELSE h.child[b]
    BY <1>4, <1>14, <1>15, <1>16
  <1>20. Frame(g, h, a, ToSet(s) \cup {i})
    <2>1. \A b \in Items \ {a} : g.child[b] = h.child[b]
      BY <1>19
    <2>2. ASSUME NEW x \in Items \ (ToSet(s) \cup {i}) PROVE g.next[x] = h.next[x] /\ g.prev[x] = h.prev[x]
      BY <1>5, <1>7, <1>17, <1>18
    <2> QED
      BY <2>1, <2>2 DEF Frame
  <1>21. ASSUME NEW m \in 1..N
         PROVE  g.next[t[m]] = Behind(t, m) /\ g.prev[t[m]] = Before(t, m)
    <2>0. /\ old = s[n] /\ (n # 1 => n - 1 \in 1..N /\ h.prev[old] = s[n - 1]) /\ (n = 1 => h.prev[old] = s[N])
          /\ (n # N => n + 1 \in 1..N /\ h.next[old] = s[n + 1]) /\ m \in Nat /\ 1 =< m /\ m =< N /\ N \in 1..N
      BY <1>1, <1>3, <1>6 DEF old
    <2>1. CASE m = n
      <3>1. t[m] = i
        BY <1>2, <2>1
      <3>2. g.next[i] = Behind(t, m)
        <4>1. g.next[i] = h.next[old]
          BY <1>3, <1>5, <1>7, <1>17
        <4>2. CASE n = N
          BY <1>2, <1>6, <2>1, <4>1, <4>2 DEF Behind
        <4>3. CASE n # N
          <5>1. t[m + 1] = s[n + 1]
            BY <1>2, <1>3, <2>0, <2>1, <4>3
          <5> QED
            BY <1>2, <2>0, <2>1, <4>1, <4>3, <5>1 DEF Behind
        <4> QED
          BY <4>2, <4>3
      <3>3. g.prev[i] = Before(t, m)
        <4>1. i # s[1] /\ (n # N => i # h.next[old])
          BY <1>3, <2>0
        <4>2. CASE N = 1
          <5>1. g.prev[i] = i /\ n = 1
            BY <1>3, <1>5, <1>18, <4>1, <4>2
          <5> QED
            BY <1>2, <2>1, <3>1, <4>2, <5>1 DEF Before
        <4>3. CASE N # 1
          <5>1. g.prev[i] = h.prev[old]
            BY <1>3, <1>5, <1>18, <4>1, <4>3
          <5>2. CASE n = 1
            <6>1. t[N] = s[N]
              BY <1>2, <2>0, <4>3, <5>2
            <6> QED
              BY <1>2, <2>0, <2>1, <5>1, <5>2, <6>1 DEF Before
          <5>3. CASE n # 1
            <6>1. t[m - 1] = s[n - 1]
              BY <1>2, <1>3, <2>0, <2>1, <5>3
            <6> QED
              BY <2>0, <2>1, <5>1, <5>3, <6>1 DEF Before
          <5> QED
            BY <5>2, <5>3
        <4> QED
          BY <4>2, <4>3
      <3> QED
        BY <3>1, <3>2, <3>3
    <2>2. CASE m # n
      <3>1. t[m] = s[m] /\ s[m] \in Items /\ s[m] # old /\ s[m] # i /\ N # 1
        BY <1>1, <1>2, <1>3, <2>0, <2>2
      <3>2. g.next[s[m]] = Behind(t, m)
        <4>1. CASE m + 1 = n
          <5>1. n # 1 /\ s[m] = h.prev[old] /\ m # N /\ t[m + 1] = i
            BY <1>1, <1>2, <1>3, <2>0, <4>1
          <5> QED
            BY <1>2, <1>17, <3>1, <5>1 DEF Behind
        <4>2. CASE m + 1 # n
          <5>1. ~ (n # 1 /\ s[m] = h.prev[old])
            <6>1. n # 1 => n - 1 # m
              BY <1>3, <2>0, <4>2
            <6> QED
              BY <1>1, <2>0, <6>1
          <5>2. g.next[s[m]] = h.next[s[m]]
            BY <1>17, <3>1, <5>1
          <5>3. CASE m = N
            BY <1>1, <1>2, <5>2, <5>3 DEF Behind
          <5>4. CASE m # N
            <6>1. t[m + 1] = s[m + 1] /\ h.next[s[m]] = s[m + 1]
              BY <1>1, <1>2, <2>0, <4>2, <5>4
            <6> QED
              BY <1>2, <5>2, <5>4, <6>1 DEF Behind
          <5> QED
            BY <5>3, <5>4
        <4> QED
          BY <4>1, <4>2
      <3>3. g.prev[s[m]] = Before(t, m)
        <4>1. CASE m = 1
          <5>1. ~ (n # N /\ s[m] = h.next[old])
            BY <1>1, <1>3, <2>0, <4>1
          <5>2. CASE n = N
            <6>1. g.prev[s[m]] = i /\ t[N] = i
              BY <1>2, <1>3, <1>18, <2>2, <3>1, <4>1, <5>2
            <6> QED
              BY <1>2, <4>1, <6>1 DEF Before
          <5>3. CASE n # N
            <6>1. g.prev[s[m]] = h.prev[s[m]]
              BY <1>18, <3>1, <5>1, <5>3
            <6>2. h.prev[s[m]] = s[N] /\ t[N] = s[N]
              BY <1>1, <1>2, <2>0, <4>1, <5>3
            <6> QED
              BY <1>2, <4>1, <6>1, <6>2 DEF Before
          <5> QED
            BY <5>2, <5>3
        <4>2. CASE m # 1
          <5>0. s[m] # s[1] /\ m - 1 \in 1..N
            BY <1>1, <1>3, <2>0, <4>2
          <5>1. CASE m - 1 = n
            <6>1. n # N /\ s[m] = h.next[old] /\ t[m - 1] = i
              BY <1>1, <1>2, <1>3, <2>0, <5>1
            <6> QED
              BY <1>18, <3>1, <4>2, <5>0, <6>1 DEF Before
          <5>2. CASE m - 1 # n
            <6>1. ~ (n # N /\ s[m] = h.next[old])
              <7>1. n # N => n + 1 # m
                BY <1>3, <2>0, <5>2
              <7> QED
                BY <1>1, <2>0, <7>1
            <6>2. g.prev[s[m]] = h.prev[s[m]]
              BY <1>18, <3>1, <5>0, <6>1
            <6>3. h.prev[s[m]] = s[m - 1] /\ t[m - 1] = s[m - 1]
              BY <1>1, <1>2, <4>2, <5>0, <5>2
            <6> QED
              BY <4>2, <6>2, <6>3 DEF Before
          <5> QED
            BY <5>1, <5>2
        <4> QED
          BY <4>1, <4>2
      <3> QED
        BY <3>1, <3>2, <3>3
    <2> QED
      BY <2>1, <2>2
  <1>22. Row(g, a, t)
    <2>1. g.child[a] = t[1] /\ Len(t) # 0
      BY <1>1, <1>2, <1>3, <1>5, <1>19
    <2> QED
      BY <1>2, <1>21, <2>1 DEF Row
  <1>23. g.next[old] = NULL /\ g.prev[old] = NULL
    BY <1>5, <1>17, <1>18
  <1> QED
    BY <1>16, <1>20, <1>22, <1>23 DEF g, old, ReplacedRow

-----------------------------------------------------------------------------
(* The pointers and the forest together. *)

LEMMA DrawsAre ==
  ASSUME NEW h, NEW k, NEW L, NEW H, Draws(h, k, L, H)
  PROVE  /\ h \in Heaps /\ Forest(k, L, H) /\ Unlinked(h, L, H)
         /\ k \in [Items -> Seq(Items)] /\ L \subseteq Items /\ H \subseteq L
         /\ \A a \in Items : Drawn(h, a, k[a])
  <1>1. h \in Heaps /\ Forest(k, L, H) /\ Unlinked(h, L, H) /\ Points(h, k)
    BY DEF Draws
  <1>2. k \in [Items -> Seq(Items)] /\ L \subseteq Items /\ H \subseteq L
    BY <1>1 DEF Forest
  <1>3. ASSUME NEW a \in Items PROVE Drawn(h, a, k[a])
    <2>1. \A p, q \in DOMAIN k[a] : k[a][p] = k[a][q] => p = q
      BY <1>1, OnceAt DEF Forest
    <2> QED
      BY <1>1, <1>2, <2>1 DEF Drawn, Points
  <1> QED
    BY <1>1, <1>2, <1>3

(* Only the list of a changes; what is touched is in a list or points nowhere. *)
Apart(l, k, a) == \A b \in Items : b # a => l[b] = k[b]
Settled(g, X, L, G) == \A x \in X : x \in L \ G \/ (g.next[x] = NULL /\ g.prev[x] = NULL)

(* A function that changes the list of a and nothing of the others.            *)
LEMMA DrawsStep ==
  ASSUME NEW h, NEW k, NEW L, NEW H, Draws(h, k, L, H),
         NEW g \in Heaps, NEW l, NEW G, Forest(l, L, G),
         NEW a \in Items, Apart(l, k, a),
         NEW X, X \subseteq ToSet(k[a]) \cup H, Frame(g, h, a, X), Row(g, a, l[a]),
         G \subseteq H \cup X, Settled(g, X, L, G)
  PROVE  Draws(g, l, L, G)
  <1>1. /\ Unlinked(h, L, H) /\ k \in [Items -> Seq(Items)] /\ L \subseteq Items /\ H \subseteq L
        /\ Forest(k, L, H) /\ Points(h, k)
    BY DrawsAre DEF Draws
  <1>2. /\ \A b \in Items \ {a} : g.child[b] = h.child[b]
        /\ \A x \in Items \ X : g.next[x] = h.next[x] /\ g.prev[x] = h.prev[x]
        /\ \A c \in Items : c # a => l[c] = k[c]
    BY DEF Frame, Apart
  <1>3. ASSUME NEW b \in Items, b # a PROVE Row(g, b, l[b])
    <2>1. k[b] \in Seq(Items) /\ DOMAIN k[b] = 1..Len(k[b])
      BY <1>1, KidsAre
    <2>2. ASSUME NEW n \in 1..Len(k[b]) PROVE k[b][n] \in Items \ X
      <3>1. k[b][n] \in Items /\ k[b][n] \in ToSet(k[b])
        BY <1>1, <2>1, KidsAre
      <3>2. k[b][n] \notin H
        BY <1>1, <3>1, InForest
      <3>3. k[b][n] \notin ToSet(k[a])
        <4>1. \A c, d \in Items : \A x \in ToSet(k[c]) : x \in ToSet(k[d]) => c = d
          BY <1>1, InForest
        <4> QED
          BY <1>3, <3>1, <4>1
      <3> QED
        BY <3>1, <3>2, <3>3
    <2>3. Row(h, b, k[b])
      BY <1>1 DEF Points
    <2> QED
      BY <1>2, <1>3, <2>2, <2>3 DEF Row
  <1>4. Points(g, l)
    BY <1>3 DEF Points
  <1>5. ASSUME NEW x \in Items \ (L \ G) PROVE g.next[x] = NULL /\ g.prev[x] = NULL
    <2>1. CASE x \in X
      BY <2>1 DEF Settled
    <2>2. CASE x \notin X
      <3>1. x \in Items \ (L \ H)
        BY <2>2
      <3> QED
        BY <1>1, <1>2, <2>2, <3>1 DEF Unlinked
    <2> QED
      BY <2>1, <2>2
  <1> QED
    BY <1>4, <1>5 DEF Draws, Unlinked

LEMMA DrawsAdd ==
  ASSUME NEW h, NEW k, NEW L, NEW H, Draws(h, k, L, H), NEW i \in H, NEW a \in L \ Lists!Within(k, i)
  PROVE  Draws(add_item_to_array(h, a, i), With(k, a, Len(k[a]) + 1, i), L, H \ {i})
  <1> DEFINE g == add_item_to_array(h, a, i)
             n == Len(k[a]) + 1
             l == With(k, a, n, i)
             X == ToSet(k[a]) \cup {i}
  <1>1. /\ h \in Heaps /\ Forest(k, L, H) /\ Unlinked(h, L, H) /\ a \in Items /\ i \in Items
        /\ k \in [Items -> Seq(Items)] /\ H \subseteq L /\ L \subseteq Items /\ Drawn(h, a, k[a])
    BY DrawsAre
  <1>2. n \in 1..(Len(k[a]) + 1)
    BY <1>1, KidsAre
  <1>3. /\ \A x \in ToSet(k[a]) : x \in L /\ x \notin H
        /\ i \notin ToSet(k[a]) /\ h.next[i] = NULL
    BY <1>1, InForest DEF Unlinked
  <1>4. IsWith(l, k, a, n, i)
    BY <1>1, <1>2, WithIs
  <1>5. Forest(l, L, H \ {i})
    BY <1>1, <1>2, ForestWith
  <1> HIDE DEF l
  <1>6. Apart(l, k, a) /\ Inserted(l[a], k[a], n, i)
    BY <1>4 DEF IsWith, Apart
  <1>7. g \in Heaps /\ Row(g, a, l[a]) /\ Frame(g, h, a, X)
    BY <1>1, <1>3, <1>6, RowAdd
  <1> HIDE DEF g
  <1>8. /\ X \subseteq ToSet(k[a]) \cup H /\ H \ {i} \subseteq H \cup X
        /\ \A x \in X : x \in L \ (H \ {i})
    BY <1>1, <1>3
  <1>9. Settled(g, X, L, H \ {i})
    BY <1>8 DEF Settled
  <1> HIDE DEF X
  <1>10. Draws(g, l, L, H \ {i})
    BY <1>1, <1>5, <1>6, <1>7, <1>8, <1>9, DrawsStep
  <1> QED
    BY <1>10 DEF g, l

LEMMA DrawsInsert ==
  ASSUME NEW h, NEW k, NEW L, NEW H, Draws(h, k, L, H), NEW i \in H, NEW a \in L \ Lists!Within(k, i),
         NEW n \in DOMAIN k[a]
  PROVE  Draws(InsertBefore(h, a, k[a][n], i), With(k, a, n, i), L, H \ {i})
  <1> DEFINE g == InsertBefore(h, a, k[a][n], i)
             l == With(k, a, n, i)
             X == ToSet(k[a]) \cup {i}
  <1>1. /\ h \in Heaps /\ Forest(k, L, H) /\ Unlinked(h, L, H) /\ a \in Items /\ i \in Items
        /\ k \in [Items -> Seq(Items)] /\ H \subseteq L /\ L \subseteq Items /\ Drawn(h, a, k[a])
    BY DrawsAre
  <1>2. n \in 1..Len(k[a]) /\ n \in 1..(Len(k[a]) + 1)
    BY <1>1, KidsAre
  <1>3. /\ \A x \in ToSet(k[a]) : x \in L /\ x \notin H
        /\ i \notin ToSet(k[a])
    BY <1>1, InForest
  <1>4. IsWith(l, k, a, n, i)
    BY <1>1, <1>2, WithIs
  <1>5. Forest(l, L, H \ {i})
    BY <1>1, <1>2, ForestWith
  <1> HIDE DEF l
  <1>6. Apart(l, k, a) /\ Inserted(l[a], k[a], n, i)
    BY <1>4 DEF IsWith, Apart
  <1>7. g \in Heaps /\ Row(g, a, l[a]) /\ Frame(g, h, a, X)
    BY <1>1, <1>2, <1>3, <1>6, RowInsert
  <1> HIDE DEF g
  <1>8. /\ X \subseteq ToSet(k[a]) \cup H /\ H \ {i} \subseteq H \cup X
        /\ \A x \in X : x \in L \ (H \ {i})
    BY <1>1, <1>3
  <1>9. Settled(g, X, L, H \ {i})
    BY <1>8 DEF Settled
  <1> HIDE DEF X
  <1>10. Draws(g, l, L, H \ {i})
    BY <1>1, <1>5, <1>6, <1>7, <1>8, <1>9, DrawsStep
  <1> QED
    BY <1>10 DEF g, l

LEMMA DrawsDetach ==
  ASSUME NEW h, NEW k, NEW L, NEW H, Draws(h, k, L, H), NEW a \in Items, NEW n \in DOMAIN k[a]
  PROVE  Draws(DetachItemViaPointer(h, a, k[a][n]), Drop(k, a, n), L, H \cup {k[a][n]})
  <1> DEFINE i == k[a][n]
             g == DetachItemViaPointer(h, a, i)
             l == Drop(k, a, n)
             X == ToSet(k[a])
  <1>1. /\ h \in Heaps /\ Forest(k, L, H) /\ Unlinked(h, L, H)
        /\ k \in [Items -> Seq(Items)] /\ H \subseteq L /\ L \subseteq Items /\ Drawn(h, a, k[a])
    BY DrawsAre
  <1>2. n \in 1..Len(k[a]) /\ i \in X
    BY <1>1, KidsAre
  <1>3. \A x \in X : x \in L /\ x \notin H
    BY <1>1, InForest
  <1>4. IsDrop(l, k, a, n)
    BY <1>1, DropIs
  <1>5. Forest(l, L, H \cup {i})
    BY <1>1, ForestDrop
  <1> HIDE DEF l
  <1>6. Apart(l, k, a) /\ Removed(l[a], k[a], n)
    BY <1>4 DEF IsDrop, Apart
  <1>7. /\ g \in Heaps /\ Row(g, a, l[a]) /\ Frame(g, h, a, X)
        /\ g.next[i] = NULL /\ g.prev[i] = NULL
    BY <1>1, <1>2, <1>6, RowDetach
  <1> HIDE DEF g, i
  <1>8. /\ X \subseteq ToSet(k[a]) \cup H /\ H \cup {i} \subseteq H \cup X
        /\ \A x \in X : x \in L \ (H \cup {i}) \/ x = i
    BY <1>2, <1>3
  <1>9. Settled(g, X, L, H \cup {i})
    BY <1>7, <1>8 DEF Settled
  <1> HIDE DEF X
  <1>10. Draws(g, l, L, H \cup {i})
    BY <1>1, <1>5, <1>6, <1>7, <1>8, <1>9, DrawsStep
  <1> QED
    BY <1>10 DEF g, l, i

LEMMA DrawsReplace ==
  ASSUME NEW h, NEW k, NEW L, NEW H, Draws(h, k, L, H), NEW i \in H, NEW a \in L \ Lists!Within(k, i),
         NEW n \in DOMAIN k[a]
  PROVE  Draws(Replaced(h, a, k[a][n], i), Swap(k, a, n, i), L, (H \ {i}) \cup {k[a][n]})
  <1> DEFINE old == k[a][n]
             g == Replaced(h, a, old, i)
             l == Swap(k, a, n, i)
             X == ToSet(k[a]) \cup {i}
             G == (H \ {i}) \cup {old}
  <1>1. /\ h \in Heaps /\ Forest(k, L, H) /\ Unlinked(h, L, H) /\ a \in Items /\ i \in Items
        /\ k \in [Items -> Seq(Items)] /\ H \subseteq L /\ L \subseteq Items /\ Drawn(h, a, k[a])
    BY DrawsAre
  <1>2. n \in 1..Len(k[a]) /\ old \in ToSet(k[a]) /\ DOMAIN k[a] = 1..Len(k[a])
    BY <1>1, KidsAre
  <1>3. (\A x \in ToSet(k[a]) : x \in L /\ x \notin H) /\ i \notin ToSet(k[a])
    BY <1>1, InForest
  <1>4. IsSwap(l, k, a, n, i)
    BY <1>1, SwapIs
  <1>5. Forest(l, L, G)
    BY <1>1, ForestSwap
  <1> HIDE DEF l
  <1>6. Apart(l, k, a) /\ Swapped(l[a], k[a], n, i)
    BY <1>2, <1>4 DEF IsSwap, Apart, Swapped
  <1>7. /\ g \in Heaps /\ Row(g, a, l[a]) /\ Frame(g, h, a, X)
        /\ g.next[old] = NULL /\ g.prev[old] = NULL
    <2>1. i \in Items \ ToSet(k[a])
      BY <1>1, <1>3
    <2>2. ReplacedRow(Replaced(h, a, k[a][n], i), h, a, l[a], ToSet(k[a]) \cup {i}, k[a][n])
      BY <1>1, <1>2, <1>6, <2>1, RowReplace
    <2> QED
      BY <2>2 DEF ReplacedRow
  <1> HIDE DEF g, old
  <1>8. /\ G \subseteq H \cup X /\ X \subseteq ToSet(k[a]) \cup H
        /\ Settled(g, X, L, G)
    BY <1>1, <1>2, <1>3, <1>7 DEF Settled
  <1> HIDE DEF G, X
  <1>9. Draws(g, l, L, G)
    BY <1>1, <1>5, <1>6, <1>7, <1>8, DrawsStep
  <1> QED
    BY <1>9 DEF g, l, old, G

-----------------------------------------------------------------------------
(* What is freed with an item is what is in it. *)

LEMMA Least ==
  ASSUME NEW S, S \subseteq Nat, S # {}
  PROVE  \E x \in S : \A y \in S : x =< y
  <1> DEFINE T == {0..n : n \in S}
  <1>1. T \subseteq FiniteSubsetsOf(Nat) /\ T # {}
    <2>1. \A n \in S : n \in Int /\ 0..n \subseteq Nat /\ IsFiniteSet(0..n)
      BY FS_Interval
    <2> QED
      BY <2>1 DEF FiniteSubsetsOf
  <1>2. PICK t \in T : \A u \in T : ~ (<<u, t>> \in StrictSubsetOrdering(Nat))
    <2> HIDE DEF T
    <2> QED
      BY <1>1, FS_StrictSubsetOrderingWellFounded, WFMin
  <1>3. PICK x \in S : t = 0..x
    OBVIOUS
  <1>4. ASSUME NEW y \in S, y < x PROVE FALSE
    <2>1. x \in 0..x /\ x \notin 0..y /\ 0..y \subseteq 0..x
      BY <1>4
    <2>2. 0..y \in T /\ 0..y \subseteq Nat /\ 0..x \subseteq Nat
      OBVIOUS
    <2>3. <<0..y, t>> \in StrictSubsetOrdering(Nat)
      BY <1>3, <2>1, <2>2 DEF StrictSubsetOrdering
    <2> QED
      BY <1>2, <2>2, <2>3
  <1> QED
    BY <1>3, <1>4

LEMMA FollowsIs ==
  ASSUME NEW h, NEW S
  PROVE  Follows(h, S) <=> \A j \in S : /\ h.next[j] = NULL \/ h.next[j] \in S
                                        /\ h.child[j] = NULL \/ h.child[j] \in S
  BY DEF Follows

LEMMA FreedIs ==
  ASSUME NEW h \in Heaps, NEW i \in Items
  PROVE  /\ Freed(h, i) \subseteq Items /\ i \in Freed(h, i) /\ Follows(h, Freed(h, i))
         /\ \A S \in SUBSET Items : i \in S /\ Follows(h, S) => Freed(h, i) \subseteq S
  <1> DEFINE F == Freed(h, i)
  <1>1. \A j : j \in F <=> j \in Items /\ \A S \in SUBSET Items : i \in S /\ Follows(h, S) => j \in S
    BY DEF Freed
  <1> HIDE DEF F
  <1>2. F \subseteq Items /\ i \in F
    BY <1>1
  <1>3. \A S \in SUBSET Items : i \in S /\ Follows(h, S) => F \subseteq S
    BY <1>1
  <1>4. ASSUME NEW j \in F, NEW x, x = h.next[j] \/ x = h.child[j], x # NULL PROVE x \in F
    <2>1. x \in Items
      BY <1>2, <1>4, InHeap
    <2>2. ASSUME NEW S \in SUBSET Items, i \in S, Follows(h, S) PROVE x \in S
      <3>1. j \in S
        BY <1>1, <2>2
      <3> QED
        BY <1>4, <2>2, <3>1, FollowsIs
    <2> QED
      BY <1>1, <2>1, <2>2
  <1>5. Follows(h, F)
    BY <1>4, FollowsIs
  <1> QED
    BY <1>2, <1>3, <1>5 DEF F

LEMMA FreedIsWithin ==
  ASSUME NEW h, NEW k, NEW L, NEW H, Draws(h, k, L, H), NEW i \in Items
  PROVE  Freed(Put(h, "next", i, NULL), i) = Lists!Within(k, i)
  <1> DEFINE g == Put(h, "next", i, NULL)
             F == Freed(g, i)
             W == Lists!Within(k, i)
  <1>1. /\ h \in Heaps /\ Forest(k, L, H) /\ k \in [Items -> Seq(Items)]
        /\ \A a \in Items : Drawn(h, a, k[a])
    BY DrawsAre
  <1>2. /\ g \in Heaps /\ g.next = [h.next EXCEPT ![i] = NULL] /\ g.child = h.child
        /\ h.next \in [Items -> Items \cup {NULL}]
    BY <1>1, PutNull, InHeap
  <1> HIDE DEF g
  <1>3. /\ F \subseteq Items /\ i \in F /\ Follows(g, F)
        /\ \A S \in SUBSET Items : i \in S /\ Follows(g, S) => F \subseteq S
    BY <1>2, FreedIs
  <1>4. /\ W \subseteq Items /\ i \in W /\ Lists!Closed(k, W)
        /\ \A S \in SUBSET Items : i \in S /\ Lists!Closed(k, S) => W \subseteq S
    BY <1>1, WithinIs
  <1>5. ASSUME NEW a \in Items
        PROVE  /\ Len(k[a]) \in Nat /\ \A n \in 1..Len(k[a]) : k[a][n] \in ToSet(k[a]) /\ k[a][n] \in Items
               /\ h.child[a] = IF Len(k[a]) = 0 THEN NULL ELSE k[a][1]
               /\ \A n \in 1..Len(k[a]) : h.next[k[a][n]] = IF n = Len(k[a]) THEN NULL ELSE k[a][n + 1]
    <2>1. Listed(h, a, k[a])
      BY <1>1, DrawnIs
    <2> QED
      BY <2>1 DEF Listed
  <1>6. \A j \in W : \A x \in ToSet(k[j]) : x \in W
    BY <1>4, ClosedIs
  <1>7. ASSUME NEW j \in W PROVE h.child[j] = NULL \/ h.child[j] \in W
    <2>1. j \in Items
      BY <1>4
    <2>2. CASE Len(k[j]) = 0
      BY <1>5, <2>1, <2>2
    <2>3. CASE Len(k[j]) # 0
      <3>1. 1 \in 1..Len(k[j]) /\ h.child[j] = k[j][1]
        BY <1>5, <2>1, <2>3
      <3> QED
        BY <1>5, <1>6, <2>1, <3>1
    <2> QED
      BY <2>2, <2>3
  <1>8. ASSUME NEW j \in W, j # i PROVE h.next[j] = NULL \/ h.next[j] \in W
    <2>1. PICK o \in W : j \in ToSet(k[o])
      BY <1>1, <1>8, OwnerWithin
    <2>2. o \in Items
      BY <1>4
    <2>3. PICK n \in DOMAIN k[o] : k[o][n] = j
      BY <1>1, <2>1, <2>2, KidsAre
    <2>4. n \in 1..Len(k[o]) /\ n \in Nat
      BY <1>1, <2>2, KidsAre
    <2>5. CASE n = Len(k[o])
      BY <1>5, <2>2, <2>3, <2>4, <2>5
    <2>6. CASE n # Len(k[o])
      <3>1. n + 1 \in 1..Len(k[o])
        BY <1>5, <2>2, <2>4, <2>6
      <3>2. h.next[j] = k[o][n + 1]
        BY <1>5, <2>2, <2>3, <2>4, <2>6
      <3> QED
        BY <1>5, <1>6, <2>2, <3>1, <3>2
    <2> QED
      BY <2>5, <2>6
  <1>9. Follows(g, W)
    <2>1. ASSUME NEW j \in W PROVE g.next[j] = NULL \/ g.next[j] \in W
      BY <1>2, <1>4, <1>8
    <2> QED
      BY <1>2, <1>7, <2>1, FollowsIs
  <1>10. F \subseteq W
    BY <1>3, <1>4, <1>9
  <1>11. /\ \A j \in F : g.next[j] = NULL \/ g.next[j] \in F
         /\ \A j \in F : h.child[j] = NULL \/ h.child[j] \in F
    BY <1>2, <1>3, FollowsIs
  <1>12. ASSUME NEW o \in F, NEW m \in 1..Len(k[o]), k[o][m] \notin F PROVE FALSE
    <2> DEFINE B == {p \in 1..Len(k[o]) : k[o][p] \notin F}
    <2>1. o \in Items /\ B \subseteq Nat /\ B # {}
      BY <1>3, <1>5, <1>12
    <2>2. PICK n \in B : \A p \in B : n =< p
      BY <2>1, Least
    <2>3. n \in 1..Len(k[o]) /\ n \in Nat /\ Len(k[o]) \in Nat /\ k[o][n] \notin F
      BY <1>5, <2>1
    <2>4. CASE n = 1
      BY <1>3, <1>5, <1>11, <2>1, <2>3, <2>4, InHeap, JsonItemsAssumption
    <2>5. CASE n # 1
      <3> DEFINE p == n - 1
      <3>1. p \in 1..Len(k[o]) /\ p + 1 = n /\ p # Len(k[o]) /\ ~ (n =< p)
        BY <2>3, <2>5
      <3> HIDE DEF p
      <3>2. k[o][p] \in F
        BY <2>2, <3>1
      <3>3. k[o][p] # i
        <4>1. k[o][p] \in ToSet(k[o]) /\ o \in W
          BY <1>5, <1>10, <2>1, <3>1
        <4>2. o \notin Lists!Within(k, k[o][p])
          BY <1>1, <2>1, <4>1, NoCircle
        <4> QED
          BY <4>1, <4>2
      <3>4. h.next[k[o][p]] = k[o][n]
        BY <1>5, <2>1, <3>1
      <3>5. g.next[k[o][p]] = k[o][n]
        BY <1>2, <1>3, <3>2, <3>3, <3>4
      <3>6. k[o][n] \in Items
        BY <1>5, <2>1, <2>3
      <3> QED
        BY <1>11, <2>3, <3>2, <3>5, <3>6, JsonItemsAssumption
    <2> QED
      BY <2>4, <2>5
  <1>13. ASSUME NEW o \in F, NEW x \in ToSet(k[o]) PROVE x \in F
    <2>1. o \in Items
      BY <1>3
    <2>2. DOMAIN k[o] = 1..Len(k[o]) /\ \E n \in DOMAIN k[o] : k[o][n] = x
      BY <1>1, <2>1, KidsAre
    <2> QED
      BY <1>12, <2>2
  <1>14. W \subseteq F
    BY <1>3, <1>4, <1>13, ClosedIs
  <1> QED
    BY <1>10, <1>14 DEF g

(* A held item has no next.                                                    *)
LEMMA FreedOfHeld ==
  ASSUME NEW h, NEW k, NEW L, NEW H, Draws(h, k, L, H), NEW i \in H
  PROVE  Freed(h, i) = Lists!Within(k, i)
  <1>1. h \in Heaps /\ h.next \in [Items -> Items \cup {NULL}] /\ i \in Items /\ h.next[i] = NULL
    BY DrawsAre, InHeap DEF Unlinked
  <1>2. Put(h, "next", i, NULL) = h
    BY <1>1 DEF Put, Heaps
  <1> QED
    BY <1>1, <1>2, FreedIsWithin

LEMMA DrawsDelete ==
  ASSUME NEW h, NEW k, NEW L, NEW H, Draws(h, k, L, H), NEW i \in H
  PROVE  LET W == Lists!Within(k, i)
         IN Draws(Forget(h, W), Lists!Without(k, W), L \ W, H \ {i})
  <1> DEFINE W == Lists!Within(k, i)
             g == Forget(h, W)
             l == Lists!Without(k, W)
  <1>1. /\ h \in Heaps /\ Forest(k, L, H) /\ Unlinked(h, L, H) /\ k \in [Items -> Seq(Items)]
        /\ L \subseteq Items /\ H \subseteq L /\ i \in Items /\ Points(h, k)
    BY DrawsAre DEF Draws
  <1>2. /\ Forest(l, L \ W, H \ {i})
        /\ \A a \in Items \ W : ToSet(k[a]) \cap W = {}
    BY <1>1, ForestCut
  <1>3. W \subseteq Items /\ i \in W
    BY <1>1, WithinIs
  <1> HIDE DEF W
  <1>4. \A j \in Items : l[j] = IF j \in W THEN << >> ELSE k[j]
    BY <1>1 DEF Lists!Without
  <1> HIDE DEF l
  <1>5. /\ h.next \in [Items -> Items \cup {NULL}] /\ h.prev \in [Items -> Items \cup {NULL}]
        /\ h.child \in [Items -> Items \cup {NULL}]
    BY <1>1, InHeap
  <1>6. /\ g.next = [j \in Items |-> IF j \in W THEN NULL ELSE h.next[j]]
        /\ g.prev = [j \in Items |-> IF j \in W THEN NULL ELSE h.prev[j]]
        /\ g.child = [j \in Items |-> IF j \in W THEN NULL ELSE h.child[j]]
    BY DEF Forget, Cleared
  <1>7. g \in Heaps
    BY <1>5 DEF Forget, Cleared, Heaps
  <1> HIDE DEF g
  <1>8. ASSUME NEW a \in Items PROVE Row(g, a, l[a])
    <2>1. CASE a \in W
      <3>1. l[a] = << >> /\ g.child[a] = NULL /\ Len(<< >>) = 0
        BY <1>4, <1>6, <2>1, EmptySeq
      <3> QED
        BY <3>1 DEF Row
    <2>2. CASE a \notin W
      <3>1. l[a] = k[a] /\ g.child[a] = h.child[a] /\ Row(h, a, k[a])
        BY <1>1, <1>4, <1>6, <2>2 DEF Points
      <3>2. \A n \in 1..Len(k[a]) : k[a][n] \in Items \ W
        <4>1. /\ DOMAIN k[a] = 1..Len(k[a])
              /\ \A n \in DOMAIN k[a] : k[a][n] \in Items /\ k[a][n] \in ToSet(k[a])
          BY <1>1, KidsAre
        <4> QED
          BY <1>2, <2>2, <4>1
      <3> QED
        BY <1>6, <3>1, <3>2 DEF Row
    <2> QED
      BY <2>1, <2>2
  <1>9. ASSUME NEW x \in Items \ ((L \ W) \ (H \ {i})) PROVE g.next[x] = NULL /\ g.prev[x] = NULL
    <2>1. CASE x \in W
      BY <1>6, <2>1
    <2>2. CASE x \notin W
      <3>1. x \in Items \ (L \ H)
        BY <2>2
      <3> QED
        BY <1>1, <1>6, <2>2, <3>1 DEF Unlinked
    <2> QED
      BY <2>1, <2>2
  <1>10. Draws(g, l, L \ W, H \ {i})
    BY <1>2, <1>7, <1>8, <1>9 DEF Draws, Points, Unlinked
  <1> QED
    BY <1>10 DEF g, l, W

-----------------------------------------------------------------------------
(* What the functions read. *)

(* The step along next from what has been reached.                             *)
Along(h, j) == IF j = NULL THEN NULL ELSE h.next[j]

LEMMA ChainIs ==
  ASSUME NEW h, NEW k, NEW L, NEW H, Draws(h, k, L, H), NEW a \in Items
  PROVE  Chain(h, a) = k[a]
  <1> DEFINE at[n \in Nat] ==
               IF n = 0 THEN h.child[a] ELSE LET j == at[n - 1] IN IF j = NULL THEN NULL ELSE h.next[j]
             N == Len(k[a])
             C == Cardinality(Items)
             w == [n \in Nat |-> IF n < N THEN k[a][n + 1] ELSE NULL]
             length == Cardinality({n \in 0..C : at[n] # NULL})
  <1>1. /\ N \in Nat /\ DOMAIN k[a] = 1..N /\ \A n \in 1..N : k[a][n] \in Items /\ k[a][n] # NULL
        /\ \A p, q \in 1..N : k[a][p] = k[a][q] => p = q
        /\ h.child[a] = IF N = 0 THEN NULL ELSE k[a][1]
        /\ \A n \in 1..N : h.next[k[a][n]] = IF n = N THEN NULL ELSE k[a][n + 1]
    <2>1. Listed(h, a, k[a])
      BY DrawsAre, DrawnIs
    <2> QED
      BY <2>1 DEF Listed
  <1>2. k[a] \in Seq(Items)
    BY DrawsAre, KidsAre
  <1>3. Chain(h, a) = [n \in 1..length |-> at[n - 1]]
    BY DEF Chain
  <1>4. ASSUME NEW n \in Nat PROVE w[n] = IF n = 0 THEN h.child[a] ELSE Along(h, w[n - 1])
    <2>1. CASE n = 0
      BY <1>1, <2>1
    <2>2. CASE n # 0
      <3>1. n - 1 \in Nat
        BY <2>2
      <3>2. CASE n - 1 < N
        <4>1. n \in 1..N /\ w[n - 1] = k[a][n]
          BY <1>1, <2>2, <3>1, <3>2
        <4>2. w[n] = IF n = N THEN NULL ELSE k[a][n + 1]
          BY <1>1, <4>1
        <4> QED
          BY <1>1, <2>2, <4>1, <4>2 DEF Along
      <3>3. CASE ~ (n - 1 < N)
        BY <1>1, <2>2, <3>1, <3>3 DEF Along
      <3> QED
        BY <3>2, <3>3
    <2> QED
      BY <2>1, <2>2
  <1>5. w = [n \in Nat |-> IF n = 0 THEN h.child[a] ELSE Along(h, w[n - 1])]
    <2> HIDE DEF w
    <2>1. w = [n \in Nat |-> w[n]]
      BY DEF w
    <2> QED
      BY <1>4, <2>1
  <1>6. at = [n \in Nat |-> IF n = 0 THEN h.child[a] ELSE Along(h, at[n - 1])]
    <2>1. at = CHOOSE f : f = [n \in Nat |-> IF n = 0 THEN h.child[a] ELSE Along(h, f[n - 1])]
      BY DEF Along
    <2> HIDE DEF at, w
    <2> QED
      BY <1>5, <2>1
  <1> HIDE DEF at
  <1>7. ASSUME NEW m \in Nat, at[m] # w[m] PROVE FALSE
    <2> DEFINE B == {n \in Nat : at[n] # w[n]}
    <2>1. B \subseteq Nat /\ B # {}
      BY <1>7
    <2> HIDE DEF w
    <2>2. PICK n \in B : \A p \in B : n =< p
      BY <2>1, Least
    <2>3. n \in Nat /\ at[n] # w[n]
      OBVIOUS
    <2>4. n # 0
      BY <1>4, <1>6, <2>3
    <2>5. n - 1 \in Nat /\ ~ (n =< n - 1)
      BY <2>3, <2>4
    <2>6. at[n - 1] = w[n - 1]
      BY <2>2, <2>5
    <2> QED
      BY <1>4, <1>6, <2>3, <2>4, <2>6
  <1>8. \A n \in Nat : at[n] = IF n < N THEN k[a][n + 1] ELSE NULL
    BY <1>7
  <1>9. C \in Nat /\ N =< C
    <2>1. k[a] \in Injection(1..N, Items)
      <3>1. k[a] \in [1..N -> Items]
        BY <1>1, <1>2
      <3>2. IsInjective(k[a])
        BY <1>1 DEF IsInjective
      <3> QED
        BY <3>1, <3>2 DEF Injection
    <2>2. Cardinality(1..N) = N
      BY <1>1, FS_Interval
    <2> QED
      BY <2>1, <2>2, FS_Injection, FS_CardinalityType, JsonItemsAssumption
  <1>10. {n \in 0..C : at[n] # NULL} = 0..(N - 1)
    <2>1. ASSUME NEW n \in 0..C PROVE at[n] # NULL <=> n < N
      <3>1. CASE n < N
        <4>1. n \in Nat /\ n + 1 \in 1..N
          BY <1>1, <3>1
        <4> QED
          BY <1>1, <1>8, <3>1, <4>1
      <3>2. CASE ~ (n < N)
        BY <1>8, <3>2
      <3> QED
        BY <3>1, <3>2
    <2> QED
      BY <1>1, <1>9, <2>1
  <1>11. length = N
    <2>1. length = Cardinality(0..(N - 1))
      BY <1>10
    <2>2. 0 \in Int /\ N - 1 \in Int /\ N - 1 - 0 + 1 = N /\ (0 > N - 1 <=> N = 0)
      BY <1>1
    <2>3. Cardinality(0..(N - 1)) = IF 0 > N - 1 THEN 0 ELSE N - 1 - 0 + 1
      BY <2>2, FS_Interval
    <2> QED
      BY <2>1, <2>2, <2>3
  <1>12. ASSUME NEW n \in 1..N PROVE at[n - 1] = k[a][n]
    <2>1. n - 1 \in Nat /\ n - 1 < N /\ n - 1 + 1 = n
      BY <1>1
    <2> QED
      BY <1>8, <2>1
  <1>13. k[a] = [n \in 1..N |-> k[a][n]]
    BY <1>1, <1>2
  <1> HIDE DEF length
  <1> QED
    BY <1>3, <1>11, <1>12, <1>13

LEMMA KidsIs ==
  ASSUME NEW k, Draws(heap, k, live, held)
  PROVE  Kids = k
  <1>1. k \in [Items -> Seq(Items)]
    BY DrawsAre
  <1>2. \A a \in Items : a \notin live => k[a] = << >>
    BY DEF Draws, Forest
  <1>3. ASSUME NEW a \in Items PROVE Kids[a] = k[a]
    BY <1>2, ChainIs DEF Kids
  <1> QED
    BY <1>1, <1>3 DEF Kids

(* What exists is held, or in what is held.                                    *)
LEMMA LiveIs ==
  ASSUME NEW k, NEW L, NEW H, Forest(k, L, H)
  PROVE  UNION {Lists!Within(k, i) : i \in H} = L
  <1> DEFINE U == UNION {Lists!Within(k, i) : i \in H}
  <1>1. /\ k \in [Items -> Seq(Items)] /\ L \subseteq Items /\ H \subseteq L
        /\ \A S \in SUBSET Items : H \subseteq S /\ Lists!Closed(k, S) => L \subseteq S
    <2>1. /\ k \in [Items -> Seq(Items)] /\ L \subseteq Items /\ H \subseteq L
      BY InForest
    <2>2. \A S \in SUBSET Items : H \subseteq S /\ Lists!Closed(k, S) => L \subseteq S
      BY DEF Forest
    <2> QED
      BY <2>1, <2>2
  <1>2. ASSUME NEW i \in H
        PROVE  /\ Lists!Within(k, i) \subseteq L /\ i \in Lists!Within(k, i)
               /\ \A j \in Lists!Within(k, i) : \A x \in ToSet(k[j]) : x \in Lists!Within(k, i)
    BY <1>1, WithinLive, WithinIs, ClosedIs
  <1>3. U \subseteq L /\ H \subseteq U
    BY <1>2
  <1>4. \A j \in U : \A x \in ToSet(k[j]) : x \in U
    BY <1>2
  <1> HIDE DEF U
  <1>5. L \subseteq U
    <2>1. Lists!Closed(k, U) /\ U \in SUBSET Items
      BY <1>1, <1>3, <1>4, ClosedIs
    <2> QED
      BY <1>1, <1>3, <2>1
  <1>6. U = L
    BY <1>3, <1>5
  <1> QED
    BY <1>6 DEF U

(* The invariant, as the actions use it.                                       *)
LEMMA Reading ==
  ASSUME IInv
  PROVE  /\ Draws(heap, Kids, live, held) /\ Forest(Kids, live, held)
         /\ heap \in Heaps /\ Kids \in [Items -> Seq(Items)] /\ live \subseteq Items /\ held \subseteq live
         /\ Lists!Live = live /\ Lists!Free = Items \ live
         /\ \A a \in Items : Chain(heap, a) = Kids[a] /\ Inside(a) = Lists!Within(Kids, a)
  <1>1. Draws(heap, Kids, live, held)
    BY DEF IInv
  <1>2. /\ Forest(Kids, live, held) /\ heap \in Heaps /\ Kids \in [Items -> Seq(Items)]
        /\ live \subseteq Items /\ held \subseteq live
    BY <1>1, DrawsAre
  <1>3. Lists!Live = live /\ Lists!Free = Items \ live
    BY <1>2, LiveIs DEF Lists!Live, Lists!Free
  <1>4. \A a \in Items : Chain(heap, a) = Kids[a] /\ Inside(a) = Lists!Within(Kids, a)
    BY <1>1, ChainIs, FreedIsWithin DEF Inside
  <1> QED
    BY <1>1, <1>2, <1>3, <1>4

(* A lookup finds an item of the list, or none.                                *)
LEMMA Found ==
  ASSUME IInv, NEW a \in Items, NEW i, i # NULL,
         (\E n : i = get_array_item(a, n)) \/ (\E x : i = get_object_item(a, x))
  PROVE  \E n \in DOMAIN Kids[a] : i = Kids[a][n]
  <1>1. Chain(heap, a) = Kids[a] /\ DOMAIN Kids[a] = 1..Len(Kids[a]) /\ Len(Kids[a]) \in Nat
    BY Reading, KidsAre
  <1>2. ASSUME NEW n, i = get_array_item(a, n) PROVE n \in DOMAIN Kids[a] /\ i = Kids[a][n]
    BY <1>1, <1>2 DEF get_array_item
  <1>3. ASSUME NEW x, i = get_object_item(a, x) PROVE \E n \in DOMAIN Kids[a] : i = Kids[a][n]
    <2> DEFINE c == Chain(heap, a)
               hits == {n \in DOMAIN c : key[c[n]] = x}
    <2>1. i = IF hits = {} THEN NULL ELSE c[CHOOSE n \in hits : \A m \in hits : n =< m]
      BY <1>3 DEF get_object_item
    <2> HIDE DEF c
    <2>2. c = Kids[a] /\ hits # {} /\ hits \subseteq Nat
      BY <1>1, <2>1 DEF c
    <2>3. \E n \in hits : \A m \in hits : n =< m
      <3> HIDE DEF hits
      <3> QED
        BY <2>2, Least
    <2>4. (CHOOSE n \in hits : \A m \in hits : n =< m) \in hits
      <3> HIDE DEF hits
      <3> QED
        BY <2>3
    <2> QED
      BY <2>1, <2>2, <2>4
  <1> QED
    BY <1>2, <1>3

-----------------------------------------------------------------------------
(* New items linked into lists. *)

(* Lists of new items N, each in one place at most, and all of them in r.      *)
Linking(lists, N, r) ==
  /\ DOMAIN lists \subseteq N
  /\ \A o \in DOMAIN lists : lists[o] \in Seq(Items) /\ ToSet(lists[o]) \subseteq N \ {r}
  /\ \A a, b \in DOMAIN lists : \A n \in DOMAIN lists[a], m \in DOMAIN lists[b] :
       lists[a][n] = lists[b][m] => a = b /\ n = m
  /\ \A S \in SUBSET Items :
       r \in S /\ (\A o \in S \cap DOMAIN lists : ToSet(lists[o]) \subseteq S) => N \subseteq S

LEMMA LinkingIs ==
  ASSUME NEW N, N \subseteq Items, NEW r, NEW lists, Linking(lists, N, r), NEW o \in DOMAIN lists
  PROVE  /\ o \in N /\ lists[o] \in Seq(Items) /\ Len(lists[o]) \in Nat
         /\ DOMAIN lists[o] = 1..Len(lists[o]) /\ (lists[o] = << >> <=> Len(lists[o]) = 0)
         /\ \A n \in 1..Len(lists[o]) : lists[o][n] \in N \ {r} /\ lists[o][n] \in Items
  <1>1. o \in N /\ lists[o] \in Seq(Items) /\ ToSet(lists[o]) \subseteq N \ {r}
    BY DEF Linking
  <1> QED
    BY <1>1, InSeq

(* What the pointers are after it.                                             *)
IsLinked(g, h, lists) ==
  /\ g \in Heaps
  /\ \A a \in Items :
       g.child[a] = IF a \in DOMAIN lists /\ lists[a] # << >> THEN lists[a][1] ELSE h.child[a]
  /\ \A o \in DOMAIN lists : \A n \in DOMAIN lists[o] :
       g.next[lists[o][n]] = Behind(lists[o], n) /\ g.prev[lists[o][n]] = Before(lists[o], n)
  /\ \A j \in Items : (\A o \in DOMAIN lists : j \notin ToSet(lists[o])) =>
       g.next[j] = h.next[j] /\ g.prev[j] = h.prev[j]

LEMMA LinkedIs ==
  ASSUME NEW h \in Heaps, NEW N, N \subseteq Items, NEW r, NEW lists, Linking(lists, N, r)
  PROVE  IsLinked(Linked(h, lists), h, lists)
  <1> DEFINE D == DOMAIN lists
             places == UNION {{o} \X DOMAIN lists[o] : o \in D}
             new == {lists[p[1]][p[2]] : p \in places}
             Of(j) == CHOOSE p \in places : lists[p[1]][p[2]] = j
             g == Linked(h, lists)
  <1>1. \A a, b \in D : \A n \in DOMAIN lists[a], m \in DOMAIN lists[b] :
          lists[a][n] = lists[b][m] => a = b /\ n = m
    BY DEF Linking
  <1>2. /\ h.next \in [Items -> Items \cup {NULL}] /\ h.prev \in [Items -> Items \cup {NULL}]
        /\ h.child \in [Items -> Items \cup {NULL}]
    BY InHeap
  <1>3. ASSUME NEW o \in D, NEW n \in DOMAIN lists[o]
        PROVE  /\ <<o, n>> \in places /\ lists[o][n] \in new /\ lists[o][n] \in Items
               /\ Of(lists[o][n]) = <<o, n>>
    <2>1. <<o, n>> \in places
      OBVIOUS
    <2>2. <<o, n>>[1] = o /\ <<o, n>>[2] = n
      OBVIOUS
    <2>3. lists[o][n] \in new
      <3> HIDE DEF places
      <3> QED
        BY <2>1, <2>2
    <2>4. lists[o][n] \in Items
      BY LinkingIs
    <2>5. ASSUME NEW p \in places, lists[p[1]][p[2]] = lists[o][n] PROVE p = <<o, n>>
      <3>1. PICK b \in D : p \in {b} \X DOMAIN lists[b]
        OBVIOUS
      <3>2. PICK m \in DOMAIN lists[b] : p = <<b, m>>
        BY <3>1
      <3>3. lists[b][m] = lists[o][n]
        BY <2>5, <3>2
      <3>4. b = o /\ m = n
        BY <1>1, <3>3
      <3> QED
        BY <3>2, <3>4
    <2>6. Of(lists[o][n]) = <<o, n>>
      <3> HIDE DEF places
      <3> QED
        BY <2>1, <2>2, <2>5
    <2> HIDE DEF places, new, Of
    <2> QED
      BY <2>1, <2>3, <2>4, <2>6
  <1>4. ASSUME NEW j \in new PROVE \E o \in D : \E n \in DOMAIN lists[o] : j = lists[o][n]
    <2>1. PICK p \in places : j = lists[p[1]][p[2]]
      OBVIOUS
    <2>2. PICK b \in D : p \in {b} \X DOMAIN lists[b]
      OBVIOUS
    <2> QED
      BY <2>1, <2>2
  <1>5. g = [child |-> [o \in Items |-> IF o \in D /\ lists[o] # << >> THEN lists[o][1] ELSE h.child[o]],
             next |-> [j \in Items |-> IF j \in new THEN Behind(lists[Of(j)[1]], Of(j)[2]) ELSE h.next[j]],
             prev |-> [j \in Items |-> IF j \in new THEN Before(lists[Of(j)[1]], Of(j)[2]) ELSE h.prev[j]]]
    BY DEF Linked
  <1> HIDE DEF places, new, Of, g
  <1>6. /\ \A o \in Items :
             g.child[o] = IF o \in D /\ lists[o] # << >> THEN lists[o][1] ELSE h.child[o]
        /\ \A j \in Items : g.next[j] = IF j \in new THEN Behind(lists[Of(j)[1]], Of(j)[2]) ELSE h.next[j]
        /\ \A j \in Items : g.prev[j] = IF j \in new THEN Before(lists[Of(j)[1]], Of(j)[2]) ELSE h.prev[j]
    BY <1>5
  <1>7. ASSUME NEW o \in D, NEW n \in DOMAIN lists[o]
        PROVE  g.next[lists[o][n]] = Behind(lists[o], n) /\ g.prev[lists[o][n]] = Before(lists[o], n)
    <2>1. Of(lists[o][n])[1] = o /\ Of(lists[o][n])[2] = n
      <3>1. Of(lists[o][n]) = <<o, n>>
        BY <1>3
      <3> QED
        BY <3>1
    <2> QED
      BY <1>3, <1>6, <2>1
  <1>8. ASSUME NEW j \in Items, \A o \in D : j \notin ToSet(lists[o])
        PROVE  g.next[j] = h.next[j] /\ g.prev[j] = h.prev[j]
    <2>1. j \notin new
      <3> SUFFICES ASSUME j \in new PROVE FALSE
        OBVIOUS
      <3>1. PICK o \in D : \E n \in DOMAIN lists[o] : j = lists[o][n]
        BY <1>4
      <3>2. lists[o] \in Seq(Items)
        BY LinkingIs
      <3>3. j \in ToSet(lists[o])
        BY <3>1, <3>2, InSeq
      <3> QED
        BY <1>8, <3>3
    <2> QED
      BY <1>6, <2>1
  <1>9. ASSUME NEW o \in D, NEW n \in DOMAIN lists[o]
        PROVE  Behind(lists[o], n) \in Items \cup {NULL} /\ Before(lists[o], n) \in Items \cup {NULL}
    <2>1. /\ Len(lists[o]) \in Nat /\ n \in 1..Len(lists[o])
          /\ \A m \in 1..Len(lists[o]) : lists[o][m] \in Items
      BY LinkingIs
    <2>2. n # Len(lists[o]) => n + 1 \in 1..Len(lists[o])
      BY <2>1
    <2>3. (n # 1 => n - 1 \in 1..Len(lists[o])) /\ Len(lists[o]) \in 1..Len(lists[o])
      BY <2>1
    <2> QED
      BY <2>1, <2>2, <2>3 DEF Behind, Before
  <1>10. ASSUME NEW j \in Items
         PROVE  g.child[j] \in Items \cup {NULL} /\ g.next[j] \in Items \cup {NULL}
                /\ g.prev[j] \in Items \cup {NULL}
    <2>1. g.child[j] \in Items \cup {NULL}
      <3>1. CASE j \in D /\ lists[j] # << >>
        <4>1. 1 \in 1..Len(lists[j]) /\ \A m \in 1..Len(lists[j]) : lists[j][m] \in Items
          BY <3>1, LinkingIs
        <4> QED
          BY <1>6, <3>1, <4>1
      <3>2. CASE ~ (j \in D /\ lists[j] # << >>)
        BY <1>2, <1>6, <3>2
      <3> QED
        BY <3>1, <3>2
    <2>2. CASE j \in new
      <3>1. PICK o \in D : \E n \in DOMAIN lists[o] : j = lists[o][n]
        BY <1>4, <2>2
      <3> QED
        BY <1>7, <1>9, <2>1, <3>1
    <2>3. CASE j \notin new
      BY <1>2, <1>6, <2>1, <2>3
    <2> QED
      BY <2>2, <2>3
  <1>11. g \in Heaps
    <2>1. /\ g = [next |-> g.next, prev |-> g.prev, child |-> g.child]
          /\ g.next = [j \in Items |-> g.next[j]] /\ g.prev = [j \in Items |-> g.prev[j]]
          /\ g.child = [j \in Items |-> g.child[j]]
      BY <1>5
    <2>2. /\ g.next \in [Items -> Items \cup {NULL}] /\ g.prev \in [Items -> Items \cup {NULL}]
          /\ g.child \in [Items -> Items \cup {NULL}]
      BY <1>10, <2>1
    <2> QED
      BY <2>1, <2>2 DEF Heaps
  <1>12. IsLinked(g, h, lists)
    BY <1>6, <1>7, <1>8, <1>11 DEF IsLinked
  <1> QED
    BY <1>12 DEF g

(* The lists after it.                                                         *)
After(k, lists) == [j \in Items |-> IF j \in DOMAIN lists THEN lists[j] ELSE k[j]]

LEMMA GrownLinked ==
  ASSUME NEW k, NEW L, NEW H, Forest(k, L, H), NEW N, N \subseteq Items \ L, NEW r \in N,
         NEW lists, Linking(lists, N, r)
  PROVE  Grown(After(k, lists), k, N, r)
  <1> DEFINE D == DOMAIN lists
             l == After(k, lists)
  <1>1. /\ D \subseteq N /\ N \subseteq Items
        /\ \A o \in D : lists[o] \in Seq(Items) /\ ToSet(lists[o]) \subseteq N \ {r}
        /\ \A a, b \in D : \A n \in DOMAIN lists[a], m \in DOMAIN lists[b] :
             lists[a][n] = lists[b][m] => a = b /\ n = m
    BY DEF Linking
  <1>2. k \in [Items -> Seq(Items)] /\ \A a \in Items : a \notin L => k[a] = << >>
    BY DEF Forest
  <1>3. << >> \in Seq(Items) /\ DOMAIN << >> = {} /\ ToSet(<< >>) = {}
    BY EmptySeq DEF ToSet
  <1>4. /\ l \in [Items -> Seq(Items)]
        /\ \A j \in Items : l[j] = IF j \in D THEN lists[j] ELSE k[j]
    BY <1>1, <1>2 DEF After
  <1> HIDE DEF l
  <1>5. \A j \in Items \ N : l[j] = k[j]
    BY <1>1, <1>4
  <1>6. \A j \in N : l[j] = IF j \in D THEN lists[j] ELSE << >>
    BY <1>1, <1>2, <1>4
  <1>7. \A j \in N : ToSet(l[j]) \subseteq N \ {r}
    BY <1>1, <1>3, <1>6
  <1>8. ASSUME NEW a \in N, NEW b \in N, NEW n \in DOMAIN l[a], NEW m \in DOMAIN l[b], l[a][n] = l[b][m]
        PROVE  a = b /\ n = m
    <2>1. a \in D /\ b \in D
      BY <1>3, <1>6
    <2>2. l[a] = lists[a] /\ l[b] = lists[b]
      BY <1>6, <2>1
    <2> QED
      BY <1>1, <1>8, <2>1, <2>2
  <1>9. ASSUME NEW S \in SUBSET Items, r \in S, Lists!Closed(l, S) PROVE N \subseteq S
    <2>1. \A j \in S : \A x \in ToSet(l[j]) : x \in S
      BY <1>9, ClosedIs
    <2>2. \A o \in S \cap D : ToSet(lists[o]) \subseteq S
      BY <1>1, <1>6, <2>1
    <2> QED
      BY <1>9, <2>2 DEF Linking
  <1>10. Grown(l, k, N, r)
    BY <1>4, <1>5, <1>7, <1>8, <1>9 DEF Grown
  <1> QED
    BY <1>10 DEF l

LEMMA DrawsLinked ==
  ASSUME NEW h, NEW k, NEW L, NEW H, Draws(h, k, L, H), NEW N, N \subseteq Items \ L, NEW r \in N,
         NEW lists, Linking(lists, N, r)
  PROVE  Draws(Linked(h, lists), After(k, lists), L \cup N, H \cup {r})
  <1> DEFINE D == DOMAIN lists
             l == After(k, lists)
             g == Linked(h, lists)
  <1>1. /\ h \in Heaps /\ Forest(k, L, H) /\ Unlinked(h, L, H) /\ k \in [Items -> Seq(Items)]
        /\ L \subseteq Items /\ H \subseteq L /\ Points(h, k)
    BY DrawsAre DEF Draws
  <1>2. Forest(l, L \cup N, H \cup {r})
    BY <1>1, GrownLinked, ForestGrown
  <1>3. IsLinked(g, h, lists)
    BY <1>1, LinkedIs
  <1>4. \A j \in Items : l[j] = IF j \in D THEN lists[j] ELSE k[j]
    BY DEF After
  <1> HIDE DEF l, g
  <1>5. /\ g \in Heaps
        /\ \A a \in Items : g.child[a] = IF a \in D /\ lists[a] # << >> THEN lists[a][1] ELSE h.child[a]
        /\ \A o \in D : \A n \in DOMAIN lists[o] :
             g.next[lists[o][n]] = Behind(lists[o], n) /\ g.prev[lists[o][n]] = Before(lists[o], n)
        /\ \A j \in Items : (\A o \in D : j \notin ToSet(lists[o])) =>
             g.next[j] = h.next[j] /\ g.prev[j] = h.prev[j]
    BY <1>3 DEF IsLinked
  <1>6. D \subseteq N /\ \A o \in D : ToSet(lists[o]) \subseteq N \ {r}
    BY DEF Linking
  <1>7. \A j \in Items : j \notin N \ {r} => g.next[j] = h.next[j] /\ g.prev[j] = h.prev[j]
    BY <1>5, <1>6
  <1>8. \A a \in Items : a \notin L => k[a] = << >>
    BY <1>1 DEF Forest
  <1>9. ASSUME NEW a \in Items PROVE Row(g, a, l[a])
    <2>1. CASE a \in D
      <3>1. l[a] = lists[a] /\ a \in Items \ L
        BY <1>4, <1>6, <2>1
      <3>2. DOMAIN lists[a] = 1..Len(lists[a]) /\ (lists[a] = << >> <=> Len(lists[a]) = 0)
        BY <2>1, LinkingIs
      <3>3. h.child[a] = NULL
        <4>1. Row(h, a, << >>)
          BY <1>1, <1>8, <3>1 DEF Points
        <4> QED
          BY <4>1, EmptySeq DEF Row
      <3>4. g.child[a] = IF Len(lists[a]) = 0 THEN NULL ELSE lists[a][1]
        BY <1>5, <2>1, <3>2, <3>3
      <3> QED
        BY <1>5, <2>1, <3>1, <3>2, <3>4 DEF Row
    <2>2. CASE a \notin D
      <3>1. l[a] = k[a] /\ g.child[a] = h.child[a] /\ Row(h, a, k[a])
        BY <1>1, <1>4, <1>5, <2>2 DEF Points
      <3>2. \A n \in 1..Len(k[a]) : k[a][n] \in Items \ N
        <4>1. /\ DOMAIN k[a] = 1..Len(k[a])
              /\ \A n \in DOMAIN k[a] : k[a][n] \in Items /\ k[a][n] \in ToSet(k[a])
          BY <1>1, KidsAre
        <4>2. \A x \in ToSet(k[a]) : x \in L
          BY <1>1, InForest
        <4> QED
          BY <4>1, <4>2
      <3> QED
        BY <1>7, <3>1, <3>2 DEF Row
    <2> QED
      BY <2>1, <2>2
  <1>10. ASSUME NEW x \in Items \ ((L \cup N) \ (H \cup {r})) PROVE g.next[x] = NULL /\ g.prev[x] = NULL
    <2>1. x \notin N \ {r} /\ x \in Items \ (L \ H)
      BY <1>1
    <2> QED
      BY <1>1, <1>7, <2>1 DEF Unlinked
  <1>11. Draws(g, l, L \cup N, H \cup {r})
    BY <1>2, <1>5, <1>9, <1>10 DEF Draws, Points, Unlinked
  <1> QED
    BY <1>11 DEF g, l

(* A new item with nothing in it.                                              *)
LEMMA DrawsCreate ==
  ASSUME NEW h, NEW k, NEW L, NEW H, Draws(h, k, L, H), NEW i \in Items \ L
  PROVE  Grown(k, k, {i}, i) /\ Draws(h, k, L \cup {i}, H \cup {i})
  <1>1. /\ h \in Heaps /\ Forest(k, L, H) /\ Unlinked(h, L, H) /\ k \in [Items -> Seq(Items)]
        /\ L \subseteq Items /\ H \subseteq L /\ Points(h, k)
    BY DrawsAre DEF Draws
  <1>2. k[i] = << >> /\ DOMAIN << >> = {} /\ ToSet(<< >>) = {}
    BY <1>1, EmptySeq DEF Forest, ToSet
  <1>3. Grown(k, k, {i}, i)
    BY <1>1, <1>2 DEF Grown
  <1>4. Forest(k, L \cup {i}, H \cup {i})
    BY <1>1, <1>3, ForestGrown
  <1>5. Unlinked(h, L \cup {i}, H \cup {i})
    BY <1>1 DEF Unlinked
  <1> QED
    BY <1>1, <1>3, <1>4, <1>5 DEF Draws

-----------------------------------------------------------------------------
(* The steps. *)

LEMMA KidsAfter ==
  ASSUME NEW k, Draws(heap', k, live', held')
  PROVE  Kids' = k
  <1>1. k \in [Items -> Seq(Items)]
    BY DrawsAre
  <1>2. \A a \in Items : a \notin live' => k[a] = << >>
    BY DEF Draws, Forest
  <1>3. \A a \in Items : Chain(heap', a) = k[a]
    BY ChainIs
  <1>4. Kids' = [i \in Items |-> IF i \in live' THEN Chain(heap', i) ELSE << >>]
    BY DEF Kids
  <1>5. \A a \in Items : (IF a \in live' THEN Chain(heap', a) ELSE << >>) = k[a]
    BY <1>2, <1>3
  <1> QED
    BY <1>1, <1>4, <1>5

(* A step makes new items N, which the caller holds by r.                      *)
LEMMA BuildStep ==
  ASSUME IInv, NEW l, NEW N, N \subseteq Items \ live, NEW r \in N, Grown(l, Kids, N, r),
         live' = live \cup N, held' = held \cup {r}, Draws(heap', l, live', held')
  PROVE  IInv' /\ Lists!Build(r)
  <1>1. Kids' = l
    BY KidsAfter
  <1>2. Forest(Kids, live, held) /\ Lists!Free = Items \ live /\ live \subseteq Items
    BY Reading
  <1>3. Forest(l, live', held') /\ Lists!Within(l, r) = N
    BY <1>2, ForestGrown
  <1>4. \A j \in Items \ N : l[j] = Kids[j]
    BY DEF Grown
  <1>5. \A j \in N : Lists!Places(l, held', j) = 1
    BY <1>3, OnePlace
  <1>6. Draws(heap', Kids', live', held')
    BY <1>1
  <1>7. IInv'
    BY <1>6 DEF IInv
  <1>8. Lists!Build(r)
    BY <1>1, <1>2, <1>3, <1>4, <1>5 DEF Lists!Build
  <1> QED
    BY <1>7, <1>8

(* The calls of the two modules for the same thing.                            *)
LEMMA SameLists ==
  ASSUME NEW k, NEW a, NEW n, NEW i
  PROVE  /\ [k EXCEPT ![a] = Lists!InsertAt(@, n, i)] = With(k, a, n, i)
         /\ [k EXCEPT ![a] = Lists!RemoveAt(@, n)] = Drop(k, a, n)
  BY DEF Lists!InsertAt, Lists!RemoveAt, InsertAt, RemoveAt, With, Drop

LEMMA StepTo ==
  ASSUME NEW l, Draws(heap', l, live', held')
  PROVE  IInv' /\ Kids' = l
  <1>1. Kids' = l
    BY KidsAfter
  <1>2. Draws(heap', Kids', live', held')
    BY <1>1
  <1> QED
    BY <1>1, <1>2 DEF IInv

LEMMA CreateStep ==
  ASSUME IInv, NEW i \in Items, Create(i)
  PROVE  IInv' /\ Lists!Build(i)
  <1>1. i \in Items \ live /\ heap' = heap /\ live' = live \cup {i} /\ held' = held \cup {i}
    BY DEF Create
  <1>2. Draws(heap, Kids, live, held)
    BY Reading
  <1>3. Grown(Kids, Kids, {i}, i) /\ Draws(heap, Kids, live \cup {i}, held \cup {i})
    BY <1>1, <1>2, DrawsCreate
  <1>4. Draws(heap', Kids, live', held')
    BY <1>1, <1>3
  <1> QED
    BY <1>1, <1>3, <1>4, BuildStep

LEMMA InsertStep ==
  ASSUME IInv, NEW a \in Items, NEW i \in Items, MayTake(a, i), NEW n \in 1..(Len(Kids[a]) + 1),
         live' = live, held' = held \ {i}, Draws(heap', With(Kids, a, n, i), live', held')
  PROVE  IInv' /\ a \in live /\ i \in held /\ \E m \in 0..Len(Kids[a]) : Lists!Insert(a, m, i)
  <1>1. IInv' /\ Kids' = With(Kids, a, n, i)
    BY StepTo
  <1>2. Lists!Live = live /\ Inside(i) = Lists!Within(Kids, i)
    BY Reading
  <1>3. Len(Kids[a]) \in Nat
    BY Reading, KidsAre
  <1>4. n - 1 \in 0..Len(Kids[a]) /\ n - 1 + 1 = n
    BY <1>3
  <1>5. i \in held /\ a \in live \ Inside(i)
    BY DEF MayTake
  <1>6. Kids' = [Kids EXCEPT ![a] = Lists!InsertAt(@, n - 1 + 1, i)]
    BY <1>1, <1>4, SameLists
  <1>7. Lists!Insert(a, n - 1, i)
    BY <1>2, <1>5, <1>6 DEF Lists!Insert, Lists!MayTake
  <1> QED
    BY <1>1, <1>4, <1>5, <1>7

LEMMA AddStep ==
  ASSUME IInv, NEW a \in Items, NEW i \in Items, MayTake(a, i),
         heap' = add_item_to_array(heap, a, i), live' = live, held' = held \ {i}
  PROVE  IInv' /\ a \in live /\ i \in held /\ \E m \in 0..Len(Kids[a]) : Lists!Insert(a, m, i)
  <1> DEFINE n == Len(Kids[a]) + 1
  <1>1. /\ Draws(heap, Kids, live, held) /\ Inside(i) = Lists!Within(Kids, i)
        /\ Kids \in [Items -> Seq(Items)]
    BY Reading
  <1>2. i \in held /\ a \in live \ Lists!Within(Kids, i)
    BY <1>1 DEF MayTake
  <1>3. n \in 1..(Len(Kids[a]) + 1)
    BY <1>1, KidsAre
  <1>4. Draws(heap', With(Kids, a, n, i), live', held')
    BY <1>1, <1>2, DrawsAdd
  <1> HIDE DEF n
  <1> QED
    BY <1>3, <1>4, InsertStep

LEMMA InsertBeforeStep ==
  ASSUME IInv, NEW a \in Items, NEW x \in Nat, NEW i \in Items, InsertItemInArray(a, x, i)
  PROVE  IInv' /\ a \in live /\ i \in held /\ \E m \in 0..Len(Kids[a]) : Lists!Insert(a, m, i)
  <1> DEFINE at == get_array_item(a, x)
  <1>1. /\ MayTake(a, i) /\ live' = live /\ held' = held \ {i}
        /\ heap' = IF at = NULL THEN add_item_to_array(heap, a, i) ELSE InsertBefore(heap, a, at, i)
    BY DEF InsertItemInArray
  <1>2. CASE at = NULL
    BY <1>1, <1>2, AddStep
  <1>3. CASE at # NULL
    <2>1. PICK n \in DOMAIN Kids[a] : at = Kids[a][n]
      BY <1>3, Found
    <2>2. /\ Draws(heap, Kids, live, held) /\ Inside(i) = Lists!Within(Kids, i)
          /\ Kids \in [Items -> Seq(Items)]
      BY Reading
    <2>3. i \in held /\ a \in live \ Lists!Within(Kids, i)
      BY <1>1, <2>2 DEF MayTake
    <2>4. n \in 1..(Len(Kids[a]) + 1)
      BY <2>2, KidsAre
    <2>5. Draws(InsertBefore(heap, a, Kids[a][n], i), With(Kids, a, n, i), live, held \ {i})
      BY <2>2, <2>3, DrawsInsert
    <2>6. Draws(heap', With(Kids, a, n, i), live', held')
      BY <1>1, <1>3, <2>1, <2>5
    <2> QED
      BY <1>1, <2>4, <2>6, InsertStep
  <1> QED
    BY <1>2, <1>3

LEMMA AppendStep ==
  ASSUME IInv, NEW a \in Items, NEW i \in Items, NEW name, AddNewToObject(a, name, i)
  PROVE  IInv' /\ a \in live /\ i \in Items \ live /\ Lists!Append1(a, i)
  <1> DEFINE n == Len(Kids[a]) + 1
  <1>1. /\ a \in live /\ i \in Items \ live /\ heap' = add_item_to_array(heap, a, i)
        /\ live' = live \cup {i} /\ held' = held
    BY DEF AddNewToObject
  <1>2. /\ Draws(heap, Kids, live, held) /\ Forest(Kids, live, held) /\ held \subseteq live
        /\ Kids \in [Items -> Seq(Items)]
    BY Reading
  <1>3. Grown(Kids, Kids, {i}, i) /\ Draws(heap, Kids, live \cup {i}, held \cup {i})
    BY <1>1, <1>2, DrawsCreate
  <1>4. Lists!Within(Kids, i) = {i}
    <2>1. Kids[i] = << >> /\ ToSet(<< >>) = {}
      BY <1>1, <1>2, EmptySeq DEF Forest, ToSet
    <2>2. Lists!Closed(Kids, {i}) /\ {i} \in SUBSET Items
      BY <2>1, ClosedIs
    <2> QED
      BY <1>2, <2>2, WithinIs
  <1>5. i \in held \cup {i} /\ a \in (live \cup {i}) \ Lists!Within(Kids, i)
    BY <1>1, <1>4
  <1>6. Draws(add_item_to_array(heap, a, i), With(Kids, a, n, i), live \cup {i}, (held \cup {i}) \ {i})
    BY <1>3, <1>5, DrawsAdd
  <1>7. (held \cup {i}) \ {i} = held
    BY <1>1, <1>2
  <1>8. IInv' /\ Kids' = With(Kids, a, n, i)
    BY <1>1, <1>6, <1>7, StepTo
  <1>9. Append(Kids[a], i) = InsertAt(Kids[a], n, i)
    BY <1>2, KidsAre, Appending
  <1>10. Kids' = [Kids EXCEPT ![a] = Append(@, i)]
    BY <1>8, <1>9 DEF With
  <1>11. Lists!Append1(a, i)
    BY <1>1, <1>10 DEF Lists!Append1
  <1> QED
    BY <1>1, <1>8, <1>11

LEMMA DetachStep ==
  ASSUME IInv, NEW a \in Items, NEW n \in DOMAIN Kids[a], Detach(a, Kids[a][n])
  PROVE  IInv' /\ Lists!Detach(a, n)
  <1> DEFINE i == Kids[a][n]
  <1>1. heap' = DetachItemViaPointer(heap, a, i) /\ held' = held \cup {i} /\ live' = live
    BY DEF Detach
  <1>2. Draws(heap, Kids, live, held)
    BY Reading
  <1>3. Draws(DetachItemViaPointer(heap, a, i), Drop(Kids, a, n), live, held \cup {i})
    BY <1>2, DrawsDetach
  <1>4. IInv' /\ Kids' = Drop(Kids, a, n)
    BY <1>1, <1>3, StepTo
  <1>5. Kids' = [Kids EXCEPT ![a] = Lists!RemoveAt(@, n)]
    BY <1>4, SameLists
  <1>6. Lists!Detach(a, n)
    BY <1>1, <1>5 DEF Lists!Detach
  <1> QED
    BY <1>4, <1>6

(* What a function takes out of the list of a still has the same in it.        *)
LEMMA WithinTaken ==
  ASSUME NEW k, NEW L, NEW H, Forest(k, L, H), NEW a \in Items, NEW n \in DOMAIN k[a],
         NEW l \in [Items -> Seq(Items)], Apart(l, k, a)
  PROVE  Lists!Within(l, k[a][n]) = Lists!Within(k, k[a][n]) /\ k[a][n] \notin H
  <1> DEFINE i == k[a][n]
  <1>1. k \in [Items -> Seq(Items)] /\ \A b \in Items : \A x \in ToSet(k[b]) : x \notin H
    BY InForest
  <1>2. i \in Items /\ i \in ToSet(k[a])
    BY <1>1, KidsAre
  <1>3. a \notin Lists!Within(k, i) /\ i \notin H
    BY <1>1, <1>2, NoCircle
  <1> HIDE DEF i
  <1>4. Lists!Within(k, i) \subseteq Items
    BY <1>1, <1>2, WithinIs
  <1>5. \A j \in Lists!Within(k, i) : l[j] = k[j]
    BY <1>3, <1>4 DEF Apart
  <1>6. Lists!Within(l, i) = Lists!Within(k, i)
    BY <1>1, <1>2, <1>5, WithinSame
  <1> QED
    BY <1>3, <1>6 DEF i

LEMMA DeleteFromStep ==
  ASSUME IInv, NEW a \in Items, NEW n \in DOMAIN Kids[a], DetachAndDelete(a, Kids[a][n])
  PROVE  IInv' /\ Lists!DeleteFrom(a, n)
  <1> DEFINE i == Kids[a][n]
             g == DetachItemViaPointer(heap, a, i)
             l == Drop(Kids, a, n)
             W == Lists!Within(Kids, i)
  <1>1. heap' = Forget(g, Freed(g, i)) /\ live' = live \ Freed(g, i) /\ held' = held
    BY DEF DetachAndDelete, cJSON_Delete
  <1>2. /\ Draws(heap, Kids, live, held) /\ Forest(Kids, live, held)
        /\ Kids \in [Items -> Seq(Items)]
    BY Reading
  <1>3. Draws(g, l, live, held \cup {i})
    BY <1>2, DrawsDetach
  <1>4. l \in [Items -> Seq(Items)] /\ Apart(l, Kids, a)
    BY <1>2, DropIs DEF IsDrop, Apart
  <1> HIDE DEF g, l
  <1>5. Lists!Within(l, i) = W /\ i \notin held
    BY <1>2, <1>4, WithinTaken
  <1> HIDE DEF i
  <1>6. Freed(g, i) = W
    BY <1>3, <1>5, FreedOfHeld
  <1>7. Draws(Forget(g, W), Lists!Without(l, W), live \ W, (held \cup {i}) \ {i})
    <2>1. i \in held \cup {i}
      OBVIOUS
    <2> QED
      BY <1>3, <1>5, <2>1, DrawsDelete
  <1>8. (held \cup {i}) \ {i} = held
    BY <1>5
  <1>9. IInv' /\ Kids' = Lists!Without(l, W)
    BY <1>1, <1>6, <1>7, <1>8, StepTo
  <1>10. l = [Kids EXCEPT ![a] = Lists!RemoveAt(@, n)]
    BY SameLists DEF l
  <1>11. Lists!DeleteFrom(a, n)
    BY <1>1, <1>9, <1>10 DEF Lists!DeleteFrom, i
  <1> QED
    BY <1>9, <1>11

LEMMA ReplaceStep ==
  ASSUME IInv, NEW a \in Items, NEW n \in DOMAIN Kids[a], NEW i \in Items, MayTake(a, i), NEW names,
         Kids[a][n] # NULL, ReplaceItem(a, Kids[a][n], i, names)
  PROVE  IInv' /\ a \in live /\ i \in held /\ Lists!Replace(a, n, i)
  <1> DEFINE old == Kids[a][n]
             g == Replaced(heap, a, old, i)
             l == Swap(Kids, a, n, i)
             W == Lists!Within(Kids, old)
             H == (held \ {i}) \cup {old}
  <1>1. heap' = Forget(g, Freed(g, old)) /\ live' = live \ Freed(g, old) /\ held' = held \ {i}
    BY DEF ReplaceItem, cJSON_Delete
  <1>2. /\ Draws(heap, Kids, live, held) /\ Forest(Kids, live, held) /\ Lists!Live = live
        /\ Kids \in [Items -> Seq(Items)] /\ Inside(i) = Lists!Within(Kids, i)
    BY Reading
  <1>3. i \in held /\ a \in live \ Lists!Within(Kids, i)
    BY <1>2 DEF MayTake
  <1>4. Draws(g, l, live, H)
    BY <1>2, <1>3, DrawsReplace
  <1>5. l \in [Items -> Seq(Items)] /\ Apart(l, Kids, a)
    <2>1. l \in [Items -> Seq(Items)] /\ IsSwap(l, Kids, a, n, i)
      BY <1>2, SwapIs
    <2> HIDE DEF l
    <2> QED
      BY <2>1 DEF IsSwap, Apart
  <1> HIDE DEF g, l
  <1>6. Lists!Within(l, old) = W /\ old \notin held
    BY <1>2, <1>5, WithinTaken
  <1>7. old \in H /\ H \ {old} = held \ {i}
    BY <1>6
  <1> HIDE DEF old, H
  <1>8. Freed(g, old) = W
    BY <1>4, <1>6, <1>7, FreedOfHeld
  <1>9. Draws(Forget(g, W), Lists!Without(l, W), live \ W, held \ {i})
    BY <1>4, <1>6, <1>7, DrawsDelete
  <1>10. IInv' /\ Kids' = Lists!Without(l, W)
    BY <1>1, <1>8, <1>9, StepTo
  <1>11. Lists!Replace(a, n, i)
    BY <1>1, <1>2, <1>3, <1>10 DEF Lists!Replace, Lists!MayTake, Swap, l, old
  <1> QED
    BY <1>3, <1>10, <1>11

LEMMA DeleteStep ==
  ASSUME IInv, NEW i \in Items, Delete(i)
  PROVE  IInv' /\ Lists!Delete(i)
  <1> DEFINE W == Lists!Within(Kids, i)
  <1>1. /\ i \in held /\ heap' = Forget(heap, Freed(heap, i)) /\ live' = live \ Freed(heap, i)
        /\ held' = held \ {i}
    BY DEF Delete, cJSON_Delete
  <1>2. Draws(heap, Kids, live, held)
    BY Reading
  <1>3. Freed(heap, i) = W
    BY <1>1, <1>2, FreedOfHeld
  <1>4. Draws(Forget(heap, W), Lists!Without(Kids, W), live \ W, held \ {i})
    BY <1>1, <1>2, DrawsDelete
  <1>5. IInv' /\ Kids' = Lists!Without(Kids, W)
    BY <1>1, <1>3, <1>4, StepTo
  <1>6. Lists!Delete(i)
    BY <1>1, <1>5 DEF Lists!Delete
  <1> QED
    BY <1>5, <1>6

LEMMA ParseStep ==
  ASSUME IInv, NEW i \in Items, NEW new \in Sequences1(Items \ live), NEW names, Parse(i, new, names)
  PROVE  IInv' /\ Lists!Build(i)
  <1> DEFINE N == {i} \cup ToSet(new)
             lists == [o \in {i} |-> new]
             l == After(Kids, lists)
  <1>1. /\ N \cap live = {} /\ i \notin ToSet(new) /\ heap' = Linked(heap, lists)
        /\ live' = live \cup N /\ held' = held \cup {i}
    BY DEF Parse
  <1>2. new \in Seq(Items) /\ \A n, m \in DOMAIN new : new[n] = new[m] => n = m
    BY DEF Sequences1, IsInjective
  <1>3. /\ ToSet(new) \subseteq Items
    BY <1>2, InSeq
  <1>4. Linking(lists, N, i)
    <2>1. DOMAIN lists = {i} /\ lists[i] = new
      OBVIOUS
    <2> HIDE DEF lists
    <2>2. DOMAIN lists \subseteq N
      BY <2>1
    <2>3. \A o \in DOMAIN lists : lists[o] \in Seq(Items) /\ ToSet(lists[o]) \subseteq N \ {i}
      BY <1>1, <1>2, <2>1
    <2>4. \A a, b \in DOMAIN lists : \A n \in DOMAIN lists[a], m \in DOMAIN lists[b] :
            lists[a][n] = lists[b][m] => a = b /\ n = m
      BY <1>2, <2>1
    <2>5. \A S \in SUBSET Items :
            i \in S /\ (\A o \in S \cap DOMAIN lists : ToSet(lists[o]) \subseteq S) => N \subseteq S
      BY <2>1
    <2> QED
      BY <2>2, <2>3, <2>4, <2>5 DEF Linking
  <1> HIDE DEF lists
  <1>5. /\ Draws(heap, Kids, live, held) /\ Forest(Kids, live, held)
    BY Reading
  <1>6. N \subseteq Items \ live /\ i \in N
    BY <1>1, <1>3
  <1> HIDE DEF N
  <1>7. Draws(heap', l, live', held')
    BY <1>1, <1>4, <1>5, <1>6, DrawsLinked
  <1>8. Grown(l, Kids, N, i)
    BY <1>4, <1>5, <1>6, GrownLinked
  <1> HIDE DEF l
  <1> QED
    BY <1>1, <1>6, <1>7, <1>8, BuildStep

LEMMA DuplicateStep ==
  ASSUME IInv, NEW i \in live, NEW S \in {{i}, Inside(i)}, NEW copy \in Copies(S), Duplicate(i, copy)
  PROVE  IInv' /\ copy[i] \in Items /\ Lists!Build(copy[i])
  <1> DEFINE original == [j \in {copy[o] : o \in S} |-> CHOOSE o \in S : copy[o] = j]
             CopyOf(c) == IF S = {i} THEN << >> ELSE [n \in DOMAIN c |-> copy[c[n]]]
             lists == [j \in DOMAIN original |-> CopyOf(Chain(heap, original[j]))]
             N == {copy[o] : o \in S}
             r == copy[i]
             l == After(Kids, lists)
  <1>1. /\ Draws(heap, Kids, live, held) /\ Forest(Kids, live, held) /\ live \subseteq Items
        /\ Kids \in [Items -> Seq(Items)]
        /\ \A a \in Items : Chain(heap, a) = Kids[a] /\ Inside(a) = Lists!Within(Kids, a)
    BY Reading
  <1>2. /\ copy \in [S -> Items \ live] /\ DOMAIN copy = S
        /\ \A o, p \in S : copy[o] = copy[p] => o = p
    BY DEF Copies, IsInjective
  <1>3. /\ i \in Items /\ i \in Lists!Within(Kids, i) /\ Lists!Within(Kids, i) \subseteq Items
        /\ S = {i} \/ S = Lists!Within(Kids, i)
    BY <1>1, WithinIs
  <1>4. i \in S /\ S \subseteq Items
    BY <1>3
  <1>5. N \subseteq Items \ live /\ r \in N
    BY <1>2, <1>4
  <1>6. heap' = Linked(heap, lists) /\ live' = live \cup N /\ held' = held \cup {r}
    BY <1>2 DEF Duplicate
  <1>7. DOMAIN original = N
    OBVIOUS
  <1>8. \A o \in S : original[copy[o]] = o
    BY <1>2
  <1>9. DOMAIN lists = N /\ \A o \in S : lists[copy[o]] = CopyOf(Kids[o])
    <2>1. DOMAIN lists = N
      BY <1>7
    <2>2. ASSUME NEW o \in S PROVE lists[copy[o]] = CopyOf(Kids[o])
      <3>1. lists[copy[o]] = CopyOf(Chain(heap, original[copy[o]]))
        BY <1>7
      <3> HIDE DEF original
      <3>2. Chain(heap, original[copy[o]]) = Kids[o]
        BY <1>1, <1>4, <1>8
      <3> QED
        BY <3>1, <3>2
    <2> QED
      BY <2>1, <2>2
  <1> HIDE DEF lists, original
  <1>10. Linking(lists, N, r)
    <2>1. CASE S = {i}
      <3>1. << >> \in Seq(Items) /\ ToSet(<< >>) = {} /\ DOMAIN << >> = {}
        BY EmptySeq DEF ToSet
      <3>2. N = {r}
        BY <2>1
      <3>3. \A o \in N : lists[o] = << >>
        BY <1>9, <2>1
      <3> HIDE DEF N
      <3> QED
        BY <1>9, <3>1, <3>2, <3>3 DEF Linking
    <2>2. CASE S # {i}
      <3>1. /\ S = Lists!Within(Kids, i) /\ \A o \in S : \A x \in ToSet(Kids[o]) : x \in S
            /\ \A T \in SUBSET Items : i \in T /\ Lists!Closed(Kids, T) => S \subseteq T
        BY <1>1, <1>3, <2>2, WithinIs, ClosedIs
      <3>2. ASSUME NEW o \in S
            PROVE  /\ DOMAIN Kids[o] = 1..Len(Kids[o]) /\ Len(Kids[o]) \in Nat
                   /\ \A n \in DOMAIN Kids[o] : Kids[o][n] \in S /\ Kids[o][n] # i
                   /\ lists[copy[o]] = [n \in 1..Len(Kids[o]) |-> copy[Kids[o][n]]]
        <4>1. /\ DOMAIN Kids[o] = 1..Len(Kids[o]) /\ Len(Kids[o]) \in Nat
              /\ \A n \in DOMAIN Kids[o] : Kids[o][n] \in ToSet(Kids[o])
          BY <1>1, <1>4, KidsAre
        <4>2. lists[copy[o]] = [n \in DOMAIN Kids[o] |-> copy[Kids[o][n]]]
          BY <1>9, <2>2
        <4>3. i \notin ToSet(Kids[o])
          BY <1>1, <1>4, <3>1, NoCircle
        <4> QED
          BY <3>1, <4>1, <4>2, <4>3
      <3>3. ASSUME NEW o \in S
            PROVE  lists[copy[o]] \in Seq(Items) /\ ToSet(lists[copy[o]]) \subseteq N \ {r}
        <4>1. ASSUME NEW n \in 1..Len(Kids[o]) PROVE copy[Kids[o][n]] \in N \ {r}
          <5> DEFINE x == Kids[o][n]
          <5>1. x \in S /\ x # i
            BY <3>2
          <5> HIDE DEF x
          <5>2. copy[x] \in N /\ copy[x] # copy[i]
            BY <1>2, <1>4, <5>1
          <5> QED
            BY <5>2 DEF x
        <4>2. lists[copy[o]] = [n \in 1..Len(Kids[o]) |-> copy[Kids[o][n]]] /\ Len(Kids[o]) \in Nat
          BY <3>2
        <4> HIDE DEF N, r
        <4>3. lists[copy[o]] \in [1..Len(Kids[o]) -> Items]
          BY <1>5, <4>1, <4>2
        <4>4. lists[copy[o]] \in Seq(Items)
          BY <4>2, <4>3
        <4>5. ToSet(lists[copy[o]]) \subseteq N \ {r}
          BY <4>1, <4>2 DEF ToSet
        <4> QED
          BY <4>4, <4>5
      <3>4. ASSUME NEW a \in N, NEW b \in N, NEW n \in DOMAIN lists[a], NEW m \in DOMAIN lists[b],
                   lists[a][n] = lists[b][m]
            PROVE  a = b /\ n = m
        <4>1. PICK o \in S : a = copy[o]
          OBVIOUS
        <4>2. PICK p \in S : b = copy[p]
          OBVIOUS
        <4>3. /\ n \in DOMAIN Kids[o] /\ m \in DOMAIN Kids[p]
              /\ lists[a][n] = copy[Kids[o][n]] /\ lists[b][m] = copy[Kids[p][m]]
              /\ Kids[o][n] \in S /\ Kids[p][m] \in S
          <5>1. /\ DOMAIN Kids[o] = 1..Len(Kids[o])
                /\ lists[a] = [q \in 1..Len(Kids[o]) |-> copy[Kids[o][q]]]
            BY <3>2, <4>1
          <5>2. /\ DOMAIN Kids[p] = 1..Len(Kids[p])
                /\ lists[b] = [q \in 1..Len(Kids[p]) |-> copy[Kids[p][q]]]
            BY <3>2, <4>2
          <5>3. n \in DOMAIN Kids[o] /\ lists[a][n] = copy[Kids[o][n]]
            BY <5>1
          <5>4. m \in DOMAIN Kids[p] /\ lists[b][m] = copy[Kids[p][m]]
            BY <5>2
          <5>5. Kids[o][n] \in S /\ Kids[p][m] \in S
            BY <3>2, <5>3, <5>4
          <5> QED
            BY <5>3, <5>4, <5>5
        <4>4. Kids[o][n] = Kids[p][m]
          <5>1. copy[Kids[o][n]] = copy[Kids[p][m]]
            BY <3>4, <4>3
          <5> QED
            BY <1>2, <4>3, <5>1
        <4>5. o = p /\ n = m
          BY <1>1, <1>4, <4>3, <4>4, OnceAt DEF Forest
        <4> QED
          BY <4>1, <4>2, <4>5
      <3>5. ASSUME NEW T \in SUBSET Items, r \in T, \A o \in T \cap DOMAIN lists : ToSet(lists[o]) \subseteq T
            PROVE  N \subseteq T
        <4> DEFINE O == {o \in S : copy[o] \in T}
        <4>1. O \in SUBSET Items /\ i \in O
          BY <1>4, <3>5
        <4>2. ASSUME NEW o \in O, NEW x \in ToSet(Kids[o]) PROVE x \in O
          <5>1. o \in S /\ copy[o] \in T /\ x \in S
            BY <3>1
          <5>2. PICK n \in DOMAIN Kids[o] : Kids[o][n] = x
            BY <1>1, <1>4, <5>1, KidsAre
          <5>3. copy[o] \in T \cap DOMAIN lists
            BY <1>9, <5>1
          <5>4. ToSet(lists[copy[o]]) \subseteq T
            BY <3>5, <5>3
          <5>5. copy[x] \in ToSet(lists[copy[o]])
            <6>1. n \in 1..Len(Kids[o]) /\ lists[copy[o]] = [p \in 1..Len(Kids[o]) |-> copy[Kids[o][p]]]
              BY <3>2, <5>1, <5>2
            <6>2. n \in DOMAIN lists[copy[o]] /\ lists[copy[o]][n] = copy[x]
              BY <5>2, <6>1
            <6> QED
              BY <3>3, <5>1, <6>2, InSeq
          <5> QED
            BY <5>1, <5>4, <5>5
        <4> HIDE DEF O
        <4>3. S \subseteq O
          BY <3>1, <4>1, <4>2, ClosedIs
        <4> QED
          BY <4>3 DEF O
      <3>6. \A o \in N : lists[o] \in Seq(Items) /\ ToSet(lists[o]) \subseteq N \ {r}
        BY <3>3
      <3> HIDE DEF N, r
      <3> QED
        BY <1>9, <3>4, <3>5, <3>6 DEF Linking
    <2> QED
      BY <2>1, <2>2
  <1> HIDE DEF N, r
  <1>11. Draws(heap', l, live', held')
    BY <1>1, <1>5, <1>6, <1>10, DrawsLinked
  <1>12. Grown(l, Kids, N, r)
    BY <1>1, <1>5, <1>10, GrownLinked
  <1> HIDE DEF l
  <1>13. IInv' /\ Lists!Build(r)
    BY <1>5, <1>6, <1>11, <1>12, BuildStep
  <1> QED
    BY <1>5, <1>13 DEF r

LEMMA Start == Init => IInv /\ Lists!Init
  <1> SUFFICES ASSUME Init PROVE IInv /\ Lists!Init
    OBVIOUS
  <1> DEFINE k == [i \in Items |-> << >>]
  <1>1. /\ heap = [next |-> Nowhere, prev |-> Nowhere, child |-> Nowhere]
        /\ live = {} /\ held = {}
    BY DEF Init
  <1>2. << >> \in Seq(Items) /\ Len(<< >>) = 0 /\ DOMAIN << >> = {} /\ ToSet(<< >>) = {}
    BY EmptySeq DEF ToSet
  <1>3. Nowhere \in [Items -> Items \cup {NULL}] /\ \A i \in Items : Nowhere[i] = NULL
    BY DEF Nowhere
  <1>4. heap \in Heaps
    BY <1>1, <1>3 DEF Heaps
  <1>5. k \in [Items -> Seq(Items)] /\ \A a \in Items : k[a] = << >>
    BY <1>2
  <1> HIDE DEF k
  <1>6. Forest(k, live, held)
    <2>1. Once(k)
      BY <1>2, <1>5 DEF Once
    <2> QED
      BY <1>1, <1>2, <1>5, <2>1 DEF Forest
  <1>7. Points(heap, k)
    BY <1>1, <1>2, <1>3, <1>5 DEF Points, Row
  <1>8. Unlinked(heap, live, held)
    BY <1>1, <1>3 DEF Unlinked
  <1>9. Draws(heap, k, live, held)
    BY <1>4, <1>6, <1>7, <1>8 DEF Draws
  <1>10. Kids = k
    BY <1>9, KidsIs
  <1>11. IInv
    BY <1>9, <1>10 DEF IInv
  <1>12. Lists!Init
    BY <1>1, <1>10 DEF Lists!Init, k
  <1> QED
    BY <1>11, <1>12

(* A step that leaves the lists alone.                                         *)
LEMMA Stutter ==
  ASSUME IInv, UNCHANGED <<heap, live, held>>
  PROVE  IInv' /\ UNCHANGED Lists!lists
  <1>1. Draws(heap', Kids, live', held')
    BY Reading
  <1>2. IInv' /\ Kids' = Kids
    BY <1>1, StepTo
  <1> QED
    BY <1>2 DEF Lists!lists

(* The steps by which JsonLists says a list changes.                           *)
Changes(a) ==
  \/ \E i \in Lists!Free : Lists!Append1(a, i)
  \/ \E i \in held : \E n \in 0..Len(Kids[a]) : Lists!Insert(a, n, i)
  \/ \E n \in DOMAIN Kids[a] :
       Lists!Detach(a, n) \/ Lists!DeleteFrom(a, n) \/ \E i \in held : Lists!Replace(a, n, i)

LEMMA ListStep ==
  ASSUME IInv, NEW a \in Items, NEW i \in Items, NEW x \in Nat, NEW name,
         \/ AddItemToArray(a, i) \/ AddItemToObject(a, name, i) \/ AddNewToObject(a, name, i)
         \/ ReplaceItemInObject(a, name, i) \/ InsertItemInArray(a, x, i) \/ ReplaceItemInArray(a, x, i)
  PROVE  IInv' /\ ((a \in live /\ Changes(a)) \/ UNCHANGED Lists!lists)
  <1>1. CASE AddItemToArray(a, i) \/ AddItemToObject(a, name, i)
    <2>1. /\ MayTake(a, i) /\ heap' = add_item_to_array(heap, a, i) /\ live' = live /\ held' = held \ {i}
      BY <1>1 DEF AddItemToArray, AddItemToObject
    <2>2. IInv' /\ a \in live /\ i \in held /\ \E m \in 0..Len(Kids[a]) : Lists!Insert(a, m, i)
      BY <2>1, AddStep
    <2> QED
      BY <2>2 DEF Changes
  <1>2. CASE InsertItemInArray(a, x, i)
    <2>1. IInv' /\ a \in live /\ i \in held /\ \E m \in 0..Len(Kids[a]) : Lists!Insert(a, m, i)
      BY <1>2, InsertBeforeStep
    <2> QED
      BY <2>1 DEF Changes
  <1>3. CASE AddNewToObject(a, name, i)
    <2>1. IInv' /\ a \in live /\ i \in Items \ live /\ Lists!Append1(a, i)
      BY <1>3, AppendStep
    <2>2. Lists!Free = Items \ live
      BY Reading
    <2> QED
      BY <2>1, <2>2 DEF Changes
  <1>4. ASSUME NEW old, NEW names, MayTake(a, i), ReplaceItem(a, old, i, names),
               (\E n : old = get_array_item(a, n)) \/ (\E y : old = get_object_item(a, y))
        PROVE  IInv' /\ ((a \in live /\ Changes(a)) \/ UNCHANGED Lists!lists)
    <2>1. CASE old = NULL
      <3>1. UNCHANGED <<heap, live, held>>
        BY <1>4, <2>1 DEF ReplaceItem
      <3> QED
        BY <3>1, Stutter
    <2>2. CASE old # NULL
      <3>1. PICK n \in DOMAIN Kids[a] : old = Kids[a][n]
        BY <1>4, <2>2, Found
      <3>2. IInv' /\ a \in live /\ i \in held /\ Lists!Replace(a, n, i)
        BY <1>4, <2>2, <3>1, ReplaceStep
      <3> QED
        BY <3>2 DEF Changes
    <2> QED
      BY <2>1, <2>2
  <1>5. CASE ReplaceItemInArray(a, x, i)
    <2>1. MayTake(a, i) /\ ReplaceItem(a, get_array_item(a, x), i, key)
      BY <1>5 DEF ReplaceItemInArray
    <2> QED
      BY <1>4, <2>1
  <1>6. CASE ReplaceItemInObject(a, name, i)
    <2>1. CASE UNCHANGED <<heap, live, held>>
      BY <2>1, Stutter
    <2>2. CASE ReplaceItem(a, get_object_item(a, name), i, [key EXCEPT ![i] = name])
      <3>1. MayTake(a, i)
        BY <1>6 DEF ReplaceItemInObject
      <3> QED
        BY <1>4, <2>2, <3>1
    <2> QED
      BY <1>6, <2>1, <2>2 DEF ReplaceItemInObject
  <1> QED
    BY <1>1, <1>2, <1>3, <1>5, <1>6

LEMMA TakeStep ==
  ASSUME IInv, NEW a \in Items, NEW x \in Nat, NEW name,
         \/ DetachItemFromArray(a, x) \/ DeleteItemFromArray(a, x)
         \/ DetachItemFromObject(a, name) \/ DeleteItemFromObject(a, name)
  PROVE  IInv' /\ a \in live /\ Changes(a)
  <1>1. ASSUME NEW i, Detach(a, i) \/ DetachAndDelete(a, i),
               (\E n : i = get_array_item(a, n)) \/ (\E y : i = get_object_item(a, y))
        PROVE  IInv' /\ Changes(a)
    <2>1. i # NULL
      BY <1>1 DEF Detach, DetachAndDelete
    <2>2. PICK n \in DOMAIN Kids[a] : i = Kids[a][n]
      BY <1>1, <2>1, Found
    <2>3. CASE Detach(a, i)
      <3>1. IInv' /\ Lists!Detach(a, n)
        BY <2>2, <2>3, DetachStep
      <3> QED
        BY <3>1 DEF Changes
    <2>4. CASE DetachAndDelete(a, i)
      <3>1. IInv' /\ Lists!DeleteFrom(a, n)
        BY <2>2, <2>4, DeleteFromStep
      <3> QED
        BY <3>1 DEF Changes
    <2> QED
      BY <1>1, <2>3, <2>4
  <1>2. CASE DetachItemFromArray(a, x) \/ DeleteItemFromArray(a, x)
    BY <1>1, <1>2 DEF DetachItemFromArray, DeleteItemFromArray
  <1>3. CASE DetachItemFromObject(a, name) \/ DeleteItemFromObject(a, name)
    BY <1>1, <1>3 DEF DetachItemFromObject, DeleteItemFromObject
  <1> QED
    BY <1>2, <1>3

LEMMA Step ==
  ASSUME IInv, [Next]_vars
  PROVE  IInv' /\ [Lists!Next]_Lists!lists
  <1>1. IInv /\ Lists!Live = live /\ live \subseteq Items
    BY Reading
  <1>2. ASSUME NEW a \in live, Changes(a) PROVE Lists!Next
    <2>1. a \in Lists!Live
      BY <1>1
    <2> QED
      BY <1>2, <2>1 DEF Changes, Lists!Next
  <1>3. ASSUME NEW i \in Items, Lists!Build(i) \/ Lists!Delete(i) PROVE Lists!Next
    BY <1>3 DEF Lists!Next
  <1>4. 1..Cardinality(Items) \subseteq Nat
    BY FS_CardinalityType, JsonItemsAssumption
  <1>5. ASSUME NEW i \in Items, Create(i) \/ Delete(i)
        PROVE  IInv' /\ Lists!Next
    BY <1>3, <1>5, CreateStep, DeleteStep
  <1>6. ASSUME NEW a \in Items, NEW i \in Items,
               \/ AddItemToArray(a, i)
               \/ \E k \in Keys :
                    AddItemToObject(a, k, i) \/ AddNewToObject(a, k, i) \/ ReplaceItemInObject(a, k, i)
               \/ \E n \in 1..Cardinality(Items) : InsertItemInArray(a, n, i) \/ ReplaceItemInArray(a, n, i)
        PROVE  IInv' /\ [Lists!Next]_Lists!lists
    <2>1. IInv' /\ ((a \in live /\ Changes(a)) \/ UNCHANGED Lists!lists)
      BY <1>4, <1>6, ListStep
    <2> QED
      BY <1>2, <2>1
  <1>7. ASSUME NEW a \in Items,
               \/ \E n \in 1..Cardinality(Items) : DetachItemFromArray(a, n) \/ DeleteItemFromArray(a, n)
               \/ \E k \in Keys : DetachItemFromObject(a, k) \/ DeleteItemFromObject(a, k)
        PROVE  IInv' /\ Lists!Next
    <2>1. IInv' /\ a \in live /\ Changes(a)
      BY <1>4, <1>7, TakeStep
    <2> QED
      BY <1>2, <2>1
  <1>8. ASSUME NEW i \in Items, NEW new \in Sequences1(Items \ live), NEW names, Parse(i, new, names)
        PROVE  IInv' /\ Lists!Next
    BY <1>3, <1>8, ParseStep
  <1>9. ASSUME NEW i \in live, NEW S \in {{i}, Inside(i)}, NEW copy \in Copies(S), Duplicate(i, copy)
        PROVE  IInv' /\ Lists!Next
    BY <1>3, <1>9, DuplicateStep
  <1>10. CASE UNCHANGED vars
    <2>1. UNCHANGED <<heap, live, held>>
      BY <1>10 DEF vars
    <2> QED
      BY <2>1, Stutter
  <1>11. CASE Next
    BY <1>5, <1>6, <1>7, <1>8, <1>9, <1>11 DEF Next
  <1> QED
    BY <1>10, <1>11

(* The pointers of all items that exist draw a forest of lists whose roots the *)
(* caller holds: what every function of cJSON keeps.                           *)
THEOREM PointersDrawForest == Spec => []IInv
  <1>1. Init => IInv
    BY Start
  <1>2. IInv /\ [Next]_vars => IInv'
    BY Step
  <1> QED
    BY <1>1, <1>2, PTL DEF Spec

(* Whatever the order of the calls, pointers point to items that exist, and    *)
(* every item is held by the caller or is in one list, once: cJSON uses and    *)
(* frees nothing twice, and loses nothing.                                     *)
THEOREM NothingIsLost == Spec => []NothingLost
  <1>1. IInv => NothingLost
    <2> SUFFICES ASSUME IInv, NEW i \in live
                 PROVE  /\ {heap.next[i], heap.prev[i], heap.child[i]} \subseteq live \cup {NULL}
                        /\ Lists!Places(Kids, held, i) = 1
      BY DEF NothingLost
    <2>1. /\ Forest(Kids, live, held) /\ live \subseteq Items /\ Kids \in [Items -> Seq(Items)]
          /\ Draws(heap, Kids, live, held) /\ heap \in Heaps
      BY Reading
    <2>2. Unlinked(heap, live, held) /\ \A a \in Items : Listed(heap, a, Kids[a])
      BY <2>1, DrawsAre, DrawnIs
    <2>3. \A a \in Items : \A x \in ToSet(Kids[a]) : x \in live
      BY <2>1, InForest
    <2>4. heap.child[i] \in live \cup {NULL}
      <3>1. Listed(heap, i, Kids[i]) /\ i \in Items
        BY <2>1, <2>2
      <3>2. CASE Len(Kids[i]) = 0
        BY <3>1, <3>2 DEF Listed
      <3>3. CASE Len(Kids[i]) # 0
        <4>1. 1 \in 1..Len(Kids[i]) /\ heap.child[i] = Kids[i][1] /\ Kids[i][1] \in ToSet(Kids[i])
          BY <3>1, <3>3 DEF Listed
        <4> QED
          BY <2>3, <3>1, <4>1
      <3> QED
        BY <3>2, <3>3
    <2>5. heap.next[i] \in live \cup {NULL} /\ heap.prev[i] \in live \cup {NULL}
      <3>1. CASE i \in held
        BY <2>1, <2>2, <3>1 DEF Unlinked
      <3>2. CASE i \notin held
        <4>1. PICK a \in live : i \in ToSet(Kids[a])
          BY <2>1, <3>2, InForest
        <4>2. a \in Items /\ Listed(heap, a, Kids[a])
          BY <2>1, <2>2
        <4>3. PICK n \in 1..Len(Kids[a]) : i = Kids[a][n]
          <5>1. DOMAIN Kids[a] = 1..Len(Kids[a]) /\ \E n \in DOMAIN Kids[a] : Kids[a][n] = i
            BY <2>1, <4>1, <4>2, KidsAre
          <5> QED
            BY <5>1
        <4>4. /\ Len(Kids[a]) \in Nat /\ \A m \in 1..Len(Kids[a]) : Kids[a][m] \in live
              /\ heap.next[i] = IF n = Len(Kids[a]) THEN NULL ELSE Kids[a][n + 1]
              /\ heap.prev[i] = IF n = 1 THEN Kids[a][Len(Kids[a])] ELSE Kids[a][n - 1]
          BY <2>3, <4>2, <4>3 DEF Listed
        <4>5. /\ n # Len(Kids[a]) => n + 1 \in 1..Len(Kids[a])
              /\ n # 1 => n - 1 \in 1..Len(Kids[a])
              /\ Len(Kids[a]) \in 1..Len(Kids[a])
          BY <4>4
        <4> QED
          BY <4>4, <4>5
      <3> QED
        BY <3>1, <3>2
    <2>6. Lists!Places(Kids, held, i) = 1
      BY <2>1, OnePlace
    <2> QED
      BY <2>4, <2>5, <2>6
  <1> QED
    BY <1>1, PointersDrawForest, PTL

(* Every function changes the lists as JsonLists says, and nothing else.       *)
THEOREM ListsImplemented == Spec => ListsSpec
  <1>1. Init => Lists!Init
    BY Start
  <1>2. IInv /\ [Next]_vars => [Lists!Next]_Lists!lists
    BY Step
  <1>3. Spec => []IInv
    BY PointersDrawForest
  <1> QED
    BY <1>1, <1>2, <1>3, PTL DEF Spec, ListsSpec, Lists!Spec
=============================================================================
