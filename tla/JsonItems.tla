----------------------------- MODULE JsonItems -----------------------------
(***************************************************************************)
(* The items of cJSON in memory: each has a pointer to the next and to the *)
(* previous item of the list it is in, and to the first item of its own    *)
(* list.  The previous of the first item is the last one, so that an item  *)
(* is added at the end without a walk.  A function that finds no memory    *)
(* leaves all as it was, but for ReplaceItemInObject; what the functions   *)
(* make and cannot use they delete.  The caller deletes and gives away     *)
(* only what it holds, and puts nothing inside itself: cJSON checks no     *)
(* more of this than that a list is not its own item.                      *)
(***************************************************************************)
EXTENDS Naturals, FiniteSets, Sequences, SequencesExt, Functions

CONSTANTS
  Items,  \* memory for items
  Keys    \* names of members

NULL == "NULL"

ASSUME JsonItemsAssumption == IsFiniteSet(Items) /\ NULL \notin Items

VARIABLES
  heap,  \* next, prev and child of every item
  key,   \* its name (item->string)
  live,  \* the items that have been allocated and not freed
  held   \* those the caller has to delete

vars == <<heap, key, live, held>>

Nowhere == [i \in Items |-> NULL]
Init ==
  /\ heap = [next |-> Nowhere, prev |-> Nowhere, child |-> Nowhere]
  /\ key = Nowhere /\ live = {} /\ held = {}

-----------------------------------------------------------------------------
Put(h, field, i, v) == [h EXCEPT ![field][i] = v]

(* The list of an item, along next; one item more than there are if circular.  *)
Chain(h, i) ==
  LET at[n \in Nat] ==
        IF n = 0 THEN h.child[i] ELSE LET j == at[n - 1] IN IF j = NULL THEN NULL ELSE h.next[j]
      length == Cardinality({n \in 0..Cardinality(Items) : at[n] # NULL})
  IN [n \in 1..length |-> at[n - 1]]

(* What cJSON_Delete frees: the least set that follows next and child.         *)
Follows(h, S) == \A j \in S : {h.next[j], h.child[j]} \subseteq S \cup {NULL}
Freed(h, i) ==
  LET sets == {S \in SUBSET Items : i \in S /\ Follows(h, S)}
  IN {j \in Items : \A S \in sets : j \in S}

(* cJSON_Delete; the content of freed memory is of no interest.                *)
Cleared(names, gone) == [i \in Items |-> IF i \in gone THEN NULL ELSE names[i]]
Forget(h, gone) ==
  [next |-> Cleared(h.next, gone), prev |-> Cleared(h.prev, gone), child |-> Cleared(h.child, gone)]
cJSON_Delete(h, i) ==
  /\ heap' = Forget(h, Freed(h, i))
  /\ live' = live \ Freed(h, i)

Inside(i) == Freed(Put(heap, "next", i, NULL), i)
MayTake(a, i) == i \in held /\ a \in live \ Inside(i)

(* get_array_item and get_object_item; NULL if there is none.                  *)
get_array_item(a, n) == LET c == Chain(heap, a) IN IF n \in DOMAIN c THEN c[n] ELSE NULL
get_object_item(a, k) ==
  LET c == Chain(heap, a)
      hits == {n \in DOMAIN c : key[c[n]] = k}
  IN IF hits = {} THEN NULL ELSE c[CHOOSE n \in hits : \A m \in hits : n =< m]

-----------------------------------------------------------------------------
(* The functions on lists, from a heap to a heap.                              *)
suffix_object(h, p, i) == Put(Put(h, "next", p, i), "prev", i, p)

add_item_to_array(h, a, i) ==
  LET first == h.child[a] IN
  IF first = NULL THEN Put(Put(Put(h, "child", a, i), "prev", i, i), "next", i, NULL)
  ELSE IF h.prev[first] = NULL THEN h
  ELSE Put(suffix_object(h, h.prev[first], i), "prev", first, i)

(* Mutation: the last item of the list is forgotten when it is detached. *)
DetachForgetsLast(h, a, i) ==
  LET before == IF i # h.child[a] THEN Put(h, "next", h.prev[i], h.next[i]) ELSE h
      after == IF h.next[i] # NULL THEN Put(before, "prev", h.next[i], h.prev[i]) ELSE before
      first == IF i = h.child[a] THEN Put(after, "child", a, h.next[i]) ELSE after
  IN Put(Put(first, "prev", i, NULL), "next", i, NULL)

DetachItemViaPointer(h, a, i) ==
  LET before == IF i # h.child[a] THEN Put(h, "next", h.prev[i], h.next[i]) ELSE h
      after == IF h.next[i] # NULL THEN Put(before, "prev", h.next[i], h.prev[i]) ELSE before
      first == CASE i = h.child[a] -> Put(after, "child", a, h.next[i])
                 [] i # h.child[a] /\ h.next[i] = NULL -> Put(after, "prev", h.child[a], h.prev[i])
                 [] OTHER -> after
  IN Put(Put(first, "prev", i, NULL), "next", i, NULL)

(* Before the item at, which is in the list of a.                              *)
InsertBefore(h, a, at, i) ==
  LET new == Put(Put(Put(h, "next", i, at), "prev", i, h.prev[at]), "prev", at, i)
  IN IF at = h.child[a] THEN Put(new, "child", a, i) ELSE Put(new, "next", h.prev[at], i)

(* The list after ReplaceItemViaPointer has put i in the place of old, which   *)
(* it then deletes.                                                            *)
InPlaceOf(h, a, old, i) ==
  LET taken == Put(Put(h, "next", i, h.next[old]), "prev", i, h.prev[old])
      back == IF h.next[old] # NULL THEN Put(taken, "prev", h.next[old], i) ELSE taken
      only == IF h.prev[old] = old THEN Put(back, "prev", i, i) ELSE back
      inner == IF h.prev[old] # NULL THEN Put(back, "next", h.prev[old], i) ELSE back
      last == IF h.next[old] = NULL THEN Put(inner, "prev", h.child[a], i) ELSE inner
  IN IF h.child[a] = old THEN Put(only, "child", a, i) ELSE last

(* Mutation: the deleted item still points into the list. *)
ReplacedUncut(h, a, old, i) == InPlaceOf(h, a, old, i)

Replaced(h, a, old, i) ==
  Put(Put(InPlaceOf(h, a, old, i), "next", old, NULL), "prev", old, NULL)

-----------------------------------------------------------------------------
(* The functions.                                                              *)
(* cJSON_Create*: a new item, cleared.                                         *)
Create(i) ==
  /\ i \notin live
  /\ live' = live \cup {i} /\ held' = held \cup {i}
  /\ UNCHANGED <<heap, key>>

AddItemToArray(a, i) ==
  /\ MayTake(a, i)
  /\ heap' = add_item_to_array(heap, a, i)
  /\ held' = held \ {i}
  /\ UNCHANGED <<key, live>>

(* The name is copied first: without memory for it i stays with the caller.    *)
AddItemToObject(a, k, i) ==
  /\ MayTake(a, i)
  /\ heap' = add_item_to_array(heap, a, i)
  /\ key' = [key EXCEPT ![i] = k]
  /\ held' = held \ {i}
  /\ UNCHANGED live

(* cJSON_Add*ToObject; an item that cannot be added is deleted.                *)
AddNewToObject(a, k, i) ==
  /\ a \in live /\ i \notin live
  /\ heap' = add_item_to_array(heap, a, i)
  /\ key' = [key EXCEPT ![i] = k]
  /\ live' = live \cup {i}
  /\ UNCHANGED held

Detach(a, i) ==
  /\ i # NULL
  /\ heap' = DetachItemViaPointer(heap, a, i)
  /\ held' = held \cup {i}
  /\ UNCHANGED <<key, live>>

DetachItemFromArray(a, n) == a \in live /\ Detach(a, get_array_item(a, n))
DetachItemFromObject(a, k) == a \in live /\ Detach(a, get_object_item(a, k))

(* cJSON_DeleteItemFrom*: detached, then deleted.                              *)
DetachAndDelete(a, i) ==
  /\ i # NULL
  /\ cJSON_Delete(DetachItemViaPointer(heap, a, i), i)
  /\ key' = Cleared(key, live \ live')
  /\ UNCHANGED held

DeleteItemFromArray(a, n) == a \in live /\ DetachAndDelete(a, get_array_item(a, n))
DeleteItemFromObject(a, k) == a \in live /\ DetachAndDelete(a, get_object_item(a, k))

InsertItemInArray(a, n, i) ==
  LET at == get_array_item(a, n) IN
  /\ MayTake(a, i)
  /\ heap' = IF at = NULL THEN add_item_to_array(heap, a, i) ELSE InsertBefore(heap, a, at, i)
  /\ held' = held \ {i}
  /\ UNCHANGED <<key, live>>

(* cJSON_ReplaceItemViaPointer; without an item to replace it does nothing.    *)
ReplaceItem(a, old, i, names) ==
  IF old = NULL THEN key' = names /\ UNCHANGED <<heap, live, held>>
  ELSE /\ cJSON_Delete(Replaced(heap, a, old, i), old)
       /\ key' = Cleared(names, live \ live')
       /\ held' = held \ {i}

ReplaceItemInArray(a, n, i) ==
  MayTake(a, i) /\ ReplaceItem(a, get_array_item(a, n), i, key)

(* The new item has lost its name by then, and k if there is memory for it.    *)
ReplaceItemInObject(a, k, i) ==
  /\ MayTake(a, i)
  /\ \/ key' = [key EXCEPT ![i] = NULL] /\ UNCHANGED <<heap, live, held>>
     \/ ReplaceItem(a, get_object_item(a, k), i, [key EXCEPT ![i] = k])

Delete(i) ==
  /\ i \in held
  /\ cJSON_Delete(heap, i)
  /\ key' = Cleared(key, live \ live')
  /\ held' = held \ {i}

-----------------------------------------------------------------------------
(* New items linked into lists, which are given for each item that gets one:   *)
(* what parse_array, parse_object and cJSON_Duplicate do with each new item,   *)
(* and with the first and last of them.                                        *)
Behind(c, n) == IF n = Len(c) THEN NULL ELSE c[n + 1]
Before(c, n) == IF n = 1 THEN c[Len(c)] ELSE c[n - 1]

Linked(h, lists) ==
  LET places == UNION {{o} \X DOMAIN lists[o] : o \in DOMAIN lists}
      new == {lists[p[1]][p[2]] : p \in places}
      Of(j) == CHOOSE p \in places : lists[p[1]][p[2]] = j
  IN [child |-> [o \in Items |->
        IF o \in DOMAIN lists /\ lists[o] # << >> THEN lists[o][1] ELSE h.child[o]],
      next |-> [j \in Items |-> IF j \in new THEN Behind(lists[Of(j)[1]], Of(j)[2]) ELSE h.next[j]],
      prev |-> [j \in Items |-> IF j \in new THEN Before(lists[Of(j)[1]], Of(j)[2]) ELSE h.prev[j]]]

Sequences1(S) == {s \in UNION {[1..n -> S] : n \in 0..Cardinality(S)} : IsInjective(s)}

(* A document is parsed to an item with a list; each member has its name.      *)
Parse(i, new, names) ==
  /\ ({i} \cup ToSet(new)) \cap live = {} /\ i \notin ToSet(new)
  /\ heap' = Linked(heap, [o \in {i} |-> new])
  /\ key' = [j \in Items |-> IF j \in ToSet(new) THEN names[j] ELSE key[j]]
  /\ live' = live \cup {i} \cup ToSet(new) /\ held' = held \cup {i}

(* copy gives the new item for each one that is copied; all of them copy their *)
(* name, and their lists if more than one is copied.                           *)
Duplicate(i, copy) ==
  LET old == DOMAIN copy
      original == [j \in {copy[o] : o \in old} |-> CHOOSE o \in old : copy[o] = j]
      CopyOf(c) == IF old = {i} THEN << >> ELSE [n \in DOMAIN c |-> copy[c[n]]]
  IN /\ i \in live
     /\ heap' = Linked(heap, [j \in DOMAIN original |-> CopyOf(Chain(heap, original[j]))])
     /\ key' = [j \in Items |-> IF j \in DOMAIN original THEN key[original[j]] ELSE key[j]]
     /\ live' = live \cup DOMAIN original /\ held' = held \cup {copy[i]}

Copies(S) == {f \in [S -> Items \ live] : IsInjective(f)}

Next ==
  \/ \E i \in Items : Create(i) \/ Delete(i)
  \/ \E a, i \in Items :
       \/ AddItemToArray(a, i)
       \/ \E k \in Keys :
            AddItemToObject(a, k, i) \/ AddNewToObject(a, k, i) \/ ReplaceItemInObject(a, k, i)
       \/ \E n \in 1..Cardinality(Items) : InsertItemInArray(a, n, i) \/ ReplaceItemInArray(a, n, i)
  \/ \E a \in Items :
       \/ \E n \in 1..Cardinality(Items) : DetachItemFromArray(a, n) \/ DeleteItemFromArray(a, n)
       \/ \E k \in Keys : DetachItemFromObject(a, k) \/ DeleteItemFromObject(a, k)
  \/ \E i \in Items, new \in Sequences1(Items \ live) :
       \E names \in [ToSet(new) -> Keys] : Parse(i, new, names)
  \/ \E i \in live : \E S \in {{i}, Inside(i)} : \E copy \in Copies(S) : Duplicate(i, copy)

Spec == Init /\ [][Next]_vars

-----------------------------------------------------------------------------
(* The pointers are lists: every function changes the lists its name says, and *)
(* nothing else.                                                               *)
Kids == [i \in Items |-> IF i \in live THEN Chain(heap, i) ELSE << >>]
Lists == INSTANCE JsonLists WITH kids <- Kids
ListsSpec == Lists!Spec

(* Pointers point to items that exist, and every item that exists is held by   *)
(* the caller or is in one list, once: nothing is used after it was freed,     *)
(* freed twice or lost, whatever the order of the calls.                       *)
NothingLost ==
  \A i \in live : /\ {heap.next[i], heap.prev[i], heap.child[i]} \subseteq live \cup {NULL}
                  /\ Lists!Places(Kids, held, i) = 1
=============================================================================
