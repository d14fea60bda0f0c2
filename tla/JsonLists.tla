----------------------------- MODULE JsonLists -----------------------------
(***************************************************************************)
(* What the item functions of cJSON promise their caller: an item holds a  *)
(* list of items.  An item that exists is held by the caller, who must     *)
(* give it to a list or delete it, or it is in one list, once, and is      *)
(* deleted with the item that has the list.                                *)
(***************************************************************************)
EXTENDS Naturals, FiniteSets, Sequences, SequencesExt

CONSTANT Items

VARIABLES
  kids,  \* the items in the list of each item
  held   \* the items the caller has to delete

lists == <<kids, held>>

Init == kids = [i \in Items |-> << >>] /\ held = {}

(* The item and all that is in it, and in what is in it.                       *)
Closed(k, S) == \A j \in S : ToSet(k[j]) \subseteq S
Within(k, i) ==
  LET sets == {S \in SUBSET Items : i \in S /\ Closed(k, S)}
  IN {j \in Items : \A S \in sets : j \in S}

Live == UNION {Within(kids, i) : i \in held}
Free == Items \ Live

(* In how many places an item is.                                              *)
Places(k, h, i) ==
  Cardinality({p \in UNION {{j} \X DOMAIN k[j] : j \in Items} : k[p[1]][p[2]] = i})
    + (IF i \in h THEN 1 ELSE 0)

(* A held item may go into any list but one inside itself.                     *)
MayTake(a, i) == i \in held /\ a \in Live \ Within(kids, i)
Without(k, gone) == [i \in Items |-> IF i \in gone THEN << >> ELSE k[i]]

(* A new item, with what has been made to be in it.                            *)
Build(i) ==
  /\ held' = held \cup {i}
  /\ Within(kids', i) \subseteq Free
  /\ \A j \in Items \ Within(kids', i) : kids'[j] = kids[j]
  /\ \A j \in Within(kids', i) : Places(kids', held', j) = 1

Insert(a, n, i) ==   \* n items stay before it
  /\ held' = held \ {i}
  /\ kids' = [kids EXCEPT ![a] = InsertAt(@, n + 1, i)]
  /\ MayTake(a, i)

Detach(a, n) ==
  /\ held' = held \cup {kids[a][n]}
  /\ kids' = [kids EXCEPT ![a] = RemoveAt(@, n)]

Delete(i) ==
  /\ i \in held
  /\ held' = held \ {i}
  /\ kids' = Without(kids, Within(kids, i))

DeleteFrom(a, n) ==
  /\ UNCHANGED held
  /\ kids' = Without([kids EXCEPT ![a] = RemoveAt(@, n)], Within(kids, kids[a][n]))

Replace(a, n, i) ==
  /\ held' = held \ {i}
  /\ kids' = Without([kids EXCEPT ![a][n] = i], Within(kids, kids[a][n]))
  /\ MayTake(a, i)

(* A new item with a key, put at the end of a list at once.                    *)
Append1(a, i) ==
  /\ UNCHANGED held
  /\ kids' = [kids EXCEPT ![a] = Append(@, i)]

Next ==
  \/ \E i \in Items : Build(i) \/ Delete(i)
  \/ \E a \in Live :
       \/ \E i \in Free : Append1(a, i)
       \/ \E i \in held : \E n \in 0..Len(kids[a]) : Insert(a, n, i)
       \/ \E n \in DOMAIN kids[a] :
            Detach(a, n) \/ DeleteFrom(a, n) \/ \E i \in held : Replace(a, n, i)

Spec == Init /\ [][Next]_lists
=============================================================================
