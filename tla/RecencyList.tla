---------------------------- MODULE RecencyList ----------------------------
(***************************************************************************)
(* The doubly linked list of Go's container/list together with the map of  *)
(* list elements that the shim keeps beside it.  The Tier 1 LRU (lru.go),  *)
(* the signed-url map (signedmap.go) and the manifest FIFO (manifests.go)  *)
(* all use this pair: the list gives the order, front is the next victim,  *)
(* and the map finds an element by its key.  A list is a sequence of keys  *)
(* without repetition; the map's domain is the set of the list's members.  *)
(***************************************************************************)
EXTENDS Integers, Sequences

\* The keys of the element map that accompanies the list.
Members(list) == { list[i] : i \in DOMAIN list }

\* No key has two elements in the list.
Distinct(list) == \A i, j \in DOMAIN list : list[i] = list[j] => i = j

\* Where the element of key k is.
Position(list, k) == CHOOSE i \in DOMAIN list : list[i] = k

\* list.Remove of the element of key k, which is in the list.
Without(list, k) ==
    [ j \in 1 .. (Len(list) - 1) |->
        list[IF j < Position(list, k) THEN j ELSE j + 1] ]

\* list.MoveToBack of the element of key k, which is in the list.
MoveToBack(list, k) == Append(Without(list, k), k)

\* Mutant: an element is pushed whether the key has one or not.
NewestAlwaysPush(list, k) == Append(list, k)

\* Key k becomes the newest: moved when it is a member, pushed otherwise.
Newest(list, k) ==
    IF k \in Members(list) THEN MoveToBack(list, k) ELSE Append(list, k)

\* Key k leaves the list, if it is there.
Dropped(list, k) == IF k \in Members(list) THEN Without(list, k) ELSE list
=============================================================================
