----------------------------- MODULE LruAccount -----------------------------
(***************************************************************************)
(* The accounting state of lruCache (shim-go/lru.go) and what its methods  *)
(* do to it.  An account is a record: the recency list, front first; the   *)
(* size of each entry, 0 for a key that has none; and the byte count that  *)
(* the code keeps beside them and updates by hand.                         *)
(***************************************************************************)
EXTENDS RecencyList, Functions

NoKey == "no key"

\* An account of no entries; keys are the names that cache files can have.
Empty(keys) == [order |-> <<>>, size |-> [k \in keys |-> 0], total |-> 0]

Entries(l) == Members(l.order)

\* Body of Touch.
Touched(l, k) ==
    IF k \in Entries(l) THEN [l EXCEPT !.order = MoveToBack(@, k)] ELSE l

\* Mutant: a re-recorded entry's old size stays in the count.
RecordedTwice(l, k, n) ==
    [ order |-> Newest(l.order, k),
      size  |-> [l.size EXCEPT ![k] = n],
      total |-> l.total + n ]

\* Mutant: the entry goes to the front, where the victims are taken.
RecordedAtFront(l, k, n) ==
    [ order |-> <<k>> \o Dropped(l.order, k),
      size  |-> [l.size EXCEPT ![k] = n],
      total |-> l.total - (IF k \in Entries(l) THEN l.size[k] ELSE 0) + n ]

\* Body of Record up to the eviction: an entry is resized, or added.
Recorded(l, k, n) ==
    [ order |-> Newest(l.order, k),
      size  |-> [l.size EXCEPT ![k] = n],
      total |-> l.total - (IF k \in Entries(l) THEN l.size[k] ELSE 0) + n ]

\* One iteration of Load's loop: a key that is listed already is skipped.
Loaded(l, k, n) == IF k \in Entries(l) THEN l ELSE Recorded(l, k, n)

\* Body of Forget.
Forgotten(l, k) ==
    IF k \in Entries(l)
    THEN [ order |-> Without(l.order, k),
           size  |-> [l.size EXCEPT ![k] = 0],
           total |-> l.total - l.size[k] ]
    ELSE l

\* What an iteration of evictLocked does to the accounting.
Popped(l) ==
    [ order |-> Tail(l.order),
      size  |-> [l.size EXCEPT ![Head(l.order)] = 0],
      total |-> l.total - l.size[Head(l.order)] ]
-----------------------------------------------------------------------------
\* The type of an account; its list holds each key once.
AccountOK(keys, l) ==
    /\ l = [order |-> l.order, size |-> l.size, total |-> l.total]
    /\ l.order \in Seq(keys)
    /\ Distinct(l.order)
    /\ l.size \in [keys -> Nat]
    /\ l.total \in Int

\* The byte count is the sum of the sizes of the entries.
Exact(l) == l.total = SumFunctionOnSet(l.size, Entries(l))
=============================================================================
