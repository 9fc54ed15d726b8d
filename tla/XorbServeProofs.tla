--------------------------- MODULE XorbServeProofs ---------------------------
(***************************************************************************)
(* The safety theorems of XorbServe: for any number of requests, ranges    *)
(* and fetch slots, any budget, with and without peers, under any faults.  *)
(***************************************************************************)
EXTENDS XorbServe, ListTheorems

\* The fetch slots that flights hold, counted.
Holders(f) == { r \in Req : f[r] }

\* Taking a slot adds one to the count.
LEMMA TakeSlot ==
    ASSUME NEW f \in [Req -> BOOLEAN], NEW r \in Req, ~f[r]
    PROVE  Cardinality(Holders([f EXCEPT ![r] = TRUE])) = Cardinality(Holders(f)) + 1
<1>1. IsFiniteSet(Holders(f))
  BY ReqAssumption, FS_Subset DEF Holders
<1>2. Holders([f EXCEPT ![r] = TRUE]) = Holders(f) \cup {r}
  BY DEF Holders
<1>3. r \notin Holders(f)
  BY DEF Holders
<1> QED BY <1>1, <1>2, <1>3, FS_AddElement

\* Giving a slot back takes one off the count.
LEMMA DropSlot ==
    ASSUME NEW f \in [Req -> BOOLEAN], NEW r \in Req
    PROVE  Cardinality(Holders([f EXCEPT ![r] = FALSE]))
             = Cardinality(Holders(f)) - (IF f[r] THEN 1 ELSE 0)
<1>1. IsFiniteSet(Holders(f))
  BY ReqAssumption, FS_Subset DEF Holders
<1>2. Holders([f EXCEPT ![r] = FALSE]) = Holders(f) \ {r}
  BY DEF Holders
<1>3. r \in Holders(f) <=> f[r]
  BY DEF Holders
<1>4. Cardinality(Holders(f)) \in Nat
  BY <1>1, FS_CardinalityType
<1>5. CASE f[r]
  BY <1>1, <1>2, <1>3, <1>5, FS_RemoveElement
<1>6. CASE ~f[r]
  <2>1. Holders([f EXCEPT ![r] = FALSE]) = Holders(f)
    BY <1>2, <1>3, <1>6
  <2> QED BY <1>4, <1>6, <2>1
<1> QED BY <1>5, <1>6

\* The count is a natural number.
LEMMA CountSlots ==
    ASSUME NEW f \in [Req -> BOOLEAN]
    PROVE  Cardinality(Holders(f)) \in Nat
BY ReqAssumption, FS_Subset, FS_CardinalityType DEF Holders

\* What startup puts into the account: the newest files that fit.
LEMMA CrashAccount ==
    ASSUME TypeOK, NEW s \in Orders(OnDisk), NEW m \in Survivors(Len(s))
    PROVE  LET kept == Suffix(s, m)
           IN  /\ AccountOK(Keys, Account(kept)) /\ Exact(Account(kept))
               /\ Entries(Account(kept)) = Members(kept)
               /\ MaxBytes > 0 => Account(kept).total <= MaxBytes
<1> DEFINE n == Cardinality(OnDisk)
           kept == Suffix(s, m)
           a == Account(kept)
<1>1. n \in Nat
  BY KeysAssumption, FS_Subset, FS_CardinalityType DEF OnDisk
<1>2. s \in Seq(Keys) /\ Len(s) = n /\ Distinct(s)
  <2>1. s \in [1 .. n -> OnDisk] /\ Distinct(s)
    BY DEF Orders
  <2>2. OnDisk \subseteq Keys
    BY DEF OnDisk
  <2> HIDE DEF n
  <2>3. \A i \in 1 .. n : s[i] \in Keys
    BY <2>1, <2>2
  <2> QED BY <1>1, <2>1, <2>3
<1>3. BodySize \in Nat /\ BodySize > 0 /\ MaxBytes \in Nat
  BY SizeAssumption
<1>4. m \in 0 .. n /\ (MaxBytes > 0 => m * BodySize <= MaxBytes)
  <2> SUFFICES /\ Kept(n) \in 0 .. n
               /\ MaxBytes > 0 => Kept(n) * BodySize <= MaxBytes
    <3>1. Kept(n) \in 0 .. n => m \in 0 .. Kept(n)
      BY <1>1, <1>2 DEF Survivors
    <3> HIDE DEF n
    <3>2. ASSUME Kept(n) \in 0 .. n PROVE m * BodySize <= Kept(n) * BodySize
      BY <1>1, <1>3, <3>1, <3>2
    <3> QED BY <1>1, <1>3, <3>1, <3>2
  <2> DEFINE q == MaxBytes \div BodySize
  <2>1. q \in Nat /\ q * BodySize <= MaxBytes
    BY <1>3
  <2>2. CASE MaxBytes > 0 /\ n * BodySize > MaxBytes
    <3>1. Kept(n) = q
      BY <2>2 DEF Kept
    <3>2. q * BodySize < n * BodySize
      BY <1>1, <1>3, <2>1, <2>2
    <3>3. q < n
      BY <1>1, <1>3, <2>1, <3>2
    <3> QED BY <1>1, <2>1, <3>1, <3>3
  <2>3. CASE ~(MaxBytes > 0 /\ n * BodySize > MaxBytes)
    BY <1>1, <1>3, <2>3 DEF Kept
  <2> QED BY <2>2, <2>3
<1>5. kept = SubSeq(s, n - m + 1, n)
  BY <1>2 DEF Suffix
<1> HIDE DEF n
<1>6. kept \in Seq(Keys) /\ Len(kept) = m /\ Distinct(kept)
  <2>1. m \in 0 .. Len(s) /\ kept = SubSeq(s, Len(s) - m + 1, Len(s))
    BY <1>2, <1>4, <1>5
  <2> HIDE DEF kept
  <2> QED BY <1>2, <2>1, SuffixOK
<1> HIDE DEF kept
<1>8. /\ a.order = kept /\ a.total = m * BodySize
      /\ a.size = [k \in Keys |-> IF k \in Members(kept) THEN BodySize ELSE 0]
  BY <1>6 DEF Account
<1>9. a.total \in Int /\ a.size \in [Keys -> Nat]
  BY <1>3, <1>4, <1>8
<1>10. AccountOK(Keys, a)
  <2>1. a = [order |-> a.order, size |-> a.size, total |-> a.total]
    BY DEF Account
  <2> QED BY <1>6, <1>8, <1>9, <2>1 DEF AccountOK
<1>11. Exact(a)
  <2> DEFINE sum == [i \in 0 .. m |-> i * BodySize]
  <2>2. sum[0] = 0 /\ sum[m] = m * BodySize
    BY <1>3, <1>4
  <2>3. ASSUME NEW i \in 1 .. m PROVE sum[i] = sum[i - 1] + a.size[kept[i]]
    <3>1. kept[i] \in Members(kept) /\ kept[i] \in Keys
      BY <1>6 DEF Members
    <3>2. a.size[kept[i]] = BodySize
      BY <1>8, <3>1
    <3>3. sum[i] = i * BodySize /\ sum[i - 1] = (i - 1) * BodySize
      BY <1>4
    <3>4. i * BodySize = (i - 1) * BodySize + BodySize
      BY <1>3, <1>4
    <3> QED BY <3>2, <3>3, <3>4
  <2>4. \A k \in Keys : a.size[k] \in Int
    BY <1>9
  <2> HIDE DEF sum, a
  <2>5. SumFunctionOnSet(a.size, Members(kept)) = sum[m]
    BY <1>6, <2>2, <2>3, <2>4, SumAlong
  <2> QED BY <1>8, <2>2, <2>5 DEF Exact, Entries
<1>12. Entries(a) = Members(kept)
  BY <1>8 DEF Entries
<1>13. MaxBytes > 0 => a.total <= MaxBytes
  BY <1>4, <1>8
<1> HIDE DEF a
<1> QED BY <1>10, <1>11, <1>12, <1>13 DEF a, kept

\* Every step keeps the types.
LEMMA TypeStep == ASSUME TypeOK, [Next]_vars PROVE TypeOK'
<1> USE DEF TypeOK, PCs, Leading, Fetching, Storing, Locked, Results,
       Replies, Errors, Contents
<1>1. ASSUME NEW r \in Req, NEW k \in Keys, NEW kd \in Kinds, Arrive(r, k, kd)
      PROVE  TypeOK'
  BY <1>1, KindsAssumption DEF Arrive, Goto, flight, pool, account
<1>2. ASSUME NEW r \in Req, Disconnect(r) PROVE TypeOK'
  BY <1>2 DEF Disconnect, request, flight, pool, account
<1>3. ASSUME NEW r \in Req, LookupHit(r) PROVE TypeOK'
  BY <1>3 DEF LookupHit, Goto, request, flight, pool, account
<1>4. ASSUME NEW r \in Req, LookupMiss(r) PROVE TypeOK'
  <2>1. CASE kind[r] = "get"
    BY <1>4, <2>1 DEF LookupMiss, Goto, request, flight, pool, account
  <2>2. CASE kind[r] # "get"
    <3>1. /\ pc' = [pc EXCEPT ![r] = "idle"]
          /\ reply' = [reply EXCEPT ![r] = "404"]
          /\ live' = [live EXCEPT ![r] = TRUE]
      BY <1>4, <2>2 DEF LookupMiss, Answer, Goto
    <3>2. /\ pc' \in [Req -> PCs] /\ reply' \in [Req -> Replies]
          /\ live' \in [Req -> BOOLEAN]
      BY <3>1
    <3>3. UNCHANGED <<request, flight, pool, file, tmp, account, crashes>>
      BY <1>4 DEF LookupMiss
    <3> QED BY <3>2, <3>3 DEF request, flight, pool, account
  <2> QED BY <2>1, <2>2
<1>5. ASSUME NEW r \in Req, Touch(r) PROVE TypeOK'
  <2>1. AccountOK(Keys, lru')
    BY <1>5, TouchedOK DEF Touch
  <2> QED BY <1>5, <2>1 DEF Touch, Answer, Goto, request, flight, pool
<1>6. ASSUME NEW r \in Req, Lead(r) PROVE TypeOK'
  BY <1>6 DEF Lead, Goto, request, pool, account
<1>7. ASSUME NEW r \in Req, Follow(r) PROVE TypeOK'
  BY <1>7 DEF Follow, Goto, request, flight, pool, account
<1>8. ASSUME NEW r \in Req, HedgeFires(r) PROVE TypeOK'
  <2>1. inflight' \in Int /\ slot' \in [Req -> BOOLEAN]
    <3>1. CASE inflight < Slots
      <4>1. inflight' = inflight + 1 /\ slot' = [slot EXCEPT ![r] = TRUE]
        BY <1>8, <3>1 DEF HedgeFires
      <4> QED BY <4>1
    <3>2. CASE ~(inflight < Slots)
      BY <1>8, <3>2 DEF HedgeFires
    <3> QED BY <3>1, <3>2
  <2>2. fired' \in [Req -> 0 .. MaxRaces]
    <3>1. fired[r] + 1 \in 0 .. MaxRaces
      BY <1>8 DEF HedgeFires, MaxRaces
    <3> QED BY <1>8, <3>1 DEF HedgeFires
  <2> QED BY <1>8, <2>1, <2>2 DEF HedgeFires, request, account
<1>9. ASSUME NEW r \in Req, PeerServes(r) PROVE TypeOK'
  <2>1. stray' \in Nat
    BY <1>9 DEF PeerServes
  <2> QED BY <1>9, <2>1 DEF PeerServes, Goto, request, account
<1>10. ASSUME NEW r \in Req, PeerServesFirst(r) PROVE TypeOK'
  <2>1. late' \in 0 .. MaxLate
    BY <1>10, BoundsAssumption DEF PeerServesFirst
  <2> QED BY <1>10, <2>1 DEF PeerServesFirst, Goto, request, flight, account
<1>11. ASSUME NEW r \in Req, HedgeServes(r) PROVE TypeOK'
  BY <1>11 DEF HedgeServes, Goto, request, account
<1>12. ASSUME NEW r \in Req, HedgeFails(r) PROVE TypeOK'
  BY <1>12 DEF HedgeFails, request, account
<1>13. ASSUME NEW r \in Req, PeersFail(r) PROVE TypeOK'
  BY <1>13 DEF PeersFail, Goto, request, flight, pool, account
<1>14. ASSUME NEW r \in Req, Acquire(r) PROVE TypeOK'
  BY <1>14 DEF Acquire, Goto, request, account
<1>15. ASSUME NEW r \in Req, AcquireGivesUp(r) PROVE TypeOK'
  BY <1>15 DEF AcquireGivesUp, Fail, Goto, request, pool, account
<1>16. ASSUME NEW r \in Req, FetchServes(r) PROVE TypeOK'
  BY <1>16 DEF FetchServes, Goto, request, flight, pool, account
<1>17. ASSUME NEW r \in Req, NEW c \in Errors, FetchFails(r, c) PROVE TypeOK'
  <2>1. c \in Results
    BY <1>17
  <2> QED BY <1>17, <2>1 DEF FetchFails, Fail, Goto, request, pool, account
<1>18. ASSUME NEW r \in Req, CreateTemp(r) PROVE TypeOK'
  BY <1>18 DEF CreateTemp, Goto, request, flight, pool, account
<1>19. ASSUME NEW r \in Req, WriteTemp(r) PROVE TypeOK'
  BY <1>19 DEF WriteTemp, Goto, request, flight, pool, account
<1>20. ASSUME NEW r \in Req, Rename(r) PROVE TypeOK'
  BY <1>20 DEF Rename, Goto, request, flight, pool, account
<1>21. ASSUME NEW r \in Req, StoreFails(r) PROVE TypeOK'
  BY <1>21 DEF StoreFails, Fail, Goto, request, pool, account
<1>22. ASSUME NEW r \in Req, Record(r) PROVE TypeOK'
  <2>1. AccountOK(Keys, lru')
    BY <1>22, RecordedOK, SizeAssumption DEF Record
  <2> QED BY <1>22, <2>1 DEF Record, Goto, request, flight, pool
<1>23. ASSUME NEW r \in Req, EvictPop(r) PROVE TypeOK'
  <2>1. AccountOK(Keys, lru') /\ Head(lru.order) \in Keys
    BY <1>23, PoppedOK DEF EvictPop
  <2> QED BY <1>23, <2>1 DEF EvictPop, Goto, request, flight, pool
<1>24. ASSUME NEW r \in Req, NEW b \in BOOLEAN, Unlink(r, b) PROVE TypeOK'
  BY <1>24 DEF Unlink, Goto, request, flight, pool
<1>25. ASSUME NEW r \in Req, EvictDone(r) PROVE TypeOK'
  BY <1>25 DEF EvictDone, Goto, request, pool
<1>26. ASSUME NEW r \in Req, Land(r) PROVE TypeOK'
  <2>1. inflight' \in Int /\ fired' \in [Req -> 0 .. MaxRaces]
    BY <1>26 DEF Land, MaxRaces
  <2>2. pc' \in [Req -> PCs] /\ live' \in [Req -> BOOLEAN]
    BY <1>26 DEF Land
  <2>3. reply' \in [Req -> Replies]
    BY <1>26 DEF Land
  <2>4. result' \in [Req -> Results] /\ slot' \in [Req -> BOOLEAN]
    BY <1>26 DEF Land
  <2>5. owner' \in [Keys -> Req \cup {NoReq}]
    BY <1>26 DEF Land
  <2> QED BY <1>26, <2>1, <2>2, <2>3, <2>4, <2>5 DEF Land, request, account
<1>27. CASE StrayUnwinds
  BY <1>27 DEF StrayUnwinds, request, flight, account
<1>28. CASE LateHedge
  <2>1. inflight' \in Int /\ stray' \in Nat /\ late' \in 0 .. MaxLate
    BY <1>28, BoundsAssumption DEF LateHedge
  <2> QED BY <1>28, <2>1 DEF LateHedge, request, flight, account
<1>29. CASE Crash
  <2>1. AccountOK(Keys, lru')
    BY <1>29, CrashAccount DEF Crash
  <2>2. file' \in [Keys -> Contents]
    BY <1>29 DEF Crash
  <2> QED BY <1>29, <2>1, <2>2, BoundsAssumption DEF Crash, MaxRaces, request
<1>30. CASE UNCHANGED vars
  BY <1>30 DEF vars, request, flight, pool, account
<1> QED BY <1>1, <1>2, <1>3, <1>4, <1>5, <1>6, <1>7, <1>8, <1>9, <1>10,
     <1>11, <1>12, <1>13, <1>14, <1>15, <1>16, <1>17, <1>18, <1>19, <1>20,
     <1>21, <1>22, <1>23, <1>24, <1>25, <1>26, <1>27, <1>28, <1>29, <1>30 DEF
     Next, Handle, Fly

\* Every step keeps the books of the fetch semaphore.
LEMMA SlotsStep == ASSUME TypeOK, SlotsAccounted, [Next]_vars PROVE
       SlotsAccounted'
<1> USE DEF SlotsAccounted, Leading, Fetching, Storing, Locked
<1>0. /\ pc \in [Req -> PCs] /\ slot \in [Req -> BOOLEAN]
      /\ inflight \in Int /\ stray \in Nat /\ Slots \in Nat
  BY SlotsAssumption DEF TypeOK
<1>h. /\ Holders(slot) = { r \in Req : slot[r] }
      /\ Holders(slot)' = { r \in Req : slot'[r] }
  BY DEF Holders
<1>c. Cardinality(Holders(slot)) \in Nat
  BY <1>0, CountSlots
<1>1. ASSUME NEW r \in Req, NEW k \in Keys, NEW kd \in Kinds, Arrive(r, k, kd)
      PROVE  SlotsAccounted'
  BY <1>1, <1>0 DEF Arrive, Goto, flight, pool, account
<1>2. ASSUME NEW r \in Req, Disconnect(r) PROVE SlotsAccounted'
  BY <1>2, <1>0 DEF Disconnect, request, flight, pool, account
<1>3. ASSUME NEW r \in Req, LookupHit(r) PROVE SlotsAccounted'
  BY <1>3, <1>0 DEF LookupHit, Goto, request, flight, pool, account
<1>4. ASSUME NEW r \in Req, LookupMiss(r) PROVE SlotsAccounted'
  BY <1>4, <1>0 DEF LookupMiss, Answer, Goto, request, flight, pool, account
<1>5. ASSUME NEW r \in Req, Touch(r) PROVE SlotsAccounted'
  BY <1>5, <1>0 DEF Touch, Answer, Goto, request, flight, pool
<1>6. ASSUME NEW r \in Req, Lead(r) PROVE SlotsAccounted'
  BY <1>6, <1>0 DEF Lead, Goto, request, pool, account
<1>7. ASSUME NEW r \in Req, Follow(r) PROVE SlotsAccounted'
  BY <1>7, <1>0 DEF Follow, Goto, request, flight, pool, account
<1>8. ASSUME NEW r \in Req, HedgeFires(r) PROVE SlotsAccounted'
  <2>1. CASE inflight < Slots
    <3>1. /\ slot' = [slot EXCEPT ![r] = TRUE] /\ ~slot[r] /\ pc[r] = "peers"
          /\ inflight' = inflight + 1 /\ stray' = stray /\ pc' = pc
      BY <1>8, <2>1 DEF HedgeFires
    <3>2. Cardinality(Holders(slot)') = Cardinality(Holders(slot)) + 1
      BY <1>0, <3>1, TakeSlot DEF Holders
    <3> QED BY <1>0, <1>h, <1>c, <2>1, <3>1, <3>2
  <2>2. CASE ~(inflight < Slots)
    BY <1>8, <2>2 DEF HedgeFires
  <2> QED BY <2>1, <2>2
<1>9. ASSUME NEW r \in Req, PeerServes(r) PROVE SlotsAccounted'
  <2>1. /\ slot' = [slot EXCEPT ![r] = FALSE] /\ inflight' = inflight
        /\ pc' = [pc EXCEPT ![r] = "create"]
        /\ stray' = stray + (IF slot[r] THEN 1 ELSE 0)
    BY <1>9 DEF PeerServes, Goto
  <2>2. Cardinality(Holders(slot)')
          = Cardinality(Holders(slot)) - (IF slot[r] THEN 1 ELSE 0)
    BY <1>0, <2>1, DropSlot DEF Holders
  <2> QED BY <1>0, <1>h, <1>c, <2>1, <2>2
<1>10. ASSUME NEW r \in Req, PeerServesFirst(r) PROVE SlotsAccounted'
  BY <1>10, <1>0 DEF PeerServesFirst, Goto, request, flight, account
<1>11. ASSUME NEW r \in Req, HedgeServes(r) PROVE SlotsAccounted'
  <2>1. /\ slot' = [slot EXCEPT ![r] = FALSE] /\ slot[r] /\ pc[r] = "peers"
        /\ inflight' = inflight - 1 /\ stray' = stray
        /\ pc' = [pc EXCEPT ![r] = "create"]
    BY <1>11 DEF HedgeServes, Goto
  <2>2. Cardinality(Holders(slot)') = Cardinality(Holders(slot)) - 1
    BY <1>0, <2>1, DropSlot DEF Holders
  <2> QED BY <1>0, <1>h, <1>c, <2>1, <2>2
<1>12. ASSUME NEW r \in Req, HedgeFails(r) PROVE SlotsAccounted'
  <2>1. /\ slot' = [slot EXCEPT ![r] = FALSE] /\ slot[r] /\ pc[r] = "peers"
        /\ inflight' = inflight - 1 /\ stray' = stray
        /\ pc' = pc
    BY <1>12 DEF HedgeFails
  <2>2. Cardinality(Holders(slot)') = Cardinality(Holders(slot)) - 1
    BY <1>0, <2>1, DropSlot DEF Holders
  <2> QED BY <1>0, <1>h, <1>c, <2>1, <2>2
<1>13. ASSUME NEW r \in Req, PeersFail(r) PROVE SlotsAccounted'
  BY <1>13, <1>0 DEF PeersFail, Goto, request, flight, pool, account
<1>14. ASSUME NEW r \in Req, Acquire(r) PROVE SlotsAccounted'
  <2>1. /\ slot' = [slot EXCEPT ![r] = TRUE] /\ ~slot[r] /\ inflight < Slots
        /\ inflight' = inflight + 1 /\ stray' = stray
        /\ pc' = [pc EXCEPT ![r] = "fetch"]
    BY <1>14, <1>0 DEF Acquire, Goto
  <2>2. Cardinality(Holders(slot)') = Cardinality(Holders(slot)) + 1
    BY <1>0, <2>1, TakeSlot DEF Holders
  <2> QED BY <1>0, <1>h, <1>c, <2>1, <2>2
<1>15. ASSUME NEW r \in Req, AcquireGivesUp(r) PROVE SlotsAccounted'
  BY <1>15, <1>0 DEF AcquireGivesUp, Fail, Goto, request, pool, account
<1>16. ASSUME NEW r \in Req, FetchServes(r) PROVE SlotsAccounted'
  BY <1>16, <1>0 DEF FetchServes, Goto, request, flight, pool, account
<1>17. ASSUME NEW r \in Req, NEW c \in Errors, FetchFails(r, c)
      PROVE  SlotsAccounted'
  BY <1>17, <1>0 DEF FetchFails, Fail, Goto, request, pool, account
<1>18. ASSUME NEW r \in Req, CreateTemp(r) PROVE SlotsAccounted'
  BY <1>18, <1>0 DEF CreateTemp, Goto, request, flight, pool, account
<1>19. ASSUME NEW r \in Req, WriteTemp(r) PROVE SlotsAccounted'
  BY <1>19, <1>0 DEF WriteTemp, Goto, request, flight, pool, account
<1>20. ASSUME NEW r \in Req, Rename(r) PROVE SlotsAccounted'
  BY <1>20, <1>0 DEF Rename, Goto, request, flight, pool, account
<1>21. ASSUME NEW r \in Req, StoreFails(r) PROVE SlotsAccounted'
  BY <1>21, <1>0 DEF StoreFails, Fail, Goto, request, pool, account
<1>22. ASSUME NEW r \in Req, Record(r) PROVE SlotsAccounted'
  BY <1>22, <1>0 DEF Record, Goto, request, flight, pool
<1>23. ASSUME NEW r \in Req, EvictPop(r) PROVE SlotsAccounted'
  BY <1>23, <1>0 DEF EvictPop, Goto, request, flight, pool
<1>24. ASSUME NEW r \in Req, NEW b \in BOOLEAN, Unlink(r, b)
      PROVE  SlotsAccounted'
  BY <1>24, <1>0 DEF Unlink, Goto, request, flight, pool
<1>25. ASSUME NEW r \in Req, EvictDone(r) PROVE SlotsAccounted'
  BY <1>25, <1>0 DEF EvictDone, Goto, request, pool
<1>26. ASSUME NEW r \in Req, Land(r) PROVE SlotsAccounted'
  <2>1. /\ slot' = [slot EXCEPT ![r] = FALSE] /\ stray' = stray
        /\ inflight' = inflight - (IF slot[r] THEN 1 ELSE 0)
    BY <1>26 DEF Land
  <2>2. Cardinality(Holders(slot)')
          = Cardinality(Holders(slot)) - (IF slot[r] THEN 1 ELSE 0)
    BY <1>0, <2>1, DropSlot DEF Holders
  <2>3. \A s \in Req : slot'[s] => pc'[s] \in Leading \ {"acquire"}
    BY <1>26, <1>0 DEF Land
  <2> QED BY <1>0, <1>h, <1>c, <2>1, <2>2, <2>3
<1>27. CASE StrayUnwinds
  BY <1>27, <1>0, <1>h, <1>c DEF StrayUnwinds, flight
<1>28. CASE LateHedge
  <2>1. slot' = slot /\ pc' = pc
    BY <1>28 DEF LateHedge, flight
  <2>2. \/ inflight' = inflight + 1 /\ stray' = stray + 1 /\ inflight < Slots
        \/ inflight' = inflight /\ stray' = stray
    BY <1>28 DEF LateHedge
  <2> QED BY <1>0, <1>h, <1>c, <2>1, <2>2
<1>29. CASE Crash
  <2>1. inflight' = 0 /\ stray' = 0 /\ \A r \in Req : ~slot'[r]
    BY <1>29 DEF Crash
  <2>2. { r \in Req : slot'[r] } = {}
    BY <2>1
  <2> QED BY <1>0, <2>1, <2>2, FS_EmptySet
<1>30. CASE UNCHANGED vars
  BY <1>30, <1>0 DEF vars, request, flight, pool, account
<1> QED BY <1>1, <1>2, <1>3, <1>4, <1>5, <1>6, <1>7, <1>8, <1>9, <1>10,
     <1>11, <1>12, <1>13, <1>14, <1>15, <1>16, <1>17, <1>18, <1>19, <1>20,
     <1>21, <1>22, <1>23, <1>24, <1>25, <1>26, <1>27, <1>28, <1>29, <1>30 DEF
     Next, Handle, Fly

\* Every step keeps one flight per range.
LEMMA FlightStep == ASSUME TypeOK, SingleFlight, [Next]_vars PROVE
       SingleFlight'
<1> USE DEF SingleFlight, Leading, Fetching, Storing, Locked
<1>0. /\ pc \in [Req -> PCs] /\ key \in [Req -> Keys]
      /\ owner \in [Keys -> Req \cup {NoReq}] /\ NoReq \notin Req
  BY ReqAssumption DEF TypeOK
<1>1. ASSUME NEW r \in Req, NEW k \in Keys, NEW kd \in Kinds, Arrive(r, k, kd)
      PROVE  SingleFlight'
  BY <1>1, <1>0 DEF Arrive, Goto, flight, pool, account
<1>2. ASSUME NEW r \in Req, Disconnect(r) PROVE SingleFlight'
  BY <1>2, <1>0 DEF Disconnect, request, flight, pool, account
<1>3. ASSUME NEW r \in Req, LookupHit(r) PROVE SingleFlight'
  BY <1>3, <1>0 DEF LookupHit, Goto, request, flight, pool, account
<1>4. ASSUME NEW r \in Req, LookupMiss(r) PROVE SingleFlight'
  BY <1>4, <1>0 DEF LookupMiss, Answer, Goto, request, flight, pool, account
<1>5. ASSUME NEW r \in Req, Touch(r) PROVE SingleFlight'
  BY <1>5, <1>0 DEF Touch, Answer, Goto, request, flight, pool
<1>6. ASSUME NEW r \in Req, Lead(r) PROVE SingleFlight'
  BY <1>6, <1>0 DEF Lead, Goto, request, pool, account
<1>7. ASSUME NEW r \in Req, Follow(r) PROVE SingleFlight'
  BY <1>7, <1>0 DEF Follow, Goto, request, flight, pool, account
<1>8. ASSUME NEW r \in Req, HedgeFires(r) PROVE SingleFlight'
  BY <1>8, <1>0 DEF HedgeFires, request, account
<1>9. ASSUME NEW r \in Req, PeerServes(r) PROVE SingleFlight'
  BY <1>9, <1>0 DEF PeerServes, Goto, request, account
<1>10. ASSUME NEW r \in Req, PeerServesFirst(r) PROVE SingleFlight'
  BY <1>10, <1>0 DEF PeerServesFirst, Goto, request, flight, account
<1>11. ASSUME NEW r \in Req, HedgeServes(r) PROVE SingleFlight'
  BY <1>11, <1>0 DEF HedgeServes, Goto, request, account
<1>12. ASSUME NEW r \in Req, HedgeFails(r) PROVE SingleFlight'
  BY <1>12, <1>0 DEF HedgeFails, request, account
<1>13. ASSUME NEW r \in Req, PeersFail(r) PROVE SingleFlight'
  BY <1>13, <1>0 DEF PeersFail, Goto, request, flight, pool, account
<1>14. ASSUME NEW r \in Req, Acquire(r) PROVE SingleFlight'
  BY <1>14, <1>0 DEF Acquire, Goto, request, account
<1>15. ASSUME NEW r \in Req, AcquireGivesUp(r) PROVE SingleFlight'
  BY <1>15, <1>0 DEF AcquireGivesUp, Fail, Goto, request, pool, account
<1>16. ASSUME NEW r \in Req, FetchServes(r) PROVE SingleFlight'
  BY <1>16, <1>0 DEF FetchServes, Goto, request, flight, pool, account
<1>17. ASSUME NEW r \in Req, NEW c \in Errors, FetchFails(r, c)
      PROVE  SingleFlight'
  BY <1>17, <1>0 DEF FetchFails, Fail, Goto, request, pool, account
<1>18. ASSUME NEW r \in Req, CreateTemp(r) PROVE SingleFlight'
  BY <1>18, <1>0 DEF CreateTemp, Goto, request, flight, pool, account
<1>19. ASSUME NEW r \in Req, WriteTemp(r) PROVE SingleFlight'
  BY <1>19, <1>0 DEF WriteTemp, Goto, request, flight, pool, account
<1>20. ASSUME NEW r \in Req, Rename(r) PROVE SingleFlight'
  BY <1>20, <1>0 DEF Rename, Goto, request, flight, pool, account
<1>21. ASSUME NEW r \in Req, StoreFails(r) PROVE SingleFlight'
  BY <1>21, <1>0 DEF StoreFails, Fail, Goto, request, pool, account
<1>22. ASSUME NEW r \in Req, Record(r) PROVE SingleFlight'
  BY <1>22, <1>0 DEF Record, Goto, request, flight, pool
<1>23. ASSUME NEW r \in Req, EvictPop(r) PROVE SingleFlight'
  BY <1>23, <1>0 DEF EvictPop, Goto, request, flight, pool
<1>24. ASSUME NEW r \in Req, NEW b \in BOOLEAN, Unlink(r, b)
      PROVE  SingleFlight'
  BY <1>24, <1>0 DEF Unlink, Goto, request, flight, pool
<1>25. ASSUME NEW r \in Req, EvictDone(r) PROVE SingleFlight'
  BY <1>25, <1>0 DEF EvictDone, Goto, request, pool
<1>26. ASSUME NEW r \in Req, Land(r) PROVE SingleFlight'
  BY <1>26, <1>0 DEF Land, request, account
<1>27. CASE StrayUnwinds
  BY <1>27, <1>0 DEF StrayUnwinds, request, flight, account
<1>28. CASE LateHedge
  BY <1>28, <1>0 DEF LateHedge, request, flight, account
<1>29. CASE Crash
  BY <1>29, <1>0 DEF Crash, Fail, Goto, request, flight
<1>30. CASE UNCHANGED vars
  BY <1>30, <1>0 DEF vars, request, flight, pool, account
<1> QED BY <1>1, <1>2, <1>3, <1>4, <1>5, <1>6, <1>7, <1>8, <1>9, <1>10,
     <1>11, <1>12, <1>13, <1>14, <1>15, <1>16, <1>17, <1>18, <1>19, <1>20,
     <1>21, <1>22, <1>23, <1>24, <1>25, <1>26, <1>27, <1>28, <1>29, <1>30 DEF
     Next, Handle, Fly

\* Every step keeps the discipline of lruCache.mu.
LEMMA MutexStep == ASSUME TypeOK, MutexSound, [Next]_vars PROVE MutexSound'
<1> USE DEF MutexSound, Locked
<1>0. /\ pc \in [Req -> PCs] /\ mu \in Req \cup {NoReq}
      /\ victim \in Keys \cup {NoKey} /\ NoReq \notin Req
  BY ReqAssumption DEF TypeOK
<1>1. ASSUME NEW r \in Req, NEW k \in Keys, NEW kd \in Kinds, Arrive(r, k, kd)
      PROVE  MutexSound'
  BY <1>1, <1>0 DEF Arrive, Goto, flight, pool, account
<1>2. ASSUME NEW r \in Req, Disconnect(r) PROVE MutexSound'
  BY <1>2, <1>0 DEF Disconnect, request, flight, pool, account
<1>3. ASSUME NEW r \in Req, LookupHit(r) PROVE MutexSound'
  BY <1>3, <1>0 DEF LookupHit, Goto, request, flight, pool, account
<1>4. ASSUME NEW r \in Req, LookupMiss(r) PROVE MutexSound'
  BY <1>4, <1>0 DEF LookupMiss, Answer, Goto, request, flight, pool, account
<1>5. ASSUME NEW r \in Req, Touch(r) PROVE MutexSound'
  BY <1>5, <1>0 DEF Touch, Answer, Goto, request, flight, pool
<1>6. ASSUME NEW r \in Req, Lead(r) PROVE MutexSound'
  BY <1>6, <1>0 DEF Lead, Goto, request, pool, account
<1>7. ASSUME NEW r \in Req, Follow(r) PROVE MutexSound'
  BY <1>7, <1>0 DEF Follow, Goto, request, flight, pool, account
<1>8. ASSUME NEW r \in Req, HedgeFires(r) PROVE MutexSound'
  BY <1>8, <1>0 DEF HedgeFires, request, account
<1>9. ASSUME NEW r \in Req, PeerServes(r) PROVE MutexSound'
  BY <1>9, <1>0 DEF PeerServes, Goto, request, account
<1>10. ASSUME NEW r \in Req, PeerServesFirst(r) PROVE MutexSound'
  BY <1>10, <1>0 DEF PeerServesFirst, Goto, request, flight, account
<1>11. ASSUME NEW r \in Req, HedgeServes(r) PROVE MutexSound'
  BY <1>11, <1>0 DEF HedgeServes, Goto, request, account
<1>12. ASSUME NEW r \in Req, HedgeFails(r) PROVE MutexSound'
  BY <1>12, <1>0 DEF HedgeFails, request, account
<1>13. ASSUME NEW r \in Req, PeersFail(r) PROVE MutexSound'
  BY <1>13, <1>0 DEF PeersFail, Goto, request, flight, pool, account
<1>14. ASSUME NEW r \in Req, Acquire(r) PROVE MutexSound'
  BY <1>14, <1>0 DEF Acquire, Goto, request, account
<1>15. ASSUME NEW r \in Req, AcquireGivesUp(r) PROVE MutexSound'
  BY <1>15, <1>0 DEF AcquireGivesUp, Fail, Goto, request, pool, account
<1>16. ASSUME NEW r \in Req, FetchServes(r) PROVE MutexSound'
  BY <1>16, <1>0 DEF FetchServes, Goto, request, flight, pool, account
<1>17. ASSUME NEW r \in Req, NEW c \in Errors, FetchFails(r, c)
      PROVE  MutexSound'
  BY <1>17, <1>0 DEF FetchFails, Fail, Goto, request, pool, account
<1>18. ASSUME NEW r \in Req, CreateTemp(r) PROVE MutexSound'
  BY <1>18, <1>0 DEF CreateTemp, Goto, request, flight, pool, account
<1>19. ASSUME NEW r \in Req, WriteTemp(r) PROVE MutexSound'
  BY <1>19, <1>0 DEF WriteTemp, Goto, request, flight, pool, account
<1>20. ASSUME NEW r \in Req, Rename(r) PROVE MutexSound'
  BY <1>20, <1>0 DEF Rename, Goto, request, flight, pool, account
<1>21. ASSUME NEW r \in Req, StoreFails(r) PROVE MutexSound'
  BY <1>21, <1>0 DEF StoreFails, Fail, Goto, Storing, account
<1>22. ASSUME NEW r \in Req, Record(r) PROVE MutexSound'
  BY <1>22, <1>0 DEF Record, Goto, request, flight, pool
<1>23. ASSUME NEW r \in Req, EvictPop(r) PROVE MutexSound'
  <2>1. Head(lru.order) \in Keys
    BY <1>23, PoppedOK DEF TypeOK, EvictPop
  <2> QED BY <1>23, <1>0, <2>1 DEF EvictPop, Goto
<1>24. ASSUME NEW r \in Req, NEW b \in BOOLEAN, Unlink(r, b) PROVE MutexSound'
  BY <1>24, <1>0 DEF Unlink, Goto, request, flight, pool
<1>25. ASSUME NEW r \in Req, EvictDone(r) PROVE MutexSound'
  BY <1>25, <1>0 DEF EvictDone, Goto, request, pool
<1>26. ASSUME NEW r \in Req, Land(r) PROVE MutexSound'
  BY <1>26, <1>0 DEF Land, request, account
<1>27. CASE StrayUnwinds
  BY <1>27, <1>0 DEF StrayUnwinds, request, flight, account
<1>28. CASE LateHedge
  BY <1>28, <1>0 DEF LateHedge, request, flight, account
<1>29. CASE Crash
  BY <1>29, <1>0 DEF Crash, Fail, Goto, request, flight
<1>30. CASE UNCHANGED vars
  BY <1>30, <1>0 DEF vars, request, flight, pool, account
<1> QED BY <1>1, <1>2, <1>3, <1>4, <1>5, <1>6, <1>7, <1>8, <1>9, <1>10,
     <1>11, <1>12, <1>13, <1>14, <1>15, <1>16, <1>17, <1>18, <1>19, <1>20,
     <1>21, <1>22, <1>23, <1>24, <1>25, <1>26, <1>27, <1>28, <1>29, <1>30 DEF
     Next, Handle, Fly

\* Every step leaves whole files only.
LEMMA FilesStep == ASSUME TypeOK, TempWhole, WholeFiles, [Next]_vars PROVE
       TempWhole' /\ WholeFiles'
<1> USE DEF TempWhole, WholeFiles
<1>0. /\ pc \in [Req -> PCs] /\ tmp \in [Req -> Contents]
      /\ key \in [Req -> Keys] /\ file \in [Keys -> Contents]
  BY DEF TypeOK
<1>1. ASSUME NEW r \in Req, NEW k \in Keys, NEW kd \in Kinds, Arrive(r, k, kd)
      PROVE  TempWhole' /\ WholeFiles'
  BY <1>1, <1>0 DEF Arrive, Goto, flight, pool, account
<1>2. ASSUME NEW r \in Req, Disconnect(r) PROVE TempWhole' /\ WholeFiles'
  BY <1>2, <1>0 DEF Disconnect, request, flight, pool, account
<1>3. ASSUME NEW r \in Req, LookupHit(r) PROVE TempWhole' /\ WholeFiles'
  BY <1>3, <1>0 DEF LookupHit, Goto, request, flight, pool, account
<1>4. ASSUME NEW r \in Req, LookupMiss(r) PROVE TempWhole' /\ WholeFiles'
  BY <1>4, <1>0 DEF LookupMiss, Answer, Goto, request, flight, pool, account
<1>5. ASSUME NEW r \in Req, Touch(r) PROVE TempWhole' /\ WholeFiles'
  BY <1>5, <1>0 DEF Touch, Answer, Goto, request, flight, pool
<1>6. ASSUME NEW r \in Req, Lead(r) PROVE TempWhole' /\ WholeFiles'
  BY <1>6, <1>0 DEF Lead, Goto, request, pool, account
<1>7. ASSUME NEW r \in Req, Follow(r) PROVE TempWhole' /\ WholeFiles'
  BY <1>7, <1>0 DEF Follow, Goto, request, flight, pool, account
<1>8. ASSUME NEW r \in Req, HedgeFires(r) PROVE TempWhole' /\ WholeFiles'
  BY <1>8, <1>0 DEF HedgeFires, request, account
<1>9. ASSUME NEW r \in Req, PeerServes(r) PROVE TempWhole' /\ WholeFiles'
  BY <1>9, <1>0 DEF PeerServes, Goto, request, account
<1>10. ASSUME NEW r \in Req, PeerServesFirst(r)
      PROVE  TempWhole' /\ WholeFiles'
  BY <1>10, <1>0 DEF PeerServesFirst, Goto, request, flight, account
<1>11. ASSUME NEW r \in Req, HedgeServes(r) PROVE TempWhole' /\ WholeFiles'
  BY <1>11, <1>0 DEF HedgeServes, Goto, request, account
<1>12. ASSUME NEW r \in Req, HedgeFails(r) PROVE TempWhole' /\ WholeFiles'
  BY <1>12, <1>0 DEF HedgeFails, request, account
<1>13. ASSUME NEW r \in Req, PeersFail(r) PROVE TempWhole' /\ WholeFiles'
  BY <1>13, <1>0 DEF PeersFail, Goto, request, flight, pool, account
<1>14. ASSUME NEW r \in Req, Acquire(r) PROVE TempWhole' /\ WholeFiles'
  BY <1>14, <1>0 DEF Acquire, Goto, request, account
<1>15. ASSUME NEW r \in Req, AcquireGivesUp(r) PROVE TempWhole' /\ WholeFiles'
  BY <1>15, <1>0 DEF AcquireGivesUp, Fail, Goto, request, pool, account
<1>16. ASSUME NEW r \in Req, FetchServes(r) PROVE TempWhole' /\ WholeFiles'
  BY <1>16, <1>0 DEF FetchServes, Goto, request, flight, pool, account
<1>17. ASSUME NEW r \in Req, NEW c \in Errors, FetchFails(r, c)
      PROVE  TempWhole' /\ WholeFiles'
  BY <1>17, <1>0 DEF FetchFails, Fail, Goto, request, pool, account
<1>18. ASSUME NEW r \in Req, CreateTemp(r) PROVE TempWhole' /\ WholeFiles'
  BY <1>18, <1>0 DEF CreateTemp, Goto, request, flight, pool, account
<1>19. ASSUME NEW r \in Req, WriteTemp(r) PROVE TempWhole' /\ WholeFiles'
  BY <1>19, <1>0 DEF WriteTemp, Goto, request, flight, pool, account
<1>20. ASSUME NEW r \in Req, Rename(r) PROVE TempWhole' /\ WholeFiles'
  BY <1>20, <1>0 DEF Rename, Goto, request, flight, pool, account
<1>21. ASSUME NEW r \in Req, StoreFails(r) PROVE TempWhole' /\ WholeFiles'
  BY <1>21, <1>0 DEF StoreFails, Fail, Goto, Storing
<1>22. ASSUME NEW r \in Req, Record(r) PROVE TempWhole' /\ WholeFiles'
  BY <1>22, <1>0 DEF Record, Goto, request, flight, pool
<1>23. ASSUME NEW r \in Req, EvictPop(r) PROVE TempWhole' /\ WholeFiles'
  BY <1>23, <1>0 DEF EvictPop, Goto, request, flight, pool
<1>24. ASSUME NEW r \in Req, NEW b \in BOOLEAN, Unlink(r, b)
      PROVE  TempWhole' /\ WholeFiles'
  BY <1>24, <1>0 DEF Unlink, Goto, request, flight, pool
<1>25. ASSUME NEW r \in Req, EvictDone(r) PROVE TempWhole' /\ WholeFiles'
  BY <1>25, <1>0 DEF EvictDone, Goto, request, pool
<1>26. ASSUME NEW r \in Req, Land(r) PROVE TempWhole' /\ WholeFiles'
  BY <1>26, <1>0 DEF Land, request, account
<1>27. CASE StrayUnwinds
  BY <1>27, <1>0 DEF StrayUnwinds, request, flight, account
<1>28. CASE LateHedge
  BY <1>28, <1>0 DEF LateHedge, request, flight, account
<1>29. CASE Crash
  BY <1>29, <1>0 DEF Crash, Fail, Goto, request, flight
<1>30. CASE UNCHANGED vars
  BY <1>30, <1>0 DEF vars, request, flight, pool, account
<1> QED BY <1>1, <1>2, <1>3, <1>4, <1>5, <1>6, <1>7, <1>8, <1>9, <1>10,
     <1>11, <1>12, <1>13, <1>14, <1>15, <1>16, <1>17, <1>18, <1>19, <1>20,
     <1>21, <1>22, <1>23, <1>24, <1>25, <1>26, <1>27, <1>28, <1>29, <1>30 DEF
     Next, Handle, Fly

\* Every step keeps requests of other shims out of flights.
LEMMA PeersStep == ASSUME TypeOK, PeersNeverFetch, [Next]_vars PROVE
       PeersNeverFetch'
<1> USE DEF PeersNeverFetch, Leading, Fetching, Storing, Locked
<1>0. pc \in [Req -> PCs] /\ kind \in [Req -> {"get", "peer", "head"}]
  BY DEF TypeOK
<1>1. ASSUME NEW r \in Req, NEW k \in Keys, NEW kd \in Kinds, Arrive(r, k, kd)
      PROVE  PeersNeverFetch'
  BY <1>1, <1>0 DEF Arrive, Goto, flight, pool, account
<1>2. ASSUME NEW r \in Req, Disconnect(r) PROVE PeersNeverFetch'
  BY <1>2, <1>0 DEF Disconnect, request, flight, pool, account
<1>3. ASSUME NEW r \in Req, LookupHit(r) PROVE PeersNeverFetch'
  BY <1>3, <1>0 DEF LookupHit, Goto, request, flight, pool, account
<1>4. ASSUME NEW r \in Req, LookupMiss(r) PROVE PeersNeverFetch'
  BY <1>4, <1>0 DEF LookupMiss, Answer, Goto, request, flight, pool, account
<1>5. ASSUME NEW r \in Req, Touch(r) PROVE PeersNeverFetch'
  BY <1>5, <1>0 DEF Touch, Answer, Goto, request, flight, pool
<1>6. ASSUME NEW r \in Req, Lead(r) PROVE PeersNeverFetch'
  BY <1>6, <1>0 DEF Lead, Goto, request, pool, account
<1>7. ASSUME NEW r \in Req, Follow(r) PROVE PeersNeverFetch'
  BY <1>7, <1>0 DEF Follow, Goto, request, flight, pool, account
<1>8. ASSUME NEW r \in Req, HedgeFires(r) PROVE PeersNeverFetch'
  BY <1>8, <1>0 DEF HedgeFires, request, account
<1>9. ASSUME NEW r \in Req, PeerServes(r) PROVE PeersNeverFetch'
  BY <1>9, <1>0 DEF PeerServes, Goto, request, account
<1>10. ASSUME NEW r \in Req, PeerServesFirst(r) PROVE PeersNeverFetch'
  BY <1>10, <1>0 DEF PeerServesFirst, Goto, request, flight, account
<1>11. ASSUME NEW r \in Req, HedgeServes(r) PROVE PeersNeverFetch'
  BY <1>11, <1>0 DEF HedgeServes, Goto, request, account
<1>12. ASSUME NEW r \in Req, HedgeFails(r) PROVE PeersNeverFetch'
  BY <1>12, <1>0 DEF HedgeFails, request, account
<1>13. ASSUME NEW r \in Req, PeersFail(r) PROVE PeersNeverFetch'
  BY <1>13, <1>0 DEF PeersFail, Goto, request, flight, pool, account
<1>14. ASSUME NEW r \in Req, Acquire(r) PROVE PeersNeverFetch'
  BY <1>14, <1>0 DEF Acquire, Goto, request, account
<1>15. ASSUME NEW r \in Req, AcquireGivesUp(r) PROVE PeersNeverFetch'
  BY <1>15, <1>0 DEF AcquireGivesUp, Fail, Goto, request, pool, account
<1>16. ASSUME NEW r \in Req, FetchServes(r) PROVE PeersNeverFetch'
  BY <1>16, <1>0 DEF FetchServes, Goto, request, flight, pool, account
<1>17. ASSUME NEW r \in Req, NEW c \in Errors, FetchFails(r, c)
      PROVE  PeersNeverFetch'
  BY <1>17, <1>0 DEF FetchFails, Fail, Goto, request, pool, account
<1>18. ASSUME NEW r \in Req, CreateTemp(r) PROVE PeersNeverFetch'
  BY <1>18, <1>0 DEF CreateTemp, Goto, request, flight, pool, account
<1>19. ASSUME NEW r \in Req, WriteTemp(r) PROVE PeersNeverFetch'
  BY <1>19, <1>0 DEF WriteTemp, Goto, request, flight, pool, account
<1>20. ASSUME NEW r \in Req, Rename(r) PROVE PeersNeverFetch'
  BY <1>20, <1>0 DEF Rename, Goto, request, flight, pool, account
<1>21. ASSUME NEW r \in Req, StoreFails(r) PROVE PeersNeverFetch'
  BY <1>21, <1>0 DEF StoreFails, Fail, Goto, request, pool, account
<1>22. ASSUME NEW r \in Req, Record(r) PROVE PeersNeverFetch'
  BY <1>22, <1>0 DEF Record, Goto, request, flight, pool
<1>23. ASSUME NEW r \in Req, EvictPop(r) PROVE PeersNeverFetch'
  BY <1>23, <1>0 DEF EvictPop, Goto, request, flight, pool
<1>24. ASSUME NEW r \in Req, NEW b \in BOOLEAN, Unlink(r, b)
      PROVE  PeersNeverFetch'
  BY <1>24, <1>0 DEF Unlink, Goto, request, flight, pool
<1>25. ASSUME NEW r \in Req, EvictDone(r) PROVE PeersNeverFetch'
  BY <1>25, <1>0 DEF EvictDone, Goto, request, pool
<1>26. ASSUME NEW r \in Req, Land(r) PROVE PeersNeverFetch'
  BY <1>26, <1>0 DEF Land, request, account
<1>27. CASE StrayUnwinds
  BY <1>27, <1>0 DEF StrayUnwinds, request, flight, account
<1>28. CASE LateHedge
  BY <1>28, <1>0 DEF LateHedge, request, flight, account
<1>29. CASE Crash
  BY <1>29, <1>0 DEF Crash, Fail, Goto, request, flight
<1>30. CASE UNCHANGED vars
  BY <1>30, <1>0 DEF vars, request, flight, pool, account
<1> QED BY <1>1, <1>2, <1>3, <1>4, <1>5, <1>6, <1>7, <1>8, <1>9, <1>10,
     <1>11, <1>12, <1>13, <1>14, <1>15, <1>16, <1>17, <1>18, <1>19, <1>20,
     <1>21, <1>22, <1>23, <1>24, <1>25, <1>26, <1>27, <1>28, <1>29, <1>30 DEF
     Next, Handle, Fly

\* Every step keeps results with the flights that are ready to land.
LEMMA ResultsStep == ASSUME TypeOK, ResultsSound, [Next]_vars PROVE
       ResultsSound'
<1> USE DEF ResultsSound, Errors, Storing
<1>0. pc \in [Req -> PCs] /\ result \in [Req -> Results]
  BY DEF TypeOK
<1>1. ASSUME NEW r \in Req, NEW k \in Keys, NEW kd \in Kinds, Arrive(r, k, kd)
      PROVE  ResultsSound'
  BY <1>1, <1>0 DEF Arrive, Goto, flight, pool, account
<1>2. ASSUME NEW r \in Req, Disconnect(r) PROVE ResultsSound'
  BY <1>2, <1>0 DEF Disconnect, request, flight, pool, account
<1>3. ASSUME NEW r \in Req, LookupHit(r) PROVE ResultsSound'
  BY <1>3, <1>0 DEF LookupHit, Goto, request, flight, pool, account
<1>4. ASSUME NEW r \in Req, LookupMiss(r) PROVE ResultsSound'
  BY <1>4, <1>0 DEF LookupMiss, Answer, Goto, request, flight, pool, account
<1>5. ASSUME NEW r \in Req, Touch(r) PROVE ResultsSound'
  BY <1>5, <1>0 DEF Touch, Answer, Goto, request, flight, pool
<1>6. ASSUME NEW r \in Req, Lead(r) PROVE ResultsSound'
  BY <1>6, <1>0 DEF Lead, Goto, request, pool, account
<1>7. ASSUME NEW r \in Req, Follow(r) PROVE ResultsSound'
  BY <1>7, <1>0 DEF Follow, Goto, request, flight, pool, account
<1>8. ASSUME NEW r \in Req, HedgeFires(r) PROVE ResultsSound'
  BY <1>8, <1>0 DEF HedgeFires, request, account
<1>9. ASSUME NEW r \in Req, PeerServes(r) PROVE ResultsSound'
  BY <1>9, <1>0 DEF PeerServes, Goto, request, account
<1>10. ASSUME NEW r \in Req, PeerServesFirst(r) PROVE ResultsSound'
  BY <1>10, <1>0 DEF PeerServesFirst, Goto, request, flight, account
<1>11. ASSUME NEW r \in Req, HedgeServes(r) PROVE ResultsSound'
  BY <1>11, <1>0 DEF HedgeServes, Goto, request, account
<1>12. ASSUME NEW r \in Req, HedgeFails(r) PROVE ResultsSound'
  BY <1>12, <1>0 DEF HedgeFails, request, account
<1>13. ASSUME NEW r \in Req, PeersFail(r) PROVE ResultsSound'
  BY <1>13, <1>0 DEF PeersFail, Goto, request, flight, pool, account
<1>14. ASSUME NEW r \in Req, Acquire(r) PROVE ResultsSound'
  BY <1>14, <1>0 DEF Acquire, Goto, request, account
<1>15. ASSUME NEW r \in Req, AcquireGivesUp(r) PROVE ResultsSound'
  BY <1>15, <1>0 DEF AcquireGivesUp, Fail, Goto, request, pool, account
<1>16. ASSUME NEW r \in Req, FetchServes(r) PROVE ResultsSound'
  BY <1>16, <1>0 DEF FetchServes, Goto, request, flight, pool, account
<1>17. ASSUME NEW r \in Req, NEW c \in Errors, FetchFails(r, c)
      PROVE  ResultsSound'
  BY <1>17, <1>0 DEF FetchFails, Fail, Goto, request, pool, account
<1>18. ASSUME NEW r \in Req, CreateTemp(r) PROVE ResultsSound'
  BY <1>18, <1>0 DEF CreateTemp, Goto, request, flight, pool, account
<1>19. ASSUME NEW r \in Req, WriteTemp(r) PROVE ResultsSound'
  BY <1>19, <1>0 DEF WriteTemp, Goto, request, flight, pool, account
<1>20. ASSUME NEW r \in Req, Rename(r) PROVE ResultsSound'
  BY <1>20, <1>0 DEF Rename, Goto, request, flight, pool, account
<1>21. ASSUME NEW r \in Req, StoreFails(r) PROVE ResultsSound'
  BY <1>21, <1>0 DEF StoreFails, Fail, Goto, request, pool, account
<1>22. ASSUME NEW r \in Req, Record(r) PROVE ResultsSound'
  BY <1>22, <1>0 DEF Record, Goto, request, flight, pool
<1>23. ASSUME NEW r \in Req, EvictPop(r) PROVE ResultsSound'
  BY <1>23, <1>0 DEF EvictPop, Goto, request, flight, pool
<1>24. ASSUME NEW r \in Req, NEW b \in BOOLEAN, Unlink(r, b)
      PROVE  ResultsSound'
  BY <1>24, <1>0 DEF Unlink, Goto, request, flight, pool
<1>25. ASSUME NEW r \in Req, EvictDone(r) PROVE ResultsSound'
  BY <1>25, <1>0 DEF EvictDone, Goto, request, pool
<1>26. ASSUME NEW r \in Req, Land(r) PROVE ResultsSound'
  BY <1>26, <1>0 DEF Land, request, account
<1>27. CASE StrayUnwinds
  BY <1>27, <1>0 DEF StrayUnwinds, request, flight, account
<1>28. CASE LateHedge
  BY <1>28, <1>0 DEF LateHedge, request, flight, account
<1>29. CASE Crash
  BY <1>29, <1>0 DEF Crash, Fail, Goto, request, flight
<1>30. CASE UNCHANGED vars
  BY <1>30, <1>0 DEF vars, request, flight, pool, account
<1> QED BY <1>1, <1>2, <1>3, <1>4, <1>5, <1>6, <1>7, <1>8, <1>9, <1>10,
     <1>11, <1>12, <1>13, <1>14, <1>15, <1>16, <1>17, <1>18, <1>19, <1>20,
     <1>21, <1>22, <1>23, <1>24, <1>25, <1>26, <1>27, <1>28, <1>29, <1>30 DEF
     Next, Handle, Fly

\* Every step leaves no file untracked.
LEMMA TrackStep == ASSUME TypeOK, MutexSound, NoUntrackedFile, "remove"
       \notin Faults, [Next]_vars PROVE NoUntrackedFile'
<1> USE DEF NoUntrackedFile
<1>0. /\ pc \in [Req -> PCs] /\ key \in [Req -> Keys]
      /\ file \in [Keys -> Contents] /\ AccountOK(Keys, lru)
  BY DEF TypeOK
<1>1. ASSUME NEW r \in Req, NEW k \in Keys, NEW kd \in Kinds, Arrive(r, k, kd)
      PROVE  NoUntrackedFile'
  BY <1>1, <1>0 DEF Arrive, Goto, flight, pool, account
<1>2. ASSUME NEW r \in Req, Disconnect(r) PROVE NoUntrackedFile'
  BY <1>2, <1>0 DEF Disconnect, request, flight, pool, account
<1>3. ASSUME NEW r \in Req, LookupHit(r) PROVE NoUntrackedFile'
  BY <1>3, <1>0 DEF LookupHit, Goto, request, flight, pool, account
<1>4. ASSUME NEW r \in Req, LookupMiss(r) PROVE NoUntrackedFile'
  BY <1>4, <1>0 DEF LookupMiss, Answer, Goto, request, flight, pool, account
<1>5. ASSUME NEW r \in Req, Touch(r) PROVE NoUntrackedFile'
  <2>1. Entries(lru') = Entries(lru)
    BY <1>5, <1>0, TouchedOK DEF Touch
  <2> QED BY <1>5, <1>0, <2>1 DEF Touch, Answer, Goto, request
<1>6. ASSUME NEW r \in Req, Lead(r) PROVE NoUntrackedFile'
  BY <1>6, <1>0 DEF Lead, Goto, request, pool, account
<1>7. ASSUME NEW r \in Req, Follow(r) PROVE NoUntrackedFile'
  BY <1>7, <1>0 DEF Follow, Goto, request, flight, pool, account
<1>8. ASSUME NEW r \in Req, HedgeFires(r) PROVE NoUntrackedFile'
  BY <1>8, <1>0 DEF HedgeFires, request, account
<1>9. ASSUME NEW r \in Req, PeerServes(r) PROVE NoUntrackedFile'
  BY <1>9, <1>0 DEF PeerServes, Goto, request, account
<1>10. ASSUME NEW r \in Req, PeerServesFirst(r) PROVE NoUntrackedFile'
  BY <1>10, <1>0 DEF PeerServesFirst, Goto, request, flight, account
<1>11. ASSUME NEW r \in Req, HedgeServes(r) PROVE NoUntrackedFile'
  BY <1>11, <1>0 DEF HedgeServes, Goto, request, account
<1>12. ASSUME NEW r \in Req, HedgeFails(r) PROVE NoUntrackedFile'
  BY <1>12, <1>0 DEF HedgeFails, request, account
<1>13. ASSUME NEW r \in Req, PeersFail(r) PROVE NoUntrackedFile'
  BY <1>13, <1>0 DEF PeersFail, Goto, request, flight, pool, account
<1>14. ASSUME NEW r \in Req, Acquire(r) PROVE NoUntrackedFile'
  BY <1>14, <1>0 DEF Acquire, Goto, request, account
<1>15. ASSUME NEW r \in Req, AcquireGivesUp(r) PROVE NoUntrackedFile'
  BY <1>15, <1>0 DEF AcquireGivesUp, Fail, Goto, request, pool, account
<1>16. ASSUME NEW r \in Req, FetchServes(r) PROVE NoUntrackedFile'
  BY <1>16, <1>0 DEF FetchServes, Goto, request, flight, pool, account
<1>17. ASSUME NEW r \in Req, NEW c \in Errors, FetchFails(r, c)
      PROVE  NoUntrackedFile'
  BY <1>17, <1>0 DEF FetchFails, Fail, Goto, request, pool, account
<1>18. ASSUME NEW r \in Req, CreateTemp(r) PROVE NoUntrackedFile'
  BY <1>18, <1>0 DEF CreateTemp, Goto, request, flight, pool, account
<1>19. ASSUME NEW r \in Req, WriteTemp(r) PROVE NoUntrackedFile'
  BY <1>19, <1>0 DEF WriteTemp, Goto, request, flight, pool, account
<1>20. ASSUME NEW r \in Req, Rename(r) PROVE NoUntrackedFile'
  BY <1>20, <1>0 DEF Rename, Goto, request, flight, pool, account
<1>21. ASSUME NEW r \in Req, StoreFails(r) PROVE NoUntrackedFile'
  BY <1>21, <1>0 DEF StoreFails, Fail, Goto, Storing, request, account
<1>22. ASSUME NEW r \in Req, Record(r) PROVE NoUntrackedFile'
  <2>1. Entries(lru') = Entries(lru) \cup {key[r]}
    BY <1>22, <1>0, RecordedOK, SizeAssumption DEF Record
  <2> QED BY <1>22, <1>0, <2>1 DEF Record, Goto, request
<1>23. ASSUME NEW r \in Req, EvictPop(r) PROVE NoUntrackedFile'
  <2>1. Entries(lru') = Entries(lru) \ {Head(lru.order)}
    BY <1>23, <1>0, PoppedOK DEF EvictPop
  <2>2. \A k \in Keys : victim # k
    BY <1>23, KeysAssumption DEF EvictPop, MutexSound
  <2> QED BY <1>23, <1>0, <2>1, <2>2 DEF EvictPop, Goto, request
<1>24. ASSUME NEW r \in Req, NEW b \in BOOLEAN, Unlink(r, b)
      PROVE  NoUntrackedFile'
  <2>1. file' = [file EXCEPT ![victim] = "absent"] /\ victim \in Keys
    BY <1>24 DEF Unlink, MutexSound
  <2> QED BY <1>24, <1>0, <2>1 DEF Unlink, Goto, request
<1>25. ASSUME NEW r \in Req, EvictDone(r) PROVE NoUntrackedFile'
  BY <1>25, <1>0 DEF EvictDone, Goto, request, pool
<1>26. ASSUME NEW r \in Req, Land(r) PROVE NoUntrackedFile'
  BY <1>26, <1>0 DEF Land, request, account
<1>27. CASE StrayUnwinds
  BY <1>27, <1>0 DEF StrayUnwinds, request, flight, account
<1>28. CASE LateHedge
  BY <1>28, <1>0 DEF LateHedge, request, flight, account
<1>29. CASE Crash
  <2>1. PICK s \in Orders(OnDisk), left \in SUBSET OnDisk :
        \E n \in Survivors(Len(s)) :
          /\ left = {} \/ "remove" \in Faults
          /\ lru' = Account(Suffix(s, n))
          /\ file' = [k \in Keys |-> IF k \in Members(Suffix(s, n)) \cup left
                                     THEN file[k] ELSE "absent"]
    BY <1>29 DEF Crash
  <2> QED BY <2>1, CrashAccount
<1>30. CASE UNCHANGED vars
  BY <1>30, <1>0 DEF vars, request, flight, pool, account
<1> QED BY <1>1, <1>2, <1>3, <1>4, <1>5, <1>6, <1>7, <1>8, <1>9, <1>10,
     <1>11, <1>12, <1>13, <1>14, <1>15, <1>16, <1>17, <1>18, <1>19, <1>20,
     <1>21, <1>22, <1>23, <1>24, <1>25, <1>26, <1>27, <1>28, <1>29, <1>30 DEF
     Next, Handle, Fly

\* Every step keeps the byte count exact and within the budget.
LEMMA BudgetStep == ASSUME TypeOK, MutexSound, Exact(lru), BudgetHeld,
       [Next]_vars PROVE Exact(lru') /\ BudgetHeld'
<1> USE DEF BudgetHeld
<1>0. AccountOK(Keys, lru) /\ NoReq \notin Req
  BY ReqAssumption DEF TypeOK
<1>1. ASSUME NEW r \in Req, NEW k \in Keys, NEW kd \in Kinds, Arrive(r, k, kd)
      PROVE  Exact(lru') /\ BudgetHeld'
  BY <1>1, <1>0 DEF Arrive, Goto, flight, pool, account
<1>2. ASSUME NEW r \in Req, Disconnect(r) PROVE Exact(lru') /\ BudgetHeld'
  BY <1>2, <1>0 DEF Disconnect, request, flight, pool, account
<1>3. ASSUME NEW r \in Req, LookupHit(r) PROVE Exact(lru') /\ BudgetHeld'
  BY <1>3, <1>0 DEF LookupHit, Goto, request, flight, pool, account
<1>4. ASSUME NEW r \in Req, LookupMiss(r) PROVE Exact(lru') /\ BudgetHeld'
  BY <1>4, <1>0 DEF LookupMiss, Answer, Goto, request, flight, pool, account
<1>5. ASSUME NEW r \in Req, Touch(r) PROVE Exact(lru') /\ BudgetHeld'
  <2>1. Exact(lru') /\ lru'.total = lru.total
    BY <1>5, <1>0, TouchedOK, TouchedExact DEF Touch, TypeOK
  <2> QED BY <1>5, <2>1 DEF Touch
<1>6. ASSUME NEW r \in Req, Lead(r) PROVE Exact(lru') /\ BudgetHeld'
  BY <1>6, <1>0 DEF Lead, Goto, request, pool, account
<1>7. ASSUME NEW r \in Req, Follow(r) PROVE Exact(lru') /\ BudgetHeld'
  BY <1>7, <1>0 DEF Follow, Goto, request, flight, pool, account
<1>8. ASSUME NEW r \in Req, HedgeFires(r) PROVE Exact(lru') /\ BudgetHeld'
  BY <1>8, <1>0 DEF HedgeFires, request, account
<1>9. ASSUME NEW r \in Req, PeerServes(r) PROVE Exact(lru') /\ BudgetHeld'
  BY <1>9, <1>0 DEF PeerServes, Goto, request, account
<1>10. ASSUME NEW r \in Req, PeerServesFirst(r)
      PROVE  Exact(lru') /\ BudgetHeld'
  BY <1>10, <1>0 DEF PeerServesFirst, Goto, request, flight, account
<1>11. ASSUME NEW r \in Req, HedgeServes(r) PROVE Exact(lru') /\ BudgetHeld'
  BY <1>11, <1>0 DEF HedgeServes, Goto, request, account
<1>12. ASSUME NEW r \in Req, HedgeFails(r) PROVE Exact(lru') /\ BudgetHeld'
  BY <1>12, <1>0 DEF HedgeFails, request, account
<1>13. ASSUME NEW r \in Req, PeersFail(r) PROVE Exact(lru') /\ BudgetHeld'
  BY <1>13, <1>0 DEF PeersFail, Goto, request, flight, pool, account
<1>14. ASSUME NEW r \in Req, Acquire(r) PROVE Exact(lru') /\ BudgetHeld'
  BY <1>14, <1>0 DEF Acquire, Goto, request, account
<1>15. ASSUME NEW r \in Req, AcquireGivesUp(r)
      PROVE  Exact(lru') /\ BudgetHeld'
  BY <1>15, <1>0 DEF AcquireGivesUp, Fail, Goto, request, pool, account
<1>16. ASSUME NEW r \in Req, FetchServes(r) PROVE Exact(lru') /\ BudgetHeld'
  BY <1>16, <1>0 DEF FetchServes, Goto, request, flight, pool, account
<1>17. ASSUME NEW r \in Req, NEW c \in Errors, FetchFails(r, c)
      PROVE  Exact(lru') /\ BudgetHeld'
  BY <1>17, <1>0 DEF FetchFails, Fail, Goto, request, pool, account
<1>18. ASSUME NEW r \in Req, CreateTemp(r) PROVE Exact(lru') /\ BudgetHeld'
  BY <1>18, <1>0 DEF CreateTemp, Goto, request, flight, pool, account
<1>19. ASSUME NEW r \in Req, WriteTemp(r) PROVE Exact(lru') /\ BudgetHeld'
  BY <1>19, <1>0 DEF WriteTemp, Goto, request, flight, pool, account
<1>20. ASSUME NEW r \in Req, Rename(r) PROVE Exact(lru') /\ BudgetHeld'
  BY <1>20, <1>0 DEF Rename, Goto, request, flight, pool, account
<1>21. ASSUME NEW r \in Req, StoreFails(r) PROVE Exact(lru') /\ BudgetHeld'
  BY <1>21, <1>0 DEF StoreFails, Fail, Goto, request, pool, account
<1>22. ASSUME NEW r \in Req, Record(r) PROVE Exact(lru') /\ BudgetHeld'
  <2>1. Exact(lru')
    BY <1>22, <1>0, RecordedExact, SizeAssumption DEF Record, TypeOK
  <2> QED BY <1>22, <1>0, <2>1 DEF Record
<1>23. ASSUME NEW r \in Req, EvictPop(r) PROVE Exact(lru') /\ BudgetHeld'
  <2>1. Exact(lru')
    BY <1>23, <1>0, PoppedExact DEF EvictPop
  <2>2. mu' # NoReq
    BY <1>23, <1>0 DEF EvictPop, MutexSound, Locked
  <2> QED BY <2>1, <2>2
<1>24. ASSUME NEW r \in Req, NEW b \in BOOLEAN, Unlink(r, b)
      PROVE  Exact(lru') /\ BudgetHeld'
  BY <1>24, <1>0 DEF Unlink, Goto, request, flight, pool
<1>25. ASSUME NEW r \in Req, EvictDone(r) PROVE Exact(lru') /\ BudgetHeld'
  <2>1. lru' = lru
    BY <1>25 DEF EvictDone
  <2>2. lru.order = <<>> => lru.total = 0
    BY NothingCounted
  <2>3. lru.total \in Int
    BY <1>0 DEF AccountOK
  <2> QED BY <1>25, <2>1, <2>2, <2>3, SizeAssumption DEF EvictDone, OverBudget
<1>26. ASSUME NEW r \in Req, Land(r) PROVE Exact(lru') /\ BudgetHeld'
  BY <1>26, <1>0 DEF Land, request, account
<1>27. CASE StrayUnwinds
  BY <1>27, <1>0 DEF StrayUnwinds, request, flight, account
<1>28. CASE LateHedge
  BY <1>28, <1>0 DEF LateHedge, request, flight, account
<1>29. CASE Crash
  <2>1. PICK s \in Orders(OnDisk) :
          \E n \in Survivors(Len(s)) : lru' = Account(Suffix(s, n))
    BY <1>29 DEF Crash
  <2> QED BY <2>1, CrashAccount
<1>30. CASE UNCHANGED vars
  BY <1>30, <1>0 DEF vars, request, flight, pool, account
<1> QED BY <1>1, <1>2, <1>3, <1>4, <1>5, <1>6, <1>7, <1>8, <1>9, <1>10,
     <1>11, <1>12, <1>13, <1>14, <1>15, <1>16, <1>17, <1>18, <1>19, <1>20,
     <1>21, <1>22, <1>23, <1>24, <1>25, <1>26, <1>27, <1>28, <1>29, <1>30 DEF
     Next, Handle, Fly

\* A shim that has just started satisfies the invariant.
LEMMA InitIInv == Init => IInv
<1> SUFFICES ASSUME Init PROVE IInv
  OBVIOUS
<1>1. TypeOK
  BY EmptyOK, BoundsAssumption
  DEF Init, TypeOK, PCs, MaxRaces, Results, Replies, Contents
<1>2. SlotsAccounted
  <2>1. { r \in Req : slot[r] } = {}
    BY DEF Init
  <2> QED BY <2>1, FS_EmptySet, SlotsAssumption DEF Init, SlotsAccounted
<1>3. SingleFlight /\ PeersNeverFetch /\ TempWhole /\ WholeFiles /\ ResultsSound
  BY DEF Init, SingleFlight, PeersNeverFetch, TempWhole, WholeFiles, ResultsSound,
         Leading, Fetching, Storing, Locked
<1>4. MutexSound
  BY DEF Init, MutexSound, Locked
<1>5. NoUntrackedFile
  BY DEF Init, NoUntrackedFile
<1>6. Exact(lru) /\ BudgetHeld
  <2>1. lru.total = 0
    BY DEF Init, Empty
  <2> QED BY <2>1, EmptyExact, SizeAssumption DEF Init, BudgetHeld
<1> QED BY <1>1, <1>2, <1>3, <1>4, <1>5, <1>6 DEF IInv

\* Every step keeps the invariant.
LEMMA NextIInv == IInv /\ [Next]_vars => IInv'
<1> SUFFICES ASSUME IInv, [Next]_vars PROVE IInv'
  OBVIOUS
<1>1. /\ TypeOK /\ SlotsAccounted /\ SingleFlight /\ MutexSound /\ TempWhole
      /\ WholeFiles /\ NoUntrackedFile /\ Exact(lru) /\ BudgetHeld
      /\ PeersNeverFetch /\ ResultsSound
  BY DEF IInv
<1>2. TypeOK'
  BY <1>1, TypeStep
<1>3. SlotsAccounted'
  BY <1>1, SlotsStep
<1>4. SingleFlight'
  BY <1>1, FlightStep
<1>5. MutexSound'
  BY <1>1, MutexStep
<1>6. TempWhole' /\ WholeFiles'
  BY <1>1, FilesStep
<1>7. NoUntrackedFile'
  <2>1. CASE "remove" \in Faults
    BY <2>1 DEF NoUntrackedFile
  <2>2. CASE "remove" \notin Faults
    BY <1>1, <2>2, TrackStep
  <2> QED BY <2>1, <2>2
<1>8. Exact(lru') /\ BudgetHeld'
  BY <1>1, BudgetStep
<1>9. PeersNeverFetch'
  BY <1>1, PeersStep
<1>10. ResultsSound'
  BY <1>1, ResultsStep
<1> QED BY <1>2, <1>3, <1>4, <1>5, <1>6, <1>7, <1>8, <1>9, <1>10 DEF IInv

\* The invariant holds throughout.
LEMMA InvariantHolds == Spec => []IInv
BY InitIInv, NextIInv, PTL DEF Spec

\* Types, for any number of requests, ranges and slots (getXorb and what it
\* calls).
THEOREM ServeType == Spec => []TypeOK
<1>1. IInv => TypeOK
  BY DEF IInv
<1> QED BY <1>1, InvariantHolds, PTL

\* No path through getXorb, raceOnePeer and cdnGet leaks a fetch slot or
\* releases one twice, whatever fails and whoever leaves.
THEOREM ServeSlots == Spec => []SlotsAccounted
<1>1. IInv => SlotsAccounted
  BY DEF IInv
<1> QED BY <1>1, InvariantHolds, PTL

\* A range never has two flights at once, and no request waits for a flight
\* that is over (sf.Do in getXorb).
THEOREM ServeSingleFlight == Spec => []SingleFlight
<1>1. IInv => SingleFlight
  BY DEF IInv
<1> QED BY <1>1, InvariantHolds, PTL

\* Unless os.Remove fails, every cache file is counted or in transit, through
\* evictions that race with flights and through crashes.
THEOREM ServeTracked == Spec => []NoUntrackedFile
<1>1. IInv => NoUntrackedFile
  BY DEF IInv
<1> QED BY <1>1, InvariantHolds, PTL

\* No reader ever opens a partly written cache file (writeCacheFileAtomic).
THEOREM ServeWholeFiles == Spec => []WholeFiles
<1>1. IInv => WholeFiles
  BY DEF IInv
<1> QED BY <1>1, InvariantHolds, PTL

\* The byte count is within the budget whenever lruCache.mu is free (Record,
\* evictLocked, seedLRU).
THEOREM ServeBudget == Spec => []BudgetHeld
<1>1. IInv => BudgetHeld
  BY DEF IInv
<1> QED BY <1>1, InvariantHolds, PTL

\* A request of another shim never makes this one fetch (isPeerRequest).
THEOREM ServeOneHop == Spec => []PeersNeverFetch
<1>1. IInv => PeersNeverFetch
  BY DEF IInv
<1> QED BY <1>1, InvariantHolds, PTL
-----------------------------------------------------------------------------
(* Every step of getXorb is a step of the abstract store or stutters.      *)

Status == [r \in Req |-> StatusOf(pc[r])]
Stored == { k \in Keys : file[k] = "whole" }
Flights == [k \in Keys |-> FlightOf(k)]

Shown == <<key, kind, Status, reply, Stored, Flights>>

\* What RangeStore sees of a state, and what its steps are.
LEMMA RangesAre ==
  /\ Ranges!vars = Shown
  /\ Ranges!Next <=>
       \/ \E k \in Keys : Ranges!Drop(k) \/ Ranges!Store(k) \/ Ranges!Land(k)
       \/ \E r \in Req : \/ Ranges!Ask(r) \/ Ranges!Find(r) \/ Ranges!Serve(r)
                         \/ Ranges!Miss(r) \/ Ranges!Join(r)
       \/ Ranges!Crash
BY DEF Ranges!vars, Ranges!Next, Shown, Status, Stored, Flights

\* A leader that moves on shows nothing of it until it has stored its range or
\* landed.
LEMMA LeaderMoves ==
  ASSUME TypeOK, SingleFlight, NEW r \in Req, NEW l \in Leading,
         NEW c \in Results, pc[r] \in Leading,
         pc' = [pc EXCEPT ![r] = l], result' = [result EXCEPT ![r] = c],
         (l \in {"record"} \cup Locked \/ c = "ok") <=> HasStored(r),
         UNCHANGED <<key, kind, reply, owner, file>>
  PROVE  Shown' = Shown
<1>0. /\ pc \in [Req -> PCs] /\ result \in [Req -> Results]
      /\ owner \in [Keys -> Req \cup {NoReq}]
  BY DEF TypeOK
<1>1. Status' = Status
  <2>1. \A s \in Req : StatusOf(pc'[s]) = StatusOf(pc[s])
    BY <1>0 DEF StatusOf, Waiting
  <2> QED BY <2>1 DEF Status
<1>2. Flights' = Flights
  <2>1. \A s \in Req : HasStored(s)' <=> HasStored(s)
    BY <1>0 DEF HasStored
  <2>2. \A k \in Keys : FlightOf(k)' = FlightOf(k)
    BY <1>0, <2>1 DEF FlightOf
  <2> QED BY <2>2 DEF Flights
<1>3. Stored' = Stored
  BY DEF Stored
<1> QED BY <1>1, <1>2, <1>3 DEF Shown

\* A request that leads no flight changes only its own status.
LEMMA HandlerMoves ==
  ASSUME TypeOK, SingleFlight, NEW r \in Req, NEW l, pc[r] \notin Leading,
         pc' = [pc EXCEPT ![r] = l], UNCHANGED <<result, owner>>
  PROVE  /\ Status' = [Status EXCEPT ![r] = StatusOf(l)]
         /\ Flights' = Flights
<1>0. /\ pc \in [Req -> PCs] /\ key \in [Req -> Keys]
      /\ owner \in [Keys -> Req \cup {NoReq}]
  BY DEF TypeOK
<1>1. Status' = [Status EXCEPT ![r] = StatusOf(l)]
  BY <1>0 DEF Status
<1>2. \A k \in Keys : owner[k] # NoReq => owner[k] \in Req /\ owner[k] # r
  BY <1>0 DEF SingleFlight
<1>3. \A s \in Req : s # r => (HasStored(s)' <=> HasStored(s))
  BY <1>0 DEF HasStored
<1>4. \A k \in Keys : FlightOf(k)' = FlightOf(k)
  BY <1>0, <1>2, <1>3 DEF FlightOf
<1> QED BY <1>1, <1>4 DEF Flights

\* Every step of getXorb is one of RangeStore, or shows nothing.
LEMMA RangesStep == ASSUME IInv, [Next]_vars PROVE [Ranges!Next]_(Ranges!vars)
<1> TypeOK /\ SingleFlight /\ TempWhole /\ WholeFiles /\ ResultsSound /\ MutexSound
  BY DEF IInv
<1>0. /\ pc \in [Req -> PCs] /\ key \in [Req -> Keys] /\ result \in [Req -> Results]
      /\ kind \in [Req -> {"get", "peer", "head"}] /\ reply \in [Req -> Replies]
      /\ owner \in [Keys -> Req \cup {NoReq}] /\ NoReq \notin Req
      /\ file \in [Keys -> Contents] /\ tmp \in [Req -> Contents]
  BY ReqAssumption DEF TypeOK
<1>still. ASSUME Shown' = Shown PROVE [Ranges!Next]_(Ranges!vars)
  BY <1>still DEF Ranges!vars, Shown, Status, Stored, Flights
<1>same. ASSUME UNCHANGED <<pc, key, kind, reply, owner, result, file>> PROVE Shown' = Shown
  BY <1>same DEF Shown, Status, Stored, Flights, StatusOf, FlightOf, HasStored
<1>stored. Stored = { k \in Keys : file[k] # "absent" }
  BY <1>0 DEF Stored, WholeFiles, Contents
<1>status. \A r \in Req : Status[r] = StatusOf(pc[r])
  BY DEF Status
<1>of. /\ StatusOf("idle") = "idle" /\ StatusOf("lookup") = "looking"
       /\ StatusOf("touch") = "found" /\ StatusOf("join") = "missed"
       /\ \A l \in Waiting : StatusOf(l) = "waiting"
  BY DEF StatusOf, Waiting, Leading, Fetching, Storing, Locked
<1>out. \A l \in {"idle", "lookup", "touch", "join", "wait"} : l \notin Leading
  BY DEF Leading, Fetching, Storing, Locked
<1>1. ASSUME NEW r \in Req, NEW k \in Keys, NEW kd \in Kinds, Arrive(r, k, kd)
      PROVE  [Ranges!Next]_(Ranges!vars)
  <2>1. /\ pc[r] = "idle" /\ pc' = [pc EXCEPT ![r] = "lookup"]
        /\ UNCHANGED <<result, owner, file>>
        /\ key' = [key EXCEPT ![r] = k] /\ kind' = [kind EXCEPT ![r] = kd]
        /\ reply' = [reply EXCEPT ![r] = "none"]
    BY <1>1 DEF Arrive, Goto, flight
  <2>2. Status' = [Status EXCEPT ![r] = "looking"] /\ Flights' = Flights /\ Status[r] = "idle"
    <3>1. pc[r] \notin Leading
      BY <2>1, <1>out
    <3>2. Status' = [Status EXCEPT ![r] = StatusOf("lookup")] /\ Flights' = Flights
      BY <2>1, <3>1, HandlerMoves
    <3> QED BY <2>1, <3>2, <1>status, <1>of
  <2>3. Stored' = Stored
    BY <2>1 DEF Stored
  <2>4. kd \in Ranges!RequestKinds
    BY KindsAssumption DEF Ranges!RequestKinds
  <2>5. Ranges!Ask(r)
    BY <2>1, <2>2, <2>3, <2>4 DEF Ranges!Ask, Ranges!Goto, Status, Stored, Flights
  <2> QED BY <2>5, RangesAre
<1>2. ASSUME NEW r \in Req, LookupHit(r) PROVE [Ranges!Next]_(Ranges!vars)
  <2>1. /\ pc[r] = "lookup" /\ pc' = [pc EXCEPT ![r] = "touch"]
        /\ UNCHANGED <<result, owner, file, key, kind, reply>>
        /\ file[key[r]] # "absent"
    BY <1>2 DEF LookupHit, Goto, flight, request
  <2>2. Status' = [Status EXCEPT ![r] = "found"] /\ Flights' = Flights /\ Status[r] = "looking"
    <3>1. pc[r] \notin Leading
      BY <2>1, <1>out
    <3>2. Status' = [Status EXCEPT ![r] = StatusOf("touch")] /\ Flights' = Flights
      BY <2>1, <3>1, HandlerMoves
    <3> QED BY <2>1, <3>2, <1>status, <1>of
  <2>3. Stored' = Stored /\ key[r] \in Stored
    BY <2>1, <1>0, <1>stored DEF Stored
  <2>4. Ranges!Find(r)
    BY <2>1, <2>2, <2>3 DEF Ranges!Find, Ranges!Goto, Status, Stored, Flights
  <2> QED BY <2>4, RangesAre
<1>3. ASSUME NEW r \in Req, LookupMiss(r) PROVE [Ranges!Next]_(Ranges!vars)
  <2>1. /\ pc[r] = "lookup" /\ UNCHANGED <<result, owner, file, key, kind>>
        /\ file[key[r]] = "absent"
    BY <1>3 DEF LookupMiss, flight, request
  <2>2. Stored' = Stored /\ key[r] \notin Stored
    BY <2>1, <1>0, <1>stored DEF Stored
  <2>3. CASE kind[r] = "get"
    <3>1. pc' = [pc EXCEPT ![r] = "join"] /\ reply' = reply
      BY <1>3, <2>3 DEF LookupMiss, Goto
    <3>2. Status' = [Status EXCEPT ![r] = "missed"] /\ Flights' = Flights /\ Status[r] = "looking"
      <4>1. pc[r] \notin Leading
        BY <2>1, <3>1, <1>out
      <4>2. Status' = [Status EXCEPT ![r] = StatusOf("join")] /\ Flights' = Flights
        BY <2>1, <3>1, <4>1, HandlerMoves
      <4> QED BY <2>1, <3>1, <4>2, <1>status, <1>of
    <3>3. Ranges!Miss(r)
      BY <2>1, <2>2, <2>3, <3>1, <3>2 DEF Ranges!Miss, Ranges!Goto, Status, Stored, Flights
    <3> QED BY <3>3, RangesAre
  <2>4. CASE kind[r] # "get"
    <3>1. pc' = [pc EXCEPT ![r] = "idle"] /\ reply' = [reply EXCEPT ![r] = "404"]
      BY <1>3, <2>4 DEF LookupMiss, Answer, Goto
    <3>2. Status' = [Status EXCEPT ![r] = "idle"] /\ Flights' = Flights /\ Status[r] = "looking"
      <4>1. pc[r] \notin Leading
        BY <2>1, <3>1, <1>out
      <4>2. Status' = [Status EXCEPT ![r] = StatusOf("idle")] /\ Flights' = Flights
        BY <2>1, <3>1, <4>1, HandlerMoves
      <4> QED BY <2>1, <3>1, <4>2, <1>status, <1>of
    <3>3. Ranges!Miss(r)
      BY <2>1, <2>2, <2>4, <3>1, <3>2 DEF Ranges!Miss, Ranges!Goto, Status, Stored, Flights
    <3> QED BY <3>3, RangesAre
  <2> QED BY <2>3, <2>4
<1>4. ASSUME NEW r \in Req, Touch(r) PROVE [Ranges!Next]_(Ranges!vars)
  <2>1. /\ pc[r] = "touch" /\ pc' = [pc EXCEPT ![r] = "idle"]
        /\ UNCHANGED <<result, owner, file, key, kind>>
        /\ reply' = [reply EXCEPT ![r] = IF kind[r] = "head" THEN "200" ELSE "HIT"]
    BY <1>4 DEF Touch, Answer, Goto, flight, request
  <2>2. Status' = [Status EXCEPT ![r] = "idle"] /\ Flights' = Flights /\ Status[r] = "found"
    <3>1. pc[r] \notin Leading
      BY <2>1, <1>out
    <3>2. Status' = [Status EXCEPT ![r] = StatusOf("idle")] /\ Flights' = Flights
      BY <2>1, <3>1, HandlerMoves
    <3> QED BY <2>1, <3>2, <1>status, <1>of
  <2>3. Stored' = Stored
    BY <2>1 DEF Stored
  <2>4. Ranges!Serve(r)
    BY <2>1, <2>2, <2>3 DEF Ranges!Serve, Ranges!Goto, Status, Stored, Flights
  <2> QED BY <2>4, RangesAre
<1>5. ASSUME NEW r \in Req, Lead(r) PROVE [Ranges!Next]_(Ranges!vars)
  <2> DEFINE l == IF Peering THEN "peers" ELSE "acquire"
  <2>1. /\ pc[r] = "join" /\ owner[key[r]] = NoReq /\ pc' = [pc EXCEPT ![r] = l]
        /\ owner' = [owner EXCEPT ![key[r]] = r]
        /\ UNCHANGED <<result, file, key, kind, reply>>
    BY <1>5 DEF Lead, Goto, request
  <2>2. Status' = [Status EXCEPT ![r] = "waiting"] /\ Status[r] = "missed"
    BY <2>1, <1>0 DEF Status, StatusOf, Waiting, Leading, Fetching, Storing, Locked
  <2>3. Stored' = Stored
    BY <2>1 DEF Stored
  <2>4. /\ ~HasStored(r)'
        /\ \A s \in Req : s # r => (HasStored(s)' <=> HasStored(s))
    BY <2>1, <1>0 DEF HasStored, Locked, ResultsSound
  <2>5. \A k \in Keys : owner[k] # r
    BY <2>1, <1>0 DEF SingleFlight, Leading, Fetching, Storing, Locked
  <2>6. /\ FlightOf(key[r])' = "going" /\ FlightOf(key[r]) = "none"
        /\ \A k \in Keys : k # key[r] => FlightOf(k)' = FlightOf(k)
    BY <2>1, <2>4, <2>5, <1>0 DEF FlightOf
  <2>7. Flights' = [Flights EXCEPT ![key[r]] = IF @ = "none" THEN "going" ELSE @]
    BY <2>6, <1>0, <2>1 DEF Flights
  <2>8. Ranges!Join(r)
    BY <2>1, <2>2, <2>3, <2>7 DEF Ranges!Join, Ranges!Goto, Status, Stored, Flights
  <2> QED BY <2>8, RangesAre
<1>6. ASSUME NEW r \in Req, Follow(r) PROVE [Ranges!Next]_(Ranges!vars)
  <2>1. /\ pc[r] = "join" /\ owner[key[r]] # NoReq /\ pc' = [pc EXCEPT ![r] = "wait"]
        /\ UNCHANGED <<result, owner, file, key, kind, reply>>
    BY <1>6 DEF Follow, Goto, flight, request
  <2>2. Status' = [Status EXCEPT ![r] = "waiting"] /\ Flights' = Flights /\ Status[r] = "missed"
    <3>1. pc[r] \notin Leading
      BY <2>1, <1>out
    <3>2. Status' = [Status EXCEPT ![r] = StatusOf("wait")] /\ Flights' = Flights
      BY <2>1, <3>1, HandlerMoves
    <3> QED BY <2>1, <3>2, <1>status, <1>of DEF Waiting
  <2>3. Stored' = Stored
    BY <2>1 DEF Stored
  <2>4. Flights' = [Flights EXCEPT ![key[r]] = IF @ = "none" THEN "going" ELSE @]
    BY <2>1, <2>2, <1>0 DEF Flights, FlightOf
  <2>5. Ranges!Join(r)
    BY <2>1, <2>2, <2>3, <2>4 DEF Ranges!Join, Ranges!Goto, Status, Stored, Flights
  <2> QED BY <2>5, RangesAre
<1>7. ASSUME NEW r \in Req, Rename(r) PROVE [Ranges!Next]_(Ranges!vars)
  <2>1. /\ pc[r] = "rename" /\ tmp[r] = "whole" /\ pc' = [pc EXCEPT ![r] = "record"]
        /\ file' = [file EXCEPT ![key[r]] = "whole"]
        /\ UNCHANGED <<result, owner, key, kind, reply>>
    BY <1>7 DEF Rename, Goto, flight, request, TempWhole
  <2>2. Status' = Status
    BY <2>1, <1>0 DEF Status, StatusOf, Waiting, Leading, Fetching, Storing, Locked
  <2>3. Stored' = Stored \cup {key[r]}
    BY <2>1, <1>0 DEF Stored
  <2>4. /\ HasStored(r)' /\ ~HasStored(r)
        /\ \A s \in Req : s # r => (HasStored(s)' <=> HasStored(s))
    BY <2>1, <1>0 DEF HasStored, Locked, ResultsSound
  <2>5. owner[key[r]] = r /\ \A k \in Keys : k # key[r] => owner[k] # r
    BY <2>1, <1>0 DEF SingleFlight, Leading, Storing
  <2>6. /\ FlightOf(key[r])' = "stored" /\ FlightOf(key[r]) = "going"
        /\ \A k \in Keys : k # key[r] => FlightOf(k)' = FlightOf(k)
    BY <2>1, <2>4, <2>5, <1>0 DEF FlightOf
  <2>7. Flights' = [Flights EXCEPT ![key[r]] = "stored"] /\ Flights[key[r]] = "going"
    BY <2>6, <1>0, <2>1 DEF Flights
  <2>8. PICK k \in Keys : k = key[r]
    BY <1>0
  <2>9. Ranges!Store(k)
    BY <2>1, <2>2, <2>3, <2>7, <2>8 DEF Ranges!Store, Status, Stored, Flights
  <2> QED BY <2>9, RangesAre
<1>8. ASSUME NEW r \in Req, NEW b \in BOOLEAN, Unlink(r, b)
      PROVE  [Ranges!Next]_(Ranges!vars)
  <2>1. /\ pc[r] = "unlink" /\ pc' = [pc EXCEPT ![r] = "evict"]
        /\ UNCHANGED <<result, owner, key, kind, reply>>
        /\ file' = IF b THEN [file EXCEPT ![victim] = "absent"] ELSE file
        /\ victim \in Keys
    BY <1>8 DEF Unlink, Goto, flight, request, MutexSound
  <2>2. Status' = Status
    BY <2>1, <1>0 DEF Status, StatusOf, Waiting, Leading, Fetching, Storing, Locked
  <2>3. \A s \in Req : HasStored(s)' <=> HasStored(s)
    BY <2>1, <1>0 DEF HasStored, Locked
  <2>4. \A k \in Keys : FlightOf(k)' = FlightOf(k)
    BY <2>1, <2>3, <1>0 DEF FlightOf
  <2>5. Flights' = Flights
    BY <2>4 DEF Flights
  <2>6. CASE b
    <3>1. Stored' = Stored \ {victim}
      BY <2>1, <2>6, <1>0 DEF Stored
    <3>2. PICK k \in Keys : k = victim
      BY <2>1
    <3>3. Ranges!Drop(k)
      BY <2>1, <2>2, <2>5, <3>1, <3>2 DEF Ranges!Drop, Status, Stored, Flights
    <3> QED BY <3>3, RangesAre
  <2>7. CASE ~b
    <3>1. Stored' = Stored
      BY <2>1, <2>7 DEF Stored
    <3> QED BY <2>1, <2>2, <2>5, <3>1, <1>still DEF Shown
  <2> QED BY <2>6, <2>7
<1>9. ASSUME NEW r \in Req, Land(r) PROVE [Ranges!Next]_(Ranges!vars)
  <2> DEFINE done == {r} \cup { s \in Req : pc[s] = "wait" /\ key[s] = key[r] }
             c == IF result[r] = "ok" THEN "MISS" ELSE result[r]
             waiting == { s \in Req : Status[s] = "waiting" /\ key[s] = key[r] }
  <2>1. /\ pc[r] = "land" /\ UNCHANGED <<file, key, kind>>
        /\ pc' = [s \in Req |-> IF s \in done THEN "idle" ELSE pc[s]]
        /\ reply' = [s \in Req |-> IF s \in done THEN c ELSE reply[s]]
        /\ owner' = [owner EXCEPT ![key[r]] = NoReq]
        /\ result' = [result EXCEPT ![r] = "none"]
    BY <1>9 DEF Land, request
  <2>2. owner[key[r]] = r /\ \A k \in Keys : k # key[r] => owner[k] # r
    BY <2>1, <1>0 DEF SingleFlight, Leading
  <2>3. \A s \in Req : Status[s] = "waiting" <=> pc[s] \in Waiting
    BY <1>status DEF StatusOf
  <2>4. waiting = done
    BY <2>1, <2>2, <2>3, <1>0 DEF Waiting, SingleFlight, Leading
  <2>5. Status' = [s \in Req |-> IF s \in done THEN "idle" ELSE Status[s]]
    <3>1. \A s \in Req : StatusOf(pc'[s]) = IF s \in done THEN "idle" ELSE StatusOf(pc[s])
      BY <2>1, <1>of
    <3> QED BY <3>1, <1>status DEF Status
  <2>6. \A k \in Keys : k # key[r] => owner[k] \notin done
    BY <2>2, <1>0 DEF SingleFlight, Leading, Fetching, Storing, Locked
  <2>7. \A s \in Req : s \notin done => (HasStored(s)' <=> HasStored(s))
    BY <2>1, <1>0 DEF HasStored
  <2>8. \A k \in Keys : FlightOf(k)' = IF k = key[r] THEN "none" ELSE FlightOf(k)
    BY <2>1, <2>6, <2>7, <1>0 DEF FlightOf
  <2>9. Flights' = [Flights EXCEPT ![key[r]] = "none"]
    BY <2>8 DEF Flights
  <2>10. Flights[key[r]] = IF result[r] = "ok" THEN "stored" ELSE "going"
    BY <2>1, <2>2, <1>0 DEF Flights, FlightOf, HasStored, Locked
  <2>11. c \in IF Flights[key[r]] = "stored" THEN {"MISS"} ELSE Ranges!Failures
    BY <2>1, <2>10, <1>0 DEF ResultsSound, Results, Errors, Ranges!Failures
  <2>12. Stored' = Stored
    BY <2>1 DEF Stored
  <2>13. Ranges!Land(key[r])
    <3> HIDE DEF c, done
    <3>1. Flights[key[r]] # "none"
      BY <2>10
    <3>2. /\ Status' = [s \in Req |-> IF s \in waiting THEN "idle" ELSE Status[s]]
          /\ reply' = [s \in Req |-> IF s \in waiting THEN c ELSE reply[s]]
      BY <2>1, <2>4, <2>5
    <3> QED BY <2>1, <2>9, <2>11, <2>12, <3>1, <3>2
            DEF Ranges!Land, Status, Stored, Flights
  <2> QED BY <2>13, RangesAre, <1>0
<1>10. CASE Crash
  <2>1. /\ pc' = [r \in Req |-> "idle"] /\ reply' = [r \in Req |-> "none"]
        /\ owner' = [k \in Keys |-> NoReq] /\ UNCHANGED <<key, kind>>
    BY <1>10 DEF Crash, request
  <2>2. Status' = [r \in Req |-> "idle"]
    BY <2>1, <1>of DEF Status
  <2>3. Flights' = [k \in Keys |-> "none"]
    BY <2>1 DEF Flights, FlightOf
  <2>4. \A k \in Keys : file'[k] \in {file[k], "absent"}
    BY <1>10 DEF Crash
  <2>5. Stored' \in SUBSET Stored
    BY <2>4 DEF Stored
  <2>6. Ranges!Crash
    BY <2>1, <2>2, <2>3, <2>5 DEF Ranges!Crash, Status, Stored, Flights
  <2> QED BY <2>6, RangesAre
<1>11. ASSUME NEW r \in Req, NEW l \in Leading, NEW c \in Results, pc[r] \in Leading,
              pc' = [pc EXCEPT ![r] = l], result' = [result EXCEPT ![r] = c],
              (l \in {"record"} \cup Locked \/ c = "ok") <=> HasStored(r),
              UNCHANGED <<key, kind, reply, owner, file>>
       PROVE  [Ranges!Next]_(Ranges!vars)
  BY <1>11, LeaderMoves, <1>still
<1> USE DEF Leading, Fetching, Storing, Locked, HasStored, ResultsSound, Goto, request, flight
<1>12. ASSUME NEW r \in Req, PeerServes(r) \/ PeerServesFirst(r) \/ HedgeServes(r) \/ FetchServes(r)
       PROVE  [Ranges!Next]_(Ranges!vars)
  <2>1. pc[r] \in Fetching /\ pc' = [pc EXCEPT ![r] = "create"]
    BY <1>12 DEF PeerServes, PeerServesFirst, HedgeServes, FetchServes
  <2>2. UNCHANGED <<result, key, kind, reply, owner, file>>
    BY <1>12 DEF PeerServes, PeerServesFirst, HedgeServes, FetchServes
  <2>3. result' = [result EXCEPT ![r] = "none"] /\ result[r] = "none"
    BY <2>1, <2>2, <1>0
  <2> QED BY <2>1, <2>2, <2>3, <1>11 DEF Results
<1>13. ASSUME NEW r \in Req, NEW l \in {"acquire", "fetch", "write", "rename"},
              pc[r] \in Fetching \cup Storing, pc' = [pc EXCEPT ![r] = l],
              UNCHANGED <<result, key, kind, reply, owner, file>>
       PROVE  [Ranges!Next]_(Ranges!vars)
  <2>1. result' = [result EXCEPT ![r] = "none"] /\ result[r] = "none"
    BY <1>13, <1>0
  <2> QED BY <2>1, <1>13, <1>11 DEF Results
<1>14. ASSUME NEW r \in Req, PeersFail(r) \/ Acquire(r) \/ CreateTemp(r) \/ WriteTemp(r)
       PROVE  [Ranges!Next]_(Ranges!vars)
  <2>1. CASE PeersFail(r)
    BY <2>1, <1>13 DEF PeersFail
  <2>2. CASE Acquire(r)
    BY <2>2, <1>13 DEF Acquire
  <2>3. CASE CreateTemp(r)
    BY <2>3, <1>13 DEF CreateTemp
  <2>4. CASE WriteTemp(r)
    BY <2>4, <1>13 DEF WriteTemp
  <2> QED BY <1>14, <2>1, <2>2, <2>3, <2>4
<1>15. ASSUME NEW r \in Req, NEW c \in Errors, Fail(r, c), pc[r] \in Fetching \cup Storing,
              UNCHANGED <<key, kind, reply, owner, file>>
       PROVE  [Ranges!Next]_(Ranges!vars)
  <2>1. c \in Results /\ c # "ok" /\ result[r] = "none"
    BY <1>15, <1>0 DEF Results, Errors
  <2> QED BY <2>1, <1>15, <1>11 DEF Fail
<1>16. ASSUME NEW r \in Req, NEW c \in Errors,
              AcquireGivesUp(r) \/ FetchFails(r, c) \/ StoreFails(r)
       PROVE  [Ranges!Next]_(Ranges!vars)
  <2>1. /\ pc[r] \in Fetching \cup Storing
        /\ UNCHANGED <<key, kind, reply, owner, file>>
    BY <1>16 DEF AcquireGivesUp, FetchFails, StoreFails
  <2>2. Fail(r, "503") \/ Fail(r, c) \/ Fail(r, "500")
    BY <1>16 DEF AcquireGivesUp, FetchFails, StoreFails
  <2> HIDE DEF Goto
  <2> QED BY <2>1, <2>2, <1>15 DEF Errors
<1>17. ASSUME NEW r \in Req, Record(r) \/ EvictPop(r) PROVE [Ranges!Next]_(Ranges!vars)
  <2>1. PICK l \in Locked : pc' = [pc EXCEPT ![r] = l]
    BY <1>17 DEF Record, EvictPop
  <2>2. /\ pc[r] \in {"record"} \cup Locked
        /\ UNCHANGED <<result, key, kind, reply, owner, file>>
    BY <1>17 DEF Record, EvictPop
  <2>3. result' = [result EXCEPT ![r] = "none"]
    BY <2>2, <1>0
  <2> QED BY <2>1, <2>2, <2>3, <1>11 DEF Results
<1>18. ASSUME NEW r \in Req, EvictDone(r) PROVE [Ranges!Next]_(Ranges!vars)
  BY <1>18, <1>11 DEF EvictDone, Results
<1>19. ASSUME NEW r \in Req, Disconnect(r) \/ HedgeFires(r) \/ HedgeFails(r)
       PROVE  [Ranges!Next]_(Ranges!vars)
  <2>1. UNCHANGED <<pc, key, kind, reply, owner, result, file>>
    BY <1>19 DEF Disconnect, HedgeFires, HedgeFails
  <2> QED BY <2>1, <1>same, <1>still
<1>20. CASE StrayUnwinds \/ LateHedge \/ UNCHANGED vars
  <2>1. UNCHANGED <<pc, key, kind, reply, owner, result, file>>
    BY <1>20 DEF StrayUnwinds, LateHedge, vars
  <2> QED BY <2>1, <1>same, <1>still
<1>21. "500" \in Errors
  BY DEF Errors
<1> HIDE DEF Leading, Fetching, Storing, Locked, HasStored, ResultsSound, Goto, request, flight
<1> QED BY <1>1, <1>2, <1>3, <1>4, <1>5, <1>6, <1>7, <1>8, <1>9, <1>10, <1>12,
     <1>14, <1>16, <1>17, <1>18, <1>19, <1>20, <1>21 DEF Next, Handle, Fly

\* getXorb, its fetch pool, its atomic write and its eviction keep the promise
\* of RangeStore, through every interleaving, fault and crash.
THEOREM ServeRanges == Spec => ServesRanges
<1>1. Init => Ranges!Init
  <2> SUFFICES ASSUME Init PROVE Ranges!Init
    OBVIOUS
  <2>1. Status = [r \in Req |-> "idle"]
    BY DEF Init, Status, StatusOf, Waiting, Leading, Fetching, Storing, Locked
  <2>2. Stored = {} /\ Flights = [k \in Keys |-> "none"]
    BY DEF Init, Stored, Flights, FlightOf
  <2> QED BY <2>1, <2>2 DEF Init, Ranges!Init, Ranges!RequestKinds, Status, Stored, Flights
<1>2. IInv /\ [Next]_vars => [Ranges!Next]_(Ranges!vars)
  BY RangesStep
<1> QED BY <1>1, <1>2, InvariantHolds, PTL DEF Spec, ServesRanges, Ranges!Spec
==============================================================================
