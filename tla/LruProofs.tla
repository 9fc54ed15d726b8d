----------------------------- MODULE LruProofs -----------------------------
(***************************************************************************)
(* The safety theorems of the two programs that keep an LRU account        *)
(* (LruAccount): tier 1's list of cache files, TierOneLRU, for every set   *)
(* of keys, every size of body, budget, watermark and volume, and with     *)
(* every fault; and the replay of the placement study, PlacementSim, for   *)
(* every log, topology, xorb map, capacity and TTL.  The two programs      *)
(* share no variable; they share the lemmas of ListTheorems.               *)
(***************************************************************************)
EXTENDS TierOneLRU, PlacementSim, ListTheorems

\* What the invariant says about the account.
LEMMA AccountFacts ==
    ASSUME AccountInv
    PROVE  /\ AccountOK(Keys, lru) /\ Exact(lru)
           /\ lru.order \in Seq(Keys) /\ Distinct(lru.order)
           /\ lru.size \in [Keys -> Nat] /\ lru.total \in Int
BY DEF AccountInv, TypeOK, AccountOK

\* The account's part of the inductive invariant holds of a cold start.
LEMMA InitAccount == Init => AccountInv
<1> SUFFICES ASSUME Init PROVE AccountInv
  OBVIOUS
<1>1. Distinct(<<>>)
  BY DEF Distinct
<1>2. TypeOK
  <2>1. readable \in BOOLEAN /\ minFree \in {0, MinFree}
    BY DEF Init, Watermark
  <2> QED BY <1>1, <2>1, EmptyOK, RestartsAssumption DEF Init, TypeOK
<1>3. Exact(lru)
  BY EmptyExact DEF Init
<1>4. WithinBudget
  BY LimitsAssumption DEF Init, WithinBudget, Empty
<1>5. OwnEntryNewest
  BY DEF Init, OwnEntryNewest
<1> QED BY <1>2, <1>3, <1>4, <1>5 DEF AccountInv

\* Touch keeps the invariant.
LEMMA TouchIInv == ASSUME AccountInv, NEW k \in Keys, Touch(k) PROVE AccountInv'
<1>1. AccountOK(Keys, lru') /\ Exact(lru') /\ lru'.total = lru.total
  BY AccountFacts, TouchedOK, TouchedExact DEF Touch
<1>2. TypeOK'
  BY <1>1 DEF AccountInv, TypeOK, Touch
<1>3. WithinBudget'
  BY <1>1 DEF AccountInv, WithinBudget, Touch
<1>4. OwnEntryNewest'
  BY DEF AccountInv, OwnEntryNewest, Touch
<1> QED BY <1>1, <1>2, <1>3, <1>4 DEF AccountInv

\* Record up to its eviction loop keeps the invariant.
LEMMA RecordIInv ==
    ASSUME AccountInv, NEW k \in Keys, NEW n \in Sizes, Record(k, n) PROVE AccountInv'
<1>1. n \in Nat
  BY SizesAssumption
<1>2. /\ AccountOK(Keys, lru') /\ Exact(lru')
      /\ lru'.order # <<>> /\ lru'.order[Len(lru'.order)] = k
  <2> DEFINE m == Recorded(lru, k, n)
  <2>1. lru' = m
    BY DEF Record
  <2> AccountOK(Keys, lru)
    BY AccountFacts
  <2>2. AccountOK(Keys, m) /\ m.order # <<>> /\ m.order[Len(m.order)] = k
    BY <1>1, RecordedOK
  <2>3. Exact(m)
    BY <1>1, AccountFacts, RecordedExact
  <2> HIDE DEF m
  <2> QED BY <2>1, <2>2, <2>3
<1>3. written' \in Seq(Keys) /\ Distinct(written')
  BY NewestOK DEF AccountInv, TypeOK, Record
<1>4. TypeOK'
  BY <1>1, <1>2, <1>3 DEF AccountInv, TypeOK, Record
<1>5. WithinBudget'
  BY DEF WithinBudget, Record
<1>6. OwnEntryNewest'
  BY <1>2 DEF OwnEntryNewest, Record
<1> QED BY <1>2, <1>4, <1>5, <1>6 DEF AccountInv

\* Forget keeps the invariant; it can only lower the count.
LEMMA ForgetIInv == ASSUME AccountInv, NEW k \in Keys, Forget(k) PROVE AccountInv'
<1>1. /\ AccountOK(Keys, lru')
      /\ k \notin Entries(lru) => lru' = lru
      /\ k \in Entries(lru) => lru'.total = lru.total - lru.size[k]
  <2>1. lru' = Forgotten(lru, k) /\ AccountOK(Keys, lru)
    BY AccountFacts DEF Forget
  <2>2. AccountOK(Keys, Forgotten(lru, k))
    BY <2>1, ForgottenOK
  <2>3. /\ k \notin Entries(lru) => Forgotten(lru, k) = lru
        /\ k \in Entries(lru) => Forgotten(lru, k).total = lru.total - lru.size[k]
    BY DEF Forgotten
  <2> QED BY <2>1, <2>2, <2>3
<1>2. Exact(lru')
  BY <1>1, AccountFacts, ForgottenExact DEF Forget
<1>3. TypeOK'
  BY <1>1 DEF AccountInv, TypeOK, Forget
<1>4. lru'.total \in Int /\ lru'.total <= lru.total
  BY <1>1, AccountFacts
<1>5. WithinBudget'
  BY <1>4, AccountFacts, LimitsAssumption DEF AccountInv, WithinBudget, Forget
<1>6. OwnEntryNewest'
  BY DEF AccountInv, OwnEntryNewest, Forget
<1> QED BY <1>2, <1>3, <1>5, <1>6 DEF AccountInv

\* An iteration of the eviction loop keeps the invariant.
LEMMA EvictOneIInv ==
    ASSUME AccountInv, NEW free, NEW removed \in BOOLEAN, EvictOne(free, removed)
    PROVE  AccountInv'
<1>1. /\ AccountOK(Keys, lru') /\ Exact(lru') /\ Head(lru.order) \in Keys
      /\ lru'.order = Tail(lru.order)
  BY AccountFacts, PoppedOK, PoppedExact DEF EvictOne
<1>2. disk' \in [Keys -> Nat] /\ written' \in Seq(Keys) /\ Distinct(written')
  <2>1. CASE removed
    <3>1. /\ disk' = [disk EXCEPT ![Head(lru.order)] = 0]
          /\ written' = Dropped(written, Head(lru.order))
      BY <2>1 DEF EvictOne
    <3>2. CASE Head(lru.order) \in Members(written)
      BY <3>1, <3>2, WithoutOK DEF Dropped, AccountInv, TypeOK
    <3>3. CASE Head(lru.order) \notin Members(written)
      BY <3>1, <3>3 DEF Dropped, AccountInv, TypeOK
    <3> QED BY <3>2, <3>3
  <2>2. CASE ~removed
    BY <2>2 DEF EvictOne, AccountInv, TypeOK
  <2> QED BY <2>1, <2>2
<1>3. TypeOK'
  BY <1>1, <1>2 DEF AccountInv, TypeOK, EvictOne
<1>4. WithinBudget'
  BY DEF WithinBudget, EvictOne
<1>5. OwnEntryNewest'
  <2>1. Tail(lru.order) # <<>> =>
          Tail(lru.order)[Len(Tail(lru.order))] = lru.order[Len(lru.order)]
    <3>1. lru.order \in Seq(Keys) /\ lru.order # <<>>
      BY AccountFacts DEF EvictOne
    <3> QED BY <3>1
  <2> QED BY <1>1, <2>1 DEF AccountInv, OwnEntryNewest, EvictOne
<1> QED BY <1>1, <1>3, <1>4, <1>5 DEF AccountInv

\* The end of the loop is where the budget is established: either the limits
\* hold, or the list is empty and an exact count of nothing is 0.
LEMMA EvictDoneIInv == ASSUME AccountInv, NEW free, EvictDone(free) PROVE AccountInv'
<1>1. TypeOK' /\ Exact(lru')
  BY DEF AccountInv, TypeOK, EvictDone
<1>2. WithinBudget'
  <2>1. CASE lru.order = <<>>
    <3>1. lru.total = 0
      BY <2>1, AccountFacts, NothingCounted
    <3> QED BY <3>1, LimitsAssumption DEF EvictDone, WithinBudget
  <2>2. CASE ~OverLimit(free)
    BY <2>2, AccountFacts, LimitsAssumption
       DEF EvictDone, WithinBudget, OverLimit
  <2> QED BY <2>1, <2>2 DEF EvictDone
<1>3. OwnEntryNewest'
  BY DEF AccountInv, OwnEntryNewest, EvictDone
<1> QED BY <1>1, <1>2, <1>3 DEF AccountInv

\* A restart keeps the invariant: the account starts over from nothing.
LEMMA RestartIInv == ASSUME AccountInv, Restart PROVE AccountInv'
<1>1. TypeOK'
  BY EmptyOK, AccountFacts, RestartsAssumption DEF AccountInv, TypeOK, Restart, Watermark
<1>2. Exact(lru')
  BY EmptyExact DEF Restart
<1>3. WithinBudget' /\ OwnEntryNewest'
  BY DEF WithinBudget, OwnEntryNewest, Restart
<1> QED BY <1>1, <1>2, <1>3 DEF AccountInv

\* Loading a file found on disk keeps the invariant.
LEMMA LoadOneIInv == ASSUME AccountInv, LoadOne PROVE AccountInv'
<1> DEFINE k == Head(seeds)
<1>1. k \in Keys /\ Tail(seeds) \in Seq(Keys)
  BY DEF AccountInv, TypeOK, LoadOne
<1>2. disk[k] \in Nat
  BY <1>1 DEF AccountInv, TypeOK
<1>3. lru' = lru \/ lru' = Recorded(lru, k, disk[k])
  BY DEF LoadOne, Loaded
<1> HIDE DEF k
<1>4. AccountOK(Keys, lru') /\ Exact(lru')
  <2> DEFINE m == Recorded(lru, k, disk[k])
  <2>1. AccountOK(Keys, m)
    BY <1>1, <1>2, AccountFacts, RecordedOK
  <2>2. Exact(m)
    BY <1>1, <1>2, AccountFacts, RecordedExact
  <2> HIDE DEF m
  <2> QED BY <1>3, <2>1, <2>2, AccountFacts DEF m
<1>5. TypeOK'
  BY <1>1, <1>4 DEF AccountInv, TypeOK, LoadOne
<1>6. WithinBudget' /\ OwnEntryNewest'
  BY DEF AccountInv, WithinBudget, OwnEntryNewest, LoadOne
<1> QED BY <1>4, <1>5, <1>6 DEF AccountInv

\* Every step keeps the account's part of the invariant.
LEMMA NextAccount == AccountInv /\ [Next]_vars => AccountInv'
<1> SUFFICES ASSUME AccountInv, [Next]_vars PROVE AccountInv'
  OBVIOUS
<1>1. ASSUME NEW k \in Keys, Touch(k) PROVE AccountInv'
  BY <1>1, TouchIInv
<1>2. ASSUME NEW k \in Keys, NEW n \in Sizes, Record(k, n) PROVE AccountInv'
  BY <1>2, RecordIInv
<1>3. ASSUME NEW k \in Forgettable, Forget(k) PROVE AccountInv'
  BY <1>3, ForgetIInv, ForgetAssumption
<1>4. CASE Evict
  <2> DEFINE free == FreeReading
  <2>1. \/ \E removed \in BOOLEAN : EvictOne(free, removed)
        \/ EvictDone(free)
    BY <1>4 DEF Evict
  <2> HIDE DEF free
  <2>2. ASSUME NEW removed \in BOOLEAN, EvictOne(free, removed) PROVE AccountInv'
    BY <2>2, EvictOneIInv
  <2>3. ASSUME EvictDone(free) PROVE AccountInv'
    BY <2>3, EvictDoneIInv
  <2> QED BY <2>1, <2>2, <2>3
<1>5. CASE Restart
  BY <1>5, RestartIInv
<1>6. CASE LoadOne
  BY <1>6, LoadOneIInv
<1>7. CASE LoadDone
  BY <1>7 DEF AccountInv, TypeOK, WithinBudget, OwnEntryNewest, LoadDone
<1>8. CASE OutsideUse
  BY <1>8 DEF AccountInv, TypeOK, WithinBudget, OwnEntryNewest, OutsideUse
<1>9. CASE StatfsTurns
  BY <1>9 DEF AccountInv, TypeOK, WithinBudget, OwnEntryNewest, StatfsTurns
<1>10. CASE UNCHANGED vars
  BY <1>10 DEF AccountInv, TypeOK, WithinBudget, OwnEntryNewest, vars
<1> QED BY <1>1, <1>2, <1>3, <1>4, <1>5, <1>6, <1>7, <1>8, <1>9, <1>10 DEF Next

-----------------------------------------------------------------------------
\* The volume.

\* What is on disk with one file more, or less, or of another length.
LEMMA DiskChanges ==
    ASSUME disk \in [Keys -> Nat], NEW k \in Keys, NEW n \in Nat
    PROVE  LET d == [disk EXCEPT ![k] = n]
           IN  /\ d \in [Keys -> Nat] /\ OnDisk \in Int
               /\ SumFunction(d) = OnDisk - disk[k] + n
<1> DEFINE d == [disk EXCEPT ![k] = n]
           rest == Keys \ {k}
<1>1. /\ d \in [Keys -> Nat] /\ d[k] = n /\ \A x \in rest : disk[x] = d[x]
      /\ DOMAIN disk = Keys /\ DOMAIN d = Keys
  OBVIOUS
<1> HIDE DEF d
<1>2. \A x \in Keys : disk[x] \in Int /\ d[x] \in Int
  BY <1>1
<1>3. IsFiniteSet(Keys) /\ IsFiniteSet(rest)
  BY KeysAssumption, FS_Subset
<1> HIDE DEF rest
<1>4. /\ SumFunctionOnSet(disk, Keys) = disk[k] + SumFunctionOnSet(disk, rest)
      /\ SumFunctionOnSet(disk, Keys) \in Int
  BY <1>2, <1>3, SumTakeOut DEF rest
<1>5. SumFunctionOnSet(d, Keys) = d[k] + SumFunctionOnSet(d, rest)
  BY <1>2, <1>3, SumTakeOut DEF rest
<1>6. SumFunctionOnSet(disk, rest) = SumFunctionOnSet(d, rest)
  BY <1>1, <1>3, SumSame
<1>7. SumFunctionOnSet(disk, rest) \in Int
  <2>1. \A x \in rest : disk[x] \in Int
    BY <1>2 DEF rest
  <2> QED BY <1>3, <2>1, SumTakeOut
<1>8. OnDisk = SumFunctionOnSet(disk, Keys) /\ SumFunction(d) = SumFunctionOnSet(d, Keys)
  BY <1>1 DEF OnDisk, SumFunction
<1>9. disk[k] \in Int
  BY <1>2
<1>10. SumFunction(d) = OnDisk - disk[k] + n
  BY <1>1, <1>4, <1>5, <1>6, <1>7, <1>8, <1>9
<1> QED BY <1>1, <1>4, <1>8, <1>10 DEF d

\* The bytes on disk are an integer, and those of the listed files.
LEMMA DiskFacts ==
    ASSUME TypeOK
    PROVE  /\ OnDisk \in Int /\ others \in Int /\ Free \in Int
           /\ Free = Volume - others - OnDisk
           /\ \A S \in SUBSET Keys : (\A k \in Keys \ S : disk[k] = 0)
                 => OnDisk = SumFunctionOnSet(disk, S)
<1>1. DOMAIN disk = Keys /\ \A x \in Keys : disk[x] \in Int
  BY DEF TypeOK
<1>2. OnDisk = SumFunctionOnSet(disk, Keys)
  BY <1>1 DEF OnDisk, SumFunction
<1>3. OnDisk \in Int
  BY <1>1, <1>2, KeysAssumption, SumTakeOut
<1>4. others \in Int /\ Volume \in Int
  BY VolumeAssumption DEF TypeOK
<1>5. ASSUME NEW S \in SUBSET Keys, \A k \in Keys \ S : disk[k] = 0
      PROVE  OnDisk = SumFunctionOnSet(disk, S)
  BY <1>1, <1>2, <1>5, KeysAssumption, SumOfNonzeros
<1>6. Free = Volume - others - OnDisk /\ Free \in Int
  BY <1>3, <1>4 DEF Free
<1> QED BY <1>3, <1>4, <1>5, <1>6

\* A cold start has nothing on disk.
LEMMA InitVolume == Init => VolumeInv
<1> SUFFICES ASSUME Init PROVE VolumeInv
  OBVIOUS
<1>1. TypeOK
  BY InitAccount DEF AccountInv
<1>2. OnDisk = 0
  <2>1. \A k \in Keys : disk[k] = 0
    BY DEF Init
  <2>2. OnDisk = SumFunctionOnSet(disk, {})
    BY <1>1, <2>1, DiskFacts
  <2> QED BY <2>2, SumFirst, FS_EmptySet
<1>3. VolumeFits
  BY <1>2, VolumeAssumption DEF Init, VolumeFits
<1>4. DiskListed /\ LoadSound
  BY DEF Init, DiskListed, LoadSound
<1> QED BY <1>3, <1>4 DEF VolumeInv

\* A step that leaves the files, the account and the holder of mu alone.
LEMMA VolumeIdle ==
    ASSUME VolumeInv, UNCHANGED <<op, disk, written, others>>,
           op = "load" => UNCHANGED <<lru, seeds>>
    PROVE  VolumeInv'
<1>1. VolumeFits'
  BY DEF VolumeInv, VolumeFits, OnDisk
<1>2. DiskListed'
  BY DEF VolumeInv, DiskListed
<1>3. LoadSound'
  BY DEF VolumeInv, LoadSound
<1> QED BY <1>1, <1>2, <1>3 DEF VolumeInv

\* A file is written where there is room for it beside an older one.
LEMMA RecordVolume ==
    ASSUME IInv, NEW k \in Keys, NEW n \in Sizes, Record(k, n) PROVE VolumeInv'
<1>1. TypeOK /\ n \in Nat
  BY SizesAssumption DEF IInv, AccountInv
<1>2. disk' = [disk EXCEPT ![k] = n] /\ others' = others /\ n <= Free
  BY DEF Record
<1>3. VolumeFits'
  <2>1. SumFunction(disk') = OnDisk - disk[k] + n
    BY <1>1, <1>2, DiskChanges DEF TypeOK
  <2>2. /\ OnDisk' = OnDisk - disk[k] + n
        /\ disk[k] \in Nat /\ OnDisk \in Int /\ others \in Int /\ Volume \in Int
    BY <1>1, <2>1, DiskFacts, VolumeAssumption DEF OnDisk, TypeOK
  <2>3. n <= Volume - others - OnDisk
    BY <1>1, <1>2, DiskFacts
  <2>4. 0 <= others
    BY DEF IInv, VolumeInv, VolumeFits
  <2> QED BY <1>1, <1>2, <2>2, <2>3, <2>4 DEF VolumeFits
<1>4. DiskListed'
  <2>1. Members(written') = Members(written) \cup {k}
    <3>1. written' = Newest(written, k) /\ written \in Seq(Keys) /\ Distinct(written)
      BY <1>1 DEF Record, TypeOK
    <3>2. ASSUME NEW list \in Seq(Keys), Distinct(list)
          PROVE  Members(Newest(list, k)) = Members(list) \cup {k}
      BY <3>2, NewestOK
    <3> QED BY <3>1, <3>2
  <2>2. \A x \in Keys : x # k => disk'[x] = disk[x]
    BY <1>1, <1>2 DEF TypeOK
  <2> QED BY <2>1, <2>2 DEF IInv, VolumeInv, DiskListed
<1>5. LoadSound'
  BY DEF Record, LoadSound
<1> QED BY <1>3, <1>4, <1>5 DEF VolumeInv

\* An eviction removes a file and what the listing says of it, or neither.
LEMMA EvictOneVolume ==
    ASSUME IInv, NEW free, NEW removed \in BOOLEAN, EvictOne(free, removed)
    PROVE  VolumeInv'
<1> DEFINE k == Head(lru.order)
<1>1. TypeOK /\ k \in Keys
  BY AccountFacts, PoppedOK DEF EvictOne, IInv, AccountInv
<1>2. op = "evict" /\ op' = op /\ others' = others
  BY DEF EvictOne
<1>3. LoadSound'
  BY <1>2 DEF LoadSound
<1>4. CASE removed
  <2>1. disk' = [disk EXCEPT ![k] = 0] /\ written' = Dropped(written, k)
    BY <1>4 DEF EvictOne
  <2> HIDE DEF k
  <2>2. VolumeFits'
    <3>1. SumFunction(disk') = OnDisk - disk[k] + 0
      BY <1>1, <2>1, DiskChanges DEF TypeOK
    <3>2. /\ OnDisk' = OnDisk - disk[k]
          /\ disk[k] \in Nat /\ OnDisk \in Int /\ others \in Int /\ Volume \in Int
      BY <1>1, <3>1, DiskFacts, VolumeAssumption DEF OnDisk, TypeOK
    <3>3. 0 <= others /\ others + OnDisk <= Volume
      BY DEF IInv, VolumeInv, VolumeFits
    <3> QED BY <1>2, <3>2, <3>3 DEF VolumeFits
  <2>3. DiskListed'
    <3>1. Members(written') = Members(written) \ {k}
      <4>1. written \in Seq(Keys) /\ Distinct(written)
        BY <1>1 DEF TypeOK
      <4>2. Members(Dropped(written, k)) = Members(written) \ {k}
        BY <1>1, <4>1, DroppedOK
      <4> QED BY <2>1, <4>2
    <3>2. disk'[k] = 0 /\ \A x \in Keys : x # k => disk'[x] = disk[x]
      BY <1>1, <2>1 DEF TypeOK
    <3> QED BY <3>1, <3>2 DEF IInv, VolumeInv, DiskListed
  <2> QED BY <1>3, <2>2, <2>3 DEF VolumeInv
<1>5. CASE ~removed
  BY <1>2, <1>5, VolumeIdle DEF EvictOne, IInv
<1> QED BY <1>4, <1>5

\* A restart lists the directory and has added nothing yet.
LEMMA RestartVolume == ASSUME IInv, Restart PROVE VolumeInv'
<1>1. VolumeFits' /\ DiskListed'
  BY DEF IInv, VolumeInv, VolumeFits, OnDisk, DiskListed, Restart
<1>2. Entries(lru') = {} /\ seeds' = written'
  BY EmptyOK DEF Restart
<1>3. LoadSound'
  BY <1>2 DEF LoadSound
<1> QED BY <1>1, <1>3 DEF VolumeInv

\* Load moves one file from those to be added to the entries.
LEMMA LoadOneVolume == ASSUME IInv, LoadOne PROVE VolumeInv'
<1> DEFINE k == Head(seeds)
<1>1. TypeOK /\ AccountOK(Keys, lru) /\ LoadSound
  BY AccountFacts DEF IInv, AccountInv, VolumeInv
<1>2. /\ k \in Keys /\ disk[k] \in Nat /\ Members(seeds) = Members(Tail(seeds)) \cup {k}
  <2>1. seeds \in Seq(Keys) /\ seeds # <<>>
    BY <1>1 DEF LoadOne, TypeOK
  <2>2. \A i \in DOMAIN seeds : i = 1 \/ (i - 1 \in DOMAIN Tail(seeds) /\ Tail(seeds)[i - 1] = seeds[i])
    BY <2>1
  <2>3. \A i \in DOMAIN Tail(seeds) : i + 1 \in DOMAIN seeds /\ Tail(seeds)[i] = seeds[i + 1]
    BY <2>1
  <2>4. 1 \in DOMAIN seeds /\ seeds[1] = k
    BY <2>1
  <2>5. k \in Keys
    BY <2>1
  <2> HIDE DEF k
  <2>6. Members(seeds) = Members(Tail(seeds)) \cup {k}
    <3>1. ASSUME NEW i \in DOMAIN seeds PROVE seeds[i] \in Members(Tail(seeds)) \cup {k}
      BY <2>2, <2>4 DEF Members
    <3>2. ASSUME NEW i \in DOMAIN Tail(seeds) PROVE Tail(seeds)[i] \in Members(seeds)
      BY <2>3 DEF Members
    <3>3. k \in Members(seeds)
      BY <2>4 DEF Members
    <3> QED BY <3>1, <3>2, <3>3 DEF Members
  <2> QED BY <1>1, <2>5, <2>6 DEF TypeOK
<1>3. /\ op = "load" /\ op' = op /\ disk' = disk /\ written' = written /\ others' = others
      /\ lru' = Loaded(lru, k, disk[k]) /\ seeds' = Tail(seeds)
  BY DEF LoadOne
<1> HIDE DEF k
<1>4. /\ Entries(lru') = Entries(lru) \cup {k}
      /\ \A x \in Entries(lru') : lru'.size[x] = disk[x]
  <2>0. \A x \in Entries(lru) : x \in Keys /\ lru.size[x] = disk[x]
    BY <1>1, <1>3, EntriesFacts DEF LoadSound
  <2>1. CASE k \in Entries(lru)
    BY <1>3, <2>0, <2>1 DEF Loaded
  <2>2. CASE k \notin Entries(lru)
    <3>1. lru' = Recorded(lru, k, disk[k])
      BY <1>3, <2>2 DEF Loaded
    <3>2. Entries(lru') = Entries(lru) \cup {k}
      BY <1>1, <1>2, <3>1, RecordedOK
    <3>3. lru'.size = [lru.size EXCEPT ![k] = disk[k]] /\ lru.size \in [Keys -> Nat]
      BY <1>1, <3>1, EntriesFacts DEF Recorded
    <3> QED BY <1>2, <2>0, <3>2, <3>3
  <2> QED BY <2>1, <2>2
<1>5. LoadSound'
  BY <1>1, <1>2, <1>3, <1>4 DEF LoadSound
<1>6. VolumeFits' /\ DiskListed'
  BY <1>3 DEF IInv, VolumeInv, VolumeFits, OnDisk, DiskListed
<1> QED BY <1>5, <1>6 DEF VolumeInv

\* Others take no more space than there is.
LEMMA OutsideVolume == ASSUME IInv, OutsideUse PROVE VolumeInv'
<1>1. OnDisk \in Int /\ Volume \in Int
  BY DiskFacts, VolumeAssumption DEF IInv, AccountInv
<1>2. OnDisk' = OnDisk /\ others' \in 0 .. (Volume - OnDisk)
  BY DEF OnDisk, OutsideUse
<1>3. VolumeFits'
  <2>1. ASSUME NEW d \in Int, NEW o \in 0 .. (Volume - d) PROVE 0 <= o /\ o + d <= Volume
    BY <1>1
  <2>2. 0 <= others' /\ others' + OnDisk <= Volume
    BY <1>1, <1>2, <2>1
  <2> QED BY <1>2, <2>2 DEF VolumeFits
<1>4. DiskListed' /\ LoadSound'
  BY DEF IInv, VolumeInv, DiskListed, LoadSound, OutsideUse
<1> QED BY <1>3, <1>4 DEF VolumeInv

\* The loop's choices, without the names of the faults.
LEMMA EvictCases ==
    ASSUME Evict
    PROVE  \/ \E removed \in BOOLEAN : EvictOne(FreeReading, removed)
           \/ EvictDone(FreeReading)
BY DEF Evict

\* Every step keeps the volume's part of the invariant.
LEMMA NextVolume == IInv /\ [Next]_vars => VolumeInv'
<1> SUFFICES ASSUME IInv, [Next]_vars PROVE VolumeInv'
  OBVIOUS
<1>0. VolumeInv
  BY DEF IInv
<1>1. ASSUME NEW k \in Keys, Touch(k) PROVE VolumeInv'
  BY <1>0, <1>1, VolumeIdle DEF Touch
<1>2. ASSUME NEW k \in Keys, NEW n \in Sizes, Record(k, n) PROVE VolumeInv'
  BY <1>2, RecordVolume
<1>3. ASSUME NEW k \in Forgettable, Forget(k) PROVE VolumeInv'
  BY <1>0, <1>3, VolumeIdle DEF Forget
<1>4. CASE Evict
  <2>1. ASSUME NEW removed \in BOOLEAN, EvictOne(FreeReading, removed) PROVE VolumeInv'
    BY <2>1, EvictOneVolume
  <2>2. ASSUME EvictDone(FreeReading) PROVE VolumeInv'
    BY <1>0, <2>2 DEF EvictDone, VolumeInv, VolumeFits, OnDisk, DiskListed, LoadSound
  <2> QED BY <1>4, <2>1, <2>2, EvictCases
<1>5. CASE Restart
  BY <1>5, RestartVolume
<1>6. CASE LoadOne
  BY <1>6, LoadOneVolume
<1>7. CASE LoadDone
  BY <1>0, <1>7 DEF LoadDone, VolumeInv, VolumeFits, OnDisk, DiskListed, LoadSound
<1>8. CASE OutsideUse
  BY <1>8, OutsideVolume
<1>9. CASE StatfsTurns
  BY <1>0, <1>9, VolumeIdle DEF StatfsTurns
<1>10. CASE UNCHANGED vars
  BY <1>0, <1>10, VolumeIdle DEF vars
<1> QED BY <1>1, <1>2, <1>3, <1>4, <1>5, <1>6, <1>7, <1>8, <1>9, <1>10 DEF Next

\* The two parts are one inductive invariant.
LEMMA InitIInv == Init => IInv
BY InitAccount, InitVolume DEF IInv

\* Every step keeps it.
LEMMA NextIInv == IInv /\ [Next]_vars => IInv'
BY NextAccount, NextVolume DEF IInv

\* The invariant is an invariant.
LEMMA InvariantHolds == Spec => []IInv
BY InitIInv, NextIInv, PTL DEF Spec

\* The state of lruCache keeps its type, and its list never holds a key twice.
THEOREM TierOneType == Spec => []TypeOK
<1>1. IInv => TypeOK
  BY DEF IInv, AccountInv
<1> QED BY <1>1, InvariantHolds, PTL

\* lruCache.total is the sum of the entries' sizes, for any number of entries
\* and any history of records, hits, evictions and restarts.
THEOREM TierOneTotal == Spec => []TotalIsSum
<1>1. IInv => TotalIsSum
  BY DEF IInv, AccountInv, TotalIsSum
<1> QED BY <1>1, InvariantHolds, PTL

\* Whoever takes lruCache.mu finds the count within the byte budget.
THEOREM TierOneBudget == Spec => []WithinBudget
<1>1. IInv => WithinBudget
  BY DEF IInv, AccountInv
<1> QED BY <1>1, InvariantHolds, PTL

\* A Record evicts its own entry only after every other one.
THEOREM TierOneOwnEntry == Spec => []OwnEntryLast
<1>1. ASSUME IInv PROVE OwnEntryLast
  <2> SUFFICES ASSUME cur # NoKey, lru.order # <<>>
               PROVE  cur \in Entries(lru)
    BY DEF OwnEntryLast
  <2>1. lru.order[Len(lru.order)] = cur
    BY <1>1 DEF IInv, AccountInv, OwnEntryNewest
  <2>2. Len(lru.order) \in DOMAIN lru.order
    BY <1>1, AccountFacts DEF IInv
  <2> QED BY <2>1, <2>2 DEF Entries, Members
<1> QED BY <1>1, InvariantHolds, PTL

\* A loop that ends while statfs works leaves the volume above the watermark of
\* its process, or nothing to evict.
LEMMA FloorStep == ASSUME IInv, [Next]_vars PROVE FloorHonoured
<1> SUFFICES ASSUME op = "evict", op' = "free", readable
             PROVE  lru'.order = <<>> \/ Free' >= minFree
  BY DEF FloorHonoured
<1>1. Evict
  BY DEF Next, Touch, Record, Forget, Restart, LoadOne, LoadDone, OutsideUse, StatfsTurns, vars
<1>2. EvictDone(FreeReading)
  BY <1>1, EvictCases DEF EvictOne
<1>3. lru.order = <<>> \/ ~OverLimit(Free)
  BY <1>2 DEF EvictDone, FreeReading
<1>4. lru' = lru /\ Free' = Free
  BY <1>2 DEF EvictDone, Free, OnDisk
<1>5. ASSUME ~OverLimit(Free) PROVE Free >= minFree
  <2>1. /\ OnDisk \in Int /\ others \in Int /\ Volume \in Int /\ minFree \in Nat
        /\ Free = Volume - others - OnDisk /\ others + OnDisk <= Volume
    BY DiskFacts, VolumeAssumption, LimitsAssumption
       DEF IInv, AccountInv, TypeOK, VolumeInv, VolumeFits
  <2>2. minFree = 0 \/ ~(Free < minFree)
    BY <1>5, <2>1 DEF OverLimit
  <2> QED BY <2>1, <2>2
<1> QED BY <1>3, <1>4, <1>5

\* An eviction is due to a limit that is exceeded by the real numbers.
LEMMA PurgeStep == ASSUME IInv, [Next]_vars PROVE NoFalsePurge
<1> SUFFICES ASSUME op = "evict", Len(lru'.order) < Len(lru.order), ~(restarts' > restarts)
             PROVE  (MaxBytes > 0 /\ lru.total > MaxBytes) \/ (minFree > 0 /\ Free < minFree)
  BY DEF NoFalsePurge
<1>1. Len(lru.order) \in Nat /\ restarts \in Int
  BY AccountFacts, RestartsAssumption DEF IInv, AccountInv, TypeOK
<1>2. lru' # lru /\ ~Restart
  BY <1>1 DEF Restart
<1>3. Evict
  BY <1>2 DEF Next, Touch, Record, Forget, LoadOne, LoadDone, OutsideUse, StatfsTurns, vars
<1>4. PICK removed \in BOOLEAN : EvictOne(FreeReading, removed)
  BY <1>2, <1>3, EvictCases DEF EvictDone
<1>5. OverLimit(FreeReading)
  BY <1>4 DEF EvictOne
<1>6. ~readable => ~(FreeReading < minFree)
  BY VolumeAssumption, LimitsAssumption DEF FreeReading, Plenty, IInv, AccountInv, TypeOK
<1>7. readable => FreeReading = Free
  BY DEF FreeReading
<1> QED BY <1>5, <1>6, <1>7 DEF OverLimit

\* At the end of Load the count is what is on disk: the entries are all the
\* files that take space, with their sizes.
LEMMA RebuildStep == ASSUME IInv, [Next]_vars PROVE AccountingRebuilt
<1> SUFFICES ASSUME op = "load", op' = "evict" PROVE lru'.total = OnDisk'
  BY DEF AccountingRebuilt
<1>1. LoadDone
  <2>1. ~Evict
    BY EvictCases DEF EvictOne, EvictDone
  <2> QED BY <2>1 DEF Next, Touch, Record, Forget, Restart, LoadOne, OutsideUse, StatfsTurns, vars
<1>2. lru' = lru /\ OnDisk' = OnDisk /\ seeds = <<>>
  BY <1>1 DEF LoadDone, OnDisk
<1>3. TypeOK /\ AccountOK(Keys, lru) /\ Exact(lru)
  BY AccountFacts DEF IInv, AccountInv
<1>4. Members(written) \subseteq Entries(lru) /\ \A k \in Entries(lru) : lru.size[k] = disk[k]
  BY <1>2 DEF IInv, VolumeInv, LoadSound, Members
<1>5. Entries(lru) \in SUBSET Keys /\ IsFiniteSet(Entries(lru))
  BY <1>3, EntriesFacts
<1>6. \A k \in Keys \ Entries(lru) : disk[k] = 0
  BY <1>4 DEF IInv, VolumeInv, DiskListed
<1>7. OnDisk = SumFunctionOnSet(disk, Entries(lru))
  BY <1>3, <1>5, <1>6, DiskFacts
<1>8. SumFunctionOnSet(lru.size, Entries(lru)) = SumFunctionOnSet(disk, Entries(lru))
  BY <1>4, <1>5, SumSame
<1> QED BY <1>2, <1>3, <1>7, <1>8 DEF Exact

\* The account and the volume: no step releases mu below the watermark of its
\* process when it could restore it, evicts without need, or ends a restart's
\* seeding with another count than what is on disk, with any number of files,
\* at any sizes and limits, with statfs and os.Remove failing at will.  A
\* process whose first statfs failed has no watermark (main.go).
THEOREM TierOneVolume == Spec => VolumeHonest
<1>1. ASSUME IInv, [Next]_vars PROVE FloorHonoured /\ NoFalsePurge /\ AccountingRebuilt
  BY <1>1, FloorStep, PurgeStep, RebuildStep
<1>2. IInv /\ [Next]_vars => [FloorHonoured /\ NoFalsePurge /\ AccountingRebuilt]_vars
  BY <1>1
<1> QED BY <1>2, InvariantHolds, PTL DEF Spec, VolumeHonest
-----------------------------------------------------------------------------
\* The replay of the placement study.

\* The greatest of finitely many naturals.
LEMMA MaxOK ==
    ASSUME NEW T \in SUBSET Nat, IsFiniteSet(T), T # {}
    PROVE  Max(T) \in T /\ Max(T) \in Nat /\ \A y \in T : y <= Max(T)
<1>1. PICK b \in Nat : \A y \in T : y <= b
  BY FiniteBounded
<1>2. \E x \in T : \A y \in T : y <= x
  BY <1>1, GreatestNatural
<1>3. \E x \in T : \A y \in T : x >= y
  BY <1>2
<1>4. Max(T) \in T /\ \A y \in T : Max(T) >= y
  BY <1>3 DEF Max
<1> QED BY <1>4

\* An upper bound that is in the set is its greatest.
LEMMA MaxIs ==
    ASSUME NEW T, NEW b \in T, \A y \in T : y \in Nat /\ y <= b
    PROVE  Max(T) = b
<1>1. Max(T) \in T /\ \A y \in T : Max(T) >= y
  BY DEF Max
<1> QED BY <1>1

\* The values of a function on a finite set are finitely many.
LEMMA ValuesFinite ==
    ASSUME NEW S, IsFiniteSet(S), NEW g
    PROVE  IsFiniteSet({ g[x] : x \in S })
<1> DEFINE h == [x \in S |-> g[x]]
           T == { g[x] : x \in S }
<1>1. h \in Surjection(S, T)
  BY DEF Surjection
<1> HIDE DEF h, T
<1>2. IsFiniteSet(T)
  BY <1>1, FS_Surjection
<1> QED BY <1>2 DEF T

\* flatten_manifest of a file that is in Xet.
LEMMA FlattenOK ==
    ASSUME NEW m \in Scraped, NEW f \in Files[m] \ {None}
    PROVE  /\ IsFiniteSet(DOMAIN flatten_manifest(f))
           /\ \A x \in DOMAIN flatten_manifest(f) : flatten_manifest(f)[x] \in Nat
<1> DEFINE D == { y \in DOMAIN f : f[y] # {} }
<1>1. IsFiniteSet(DOMAIN f) /\ \A x \in DOMAIN f : IsFiniteSet(f[x]) /\ f[x] \in SUBSET Nat
  BY FilesAssumption
<1>2. DOMAIN flatten_manifest(f) = D /\ \A x \in D : flatten_manifest(f)[x] = Max(f[x])
  BY DEF flatten_manifest
<1>3. IsFiniteSet(D)
  BY <1>1, FS_Subset
<1>4. \A x \in D : Max(f[x]) \in Nat
  BY <1>1, MaxOK
<1> QED BY <1>2, <1>3, <1>4

\* The xorbs of a revision are finitely many, with natural sizes.
LEMMA ScrapeOK ==
    ASSUME NEW m \in Scraped
    PROVE  /\ IsFiniteSet(DOMAIN scrape_revision(m))
           /\ \A x \in DOMAIN scrape_revision(m) : scrape_revision(m)[x] \in Nat
<1> DEFINE F == Files[m] \ {None}
           flat == [f \in F |-> flatten_manifest(f)]
           maps == { flatten_manifest(f) : f \in F }
           doms == { DOMAIN t : t \in maps }
           of(x) == { u \in maps : x \in DOMAIN u }
<1>1. IsFiniteSet(F)
  BY FilesAssumption, FS_Subset
<1>2. IsFiniteSet(maps)
  <2>1. IsFiniteSet({ flat[f] : f \in F })
    <3> HIDE DEF flat
    <3> QED BY <1>1, ValuesFinite
  <2>2. maps = { flat[f] : f \in F }
    OBVIOUS
  <2> HIDE DEF maps, flat
  <2> QED BY <2>1, <2>2
<1>3. \A t \in maps : IsFiniteSet(DOMAIN t) /\ \A x \in DOMAIN t : t[x] \in Nat
  BY FlattenOK
<1>4. scrape_revision(m) = [x \in UNION doms |-> Max({ t[x] : t \in of(x) })]
  BY DEF scrape_revision, merge_sizes
<1> HIDE DEF maps
<1>5. IsFiniteSet(UNION doms)
  <2> DEFINE domain == [t \in maps |-> DOMAIN t]
  <2>1. IsFiniteSet({ domain[t] : t \in maps })
    <3> HIDE DEF domain
    <3> QED BY <1>2, ValuesFinite
  <2>2. doms = { domain[t] : t \in maps }
    OBVIOUS
  <2>3. IsFiniteSet(doms)
    <3> HIDE DEF doms, domain
    <3> QED BY <2>1, <2>2
  <2>4. \A d \in doms : IsFiniteSet(d)
    BY <1>3
  <2> HIDE DEF doms
  <2> QED BY <2>3, <2>4, FS_UNION
<1>6. ASSUME NEW x \in UNION doms PROVE Max({ t[x] : t \in of(x) }) \in Nat
  <2> DEFINE at == [t \in of(x) |-> t[x]]
             vals == { t[x] : t \in of(x) }
  <2>1. IsFiniteSet(of(x))
    BY <1>2, FS_Subset
  <2>2. IsFiniteSet({ at[t] : t \in of(x) })
    <3> HIDE DEF at, of
    <3> QED BY <2>1, ValuesFinite
  <2>3. vals = { at[t] : t \in of(x) }
    OBVIOUS
  <2>4. vals \in SUBSET Nat /\ vals # {}
    BY <1>3
  <2>5. IsFiniteSet(vals)
    <3> HIDE DEF vals, at, of
    <3> QED BY <2>2, <2>3
  <2> HIDE DEF vals
  <2>6. Max(vals) \in Nat
    BY <2>4, <2>5, MaxOK
  <2> QED BY <2>6 DEF vals
<1> HIDE DEF doms, of
<1> QED BY <1>4, <1>5, <1>6

\* The rows of a revision.
LEMMA RowsOK ==
    ASSUME NEW m \in Scraped
    PROVE  /\ build_rows(m) \in Seq([key : DOMAIN scrape_revision(m), size : Nat])
           /\ \A i \in DOMAIN build_rows(m) :
                 build_rows(m)[i].size = scrape_revision(m)[build_rows(m)[i].key]
<1> DEFINE sizes == scrape_revision(m)
           D == DOMAIN sizes
           c == Cardinality(D)
           hashes == SetToSeq(D)
<1>1. IsFiniteSet(D) /\ \A x \in D : sizes[x] \in Nat
  BY ScrapeOK
<1>2. c \in Nat /\ ExistsBijection(1 .. c, D)
  BY <1>1, FS_CardinalityType
<1>3. \E f \in [1 .. c -> D] : IsInjective(f)
  BY <1>2 DEF ExistsBijection, Bijection, Injection
<1>4. hashes \in [1 .. c -> D]
  <2>1. hashes = CHOOSE f \in [1 .. c -> D] : IsInjective(f)
    BY DEF SetToSeq
  <2> HIDE DEF c, D, hashes
  <2> QED BY <1>3, <2>1, Zenon
<1>5. build_rows(m) = [i \in DOMAIN hashes |-> [key |-> hashes[i], size |-> sizes[hashes[i]]]]
  BY DEF build_rows
<1> HIDE DEF sizes, hashes, c
<1>6. DOMAIN hashes = 1 .. c /\ \A i \in 1 .. c : hashes[i] \in D /\ sizes[hashes[i]] \in Nat
  BY <1>1, <1>4
<1>7. build_rows(m) \in [1 .. c -> [key : D, size : Nat]]
  BY <1>5, <1>6
<1>8. build_rows(m) \in Seq([key : D, size : Nat])
  <2> DEFINE R == [key : D, size : Nat]
             rows == build_rows(m)
  <2> HIDE DEF R, rows
  <2>1. rows \in [1 .. c -> R] => rows \in Seq(R)
    BY <1>2
  <2> QED BY <1>7, <2>1 DEF R, rows
<1>9. \A i \in DOMAIN build_rows(m) : build_rows(m)[i].size = sizes[build_rows(m)[i].key]
  BY <1>5, <1>6
<1> QED BY <1>8, <1>9 DEF sizes

\* What kind of record a cell of the sweep is.
LEMMA SweepFacts ==
    ASSUME sweep \in Sweeps
    PROVE  /\ sweep.mode \in {"tier1", "tier2"} /\ sweep.scope \in {"host", "rack", "datacenter"}
           /\ sweep.capacity \in Nat /\ sweep.ttl \in Nat \cup {None} /\ sweep.racks \in BOOLEAN
           /\ sweep.hosts \subseteq DOMAIN GpuOf /\ sweep.length \in Nat
<1>1. sweep \in Sweep
  BY SweepsAssumption
<1> QED BY <1>1 DEF Sweep

\* Every key has a size ...
LEMMA ItemSizeOK ==
    ASSUME sweep \in Sweeps
    PROVE  \A k \in Items : ItemSize[k] \in Nat
<1> SUFFICES ASSUME NEW k \in Items PROVE ItemSize[k] \in Nat
  OBVIOUS
<1>1. CASE sweep.mode = "tier1"
  <2>1. k \in Models /\ ItemSize[k] = CHOOSE s \in SizeOf[k] : TRUE
    BY <1>1 DEF ItemSize, Items
  <2>2. SizeOf[k] \in SUBSET Nat /\ SizeOf[k] # {}
    <3>1. k \in Models
      BY <2>1
    <3> QED BY <3>1, ModelsAssumption
  <2>3. ItemSize[k] \in SizeOf[k]
    BY <2>1, <2>2
  <2> QED BY <2>2, <2>3
<1>2. CASE sweep.mode # "tier1"
  <2> DEFINE m == CHOOSE l \in Scraped : k \in DOMAIN scrape_revision(l)
  <2>1. \E l \in Scraped : k \in DOMAIN scrape_revision(l)
    BY <1>2 DEF Items
  <2>2. m \in Scraped /\ k \in DOMAIN scrape_revision(m)
    BY <2>1
  <2>3. ItemSize[k] = scrape_revision(m)[k]
    BY <1>2 DEF ItemSize
  <2> HIDE DEF m
  <2> QED BY <2>2, <2>3, ScrapeOK
<1> QED BY <1>1, <1>2

\* ... and what a start reads has it.
LEMMA ReadsOK ==
    ASSUME sweep \in Sweeps, NEW m \in Models, NEW s \in SizeOf[m]
    PROVE  /\ Reads(m, s) \in Seq([key : Items, size : Nat])
           /\ sweep.mode = "tier1" => Reads(m, s) = <<[key |-> m, size |-> s]>>
           /\ OneSize => \A i \in DOMAIN Reads(m, s) :
                            Reads(m, s)[i].size = ItemSize[Reads(m, s)[i].key]
<1>1. CASE sweep.mode = "tier1"
  <2> DEFINE r == [key |-> m, size |-> s]
  <2>1. Reads(m, s) = <<r>> /\ m \in Items /\ s \in Nat
    BY <1>1, ModelsAssumption DEF Reads, Items
  <2>2. r \in [key : Items, size : Nat] /\ r.key = m /\ r.size = s
    BY <2>1
  <2>5. ASSUME OneSize PROVE ItemSize[m] = s
    <3>1. ItemSize[m] = CHOOSE x \in SizeOf[m] : TRUE
      BY <1>1, <2>1 DEF ItemSize
    <3>2. ItemSize[m] \in SizeOf[m]
      BY <3>1
    <3>3. \A x, y \in SizeOf[m] : x = y
      BY <1>1, <2>5 DEF OneSize, SizesFixed
    <3> QED BY <3>2, <3>3
  <2> HIDE DEF r
  <2>3. DOMAIN <<r>> = {1} /\ <<r>>[1] = r
    OBVIOUS
  <2>4. <<r>> \in Seq([key : Items, size : Nat])
    BY <2>2
  <2>6. Reads(m, s) = <<[key |-> m, size |-> s]>>
    BY <2>1 DEF r
  <2>7. OneSize => \A i \in DOMAIN Reads(m, s) : Reads(m, s)[i].size = ItemSize[Reads(m, s)[i].key]
    BY <2>1, <2>2, <2>3, <2>5
  <2> QED BY <2>1, <2>4, <2>6, <2>7
<1>2. CASE sweep.mode # "tier1" /\ m \notin Scraped
  <2>1. Reads(m, s) = <<>>
    BY <1>2 DEF Reads, xorb_map
  <2> QED BY <1>2, <2>1
<1>3. CASE sweep.mode # "tier1" /\ m \in Scraped
  <2> DEFINE rows == build_rows(m)
             D == DOMAIN scrape_revision(m)
  <2>1. Reads(m, s) = rows
    BY <1>3 DEF Reads, xorb_map
  <2>2. /\ rows \in Seq([key : D, size : Nat])
        /\ \A i \in DOMAIN rows : rows[i].size = scrape_revision(m)[rows[i].key]
    BY <1>3, RowsOK
  <2>3. D \subseteq Items
    BY <1>3 DEF Items
  <2> HIDE DEF D, rows
  <2>4. \A i \in DOMAIN rows : rows[i].key \in D
    <3> DEFINE A == [key : D, size : Nat]
    <3>1. \A r \in A : r.key \in D
      OBVIOUS
    <3> HIDE DEF A
    <3>2. rows \in Seq(A) => \A i \in DOMAIN rows : rows[i] \in A
      OBVIOUS
    <3> QED BY <2>2, <3>1, <3>2 DEF A
  <2>5. rows \in Seq([key : Items, size : Nat])
    <3>1. [key : D, size : Nat] \subseteq [key : Items, size : Nat]
      BY <2>3
    <3> DEFINE A == [key : D, size : Nat]
               B == [key : Items, size : Nat]
    <3> HIDE DEF A, B
    <3>2. \A q \in Seq(A) : A \subseteq B => q \in Seq(B)
      OBVIOUS
    <3> QED BY <2>2, <3>1, <3>2 DEF A, B
  <2>6. ASSUME OneSize, NEW x \in D PROVE ItemSize[x] = scrape_revision(m)[x]
    <3> DEFINE o == CHOOSE l \in Scraped : x \in DOMAIN scrape_revision(l)
    <3>1. o \in Scraped /\ x \in DOMAIN scrape_revision(o)
      BY <1>3, <2>6 DEF D
    <3>2. ItemSize[x] = scrape_revision(o)[x]
      BY <1>3, <2>3, <2>6 DEF ItemSize
    <3>3. SizesAgree
      BY <1>3, <2>6 DEF OneSize
    <3> HIDE DEF o
    <3>4. scrape_revision(o)[x] = scrape_revision(m)[x]
      BY <1>3, <2>6, <3>1, <3>3, Zenon DEF SizesAgree, D
    <3> QED BY <3>2, <3>4
  <2> QED BY <1>3, <2>1, <2>2, <2>4, <2>5, <2>6
<1> QED BY <1>1, <1>2, <1>3
-----------------------------------------------------------------------------
\* A replay stays with its cell.
LEMMA SameCell ==
    ASSUME sweep' = sweep
    PROVE  /\ Nodes' = Nodes /\ Places' = Places /\ Pools' = Pools /\ Items' = Items
           /\ ItemSize' = ItemSize /\ OneSize' = OneSize
           /\ LogRow' = LogRow /\ ReadRow' = ReadRow
           /\ \A h : Node(h)' = Node(h) /\ scope_key(h)' = scope_key(h) /\ Pool(h)' = Pool(h)
<1>1. \A h : scope_key(h)' = scope_key(h) /\ Pool(h)' = Pool(h)
  BY DEF scope_key, Pool
<1>2. \A h : Node(h)' = Node(h)
  BY <1>1 DEF Node
<1>3. Nodes' = Nodes /\ Places' = Places
  BY <1>1, <1>2 DEF Nodes, Places
<1>4. Pools' = Pools
  BY <1>1 DEF Pools
<1>5. Items' = Items
  BY DEF Items
<1>6. ItemSize' = ItemSize /\ OneSize' = OneSize
  BY <1>5 DEF ItemSize, OneSize, SizesFixed
<1> QED BY <1>1, <1>2, <1>3, <1>4, <1>5, <1>6 DEF LogRow, ReadRow

\* The rows of the log.
LEMMA LogFacts ==
    ASSUME ReplayTypeOK
    PROVE  /\ Len(log) \in Nat /\ DOMAIN log = 1 .. Len(log) /\ Clock \in Nat
           /\ \A i \in DOMAIN log : /\ log[i].host \in sweep.hosts /\ log[i].model \in Models
                                    /\ log[i].ts \in Nat /\ log[i].seen \subseteq Places
           /\ log # <<>> => Len(log) \in DOMAIN log /\ Last(log) = log[Len(log)]
<1>1. \A r \in LogRow : r.host \in sweep.hosts /\ r.model \in Models /\ r.ts \in Nat /\ r.seen \subseteq Places
  BY DEF LogRow
<1>2. log \in Seq(LogRow)
  BY DEF ReplayTypeOK
<1>3. Len(log) \in Nat /\ DOMAIN log = 1 .. Len(log) /\ \A i \in DOMAIN log : log[i] \in LogRow
  BY <1>2
<1>4. log # <<>> => Len(log) \in DOMAIN log /\ Last(log) = log[Len(log)]
  BY <1>2 DEF Last
<1>5. Clock \in Nat
  BY <1>1, <1>3, <1>4 DEF Clock
<1> QED BY <1>1, <1>3, <1>4, <1>5

\* The reads; the last of them while its put runs.
LEMMA TouchFacts ==
    ASSUME ReplayTypeOK
    PROVE  /\ Len(touches) \in Nat /\ DOMAIN touches = 1 .. Len(touches)
           /\ \A i \in DOMAIN touches :
                 /\ touches[i] \in ReadRow
                 /\ touches[i].node \in Nodes /\ touches[i].key \in Items /\ touches[i].size \in Nat
                 /\ touches[i].ts \in Nat /\ touches[i].hit \in BOOLEAN /\ touches[i].start \in Nat
           /\ putting => /\ Len(touches) \in DOMAIN touches
                         /\ Last(touches) = touches[Len(touches)]
<1>1. \A r \in ReadRow : /\ r.node \in Nodes /\ r.key \in Items /\ r.size \in Nat
                          /\ r.ts \in Nat /\ r.hit \in BOOLEAN /\ r.start \in Nat
  BY DEF ReadRow
<1>2. touches \in Seq(ReadRow) /\ (putting => touches # <<>>)
  BY DEF ReplayTypeOK
<1>3. /\ Len(touches) \in Nat /\ DOMAIN touches = 1 .. Len(touches)
      /\ \A i \in DOMAIN touches : touches[i] \in ReadRow
  BY <1>2
<1>4. putting => Len(touches) \in DOMAIN touches /\ Last(touches) = touches[Len(touches)]
  BY <1>2 DEF Last
<1> QED BY <1>1, <1>3, <1>4

\* What get has to read, and where.
LEMMA GetFacts ==
    ASSUME ReplayTypeOK, Get
    PROVE  \E t \in ReadRow :
              LET c == caches[t.node]
                  has == t.key \in Entries(c)
                  stale == Stale(t.node, t.key, t.ts)
              IN  /\ t.node \in Nodes /\ t.key \in Items /\ t.size \in Nat /\ t.ts \in Nat
                  /\ t.node = Node(Last(log).host) /\ t.ts = Last(log).ts /\ t.start = Len(log)
                  /\ t.key = Head(todo).key /\ t.size = Head(todo).size
                  /\ t.hit <=> has /\ ~stale
                  /\ todo # <<>> /\ log # <<>> /\ ~putting /\ todo' = Tail(todo) /\ putting' = TRUE
                  /\ touches' = Append(touches, t)
                  /\ caches' = [caches EXCEPT ![t.node] = IF has /\ stale THEN Forgotten(c, t.key)
                                                         ELSE Touched(c, t.key)]
                  /\ UNCHANGED <<sweep, log, last_ts, warm, raised>>
<1> DEFINE node == Node(Last(log).host)
           now == Last(log).ts
           key == Head(todo).key
           hit == key \in Entries(caches[node]) /\ ~Stale(node, key, now)
           t == [node |-> node, key |-> key, size |-> Head(todo).size,
                 ts |-> now, hit |-> hit, start |-> Len(log)]
<1>1. todo # <<>> /\ log # <<>>
  BY DEF Get, ReplayTypeOK
<1>2. node \in Nodes /\ now \in Nat /\ Len(log) \in Nat
  BY <1>1, LogFacts DEF Nodes
<1>3. key \in Items /\ Head(todo).size \in Nat
  <2> DEFINE R == [key : Items, size : Nat]
  <2>1. todo \in Seq(R)
    BY DEF ReplayTypeOK
  <2>2. \A r \in R : r.key \in Items /\ r.size \in Nat
    OBVIOUS
  <2> HIDE DEF R
  <2>3. Head(todo) \in R
    BY <1>1, <2>1
  <2> QED BY <2>2, <2>3
<1> HIDE DEF node, now, key
<1>4. hit \in BOOLEAN
  OBVIOUS
<1>5. /\ touches' = Append(touches, t)
      /\ caches' = [caches EXCEPT ![node] = IF key \in Entries(caches[node]) /\ Stale(node, key, now)
                                            THEN Forgotten(caches[node], key)
                                            ELSE Touched(caches[node], key)]
  BY DEF Get, Evicted, node, now, key
<1> HIDE DEF hit
<1>6. t \in ReadRow
  BY <1>2, <1>3, <1>4 DEF ReadRow
<1>7. /\ t.node = node /\ t.key = key /\ t.size = Head(todo).size /\ t.ts = now /\ t.hit = hit
      /\ t.start = Len(log)
  OBVIOUS
<1> HIDE DEF t
<1>8. /\ ~putting /\ todo' = Tail(todo) /\ putting' = TRUE
      /\ UNCHANGED <<sweep, log, last_ts, warm, raised>>
  BY DEF Get
<1>9. t.hit <=> (t.key \in Entries(caches[t.node]) /\ ~Stale(t.node, t.key, t.ts))
  BY <1>7 DEF hit
<1> WITNESS t \in ReadRow
<1> QED BY <1>1, <1>2, <1>3, <1>5, <1>7, <1>8, <1>9 DEF node, now, key

\* What put has to store, and where; what it may do.
LEMMA PutFacts ==
    ASSUME ReplayTypeOK, PutAgain \/ PutTooBig \/ PutEvicts \/ PutNew
    PROVE  \E t \in ReadRow :
              LET c == caches[t.node]
                  noted == last_ts' = [last_ts EXCEPT ![t.node][t.key] = t.ts]
              IN  /\ t = Last(touches) /\ Len(touches) \in DOMAIN touches /\ t = touches[Len(touches)]
                  /\ t.node \in Nodes /\ t.key \in Items /\ t.size \in Nat /\ t.ts \in Nat
                  /\ putting /\ UNCHANGED <<sweep, log, todo, touches, warm>>
                  /\ \/ /\ t.key \in Entries(c) /\ noted /\ putting' = FALSE /\ raised' = raised
                        /\ caches' = [caches EXCEPT ![t.node] = Renewed(c, t.key, t.size)]
                     \/ /\ t.key \notin Entries(c) /\ t.size > sweep.capacity
                        /\ putting' = FALSE /\ UNCHANGED <<caches, last_ts, raised>>
                     \/ /\ t.key \notin Entries(c) /\ t.size <= sweep.capacity
                        /\ c.total + t.size > sweep.capacity
                        /\ UNCHANGED <<putting, last_ts>>
                        /\ c.order = <<>> => raised' = TRUE /\ caches' = caches
                        /\ c.order # <<>> =>
                              /\ raised' = raised
                              /\ caches' = [caches EXCEPT ![t.node] = Forgotten(c, Head(c.order))]
                     \/ /\ t.key \notin Entries(c) /\ t.size <= sweep.capacity
                        /\ c.total + t.size <= sweep.capacity
                        /\ noted /\ putting' = FALSE /\ raised' = raised
                        /\ caches' = [caches EXCEPT ![t.node] = Recorded(c, t.key, t.size)]
<1> DEFINE t == Last(touches)
<1>1. putting
  BY DEF PutAgain, PutTooBig, PutEvicts, PutNew
<1>2. /\ Len(touches) \in DOMAIN touches /\ t = touches[Len(touches)] /\ t \in ReadRow
      /\ t.node \in Nodes /\ t.key \in Items /\ t.size \in Nat /\ t.ts \in Nat
  BY <1>1, TouchFacts
<1>3. UNCHANGED <<sweep, log, todo, touches, warm>>
  BY DEF PutAgain, PutTooBig, PutEvicts, PutNew
<1> DEFINE c == caches[t.node]
           noted == last_ts' = [last_ts EXCEPT ![t.node][t.key] = t.ts]
           Again == /\ t.key \in Entries(c) /\ noted /\ putting' = FALSE /\ raised' = raised
                    /\ caches' = [caches EXCEPT ![t.node] = Renewed(c, t.key, t.size)]
           TooBig == /\ t.key \notin Entries(c) /\ t.size > sweep.capacity
                     /\ putting' = FALSE /\ UNCHANGED <<caches, last_ts, raised>>
           Evicts == /\ t.key \notin Entries(c) /\ t.size <= sweep.capacity
                     /\ c.total + t.size > sweep.capacity
                     /\ UNCHANGED <<putting, last_ts>>
                     /\ c.order = <<>> => raised' = TRUE /\ caches' = caches
                     /\ c.order # <<>> =>
                           /\ raised' = raised
                           /\ caches' = [caches EXCEPT ![t.node] = Forgotten(c, Head(c.order))]
           New == /\ t.key \notin Entries(c) /\ t.size <= sweep.capacity
                  /\ c.total + t.size <= sweep.capacity
                  /\ noted /\ putting' = FALSE /\ raised' = raised
                  /\ caches' = [caches EXCEPT ![t.node] = Recorded(c, t.key, t.size)]
<1>4. CASE PutAgain
  <2>1. Again
    BY <1>4 DEF PutAgain
  <2> QED BY <1>1, <1>2, <1>3, <2>1
<1>5. CASE PutTooBig
  <2>1. TooBig
    BY <1>5 DEF PutTooBig
  <2> QED BY <1>1, <1>2, <1>3, <2>1
<1>6. CASE PutEvicts
  <2>1. Evicts
    BY <1>6 DEF PutEvicts, Evicted
  <2> QED BY <1>1, <1>2, <1>3, <2>1
<1>7. CASE PutNew
  <2>1. New
    BY <1>7 DEF PutNew
  <2> QED BY <1>1, <1>2, <1>3, <2>1
<1> QED BY <1>4, <1>5, <1>6, <1>7

\* One cache changes.
LEMMA OneCache ==
    ASSUME ReplayTypeOK, NEW n \in Nodes, NEW c, caches' = [caches EXCEPT ![n] = c], sweep' = sweep
    PROVE  /\ caches' = [m \in Nodes' |-> caches'[m]] /\ caches'[n] = c
           /\ \A m \in Nodes : m # n => caches'[m] = caches[m]
<1>1. caches = [m \in Nodes |-> caches[m]] /\ Nodes' = Nodes
  BY SameCell DEF ReplayTypeOK
<1>2. DOMAIN caches = Nodes
  BY <1>1
<1> HIDE DEF Nodes
<1> QED BY <1>1, <1>2

\* put of an entry that is there: its size changes, the count does not.
LEMMA RenewedOK ==
    ASSUME NEW keys, NEW l, AccountOK(keys, l), NEW k \in keys, k \in Entries(l), NEW n \in Nat
    PROVE  /\ AccountOK(keys, Renewed(l, k, n))
           /\ Entries(Renewed(l, k, n)) = Entries(l)
           /\ Renewed(l, k, n).order = Newest(l.order, k)
           /\ Renewed(l, k, n).total = l.total
<1> DEFINE o == Newest(l.order, k)
           z == [l.size EXCEPT ![k] = n]
<1>1. o = MoveToBack(l.order, k)
  BY DEF Newest, Entries
<1>2. o \in Seq(keys) /\ Distinct(o) /\ Members(o) = Members(l.order) \cup {k}
  BY NewestOK DEF AccountOK
<1>3. z \in [keys -> Nat] /\ l.total \in Int
  BY DEF AccountOK
<1>4. Renewed(l, k, n) = [order |-> o, size |-> z, total |-> l.total]
  BY <1>1 DEF Renewed
<1> HIDE DEF o, z
<1>5. Renewed(l, k, n).order = o /\ Renewed(l, k, n).size = z /\ Renewed(l, k, n).total = l.total
  BY <1>4
<1>6. Entries(Renewed(l, k, n)) = Entries(l)
  BY <1>2, <1>5 DEF Entries
<1>7. AccountOK(keys, Renewed(l, k, n))
  BY <1>2, <1>3, <1>4, <1>5 DEF AccountOK
<1> QED BY <1>5, <1>6, <1>7 DEF o

\* The oldest entry is one.
LEMMA OldestIsEntry ==
    ASSUME NEW keys, NEW l, AccountOK(keys, l), l.order # <<>>
    PROVE  Head(l.order) \in keys /\ Head(l.order) \in Entries(l)
BY PoppedOK

\* The accounts stay accounts: a read ...
LEMMA GetAccounts ==
    ASSUME ReplayTypeOK, Get
    PROVE  caches' = [n \in Nodes' |-> caches'[n]] /\ \A n \in Nodes' : AccountOK(Items', caches'[n])
<1>1. PICK t \in ReadRow :
         LET c == caches[t.node]
         IN  /\ t.node \in Nodes /\ t.key \in Items /\ sweep' = sweep
             /\ caches' = [caches EXCEPT ![t.node] =
                              IF t.key \in Entries(c) /\ Stale(t.node, t.key, t.ts)
                              THEN Forgotten(c, t.key) ELSE Touched(c, t.key)]
  BY GetFacts
<1> DEFINE c == caches[t.node]
           d == IF t.key \in Entries(c) /\ Stale(t.node, t.key, t.ts) THEN Forgotten(c, t.key)
                ELSE Touched(c, t.key)
<1>2. \A n \in Nodes : AccountOK(Items, caches[n])
  BY DEF ReplayTypeOK
<1>3. AccountOK(Items, d)
  <2>1. AccountOK(Items, c)
    BY <1>1, <1>2
  <2> HIDE DEF c
  <2> QED BY <1>1, <2>1, ForgottenOK, TouchedOK
<1>4. caches' = [caches EXCEPT ![t.node] = d]
  BY <1>1
<1> HIDE DEF d
<1>5. /\ caches' = [m \in Nodes' |-> caches'[m]] /\ caches'[t.node] = d
      /\ \A m \in Nodes : m # t.node => caches'[m] = caches[m]
  BY <1>1, <1>4, OneCache
<1>6. Nodes' = Nodes /\ Items' = Items
  BY <1>1, SameCell
<1> QED BY <1>2, <1>3, <1>5, <1>6

\* ... and a put.
LEMMA PutAccounts ==
    ASSUME ReplayTypeOK, PutAgain \/ PutTooBig \/ PutEvicts \/ PutNew
    PROVE  caches' = [n \in Nodes' |-> caches'[n]] /\ \A n \in Nodes' : AccountOK(Items', caches'[n])
<1>1. PICK t \in ReadRow :
         LET c == caches[t.node]
         IN  /\ t.node \in Nodes /\ t.key \in Items /\ t.size \in Nat /\ sweep' = sweep
             /\ \/ caches' = caches
                \/ /\ t.key \in Entries(c)
                   /\ caches' = [caches EXCEPT ![t.node] = Renewed(c, t.key, t.size)]
                \/ /\ c.order # <<>>
                   /\ caches' = [caches EXCEPT ![t.node] = Forgotten(c, Head(c.order))]
                \/ caches' = [caches EXCEPT ![t.node] = Recorded(c, t.key, t.size)]
  BY PutFacts
<1>2. Nodes' = Nodes /\ Items' = Items
  BY <1>1, SameCell
<1>3. caches = [n \in Nodes |-> caches[n]] /\ \A n \in Nodes : AccountOK(Items, caches[n])
  BY DEF ReplayTypeOK
<1> DEFINE c == caches[t.node]
<1>4. AccountOK(Items, c)
  BY <1>1, <1>3
<1>5. ASSUME NEW d, AccountOK(Items, d), caches' = [caches EXCEPT ![t.node] = d]
      PROVE  caches' = [n \in Nodes' |-> caches'[n]] /\ \A n \in Nodes' : AccountOK(Items', caches'[n])
  <2>1. /\ caches' = [m \in Nodes' |-> caches'[m]] /\ caches'[t.node] = d
        /\ \A m \in Nodes : m # t.node => caches'[m] = caches[m]
    BY <1>1, <1>5, OneCache
  <2> QED BY <1>2, <1>3, <1>5, <2>1
<1>6. CASE caches' = caches
  BY <1>2, <1>3, <1>6
<1>7. CASE t.key \in Entries(c) /\ caches' = [caches EXCEPT ![t.node] = Renewed(c, t.key, t.size)]
  <2>1. AccountOK(Items, Renewed(c, t.key, t.size))
    <3> HIDE DEF c
    <3> QED BY <1>1, <1>4, <1>7, RenewedOK
  <2> QED BY <1>5, <1>7, <2>1
<1>8. CASE c.order # <<>> /\ caches' = [caches EXCEPT ![t.node] = Forgotten(c, Head(c.order))]
  <2>1. AccountOK(Items, Forgotten(c, Head(c.order)))
    <3> HIDE DEF c
    <3> QED BY <1>4, <1>8, OldestIsEntry, ForgottenOK
  <2> QED BY <1>5, <1>8, <2>1
<1>9. CASE caches' = [caches EXCEPT ![t.node] = Recorded(c, t.key, t.size)]
  <2>1. AccountOK(Items, Recorded(c, t.key, t.size))
    <3> HIDE DEF c
    <3> QED BY <1>1, <1>4, RecordedOK
  <2> QED BY <1>5, <1>9, <2>1
<1> QED BY <1>1, <1>6, <1>7, <1>8, <1>9

\* The nodes that the baseline counts as warm.
LEMMA SeenFacts ==
    ASSUME ReplayTypeOK, NEW pm \in Pools, NEW now
    PROVE  /\ DOMAIN Seen(pm, now) \subseteq DOMAIN warm[pm]
           /\ \A p \in DOMAIN warm[pm] :
                 p \in DOMAIN Seen(pm, now) <=> (sweep.ttl # None => now - warm[pm][p] <= sweep.ttl)
           /\ \A p \in DOMAIN Seen(pm, now) :
                 p \in Places /\ Seen(pm, now)[p] = warm[pm][p] /\ warm[pm][p] \in Nat
<1>1. \A p \in DOMAIN warm[pm] : p \in Places /\ warm[pm][p] \in Nat
  BY DEF ReplayTypeOK
<1>2. CASE sweep.ttl = None
  <2>1. Seen(pm, now) = warm[pm]
    BY <1>2 DEF Seen
  <2> QED BY <1>1, <1>2, <2>1
<1>3. CASE sweep.ttl # None
  <2> DEFINE W == { n \in DOMAIN warm[pm] : now - warm[pm][n] <= sweep.ttl }
  <2>1. Seen(pm, now) = [n \in W |-> warm[pm][n]]
    BY <1>3 DEF Seen, Restrict
  <2>2. DOMAIN Seen(pm, now) = W /\ \A n \in W : Seen(pm, now)[n] = warm[pm][n]
    BY <2>1
  <2> QED BY <1>1, <1>3, <2>2
<1> QED BY <1>2, <1>3

\* What a start leaves to read.
LEMMA StartTodo ==
    ASSUME ReplayTypeOK, NEW h \in sweep.hosts, NEW m \in Models, NEW d \in Delays, Start(h, m, d)
    PROVE  /\ todo' \in Seq([key : Items, size : Nat])
           /\ sweep.mode = "tier1" => \E s : todo' = <<[key |-> m, size |-> s]>>
           /\ OneSize => \A i \in DOMAIN todo' : todo'[i].size = ItemSize[todo'[i].key]
<1>1. PICK s \in SizeOf[m] : todo' = Reads(m, s)
  BY DEF Start
<1>2. sweep \in Sweeps
  BY DEF ReplayTypeOK
<1> QED BY <1>1, <1>2, ReadsOK

\* What a start adds to the log.
LEMMA StartFacts ==
    ASSUME ReplayTypeOK, NEW h \in sweep.hosts, NEW m \in Models, NEW d \in Delays, Start(h, m, d)
    PROVE  \E r \in LogRow :
              /\ r.host = h /\ r.model = m /\ r.ts = Clock + d /\ r.ts \in Nat /\ d \in Nat
              /\ sweep.mode = "tier1" => r.seen = DOMAIN Seen(<<Pool(h), m>>, r.ts)
              /\ todo = <<>> /\ ~putting /\ log' = Append(log, r)
              /\ sweep.mode = "tier2" => warm' = warm
              /\ sweep.mode = "tier1" =>
                    warm' = [warm EXCEPT ![<<Pool(h), m>>] =
                               Warmed(Seen(<<Pool(h), m>>, r.ts), scope_key(h), r.ts)]
              /\ UNCHANGED <<sweep, putting, caches, last_ts, touches, raised>>
<1> DEFINE now == Clock + d
           pm == <<Pool(h), m>>
           seen == IF sweep.mode = "tier1" THEN Seen(pm, now) ELSE <<>>
           r == [host |-> h, model |-> m, ts |-> now, seen |-> DOMAIN seen]
<1>1. now \in Nat /\ d \in Nat
  BY LogFacts, DelaysAssumption
<1>2. pm \in Pools
  BY DEF Pools
<1>3. DOMAIN seen \subseteq Places
  <2>1. CASE sweep.mode = "tier1"
    BY <1>2, <2>1, SeenFacts
  <2>2. CASE sweep.mode # "tier1"
    BY <2>2
  <2> QED BY <2>1, <2>2
<1>4. sweep.mode \in {"tier1", "tier2"}
  BY SweepFacts DEF ReplayTypeOK
<1>5. /\ todo = <<>> /\ ~putting /\ log' = Append(log, r)
      /\ warm' = IF sweep.mode = "tier2" THEN warm
                 ELSE [warm EXCEPT ![pm] = Warmed(seen, scope_key(h), now)]
      /\ UNCHANGED <<sweep, putting, caches, last_ts, touches, raised>>
  BY DEF Start
<1>6. sweep.mode = "tier1" => seen = Seen(pm, now)
  OBVIOUS
<1> HIDE DEF now, pm, seen
<1>7. r \in LogRow
  BY <1>1, <1>3 DEF LogRow
<1>8. r.host = h /\ r.model = m /\ r.ts = now /\ r.seen = DOMAIN seen
  OBVIOUS
<1> HIDE DEF r
<1> WITNESS r \in LogRow
<1> QED BY <1>1, <1>4, <1>5, <1>6, <1>8 DEF now, pm

\* The type of the state: at first, ...
LEMMA ReplayInitType == ReplayInit => ReplayTypeOK
<1> SUFFICES ASSUME ReplayInit PROVE ReplayTypeOK
  OBVIOUS
<1>1. caches = [n \in Nodes |-> caches[n]] /\ \A n \in Nodes : AccountOK(Items, caches[n])
  BY EmptyOK DEF ReplayInit
<1>2. last_ts \in [Nodes -> [Items -> Nat]]
  BY DEF ReplayInit
<1>3. DOMAIN warm = Pools /\ \A pm \in Pools : DOMAIN warm[pm] = {}
  BY DEF ReplayInit
<1>4. log = <<>> /\ todo = <<>> /\ touches = <<>> /\ putting = FALSE /\ raised = FALSE /\ sweep \in Sweeps
  BY DEF ReplayInit
<1>5. <<>> \in Seq(LogRow) /\ <<>> \in Seq(ReadRow) /\ <<>> \in Seq([key : Items, size : Nat])
  OBVIOUS
<1> QED BY <1>1, <1>2, <1>3, <1>4, <1>5 DEF ReplayTypeOK

\* ... after a start, ...
LEMMA StartType ==
    ASSUME ReplayTypeOK, NEW h \in sweep.hosts, NEW m \in Models, NEW d \in Delays, Start(h, m, d)
    PROVE  ReplayTypeOK'
<1> DEFINE pm == <<Pool(h), m>>
<1>1. PICK r \in LogRow :
         /\ r.ts \in Nat /\ log' = Append(log, r)
         /\ sweep.mode = "tier2" => warm' = warm
         /\ sweep.mode = "tier1" =>
               warm' = [warm EXCEPT ![pm] = Warmed(Seen(pm, r.ts), scope_key(h), r.ts)]
         /\ UNCHANGED <<sweep, putting, caches, last_ts, touches, raised>>
  BY StartFacts
<1>2. /\ Nodes' = Nodes /\ Places' = Places /\ Pools' = Pools /\ Items' = Items
      /\ LogRow' = LogRow /\ ReadRow' = ReadRow
  BY <1>1, SameCell
<1>3. log' \in Seq(LogRow) /\ log' # <<>>
  BY <1>1 DEF ReplayTypeOK
<1>4. todo' \in Seq([key : Items, size : Nat])
  BY StartTodo
<1>5. DOMAIN warm' = Pools /\ \A q \in Pools : \A p \in DOMAIN warm'[q] : p \in Places /\ warm'[q][p] \in Nat
  <2>1. DOMAIN warm = Pools /\ \A q \in Pools : \A p \in DOMAIN warm[q] : p \in Places /\ warm[q][p] \in Nat
    BY DEF ReplayTypeOK
  <2>2. CASE sweep.mode = "tier2"
    BY <1>1, <2>1, <2>2
  <2>3. CASE sweep.mode = "tier1"
    <3> DEFINE seen == Seen(pm, r.ts)
               place == scope_key(h)
               w == Warmed(seen, place, r.ts)
    <3>1. pm \in Pools /\ place \in Places
      BY DEF Pools, Places
    <3>2. \A p \in DOMAIN seen : p \in Places /\ seen[p] \in Nat
      BY <3>1, SeenFacts
    <3>3. w = [n \in DOMAIN seen \cup {place} |-> IF n = place THEN r.ts ELSE seen[n]]
      BY DEF Warmed
    <3> HIDE DEF w, seen, place
    <3>4. \A p \in DOMAIN w : p \in Places /\ w[p] \in Nat
      BY <1>1, <3>1, <3>2, <3>3
    <3>5. warm' = [warm EXCEPT ![pm] = w]
      BY <1>1, <2>3 DEF w, seen, place
    <3> HIDE DEF pm
    <3>6. DOMAIN warm' = Pools /\ \A q \in Pools : warm'[q] = IF q = pm THEN w ELSE warm[q]
      BY <2>1, <3>1, <3>5
    <3> QED BY <2>1, <3>4, <3>6
  <2>4. sweep.mode \in {"tier1", "tier2"}
    BY SweepFacts DEF ReplayTypeOK
  <2> QED BY <2>2, <2>3, <2>4
<1>6. \A n \in Nodes : AccountOK(Items, caches[n])
  BY DEF ReplayTypeOK
<1> QED BY <1>1, <1>2, <1>3, <1>4, <1>5, <1>6 DEF ReplayTypeOK

\* ... after a get ...
LEMMA GetType == ASSUME ReplayTypeOK, Get PROVE ReplayTypeOK'
<1>1. PICK t \in ReadRow :
         /\ todo # <<>> /\ log # <<>> /\ todo' = Tail(todo) /\ putting' = TRUE
         /\ touches' = Append(touches, t)
         /\ UNCHANGED <<sweep, log, last_ts, warm, raised>>
  BY GetFacts
<1>2. /\ Nodes' = Nodes /\ Places' = Places /\ Pools' = Pools /\ Items' = Items
      /\ LogRow' = LogRow /\ ReadRow' = ReadRow
  BY <1>1, SameCell
<1>3. touches' \in Seq(ReadRow) /\ touches' # <<>>
  BY <1>1 DEF ReplayTypeOK
<1>4. todo' \in Seq([key : Items, size : Nat])
  <2> DEFINE R == [key : Items, size : Nat]
  <2>1. todo \in Seq(R)
    BY DEF ReplayTypeOK
  <2> HIDE DEF R
  <2>2. Tail(todo) \in Seq(R)
    BY <1>1, <2>1
  <2> QED BY <1>1, <2>2 DEF R
<1>5. caches' = [n \in Nodes' |-> caches'[n]] /\ \A n \in Nodes' : AccountOK(Items', caches'[n])
  BY GetAccounts
<1> QED BY <1>1, <1>2, <1>3, <1>4, <1>5 DEF ReplayTypeOK

\* ... and in a put.
LEMMA PutType ==
    ASSUME ReplayTypeOK, PutAgain \/ PutTooBig \/ PutEvicts \/ PutNew PROVE ReplayTypeOK'
<1>1. PICK t \in ReadRow :
         /\ t.node \in Nodes /\ t.key \in Items /\ t.ts \in Nat
         /\ putting /\ UNCHANGED <<sweep, log, todo, touches, warm>>
         /\ putting' \in {putting, FALSE} /\ raised' \in {raised, TRUE}
         /\ last_ts' = last_ts \/ last_ts' = [last_ts EXCEPT ![t.node][t.key] = t.ts]
  BY PutFacts
<1>2. /\ Nodes' = Nodes /\ Places' = Places /\ Pools' = Pools /\ Items' = Items
      /\ LogRow' = LogRow /\ ReadRow' = ReadRow
  BY <1>1, SameCell
<1>3. last_ts' \in [Nodes -> [Items -> Nat]]
  <2>1. last_ts \in [Nodes -> [Items -> Nat]]
    BY DEF ReplayTypeOK
  <2>2. [last_ts EXCEPT ![t.node][t.key] = t.ts] \in [Nodes -> [Items -> Nat]]
    BY <1>1, <2>1
  <2> QED BY <1>1, <2>1, <2>2
<1>4. caches' = [n \in Nodes' |-> caches'[n]] /\ \A n \in Nodes' : AccountOK(Items', caches'[n])
  BY PutAccounts
<1>5. putting' \in BOOLEAN /\ (putting' => touches' # <<>>) /\ raised' \in BOOLEAN
  <2>1. putting \in BOOLEAN /\ touches # <<>> /\ raised \in BOOLEAN
    BY <1>1 DEF ReplayTypeOK
  <2>2. touches' # <<>>
    BY <1>1, <2>1
  <2>3. putting' \in BOOLEAN
    BY <1>1, <2>1
  <2>4. raised' \in BOOLEAN
    BY <1>1, <2>1
  <2> QED BY <2>2, <2>3, <2>4
<1> QED BY <1>1, <1>2, <1>3, <1>4, <1>5 DEF ReplayTypeOK
-----------------------------------------------------------------------------
\* A row is added.
LEMMA RowAdded ==
    ASSUME NEW S, NEW rows \in Seq(S), NEW r \in S
    PROVE  LET more == Append(rows, r)
           IN  /\ Len(more) = Len(rows) + 1 /\ DOMAIN more = 1 .. Len(rows) + 1
               /\ more[Len(rows) + 1] = r
               /\ \A i \in 1 .. Len(rows) : more[i] = rows[i]
OBVIOUS

\* The clock is not behind the log.
LEMMA ClockIsLast ==
    ASSUME ReplayTypeOK, LogSorted
    PROVE  \A i \in DOMAIN log : log[i].ts \in Nat /\ log[i].ts <= Clock
<1> SUFFICES ASSUME NEW i \in DOMAIN log PROVE log[i].ts \in Nat /\ log[i].ts <= Clock
  OBVIOUS
<1>1. /\ Len(log) \in Nat /\ DOMAIN log = 1 .. Len(log) /\ log[i].ts \in Nat
      /\ log # <<>> => Len(log) \in DOMAIN log /\ Last(log) = log[Len(log)]
  BY LogFacts
<1>2. log # <<>> /\ i <= Len(log)
  BY <1>1
<1>3. Clock = log[Len(log)].ts
  BY <1>1, <1>2 DEF Clock
<1> QED BY <1>1, <1>2, <1>3 DEF LogSorted

\* A start comes last in the log.
LEMMA StartLog ==
    ASSUME ReplayTypeOK, LogSorted, NEW r \in LogRow, NEW d \in Nat,
           r.ts = Clock + d, log' = Append(log, r), sweep' = sweep
    PROVE  /\ Len(log) \in Nat /\ DOMAIN log = 1 .. Len(log) /\ DOMAIN log' = 1 .. Len(log) + 1
           /\ Len(log') = Len(log) + 1
           /\ \A i \in DOMAIN log : log'[i] = log[i] /\ log[i].ts \in Nat /\ log[i].ts <= Clock
           /\ log'[Len(log) + 1] = r /\ r.ts \in Nat /\ Clock \in Nat /\ Clock <= r.ts
           /\ Clock' = r.ts /\ LogSorted'
<1>1. Len(log) \in Nat /\ DOMAIN log = 1 .. Len(log) /\ Clock \in Nat
  BY LogFacts
<1>2. /\ Len(log') = Len(log) + 1 /\ DOMAIN log' = 1 .. Len(log) + 1
      /\ log'[Len(log) + 1] = r
      /\ \A i \in DOMAIN log : log'[i] = log[i]
  BY <1>1, RowAdded DEF ReplayTypeOK
<1>3. \A i \in DOMAIN log : log[i].ts \in Nat /\ log[i].ts <= Clock
  BY ClockIsLast
<1>4. r.ts \in Nat /\ Clock <= r.ts
  BY <1>1
<1>5. Clock' = r.ts
  <2>1. log' # <<>>
    BY <1>1, <1>2
  <2>2. Last(log') = r
    BY <1>2 DEF Last
  <2> QED BY <2>1, <2>2 DEF Clock
<1>6. LogSorted'
  <2> SUFFICES ASSUME NEW i \in DOMAIN log', NEW j \in DOMAIN log', i <= j
               PROVE  log'[i].ts <= log'[j].ts
    BY DEF LogSorted
  <2>1. CASE j \in DOMAIN log
    <3>1. i \in DOMAIN log
      BY <1>1, <1>2, <2>1
    <3> QED BY <1>2, <2>1, <3>1 DEF LogSorted
  <2>2. CASE j = Len(log) + 1 /\ i \in DOMAIN log
    BY <1>1, <1>2, <1>3, <1>4, <2>2
  <2>3. CASE j = Len(log) + 1 /\ i = Len(log) + 1
    BY <1>2, <1>4, <2>3
  <2> QED BY <1>1, <1>2, <2>1, <2>2, <2>3
<1> QED BY <1>1, <1>2, <1>3, <1>4, <1>5, <1>6

\* The starts on a place, with one more.
LEMMA StartedStep ==
    ASSUME ReplayTypeOK, LogSorted, NEW r \in LogRow, NEW d \in Nat,
           r.ts = Clock + d, log' = Append(log, r), sweep' = sweep,
           NEW pool, NEW m, NEW p
    PROVE  /\ Started(pool, m, p) \subseteq DOMAIN log
           /\ Started(pool, m, p)' = Started(pool, m, p) \cup
                 (IF r.model = m /\ Pool(r.host) = pool /\ scope_key(r.host) = p
                  THEN {Len(log) + 1} ELSE {})
<1> DEFINE S == Started(pool, m, p)
           ok(x) == x.model = m /\ Pool(x.host) = pool /\ scope_key(x.host) = p
           n == Len(log) + 1
<1>1. /\ Len(log) \in Nat /\ DOMAIN log = 1 .. Len(log) /\ DOMAIN log' = 1 .. n
      /\ \A i \in DOMAIN log : log'[i] = log[i]
      /\ log'[n] = r
  BY StartLog
<1>2. S = { j \in DOMAIN log : ok(log[j]) }
  BY DEF Started
<1>3. S' = { j \in DOMAIN log' : ok(log'[j]) }
  BY SameCell DEF Started
<1> HIDE DEF ok
<1>4. 1 .. n = (1 .. Len(log)) \cup {n}
  BY <1>1
<1>5. S' = S \cup (IF ok(r) THEN {n} ELSE {})
  <2> HIDE DEF n, S
  <2> QED BY <1>1, <1>2, <1>3, <1>4
<1> QED BY <1>2, <1>5 DEF ok

\* The baseline's loop keeps the last start on each warm node.
LEMMA StartWarm ==
    ASSUME ReplayTypeOK, LogSorted, WarmSound,
           NEW h \in sweep.hosts, NEW m \in Models, NEW d \in Delays, Start(h, m, d)
    PROVE  WarmSound'
<1> DEFINE pm == <<Pool(h), m>>
           place == scope_key(h)
<1>1. PICK r \in LogRow :
         /\ r.host = h /\ r.model = m /\ r.ts = Clock + d /\ d \in Nat /\ log' = Append(log, r)
         /\ sweep.mode = "tier1" =>
               warm' = [warm EXCEPT ![pm] = Warmed(Seen(pm, r.ts), place, r.ts)]
         /\ sweep' = sweep
  BY StartFacts
<1>2. /\ \A i \in DOMAIN log : log'[i] = log[i] /\ log[i].ts \in Nat /\ log[i].ts <= Clock
      /\ log'[Len(log) + 1] = r /\ r.ts \in Nat /\ Clock \in Nat /\ Clock <= r.ts
      /\ Clock' = r.ts
  BY <1>1, StartLog
<1>3. \A x : Pool(x)' = Pool(x)
  BY <1>1, SameCell
<1>4. sweep.hosts' = sweep.hosts /\ Places' = Places
  BY <1>1, SameCell
<1> SUFFICES ASSUME sweep.mode = "tier1", NEW g \in sweep.hosts, NEW l \in Models, NEW p \in Places
             PROVE  LET w == warm'[<<Pool(g), l>>]
                        S == Started(Pool(g), l, p)'
                    IN  IF p \in DOMAIN w
                        THEN (\E j \in S : log'[j].ts = w[p]) /\ \A j \in S : log'[j].ts <= w[p]
                        ELSE \A j \in S : sweep.ttl # None /\ Clock' - log'[j].ts > sweep.ttl
  BY <1>1, <1>3, <1>4 DEF WarmSound
<1> DEFINE v == warm[<<Pool(g), l>>]
           w == warm'[<<Pool(g), l>>]
           R == Started(Pool(g), l, p)
           S == Started(Pool(g), l, p)'
           seen == Seen(pm, r.ts)
<1>5. /\ R \subseteq DOMAIN log
      /\ S = R \cup (IF m = l /\ Pool(h) = Pool(g) /\ place = p THEN {Len(log) + 1} ELSE {})
  BY <1>1, StartedStep
<1>6. IF p \in DOMAIN v
      THEN (\E j \in R : log[j].ts = v[p]) /\ \A j \in R : log[j].ts <= v[p]
      ELSE \A j \in R : sweep.ttl # None /\ Clock - log[j].ts > sweep.ttl
  BY DEF WarmSound
<1>7. sweep.ttl # None => sweep.ttl \in Nat
  BY SweepFacts DEF ReplayTypeOK
<1>8. pm \in Pools /\ <<Pool(g), l>> \in Pools /\ DOMAIN warm = Pools
  BY DEF Pools, ReplayTypeOK
<1>9. \A j \in R : log'[j].ts = log[j].ts /\ log[j].ts \in Nat
  BY <1>2, <1>5
<1>10. CASE <<Pool(g), l>> # pm
  <2>1. w = v
    <3> HIDE DEF pm
    <3> QED BY <1>1, <1>8, <1>10
  <2>2. S = R
    BY <1>5, <1>10
  <2> HIDE DEF w, v, R, S
  <2>3. ASSUME p \in DOMAIN v
        PROVE  (\E j \in S : log'[j].ts = v[p]) /\ \A j \in S : log'[j].ts <= v[p]
    BY <1>6, <1>9, <2>2, <2>3
  <2>4. ASSUME p \notin DOMAIN v
        PROVE  \A j \in S : sweep.ttl # None /\ Clock' - log'[j].ts > sweep.ttl
    BY <1>2, <1>6, <1>7, <1>9, <2>2, <2>4
  <2>5. IF p \in DOMAIN w
        THEN (\E j \in S : log'[j].ts = w[p]) /\ \A j \in S : log'[j].ts <= w[p]
        ELSE \A j \in S : sweep.ttl # None /\ Clock' - log'[j].ts > sweep.ttl
    BY <2>1, <2>3, <2>4
  <2> QED BY <2>5 DEF w, S
<1>11. CASE <<Pool(g), l>> = pm
  <2>1. Pool(g) = Pool(h) /\ l = m /\ v = warm[pm]
    BY <1>11
  <2>2. w = Warmed(seen, place, r.ts)
    BY <1>1, <1>8, <1>11
  <2>3. DOMAIN w = DOMAIN seen \cup {place} /\ w[place] = r.ts /\ \A q \in DOMAIN seen : q # place => w[q] = seen[q]
    BY <2>2 DEF Warmed
  <2>4. /\ DOMAIN seen \subseteq DOMAIN v
        /\ \A q \in DOMAIN v : q \in DOMAIN seen <=> (sweep.ttl # None => r.ts - v[q] <= sweep.ttl)
        /\ \A q \in DOMAIN seen : seen[q] = v[q]
        /\ \A q \in DOMAIN v : v[q] \in Nat
    <3>1. /\ DOMAIN seen \subseteq DOMAIN warm[pm]
          /\ \A q \in DOMAIN warm[pm] :
                q \in DOMAIN seen <=> (sweep.ttl # None => r.ts - warm[pm][q] <= sweep.ttl)
          /\ \A q \in DOMAIN seen : seen[q] = warm[pm][q]
      BY <1>8, SeenFacts
    <3>2. \A q \in DOMAIN warm[pm] : warm[pm][q] \in Nat
      BY <1>8 DEF ReplayTypeOK
    <3> HIDE DEF v, seen, pm
    <3> QED BY <2>1, <3>1, <3>2
  <2> HIDE DEF w, v, R, S, seen, place, pm
  <2>5. CASE p = place
    <3>1. S = R \cup {Len(log) + 1} /\ w[p] = r.ts /\ p \in DOMAIN w
      BY <1>5, <2>1, <2>3, <2>5
    <3>2. \A j \in R : log'[j].ts <= r.ts
      <4> TAKE j \in R
      <4>1. log[j].ts <= Clock
        BY <1>2, <1>5
      <4> QED BY <1>2, <1>9, <4>1
    <3>3. log'[Len(log) + 1].ts = r.ts
      BY <1>2
    <3>4. (\E j \in S : log'[j].ts = w[p]) /\ \A j \in S : log'[j].ts <= w[p]
      BY <1>2, <3>1, <3>2, <3>3
    <3> QED BY <3>1, <3>4 DEF w, S
  <2>6. CASE p # place
    <3>1. S = R
      BY <1>5, <2>6
    <3>2. CASE p \in DOMAIN seen
      <4>1. p \in DOMAIN w /\ p \in DOMAIN v /\ w[p] = v[p]
        BY <2>3, <2>4, <2>6, <3>2
      <4>2. (\E j \in S : log'[j].ts = w[p]) /\ \A j \in S : log'[j].ts <= w[p]
        BY <1>6, <1>9, <3>1, <4>1
      <4> QED BY <4>1, <4>2 DEF w, S
    <3>3. CASE p \notin DOMAIN seen
      <4>1. p \notin DOMAIN w
        BY <2>3, <2>6, <3>3
      <4>2. \A j \in S : sweep.ttl # None /\ r.ts - log[j].ts > sweep.ttl
        <5>1. CASE p \in DOMAIN v
          <6>1. sweep.ttl # None /\ ~(r.ts - v[p] <= sweep.ttl) /\ v[p] \in Nat
            BY <2>4, <3>3, <5>1
          <6>2. \A j \in R : log[j].ts <= v[p]
            BY <1>6, <5>1
          <6> QED BY <1>2, <1>7, <1>9, <3>1, <6>1, <6>2
        <5>2. CASE p \notin DOMAIN v
          BY <1>2, <1>6, <1>7, <1>9, <3>1, <5>2
        <5> QED BY <5>1, <5>2
      <4>3. \A j \in S : sweep.ttl # None /\ Clock' - log'[j].ts > sweep.ttl
        BY <1>2, <1>9, <3>1, <4>2
      <4> QED BY <4>1, <4>3 DEF w, S
    <3> QED BY <3>2, <3>3
  <2> QED BY <2>5, <2>6
<1> QED BY <1>10, <1>11

\* What the baseline sees as warm is what was started within the TTL.
LEMMA StartSeen ==
    ASSUME ReplayTypeOK, LogSorted, WarmSound, SeenSound,
           NEW h \in sweep.hosts, NEW m \in Models, NEW d \in Delays, Start(h, m, d)
    PROVE  SeenSound'
<1> DEFINE pm == <<Pool(h), m>>
           n == Len(log) + 1
<1>1. PICK r \in LogRow :
         /\ r.host = h /\ r.model = m /\ r.ts = Clock + d /\ d \in Nat /\ log' = Append(log, r)
         /\ sweep.mode = "tier1" => r.seen = DOMAIN Seen(pm, r.ts)
         /\ sweep' = sweep
  BY StartFacts
<1>2. /\ Len(log) \in Nat /\ DOMAIN log = 1 .. Len(log) /\ DOMAIN log' = 1 .. n
      /\ \A i \in DOMAIN log : log'[i] = log[i] /\ log[i].ts \in Nat /\ log[i].ts <= Clock
      /\ log'[n] = r /\ r.ts \in Nat /\ Clock \in Nat /\ Clock <= r.ts
  BY <1>1, StartLog
<1>3. Places' = Places /\ \A x : Pool(x)' = Pool(x) /\ scope_key(x)' = scope_key(x)
  BY <1>1, SameCell
<1> SUFFICES ASSUME sweep.mode = "tier1", NEW i \in DOMAIN log'
             PROVE  log'[i].seen = { p \in Places : Recent(i, p)' # {} }
  BY <1>1, <1>3 DEF SeenSound
<1>4. CASE i \in DOMAIN log
  <2>1. i - 1 <= Len(log) /\ \A j \in 1 .. i - 1 : log'[j] = log[j]
    BY <1>2, <1>4
  <2>2. log'[i] = log[i]
    BY <1>2, <1>4
  <2>3. \A p : Recent(i, p)' = Recent(i, p)
    BY <1>1, <1>3, <2>1, <2>2 DEF Recent
  <2>4. log[i].seen = { p \in Places : Recent(i, p) # {} }
    BY <1>4 DEF SeenSound
  <2> QED BY <2>2, <2>3, <2>4
<1>5. CASE i = n
  <2>1. log'[i] = r
    BY <1>2, <1>5
  <2> DEFINE w == warm[pm]
             S(p) == Started(Pool(h), m, p)
  <2>2. ASSUME NEW p PROVE Recent(i, p)' = { j \in S(p) : sweep.ttl # None => r.ts - log[j].ts <= sweep.ttl }
    <3> DEFINE ok(x, y) == /\ x.model = y.model /\ Pool(x.host) = Pool(y.host) /\ scope_key(x.host) = p
                           /\ sweep.ttl # None => y.ts - x.ts <= sweep.ttl
    <3>1. i - 1 = Len(log)
      BY <1>2, <1>5
    <3>2. Recent(i, p)' = { j \in 1 .. i - 1 : ok(log'[j], log'[i]) }
      BY <1>1, <1>3 DEF Recent
    <3>3. { j \in 1 .. i - 1 : ok(log'[j], log'[i]) } = { j \in DOMAIN log : ok(log[j], r) }
      <4> HIDE DEF ok
      <4> QED BY <1>2, <2>1, <3>1
    <3>4. \A j \in DOMAIN log : ok(log[j], r) <=> (j \in S(p) /\ (sweep.ttl # None => r.ts - log[j].ts <= sweep.ttl))
      BY <1>1 DEF Started
    <3>5. S(p) \subseteq DOMAIN log
      BY DEF Started
    <3> HIDE DEF S, ok
    <3> QED BY <3>2, <3>3, <3>4, <3>5
  <2>3. pm \in Pools
    BY DEF Pools
  <2>4. /\ DOMAIN Seen(pm, r.ts) \subseteq DOMAIN w
        /\ \A p \in DOMAIN w : p \in DOMAIN Seen(pm, r.ts) <=> (sweep.ttl # None => r.ts - w[p] <= sweep.ttl)
        /\ \A p \in DOMAIN w : p \in Places /\ w[p] \in Nat
    BY <2>3, SeenFacts DEF ReplayTypeOK
  <2>5. \A p \in Places :
           IF p \in DOMAIN w
           THEN (\E j \in S(p) : log[j].ts = w[p]) /\ \A j \in S(p) : log[j].ts <= w[p]
           ELSE \A j \in S(p) : sweep.ttl # None /\ Clock - log[j].ts > sweep.ttl
    BY DEF WarmSound
  <2>6. \A p : S(p) \subseteq DOMAIN log
    BY DEF Started
  <2>7. sweep.ttl # None => sweep.ttl \in Nat
    BY SweepFacts DEF ReplayTypeOK
  <2>8. r.seen = DOMAIN Seen(pm, r.ts)
    BY <1>1
  <2> HIDE DEF w, S, pm
  <2>9. ASSUME NEW p \in Places PROVE p \in r.seen <=> Recent(i, p)' # {}
    <3>1. \A j \in S(p) : log[j].ts \in Nat /\ log[j].ts <= Clock
      BY <1>2, <2>6
    <3>2. CASE p \in r.seen
      <4>1. p \in DOMAIN w /\ (sweep.ttl # None => r.ts - w[p] <= sweep.ttl)
        BY <2>4, <2>8, <3>2
      <4>2. PICK j \in S(p) : log[j].ts = w[p]
        BY <2>5, <4>1
      <4>3. j \in Recent(i, p)'
        BY <2>2, <4>1, <4>2
      <4> QED BY <3>2, <4>3
    <3>3. CASE p \notin r.seen
      <4>1. \A j \in S(p) : sweep.ttl # None /\ r.ts - log[j].ts > sweep.ttl
        <5>1. CASE p \in DOMAIN w
          <6>1. sweep.ttl # None /\ ~(r.ts - w[p] <= sweep.ttl) /\ w[p] \in Nat
            BY <2>4, <2>8, <3>3, <5>1
          <6>2. \A j \in S(p) : log[j].ts <= w[p]
            BY <2>5, <5>1
          <6> QED BY <1>2, <2>7, <3>1, <6>1, <6>2
        <5>2. CASE p \notin DOMAIN w
          <6>1. \A j \in S(p) : sweep.ttl # None /\ Clock - log[j].ts > sweep.ttl
            BY <2>5, <5>2
          <6> QED BY <1>2, <2>7, <3>1, <6>1
        <5> QED BY <5>1, <5>2
      <4>2. Recent(i, p)' = {}
        BY <1>2, <2>2, <2>7, <3>1, <4>1
      <4> QED BY <3>3, <4>2
    <3> QED BY <3>2, <3>3
  <2>10. r.seen \subseteq Places
    BY <2>4, <2>8
  <2> QED BY <2>1, <2>9, <2>10
<1> QED BY <1>2, <1>4, <1>5
-----------------------------------------------------------------------------
\* Nothing that is said of the log changes while it is read.
LEMMA SameLog ==
    ASSUME sweep' = sweep, log' = log, warm' = warm
    PROVE  /\ LogSorted => LogSorted'
           /\ WarmSound => WarmSound'
           /\ SeenSound => SeenSound'
<1>1. Places' = Places /\ \A x : Pool(x)' = Pool(x) /\ scope_key(x)' = scope_key(x)
  BY SameCell
<1>2. Clock' = Clock
  BY DEF Clock
<1>3. \A pool, m, p : Started(pool, m, p)' = Started(pool, m, p)
  BY <1>1 DEF Started
<1>4. \A i, p : Recent(i, p)' = Recent(i, p)
  BY <1>1 DEF Recent
<1>5. LogSorted => LogSorted'
  BY DEF LogSorted
<1>6. WarmSound => WarmSound'
  <2> HIDE DEF Clock
  <2> SUFFICES ASSUME WarmSound, sweep.mode = "tier1", NEW h \in sweep.hosts, NEW m \in Models, NEW p \in Places
               PROVE  LET w == warm'[<<Pool(h), m>>]
                          S == Started(Pool(h), m, p)'
                      IN  IF p \in DOMAIN w
                          THEN (\E j \in S : log'[j].ts = w[p]) /\ \A j \in S : log'[j].ts <= w[p]
                          ELSE \A j \in S : sweep.ttl # None /\ Clock' - log'[j].ts > sweep.ttl
    BY <1>1 DEF WarmSound
  <2>1. LET w == warm[<<Pool(h), m>>]
            S == Started(Pool(h), m, p)
        IN  IF p \in DOMAIN w
            THEN (\E j \in S : log[j].ts = w[p]) /\ \A j \in S : log[j].ts <= w[p]
            ELSE \A j \in S : sweep.ttl # None /\ Clock - log[j].ts > sweep.ttl
    BY DEF WarmSound
  <2> QED BY <1>2, <1>3, <2>1
<1>7. SeenSound => SeenSound'
  BY <1>1, <1>4 DEF SeenSound
<1> QED BY <1>5, <1>6, <1>7

\* A read belongs to the start that is being replayed.
LEMMA StartReads ==
    ASSUME ReplayTypeOK, LogSorted, ReadsOfStarts,
           NEW h \in sweep.hosts, NEW m \in Models, NEW d \in Delays, Start(h, m, d)
    PROVE  ReadsOfStarts'
<1>1. PICK r \in LogRow :
         /\ r.host = h /\ r.model = m /\ r.ts = Clock + d /\ d \in Nat
         /\ sweep.mode = "tier1" => r.seen = DOMAIN Seen(<<Pool(h), m>>, r.ts)
         /\ log' = Append(log, r)
         /\ UNCHANGED <<sweep, putting, caches, last_ts, touches, raised>>
  BY StartFacts
<1>2. /\ Len(log) \in Nat /\ DOMAIN log = 1 .. Len(log) /\ DOMAIN log' = 1 .. Len(log) + 1
      /\ Len(log') = Len(log) + 1
      /\ \A i \in DOMAIN log : log'[i] = log[i]
      /\ log'[Len(log) + 1] = r
  BY <1>1, StartLog
<1>3. \A x : Node(x)' = Node(x)
  BY <1>1, SameCell
<1>4. ASSUME NEW t \in DOMAIN touches'
      PROVE  LET s == log'[touches'[t].start]
             IN  /\ touches'[t].start \in DOMAIN log'
                 /\ touches'[t].node = Node(s.host) /\ touches'[t].ts = s.ts
                 /\ sweep.mode = "tier1" => touches'[t].key = s.model
  <2> DEFINE i == touches[t].start
  <2>1. /\ i \in DOMAIN log /\ touches[t].node = Node(log[i].host) /\ touches[t].ts = log[i].ts
        /\ sweep.mode = "tier1" => touches[t].key = log[i].model
    BY <1>1, <1>4 DEF ReadsOfStarts
  <2>2. i \in DOMAIN log' /\ log'[i] = log[i]
    BY <1>2, <2>1
  <2> QED BY <1>1, <2>1, <2>2
<1>5. ASSUME sweep.mode = "tier1"
      PROVE  /\ \A t, u \in DOMAIN touches' : t < u => touches'[t].start < touches'[u].start
             /\ Head(todo').key = Last(log').model /\ Tail(todo') = <<>>
             /\ \A t \in DOMAIN touches' : touches'[t].start < Len(log')
  <2>1. \A t, u \in DOMAIN touches' : t < u => touches'[t].start < touches'[u].start
    BY <1>1, <1>5 DEF ReadsOfStarts
  <2>2. Last(log').model = m
    BY <1>1, <1>2 DEF Last
  <2>3. PICK s : todo' = <<[key |-> m, size |-> s]>>
    BY <1>5, StartTodo
  <2>4. Head(todo').key = m /\ Tail(todo') = <<>>
    BY <2>3
  <2>5. \A t \in DOMAIN touches' : touches'[t].start < Len(log')
    <3> TAKE t \in DOMAIN touches'
    <3>1. touches[t].start \in DOMAIN log
      BY <1>1 DEF ReadsOfStarts
    <3> QED BY <1>1, <1>2, <3>1
  <2> QED BY <2>1, <2>2, <2>4, <2>5
<1> QED BY <1>1, <1>3, <1>4, <1>5 DEF ReadsOfStarts

\* What get adds to the reads.
LEMMA GetReads ==
    ASSUME ReplayTypeOK, ReadsOfStarts, Get
    PROVE  ReadsOfStarts'
<1>1. PICK t \in ReadRow :
         /\ t.node = Node(Last(log).host) /\ t.ts = Last(log).ts /\ t.start = Len(log)
         /\ t.key = Head(todo).key
         /\ todo # <<>> /\ log # <<>> /\ todo' = Tail(todo)
         /\ touches' = Append(touches, t) /\ UNCHANGED <<sweep, log>>
  BY GetFacts
<1> DEFINE n == Len(touches)
<1>2. n \in Nat /\ DOMAIN touches = 1 .. n
  BY TouchFacts
<1>3. DOMAIN touches' = 1 .. n + 1 /\ touches'[n + 1] = t /\ \A i \in 1 .. n : touches'[i] = touches[i]
  BY <1>1, <1>2, RowAdded DEF ReplayTypeOK
<1>4. Len(log) \in DOMAIN log /\ Last(log) = log[Len(log)] /\ Len(log) \in Nat
  BY <1>1, LogFacts
<1>5. \A x : Node(x)' = Node(x)
  BY <1>1, SameCell
<1>6. ASSUME NEW u \in DOMAIN touches'
      PROVE  LET s == log'[touches'[u].start]
             IN  /\ touches'[u].start \in DOMAIN log'
                 /\ touches'[u].node = Node(s.host) /\ touches'[u].ts = s.ts
                 /\ sweep.mode = "tier1" => touches'[u].key = s.model
  <2>1. CASE u \in DOMAIN touches
    <3>1. /\ touches[u].start \in DOMAIN log
          /\ touches[u].node = Node(log[touches[u].start].host)
          /\ touches[u].ts = log[touches[u].start].ts
          /\ sweep.mode = "tier1" => touches[u].key = log[touches[u].start].model
      BY <2>1 DEF ReadsOfStarts
    <3>2. touches'[u] = touches[u]
      BY <1>2, <1>3, <2>1
    <3> QED BY <1>1, <3>1, <3>2
  <2>2. CASE u = n + 1
    <3>1. touches'[u] = t
      BY <1>3, <2>2
    <3>2. sweep.mode = "tier1" => t.key = Last(log).model
      BY <1>1 DEF ReadsOfStarts
    <3> QED BY <1>1, <1>4, <3>1, <3>2
  <2> QED BY <1>2, <1>3, <2>1, <2>2
<1>7. ASSUME sweep.mode = "tier1"
      PROVE  todo' = <<>> /\ \A u, v \in DOMAIN touches' : u < v => touches'[u].start < touches'[v].start
  <2>1. todo' = <<>> /\ \A u \in DOMAIN touches : touches[u].start < Len(log)
    BY <1>1, <1>7 DEF ReadsOfStarts
  <2>2. ASSUME NEW u \in DOMAIN touches', NEW v \in DOMAIN touches', u < v
        PROVE  touches'[u].start < touches'[v].start
    <3>1. u \in DOMAIN touches /\ touches'[u] = touches[u]
      BY <1>2, <1>3, <2>2
    <3>2. CASE v \in DOMAIN touches
      <4>1. touches'[v] = touches[v]
        BY <1>2, <1>3, <3>2
      <4> QED BY <1>7, <2>2, <3>1, <3>2, <4>1 DEF ReadsOfStarts
    <3>3. CASE v = n + 1
      BY <1>1, <1>3, <2>1, <3>1, <3>3
    <3> QED BY <1>2, <1>3, <3>2, <3>3
  <2> QED BY <2>1, <2>2
<1> QED BY <1>1, <1>5, <1>6, <1>7 DEF ReadsOfStarts
-----------------------------------------------------------------------------
\* The last read of a key.
LEMMA LastReadOK ==
    ASSUME NEW n, NEW k, NEW i \in Nat, Prior(n, k, i) # {}
    PROVE  /\ LastRead(n, k, i) \in Prior(n, k, i) /\ LastRead(n, k, i) \in 1 .. i - 1
           /\ \A j \in Prior(n, k, i) : j <= LastRead(n, k, i)
<1>1. Prior(n, k, i) \in SUBSET (1 .. i - 1)
  BY DEF Prior
<1>2. IsFiniteSet(1 .. i - 1)
  BY FS_Interval
<1>3. IsFiniteSet(Prior(n, k, i))
  BY <1>1, <1>2, FS_Subset
<1>4. Prior(n, k, i) \in SUBSET Nat
  BY <1>1
<1>5. Max(Prior(n, k, i)) \in Prior(n, k, i) /\ \A j \in Prior(n, k, i) : j <= Max(Prior(n, k, i))
  BY <1>3, <1>4, MaxOK
<1> QED BY <1>1, <1>5 DEF LastRead

\* A read more: it is the last one of its key, and nothing else changes.
LEMMA ReadAdded ==
    ASSUME ReplayTypeOK, NEW t \in ReadRow, touches' = Append(touches, t)
    PROVE  /\ Here \in Nat /\ Here' = Here + 1 /\ Here = Len(touches) + 1
           /\ DOMAIN touches = 1 .. Here - 1 /\ DOMAIN touches' = 1 .. Here
           /\ touches'[Here] = t /\ \A i \in 1 .. Here - 1 : touches'[i] = touches[i]
           /\ Last(touches') = t
           /\ \A n, k : \A i \in 1 .. Here : Prior(n, k, i)' = Prior(n, k, i)
           /\ \A n, k : \A i \in 1 .. Here : LastRead(n, k, i)' = LastRead(n, k, i)
           /\ \A n, k : (t.node = n /\ t.key = k) =>
                 Prior(n, k, Here)' = Prior(n, k, Here) \cup {Here} /\ LastRead(n, k, Here)' = Here
           /\ \A n, k : ~(t.node = n /\ t.key = k) =>
                 /\ Prior(n, k, Here)' = Prior(n, k, Here)
                 /\ LastRead(n, k, Here)' = LastRead(n, k, Here)
<1> DEFINE h == Len(touches) + 1
<1>1. Len(touches) \in Nat /\ DOMAIN touches = 1 .. Len(touches)
  BY TouchFacts
<1>2. /\ Len(touches') = h /\ DOMAIN touches' = 1 .. h /\ touches'[h] = t
      /\ \A i \in 1 .. h - 1 : touches'[i] = touches[i]
  BY <1>1, RowAdded DEF ReplayTypeOK
<1>3. Last(touches') = t
  BY <1>2 DEF Last
<1>4. h \in Nat /\ Here = h /\ Here' = h + 1
  BY <1>1, <1>2 DEF Here
<1>5. ASSUME NEW n, NEW k, NEW i \in 1 .. h PROVE Prior(n, k, i)' = Prior(n, k, i)
  <2>1. \A j \in 1 .. i - 1 : touches'[j] = touches[j]
    BY <1>1, <1>2, <1>5
  <2> QED BY <2>1 DEF Prior
<1>6. ASSUME NEW n, NEW k
      PROVE  Prior(n, k, Here)' = Prior(n, k, h) \cup (IF t.node = n /\ t.key = k THEN {h} ELSE {})
  <2> DEFINE ok(x) == x.node = n /\ x.key = k
  <2>1. Prior(n, k, Here)' = { j \in 1 .. (h + 1) - 1 : ok(touches'[j]) }
    BY <1>4 DEF Prior
  <2>2. Prior(n, k, h) = { j \in 1 .. h - 1 : ok(touches[j]) }
    BY DEF Prior
  <2>3. 1 .. (h + 1) - 1 = (1 .. h - 1) \cup {h} /\ h \notin 1 .. h - 1
    BY <1>4
  <2> HIDE DEF ok, h
  <2>4. Prior(n, k, Here)' = Prior(n, k, h) \cup (IF ok(t) THEN {h} ELSE {})
    BY <1>2, <2>1, <2>2, <2>3
  <2> QED BY <2>4 DEF ok
<1>7. \A n, k : \A i \in 1 .. h : LastRead(n, k, i)' = LastRead(n, k, i)
  BY <1>5 DEF LastRead
<1>8. ASSUME NEW n, NEW k, ~(t.node = n /\ t.key = k)
      PROVE  Prior(n, k, Here)' = Prior(n, k, Here) /\ LastRead(n, k, Here)' = LastRead(n, k, Here)
  <2> DEFINE P == Prior(n, k, Here)'
             Q == Prior(n, k, h)
  <2>1. P = Q \cup (IF t.node = n /\ t.key = k THEN {h} ELSE {})
    BY <1>6
  <2>2. P = Q
    <3> HIDE DEF P, Q, h
    <3> QED BY <1>8, <2>1
  <2>3. Prior(n, k, Here)' = Prior(n, k, Here)
    BY <1>4, <2>2
  <2> QED BY <2>3 DEF LastRead
<1>9. ASSUME NEW n, NEW k, t.node = n /\ t.key = k
      PROVE  Prior(n, k, Here)' = Prior(n, k, Here) \cup {Here} /\ LastRead(n, k, Here)' = Here
  <2> DEFINE P == Prior(n, k, Here)'
  <2>1. P = Prior(n, k, h) \cup {h}
    BY <1>6, <1>9
  <2>2. Prior(n, k, h) \subseteq 1 .. h - 1
    BY DEF Prior
  <2>3. \A j \in P : j \in Nat /\ j <= h
    BY <1>4, <2>1, <2>2
  <2>4. h \in P
    BY <2>1
  <2> HIDE DEF P, h
  <2>5. Max(P) = h
    BY <2>3, <2>4, MaxIs
  <2>6. LastRead(n, k, Here)' = Max(P)
    BY DEF LastRead, P
  <2> QED BY <1>4, <2>1, <2>5, <2>6 DEF P
<1> HIDE DEF h
<1> QED BY <1>1, <1>2, <1>3, <1>4, <1>5, <1>7, <1>8, <1>9 DEF h

\* What get does to the entries: at most the key that is read goes.
LEMMA GetEntries ==
    ASSUME ReplayTypeOK, Get
    PROVE  \E t \in ReadRow :
              /\ t.node \in Nodes /\ t.key \in Items /\ t.ts \in Nat
              /\ t.hit <=> (t.key \in Entries(caches[t.node]) /\ ~Stale(t.node, t.key, t.ts))
              /\ ~putting /\ putting' = TRUE /\ touches' = Append(touches, t)
              /\ sweep' = sweep /\ log' = log /\ last_ts' = last_ts /\ warm' = warm
              /\ \A n \in Nodes : Entries(caches'[n]) \subseteq Entries(caches[n])
              /\ \A n \in Nodes : n # t.node => caches'[n] = caches[n]
<1>1. PICK t \in ReadRow :
         LET c == caches[t.node]
         IN  /\ t.node \in Nodes /\ t.key \in Items /\ t.ts \in Nat
             /\ t.hit <=> t.key \in Entries(c) /\ ~Stale(t.node, t.key, t.ts)
             /\ ~putting /\ putting' = TRUE /\ touches' = Append(touches, t)
             /\ caches' = [caches EXCEPT ![t.node] =
                              IF t.key \in Entries(c) /\ Stale(t.node, t.key, t.ts)
                              THEN Forgotten(c, t.key) ELSE Touched(c, t.key)]
             /\ UNCHANGED <<sweep, log, last_ts, warm, raised>>
  BY GetFacts
<1> DEFINE c == caches[t.node]
           d == IF t.key \in Entries(c) /\ Stale(t.node, t.key, t.ts) THEN Forgotten(c, t.key)
                ELSE Touched(c, t.key)
<1>2. AccountOK(Items, c)
  BY <1>1 DEF ReplayTypeOK
<1>3. Entries(d) \subseteq Entries(c)
  <2>1. t.key \in Items
    BY <1>1
  <2> HIDE DEF c
  <2>2. Entries(Touched(c, t.key)) = Entries(c)
    BY <1>2, <2>1, TouchedOK
  <2>3. Entries(Forgotten(c, t.key)) \subseteq Entries(c)
    BY <1>2, <2>1, ForgottenOK
  <2> QED BY <2>2, <2>3
<1>4. caches' = [caches EXCEPT ![t.node] = d]
  BY <1>1
<1> HIDE DEF d
<1>5. caches'[t.node] = d /\ \A m \in Nodes : m # t.node => caches'[m] = caches[m]
  BY <1>1, <1>4, OneCache
<1>6. \A n \in Nodes : Entries(caches'[n]) \subseteq Entries(caches[n])
  BY <1>3, <1>5
<1> WITNESS t \in ReadRow
<1> QED BY <1>1, <1>5, <1>6

\* What put does to the entries and their times: the key that is put may come,
\* with the time of the read; others may go.
LEMMA PutEntries ==
    ASSUME ReplayTypeOK, PutAgain \/ PutTooBig \/ PutEvicts \/ PutNew
    PROVE  \E t \in ReadRow :
              /\ t = Last(touches) /\ Len(touches) \in DOMAIN touches /\ t = touches[Len(touches)]
              /\ t.node \in Nodes /\ t.key \in Items /\ t.size \in Nat /\ t.ts \in Nat
              /\ putting /\ sweep' = sweep /\ log' = log /\ todo' = todo /\ touches' = touches /\ warm' = warm
              /\ \A n \in Nodes : \A k \in Entries(caches'[n]) :
                    \/ k \in Entries(caches[n]) /\ ~(n = t.node /\ k = t.key) /\ last_ts'[n][k] = last_ts[n][k]
                    \/ n = t.node /\ k = t.key /\ putting' = FALSE /\ last_ts'[n][k] = t.ts
              /\ putting' = putting =>
                    \A n \in Nodes : ~(t.key \in Entries(caches'[n]) /\ n = t.node)
<1>1. PICK t \in ReadRow :
         LET c == caches[t.node]
             noted == last_ts' = [last_ts EXCEPT ![t.node][t.key] = t.ts]
         IN  /\ t = Last(touches) /\ Len(touches) \in DOMAIN touches /\ t = touches[Len(touches)]
             /\ t.node \in Nodes /\ t.key \in Items /\ t.size \in Nat /\ t.ts \in Nat
             /\ putting /\ UNCHANGED <<sweep, log, todo, touches, warm>>
             /\ \/ /\ t.key \in Entries(c) /\ noted /\ putting' = FALSE
                   /\ caches' = [caches EXCEPT ![t.node] = Renewed(c, t.key, t.size)]
                \/ /\ t.key \notin Entries(c) /\ UNCHANGED <<caches, last_ts>>
                \/ /\ t.key \notin Entries(c) /\ c.order # <<>> /\ UNCHANGED <<putting, last_ts>>
                   /\ caches' = [caches EXCEPT ![t.node] = Forgotten(c, Head(c.order))]
                \/ /\ t.key \notin Entries(c) /\ noted /\ putting' = FALSE
                   /\ caches' = [caches EXCEPT ![t.node] = Recorded(c, t.key, t.size)]
  BY PutFacts
<1> DEFINE c == caches[t.node]
           Kept(n, k) == k \in Entries(caches[n]) /\ ~(n = t.node /\ k = t.key) /\ last_ts'[n][k] = last_ts[n][k]
           Noted(n, k) == n = t.node /\ k = t.key /\ putting' = FALSE /\ last_ts'[n][k] = t.ts
<1>2. AccountOK(Items, c) /\ \A n \in Nodes : AccountOK(Items, caches[n])
  BY <1>1 DEF ReplayTypeOK
<1>3. last_ts \in [Nodes -> [Items -> Nat]]
  BY DEF ReplayTypeOK
<1>4. \A n \in Nodes : Entries(caches[n]) \subseteq Items
  BY <1>2, EntriesFacts
<1>5. putting \in BOOLEAN
  BY DEF ReplayTypeOK
<1>6. ASSUME NEW e, Entries(e) \subseteq Entries(c) \cup {t.key}, caches' = [caches EXCEPT ![t.node] = e],
             last_ts' = [last_ts EXCEPT ![t.node][t.key] = t.ts], putting' = FALSE
      PROVE  /\ \A n \in Nodes : \A k \in Entries(caches'[n]) : Kept(n, k) \/ Noted(n, k)
             /\ putting' # putting
  <2>1. caches'[t.node] = e /\ \A n \in Nodes : n # t.node => caches'[n] = caches[n]
    BY <1>1, <1>6, OneCache
  <2>2. putting' # putting
    BY <1>1, <1>6
  <2>3. ASSUME NEW n \in Nodes, NEW k \in Entries(caches'[n]) PROVE Kept(n, k) \/ Noted(n, k)
    <3>1. CASE n = t.node /\ k = t.key
      BY <1>1, <1>3, <1>6, <3>1
    <3>2. CASE ~(n = t.node /\ k = t.key)
      <4>1. k \in Entries(caches[n])
        BY <1>6, <2>1, <2>3, <3>2
      <4>2. k \in Items
        BY <1>4, <4>1
      <4>3. last_ts'[n][k] = last_ts[n][k]
        BY <1>1, <1>3, <1>6, <3>2, <4>2
      <4> QED BY <3>2, <4>1, <4>3
    <3> QED BY <3>1, <3>2
  <2> QED BY <2>2, <2>3
<1>7. ASSUME NEW e, Entries(e) \subseteq Entries(c), t.key \notin Entries(c),
             caches'[t.node] = e, \A n \in Nodes : n # t.node => caches'[n] = caches[n], last_ts' = last_ts
      PROVE  /\ \A n \in Nodes : \A k \in Entries(caches'[n]) : Kept(n, k) \/ Noted(n, k)
             /\ \A n \in Nodes : ~(t.key \in Entries(caches'[n]) /\ n = t.node)
  <2>1. \A n \in Nodes : Entries(caches'[n]) \subseteq Entries(caches[n])
    BY <1>7
  <2>2. \A n \in Nodes : ~(t.key \in Entries(caches'[n]) /\ n = t.node)
    BY <1>7
  <2> QED BY <1>7, <2>1, <2>2
<1>8. CASE /\ t.key \in Entries(c) /\ last_ts' = [last_ts EXCEPT ![t.node][t.key] = t.ts] /\ putting' = FALSE
           /\ caches' = [caches EXCEPT ![t.node] = Renewed(c, t.key, t.size)]
  <2>1. Entries(Renewed(c, t.key, t.size)) = Entries(c)
    <3> DEFINE k == t.key
               z == t.size
    <3>1. k \in Items /\ z \in Nat /\ k \in Entries(c)
      BY <1>1, <1>8
    <3>2. AccountOK(Items, c)
      BY <1>2
    <3> HIDE DEF c, k, z
    <3>3. Entries(Renewed(c, k, z)) = Entries(c)
      BY <3>1, <3>2, RenewedOK
    <3> QED BY <3>3 DEF k, z
  <2>2. /\ \A n \in Nodes : \A k \in Entries(caches'[n]) : Kept(n, k) \/ Noted(n, k)
        /\ putting' # putting
    BY <1>6, <1>8, <2>1
  <2> QED BY <1>1, <2>2
<1>9. CASE t.key \notin Entries(c) /\ UNCHANGED <<caches, last_ts>>
  <2>1. /\ \A n \in Nodes : \A k \in Entries(caches'[n]) : Kept(n, k) \/ Noted(n, k)
        /\ \A n \in Nodes : ~(t.key \in Entries(caches'[n]) /\ n = t.node)
    BY <1>7, <1>9
  <2> QED BY <1>1, <2>1
<1>10. CASE /\ t.key \notin Entries(c) /\ c.order # <<>> /\ UNCHANGED <<putting, last_ts>>
            /\ caches' = [caches EXCEPT ![t.node] = Forgotten(c, Head(c.order))]
  <2> DEFINE e == Forgotten(c, Head(c.order))
  <2>1. Entries(e) \subseteq Entries(c)
    <3> HIDE DEF c
    <3>1. Head(c.order) \in Items
      BY <1>2, <1>10, OldestIsEntry
    <3> QED BY <1>2, <3>1, ForgottenOK
  <2>2. caches' = [caches EXCEPT ![t.node] = e]
    BY <1>10
  <2> HIDE DEF e
  <2>3. caches'[t.node] = e /\ \A n \in Nodes : n # t.node => caches'[n] = caches[n]
    BY <1>1, <2>2, OneCache
  <2>4. /\ \A n \in Nodes : \A k \in Entries(caches'[n]) : Kept(n, k) \/ Noted(n, k)
        /\ \A n \in Nodes : ~(t.key \in Entries(caches'[n]) /\ n = t.node)
    BY <1>7, <1>10, <2>1, <2>3
  <2> QED BY <1>1, <2>4
<1>11. CASE /\ last_ts' = [last_ts EXCEPT ![t.node][t.key] = t.ts] /\ putting' = FALSE
            /\ caches' = [caches EXCEPT ![t.node] = Recorded(c, t.key, t.size)]
  <2>1. Entries(Recorded(c, t.key, t.size)) = Entries(c) \cup {t.key}
    <3> HIDE DEF c
    <3> QED BY <1>1, <1>2, RecordedOK
  <2>2. /\ \A n \in Nodes : \A k \in Entries(caches'[n]) : Kept(n, k) \/ Noted(n, k)
        /\ putting' # putting
    BY <1>6, <1>11, <2>1
  <2> QED BY <1>1, <2>2
<1> QED BY <1>1, <1>8, <1>9, <1>10, <1>11

\* An entry keeps the time of its last read: in a get ...
LEMMA GetStamp ==
    ASSUME ReplayTypeOK, StampSound, HitSound, Get
    PROVE  StampSound' /\ HitSound'
<1>1. PICK t \in ReadRow :
         /\ t.node \in Nodes /\ t.key \in Items /\ t.ts \in Nat
         /\ t.hit <=> (t.key \in Entries(caches[t.node]) /\ ~Stale(t.node, t.key, t.ts))
         /\ ~putting /\ putting' = TRUE /\ touches' = Append(touches, t)
         /\ sweep' = sweep /\ last_ts' = last_ts
         /\ \A n \in Nodes : Entries(caches'[n]) \subseteq Entries(caches[n])
  BY GetEntries
<1>2. /\ Here \in Nat /\ Here = Len(touches) + 1
      /\ DOMAIN touches = 1 .. Here - 1 /\ DOMAIN touches' = 1 .. Here
      /\ touches'[Here] = t /\ \A i \in 1 .. Here - 1 : touches'[i] = touches[i]
      /\ Last(touches') = t
  BY <1>1, ReadAdded
<1>3. Nodes' = Nodes
  BY <1>1, SameCell
<1>4. \A n, k : ~Pending(n, k)
  BY <1>1 DEF Pending
<1>5. ASSUME NEW n \in Nodes, NEW k \in Entries(caches'[n])
      PROVE  /\ Prior(n, k, Here)' # {}
             /\ ~Pending(n, k)' => last_ts'[n][k] = touches'[LastRead(n, k, Here)'].ts
  <2>1. k \in Entries(caches[n])
    BY <1>1, <1>5
  <2>2. Prior(n, k, Here) # {} /\ last_ts[n][k] = touches[LastRead(n, k, Here)].ts
    BY <1>4, <2>1 DEF StampSound
  <2>3. CASE t.node = n /\ t.key = k
    <3>1. Prior(n, k, Here)' = Prior(n, k, Here) \cup {Here}
      BY <1>1, <2>3, ReadAdded
    <3>2. Pending(n, k)'
      BY <1>1, <1>2, <2>3 DEF Pending
    <3> QED BY <3>1, <3>2
  <2>4. CASE ~(t.node = n /\ t.key = k)
    <3>1. Prior(n, k, Here)' = Prior(n, k, Here) /\ LastRead(n, k, Here)' = LastRead(n, k, Here)
      BY <1>1, <2>4, ReadAdded
    <3>2. LastRead(n, k, Here) \in 1 .. Here - 1
      BY <1>2, <2>2, LastReadOK
    <3> QED BY <1>1, <1>2, <2>2, <3>1, <3>2
  <2> QED BY <2>3, <2>4
<1>6. StampSound'
  BY <1>3, <1>5 DEF StampSound
<1>7. ASSUME NEW i \in DOMAIN touches', touches'[i].hit
      PROVE  \E j \in 1 .. i - 1 :
                /\ touches'[j].node = touches'[i].node /\ touches'[j].key = touches'[i].key
                /\ sweep.ttl # None => touches'[i].ts - touches'[j].ts <= sweep.ttl
  <2>1. i \in 1 .. Here /\ i \in Nat /\ \A j \in 1 .. i - 1 : touches'[j] = touches[j]
    BY <1>2, <1>7
  <2>2. CASE i # Here
    <3>1. i \in DOMAIN touches /\ touches'[i] = touches[i]
      BY <1>2, <2>1, <2>2
    <3>2. PICK j \in Prior(touches[i].node, touches[i].key, i) :
             sweep.ttl # None => touches[i].ts - touches[j].ts <= sweep.ttl
      BY <1>7, <3>1 DEF HitSound
    <3>3. j \in 1 .. i - 1 /\ touches[j].node = touches[i].node /\ touches[j].key = touches[i].key
      BY <3>2 DEF Prior
    <3>4. touches'[j] = touches[j]
      BY <2>1, <3>3
    <3> QED BY <3>1, <3>2, <3>3, <3>4
  <2>3. CASE i = Here
    <3>1. touches'[i] = t
      BY <1>2, <2>3
    <3> DEFINE j == LastRead(t.node, t.key, i)
    <3>2. t.key \in Entries(caches[t.node]) /\ ~Stale(t.node, t.key, t.ts)
      BY <1>1, <1>7, <3>1
    <3>3. Prior(t.node, t.key, i) # {} /\ last_ts[t.node][t.key] = touches[j].ts
      BY <1>1, <1>4, <2>3, <3>2 DEF StampSound
    <3>4. j \in Prior(t.node, t.key, i)
      BY <2>1, <3>3, LastReadOK
    <3>5. j \in 1 .. i - 1 /\ touches[j].node = t.node /\ touches[j].key = t.key
      BY <3>4 DEF Prior
    <3>6. sweep.ttl # None => t.ts - touches[j].ts <= sweep.ttl
      <4>1. last_ts[t.node][t.key] \in Nat /\ (sweep.ttl # None => sweep.ttl \in Nat)
        BY <1>1, SweepFacts DEF ReplayTypeOK
      <4> HIDE DEF j
      <4> QED BY <1>1, <3>2, <3>3, <4>1 DEF Stale
    <3> HIDE DEF j
    <3>7. touches'[j] = touches[j]
      BY <2>1, <3>5
    <3> QED BY <3>1, <3>5, <3>6, <3>7
  <2> QED BY <2>2, <2>3
<1>8. HitSound'
  BY <1>1, <1>7 DEF HitSound, Prior
<1> QED BY <1>6, <1>8

\* ... and in a put.
LEMMA PutStamp ==
    ASSUME ReplayTypeOK, StampSound, HitSound, PutAgain \/ PutTooBig \/ PutEvicts \/ PutNew
    PROVE  StampSound' /\ HitSound'
<1>1. PICK t \in ReadRow :
         /\ t = Last(touches) /\ Len(touches) \in DOMAIN touches /\ t = touches[Len(touches)]
         /\ putting /\ sweep' = sweep /\ touches' = touches
         /\ \A n \in Nodes : \A k \in Entries(caches'[n]) :
               \/ k \in Entries(caches[n]) /\ ~(n = t.node /\ k = t.key) /\ last_ts'[n][k] = last_ts[n][k]
               \/ n = t.node /\ k = t.key /\ putting' = FALSE /\ last_ts'[n][k] = t.ts
  BY PutEntries
<1>2. Nodes' = Nodes
  BY <1>1, SameCell
<1>3. Here' = Here /\ \A n, k, i : Prior(n, k, i)' = Prior(n, k, i) /\ LastRead(n, k, i)' = LastRead(n, k, i)
  BY <1>1 DEF Here, Prior, LastRead
<1>4. HitSound'
  BY <1>1, <1>3 DEF HitSound
<1>5. Here = Len(touches) + 1 /\ Len(touches) \in Nat /\ DOMAIN touches = 1 .. Len(touches)
  BY TouchFacts DEF Here
<1>6. ASSUME NEW n \in Nodes, NEW k \in Entries(caches'[n])
      PROVE  /\ Prior(n, k, Here) # {}
             /\ ~Pending(n, k)' => last_ts'[n][k] = touches[LastRead(n, k, Here)].ts
  <2>1. CASE k \in Entries(caches[n]) /\ ~(n = t.node /\ k = t.key) /\ last_ts'[n][k] = last_ts[n][k]
    <3>1. ~Pending(n, k)
      BY <1>1, <2>1 DEF Pending
    <3> QED BY <2>1, <3>1 DEF StampSound
  <2>2. CASE n = t.node /\ k = t.key /\ last_ts'[n][k] = t.ts
    <3>1. Len(touches) \in Prior(n, k, Here)
      BY <1>1, <1>5, <2>2 DEF Prior
    <3>2. LastRead(n, k, Here) = Len(touches)
      <4>1. \A j \in Prior(n, k, Here) : j \in Nat /\ j <= Len(touches)
        BY <1>5 DEF Prior
      <4> QED BY <3>1, <4>1, MaxIs DEF LastRead
    <3> QED BY <1>1, <2>2, <3>1, <3>2
  <2> QED BY <1>1, <1>6, <2>1, <2>2
<1>7. \A n, k : Prior(n, k, Here)' = Prior(n, k, Here) /\ LastRead(n, k, Here)' = LastRead(n, k, Here)
  BY <1>1 DEF Here, Prior, LastRead
<1>8. StampSound'
  BY <1>1, <1>2, <1>6, <1>7 DEF StampSound
<1> QED BY <1>4, <1>8

\* Nothing that is said of the reads changes when a start is added.
LEMMA SameReads ==
    ASSUME sweep' = sweep, touches' = touches, putting' = putting, caches' = caches, last_ts' = last_ts
    PROVE  (StampSound => StampSound') /\ (HitSound => HitSound')
<1>1. Nodes' = Nodes
  BY SameCell
<1>2. \A n, k : /\ Prior(n, k, Here)' = Prior(n, k, Here) /\ LastRead(n, k, Here)' = LastRead(n, k, Here)
                /\ Pending(n, k)' <=> Pending(n, k)
  BY DEF Here, Prior, LastRead, Pending
<1>3. StampSound => StampSound'
  BY <1>1, <1>2 DEF StampSound
<1>4. HitSound => HitSound'
  BY DEF HitSound, Prior
<1> QED BY <1>3, <1>4

\* The invariant of the baseline holds of an empty log ...
LEMMA BaselineInit == ReplayInit => BaselineInv
<1> SUFFICES ASSUME ReplayInit PROVE BaselineInv
  OBVIOUS
<1>1. log = <<>> /\ todo = <<>> /\ touches = <<>> /\ putting = FALSE
  BY DEF ReplayInit
<1>2. DOMAIN log = {} /\ DOMAIN touches = {}
  BY <1>1
<1>3. ReplayTypeOK
  BY ReplayInitType
<1>4. \A n \in Nodes : Entries(caches[n]) = {}
  BY EmptyOK DEF ReplayInit
<1>5. WarmSound
  <2>1. \A pool, m, p : Started(pool, m, p) = {}
    BY <1>2 DEF Started
  <2>2. \A h \in sweep.hosts, m \in Models : DOMAIN warm[<<Pool(h), m>>] = {}
    BY DEF ReplayInit, Pools
  <2> QED BY <2>1, <2>2 DEF WarmSound
<1>6. LogSorted /\ SeenSound /\ HitSound
  BY <1>2 DEF LogSorted, SeenSound, HitSound
<1>7. ReadsOfStarts
  BY <1>1, <1>2 DEF ReadsOfStarts
<1>8. StampSound
  BY <1>4 DEF StampSound
<1> QED BY <1>3, <1>5, <1>6, <1>7, <1>8 DEF BaselineInv

\* ... and of every step.
LEMMA BaselineStep == BaselineInv /\ [ReplayNext]_replayVars => BaselineInv'
<1> SUFFICES ASSUME BaselineInv, [ReplayNext]_replayVars PROVE BaselineInv'
  OBVIOUS
<1>1. /\ ReplayTypeOK /\ LogSorted /\ ReadsOfStarts /\ WarmSound /\ SeenSound /\ StampSound /\ HitSound
  BY DEF BaselineInv
<1>2. ASSUME NEW h \in sweep.hosts, NEW m \in Models, NEW d \in Delays, Start(h, m, d)
      PROVE  BaselineInv'
  <2>1. ReplayTypeOK'
    BY <1>1, <1>2, StartType
  <2>2. LogSorted'
    <3>1. PICK r \in LogRow :
             /\ r.host = h /\ r.model = m /\ r.ts = Clock + d /\ d \in Nat
             /\ sweep.mode = "tier1" => r.seen = DOMAIN Seen(<<Pool(h), m>>, r.ts)
             /\ log' = Append(log, r)
             /\ UNCHANGED <<sweep, putting, caches, last_ts, touches, raised>>
      BY <1>1, <1>2, StartFacts
    <3> QED BY <1>1, <3>1, StartLog
  <2>3. ReadsOfStarts'
    BY <1>1, <1>2, StartReads
  <2>4. WarmSound' /\ SeenSound'
    BY <1>1, <1>2, StartWarm, StartSeen
  <2>5. StampSound' /\ HitSound'
    <3>1. sweep' = sweep /\ touches' = touches /\ putting' = putting /\ caches' = caches /\ last_ts' = last_ts
      BY <1>2 DEF Start
    <3> QED BY <1>1, <3>1, SameReads
  <2> QED BY <2>1, <2>2, <2>3, <2>4, <2>5 DEF BaselineInv
<1>3. CASE Get
  <2>1. ReplayTypeOK'
    BY <1>1, <1>3, GetType
  <2>2. sweep' = sweep /\ log' = log /\ warm' = warm
    BY <1>3 DEF Get
  <2>3. LogSorted' /\ WarmSound' /\ SeenSound'
    BY <1>1, <2>2, SameLog
  <2>4. ReadsOfStarts'
    BY <1>1, <1>3, GetReads
  <2>5. StampSound' /\ HitSound'
    BY <1>1, <1>3, GetStamp
  <2> QED BY <2>1, <2>3, <2>4, <2>5 DEF BaselineInv
<1>4. CASE PutAgain \/ PutTooBig \/ PutEvicts \/ PutNew
  <2>1. ReplayTypeOK'
    BY <1>1, <1>4, PutType
  <2>2. sweep' = sweep /\ log' = log /\ warm' = warm /\ todo' = todo /\ touches' = touches
    BY <1>4 DEF PutAgain, PutTooBig, PutEvicts, PutNew
  <2>3. LogSorted' /\ WarmSound' /\ SeenSound'
    BY <1>1, <2>2, SameLog
  <2>4. ReadsOfStarts'
    BY <1>1, <2>2, SameCell DEF ReadsOfStarts
  <2>5. StampSound' /\ HitSound'
    BY <1>1, <1>4, PutStamp
  <2> QED BY <2>1, <2>3, <2>4, <2>5 DEF BaselineInv
<1>5. CASE UNCHANGED replayVars
  <2>1. UNCHANGED <<sweep, log, todo, putting, caches, last_ts, touches, warm, raised>>
    BY <1>5 DEF replayVars
  <2>2. ReplayTypeOK'
    <3>1. /\ Nodes' = Nodes /\ Places' = Places /\ Pools' = Pools /\ Items' = Items
          /\ LogRow' = LogRow /\ ReadRow' = ReadRow
      BY <2>1, SameCell
    <3> QED BY <1>1, <2>1, <3>1 DEF ReplayTypeOK
  <2>3. LogSorted' /\ WarmSound' /\ SeenSound'
    BY <1>1, <2>1, SameLog
  <2>4. ReadsOfStarts'
    BY <1>1, <2>1, SameCell DEF ReadsOfStarts
  <2>5. StampSound' /\ HitSound'
    BY <1>1, <2>1, SameReads
  <2> QED BY <2>2, <2>3, <2>4, <2>5 DEF BaselineInv
<1> QED BY <1>2, <1>3, <1>4, <1>5 DEF ReplayNext

\* The measured hits and the baseline count the same warm nodes.
LEMMA BaselineHolds == BaselineInv => BaselineComparable
<1> SUFFICES ASSUME BaselineInv, sweep.mode = "tier1", NEW i \in DOMAIN log
             PROVE  /\ log[i].seen = { p \in Places : Recent(i, p) # {} }
                    /\ Cardinality(log[i].seen) <= Cardinality(Candidates(Pool(log[i].host)))
                    /\ \A t \in DOMAIN touches : (touches[t].start = i /\ touches[t].hit) =>
                          /\ Sources(i) # {}
                          /\ InOneDatacenter(log[i].host) => scope_key(log[i].host) \in log[i].seen
  BY DEF BaselineComparable
<1>1. /\ ReplayTypeOK /\ LogSorted /\ ReadsOfStarts /\ SeenSound /\ HitSound
  BY DEF BaselineInv
<1>2. log[i].seen = { p \in Places : Recent(i, p) # {} }
  BY <1>1 DEF SeenSound
<1>3. /\ Len(log) \in Nat /\ DOMAIN log = 1 .. Len(log)
      /\ \A j \in DOMAIN log : log[j].host \in sweep.hosts /\ log[j].ts \in Nat
  BY <1>1, LogFacts
<1>4. \A p : Recent(i, p) \subseteq DOMAIN log
  BY <1>3 DEF Recent
<1>5. Cardinality(log[i].seen) <= Cardinality(Candidates(Pool(log[i].host)))
  <2> DEFINE pool == Pool(log[i].host)
             D == { j \in DOMAIN log : Pool(log[j].host) = pool }
             place == [j \in D |-> scope_key(log[j].host)]
             C == { place[j] : j \in D }
  <2>1. IsFiniteSet(DOMAIN log)
    BY <1>3, FS_Interval
  <2>2. IsFiniteSet(D)
    BY <2>1, FS_Subset
  <2>3. IsFiniteSet(C)
    <3> HIDE DEF D, place
    <3> QED BY <2>2, ValuesFinite
  <2>4. Candidates(pool) = C
    BY DEF Candidates
  <2>5. log[i].seen \subseteq C
    <3> SUFFICES ASSUME NEW p \in log[i].seen PROVE p \in C
      OBVIOUS
    <3>1. PICK j \in Recent(i, p) : TRUE
      BY <1>2
    <3>2. j \in D /\ scope_key(log[j].host) = p
      BY <1>4, <3>1 DEF Recent
    <3> QED BY <3>2
  <2> HIDE DEF C, pool
  <2>6. Cardinality(log[i].seen) <= Cardinality(C)
    BY <2>3, <2>5, FS_Subset
  <2> QED BY <2>4, <2>6 DEF pool
<1>6. ASSUME NEW t \in DOMAIN touches, touches[t].start = i, touches[t].hit
      PROVE  /\ Sources(i) # {}
             /\ InOneDatacenter(log[i].host) => scope_key(log[i].host) \in log[i].seen
  <2>1. PICK j \in Prior(touches[t].node, touches[t].key, t) :
           sweep.ttl # None => touches[t].ts - touches[j].ts <= sweep.ttl
    BY <1>1, <1>6 DEF HitSound
  <2>2. Len(touches) \in Nat /\ DOMAIN touches = 1 .. Len(touches)
    BY <1>1, TouchFacts
  <2>3. j \in DOMAIN touches /\ j < t /\ touches[j].node = touches[t].node /\ touches[j].key = touches[t].key
    BY <1>6, <2>1, <2>2 DEF Prior
  <2> DEFINE l == touches[j].start
  <2>4. l \in DOMAIN log /\ touches[j].node = Node(log[l].host) /\ touches[j].ts = log[l].ts
        /\ touches[j].key = log[l].model
    BY <1>1, <2>3 DEF ReadsOfStarts
  <2>5. touches[t].node = Node(log[i].host) /\ touches[t].ts = log[i].ts /\ touches[t].key = log[i].model
    BY <1>1, <1>6 DEF ReadsOfStarts
  <2>6. l < i
    BY <1>1, <1>6, <2>3 DEF ReadsOfStarts
  <2> HIDE DEF l
  <2>7. /\ l \in 1 .. i - 1 /\ log[l].model = log[i].model
        /\ Node(log[l].host) = Node(log[i].host)
        /\ sweep.ttl # None => log[i].ts - log[l].ts <= sweep.ttl
    <3>1. l \in 1 .. i - 1
      BY <1>3, <2>4, <2>6
    <3> QED BY <2>1, <2>3, <2>4, <2>5, <3>1
  <2>8. l \in Sources(i)
    BY <2>7 DEF Sources
  <2>9. ASSUME InOneDatacenter(log[i].host) PROVE scope_key(log[i].host) \in log[i].seen
    <3>1. /\ GpuOf[log[l].host] = GpuOf[log[i].host]
          /\ scope_key(log[l].host) = scope_key(log[i].host)
      BY <2>7 DEF Node
    <3>2. log[l].host \in sweep.hosts
      BY <1>3, <2>4
    <3>3. DatacenterOf[log[l].host] = DatacenterOf[log[i].host]
      BY <2>9, <3>1, <3>2 DEF InOneDatacenter
    <3>4. Pool(log[l].host) = Pool(log[i].host)
      BY <3>1, <3>3 DEF Pool
    <3>5. l \in Recent(i, scope_key(log[i].host))
      BY <2>7, <3>1, <3>4 DEF Recent
    <3>6. scope_key(log[i].host) \in Places
      BY <1>3 DEF Places
    <3> QED BY <1>2, <3>5, <3>6
  <2> QED BY <2>8, <2>9
<1> QED BY <1>2, <1>5, <1>6

\* In every reachable state of the replay, whatever the log, the sweep and the
\* delays: the state has its type, ...
THEOREM ReplayType == ReplaySpec => []ReplayTypeOK
<1>1. BaselineInv => ReplayTypeOK
  BY DEF BaselineInv
<1> QED BY <1>1, BaselineInit, BaselineStep, PTL DEF ReplaySpec

\* ... and random_placement_baseline is comparable with the measured hits: its
\* warm nodes are those of the TTL, no more than the pool has, and a hit of the
\* replay was started on its node within the TTL, which is one of the warm nodes
\* unless hosts of another datacenter go by the same name (NULL racks do).
THEOREM ReplayBaseline == ReplaySpec => []BaselineComparable
BY BaselineHolds, BaselineInit, BaselineStep, PTL DEF ReplaySpec
-----------------------------------------------------------------------------
(***************************************************************************)
(* The accounts of the replay, when every key has one size.                *)
(***************************************************************************)

\* An account that counts exactly what it holds, at the sizes of the keys, and
\* no more than it may.
Counted(keys, sizes, capacity, c) ==
    /\ AccountOK(keys, c) /\ Exact(c)
    /\ c.total <= capacity
    /\ \A k \in Entries(c) : c.size[k] = sizes[k]

\* A hit counts nothing, ...
LEMMA CountedTouched ==
    ASSUME NEW keys, NEW sizes, NEW capacity \in Nat, NEW c, Counted(keys, sizes, capacity, c),
           NEW k \in keys
    PROVE  Counted(keys, sizes, capacity, Touched(c, k))
<1>1. AccountOK(keys, c) /\ Exact(c) /\ c.total <= capacity /\ \A x \in Entries(c) : c.size[x] = sizes[x]
  BY DEF Counted
<1>2. /\ AccountOK(keys, Touched(c, k)) /\ Entries(Touched(c, k)) = Entries(c)
      /\ Touched(c, k).total = c.total /\ Touched(c, k).size = c.size
  BY <1>1, TouchedOK
<1>3. Exact(Touched(c, k))
  BY <1>1, TouchedExact
<1> QED BY <1>1, <1>2, <1>3 DEF Counted

\* ... _evict takes off what it takes out, ...
LEMMA CountedForgotten ==
    ASSUME NEW keys, NEW sizes, NEW capacity \in Nat, NEW c, Counted(keys, sizes, capacity, c),
           NEW k \in keys
    PROVE  Counted(keys, sizes, capacity, Forgotten(c, k))
<1>1. AccountOK(keys, c) /\ Exact(c) /\ c.total <= capacity /\ \A x \in Entries(c) : c.size[x] = sizes[x]
  BY DEF Counted
<1>2. CASE k \notin Entries(c)
  BY <1>2 DEF Forgotten
<1>3. CASE k \in Entries(c)
  <2> DEFINE d == Forgotten(c, k)
  <2>1. /\ AccountOK(keys, d) /\ Entries(d) = Entries(c) \ {k}
        /\ d.size = [c.size EXCEPT ![k] = 0] /\ d.total = c.total - c.size[k]
    BY <1>1, <1>3, ForgottenOK
  <2>2. Exact(d)
    BY <1>1, ForgottenExact
  <2>3. c.size \in [keys -> Nat] /\ c.total \in Int /\ Entries(c) \subseteq keys
    BY <1>1, EntriesFacts
  <2> HIDE DEF d
  <2>4. d.total <= capacity
    BY <1>1, <2>1, <2>3
  <2>5. \A x \in Entries(d) : d.size[x] = sizes[x]
    BY <1>1, <2>1, <2>3
  <2>6. Counted(keys, sizes, capacity, d)
    BY <2>1, <2>2, <2>4, <2>5 DEF Counted
  <2> QED BY <2>6 DEF d
<1> QED BY <1>2, <1>3

\* ... a put of what is there renews its one size, ...
LEMMA CountedRenewed ==
    ASSUME NEW keys, NEW sizes, NEW capacity \in Nat, NEW c, Counted(keys, sizes, capacity, c),
           NEW k \in keys, k \in Entries(c), sizes[k] \in Nat
    PROVE  Counted(keys, sizes, capacity, Renewed(c, k, sizes[k]))
<1>1. AccountOK(keys, c) /\ Exact(c) /\ c.total <= capacity /\ \A x \in Entries(c) : c.size[x] = sizes[x]
  BY DEF Counted
<1> DEFINE d == Renewed(c, k, sizes[k])
<1>2. AccountOK(keys, d) /\ Entries(d) = Entries(c) /\ d.total = c.total
  BY <1>1, RenewedOK
<1>3. c.size \in [keys -> Nat]
  BY <1>1, EntriesFacts
<1>4. d.size = [c.size EXCEPT ![k] = sizes[k]]
  BY DEF Renewed
<1> HIDE DEF d
<1>5. d.size = c.size
  BY <1>1, <1>3, <1>4
<1>6. Exact(d)
  BY <1>1, <1>2, <1>5 DEF Exact
<1>7. Counted(keys, sizes, capacity, d)
  BY <1>1, <1>2, <1>5, <1>6 DEF Counted
<1> QED BY <1>7 DEF d

\* ... and one of a new key counts it.
LEMMA CountedRecorded ==
    ASSUME NEW keys, NEW sizes, NEW capacity \in Nat, NEW c, Counted(keys, sizes, capacity, c),
           NEW k \in keys, k \notin Entries(c), sizes[k] \in Nat, c.total + sizes[k] <= capacity
    PROVE  Counted(keys, sizes, capacity, Recorded(c, k, sizes[k]))
<1>1. AccountOK(keys, c) /\ Exact(c) /\ c.total <= capacity /\ \A x \in Entries(c) : c.size[x] = sizes[x]
  BY DEF Counted
<1> DEFINE d == Recorded(c, k, sizes[k])
<1>2. AccountOK(keys, d) /\ Entries(d) = Entries(c) \cup {k}
  BY <1>1, RecordedOK
<1>3. c.size \in [keys -> Nat] /\ c.total \in Int
  BY <1>1, EntriesFacts
<1>4. d.size = [c.size EXCEPT ![k] = sizes[k]] /\ d.total = c.total - 0 + sizes[k]
  BY DEF Recorded
<1>5. Exact(d)
  BY <1>1, RecordedExact
<1> HIDE DEF d
<1>6. d.total <= capacity
  BY <1>3, <1>4
<1>7. \A x \in Entries(d) : d.size[x] = sizes[x]
  BY <1>1, <1>2, <1>3, <1>4
<1>8. Counted(keys, sizes, capacity, d)
  BY <1>2, <1>5, <1>6, <1>7 DEF Counted
<1> QED BY <1>8 DEF d

\* An account that counts nothing has room.
LEMMA RoomWhenEmpty ==
    ASSUME NEW c, Exact(c), c.order = <<>>, NEW n \in Nat, NEW capacity \in Nat, n <= capacity
    PROVE  ~(c.total + n > capacity)
BY NothingCounted

\* SizesKnown and SizeBounded, node by node.
LEMMA CountedNodes ==
    ASSUME ReplayTypeOK
    PROVE  /\ SizesKnown /\ SizeBounded =>
                 ~raised /\ \A n \in Nodes : Counted(Items, ItemSize, sweep.capacity, caches[n])
           /\ /\ ~raised /\ \A n \in Nodes : Counted(Items, ItemSize, sweep.capacity, caches[n])
              /\ \A i \in DOMAIN todo : todo[i].size = ItemSize[todo[i].key]
              /\ \A i \in DOMAIN touches : touches[i].size = ItemSize[touches[i].key]
              => SizesKnown /\ SizeBounded
<1>1. \A n \in Nodes : AccountOK(Items, caches[n]) /\ Distinct(caches[n].order)
  BY DEF ReplayTypeOK, AccountOK
<1> QED BY <1>1 DEF SizesKnown, SizeBounded, Counted
-----------------------------------------------------------------------------
\* So does that of the sizes: at first ...
LEMMA SizeInit == ReplayInit => SizeInv
<1> SUFFICES ASSUME ReplayInit PROVE SizeInv
  OBVIOUS
<1>1. BaselineInv
  BY BaselineInit
<1>2. /\ todo = <<>> /\ touches = <<>> /\ raised = FALSE /\ sweep \in Sweeps
      /\ \A n \in Nodes : caches[n] = Empty(Items)
  BY DEF ReplayInit
<1>3. sweep.capacity \in Nat
  BY <1>2, SweepFacts
<1>4. Empty(Items).total = 0
  BY DEF Empty
<1>5. Counted(Items, ItemSize, sweep.capacity, Empty(Items))
  BY <1>3, <1>4, EmptyOK, EmptyExact DEF Counted
<1>6. SizesKnown /\ SizeBounded
  <2>1. ReplayTypeOK
    BY <1>1 DEF BaselineInv
  <2> QED BY <1>2, <1>5, <2>1, CountedNodes
<1> QED BY <1>1, <1>6 DEF SizeInv

\* One cache is replaced by one that counts as well.
LEMMA CountedStep ==
    ASSUME ReplayTypeOK, ReplayTypeOK', sweep' = sweep, raised' = raised,
           SizesKnown, SizeBounded,
           NEW n \in Nodes, NEW d, caches' = [caches EXCEPT ![n] = d],
           Counted(Items, ItemSize, sweep.capacity, d),
           \A i \in DOMAIN todo' : todo'[i].size = ItemSize[todo'[i].key],
           \A i \in DOMAIN touches' : touches'[i].size = ItemSize[touches'[i].key]
    PROVE  SizesKnown' /\ SizeBounded'
<1>1. ~raised /\ \A m \in Nodes : Counted(Items, ItemSize, sweep.capacity, caches[m])
  BY CountedNodes
<1>2. caches'[n] = d /\ \A m \in Nodes : m # n => caches'[m] = caches[m]
  BY OneCache
<1>3. \A m \in Nodes : Counted(Items, ItemSize, sweep.capacity, caches'[m])
  BY <1>1, <1>2
<1>4. Nodes' = Nodes /\ Items' = Items /\ ItemSize' = ItemSize
  BY SameCell
<1>5. \A m \in Nodes : AccountOK(Items, caches'[m]) /\ Distinct(caches'[m].order)
  BY <1>3 DEF Counted, AccountOK
<1>6. SizesKnown'
  BY <1>3, <1>4 DEF SizesKnown, Counted
<1>7. SizeBounded'
  BY <1>1, <1>3, <1>4, <1>5 DEF SizeBounded, Counted
<1> QED BY <1>6, <1>7

\* The sizes stay known and the caches bounded: after a start, ...
LEMMA StartSizes ==
    ASSUME ReplayTypeOK, OneSize, SizesKnown, SizeBounded,
           NEW h \in sweep.hosts, NEW m \in Models, NEW d \in Delays, Start(h, m, d)
    PROVE  SizesKnown' /\ SizeBounded'
<1>1. /\ sweep' = sweep /\ caches' = caches /\ touches' = touches /\ raised' = raised
  BY DEF Start
<1>2. Nodes' = Nodes /\ ItemSize' = ItemSize
  BY <1>1, SameCell
<1>3. \A i \in DOMAIN todo' : todo'[i].size = ItemSize[todo'[i].key]
  BY StartTodo
<1>4. SizesKnown'
  BY <1>1, <1>2, <1>3 DEF SizesKnown
<1>5. SizeBounded'
  BY <1>1, <1>2 DEF SizeBounded
<1> QED BY <1>4, <1>5

\* ... after a get, ...
LEMMA GetSizes ==
    ASSUME ReplayTypeOK, ReplayTypeOK', SizesKnown, SizeBounded, Get
    PROVE  SizesKnown' /\ SizeBounded'
<1>1. PICK t \in ReadRow :
         LET c == caches[t.node]
         IN  /\ t.node \in Nodes /\ t.key \in Items
             /\ t.key = Head(todo).key /\ t.size = Head(todo).size
             /\ todo # <<>> /\ todo' = Tail(todo) /\ touches' = Append(touches, t)
             /\ caches' = [caches EXCEPT ![t.node] =
                              IF t.key \in Entries(c) /\ Stale(t.node, t.key, t.ts)
                              THEN Forgotten(c, t.key) ELSE Touched(c, t.key)]
             /\ UNCHANGED <<sweep, log, last_ts, warm, raised>>
  BY GetFacts
<1> DEFINE c == caches[t.node]
           d == IF t.key \in Entries(c) /\ Stale(t.node, t.key, t.ts) THEN Forgotten(c, t.key)
                ELSE Touched(c, t.key)
<1>2. caches' = [caches EXCEPT ![t.node] = d] /\ t.node \in Nodes
  BY <1>1
<1>3. sweep' = sweep /\ raised' = raised
  BY <1>1
<1>4. sweep.capacity \in Nat /\ t.key \in Items
  BY <1>1, SweepFacts DEF ReplayTypeOK
<1>5. Counted(Items, ItemSize, sweep.capacity, c)
  BY <1>2, CountedNodes
<1>6. Counted(Items, ItemSize, sweep.capacity, d)
  <2> HIDE DEF c
  <2>1. Counted(Items, ItemSize, sweep.capacity, Forgotten(c, t.key))
    BY <1>4, <1>5, CountedForgotten
  <2>2. Counted(Items, ItemSize, sweep.capacity, Touched(c, t.key))
    BY <1>4, <1>5, CountedTouched
  <2> QED BY <2>1, <2>2
<1>7. \A i \in DOMAIN todo : todo[i].size = ItemSize[todo[i].key]
  BY DEF SizesKnown
<1>8. /\ 1 \in DOMAIN todo /\ Head(todo) = todo[1]
      /\ \A i \in DOMAIN todo' : i + 1 \in DOMAIN todo /\ todo'[i] = todo[i + 1]
  <2> DEFINE R == [key : Items, size : Nat]
  <2>1. todo \in Seq(R) /\ todo # <<>> /\ todo' = Tail(todo)
    BY <1>1 DEF ReplayTypeOK
  <2> HIDE DEF R
  <2> QED BY <2>1
<1>9. \A i \in DOMAIN todo' : todo'[i].size = ItemSize[todo'[i].key]
  BY <1>7, <1>8
<1>10. \A i \in DOMAIN touches' : touches'[i].size = ItemSize[touches'[i].key]
  <2>1. t.size = ItemSize[t.key]
    BY <1>1, <1>7, <1>8
  <2>2. /\ DOMAIN touches = 1 .. Here - 1 /\ DOMAIN touches' = 1 .. Here
        /\ Here \in Nat /\ touches'[Here] = t /\ \A i \in 1 .. Here - 1 : touches'[i] = touches[i]
    BY <1>1, ReadAdded
  <2>3. \A i \in DOMAIN touches : touches[i].size = ItemSize[touches[i].key]
    BY DEF SizesKnown
  <2>4. 1 .. Here = (1 .. Here - 1) \cup {Here}
    BY <2>2 DEF Here
  <2> QED BY <2>1, <2>2, <2>3, <2>4
<1> HIDE DEF d
<1> QED BY <1>2, <1>3, <1>6, <1>9, <1>10, CountedStep

\* ... and in a put, whose eviction always finds an entry.
LEMMA PutSizes ==
    ASSUME ReplayTypeOK, ReplayTypeOK', SizesKnown, SizeBounded,
           PutAgain \/ PutTooBig \/ PutEvicts \/ PutNew
    PROVE  SizesKnown' /\ SizeBounded'
<1>1. PICK t \in ReadRow :
         LET c == caches[t.node]
         IN  /\ Len(touches) \in DOMAIN touches /\ t = touches[Len(touches)]
             /\ t.node \in Nodes /\ t.key \in Items /\ t.size \in Nat
             /\ UNCHANGED <<sweep, log, todo, touches, warm>>
             /\ \/ /\ t.key \in Entries(c) /\ raised' = raised
                   /\ caches' = [caches EXCEPT ![t.node] = Renewed(c, t.key, t.size)]
                \/ UNCHANGED <<caches, raised>>
                \/ /\ t.size <= sweep.capacity /\ c.total + t.size > sweep.capacity
                   /\ c.order # <<>> =>
                         /\ raised' = raised
                         /\ caches' = [caches EXCEPT ![t.node] = Forgotten(c, Head(c.order))]
                \/ /\ t.key \notin Entries(c) /\ c.total + t.size <= sweep.capacity /\ raised' = raised
                   /\ caches' = [caches EXCEPT ![t.node] = Recorded(c, t.key, t.size)]
  BY PutFacts
<1> DEFINE c == caches[t.node]
<1>2. t.size = ItemSize[t.key]
  BY <1>1 DEF SizesKnown
<1>3. /\ \A i \in DOMAIN todo' : todo'[i].size = ItemSize[todo'[i].key]
      /\ \A i \in DOMAIN touches' : touches'[i].size = ItemSize[touches'[i].key]
  BY <1>1 DEF SizesKnown
<1>4. Counted(Items, ItemSize, sweep.capacity, c)
  BY <1>1, CountedNodes
<1>5. sweep.capacity \in Nat /\ t.key \in Items /\ ItemSize[t.key] \in Nat /\ t.node \in Nodes /\ sweep' = sweep
  BY <1>1, <1>2, SweepFacts DEF ReplayTypeOK
<1>6. CASE /\ t.key \in Entries(c) /\ raised' = raised
           /\ caches' = [caches EXCEPT ![t.node] = Renewed(c, t.key, t.size)]
  <2> DEFINE d == Renewed(c, t.key, ItemSize[t.key])
  <2>1. Counted(Items, ItemSize, sweep.capacity, d)
    <3> HIDE DEF c
    <3> QED BY <1>4, <1>5, <1>6, CountedRenewed
  <2>2. caches' = [caches EXCEPT ![t.node] = d]
    BY <1>2, <1>6
  <2> HIDE DEF d
  <2> QED BY <1>3, <1>5, <1>6, <2>1, <2>2, CountedStep
<1>7. CASE UNCHANGED <<caches, raised>>
  <2>1. Nodes' = Nodes /\ ItemSize' = ItemSize
    BY <1>5, SameCell
  <2> QED BY <1>1, <1>7, <2>1 DEF SizesKnown, SizeBounded
<1>8. CASE /\ t.size <= sweep.capacity /\ c.total + t.size > sweep.capacity
           /\ c.order # <<>> =>
                 /\ raised' = raised
                 /\ caches' = [caches EXCEPT ![t.node] = Forgotten(c, Head(c.order))]
  <2> DEFINE d == Forgotten(c, Head(c.order))
  <2>1. c.order # <<>>
    <3>1. Exact(c)
      BY <1>4 DEF Counted
    <3> HIDE DEF c
    <3> QED BY <1>1, <1>5, <1>8, <3>1, RoomWhenEmpty
  <2>2. AccountOK(Items, c)
    BY <1>4 DEF Counted
  <2>3. Counted(Items, ItemSize, sweep.capacity, d)
    <3> HIDE DEF c
    <3>1. Head(c.order) \in Items
      BY <2>1, <2>2, OldestIsEntry
    <3> QED BY <1>4, <1>5, <3>1, CountedForgotten
  <2>4. caches' = [caches EXCEPT ![t.node] = d] /\ raised' = raised
    BY <1>8, <2>1
  <2> HIDE DEF d
  <2> QED BY <1>3, <1>5, <2>3, <2>4, CountedStep
<1>9. CASE /\ t.key \notin Entries(c) /\ c.total + t.size <= sweep.capacity /\ raised' = raised
           /\ caches' = [caches EXCEPT ![t.node] = Recorded(c, t.key, t.size)]
  <2> DEFINE d == Recorded(c, t.key, ItemSize[t.key])
  <2>1. Counted(Items, ItemSize, sweep.capacity, d)
    <3>1. c.total + ItemSize[t.key] <= sweep.capacity /\ t.key \notin Entries(c)
      BY <1>2, <1>9
    <3> HIDE DEF c
    <3> QED BY <1>4, <1>5, <3>1, CountedRecorded
  <2>2. caches' = [caches EXCEPT ![t.node] = d]
    BY <1>2, <1>9
  <2> HIDE DEF d
  <2> QED BY <1>3, <1>5, <1>9, <2>1, <2>2, CountedStep
<1> QED BY <1>1, <1>6, <1>7, <1>8, <1>9

\* ... and in every step.
LEMMA SizeStep == SizeInv /\ [ReplayNext]_replayVars => SizeInv'
<1> SUFFICES ASSUME SizeInv, [ReplayNext]_replayVars PROVE SizeInv'
  OBVIOUS
<1>1. BaselineInv /\ BaselineInv'
  BY BaselineStep DEF SizeInv
<1>2. ReplayTypeOK /\ ReplayTypeOK'
  BY <1>1 DEF BaselineInv
<1>3. sweep' = sweep
  BY DEF ReplayNext, Start, Get, PutAgain, PutTooBig, PutEvicts, PutNew, replayVars
<1>4. OneSize' = OneSize
  BY <1>3, SameCell
<1> SUFFICES ASSUME OneSize PROVE SizesKnown' /\ SizeBounded'
  BY <1>1, <1>4 DEF SizeInv
<1>5. SizesKnown /\ SizeBounded
  BY DEF SizeInv
<1>6. ASSUME NEW h \in sweep.hosts, NEW m \in Models, NEW d \in Delays, Start(h, m, d)
      PROVE  SizesKnown' /\ SizeBounded'
  BY <1>2, <1>5, <1>6, StartSizes
<1>7. CASE Get
  BY <1>2, <1>5, <1>7, GetSizes
<1>8. CASE PutAgain \/ PutTooBig \/ PutEvicts \/ PutNew
  BY <1>2, <1>5, <1>8, PutSizes
<1>9. CASE UNCHANGED replayVars
  <2>1. todo' = todo /\ caches' = caches /\ touches' = touches /\ raised' = raised
    BY <1>9 DEF replayVars
  <2>2. Nodes' = Nodes /\ ItemSize' = ItemSize
    BY <1>3, SameCell
  <2> QED BY <1>3, <1>5, <2>1, <2>2 DEF SizesKnown, SizeBounded
<1> QED BY <1>6, <1>7, <1>8, <1>9 DEF ReplayNext

\* When every key has one size, a cache never holds more than its capacity, its
\* count is what it holds, and put's loop never takes next of nothing.  (The run
\* drift shows that it fails when two revisions disagree on the size of a xorb.)
THEOREM ReplayBounded == ReplaySpec => [](OneSize => SizeBounded)
<1>1. SizeInv => (OneSize => SizeBounded)
  BY DEF SizeInv
<1> QED BY <1>1, SizeInit, SizeStep, PTL DEF ReplaySpec
-----------------------------------------------------------------------------
(***************************************************************************)
(* Recency: the order of a cache is that of the last reads.                *)
(***************************************************************************)

\* Key a comes before key b in a list.
Before(list, a, b) == \E i, j \in DOMAIN list : i < j /\ list[i] = a /\ list[j] = b

\* Two entries are in some order.
LEMMA BeforeTotal ==
    ASSUME NEW S, NEW list \in Seq(S), NEW a \in Members(list), NEW b \in Members(list), a # b
    PROVE  Before(list, a, b) \/ Before(list, b, a)
<1>1. PICK i \in DOMAIN list : list[i] = a
  BY DEF Members
<1>2. PICK j \in DOMAIN list : list[j] = b
  BY DEF Members
<1>3. i < j \/ j < i
  BY <1>1, <1>2
<1> QED BY <1>1, <1>2, <1>3 DEF Before

\* The head comes before every other entry.
LEMMA HeadBefore ==
    ASSUME NEW S, NEW list \in Seq(S), NEW b \in Members(list), b # Head(list)
    PROVE  Before(list, Head(list), b)
<1>1. PICK j \in DOMAIN list : list[j] = b
  BY DEF Members
<1>2. 1 \in DOMAIN list /\ list[1] = Head(list) /\ j \in Nat /\ j >= 1
  BY <1>1
<1>3. 1 < j
  BY <1>1, <1>2
<1> QED BY <1>1, <1>2, <1>3 DEF Before

\* Members that come before one another are members, and differ.
LEMMA BeforeMembers ==
    ASSUME NEW S, NEW list \in Seq(S), Distinct(list), NEW a, NEW b, Before(list, a, b)
    PROVE  a \in Members(list) /\ b \in Members(list) /\ a # b
<1>1. PICK i, j \in DOMAIN list : i < j /\ list[i] = a /\ list[j] = b
  BY DEF Before
<1> QED BY <1>1 DEF Members, Distinct

\* Taking a key out keeps the order of the others.
LEMMA BeforeWithout ==
    ASSUME NEW S, NEW list \in Seq(S), Distinct(list), NEW k \in Members(list),
           NEW a, NEW b, Before(Without(list, k), a, b)
    PROVE  Before(list, a, b) /\ a # k /\ b # k
<1> DEFINE w == Without(list, k)
<1>1. PICK i, j \in DOMAIN w : i < j /\ w[i] = a /\ w[j] = b
  BY DEF Before
<1>2. \E p, q \in DOMAIN list : p < q /\ list[p] = w[i] /\ list[q] = w[j]
  BY <1>1, WithoutOrder
<1>3. Members(w) = Members(list) \ {k}
  BY WithoutOK
<1>4. a \in Members(w) /\ b \in Members(w)
  BY <1>1 DEF Members
<1> HIDE DEF w
<1> QED BY <1>1, <1>2, <1>3, <1>4 DEF Before

\* Making a key the newest puts it behind the others.
LEMMA BeforeNewest ==
    ASSUME NEW S, NEW list \in Seq(S), Distinct(list), NEW k \in S,
           NEW a, NEW b, Before(Newest(list, k), a, b)
    PROVE  /\ a # k /\ a \in Members(list)
           /\ b = k \/ Before(list, a, b)
<1> DEFINE w == Dropped(list, k)
           o == Append(w, k)
<1>1. w \in Seq(S) /\ Distinct(w) /\ Members(w) = Members(list) \ {k}
  BY DroppedOK
<1>2. Newest(list, k) = o
  BY DEF Newest, MoveToBack, Dropped
<1>3. \A x, y : Before(w, x, y) => Before(list, x, y)
  <2>1. CASE k \in Members(list)
    BY <2>1, BeforeWithout DEF Dropped
  <2>2. CASE k \notin Members(list)
    BY <2>2 DEF Dropped
  <2> QED BY <2>1, <2>2
<1>4. PICK i, j \in DOMAIN o : i < j /\ o[i] = a /\ o[j] = b
  BY <1>2 DEF Before
<1> HIDE DEF w
<1>5. /\ Len(w) \in Nat /\ DOMAIN w = 1 .. Len(w) /\ DOMAIN o = 1 .. Len(w) + 1
      /\ o[Len(w) + 1] = k /\ \A l \in 1 .. Len(w) : o[l] = w[l]
  BY <1>1
<1> HIDE DEF o
<1>6. i \in DOMAIN w /\ w[i] = a
  BY <1>4, <1>5
<1>7. a \in Members(w)
  BY <1>6 DEF Members
<1>8. CASE j = Len(w) + 1
  BY <1>1, <1>4, <1>5, <1>7, <1>8
<1>9. CASE j # Len(w) + 1
  <2>1. j \in DOMAIN w /\ w[j] = b
    BY <1>4, <1>5, <1>9
  <2>2. Before(w, a, b)
    BY <1>4, <1>6, <2>1 DEF Before
  <2> QED BY <1>1, <1>3, <1>7, <2>2
<1> QED BY <1>8, <1>9
-----------------------------------------------------------------------------
\* The reads that a key has survived.
LEMMA SinceIs ==
    ASSUME NEW n, NEW k, NEW i, NEW y
    PROVE  y \in Since(n, k, i) <=>
              \E j \in LastRead(n, k, i) + 1 .. i - 1 :
                 touches[j].node = n /\ touches[j].key = y /\ touches[j].size <= sweep.capacity
BY DEF Since

\* They are finitely many keys.
LEMMA SinceFinite ==
    ASSUME ReplayTypeOK, NEW n, NEW k, NEW i \in 1 .. Here, Prior(n, k, i) # {}
    PROVE  IsFiniteSet(Since(n, k, i)) /\ Since(n, k, i) \subseteq Items /\ k \notin Since(n, k, i)
<1>1. Here = Len(touches) + 1 /\ Len(touches) \in Nat /\ DOMAIN touches = 1 .. Len(touches) /\ i \in Nat
  BY TouchFacts DEF Here
<1>2. LastRead(n, k, i) \in 1 .. i - 1 /\ \A j \in Prior(n, k, i) : j <= LastRead(n, k, i)
  BY <1>1, LastReadOK
<1> DEFINE a == LastRead(n, k, i) + 1
           D == { l \in a .. i - 1 : touches[l].node = n /\ touches[l].size <= sweep.capacity }
           g == [j \in D |-> touches[j].key]
<1>3. a .. i - 1 \subseteq DOMAIN touches
  BY <1>1, <1>2
<1>4. IsFiniteSet(DOMAIN touches)
  BY <1>1, FS_Interval
<1>5. D \subseteq DOMAIN touches
  BY <1>3
<1>6. IsFiniteSet(D)
  BY <1>4, <1>5, FS_Subset
<1>7. IsFiniteSet({ g[j] : j \in D })
  <2> HIDE DEF D, g
  <2> QED BY <1>6, ValuesFinite
<1>8. Since(n, k, i) = { g[j] : j \in D }
  BY DEF Since
<1>9. Since(n, k, i) \subseteq Items
  <2>1. \A j \in DOMAIN touches : touches[j].key \in Items
    BY TouchFacts
  <2> QED BY <1>5, <1>8, <2>1
<1>10. k \notin Since(n, k, i)
  <2> SUFFICES ASSUME k \in Since(n, k, i) PROVE FALSE
    OBVIOUS
  <2>1. PICK j \in a .. i - 1 : touches[j].node = n /\ touches[j].key = k
    BY SinceIs
  <2>2. j \in Prior(n, k, i)
    BY <1>1, <1>2, <2>1 DEF Prior
  <2> QED BY <1>1, <1>2, <2>1, <2>2
<1> QED BY <1>7, <1>8, <1>9, <1>10

\* What was read since a key was, was last read after it; ...
LEMMA SinceAfter ==
    ASSUME ReplayTypeOK, NEW n, NEW k, Prior(n, k, Here) # {}, NEW y \in Since(n, k, Here)
    PROVE  Prior(n, y, Here) # {} /\ LastRead(n, k, Here) < LastRead(n, y, Here)
<1>1. Here = Len(touches) + 1 /\ Len(touches) \in Nat /\ Here \in Nat
  BY TouchFacts DEF Here
<1>2. LastRead(n, k, Here) \in 1 .. Here - 1
  BY <1>1, LastReadOK
<1>3. PICK j \in LastRead(n, k, Here) + 1 .. Here - 1 : touches[j].node = n /\ touches[j].key = y
  BY SinceIs
<1>4. j \in Prior(n, y, Here)
  BY <1>1, <1>2, <1>3 DEF Prior
<1>5. LastRead(n, y, Here) \in 1 .. Here - 1 /\ j <= LastRead(n, y, Here)
  BY <1>1, <1>4, LastReadOK
<1> QED BY <1>1, <1>2, <1>3, <1>4, <1>5

\* ... and conversely, if it can be cached.
LEMMA AfterSince ==
    ASSUME ReplayTypeOK, SizesKnown, NEW n, NEW k, NEW y, Prior(n, k, Here) # {}, Prior(n, y, Here) # {},
           LastRead(n, k, Here) < LastRead(n, y, Here), ItemSize[y] <= sweep.capacity
    PROVE  y \in Since(n, k, Here)
<1>1. Here = Len(touches) + 1 /\ Len(touches) \in Nat /\ Here \in Nat /\ DOMAIN touches = 1 .. Len(touches)
  BY TouchFacts DEF Here
<1>2. LastRead(n, k, Here) \in 1 .. Here - 1
  BY <1>1, LastReadOK
<1> DEFINE j == LastRead(n, y, Here)
<1>3. j \in Prior(n, y, Here) /\ j \in 1 .. Here - 1
  BY <1>1, LastReadOK
<1>4. touches[j].node = n /\ touches[j].key = y
  BY <1>3 DEF Prior
<1>5. touches[j].size = ItemSize[y]
  BY <1>1, <1>3, <1>4 DEF SizesKnown
<1> HIDE DEF j
<1>6. j \in LastRead(n, k, Here) + 1 .. Here - 1
  BY <1>1, <1>2, <1>3 DEF j
<1> QED BY <1>4, <1>5, <1>6, SinceIs

\* Two keys are last read at two times.
LEMMA LastReadsDiffer ==
    ASSUME ReplayTypeOK, NEW n, NEW k, NEW y, k # y, Prior(n, k, Here) # {}, Prior(n, y, Here) # {}
    PROVE  LastRead(n, k, Here) # LastRead(n, y, Here)
<1>1. Here \in Nat
  BY TouchFacts DEF Here
<1>2. LastRead(n, k, Here) \in Prior(n, k, Here) /\ LastRead(n, y, Here) \in Prior(n, y, Here)
  BY <1>1, LastReadOK
<1> QED BY <1>2 DEF Prior

\* What is being put was read last.
LEMMA PendingIsLast ==
    ASSUME ReplayTypeOK, Len(touches) \in DOMAIN touches, NEW n, NEW k,
           touches[Len(touches)].node = n, touches[Len(touches)].key = k
    PROVE  /\ Prior(n, k, Here) # {} /\ LastRead(n, k, Here) = Len(touches)
           /\ Since(n, k, Here) = {}
           /\ \A y : y # k /\ Prior(n, y, Here) # {} => LastRead(n, y, Here) < LastRead(n, k, Here)
<1>1. Here = Len(touches) + 1 /\ Len(touches) \in Nat /\ Here \in Nat /\ DOMAIN touches = 1 .. Len(touches)
  BY TouchFacts DEF Here
<1>2. Len(touches) \in Prior(n, k, Here)
  BY <1>1 DEF Prior
<1>3. \A j \in Prior(n, k, Here) : j \in Nat /\ j <= Len(touches)
  BY <1>1 DEF Prior
<1>4. LastRead(n, k, Here) = Len(touches)
  BY <1>2, <1>3, MaxIs DEF LastRead
<1>5. Since(n, k, Here) = {}
  <2>1. LastRead(n, k, Here) + 1 .. Here - 1 = {}
    BY <1>1, <1>4
  <2> QED BY <2>1 DEF Since
<1>6. ASSUME NEW y, y # k, Prior(n, y, Here) # {}
      PROVE  LastRead(n, y, Here) < LastRead(n, k, Here)
  <2>1. LastRead(n, y, Here) \in 1 .. Here - 1
    BY <1>1, <1>6, LastReadOK
  <2>2. LastRead(n, y, Here) # LastRead(n, k, Here)
    BY <1>2, <1>6, LastReadsDiffer
  <2> QED BY <1>1, <1>4, <2>1, <2>2
<1> QED BY <1>2, <1>4, <1>5, <1>6

\* A read more.
LEMMA SinceStep ==
    ASSUME ReplayTypeOK, NEW t \in ReadRow, touches' = Append(touches, t), sweep' = sweep
    PROVE  /\ \A n, k : \A i \in 1 .. Here :
                 Prior(n, k, i) # {} => Since(n, k, i)' = Since(n, k, i)
           /\ \A n, k : (t.node = n /\ t.key = k) => Since(n, k, Here)' = {}
           /\ \A n, k : ~(t.node = n /\ t.key = k) /\ Prior(n, k, Here) # {} =>
                 Since(n, k, Here)' = Since(n, k, Here) \cup
                    (IF t.node = n /\ t.size <= sweep.capacity THEN {t.key} ELSE {})
<1>1. /\ Here \in Nat /\ Here' = Here + 1
      /\ touches'[Here] = t /\ \A i \in 1 .. Here - 1 : touches'[i] = touches[i]
  BY ReadAdded
<1> DEFINE ok(x, n, y) == x.node = n /\ x.key = y /\ x.size <= sweep.capacity
<1>2. \A n, k, i, y : y \in Since(n, k, i) <=>
         \E j \in LastRead(n, k, i) + 1 .. i - 1 : ok(touches[j], n, y)
  BY SinceIs
<1>3. \A n, k, i, y : y \in Since(n, k, i)' <=>
         \E j \in LastRead(n, k, i)' + 1 .. i - 1 : ok(touches'[j], n, y)
  BY DEF Since
<1>4. \A n, k, y : y \in Since(n, k, Here)' <=>
         \E j \in LastRead(n, k, Here)' + 1 .. Here : ok(touches'[j], n, y)
  <2>1. Here' - 1 = Here
    BY <1>1
  <2>2. \A n, k, y : y \in Since(n, k, Here)' <=>
           \E j \in LastRead(n, k, Here)' + 1 .. Here' - 1 : ok(touches'[j], n, y)
    BY DEF Since
  <2> HIDE DEF ok
  <2> QED BY <2>1, <2>2
<1> HIDE DEF ok
<1>5. ASSUME NEW n, NEW k, NEW i \in 1 .. Here, Prior(n, k, i) # {}
      PROVE  Since(n, k, i)' = Since(n, k, i)
  <2>1. LastRead(n, k, i)' = LastRead(n, k, i)
    BY <1>5, ReadAdded
  <2>2. LastRead(n, k, i) \in 1 .. i - 1
    BY <1>1, <1>5, LastReadOK
  <2> DEFINE D == LastRead(n, k, i) + 1 .. i - 1
  <2>3. D \subseteq 1 .. Here - 1
    <3>1. Here \in Nat
      BY <1>1
    <3> QED BY <1>5, <2>2, <3>1
  <2>4. \A y : y \in Since(n, k, i)' <=> \E j \in D : ok(touches'[j], n, y)
    BY <1>3, <2>1
  <2>5. \A y : y \in Since(n, k, i) <=> \E j \in D : ok(touches[j], n, y)
    BY <1>2
  <2> HIDE DEF D
  <2>6. \A j \in D : touches'[j] = touches[j]
    BY <1>1, <2>3
  <2>7. \A y : y \in Since(n, k, i)' <=> y \in Since(n, k, i)
    BY <2>4, <2>5, <2>6
  <2> QED BY <2>7
<1>6. ASSUME NEW n, NEW k, t.node = n /\ t.key = k PROVE Since(n, k, Here)' = {}
  <2>1. LastRead(n, k, Here)' = Here
    BY <1>6, ReadAdded
  <2>2. Here + 1 .. Here = {}
    BY <1>1
  <2> QED BY <1>4, <2>1, <2>2
<1>7. ASSUME NEW n, NEW k, ~(t.node = n /\ t.key = k), Prior(n, k, Here) # {}
      PROVE  Since(n, k, Here)' = Since(n, k, Here) \cup
                (IF t.node = n /\ t.size <= sweep.capacity THEN {t.key} ELSE {})
  <2> DEFINE a == LastRead(n, k, Here)
  <2>1. LastRead(n, k, Here)' = a
    BY <1>7, ReadAdded
  <2>2. a \in 1 .. Here - 1
    BY <1>1, <1>7, LastReadOK
  <2> HIDE DEF a
  <2> DEFINE D == a + 1 .. Here - 1
             C == a + 1 .. Here
  <2>3. D \subseteq 1 .. Here - 1 /\ C = D \cup {Here}
    <3>1. Here \in Nat
      BY <1>1
    <3> QED BY <2>2, <3>1
  <2>4. \A y : y \in Since(n, k, Here)' <=> (\E j \in D : ok(touches[j], n, y)) \/ ok(t, n, y)
    <3>1. \A y : y \in Since(n, k, Here)' <=> \E j \in C : ok(touches'[j], n, y)
      BY <1>4, <2>1
    <3> HIDE DEF C, D
    <3>2. \A j \in D : touches'[j] = touches[j]
      BY <1>1, <2>3
    <3>3. touches'[Here] = t
      BY <1>1
    <3> QED BY <2>3, <3>1, <3>2, <3>3
  <2>5. \A y : y \in Since(n, k, Here) <=> \E j \in D : ok(touches[j], n, y)
    BY <1>2 DEF a
  <2>6. \A y : ok(t, n, y) <=> y \in (IF t.node = n /\ t.size <= sweep.capacity THEN {t.key} ELSE {})
    BY DEF ok
  <2>7. \A y : y \in Since(n, k, Here)' <=> (y \in Since(n, k, Here) \/ ok(t, n, y))
    BY <2>4, <2>5
  <2> QED BY <2>6, <2>7
<1> QED BY <1>5, <1>6, <1>7
-----------------------------------------------------------------------------
\* The definition of a hit, for a read of key k on node n, with the one size of
\* each key.
Fits(n, k, i) == ItemSize[k] + SumFunctionOnSet(ItemSize, Since(n, k, i)) <= sweep.capacity
Fresh(n, k, i) == sweep.ttl # None => touches[i].ts - touches[LastRead(n, k, i)].ts <= sweep.ttl

\* A key that was read was read with its one size.
LEMMA ReadSizeKnown ==
    ASSUME SizesKnown, NEW j \in DOMAIN touches
    PROVE  ReadSize[touches[j].key] = ItemSize[touches[j].key]
<1> DEFINE x == touches[j].key
           l == CHOOSE o \in DOMAIN touches : touches[o].key = x
<1>1. l \in DOMAIN touches /\ touches[l].key = x
  OBVIOUS
<1>2. ReadSize[x] = touches[l].size
  BY DEF ReadSize
<1> HIDE DEF l, x
<1>3. touches[l].size = ItemSize[x]
  BY <1>1 DEF SizesKnown
<1> QED BY <1>2, <1>3 DEF x

\* With the one size of each key, the definition of a hit is that.
LEMMA ExpectedIs ==
    ReplayTypeOK /\ SizesKnown =>
        \A i \in DOMAIN touches : \A n, k : touches[i].node = n /\ touches[i].key = k =>
            (Expected(i) <=> Prior(n, k, i) # {} /\ Fresh(n, k, i) /\ Fits(n, k, i))
<1> SUFFICES ASSUME ReplayTypeOK, SizesKnown, NEW i \in DOMAIN touches, NEW n, NEW k,
                    touches[i].node = n, touches[i].key = k
             PROVE  Expected(i) <=> Prior(n, k, i) # {} /\ Fresh(n, k, i) /\ Fits(n, k, i)
  OBVIOUS
<1>1. Here = Len(touches) + 1 /\ Len(touches) \in Nat /\ DOMAIN touches = 1 .. Len(touches)
  BY TouchFacts DEF Here
<1>2. i \in 1 .. Here /\ i \in Nat
  BY <1>1
<1>3. touches[i].size = ItemSize[k]
  BY DEF SizesKnown
<1>4. ASSUME Prior(n, k, i) # {}
      PROVE  SumFunctionOnSet(ReadSize, Since(n, k, i)) = SumFunctionOnSet(ItemSize, Since(n, k, i))
  <2>1. IsFiniteSet(Since(n, k, i))
    BY <1>2, <1>4, SinceFinite
  <2>2. LastRead(n, k, i) \in 1 .. i - 1
    BY <1>2, <1>4, LastReadOK
  <2>3. \A x \in Since(n, k, i) : ReadSize[x] = ItemSize[x]
    <3> TAKE x \in Since(n, k, i)
    <3>1. PICK j \in LastRead(n, k, i) + 1 .. i - 1 : touches[j].key = x
      BY SinceIs
    <3>2. j \in DOMAIN touches
      BY <1>1, <1>2, <2>2, <3>1
    <3> QED BY <3>1, <3>2, ReadSizeKnown
  <2> QED BY <2>1, <2>3, SumSame
<1>5. Expected(i) <=> /\ Prior(n, k, i) # {}
                      /\ sweep.ttl # None => touches[i].ts - touches[LastRead(n, k, i)].ts <= sweep.ttl
                      /\ touches[i].size + SumFunctionOnSet(ReadSize, Since(n, k, i)) <= sweep.capacity
  BY DEF Expected
<1> QED BY <1>3, <1>4, <1>5 DEF Fresh, Fits

\* The same of the next state.
LEMMA ExpectedNext ==
    (ReplayTypeOK /\ SizesKnown =>
        \A i \in DOMAIN touches : \A n, k : touches[i].node = n /\ touches[i].key = k =>
            (Expected(i) <=> Prior(n, k, i) # {} /\ Fresh(n, k, i) /\ Fits(n, k, i)))'
BY ExpectedIs, PTL
-----------------------------------------------------------------------------
\* The order of an account after each of its operations: a hit is behind the
\* others, ...
LEMMA TouchedBefore ==
    ASSUME NEW keys, NEW c, AccountOK(keys, c), NEW k \in keys, NEW a, NEW b,
           Before(Touched(c, k).order, a, b)
    PROVE  a # k /\ a \in Entries(c) /\ (b = k \/ Before(c.order, a, b))
<1>1. c.order \in Seq(keys) /\ Distinct(c.order)
  BY DEF AccountOK
<1>2. CASE k \in Entries(c)
  <2>1. Touched(c, k).order = Newest(c.order, k)
    <3>1. c = [order |-> c.order, size |-> c.size, total |-> c.total]
      BY DEF AccountOK
    <3> QED BY <1>2, <3>1 DEF Touched, Newest, Entries
  <2> QED BY <1>1, <2>1, BeforeNewest DEF Entries
<1>3. CASE k \notin Entries(c)
  <2>1. Before(c.order, a, b)
    BY <1>3 DEF Touched
  <2>2. a \in Entries(c)
    BY <1>1, <2>1, BeforeMembers DEF Entries
  <2> QED BY <1>3, <2>1, <2>2
<1> QED BY <1>2, <1>3

\* ... a forgotten one is out of the order, ...
LEMMA ForgottenBefore ==
    ASSUME NEW keys, NEW c, AccountOK(keys, c), NEW k \in Entries(c), NEW a, NEW b,
           Before(Forgotten(c, k).order, a, b)
    PROVE  Before(c.order, a, b) /\ a # k /\ b # k /\ a \in Entries(c) /\ b \in Entries(c)
<1>1. c.order \in Seq(keys) /\ Distinct(c.order)
  BY DEF AccountOK
<1>2. Forgotten(c, k).order = Without(c.order, k)
  BY DEF Forgotten
<1>3. Before(c.order, a, b) /\ a # k /\ b # k
  BY <1>1, <1>2, BeforeWithout DEF Entries
<1>4. a \in Entries(c) /\ b \in Entries(c)
  BY <1>1, <1>3, BeforeMembers DEF Entries
<1> QED BY <1>3, <1>4

\* ... a new one is behind the others ...
LEMMA RecordedBefore ==
    ASSUME NEW keys, NEW c, AccountOK(keys, c), NEW k \in keys, NEW m, NEW a, NEW b,
           Before(Recorded(c, k, m).order, a, b)
    PROVE  a # k /\ a \in Entries(c) /\ (b = k \/ Before(c.order, a, b))
<1>1. c.order \in Seq(keys) /\ Distinct(c.order)
  BY DEF AccountOK
<1>2. Recorded(c, k, m).order = Newest(c.order, k)
  BY DEF Recorded
<1> QED BY <1>1, <1>2, BeforeNewest DEF Entries

\* ... and so is one that is put again.
LEMMA RenewedBefore ==
    ASSUME NEW keys, NEW c, AccountOK(keys, c), NEW k \in keys, k \in Entries(c), NEW m, NEW a, NEW b,
           Before(Renewed(c, k, m).order, a, b)
    PROVE  a # k /\ a \in Entries(c) /\ (b = k \/ Before(c.order, a, b))
<1>1. c.order \in Seq(keys) /\ Distinct(c.order)
  BY DEF AccountOK
<1>2. Renewed(c, k, m).order = Newest(c.order, k)
  BY DEF Renewed, Newest, Entries
<1> QED BY <1>1, <1>2, BeforeNewest DEF Entries

\* Ordered, by keys rather than places in the list.
LEMMA OrderedIs ==
    Ordered <=> \A n \in Nodes : \A a, b : Before(caches[n].order, a, b) =>
                   LastRead(n, a, Here) < LastRead(n, b, Here)
BY DEF Ordered, Before

\* The same of the next state.
LEMMA OrderedNext ==
    (Ordered <=> \A n \in Nodes : \A a, b : Before(caches[n].order, a, b) =>
                    LastRead(n, a, Here) < LastRead(n, b, Here))'
BY OrderedIs, PTL

\* What get does to the caches, with the order.
LEMMA GetOrder ==
    ASSUME ReplayTypeOK, Get
    PROVE  \E t \in ReadRow :
              /\ t.node \in Nodes /\ t.key \in Items /\ t.ts \in Nat /\ t.size \in Nat
              /\ t.hit <=> (t.key \in Entries(caches[t.node]) /\ ~Stale(t.node, t.key, t.ts))
              /\ ~putting /\ putting' = TRUE /\ touches' = Append(touches, t) /\ sweep' = sweep
              /\ \A n \in Nodes : Entries(caches'[n]) \subseteq Entries(caches[n])
              /\ \A n \in Nodes : \A k \in Entries(caches[n]) :
                    ~(t.node = n /\ t.key = k) => k \in Entries(caches'[n])
              /\ \A n \in Nodes : \A a, b : Before(caches'[n].order, a, b) =>
                    /\ a \in Entries(caches[n]) /\ ~(t.node = n /\ t.key = a)
                    /\ (t.node = n /\ t.key = b) \/ (b \in Entries(caches[n]) /\ Before(caches[n].order, a, b))
<1>1. PICK t \in ReadRow :
         LET c == caches[t.node]
         IN  /\ t.node \in Nodes /\ t.key \in Items /\ t.ts \in Nat /\ t.size \in Nat
             /\ t.hit <=> t.key \in Entries(c) /\ ~Stale(t.node, t.key, t.ts)
             /\ ~putting /\ putting' = TRUE /\ touches' = Append(touches, t)
             /\ caches' = [caches EXCEPT ![t.node] =
                              IF t.key \in Entries(c) /\ Stale(t.node, t.key, t.ts)
                              THEN Forgotten(c, t.key) ELSE Touched(c, t.key)]
             /\ UNCHANGED <<sweep, log, last_ts, warm, raised>>
  BY GetFacts
<1> DEFINE c == caches[t.node]
           x == t.key
           d == IF x \in Entries(c) /\ Stale(t.node, x, t.ts) THEN Forgotten(c, x) ELSE Touched(c, x)
<1>2. AccountOK(Items, c) /\ x \in Items
  BY <1>1 DEF ReplayTypeOK
<1>3. \A n \in Nodes : caches[n].order \in Seq(Items) /\ Distinct(caches[n].order)
  BY DEF ReplayTypeOK, AccountOK
<1>4. Entries(d) \subseteq Entries(c) /\ \A k \in Entries(c) : k # x => k \in Entries(d)
  <2> HIDE DEF c, x
  <2>1. Entries(Touched(c, x)) = Entries(c)
    BY <1>2, TouchedOK
  <2>2. Entries(Forgotten(c, x)) = Entries(c) \ {x}
    BY <1>2, ForgottenOK
  <2> QED BY <2>1, <2>2
<1>5. \A a, b : Before(d.order, a, b) => a # x /\ a \in Entries(c) /\ (b = x \/ Before(c.order, a, b))
  <2> HIDE DEF c, x
  <2>1. CASE x \in Entries(c) /\ Stale(t.node, x, t.ts)
    <3>1. d = Forgotten(c, x)
      BY <2>1
    <3> HIDE DEF d
    <3> QED BY <1>2, <2>1, <3>1, ForgottenBefore
  <2>2. CASE ~(x \in Entries(c) /\ Stale(t.node, x, t.ts))
    <3>1. d = Touched(c, x)
      BY <2>2
    <3> HIDE DEF d
    <3> QED BY <1>2, <3>1, TouchedBefore
  <2> QED BY <2>1, <2>2
<1>6. caches' = [caches EXCEPT ![t.node] = d]
  BY <1>1
<1> HIDE DEF d
<1>7. caches'[t.node] = d /\ \A m \in Nodes : m # t.node => caches'[m] = caches[m]
  BY <1>1, <1>6, OneCache
<1>8. \A n \in Nodes : \A a, b : Before(caches[n].order, a, b) => a \in Entries(caches[n]) /\ b \in Entries(caches[n])
  BY <1>3, BeforeMembers DEF Entries
<1>9. ASSUME NEW n \in Nodes
      PROVE  /\ Entries(caches'[n]) \subseteq Entries(caches[n])
             /\ \A k \in Entries(caches[n]) : ~(t.node = n /\ x = k) => k \in Entries(caches'[n])
             /\ \A a, b : Before(caches'[n].order, a, b) =>
                   /\ a \in Entries(caches[n]) /\ ~(t.node = n /\ x = a)
                   /\ (t.node = n /\ x = b) \/ (b \in Entries(caches[n]) /\ Before(caches[n].order, a, b))
  <2>1. CASE n = t.node
    <3>1. caches'[n] = d /\ caches[n] = c
      BY <1>7, <2>1
    <3>2. \A a, b : Before(c.order, a, b) => a \in Entries(c) /\ b \in Entries(c)
      BY <1>1, <1>8
    <3> HIDE DEF c, x
    <3> QED BY <1>4, <1>5, <2>1, <3>1, <3>2
  <2>2. CASE n # t.node
    <3>1. caches'[n] = caches[n]
      BY <1>7, <2>2
    <3> QED BY <1>8, <2>2, <3>1
  <2> QED BY <2>1, <2>2
<1> HIDE DEF c
<1>10. t.hit <=> (t.key \in Entries(caches[t.node]) /\ ~Stale(t.node, t.key, t.ts))
  BY <1>1
<1> WITNESS t \in ReadRow
<1> QED BY <1>1, <1>9, <1>10
-----------------------------------------------------------------------------
\* Fewer keys take less room.
LEMMA FewerFit ==
    ASSUME sweep \in Sweeps, NEW S \in SUBSET Items, IsFiniteSet(S), NEW T \in SUBSET S
    PROVE  /\ SumFunctionOnSet(ItemSize, T) \in Nat /\ SumFunctionOnSet(ItemSize, S) \in Nat
           /\ SumFunctionOnSet(ItemSize, T) <= SumFunctionOnSet(ItemSize, S)
<1>1. \A k \in S : ItemSize[k] \in Nat
  BY ItemSizeOK
<1> QED BY <1>1, SumSubset

\* What a cache holds, by the sizes of the keys.
LEMMA EntriesSum ==
    ASSUME sweep \in Sweeps, NEW c, Counted(Items, ItemSize, sweep.capacity, c)
    PROVE  /\ IsFiniteSet(Entries(c)) /\ Entries(c) \subseteq Items
           /\ SumFunctionOnSet(ItemSize, Entries(c)) = c.total /\ c.total <= sweep.capacity
           /\ \A k \in Entries(c) :
                 /\ ItemSize[k] + SumFunctionOnSet(ItemSize, Entries(c) \ {k}) = c.total
                 /\ ItemSize[k] <= sweep.capacity
<1>1. AccountOK(Items, c) /\ Exact(c) /\ c.total <= sweep.capacity /\ \A k \in Entries(c) : c.size[k] = ItemSize[k]
  BY DEF Counted
<1>2. IsFiniteSet(Entries(c)) /\ Entries(c) \subseteq Items
  BY <1>1, EntriesFacts
<1>3. SumFunctionOnSet(ItemSize, Entries(c)) = c.total
  <2>1. SumFunctionOnSet(c.size, Entries(c)) = SumFunctionOnSet(ItemSize, Entries(c))
    BY <1>1, <1>2, SumSame
  <2> QED BY <1>1, <2>1 DEF Exact
<1>4. \A k \in Items : ItemSize[k] \in Nat
  BY ItemSizeOK
<1>5. ASSUME NEW k \in Entries(c)
      PROVE  /\ ItemSize[k] + SumFunctionOnSet(ItemSize, Entries(c) \ {k}) = c.total
             /\ ItemSize[k] <= sweep.capacity
  <2>1. \A x \in Entries(c) : ItemSize[x] \in Int
    BY <1>2, <1>4
  <2>2. SumFunctionOnSet(ItemSize, Entries(c)) = ItemSize[k] + SumFunctionOnSet(ItemSize, Entries(c) \ {k})
    BY <1>2, <2>1, SumTakeOut
  <2>3. SumFunctionOnSet(ItemSize, Entries(c) \ {k}) \in Nat
    BY <1>2, FewerFit
  <2>4. ItemSize[k] \in Nat /\ sweep.capacity \in Nat
    BY <1>2, <1>4, SweepFacts
  <2> QED BY <1>1, <1>3, <2>2, <2>3, <2>4
<1> QED BY <1>1, <1>2, <1>3, <1>5

\* An entry fits with all that was read since.
LEMMA EntryFits ==
    ASSUME ReplayTypeOK, SizesKnown, SizeBounded, StampSound, KeptSince, ~putting,
           NEW n \in Nodes, NEW k \in Entries(caches[n])
    PROVE  Prior(n, k, Here) # {} /\ Fits(n, k, Here)
<1> DEFINE c == caches[n]
           S == Since(n, k, Here)
<1>1. Prior(n, k, Here) # {}
  BY DEF StampSound
<1>2. Counted(Items, ItemSize, sweep.capacity, c) /\ sweep \in Sweeps
  BY CountedNodes DEF ReplayTypeOK
<1>3. Here \in 1 .. Here
  BY TouchFacts DEF Here
<1>4. k \notin S
  BY <1>1, <1>3, SinceFinite
<1>5. S \subseteq Entries(c) \ {k}
  BY <1>4 DEF KeptSince, Pending
<1> HIDE DEF S, c
<1>6. /\ IsFiniteSet(Entries(c)) /\ Entries(c) \subseteq Items /\ c.total <= sweep.capacity
      /\ ItemSize[k] + SumFunctionOnSet(ItemSize, Entries(c) \ {k}) = c.total
      /\ k \in Items
  <2>1. k \in Entries(c)
    BY DEF c
  <2> QED BY <1>2, <2>1, EntriesSum
<1>7. Entries(c) \ {k} \in SUBSET Items /\ IsFiniteSet(Entries(c) \ {k})
  BY <1>6, FS_Subset
<1>8. /\ SumFunctionOnSet(ItemSize, S) \in Nat /\ SumFunctionOnSet(ItemSize, Entries(c) \ {k}) \in Nat
      /\ SumFunctionOnSet(ItemSize, S) <= SumFunctionOnSet(ItemSize, Entries(c) \ {k})
  BY <1>2, <1>5, <1>7, FewerFit
<1>9. ItemSize[k] \in Nat /\ sweep.capacity \in Nat
  BY <1>2, <1>6, ItemSizeOK, SweepFacts
<1>10. ItemSize[k] + SumFunctionOnSet(ItemSize, S) <= sweep.capacity
  BY <1>6, <1>8, <1>9
<1> QED BY <1>1, <1>10 DEF Fits, S

\* A get keeps the order, ...
LEMMA GetOrdered ==
    ASSUME ReplayTypeOK, StampSound, Ordered, Get
    PROVE  Ordered'
<1>1. PICK t \in ReadRow :
         /\ touches' = Append(touches, t) /\ sweep' = sweep
         /\ \A n \in Nodes : \A a, b : Before(caches'[n].order, a, b) =>
               /\ a \in Entries(caches[n]) /\ ~(t.node = n /\ t.key = a)
               /\ (t.node = n /\ t.key = b) \/ (b \in Entries(caches[n]) /\ Before(caches[n].order, a, b))
  BY GetOrder
<1>2. Here \in Nat /\ Nodes' = Nodes
  BY <1>1, ReadAdded, SameCell
<1>3. ASSUME NEW n \in Nodes, NEW a, NEW b, Before(caches'[n].order, a, b)
      PROVE  LastRead(n, a, Here)' < LastRead(n, b, Here)'
  <2>1. a \in Entries(caches[n]) /\ ~(t.node = n /\ t.key = a)
    BY <1>1, <1>3
  <2>2. Prior(n, a, Here) # {}
    BY <2>1 DEF StampSound
  <2>3. LastRead(n, a, Here)' = LastRead(n, a, Here) /\ LastRead(n, a, Here) \in 1 .. Here - 1
    BY <1>1, <1>2, <2>1, <2>2, ReadAdded, LastReadOK
  <2>4. CASE t.node = n /\ t.key = b
    <3>1. LastRead(n, b, Here)' = Here
      BY <1>1, <2>4, ReadAdded
    <3> QED BY <1>2, <2>3, <3>1
  <2>5. CASE ~(t.node = n /\ t.key = b)
    <3>1. Before(caches[n].order, a, b)
      BY <1>1, <1>3, <2>5
    <3>2. LastRead(n, b, Here)' = LastRead(n, b, Here)
      BY <1>1, <2>5, ReadAdded
    <3>3. LastRead(n, a, Here) < LastRead(n, b, Here)
      BY <3>1, OrderedIs
    <3> QED BY <2>3, <3>2, <3>3
  <2> QED BY <2>4, <2>5
<1> QED BY <1>2, <1>3, OrderedNext

\* ... and what the caches are to hold, with the exception that is being put;
\* ...
LEMMA GetKept ==
    ASSUME ReplayTypeOK, StampSound, KeptSince, KeptFitting, Get
    PROVE  KeptSince' /\ KeptFitting'
<1>1. PICK t \in ReadRow :
         /\ t.node \in Nodes /\ t.key \in Items /\ t.ts \in Nat /\ t.size \in Nat
         /\ ~putting /\ putting' = TRUE /\ touches' = Append(touches, t) /\ sweep' = sweep
         /\ \A n \in Nodes : Entries(caches'[n]) \subseteq Entries(caches[n])
         /\ \A n \in Nodes : \A k \in Entries(caches[n]) :
               ~(t.node = n /\ t.key = k) => k \in Entries(caches'[n])
  BY GetOrder
<1>2. Nodes' = Nodes /\ Items' = Items /\ ItemSize' = ItemSize
  BY <1>1, SameCell
<1>3. Last(touches') = t
  BY <1>1, ReadAdded
<1>4. \A n, k : ~Pending(n, k) /\ (Pending(n, k)' <=> t.node = n /\ t.key = k)
  BY <1>1, <1>3 DEF Pending
<1>5. Here \in 1 .. Here
  BY TouchFacts DEF Here
<1>6. ASSUME NEW n \in Nodes, NEW k \in Entries(caches'[n]), NEW y \in Since(n, k, Here)'
      PROVE  y \in Entries(caches'[n]) \/ Pending(n, y)'
  <2>1. k \in Entries(caches[n])
    BY <1>1, <1>6
  <2>2. Prior(n, k, Here) # {}
    BY <2>1 DEF StampSound
  <2>3. ~(t.node = n /\ t.key = k)
    BY <1>1, <1>6, SinceStep
  <2>4. Since(n, k, Here)' \subseteq Since(n, k, Here) \cup (IF t.node = n THEN {t.key} ELSE {})
    BY <1>1, <2>2, <2>3, SinceStep
  <2>5. CASE t.node = n /\ t.key = y
    BY <1>4, <2>5
  <2>6. CASE ~(t.node = n /\ t.key = y)
    <3>1. y \in Since(n, k, Here)
      BY <1>6, <2>4, <2>6
    <3>2. y \in Entries(caches[n])
      BY <1>4, <2>1, <3>1 DEF KeptSince
    <3> QED BY <1>1, <2>6, <3>2
  <2> QED BY <2>5, <2>6
<1>7. KeptSince'
  BY <1>2, <1>6 DEF KeptSince
<1>8. ASSUME NEW n \in Nodes, NEW k \in Items, Prior(n, k, Here)' # {},
             ItemSize[k] + SumFunctionOnSet(ItemSize, Since(n, k, Here)') <= sweep.capacity
      PROVE  k \in Entries(caches'[n]) \/ Pending(n, k)'
  <2>1. CASE t.node = n /\ t.key = k
    BY <1>4, <2>1
  <2>2. CASE ~(t.node = n /\ t.key = k)
    <3> DEFINE S == Since(n, k, Here)
               R == IF t.node = n /\ t.size <= sweep.capacity THEN {t.key} ELSE {}
    <3>1. Prior(n, k, Here) # {}
      BY <1>1, <1>8, <2>2, ReadAdded
    <3>2. Since(n, k, Here)' = S \cup R
      BY <1>1, <2>2, <3>1, SinceStep
    <3>3. IsFiniteSet(S) /\ S \subseteq Items
      BY <1>5, <3>1, SinceFinite
    <3>4. IsFiniteSet(R) /\ R \subseteq Items
      BY <1>1, FS_Singleton, FS_EmptySet
    <3>5. sweep \in Sweeps /\ sweep.capacity \in Nat
      BY SweepFacts DEF ReplayTypeOK
    <3> HIDE DEF S, R
    <3>6. IsFiniteSet(S \cup R) /\ S \cup R \in SUBSET Items /\ S \in SUBSET (S \cup R)
      BY <3>3, <3>4, FS_Union
    <3>7. /\ SumFunctionOnSet(ItemSize, S) \in Nat /\ SumFunctionOnSet(ItemSize, S \cup R) \in Nat
          /\ SumFunctionOnSet(ItemSize, S) <= SumFunctionOnSet(ItemSize, S \cup R)
      BY <3>5, <3>6, FewerFit
    <3>8. ItemSize[k] + SumFunctionOnSet(ItemSize, S \cup R) <= sweep.capacity
      BY <1>8, <3>2
    <3>9. ItemSize[k] \in Nat
      BY <3>5, ItemSizeOK
    <3>10. ItemSize[k] + SumFunctionOnSet(ItemSize, S) <= sweep.capacity
      BY <3>5, <3>7, <3>8, <3>9
    <3>11. k \in Entries(caches[n])
      BY <1>4, <3>1, <3>10 DEF KeptFitting, S
    <3> QED BY <1>1, <2>2, <3>11
  <2> QED BY <2>1, <2>2
<1>9. KeptFitting'
  BY <1>1, <1>2, <1>8 DEF KeptFitting
<1> QED BY <1>7, <1>9

\* ... and its answer is the definition's.
LEMMA GetExact ==
    ASSUME ReplayTypeOK, ReplayTypeOK', SizesKnown, SizesKnown', SizeBounded, StampSound,
           KeptSince, KeptFitting, HitsExact, Get
    PROVE  HitsExact'
<1>1. PICK t \in ReadRow :
         /\ t.node \in Nodes /\ t.key \in Items /\ t.ts \in Nat /\ t.size \in Nat
         /\ t.hit <=> (t.key \in Entries(caches[t.node]) /\ ~Stale(t.node, t.key, t.ts))
         /\ ~putting /\ putting' = TRUE /\ touches' = Append(touches, t) /\ sweep' = sweep
  BY GetOrder
<1>2. /\ Here \in Nat /\ DOMAIN touches = 1 .. Here - 1 /\ DOMAIN touches' = 1 .. Here
      /\ touches'[Here] = t /\ \A i \in 1 .. Here - 1 : touches'[i] = touches[i]
  BY <1>1, ReadAdded
<1>3. Items' = Items /\ ItemSize' = ItemSize
  BY <1>1, SameCell
<1>4. \A n, k : ~Pending(n, k)
  BY <1>1 DEF Pending
<1> SUFFICES ASSUME NEW i \in DOMAIN touches' PROVE touches'[i].hit <=> Expected(i)'
  BY DEF HitsExact
<1>5. PICK n, k : n = touches'[i].node /\ k = touches'[i].key
  OBVIOUS
<1>6. Expected(i)' <=> Prior(n, k, i)' # {} /\ Fresh(n, k, i)' /\ Fits(n, k, i)'
  BY <1>5, ExpectedNext
<1>7. i \in 1 .. Here /\ i \in Nat
  BY <1>2
<1>8. Prior(n, k, i)' = Prior(n, k, i) /\ LastRead(n, k, i)' = LastRead(n, k, i)
  BY <1>1, <1>7, ReadAdded
<1>9. ASSUME Prior(n, k, i) # {}
      PROVE  /\ Fits(n, k, i)' <=> Fits(n, k, i)
             /\ LastRead(n, k, i) \in 1 .. i - 1
             /\ Fresh(n, k, i)' <=> (sweep.ttl # None =>
                                        touches'[i].ts - touches[LastRead(n, k, i)].ts <= sweep.ttl)
  <2>1. Since(n, k, i)' = Since(n, k, i)
    BY <1>1, <1>7, <1>9, SinceStep
  <2>2. LastRead(n, k, i) \in 1 .. i - 1
    BY <1>7, <1>9, LastReadOK
  <2>3. touches'[LastRead(n, k, i)] = touches[LastRead(n, k, i)]
    <3>1. LastRead(n, k, i) \in 1 .. Here - 1
      <4>1. Here \in Nat
        BY <1>2
      <4> QED BY <1>7, <2>2, <4>1
    <3> QED BY <1>2, <3>1
  <2>4. Fits(n, k, i)' <=> Fits(n, k, i)
    BY <1>1, <1>3, <2>1 DEF Fits
  <2>5. Fresh(n, k, i)' <=> (sweep.ttl # None =>
                               touches'[i].ts - touches[LastRead(n, k, i)].ts <= sweep.ttl)
    <3>1. Fresh(n, k, i)' <=> (sweep'.ttl # None =>
                                 touches'[i].ts - touches'[LastRead(n, k, i)'].ts <= sweep'.ttl)
      BY DEF Fresh
    <3> QED BY <1>1, <1>8, <2>3, <3>1
  <2> QED BY <2>2, <2>4, <2>5
<1>10. CASE i # Here
  <2>1. i \in DOMAIN touches /\ touches'[i] = touches[i]
    BY <1>2, <1>7, <1>10
  <2>2. Expected(i) <=> Prior(n, k, i) # {} /\ Fresh(n, k, i) /\ Fits(n, k, i)
    BY <1>5, <2>1, ExpectedIs
  <2>3. touches[i].hit <=> Expected(i)
    BY <2>1 DEF HitsExact
  <2>4. Prior(n, k, i) # {} => (Fresh(n, k, i)' <=> Fresh(n, k, i))
    BY <1>9, <2>1 DEF Fresh
  <2> QED BY <1>6, <1>8, <1>9, <2>1, <2>2, <2>3, <2>4
<1>11. CASE i = Here
  <2>1. touches'[i] = t /\ n = t.node /\ k = t.key /\ n \in Nodes /\ k \in Items
    BY <1>1, <1>2, <1>5, <1>11
  <2>2. ASSUME k \in Entries(caches[n])
        PROVE  Prior(n, k, i) # {} /\ Fits(n, k, i)
               /\ last_ts[n][k] = touches[LastRead(n, k, i)].ts
    <3>1. Prior(n, k, Here) # {} /\ Fits(n, k, Here)
      BY <1>1, <2>1, <2>2, EntryFits
    <3>2. last_ts[n][k] = touches[LastRead(n, k, Here)].ts
      BY <1>4, <2>1, <2>2 DEF StampSound
    <3> QED BY <1>11, <3>1, <3>2
  <2>3. ASSUME Prior(n, k, i) # {}, Fits(n, k, i)
        PROVE  k \in Entries(caches[n])
    <3>1. Prior(n, k, Here) # {} /\ Fits(n, k, Here)
      BY <1>11, <2>3
    <3> QED BY <1>4, <2>1, <3>1 DEF KeptFitting, Fits
  <2>4. ASSUME k \in Entries(caches[n])
        PROVE  Fresh(n, k, i)' <=> ~Stale(n, k, t.ts)
    <3>1. Fresh(n, k, i)' <=> (sweep.ttl # None => t.ts - last_ts[n][k] <= sweep.ttl)
      BY <1>9, <2>1, <2>2, <2>4
    <3>2. last_ts[n][k] \in Nat /\ t.ts \in Nat /\ (sweep.ttl # None => sweep.ttl \in Nat)
      BY <1>1, <2>1, SweepFacts DEF ReplayTypeOK
    <3> QED BY <3>1, <3>2 DEF Stale
  <2>5. t.hit <=> k \in Entries(caches[n]) /\ ~Stale(n, k, t.ts)
    BY <1>1, <2>1
  <2>6. CASE k \in Entries(caches[n])
    <3>1. Prior(n, k, i)' # {} /\ Fits(n, k, i)'
      BY <1>8, <1>9, <2>2, <2>6
    <3> QED BY <1>6, <2>1, <2>4, <2>5, <2>6, <3>1
  <2>7. CASE k \notin Entries(caches[n])
    <3>1. ~(Prior(n, k, i)' # {} /\ Fits(n, k, i)')
      BY <1>8, <1>9, <2>3, <2>7
    <3> QED BY <1>6, <2>1, <2>5, <2>7, <3>1
  <2> QED BY <2>6, <2>7
<1> QED BY <1>10, <1>11
-----------------------------------------------------------------------------
\* What put does to the caches, with the order: the read key becomes the newest
\* entry, is left out for good, or is still being put.
LEMMA PutOrder ==
    ASSUME ReplayTypeOK, SizesKnown, SizeBounded, PutAgain \/ PutTooBig \/ PutEvicts \/ PutNew
    PROVE  \E t \in ReadRow :
              LET c == caches[t.node]
                  d == caches'[t.node]
                  x == t.key
              IN  /\ t = Last(touches) /\ Len(touches) \in DOMAIN touches /\ t = touches[Len(touches)]
                  /\ t.node \in Nodes /\ x \in Items /\ putting
                  /\ sweep' = sweep /\ touches' = touches
                  /\ \A n \in Nodes : n # t.node => caches'[n] = caches[n]
                  /\ \A a, b : Before(d.order, a, b) =>
                        (b = x /\ a # x /\ a \in Entries(c)) \/ Before(c.order, a, b)
                  /\ \/ /\ putting' = FALSE
                        /\ Entries(d) = Entries(c) \cup {x}
                     \/ /\ putting' = FALSE /\ ItemSize[x] > sweep.capacity
                        /\ Entries(d) = Entries(c)
                     \/ /\ putting' = putting /\ ItemSize[x] <= sweep.capacity
                        /\ x \notin Entries(c) /\ c.order # <<>>
                        /\ c.total + ItemSize[x] > sweep.capacity
                        /\ Entries(d) = Entries(c) \ {Head(c.order)}
<1>1. PICK t \in ReadRow :
         LET c == caches[t.node]
         IN  /\ t = Last(touches) /\ Len(touches) \in DOMAIN touches /\ t = touches[Len(touches)]
             /\ t.node \in Nodes /\ t.key \in Items /\ t.size \in Nat
             /\ putting /\ UNCHANGED <<sweep, log, todo, touches, warm>>
             /\ \/ /\ t.key \in Entries(c) /\ putting' = FALSE
                   /\ caches' = [caches EXCEPT ![t.node] = Renewed(c, t.key, t.size)]
                \/ /\ t.size > sweep.capacity /\ putting' = FALSE /\ caches' = caches
                \/ /\ t.key \notin Entries(c) /\ t.size <= sweep.capacity
                   /\ c.total + t.size > sweep.capacity /\ putting' = putting
                   /\ c.order # <<>> => caches' = [caches EXCEPT ![t.node] = Forgotten(c, Head(c.order))]
                \/ /\ t.key \notin Entries(c) /\ putting' = FALSE
                   /\ caches' = [caches EXCEPT ![t.node] = Recorded(c, t.key, t.size)]
  BY PutFacts
<1> DEFINE c == caches[t.node]
           x == t.key
<1>2. Counted(Items, ItemSize, sweep.capacity, c) /\ sweep.capacity \in Nat /\ x \in Items
  BY <1>1, CountedNodes, SweepFacts DEF ReplayTypeOK
<1>3. AccountOK(Items, c) /\ Exact(c)
  BY <1>2 DEF Counted
<1>4. t.size = ItemSize[x]
  BY <1>1 DEF SizesKnown
<1> DEFINE Moved(e) == \A a, b : Before(e.order, a, b) =>
                          (b = x /\ a # x /\ a \in Entries(c)) \/ Before(c.order, a, b)
           Rest(e) == \/ putting' = FALSE /\ Entries(e) = Entries(c) \cup {x}
                      \/ putting' = FALSE /\ ItemSize[x] > sweep.capacity /\ Entries(e) = Entries(c)
                      \/ /\ putting' = putting /\ ItemSize[x] <= sweep.capacity
                         /\ x \notin Entries(c) /\ c.order # <<>>
                         /\ c.total + ItemSize[x] > sweep.capacity
                         /\ Entries(e) = Entries(c) \ {Head(c.order)}
           Others == \A n \in Nodes : n # t.node => caches'[n] = caches[n]
<1>5. ASSUME NEW e, caches' = [caches EXCEPT ![t.node] = e] PROVE caches'[t.node] = e /\ Others
  BY <1>1, <1>5, OneCache
<1>6. CASE /\ x \in Entries(c) /\ putting' = FALSE
           /\ caches' = [caches EXCEPT ![t.node] = Renewed(c, x, t.size)]
  <2> DEFINE e == Renewed(c, x, t.size)
  <2>1. Entries(e) = Entries(c) \cup {x} /\ Moved(e)
    <3> DEFINE z == t.size
    <3>1. x \in Items /\ z \in Nat /\ x \in Entries(c) /\ AccountOK(Items, c)
      BY <1>1, <1>3, <1>6
    <3> HIDE DEF c, x, z
    <3>2. Entries(Renewed(c, x, z)) = Entries(c)
      BY <3>1, RenewedOK
    <3>3. \A a, b : Before(Renewed(c, x, z).order, a, b) =>
             (b = x /\ a # x /\ a \in Entries(c)) \/ Before(c.order, a, b)
      BY <3>1, RenewedBefore
    <3> QED BY <3>1, <3>2, <3>3 DEF z
  <2>2. caches' = [caches EXCEPT ![t.node] = e]
    BY <1>6
  <2> HIDE DEF e
  <2>3. caches'[t.node] = e /\ Others
    BY <1>5, <2>2
  <2>4. Rest(e)
    BY <1>6, <2>1
  <2>5. Moved(e)
    BY <2>1
  <2> HIDE DEF Moved, Rest, Others
  <2>6. Moved(caches'[t.node]) /\ Rest(caches'[t.node]) /\ Others
    BY <2>3, <2>4, <2>5
  <2> QED BY <1>1, <2>6 DEF Moved, Rest, Others
<1>7. CASE t.size > sweep.capacity /\ putting' = FALSE /\ caches' = caches
  <2>1. Moved(c) /\ Rest(c) /\ Others /\ caches'[t.node] = c
    BY <1>4, <1>7
  <2> HIDE DEF Moved, Rest, Others
  <2>2. Moved(caches'[t.node]) /\ Rest(caches'[t.node]) /\ Others
    BY <2>1
  <2> QED BY <1>1, <2>2 DEF Moved, Rest, Others
<1>8. CASE /\ x \notin Entries(c) /\ t.size <= sweep.capacity
           /\ c.total + t.size > sweep.capacity /\ putting' = putting
           /\ c.order # <<>> => caches' = [caches EXCEPT ![t.node] = Forgotten(c, Head(c.order))]
  <2> DEFINE h == Head(c.order)
             e == Forgotten(c, h)
  <2>1. c.order # <<>>
    <3> HIDE DEF c
    <3> QED BY <1>1, <1>2, <1>3, <1>8, RoomWhenEmpty
  <2>2. h \in Items /\ h \in Entries(c)
    <3> HIDE DEF c
    <3> QED BY <1>3, <2>1, OldestIsEntry
  <2>3. Entries(e) = Entries(c) \ {h}
    <3> HIDE DEF c, h
    <3> QED BY <1>3, <2>2, ForgottenOK
  <2>4. \A a, b : Before(e.order, a, b) => Before(c.order, a, b)
    <3> HIDE DEF c, h
    <3> QED BY <1>3, <2>2, ForgottenBefore
  <2>5. caches' = [caches EXCEPT ![t.node] = e]
    BY <1>8, <2>1
  <2>6. x \notin Entries(c) /\ ItemSize[x] <= sweep.capacity /\ c.total + ItemSize[x] > sweep.capacity
    BY <1>4, <1>8
  <2> HIDE DEF e
  <2>7. caches'[t.node] = e /\ Others
    BY <1>5, <2>5
  <2>8. Moved(e)
    BY <2>4
  <2>9. Rest(e)
    BY <1>8, <2>1, <2>3, <2>6
  <2> HIDE DEF Moved, Rest, Others
  <2>10. Moved(caches'[t.node]) /\ Rest(caches'[t.node]) /\ Others
    BY <2>7, <2>8, <2>9
  <2> QED BY <1>1, <2>10 DEF Moved, Rest, Others
<1>9. CASE /\ x \notin Entries(c) /\ putting' = FALSE
           /\ caches' = [caches EXCEPT ![t.node] = Recorded(c, x, t.size)]
  <2> DEFINE e == Recorded(c, x, t.size)
  <2>1. Entries(e) = Entries(c) \cup {x} /\ Moved(e)
    <3> DEFINE z == t.size
    <3>1. x \in Items /\ z \in Nat /\ AccountOK(Items, c)
      BY <1>1, <1>3
    <3> HIDE DEF c, x, z
    <3>2. Entries(Recorded(c, x, z)) = Entries(c) \cup {x}
      BY <3>1, RecordedOK
    <3>3. \A a, b : Before(Recorded(c, x, z).order, a, b) =>
             (b = x /\ a # x /\ a \in Entries(c)) \/ Before(c.order, a, b)
      BY <3>1, RecordedBefore
    <3> QED BY <3>1, <3>2, <3>3 DEF z
  <2>2. caches' = [caches EXCEPT ![t.node] = e]
    BY <1>9
  <2> HIDE DEF e
  <2>3. caches'[t.node] = e /\ Others
    BY <1>5, <2>2
  <2>4. Rest(e)
    BY <1>9, <2>1
  <2>5. Moved(e)
    BY <2>1
  <2> HIDE DEF Moved, Rest, Others
  <2>6. Moved(caches'[t.node]) /\ Rest(caches'[t.node]) /\ Others
    BY <2>3, <2>4, <2>5
  <2> QED BY <1>1, <2>6 DEF Moved, Rest, Others
<1> QED BY <1>1, <1>6, <1>7, <1>8, <1>9

\* Nothing is read in a put.
LEMMA SameTouches ==
    ASSUME sweep' = sweep, touches' = touches
    PROVE  /\ \A n, k : /\ Prior(n, k, Here)' = Prior(n, k, Here)
                        /\ LastRead(n, k, Here)' = LastRead(n, k, Here)
                        /\ Since(n, k, Here)' = Since(n, k, Here)
           /\ Here' = Here
           /\ HitsExact => HitsExact'
<1>1. Here' = Here
  BY DEF Here
<1>2. \A n, k, i : Prior(n, k, i)' = Prior(n, k, i)
  BY DEF Prior
<1>3. \A n, k, i : LastRead(n, k, i)' = LastRead(n, k, i)
  BY DEF Prior, LastRead
<1>4. \A n, k, i : Since(n, k, i)' = Since(n, k, i)
  BY DEF Prior, LastRead, Since
<1>5. \A n, k : Prior(n, k, Here)' = Prior(n, k, Here) /\ LastRead(n, k, Here)' = LastRead(n, k, Here)
  BY DEF Prior, LastRead, Here
<1>6. \A n, k : Since(n, k, Here)' = Since(n, k, Here)
  BY DEF Prior, LastRead, Since, Here
<1>7. ReadSize' = ReadSize
  BY DEF ReadSize
<1>8. \A i : Expected(i)' <=> Expected(i)
  BY DEF Expected, Prior, LastRead, Since, ReadSize
<1>9. HitsExact => HitsExact'
  BY <1>8 DEF HitsExact
<1> QED BY <1>1, <1>5, <1>6, <1>9

\* The head of a cache that has no room for what is being put does not fit
\* with what was read since.
LEMMA HeadDoesNotFit ==
    ASSUME ReplayTypeOK, SizesKnown, SizeBounded, StampSound, Ordered, putting,
           NEW n \in Nodes, NEW x \in Items, Len(touches) \in DOMAIN touches,
           touches[Len(touches)].node = n, touches[Len(touches)].key = x,
           x \notin Entries(caches[n]), ItemSize[x] <= sweep.capacity,
           caches[n].order # <<>>, caches[n].total + ItemSize[x] > sweep.capacity
    PROVE  ~(ItemSize[Head(caches[n].order)]
               + SumFunctionOnSet(ItemSize, Since(n, Head(caches[n].order), Here)) <= sweep.capacity)
<1> DEFINE c == caches[n]
           h == Head(c.order)
           rest == Entries(c) \ {h}
           S == Since(n, h, Here)
<1>1. Counted(Items, ItemSize, sweep.capacity, c) /\ sweep \in Sweeps /\ sweep.capacity \in Nat
  BY CountedNodes, SweepFacts DEF ReplayTypeOK
<1>2. AccountOK(Items, c) /\ c.order # <<>>
  BY <1>1 DEF Counted
<1>3. h \in Items /\ h \in Entries(c) /\ x \notin Entries(c)
  <2>1. x \notin Entries(c)
    OBVIOUS
  <2> HIDE DEF c
  <2> QED BY <1>2, <2>1, OldestIsEntry
<1>4. /\ Prior(n, x, Here) # {}
      /\ \A y : y # x /\ Prior(n, y, Here) # {} => LastRead(n, y, Here) < LastRead(n, x, Here)
  BY PendingIsLast
<1>5. \A k \in Entries(c) : Prior(n, k, Here) # {}
  BY DEF StampSound
<1>6. /\ IsFiniteSet(Entries(c)) /\ Entries(c) \subseteq Items
      /\ ItemSize[h] + SumFunctionOnSet(ItemSize, rest) = c.total
      /\ \A k \in Entries(c) : ItemSize[k] <= sweep.capacity
  <2> HIDE DEF c, h
  <2> QED BY <1>1, <1>3, EntriesSum
<1>7. rest \cup {x} \subseteq S
  <2>1. x \in S
    <3> HIDE DEF c, h
    <3>1. h # x /\ Prior(n, h, Here) # {}
      BY <1>3, <1>5
    <3>2. LastRead(n, h, Here) < LastRead(n, x, Here)
      BY <1>4, <3>1
    <3> QED BY <1>4, <3>1, <3>2, AfterSince
  <2>2. ASSUME NEW k \in rest PROVE k \in S
    <3>1. Before(caches[n].order, h, k)
      <4>1. c.order \in Seq(Items) /\ k \in Members(c.order) /\ k # Head(c.order)
        BY <1>2, <2>2 DEF AccountOK, Entries
      <4> HIDE DEF c
      <4>2. Before(c.order, h, k)
        BY <4>1, HeadBefore
      <4> QED BY <4>2 DEF c
    <3> HIDE DEF c, h
    <3>2. LastRead(n, h, Here) < LastRead(n, k, Here)
      BY <3>1, OrderedIs
    <3>3. Prior(n, h, Here) # {} /\ Prior(n, k, Here) # {} /\ ItemSize[k] <= sweep.capacity
      BY <1>3, <1>5, <1>6, <2>2
    <3> QED BY <3>2, <3>3, AfterSince
  <2> QED BY <2>1, <2>2
<1>8. IsFiniteSet(S) /\ S \subseteq Items
  <2>1. Here \in 1 .. Here
    BY TouchFacts DEF Here
  <2>2. Prior(n, h, Here) # {}
    BY <1>3, <1>5
  <2> HIDE DEF h
  <2> QED BY <2>1, <2>2, SinceFinite
<1>9. c.total + ItemSize[x] > sweep.capacity
  OBVIOUS
<1> HIDE DEF S, h, c
<1>10. x \notin rest /\ IsFiniteSet(rest \cup {x}) /\ rest \cup {x} \in SUBSET Items
  <2>1. IsFiniteSet(rest)
    BY <1>6, FS_Subset
  <2> QED BY <1>3, <1>6, <2>1, FS_AddElement
<1>11. /\ SumFunctionOnSet(ItemSize, rest \cup {x}) \in Nat /\ SumFunctionOnSet(ItemSize, S) \in Nat
       /\ SumFunctionOnSet(ItemSize, rest \cup {x}) <= SumFunctionOnSet(ItemSize, S)
  BY <1>1, <1>7, <1>8, FewerFit
<1>12. SumFunctionOnSet(ItemSize, rest \cup {x}) = ItemSize[x] + SumFunctionOnSet(ItemSize, rest)
  <2>1. \A k \in rest \cup {x} : ItemSize[k] \in Int
    BY <1>1, <1>10, ItemSizeOK
  <2>2. (rest \cup {x}) \ {x} = rest
    BY <1>10
  <2> HIDE DEF rest
  <2> QED BY <1>10, <2>1, <2>2, SumTakeOut
<1>13. SumFunctionOnSet(ItemSize, rest) \in Nat /\ ItemSize[h] \in Nat /\ ItemSize[x] \in Nat
  <2>1. rest \in SUBSET (rest \cup {x})
    OBVIOUS
  <2> HIDE DEF rest
  <2> QED BY <1>1, <1>3, <1>10, <2>1, FewerFit, ItemSizeOK
<1> HIDE DEF rest
<1>14. ~(ItemSize[h] + SumFunctionOnSet(ItemSize, S) <= sweep.capacity)
  BY <1>1, <1>6, <1>9, <1>11, <1>12, <1>13
<1> QED BY <1>14 DEF S, h, c

\* A put keeps the order, ...
LEMMA PutOrdered ==
    ASSUME ReplayTypeOK, SizesKnown, SizeBounded, StampSound, Ordered,
           PutAgain \/ PutTooBig \/ PutEvicts \/ PutNew
    PROVE  Ordered'
<1>1. PICK t \in ReadRow :
         /\ Len(touches) \in DOMAIN touches /\ t = touches[Len(touches)]
         /\ sweep' = sweep /\ touches' = touches
         /\ \A n \in Nodes : n # t.node => caches'[n] = caches[n]
         /\ \A a, b : Before(caches'[t.node].order, a, b) =>
               (b = t.key /\ a # t.key /\ a \in Entries(caches[t.node])) \/ Before(caches[t.node].order, a, b)
  BY PutOrder
<1>2. Nodes' = Nodes /\ \A n, k : LastRead(n, k, Here)' = LastRead(n, k, Here)
  BY <1>1, SameCell, SameTouches
<1>3. ASSUME NEW n \in Nodes, NEW a, NEW b, Before(caches'[n].order, a, b)
      PROVE  LastRead(n, a, Here) < LastRead(n, b, Here)
  <2>1. CASE n = t.node /\ b = t.key /\ a # t.key /\ a \in Entries(caches[n])
    <3>1. Prior(n, a, Here) # {}
      BY <2>1 DEF StampSound
    <3>2. \A y : y # b /\ Prior(n, y, Here) # {} => LastRead(n, y, Here) < LastRead(n, b, Here)
      BY <1>1, <2>1, PendingIsLast
    <3> QED BY <2>1, <3>1, <3>2
  <2>2. CASE Before(caches[n].order, a, b)
    BY <2>2, OrderedIs
  <2>3. n # t.node => caches'[n] = caches[n]
    BY <1>1
  <2> QED BY <1>1, <1>3, <2>1, <2>2, <2>3
<1> QED BY <1>2, <1>3, OrderedNext

\* ... and what the caches are to hold.
LEMMA PutKept ==
    ASSUME ReplayTypeOK, SizesKnown, SizeBounded, StampSound, Ordered, KeptSince, KeptFitting,
           PutAgain \/ PutTooBig \/ PutEvicts \/ PutNew
    PROVE  KeptSince' /\ KeptFitting'
<1>1. PICK t \in ReadRow :
         LET c == caches[t.node]
             d == caches'[t.node]
             x == t.key
         IN  /\ t = Last(touches) /\ Len(touches) \in DOMAIN touches /\ t = touches[Len(touches)]
             /\ t.node \in Nodes /\ x \in Items /\ putting
             /\ sweep' = sweep /\ touches' = touches
             /\ \A n \in Nodes : n # t.node => caches'[n] = caches[n]
             /\ \/ putting' = FALSE /\ Entries(d) = Entries(c) \cup {x}
                \/ putting' = FALSE /\ ItemSize[x] > sweep.capacity /\ Entries(d) = Entries(c)
                \/ /\ putting' = putting /\ ItemSize[x] <= sweep.capacity
                   /\ x \notin Entries(c) /\ c.order # <<>>
                   /\ c.total + ItemSize[x] > sweep.capacity
                   /\ Entries(d) = Entries(c) \ {Head(c.order)}
  BY PutOrder
<1> DEFINE c == caches[t.node]
           x == t.key
           h == Head(c.order)
<1>2. Nodes' = Nodes /\ Items' = Items /\ ItemSize' = ItemSize
  BY <1>1, SameCell
<1>3. \A n, k : Prior(n, k, Here)' = Prior(n, k, Here) /\ Since(n, k, Here)' = Since(n, k, Here)
  BY <1>1, SameTouches
<1>4. \A n, k : /\ Pending(n, k) <=> t.node = n /\ x = k
                /\ Pending(n, k)' <=> putting' /\ t.node = n /\ x = k
  BY <1>1 DEF Pending
<1>5. ASSUME NEW n \in Nodes, NEW k \in Entries(caches'[n]), NEW y \in Since(n, k, Here)
      PROVE  y \in Entries(caches'[n]) \/ Pending(n, y)'
  <2>1. CASE n # t.node
    <3>1. caches'[n] = caches[n]
      BY <1>1, <2>1
    <3> QED BY <1>4, <1>5, <2>1, <3>1 DEF KeptSince
  <2>2. CASE n = t.node /\ putting' = FALSE /\ Entries(caches'[n]) = Entries(caches[n]) \cup {x}
    <3>1. CASE k \in Entries(caches[n])
      BY <1>4, <1>5, <2>2, <3>1 DEF KeptSince
    <3>2. CASE k = x
      <4>1. Since(n, k, Here) = {}
        BY <1>1, <2>2, <3>2, PendingIsLast
      <4> QED BY <1>5, <4>1
    <3> QED BY <1>5, <2>2, <3>1, <3>2
  <2>3. CASE /\ n = t.node /\ ItemSize[x] > sweep.capacity
             /\ Entries(caches'[n]) = Entries(caches[n])
    <3>1. y \in Entries(caches[n]) \/ y = x
      BY <1>4, <1>5, <2>3 DEF KeptSince
    <3>2. ItemSize[y] <= sweep.capacity
      <4>1. PICK j \in LastRead(n, k, Here) + 1 .. Here - 1 :
               touches[j].node = n /\ touches[j].key = y /\ touches[j].size <= sweep.capacity
        BY <1>5, SinceIs
      <4>2. j \in DOMAIN touches
        <5>1. Here \in Nat /\ Here = Len(touches) + 1 /\ DOMAIN touches = 1 .. Len(touches) /\ Len(touches) \in Nat
          BY TouchFacts DEF Here
        <5>2. Prior(n, k, Here) # {}
          BY <1>5, <2>3 DEF StampSound
        <5>3. LastRead(n, k, Here) \in 1 .. Here - 1
          BY <5>1, <5>2, LastReadOK
        <5> QED BY <4>1, <5>1, <5>3
      <4> QED BY <4>1, <4>2 DEF SizesKnown
    <3>3. ItemSize[x] \in Nat /\ sweep.capacity \in Nat
      BY <1>1, ItemSizeOK, SweepFacts DEF ReplayTypeOK
    <3> HIDE DEF x
    <3>4. y # x
      BY <2>3, <3>2, <3>3
    <3> QED BY <2>3, <3>1, <3>4
  <2>4. CASE /\ n = t.node /\ putting' = putting /\ x \notin Entries(c) /\ c.order # <<>>
             /\ Entries(caches'[n]) = Entries(c) \ {h}
    <3>1. k \in Entries(c) /\ k # h /\ c = caches[n]
      BY <1>5, <2>4
    <3>2. y \in Entries(c) \/ y = x
      BY <1>4, <1>5, <2>4, <3>1 DEF KeptSince
    <3>3. y # h
      <4>1. AccountOK(Items, c)
        BY <1>1 DEF ReplayTypeOK
      <4>2. c.order \in Seq(Items) /\ k \in Members(c.order) /\ k # Head(c.order)
        BY <3>1, <4>1 DEF AccountOK, Entries
      <4>3. Before(c.order, h, k)
        <5> HIDE DEF c
        <5> QED BY <4>2, HeadBefore
      <4>4. LastRead(n, h, Here) < LastRead(n, k, Here)
        BY <3>1, <4>3, OrderedIs
      <4>5. Prior(n, k, Here) # {} /\ Prior(n, h, Here) # {}
        <5>1. h \in Entries(c)
          <6>1. c.order # <<>>
            BY <2>4
          <6> HIDE DEF c
          <6> QED BY <4>1, <6>1, OldestIsEntry
        <5> QED BY <2>4, <3>1, <5>1 DEF StampSound
      <4>6. LastRead(n, k, Here) < LastRead(n, y, Here)
        BY <1>5, <4>5, SinceAfter
      <4>7. LastRead(n, k, Here) \in Nat /\ LastRead(n, h, Here) \in Nat
        <5>1. Here \in Nat
          BY TouchFacts DEF Here
        <5> QED BY <4>5, <5>1, LastReadOK
      <4> HIDE DEF h
      <4> QED BY <4>4, <4>6, <4>7
    <3>4. CASE y = x
      BY <1>1, <1>4, <2>4, <3>4
    <3>5. CASE y \in Entries(c)
      BY <2>4, <3>3, <3>5
    <3> QED BY <3>2, <3>4, <3>5
  <2> QED BY <1>1, <2>1, <2>2, <2>3, <2>4
<1>6. KeptSince'
  BY <1>2, <1>3, <1>5 DEF KeptSince
<1>7. ASSUME NEW n \in Nodes, NEW k \in Items, Prior(n, k, Here) # {},
             ItemSize[k] + SumFunctionOnSet(ItemSize, Since(n, k, Here)) <= sweep.capacity
      PROVE  k \in Entries(caches'[n]) \/ Pending(n, k)'
  <2>1. k \in Entries(caches[n]) \/ (t.node = n /\ x = k)
    BY <1>4, <1>7 DEF KeptFitting
  <2>2. CASE n # t.node
    <3>1. caches'[n] = caches[n]
      BY <1>1, <2>2
    <3> QED BY <2>1, <2>2, <3>1
  <2>3. CASE n = t.node /\ Entries(caches'[n]) = Entries(caches[n]) \cup {x}
    BY <2>1, <2>3
  <2>4. CASE /\ n = t.node /\ ItemSize[x] > sweep.capacity
             /\ Entries(caches'[n]) = Entries(caches[n])
    <3>1. k # x
      <4>1. sweep \in Sweeps /\ sweep.capacity \in Nat
        BY SweepFacts DEF ReplayTypeOK
      <4>2. Here \in 1 .. Here
        BY TouchFacts DEF Here
      <4>3. IsFiniteSet(Since(n, k, Here)) /\ Since(n, k, Here) \in SUBSET Items
        BY <1>7, <4>2, SinceFinite
      <4>4. SumFunctionOnSet(ItemSize, Since(n, k, Here)) \in Nat /\ ItemSize[k] \in Nat
        BY <4>1, <4>3, FewerFit, ItemSizeOK
      <4> HIDE DEF x
      <4> QED BY <1>7, <2>4, <4>1, <4>4
    <3> QED BY <2>1, <2>4, <3>1
  <2>5. CASE /\ n = t.node /\ putting' = putting /\ ItemSize[x] <= sweep.capacity
             /\ x \notin Entries(c) /\ c.order # <<>>
             /\ c.total + ItemSize[x] > sweep.capacity
             /\ Entries(caches'[n]) = Entries(c) \ {h}
    <3>1. CASE k = x
      BY <1>1, <1>4, <2>5, <3>1
    <3>2. CASE k # x
      <4>1. k \in Entries(c)
        BY <2>1, <2>5, <3>2
      <4>2. ~(ItemSize[h] + SumFunctionOnSet(ItemSize, Since(n, h, Here)) <= sweep.capacity)
        BY <1>1, <2>5, HeadDoesNotFit
      <4>3. k # h
        <5> HIDE DEF h
        <5> QED BY <1>7, <4>2
      <4> QED BY <2>5, <4>1, <4>3
    <3> QED BY <3>1, <3>2
  <2> QED BY <1>1, <2>2, <2>3, <2>4, <2>5
<1>8. KeptFitting'
  BY <1>1, <1>2, <1>3, <1>7 DEF KeptFitting
<1> QED BY <1>6, <1>8
-----------------------------------------------------------------------------
\* The invariant of the hits: of an empty log ...
LEMMA RecencyInit == ReplayInit => RecencyInv
<1> SUFFICES ASSUME ReplayInit PROVE RecencyInv
  OBVIOUS
<1>1. SizeInv
  BY SizeInit
<1>2. touches = <<>> /\ \A n \in Nodes : caches[n] = Empty(Items)
  BY DEF ReplayInit
<1>3. \A n \in Nodes : Entries(caches[n]) = {} /\ DOMAIN caches[n].order = {}
  BY <1>2, EmptyOK DEF Empty
<1>4. DOMAIN touches = {} /\ Here = 1
  BY <1>2 DEF Here
<1>5. \A n, k : Prior(n, k, Here) = {}
  <2>1. 1 .. Here - 1 = {}
    BY <1>4
  <2> QED BY <2>1 DEF Prior
<1>6. Ordered /\ KeptSince /\ KeptFitting /\ HitsExact
  BY <1>3, <1>4, <1>5 DEF Ordered, KeptSince, KeptFitting, HitsExact
<1> QED BY <1>1, <1>6 DEF RecencyInv

\* A start reads nothing and caches nothing.
LEMMA SameRecency ==
    ASSUME sweep' = sweep, touches' = touches, caches' = caches, putting' = putting,
           Ordered, KeptSince, KeptFitting, HitsExact
    PROVE  Ordered' /\ KeptSince' /\ KeptFitting' /\ HitsExact'
<1>1. Nodes' = Nodes /\ Items' = Items /\ ItemSize' = ItemSize
  BY SameCell
<1>2. /\ \A n, k : /\ Prior(n, k, Here)' = Prior(n, k, Here)
                   /\ LastRead(n, k, Here)' = LastRead(n, k, Here)
                   /\ Since(n, k, Here)' = Since(n, k, Here)
      /\ HitsExact'
  BY SameTouches
<1>3. \A n, k : Pending(n, k)' <=> Pending(n, k)
  BY DEF Pending
<1>4. Ordered'
  BY <1>1, <1>2, OrderedIs, OrderedNext
<1>5. KeptSince'
  BY <1>1, <1>2, <1>3 DEF KeptSince
<1>6. KeptFitting'
  BY <1>1, <1>2, <1>3 DEF KeptFitting
<1> QED BY <1>2, <1>4, <1>5, <1>6

\* ... and of every step.
LEMMA RecencyStep == RecencyInv /\ [ReplayNext]_replayVars => RecencyInv'
<1> SUFFICES ASSUME RecencyInv, [ReplayNext]_replayVars PROVE RecencyInv'
  OBVIOUS
<1>1. SizeInv /\ SizeInv'
  BY SizeStep DEF RecencyInv
<1>2. ReplayTypeOK /\ ReplayTypeOK' /\ StampSound
  BY <1>1 DEF SizeInv, BaselineInv
<1>3. sweep' = sweep
  BY DEF ReplayNext, Start, Get, PutAgain, PutTooBig, PutEvicts, PutNew, replayVars
<1>4. OneSize' = OneSize
  BY <1>3, SameCell
<1> SUFFICES ASSUME OneSize PROVE Ordered' /\ KeptSince' /\ KeptFitting' /\ HitsExact'
  BY <1>1, <1>4 DEF RecencyInv
<1>5. SizesKnown /\ SizesKnown' /\ SizeBounded
  BY <1>1, <1>4 DEF SizeInv
<1>6. Ordered /\ KeptSince /\ KeptFitting /\ HitsExact
  BY DEF RecencyInv
<1>7. ASSUME NEW h \in sweep.hosts, NEW m \in Models, NEW d \in Delays, Start(h, m, d)
      PROVE  Ordered' /\ KeptSince' /\ KeptFitting' /\ HitsExact'
  <2>1. touches' = touches /\ caches' = caches /\ putting' = putting
    BY <1>7 DEF Start
  <2> QED BY <1>3, <1>6, <2>1, SameRecency
<1>8. CASE Get
  <2>1. Ordered'
    BY <1>2, <1>6, <1>8, GetOrdered
  <2>2. KeptSince' /\ KeptFitting'
    BY <1>2, <1>6, <1>8, GetKept
  <2>3. HitsExact'
    BY <1>2, <1>5, <1>6, <1>8, GetExact
  <2> QED BY <2>1, <2>2, <2>3
<1>9. CASE PutAgain \/ PutTooBig \/ PutEvicts \/ PutNew
  <2>1. Ordered'
    BY <1>2, <1>5, <1>6, <1>9, PutOrdered
  <2>2. KeptSince' /\ KeptFitting'
    BY <1>2, <1>5, <1>6, <1>9, PutKept
  <2>3. HitsExact'
    <3>1. touches' = touches
      BY <1>9 DEF PutAgain, PutTooBig, PutEvicts, PutNew
    <3> QED BY <1>3, <1>6, <3>1, SameTouches
  <2> QED BY <2>1, <2>2, <2>3
<1>10. CASE UNCHANGED replayVars
  <2>1. touches' = touches /\ caches' = caches /\ putting' = putting
    BY <1>10 DEF replayVars
  <2> QED BY <1>3, <1>6, <2>1, SameRecency
<1> QED BY <1>7, <1>8, <1>9, <1>10 DEF ReplayNext

\* The summary counts the hits of the definition, if they are the hits.
LEMMA ExactHits == HitsExact => ReplayExact
<1> SUFFICES ASSUME HitsExact PROVE ReplayExact
  OBVIOUS
<1>1. \A i \in DOMAIN touches : touches[i].hit <=> Expected(i)
  BY DEF HitsExact
<1>2. { i \in DOMAIN touches : touches[i].hit } = { i \in DOMAIN touches : Expected(i) }
  BY <1>1
<1>3. Summary.hit = Weighed({ i \in DOMAIN touches : touches[i].hit })
  BY DEF Summary
<1> QED BY <1>1, <1>2, <1>3 DEF ReplayExact

\* When every key has one size, replay's get and put, step by step, find exactly
\* the hits that the recency of the reads, the TTL and the capacity define, and
\* so does the summary.
THEOREM ReplayHits == ReplaySpec => [](OneSize => ReplayExact)
<1>1. RecencyInv => (OneSize => ReplayExact)
  BY ExactHits DEF RecencyInv
<1> QED BY <1>1, RecencyInit, RecencyStep, PTL DEF ReplaySpec
=============================================================================
