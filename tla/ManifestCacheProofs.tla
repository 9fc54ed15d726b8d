------------------------ MODULE ManifestCacheProofs ------------------------
(***************************************************************************)
(* The safety theorems of ManifestCache: for any number of handlers and    *)
(* manifests, any cap, under any faults.                                   *)
(***************************************************************************)
EXTENDS ManifestCache, ListTheorems

\* What seeding and trimming at startup leave: a list without repetition that
\* fits, and that is complete if everything fits.
LEMMA SeededOK ==
    ASSUME TypeOK, NEW s \in Orders(disk)
    PROVE  /\ Seeded(s) \in Seq(Paths) /\ Distinct(Seeded(s))
           /\ Len(Seeded(s)) <= MaxEntries
           /\ Members(Seeded(s)) \subseteq disk
           /\ Cardinality(Paths) <= MaxEntries => Members(Seeded(s)) = disk
<1> DEFINE n == Cardinality(disk)
           z == Seeded(s)
<1>1. disk \subseteq Paths /\ IsFiniteSet(disk) /\ n <= Cardinality(Paths)
  BY PathsAssumption, FS_Subset DEF TypeOK
<1>2. n \in Nat /\ Cardinality(Paths) \in Nat /\ MaxEntries \in Nat
  BY <1>1, PathsAssumption, NumbersAssumption, FS_CardinalityType
<1>3. s \in Seq(disk) /\ Len(s) = n /\ Distinct(s)
  <2>1. s \in [1 .. n -> disk] /\ Distinct(s)
    BY DEF Orders
  <2> QED BY <1>2, <2>1
<1> HIDE DEF n
<1>4. Members(s) = disk
  BY <1>1, <1>3, DistinctBounded DEF n
<1>5. /\ z \in Seq(disk) /\ Distinct(z) /\ Len(z) <= MaxEntries
      /\ Members(z) \subseteq disk
      /\ Len(s) <= MaxEntries => z = s
  <2>1. CASE Len(s) > MaxEntries
    <3>1. z = SubSeq(s, Len(s) - MaxEntries + 1, Len(s)) /\ MaxEntries \in 0 .. Len(s)
      BY <1>2, <1>3, <2>1 DEF Seeded
    <3> HIDE DEF z
    <3>2. /\ z \in Seq(disk) /\ Distinct(z) /\ Len(z) = MaxEntries
          /\ Members(z) \subseteq Members(s)
      BY <1>3, <3>1, SuffixOK
    <3> QED BY <1>2, <1>3, <1>4, <2>1, <3>2
  <2>2. CASE ~(Len(s) > MaxEntries)
    BY <1>2, <1>3, <1>4, <2>2 DEF Seeded
  <2> QED BY <2>1, <2>2
<1> HIDE DEF z
<1>6. z \in Seq(Paths)
  BY <1>1, <1>5
<1>7. Cardinality(Paths) <= MaxEntries => Members(z) = disk
  BY <1>1, <1>2, <1>3, <1>4, <1>5
<1> QED BY <1>5, <1>6, <1>7 DEF z

\* The path that Put lists is not listed twice.
LEMMA ListedOK ==
    ASSUME NEW list \in Seq(Paths), Distinct(list), NEW p \in Paths,
           NEW l, l = IF p \in Members(list) THEN list ELSE Append(list, p)
    PROVE  /\ l \in Seq(Paths) /\ Distinct(l)
           /\ Members(l) = Members(list) \cup {p}
<1>1. CASE p \in Members(list)
  BY <1>1
<1>2. CASE p \notin Members(list)
  BY <1>2, PushOK
<1> QED BY <1>1, <1>2

\* Every step keeps the types.
LEMMA TypeStep ==
    ASSUME TypeOK, PathSet, MutexSound, [Next]_vars
    PROVE  TypeOK'
<1> USE DEF TypeOK, Locked
<1>1. ASSUME NEW h \in Handlers, NEW p \in Paths, Online(h, p)
      PROVE  TypeOK'
  BY <1>1 DEF Online, Goto
<1>2. ASSUME NEW h \in Handlers, NEW p \in Paths, Offline(h, p)
      PROVE  TypeOK'
  BY <1>2 DEF Offline
<1>3. ASSUME NEW h \in Handlers, Refused(h)
      PROVE  TypeOK'
  BY <1>3 DEF Refused
<1>4. ASSUME NEW h \in Handlers, Write(h)
      PROVE  TypeOK'
  <2>1. path[h] \in Paths
    BY <1>4 DEF Write, PathSet
  <2>2. CASE MaxEntries = 0
    BY <1>4, <2>1, <2>2 DEF Write, Reply, Goto
  <2>3. CASE MaxEntries # 0
    BY <1>4, <2>1, <2>3 DEF Write, Goto
  <2> QED BY <2>2, <2>3
<1>5. ASSUME NEW h \in Handlers, WriteFails(h)
      PROVE  TypeOK'
  <2>1. path[h] \in Paths
    BY <1>5 DEF WriteFails, PathSet
  <2> QED BY <1>5, <2>1 DEF WriteFails, Reply, Goto
<1>6. ASSUME NEW h \in Handlers, Lock(h)
      PROVE  TypeOK'
  <2>1. path[h] \in Paths
    BY <1>6 DEF Lock, PathSet
  <2>2. order' \in Seq(Paths) /\ Distinct(order')
    BY <1>6, <2>1, ListedOK DEF Lock
  <2> QED BY <1>6, <2>2 DEF Lock, Goto
<1>7. ASSUME NEW h \in Handlers, TrimPop(h)
      PROVE  TypeOK'
  <2>1. order # <<>>
    BY <1>7, NumbersAssumption DEF TrimPop
  <2>2. /\ Head(order) \in Paths
        /\ Tail(order) \in Seq(Paths) /\ Distinct(Tail(order))
    BY <2>1, TailOK
  <2> QED BY <1>7, <2>2 DEF TrimPop, Goto
<1>8. ASSUME NEW h \in Handlers, NEW b \in BOOLEAN, Unlink(h, b)
      PROVE  TypeOK'
  <2>1. victim \in Paths => leftover' \subseteq Paths
    BY <1>8 DEF Unlink
  <2>2. victim \in Paths
    BY <1>8 DEF Unlink, MutexSound
  <2> QED BY <1>8, <2>1, <2>2 DEF Unlink, Goto
<1>9. ASSUME NEW h \in Handlers, TrimDone(h)
      PROVE  TypeOK'
  <2>1. path[h] \in Paths
    BY <1>9 DEF TrimDone, PathSet
  <2> QED BY <1>9, <2>1 DEF TrimDone, Reply, Goto
<1>10. CASE Crash
  <2>1. /\ order' \in Seq(Paths) /\ Distinct(order')
        /\ disk' \subseteq Paths /\ leftover' \subseteq Paths
    <3>1. CASE MaxEntries = 0
      BY <1>10, <3>1 DEF Crash, Distinct
    <3>2. CASE MaxEntries # 0
      BY <1>10, <3>2, SeededOK DEF Crash
    <3> QED BY <3>1, <3>2
  <2> QED BY <1>10, <2>1, NumbersAssumption DEF Crash
<1>11. CASE UNCHANGED vars
  BY <1>11 DEF vars
<1> QED BY <1>1, <1>2, <1>3, <1>4, <1>5, <1>6, <1>7, <1>8, <1>9,
     <1>10, <1>11 DEF Next, Put

\* Every step keeps the discipline of the mutex.
LEMMA MutexStep ==
    ASSUME TypeOK, PathSet, MutexSound, [Next]_vars
    PROVE  PathSet' /\ MutexSound'
<1> USE DEF PathSet, MutexSound, Locked
<1>0. /\ pc \in [Handlers -> {"idle", "write", "lock", "trim", "unlink"}]
      /\ path \in [Handlers -> Paths \cup {NoPath}]
      /\ order \in Seq(Paths) /\ Distinct(order)
      /\ NoHandler \notin Handlers /\ NoPath \notin Paths
      /\ MaxEntries \in Nat
  BY HandlersAssumption, PathsAssumption, NumbersAssumption DEF TypeOK, Locked
<1>1. ASSUME NEW h \in Handlers, NEW p \in Paths, Online(h, p)
      PROVE  PathSet' /\ MutexSound'
  BY <1>1, <1>0 DEF Online, Goto
<1>2. ASSUME NEW h \in Handlers, NEW p \in Paths, Offline(h, p)
      PROVE  PathSet' /\ MutexSound'
  BY <1>2, <1>0 DEF Offline
<1>3. ASSUME NEW h \in Handlers, Refused(h)
      PROVE  PathSet' /\ MutexSound'
  BY <1>3, <1>0 DEF Refused
<1>4. ASSUME NEW h \in Handlers, Write(h)
      PROVE  PathSet' /\ MutexSound'
  <2>1. path' = path /\ mu' = mu /\ victim' = victim /\ pc[h] = "write"
    BY <1>4 DEF Write
  <2>2. \/ pc' = [pc EXCEPT ![h] = "idle"]
        \/ pc' = [pc EXCEPT ![h] = "lock"] /\ MaxEntries > 0
    BY <1>4, <1>0 DEF Write, Reply, Goto
  <2>3. PathSet'
    BY <1>0, <2>1, <2>2
  <2>4. MutexSound'
    <3>1. CASE pc' = [pc EXCEPT ![h] = "idle"]
      BY <1>0, <2>1, <3>1
    <3>2. CASE pc' = [pc EXCEPT ![h] = "lock"] /\ MaxEntries > 0
      BY <1>0, <2>1, <3>2
    <3> QED BY <2>2, <3>1, <3>2
  <2> QED BY <2>3, <2>4
<1>5. ASSUME NEW h \in Handlers, WriteFails(h)
      PROVE  PathSet' /\ MutexSound'
  BY <1>5, <1>0 DEF WriteFails, Reply, Goto
<1>6. ASSUME NEW h \in Handlers, Lock(h)
      PROVE  PathSet' /\ MutexSound'
  BY <1>6, <1>0 DEF Lock, Goto
<1>7. ASSUME NEW h \in Handlers, TrimPop(h)
      PROVE  PathSet' /\ MutexSound'
  <2>1. Head(order) \in Paths
    BY <1>7, <1>0, TailOK DEF TrimPop
  <2> QED BY <1>7, <1>0, <2>1 DEF TrimPop, Goto
<1>8. ASSUME NEW h \in Handlers, NEW b \in BOOLEAN, Unlink(h, b)
      PROVE  PathSet' /\ MutexSound'
  BY <1>8, <1>0 DEF Unlink, Goto
<1>9. ASSUME NEW h \in Handlers, TrimDone(h)
      PROVE  PathSet' /\ MutexSound'
  BY <1>9, <1>0 DEF TrimDone, Reply, Goto
<1>10. CASE Crash
  BY <1>10, <1>0 DEF Crash
<1>11. CASE UNCHANGED vars
  BY <1>11, <1>0 DEF vars
<1> QED BY <1>1, <1>2, <1>3, <1>4, <1>5, <1>6, <1>7, <1>8, <1>9,
     <1>10, <1>11 DEF Next, Put

\* Every step keeps the list within the cap.
LEMMA CapStep ==
    ASSUME TypeOK, PathSet, MutexSound, CapExact, [Next]_vars
    PROVE  CapExact'
<1> USE DEF CapExact
<1>0. /\ pc \in [Handlers -> {"idle", "write", "lock", "trim", "unlink"}]
      /\ path \in [Handlers -> Paths \cup {NoPath}]
      /\ order \in Seq(Paths) /\ Distinct(order)
      /\ NoHandler \notin Handlers /\ NoPath \notin Paths
      /\ MaxEntries \in Nat
  BY HandlersAssumption, PathsAssumption, NumbersAssumption DEF TypeOK, Locked
<1>1. ASSUME NEW h \in Handlers, NEW p \in Paths, Online(h, p)
      PROVE  CapExact'
  BY <1>1, <1>0 DEF Online, Goto
<1>2. ASSUME NEW h \in Handlers, NEW p \in Paths, Offline(h, p)
      PROVE  CapExact'
  BY <1>2, <1>0 DEF Offline
<1>3. ASSUME NEW h \in Handlers, Refused(h)
      PROVE  CapExact'
  BY <1>3, <1>0 DEF Refused
<1>4. ASSUME NEW h \in Handlers, Write(h)
      PROVE  CapExact'
  BY <1>4, <1>0 DEF Write, Reply, Goto
<1>5. ASSUME NEW h \in Handlers, WriteFails(h)
      PROVE  CapExact'
  BY <1>5, <1>0 DEF WriteFails, Reply, Goto
<1>6. ASSUME NEW h \in Handlers, Lock(h)
      PROVE  CapExact'
  <2>1. victim' = NoPath /\ mu' # NoHandler
    BY <1>6, <1>0 DEF Lock, MutexSound
  <2> QED BY <2>1
<1>7. ASSUME NEW h \in Handlers, TrimPop(h)
      PROVE  CapExact'
  <2>1. Len(order') >= MaxEntries
    BY <1>7, <1>0 DEF TrimPop
  <2>2. mu' # NoHandler
    BY <1>7, <1>0 DEF TrimPop, MutexSound, Locked
  <2> QED BY <2>1, <2>2
<1>8. ASSUME NEW h \in Handlers, NEW b \in BOOLEAN, Unlink(h, b)
      PROVE  CapExact'
  <2>1. victim' = NoPath /\ mu' # NoHandler
    BY <1>8, <1>0 DEF Unlink, MutexSound, Locked
  <2> QED BY <2>1
<1>9. ASSUME NEW h \in Handlers, TrimDone(h)
      PROVE  CapExact'
  <2>1. victim' = NoPath /\ Len(order') <= MaxEntries
    BY <1>9 DEF TrimDone, MutexSound
  <2> QED BY <2>1
<1>10. CASE Crash
  <2>1. MaxEntries > 0 => Len(order') <= MaxEntries
    BY <1>10, <1>0, SeededOK DEF Crash
  <2> QED BY <1>10, <2>1 DEF Crash
<1>11. CASE UNCHANGED vars
  BY <1>11, <1>0 DEF vars
<1> QED BY <1>1, <1>2, <1>3, <1>4, <1>5, <1>6, <1>7, <1>8, <1>9,
     <1>10, <1>11 DEF Next, Put

\* Every step leaves no manifest file untracked.
LEMMA TrackStep ==
    ASSUME TypeOK, PathSet, MutexSound, NoUntrackedManifest,
           MaxEntries > 0, [Next]_vars
    PROVE  NoUntrackedManifest'
<1> USE DEF NoUntrackedManifest
<1>0. /\ pc \in [Handlers -> {"idle", "write", "lock", "trim", "unlink"}]
      /\ path \in [Handlers -> Paths \cup {NoPath}]
      /\ order \in Seq(Paths) /\ Distinct(order)
      /\ NoHandler \notin Handlers /\ NoPath \notin Paths
      /\ MaxEntries \in Nat
  BY HandlersAssumption, PathsAssumption, NumbersAssumption DEF TypeOK, Locked
<1>1. ASSUME NEW h \in Handlers, NEW p \in Paths, Online(h, p)
      PROVE  NoUntrackedManifest'
  BY <1>1, <1>0 DEF Online, Goto
<1>2. ASSUME NEW h \in Handlers, NEW p \in Paths, Offline(h, p)
      PROVE  NoUntrackedManifest'
  BY <1>2, <1>0 DEF Offline
<1>3. ASSUME NEW h \in Handlers, Refused(h)
      PROVE  NoUntrackedManifest'
  BY <1>3, <1>0 DEF Refused
<1>4. ASSUME NEW h \in Handlers, Write(h)
      PROVE  NoUntrackedManifest'
  BY <1>4, <1>0 DEF Write, Goto
<1>5. ASSUME NEW h \in Handlers, WriteFails(h)
      PROVE  NoUntrackedManifest'
  BY <1>5, <1>0 DEF WriteFails, Reply, Goto
<1>6. ASSUME NEW h \in Handlers, Lock(h)
      PROVE  NoUntrackedManifest'
  <2>1. Members(order') = Members(order) \cup {path[h]}
    BY <1>6, <1>0, ListedOK DEF Lock, PathSet
  <2> QED BY <1>6, <1>0, <2>1 DEF Lock, Goto
<1>7. ASSUME NEW h \in Handlers, TrimPop(h)
      PROVE  NoUntrackedManifest'
  <2>1. Members(order') = Members(order) \ {victim'}
    BY <1>7, <1>0, TailOK DEF TrimPop
  <2>2. victim = NoPath /\ disk \subseteq Paths
    BY <1>7 DEF TrimPop, MutexSound, TypeOK
  <2> QED BY <1>7, <1>0, <2>1, <2>2 DEF TrimPop, Goto
<1>8. ASSUME NEW h \in Handlers, NEW b \in BOOLEAN, Unlink(h, b)
      PROVE  NoUntrackedManifest'
  <2>1. CASE b
    BY <1>8, <1>0, <2>1 DEF Unlink, Goto
  <2>2. CASE ~b
    BY <1>8, <1>0, <2>2 DEF Unlink, Goto
  <2> QED BY <2>1, <2>2
<1>9. ASSUME NEW h \in Handlers, TrimDone(h)
      PROVE  NoUntrackedManifest'
  BY <1>9, <1>0 DEF TrimDone, Reply, Goto
<1>10. CASE Crash
  <2>0. MaxEntries # 0
    BY <1>0, NumbersAssumption
  <2>1. PICK s \in Orders(disk), left \in SUBSET disk :
          /\ left = {} \/ "remove" \in Faults
          /\ order' = Seeded(s)
          /\ disk' = Members(Seeded(s)) \cup left
          /\ leftover' = left \ Members(Seeded(s))
    BY <1>10, <2>0, Zenon DEF Crash
  <2> QED BY <2>1
<1>11. CASE UNCHANGED vars
  BY <1>11, <1>0 DEF vars
<1> QED BY <1>1, <1>2, <1>3, <1>4, <1>5, <1>6, <1>7, <1>8, <1>9,
     <1>10, <1>11 DEF Next, Put

\* Every step keeps what clients were given, if everything fits.
LEMMA KeptStep ==
    ASSUME TypeOK, PathSet, MutexSound, KeptWhenRoom, OfflineAfterAnswer,
           "disk" \notin Faults, MaxEntries = 0 \/ Cardinality(Paths) <= MaxEntries, [Next]_vars
    PROVE  KeptWhenRoom' /\ OfflineAfterAnswer'
<1> USE DEF KeptWhenRoom, OfflineAfterAnswer
<1>0. /\ pc \in [Handlers -> {"idle", "write", "lock", "trim", "unlink"}]
      /\ path \in [Handlers -> Paths \cup {NoPath}]
      /\ order \in Seq(Paths) /\ Distinct(order)
      /\ NoHandler \notin Handlers /\ NoPath \notin Paths
      /\ MaxEntries \in Nat
  BY HandlersAssumption, PathsAssumption, NumbersAssumption DEF TypeOK, Locked
<1>1. ASSUME NEW h \in Handlers, NEW p \in Paths, Online(h, p)
      PROVE  KeptWhenRoom' /\ OfflineAfterAnswer'
  BY <1>1, <1>0 DEF Online, Goto
<1>2. ASSUME NEW h \in Handlers, NEW p \in Paths, Offline(h, p)
      PROVE  KeptWhenRoom' /\ OfflineAfterAnswer'
  BY <1>2, <1>0 DEF Offline
<1>3. ASSUME NEW h \in Handlers, Refused(h)
      PROVE  KeptWhenRoom' /\ OfflineAfterAnswer'
  BY <1>3, <1>0 DEF Refused
<1>4. ASSUME NEW h \in Handlers, Write(h)
      PROVE  KeptWhenRoom' /\ OfflineAfterAnswer'
  <2>1. CASE MaxEntries = 0
    BY <1>4, <1>0, <2>1 DEF Write, Reply, Goto
  <2>2. CASE MaxEntries # 0
    BY <1>4, <1>0, <2>2 DEF Write, Goto
  <2> QED BY <2>1, <2>2
<1>5. ASSUME NEW h \in Handlers, WriteFails(h)
      PROVE  KeptWhenRoom' /\ OfflineAfterAnswer'
  BY <1>5, <1>0 DEF WriteFails, Reply, Goto
<1>6. ASSUME NEW h \in Handlers, Lock(h)
      PROVE  KeptWhenRoom' /\ OfflineAfterAnswer'
  BY <1>6, <1>0 DEF Lock, Goto
<1>7. ASSUME NEW h \in Handlers, TrimPop(h)
      PROVE  KeptWhenRoom' /\ OfflineAfterAnswer'
  <2>1. Len(order) <= Cardinality(Paths)
    BY <1>0, PathsAssumption, DistinctBounded
  <2>2. Cardinality(Paths) \in Nat /\ Len(order) \in Nat
    BY <1>0, PathsAssumption, FS_CardinalityType
  <2>3. MaxEntries # 0
    BY <1>7, <1>0 DEF TrimPop, MutexSound, Locked
  <2> QED BY <1>7, <1>0, <2>1, <2>2, <2>3 DEF TrimPop
<1>8. ASSUME NEW h \in Handlers, NEW b \in BOOLEAN, Unlink(h, b)
      PROVE  KeptWhenRoom' /\ OfflineAfterAnswer'
  BY <1>8, <1>0 DEF Unlink, Goto
<1>9. ASSUME NEW h \in Handlers, TrimDone(h)
      PROVE  KeptWhenRoom' /\ OfflineAfterAnswer'
  BY <1>9, <1>0 DEF TrimDone, Reply, Goto
<1>10. CASE Crash
  <2>1. disk' = disk
    <3>1. CASE MaxEntries = 0
      BY <1>10, <3>1 DEF Crash
    <3>2. CASE MaxEntries # 0
      BY <1>10, <3>2, SeededOK DEF Crash
    <3> QED BY <3>1, <3>2
  <2> QED BY <1>10, <1>0, <2>1 DEF Crash
<1>11. CASE UNCHANGED vars
  BY <1>11, <1>0 DEF vars
<1> QED BY <1>1, <1>2, <1>3, <1>4, <1>5, <1>6, <1>7, <1>8, <1>9,
     <1>10, <1>11 DEF Next, Put

\* A shim that has just started satisfies the invariant.
LEMMA InitIInv == Init => IInv
<1> SUFFICES ASSUME Init PROVE IInv
  OBVIOUS
<1>1. TypeOK /\ PathSet /\ MutexSound
  BY NumbersAssumption DEF Init, TypeOK, PathSet, MutexSound, Locked, Distinct
<1>2. CapExact /\ NoUntrackedManifest
  BY NumbersAssumption DEF Init, CapExact, NoUntrackedManifest
<1>3. KeptWhenRoom /\ OfflineAfterAnswer
  BY DEF Init, KeptWhenRoom, OfflineAfterAnswer
<1> QED BY <1>1, <1>2, <1>3 DEF IInv

\* Every step keeps the invariant.
LEMMA NextIInv == IInv /\ [Next]_vars => IInv'
<1> SUFFICES ASSUME IInv, [Next]_vars PROVE IInv'
  OBVIOUS
<1>1. /\ TypeOK /\ PathSet /\ MutexSound /\ CapExact /\ NoUntrackedManifest
      /\ KeptWhenRoom /\ OfflineAfterAnswer
  BY DEF IInv
<1>2. TypeOK' /\ PathSet' /\ MutexSound' /\ CapExact'
  BY <1>1, TypeStep, MutexStep, CapStep
<1>3. NoUntrackedManifest'
  <2>1. CASE MaxEntries > 0
    BY <1>1, <2>1, TrackStep
  <2>2. CASE ~(MaxEntries > 0)
    BY <2>2, NumbersAssumption DEF NoUntrackedManifest
  <2> QED BY <2>1, <2>2
<1>4. KeptWhenRoom' /\ OfflineAfterAnswer'
  <2> DEFINE room == /\ "disk" \notin Faults
                     /\ MaxEntries = 0 \/ Cardinality(Paths) <= MaxEntries
  <2>1. CASE room
    BY <1>1, <2>1, KeptStep
  <2>2. CASE ~room
    BY <2>2 DEF KeptWhenRoom, OfflineAfterAnswer
  <2> QED BY <2>1, <2>2
<1> QED BY <1>2, <1>3, <1>4 DEF IInv

\* The invariant holds throughout.
LEMMA InvariantHolds == Spec => []IInv
BY InitIInv, NextIInv, PTL DEF Spec

\* The list of manifests never names a file twice (Put, trimLocked,
\* seedFromDisk), and the rest of the state has its type.
THEOREM ManifestType == Spec => []TypeOK
<1>1. IInv => TypeOK
  BY DEF IInv
<1> QED BY <1>1, InvariantHolds, PTL

\* The cap holds whenever the mutex is free, and trimLocked takes nothing
\* that would fit.
THEOREM ManifestCap == Spec => []CapExact
<1>1. IInv => CapExact
  BY DEF IInv
<1> QED BY <1>1, InvariantHolds, PTL

\* Every manifest file is listed, in transit or one that os.Remove has failed
\* on, though Put writes outside the mutex and processes die.
THEOREM ManifestTracked == Spec => []NoUntrackedManifest
<1>1. IInv => NoUntrackedManifest
  BY DEF IInv
<1> QED BY <1>1, InvariantHolds, PTL

\* If everything fits and the disk works, what a client was given is there
\* for the next client while CAS is unreachable, in this process and in
\* later ones (reconstruction's offline path).
THEOREM ManifestOffline == Spec => []OfflineAfterAnswer
<1>1. IInv => OfflineAfterAnswer
  BY DEF IInv
<1> QED BY <1>1, InvariantHolds, PTL
============================================================================
