--------------------------- MODULE ManifestCache ---------------------------
(***************************************************************************)
(* ManifestCache (shim-go/manifests.go) as the reconstruction handler      *)
(* (shim-go/reconstruction.go) uses it: a manifest that CAS answers is     *)
(* stored, and served again while CAS is unreachable.                      *)
(*                                                                         *)
(* Put writes the file before it takes the mutex, Get takes no mutex at    *)
(* all, and trimLocked removes files under it: the order of the list and   *)
(* the files on disk are changed at different moments.                     *)
(***************************************************************************)
EXTENDS RecencyList, FiniteSets

CONSTANTS Handlers,    \* reconstruction goroutines
          NoHandler,   \* no goroutine
          Paths,       \* manifest files: one per version, file id and range
          NoPath,      \* no file
          MaxEntries,  \* MANIFEST_CACHE_MAX_ENTRIES, 0 for no cap
          Faults,      \* what may go wrong, see below
          MaxCrashes   \* bound: how often the process dies

AllFaults == {"disk",    \* writeCacheFileAtomic fails
              "remove",  \* os.Remove fails
              "crash"}   \* the process dies

ASSUME HandlersAssumption == NoHandler \notin Handlers
ASSUME PathsAssumption == IsFiniteSet(Paths) /\ NoPath \notin Paths
ASSUME FaultsAssumption == Faults \subseteq AllFaults
ASSUME NumbersAssumption == MaxEntries \in Nat /\ MaxCrashes \in Nat

VARIABLES pc,        \* where each handler is
          path,      \* the manifest it was asked for
          reply,     \* what it has answered
          disk,      \* the manifest files there are
          order,     \* the eviction order; known is the set of its members
          mu,        \* who holds the mutex
          victim,    \* the trimmed file that is still to be removed
          answered,  \* history: manifests that clients have been given
          leftover,  \* history: files that os.Remove has failed to remove
                     \* and that have not been listed since
          crashes    \* crashes so far

vars == <<pc, path, reply, disk, order, mu, victim, answered, leftover, crashes>>
-----------------------------------------------------------------------------
Goto(h, l) == pc' = [pc EXCEPT ![h] = l]

\* A freshly started shim without manifests.
Init ==
    /\ pc = [h \in Handlers |-> "idle"]
    /\ path = [h \in Handlers |-> NoPath]
    /\ reply = [h \in Handlers |-> "none"]
    /\ disk = {}
    /\ order = <<>>
    /\ mu = NoHandler
    /\ victim = NoPath
    /\ answered = {}
    /\ leftover = {}
    /\ crashes = 0

\* CAS answers with a manifest, which is rewritten and handed to Put.
Online(h, p) ==
    /\ pc[h] = "idle"
    /\ Goto(h, "write")
    /\ path' = [path EXCEPT ![h] = p]
    /\ reply' = [reply EXCEPT ![h] = "none"]
    /\ UNCHANGED <<disk, order, mu, victim, answered, leftover, crashes>>

\* CAS answers with an error, which is passed on, or with a manifest that
\* cannot be rewritten, which is a 502; in neither case is the cached manifest
\* looked at.
Refused(h) ==
    /\ pc[h] = "idle"
    /\ \E r \in {"upstream", "502"} : reply' = [reply EXCEPT ![h] = r]
    /\ UNCHANGED <<pc, path, disk, order, mu, victim, answered, leftover, crashes>>

\* CAS is unreachable: the cached manifest of exactly this range, or 502.
Offline(h, p) ==
    /\ pc[h] = "idle"
    /\ reply' = [reply EXCEPT ![h] = IF p \in disk THEN "200" ELSE "502"]
    /\ path' = [path EXCEPT ![h] = p]
    /\ UNCHANGED <<pc, disk, order, mu, victim, answered, leftover, crashes>>

\* The handler's reply to a manifest that CAS delivered.
Reply(h) ==
    /\ Goto(h, "idle")
    /\ reply' = [reply EXCEPT ![h] = "200"]
    /\ answered' = answered \cup {path[h]}

\* writeCacheFileAtomic succeeds; without a cap that is all Put does.
Write(h) ==
    /\ pc[h] = "write"
    /\ disk' = disk \cup {path[h]}
    /\ IF MaxEntries = 0
       THEN Reply(h)
       ELSE Goto(h, "lock") /\ UNCHANGED <<reply, answered>>
    /\ UNCHANGED <<path, order, mu, victim, leftover, crashes>>

\* The write fails; the client gets its manifest all the same.
WriteFails(h) ==
    /\ "disk" \in Faults
    /\ pc[h] = "write"
    /\ Reply(h)
    /\ UNCHANGED <<path, disk, order, mu, victim, leftover, crashes>>

\* Mutant: a manifest that is stored again gets a second place in the list.
LockDoubled(h) ==
    /\ pc[h] = "lock"
    /\ mu = NoHandler
    /\ mu' = h
    /\ order' = Append(order, path[h])
    /\ leftover' = leftover \ {path[h]}
    /\ Goto(h, "trim")
    /\ UNCHANGED <<path, reply, disk, victim, answered, crashes>>

\* Mutant: a manifest that is stored again is not listed.
LockForgetful(h) ==
    /\ pc[h] = "lock"
    /\ mu = NoHandler
    /\ mu' = h
    /\ order' = IF path[h] \in disk THEN order ELSE Append(order, path[h])
    /\ leftover' = leftover \ {path[h]}
    /\ Goto(h, "trim")
    /\ UNCHANGED <<path, reply, disk, victim, answered, crashes>>

\* Put takes the mutex and lists the file, unless it is known; a file that is
\* written again keeps its place.
Lock(h) ==
    /\ pc[h] = "lock"
    /\ mu = NoHandler
    /\ mu' = h
    /\ order' = IF path[h] \in Members(order) THEN order ELSE Append(order, path[h])
    /\ leftover' = leftover \ {path[h]}
    /\ Goto(h, "trim")
    /\ UNCHANGED <<path, reply, disk, victim, answered, crashes>>

\* Mutant: the trim starts one entry early.
TrimPopEarly(h) ==
    /\ pc[h] = "trim"
    /\ Len(order) > MaxEntries - 1
    /\ victim' = Head(order)
    /\ order' = Tail(order)
    /\ Goto(h, "unlink")
    /\ UNCHANGED <<path, reply, disk, mu, answered, leftover, crashes>>

\* trimLocked takes the oldest entry off the list ...
TrimPop(h) ==
    /\ pc[h] = "trim"
    /\ Len(order) > MaxEntries
    /\ victim' = Head(order)
    /\ order' = Tail(order)
    /\ Goto(h, "unlink")
    /\ UNCHANGED <<path, reply, disk, mu, answered, leftover, crashes>>

\* Mutant: a file that could not be removed goes back to the head of the list.
UnlinkRetried(h, removed) ==
    /\ pc[h] = "unlink"
    /\ removed \/ "remove" \in Faults
    /\ disk' = IF removed THEN disk \ {victim} ELSE disk
    /\ order' = IF removed THEN order ELSE <<victim>> \o order
    /\ victim' = NoPath
    /\ Goto(h, "trim")
    /\ UNCHANGED <<path, reply, mu, answered, leftover, crashes>>

\* ... and removes its file; the outcome of os.Remove is ignored, and a file
\* that it leaves stays off the list.
Unlink(h, removed) ==
    /\ pc[h] = "unlink"
    /\ removed \/ "remove" \in Faults
    /\ disk' = IF removed THEN disk \ {victim} ELSE disk
    /\ leftover' = IF removed THEN leftover \ {victim} ELSE leftover \cup {victim}
    /\ victim' = NoPath
    /\ Goto(h, "trim")
    /\ UNCHANGED <<path, reply, order, mu, answered, crashes>>

\* Mutant: one round is taken to be enough.
TrimDoneOnce(h) ==
    /\ pc[h] = "trim"
    /\ mu' = NoHandler
    /\ Reply(h)
    /\ UNCHANGED <<path, disk, order, victim, leftover, crashes>>

\* The list fits, Put returns and the client gets its manifest.
TrimDone(h) ==
    /\ pc[h] = "trim"
    /\ Len(order) <= MaxEntries
    /\ mu' = NoHandler
    /\ Reply(h)
    /\ UNCHANGED <<path, disk, order, victim, leftover, crashes>>
-----------------------------------------------------------------------------
\* The files of a directory in some order of their times.
Orders(S) == { s \in [1 .. Cardinality(S) -> S] : Distinct(s) }

\* What trimming leaves of the seeded list s: its newest entries.
Seeded(s) ==
    IF Len(s) > MaxEntries THEN SubSeq(s, Len(s) - MaxEntries + 1, Len(s)) ELSE s

\* The process dies, and the next one seeds its list from the directory
\* (seedFromDisk) and trims it, before it serves.
Crash ==
    /\ "crash" \in Faults /\ crashes < MaxCrashes
    /\ crashes' = crashes + 1
    /\ pc' = [h \in Handlers |-> "idle"]
    /\ path' = [h \in Handlers |-> NoPath]
    /\ reply' = [h \in Handlers |-> "none"]
    /\ mu' = NoHandler
    /\ victim' = NoPath
    /\ IF MaxEntries = 0
       THEN order' = <<>> /\ leftover' = {} /\ UNCHANGED disk
       ELSE \E s \in Orders(disk), left \in SUBSET disk :
                /\ left = {} \/ "remove" \in Faults
                /\ order' = Seeded(s)
                /\ disk' = Members(Seeded(s)) \cup left
                /\ leftover' = left \ Members(Seeded(s))
    /\ UNCHANGED answered
-----------------------------------------------------------------------------
\* A step of the handler h between its request and its reply.
Put(h) ==
    \/ Write(h) \/ WriteFails(h) \/ Lock(h)
    \/ TrimPop(h) \/ \E b \in BOOLEAN : Unlink(h, b)
    \/ TrimDone(h)

Next ==
    \/ \E h \in Handlers, p \in Paths : Online(h, p) \/ Offline(h, p)
    \/ \E h \in Handlers : Refused(h) \/ Put(h)
    \/ Crash

\* The Go scheduler runs every handler that can run, and sync.Mutex does not
\* starve a waiter.
Fairness == \A h \in Handlers : SF_vars(Put(h))

Spec == Init /\ [][Next]_vars /\ Fairness
-----------------------------------------------------------------------------
Locked == {"trim", "unlink"}

\* The type of the state; the list names each file once.
TypeOK ==
    /\ pc \in [Handlers -> {"idle", "write", "lock"} \cup Locked]
    /\ path \in [Handlers -> Paths \cup {NoPath}]
    /\ reply \in [Handlers -> {"none", "200", "502", "upstream"}]
    /\ disk \in SUBSET Paths
    /\ order \in Seq(Paths) /\ Distinct(order)
    /\ mu \in Handlers \cup {NoHandler}
    /\ victim \in Paths \cup {NoPath}
    /\ answered \in SUBSET Paths
    /\ leftover \in SUBSET Paths
    /\ crashes \in 0 .. MaxCrashes

\* Nobody finds more than MaxEntries manifests listed when the mutex is free,
\* and none is trimmed while the rest would fit: what the list is short of its
\* limit is room.
CapExact ==
    MaxEntries > 0 =>
        /\ mu = NoHandler => Len(order) <= MaxEntries
        /\ victim # NoPath => Len(order) >= MaxEntries

\* A manifest file that is not listed is about to be (written, Put waits for
\* the mutex), about to go, or one that os.Remove has failed on since it was
\* listed last: with two Puts of one file and a trim in between, and through
\* crashes, no other file is left that no trim will ever remove.
NoUntrackedManifest ==
    MaxEntries > 0 =>
        \A p \in disk :
            \/ p \in Members(order)
            \/ victim = p
            \/ p \in leftover
            \/ \E h \in Handlers : pc[h] = "lock" /\ path[h] = p

\* If the cap holds every manifest there is and the disk works, a client that
\* asks while CAS is unreachable gets what some client was given before, and
\* what an earlier process was given too.
OfflineAfterAnswer ==
    ("disk" \notin Faults /\ (MaxEntries = 0 \/ Cardinality(Paths) <= MaxEntries)) =>
        answered \subseteq disk

\* Every request for a manifest is answered: other Puts take the mutex in
\* between, and trimLocked ends though os.Remove may fail every time.
Answered == \A h \in Handlers : pc[h] # "idle" ~> pc[h] = "idle"
-----------------------------------------------------------------------------
\* The parts of the inductive invariant that are not properties themselves.

\* The mutex is held exactly by the handler that trims, and a trimmed file is
\* pending exactly while that handler is about to remove it.  Without a cap
\* nobody comes that far.
MutexSound ==
    /\ \A h \in Handlers : pc[h] \in Locked \cup {"lock"} => MaxEntries > 0
    /\ mu # NoHandler => pc[mu] \in Locked
    /\ \A h \in Handlers : pc[h] \in Locked => mu = h
    /\ \A h \in Handlers : pc[h] = "unlink" => victim \in Paths
    /\ \A h \in Handlers : pc[h] = "trim" => victim = NoPath
    /\ mu = NoHandler => victim = NoPath

\* A handler at work was asked for a manifest.
PathSet == \A h \in Handlers : pc[h] # "idle" => path[h] \in Paths

\* If everything fits, nothing is trimmed, and what a handler is about to
\* answer is on disk.
KeptWhenRoom ==
    ("disk" \notin Faults /\ (MaxEntries = 0 \/ Cardinality(Paths) <= MaxEntries)) =>
        \A h \in Handlers :
            /\ pc[h] # "unlink"
            /\ pc[h] \in {"lock", "trim"} => path[h] \in disk

\* The invariant that ManifestCacheProofs proves inductive.
IInv ==
    /\ TypeOK /\ PathSet /\ MutexSound
    /\ CapExact /\ NoUntrackedManifest
    /\ KeptWhenRoom /\ OfflineAfterAnswer
=============================================================================
