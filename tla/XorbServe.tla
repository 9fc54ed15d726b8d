----------------------------- MODULE XorbServe -----------------------------
(***************************************************************************)
(* GET and HEAD /xorb/xorbs/default/{hash} of one shim: getXorb in         *)
(* shim-go/xorb.go with the fetch pool (server.go), the singleflight group *)
(* and the Tier 1 accountant it shares among all requests.                 *)
(*                                                                         *)
(* Every request is a goroutine.  Its program counter stops wherever the   *)
(* code can be overtaken: between looking for the file and touching the    *)
(* LRU, before joining a flight, at the fetch pool, at each system call of *)
(* the atomic write, at lruCache.mu, and between an eviction's accounting  *)
(* and its os.Remove.  A request id is reused once it has been answered.   *)
(*                                                                         *)
(* What happens outside the process is nondeterministic: whether a peer or *)
(* the CDN delivers, when a client disconnects, which system call fails,   *)
(* when the process dies.  Faults says which of these happen at all.       *)
(***************************************************************************)
EXTENDS LruAccount, FiniteSets

CONSTANTS Keys,         \* cache file names, one per (hash, range)
          Req,          \* request goroutines
          NoReq,        \* no goroutine
          Kinds,        \* "get" of a client, "peer" GET, "head" probe
          BodySize,     \* bytes of one range
          MaxBytes,     \* Tier 1 byte budget, 0 when it is disabled
          Slots,        \* MAX_INFLIGHT_FETCHES
          Peering,      \* whether PEERS names another shim
          Faults,       \* what may go wrong, see below
          MaxLate,      \* bound: lost hedges that have yet to ask for a slot
          MaxCrashes    \* bound: how often the process dies

AllFaults == {"cancel",  \* a client disconnects
              "cdn",     \* no signed url is known, none works, a body breaks
              "disk",    \* a step of the atomic write fails
              "remove",  \* os.Remove of an evicted file fails
              "floor",   \* the volume is below the disk-free watermark
              "crash"}   \* the process dies

ASSUME ReqAssumption == IsFiniteSet(Req) /\ NoReq \notin Req
ASSUME KeysAssumption == IsFiniteSet(Keys) /\ NoKey \notin Keys
ASSUME KindsAssumption == Kinds \subseteq {"get", "peer", "head"}
ASSUME SizeAssumption == BodySize \in Nat \ {0} /\ MaxBytes \in Nat
ASSUME SlotsAssumption == Slots \in Nat \ {0}
ASSUME FaultsAssumption == Faults \subseteq AllFaults /\ Peering \in BOOLEAN
ASSUME BoundsAssumption == MaxLate \in Nat /\ MaxCrashes \in Nat

VARIABLES pc,        \* where each goroutine is
          key,       \* the range it was asked for
          kind,      \* which kind of request it serves
          live,      \* whether its client is still connected
          slot,      \* whether its flight holds a fetch slot
          fired,     \* hedges its flight has fired
          result,    \* what its flight ends with
          reply,     \* what it has answered
          owner,     \* singleflight: who leads the flight of a range
          inflight,  \* tokens in the fetch semaphore
          stray,     \* tokens of lost hedges that are still unwinding
          late,      \* lost hedges that have not asked for a token yet
          file,      \* the cache file of each range
          tmp,       \* the temp file a goroutine is writing
          lru,       \* the Tier 1 account
          mu,        \* who holds lruCache.mu
          victim,    \* the evicted entry whose file is still to be removed
          crashes    \* crashes so far

request == <<key, kind>>
flight == <<slot, fired, result, owner>>
pool == <<inflight, stray, late>>
account == <<lru, mu, victim>>
vars == <<pc, request, live, flight, reply, pool, file, tmp, account, crashes>>
-----------------------------------------------------------------------------
\* Where a flight's leader can be, in the order of the code.
Fetching == {"peers", "acquire", "fetch"}
Storing == {"create", "write", "rename"}
Locked == {"evict", "unlink"}
Leading == Fetching \cup Storing \cup {"record"} \cup Locked \cup {"land"}

PCs == {"idle", "lookup", "touch", "join", "wait"} \cup Leading

Errors == {"409", "500", "502", "503"}
Results == Errors \cup {"none", "ok"}
Replies == Errors \cup {"none", "HIT", "MISS", "200", "404"}
Contents == {"absent", "partial", "whole"}

Goto(r, l) == pc' = [pc EXCEPT ![r] = l]

\* The handler writes its response and returns.
Answer(r, c) ==
    /\ Goto(r, "idle")
    /\ reply' = [reply EXCEPT ![r] = c]
    /\ live' = [live EXCEPT ![r] = TRUE]

\* The flight's function returns error c.
Fail(r, c) ==
    /\ Goto(r, "land")
    /\ result' = [result EXCEPT ![r] = c]
-----------------------------------------------------------------------------
\* A freshly started shim with an empty cache directory.
Init ==
    /\ pc = [r \in Req |-> "idle"]
    /\ key \in [Req -> Keys] /\ \A r, s \in Req : key[r] = key[s]
    /\ kind = [r \in Req |-> "get"]
    /\ live = [r \in Req |-> TRUE]
    /\ slot = [r \in Req |-> FALSE]
    /\ fired = [r \in Req |-> 0]
    /\ result = [r \in Req |-> "none"]
    /\ reply = [r \in Req |-> "none"]
    /\ owner = [k \in Keys |-> NoReq]
    /\ inflight = 0
    /\ stray = 0
    /\ late = 0
    /\ file = [k \in Keys |-> "absent"]
    /\ tmp = [r \in Req |-> "absent"]
    /\ lru = Empty(Keys)
    /\ mu = NoReq
    /\ victim = NoKey
    /\ crashes = 0

\* A request with a Range header arrives.
Arrive(r, k, kd) ==
    /\ pc[r] = "idle"
    /\ Goto(r, "lookup")
    /\ key' = [key EXCEPT ![r] = k]
    /\ kind' = [kind EXCEPT ![r] = kd]
    /\ reply' = [reply EXCEPT ![r] = "none"]
    /\ UNCHANGED <<live, flight, pool, file, tmp, account, crashes>>

\* The client goes away: r.Context() is cancelled.
Disconnect(r) ==
    /\ "cancel" \in Faults
    /\ pc[r] # "idle" /\ live[r]
    /\ live' = [live EXCEPT ![r] = FALSE]
    /\ UNCHANGED <<pc, request, flight, reply, pool, file, tmp, account,
                   crashes>>

\* os.Stat or os.Open finds the file: the request will be a hit whatever
\* happens to the file from here on.
LookupHit(r) ==
    /\ pc[r] = "lookup"
    /\ file[key[r]] # "absent"
    /\ Goto(r, "touch")
    /\ UNCHANGED <<request, live, flight, reply, pool, file, tmp, account,
                   crashes>>

\* The file is not there.  A client's GET goes on to the flight; a probe or a
\* peer's GET is answered 404 and fetches nothing.
LookupMiss(r) ==
    /\ pc[r] = "lookup"
    /\ file[key[r]] = "absent"
    /\ IF kind[r] = "get"
       THEN Goto(r, "join") /\ UNCHANGED <<reply, live>>
       ELSE Answer(r, "404")
    /\ UNCHANGED <<request, flight, pool, file, tmp, account, crashes>>

\* lru.Touch waits for the mutex, then the hit is served.
Touch(r) ==
    /\ pc[r] = "touch"
    /\ mu = NoReq
    /\ lru' = Touched(lru, key[r])
    /\ Answer(r, IF kind[r] = "head" THEN "200" ELSE "HIT")
    /\ UNCHANGED <<request, flight, pool, file, tmp, mu, victim, crashes>>

\* Mutant: the flight is started without looking for one.
LeadAlways(r) ==
    /\ pc[r] = "join"
    /\ owner' = [owner EXCEPT ![key[r]] = r]
    /\ Goto(r, IF Peering THEN "peers" ELSE "acquire")
    /\ UNCHANGED <<request, live, slot, fired, result, reply, pool, file, tmp,
                   account, crashes>>

\* sf.Do finds no flight for the range and runs its function.
Lead(r) ==
    /\ pc[r] = "join"
    /\ owner[key[r]] = NoReq
    /\ owner' = [owner EXCEPT ![key[r]] = r]
    /\ Goto(r, IF Peering THEN "peers" ELSE "acquire")
    /\ UNCHANGED <<request, live, slot, fired, result, reply, pool, file, tmp,
                   account, crashes>>

\* sf.Do finds a flight for the range and waits for it, whatever becomes of
\* the waiting client.
Follow(r) ==
    /\ pc[r] = "join"
    /\ owner[key[r]] # NoReq
    /\ Goto(r, "wait")
    /\ UNCHANGED <<request, live, flight, reply, pool, file, tmp, account,
                   crashes>>
-----------------------------------------------------------------------------
(***************************************************************************)
(* Tier 1.5, fetchFromPeer.  A flight runs up to two races, against the    *)
(* sticky peer and against the probe's winner.  A race may fire one hedge, *)
(* which takes a slot only if one is free at once.  Which race is running  *)
(* and why a peer fails are left to chance.                                *)
(***************************************************************************)

MaxRaces == 2

\* The head start is over: cdnGet runs, or finds the pool full and fails.
HedgeFires(r) ==
    /\ pc[r] = "peers"
    /\ fired[r] < MaxRaces /\ ~slot[r]
    /\ fired' = [fired EXCEPT ![r] = @ + 1]
    /\ IF inflight < Slots
       THEN /\ inflight' = inflight + 1
            /\ slot' = [slot EXCEPT ![r] = TRUE]
       ELSE UNCHANGED <<inflight, slot>>
    /\ UNCHANGED <<pc, request, live, result, owner, reply, stray, late, file,
                   tmp, account, crashes>>

\* The peer delivers.  A hedge that is still running has lost: it is
\* cancelled, and keeps its slot until its goroutine has unwound.
PeerServes(r) ==
    /\ pc[r] = "peers"
    /\ Goto(r, "create")
    /\ stray' = stray + (IF slot[r] THEN 1 ELSE 0)
    /\ slot' = [slot EXCEPT ![r] = FALSE]
    /\ UNCHANGED <<request, live, fired, result, owner, reply, inflight, late,
                   file, tmp, account, crashes>>

\* The head start is over and the hedge's goroutine is started, but the peer
\* delivers before that goroutine runs.
PeerServesFirst(r) ==
    /\ pc[r] = "peers"
    /\ fired[r] < MaxRaces /\ ~slot[r]
    /\ late < MaxLate
    /\ late' = late + 1
    /\ Goto(r, "create")
    /\ UNCHANGED <<request, live, flight, reply, inflight, stray, file, tmp,
                   account, crashes>>

\* Mutant: the hedge's slot is not given back when it wins.
HedgeServesAndKeeps(r) ==
    /\ pc[r] = "peers" /\ slot[r]
    /\ Goto(r, "create")
    /\ slot' = [slot EXCEPT ![r] = FALSE]
    /\ UNCHANGED <<request, live, fired, result, owner, reply, pool, file, tmp,
                   account, crashes>>

\* The hedge delivers first; cdnGet has released its slot.
HedgeServes(r) ==
    /\ pc[r] = "peers" /\ slot[r]
    /\ Goto(r, "create")
    /\ slot' = [slot EXCEPT ![r] = FALSE]
    /\ inflight' = inflight - 1
    /\ UNCHANGED <<request, live, fired, result, owner, reply, stray, late,
                   file, tmp, account, crashes>>

\* The hedge fails; the race waits for its peer.
HedgeFails(r) ==
    /\ pc[r] = "peers" /\ slot[r]
    /\ "cdn" \in Faults \/ ~live[r]
    /\ slot' = [slot EXCEPT ![r] = FALSE]
    /\ inflight' = inflight - 1
    /\ UNCHANGED <<pc, request, live, fired, result, owner, reply, stray, late,
                   file, tmp, account, crashes>>

\* No peer has the range, or every race lost both sides.
PeersFail(r) ==
    /\ pc[r] = "peers" /\ ~slot[r]
    /\ Goto(r, "acquire")
    /\ UNCHANGED <<request, live, flight, reply, pool, file, tmp, account,
                   crashes>>

\* The goroutine of a lost hedge notices the cancellation.
StrayUnwinds ==
    /\ stray > 0
    /\ stray' = stray - 1
    /\ inflight' = inflight - 1
    /\ UNCHANGED <<pc, request, live, flight, reply, late, file, tmp, account,
                   crashes>>

\* The goroutine of a lost hedge asks for a slot only now that its race is
\* decided; if it gets one it holds it until it notices the cancellation.
LateHedge ==
    /\ late > 0
    /\ late' = late - 1
    /\ IF inflight < Slots
       THEN inflight' = inflight + 1 /\ stray' = stray + 1
       ELSE UNCHANGED <<inflight, stray>>
    /\ UNCHANGED <<pc, request, live, flight, reply, file, tmp, account,
                   crashes>>
-----------------------------------------------------------------------------
\* The plain CDN path.

\* acquire gets a slot, even for a client that has gone.
Acquire(r) ==
    /\ pc[r] = "acquire"
    /\ inflight < Slots
    /\ inflight' = inflight + 1
    /\ slot' = [slot EXCEPT ![r] = TRUE]
    /\ Goto(r, "fetch")
    /\ UNCHANGED <<request, live, fired, result, owner, reply, stray, late,
                   file, tmp, account, crashes>>

\* acquire returns because the leader's client has gone.
AcquireGivesUp(r) ==
    /\ pc[r] = "acquire"
    /\ ~live[r]
    /\ Fail(r, "503")
    /\ UNCHANGED <<request, live, slot, fired, owner, reply, pool, file, tmp,
                   account, crashes>>

\* A signed url works and its body is read to the end.
FetchServes(r) ==
    /\ pc[r] = "fetch"
    /\ Goto(r, "create")
    /\ UNCHANGED <<request, live, flight, reply, pool, file, tmp, account,
                   crashes>>

\* No signed url is known (409); or none works, or the body breaks off, for
\* which the end of the leader's client is reason enough (502).
FetchFails(r, c) ==
    /\ pc[r] = "fetch"
    /\ \/ "cdn" \in Faults /\ c \in {"409", "502"}
       \/ ~live[r] /\ c = "502"
    /\ Fail(r, c)
    /\ UNCHANGED <<request, live, slot, fired, owner, reply, pool, file, tmp,
                   account, crashes>>
-----------------------------------------------------------------------------
\* writeCacheFileAtomic.

\* Mutant: the body is written in place.
CreateInPlace(r) ==
    /\ pc[r] = "create"
    /\ tmp' = [tmp EXCEPT ![r] = "partial"]
    /\ file' = [file EXCEPT ![key[r]] = "partial"]
    /\ Goto(r, "write")
    /\ UNCHANGED <<request, live, flight, reply, pool, account, crashes>>

CreateTemp(r) ==
    /\ pc[r] = "create"
    /\ tmp' = [tmp EXCEPT ![r] = "partial"]
    /\ Goto(r, "write")
    /\ UNCHANGED <<request, live, flight, reply, pool, file, account, crashes>>

WriteTemp(r) ==
    /\ pc[r] = "write"
    /\ tmp' = [tmp EXCEPT ![r] = "whole"]
    /\ Goto(r, "rename")
    /\ UNCHANGED <<request, live, flight, reply, pool, file, account, crashes>>

Rename(r) ==
    /\ pc[r] = "rename"
    /\ file' = [file EXCEPT ![key[r]] = tmp[r]]
    /\ tmp' = [tmp EXCEPT ![r] = "absent"]
    /\ Goto(r, "record")
    /\ UNCHANGED <<request, live, flight, reply, pool, account, crashes>>

\* A step of the write fails; the temp file, if there is one, is removed.
StoreFails(r) ==
    /\ "disk" \in Faults
    /\ pc[r] \in Storing
    /\ tmp' = [tmp EXCEPT ![r] = "absent"]
    /\ Fail(r, "500")
    /\ UNCHANGED <<request, live, slot, fired, owner, reply, pool, file,
                   account, crashes>>
-----------------------------------------------------------------------------
\* lru.Record and its eviction loop, under lruCache.mu.

Record(r) ==
    /\ pc[r] = "record"
    /\ mu = NoReq
    /\ mu' = r
    /\ lru' = Recorded(lru, key[r], BodySize)
    /\ Goto(r, "evict")
    /\ UNCHANGED <<request, live, flight, reply, pool, file, tmp, victim,
                   crashes>>

OverBudget == MaxBytes > 0 /\ lru.total > MaxBytes

\* The oldest entry leaves the account.
EvictPop(r) ==
    /\ pc[r] = "evict"
    /\ lru.order # <<>>
    /\ OverBudget \/ "floor" \in Faults
    /\ lru' = Popped(lru)
    /\ victim' = Head(lru.order)
    /\ Goto(r, "unlink")
    /\ UNCHANGED <<request, live, flight, reply, pool, file, tmp, mu, crashes>>

\* Mutant: the account forgets the entry, the file stays.
UnlinkNothing(r, removed) ==
    /\ pc[r] = "unlink"
    /\ victim' = NoKey
    /\ Goto(r, "evict")
    /\ UNCHANGED <<request, live, flight, reply, pool, file, tmp, lru, mu,
                   crashes>>

\* The delete callback; a failure of os.Remove is only logged.
Unlink(r, removed) ==
    /\ pc[r] = "unlink"
    /\ removed \/ "remove" \in Faults
    /\ file' = IF removed THEN [file EXCEPT ![victim] = "absent"] ELSE file
    /\ victim' = NoKey
    /\ Goto(r, "evict")
    /\ UNCHANGED <<request, live, flight, reply, pool, tmp, lru, mu, crashes>>

\* The loop ends, the mutex is released, the flight has its result.
EvictDone(r) ==
    /\ pc[r] = "evict"
    /\ lru.order = <<>> \/ ~OverBudget
    /\ mu' = NoReq
    /\ result' = [result EXCEPT ![r] = "ok"]
    /\ Goto(r, "land")
    /\ UNCHANGED <<request, live, slot, fired, owner, reply, pool, file, tmp,
                   lru, victim, crashes>>

\* Mutant: only the leader hears of the result.
LandAlone(r) ==
    /\ pc[r] = "land"
    /\ Answer(r, IF result[r] = "ok" THEN "MISS" ELSE result[r])
    /\ owner' = [owner EXCEPT ![key[r]] = NoReq]
    /\ inflight' = inflight - (IF slot[r] THEN 1 ELSE 0)
    /\ slot' = [slot EXCEPT ![r] = FALSE]
    /\ fired' = [fired EXCEPT ![r] = 0]
    /\ result' = [result EXCEPT ![r] = "none"]
    /\ UNCHANGED <<request, stray, late, file, tmp, account, crashes>>

\* The flight's function returns: the deferred release, the end of the
\* flight, and one result for the leader and for everyone who waited.
Land(r) ==
    /\ pc[r] = "land"
    /\ LET done == {r} \cup { s \in Req : pc[s] = "wait" /\ key[s] = key[r] }
           c == IF result[r] = "ok" THEN "MISS" ELSE result[r]
       IN  /\ pc' = [s \in Req |-> IF s \in done THEN "idle" ELSE pc[s]]
           /\ reply' = [s \in Req |-> IF s \in done THEN c ELSE reply[s]]
           /\ live' = [s \in Req |-> IF s \in done THEN TRUE ELSE live[s]]
    /\ owner' = [owner EXCEPT ![key[r]] = NoReq]
    /\ inflight' = inflight - (IF slot[r] THEN 1 ELSE 0)
    /\ slot' = [slot EXCEPT ![r] = FALSE]
    /\ fired' = [fired EXCEPT ![r] = 0]
    /\ result' = [result EXCEPT ![r] = "none"]
    /\ UNCHANGED <<request, stray, late, file, tmp, account, crashes>>
-----------------------------------------------------------------------------
\* Seeding the account from the files of the cache directory, in some order
\* of their times, and evicting down to the budget (seedLRU, Load).

OnDisk == { k \in Keys : file[k] # "absent" }

Orders(S) ==
    { s \in [1 .. Cardinality(S) -> S] : Distinct(s) }

\* The account of the files s, oldest first.
Account(s) ==
    [ order |-> s,
      size  |-> [k \in Keys |-> IF k \in Members(s) THEN BodySize ELSE 0],
      total |-> Len(s) * BodySize ]

\* Mutant: the budget is not applied to what an earlier process left.
KeptAll(n) == n

\* How many of n files the byte budget has room for at startup.
Kept(n) ==
    IF MaxBytes > 0 /\ n * BodySize > MaxBytes THEN MaxBytes \div BodySize ELSE n

\* How many of n files may survive the eviction at startup: below the
\* watermark, any number of those that fit.
Survivors(n) == IF "floor" \in Faults THEN 0 .. Kept(n) ELSE {Kept(n)}

Suffix(s, n) == SubSeq(s, Len(s) - n + 1, Len(s))

\* The process dies, clients lose their connections, and a new process seeds
\* itself before it listens.  Files that the eviction at startup fails to
\* remove are left; temp files of the dead process stay behind under names
\* nobody opens.
Crash ==
    /\ "crash" \in Faults /\ crashes < MaxCrashes
    /\ crashes' = crashes + 1
    /\ \E s \in Orders(OnDisk), left \in SUBSET OnDisk :
       \E n \in Survivors(Len(s)) :
          /\ left = {} \/ "remove" \in Faults
          /\ lru' = Account(Suffix(s, n))
          /\ file' = [k \in Keys |-> IF k \in Members(Suffix(s, n)) \cup left
                                     THEN file[k] ELSE "absent"]
    /\ pc' = [r \in Req |-> "idle"]
    /\ reply' = [r \in Req |-> "none"]
    /\ live' = [r \in Req |-> TRUE]
    /\ slot' = [r \in Req |-> FALSE]
    /\ fired' = [r \in Req |-> 0]
    /\ result' = [r \in Req |-> "none"]
    /\ owner' = [k \in Keys |-> NoReq]
    /\ inflight' = 0
    /\ stray' = 0
    /\ late' = 0
    /\ tmp' = [r \in Req |-> "absent"]
    /\ mu' = NoReq
    /\ victim' = NoKey
    /\ UNCHANGED request
-----------------------------------------------------------------------------
\* A step of the flight that r leads.
Fly(r) ==
    \/ HedgeFires(r) \/ PeerServes(r) \/ PeerServesFirst(r)
    \/ HedgeServes(r) \/ HedgeFails(r) \/ PeersFail(r)
    \/ Acquire(r) \/ AcquireGivesUp(r)
    \/ FetchServes(r) \/ \E c \in Errors : FetchFails(r, c)
    \/ CreateTemp(r) \/ WriteTemp(r) \/ Rename(r) \/ StoreFails(r)
    \/ Record(r) \/ EvictPop(r) \/ \E b \in BOOLEAN : Unlink(r, b)
    \/ EvictDone(r)
    \/ Land(r)

\* A step of the handler of r.
Handle(r) ==
    \/ LookupHit(r) \/ LookupMiss(r) \/ Touch(r)
    \/ Lead(r) \/ Follow(r)
    \/ Fly(r)

Next ==
    \/ \E r \in Req, k \in Keys, kd \in Kinds : Arrive(r, k, kd)
    \/ \E r \in Req : Disconnect(r) \/ Handle(r)
    \/ StrayUnwinds \/ LateHedge
    \/ Crash

(***************************************************************************)
(* Go schedules every runnable goroutine; timeouts end every upstream      *)
(* call; senders blocked on a channel are served first come first served,  *)
(* and sync.Mutex does not starve a waiter.  So a goroutine that can run   *)
(* again and again does run.                                               *)
(***************************************************************************)
Fairness ==
    /\ \A r \in Req : SF_vars(Handle(r))
    /\ WF_vars(StrayUnwinds) /\ WF_vars(LateHedge)

Spec == Init /\ [][Next]_vars /\ Fairness
-----------------------------------------------------------------------------
\* The type of the state.
TypeOK ==
    /\ pc \in [Req -> PCs]
    /\ key \in [Req -> Keys]
    /\ kind \in [Req -> {"get", "peer", "head"}]
    /\ live \in [Req -> BOOLEAN]
    /\ slot \in [Req -> BOOLEAN]
    /\ fired \in [Req -> 0 .. MaxRaces]
    /\ result \in [Req -> Results]
    /\ reply \in [Req -> Replies]
    /\ owner \in [Keys -> Req \cup {NoReq}]
    /\ inflight \in Int
    /\ stray \in Nat /\ late \in 0 .. MaxLate
    /\ file \in [Keys -> Contents]
    /\ tmp \in [Req -> Contents]
    /\ AccountOK(Keys, lru)
    /\ mu \in Req \cup {NoReq}
    /\ victim \in Keys \cup {NoKey}
    /\ crashes \in 0 .. MaxCrashes

\* Every token in the fetch semaphore belongs to a flight that is still going
\* on or to a lost hedge that is still unwinding, and there are never more
\* than MAX_INFLIGHT_FETCHES: no path through getXorb, raceOnePeer or cdnGet
\* keeps a slot or releases one twice, and no flight queues for a second slot
\* while it holds one.
SlotsAccounted ==
    /\ inflight = Cardinality({ r \in Req : slot[r] }) + stray
    /\ inflight <= Slots
    /\ \A r \in Req : slot[r] => pc[r] \in Leading \ {"acquire"}

\* A range has at most one flight, led by the goroutine the singleflight table
\* names, and nobody waits for a flight that is over.
SingleFlight ==
    /\ \A k \in Keys : owner[k] # NoReq =>
          pc[owner[k]] \in Leading /\ key[owner[k]] = k
    /\ \A r \in Req : pc[r] \in Leading => owner[key[r]] = r
    /\ \A r \in Req : pc[r] = "wait" => owner[key[r]] # NoReq

\* A cache file that the account does not list is on its way in (renamed, not
\* yet recorded) or on its way out (evicted, not yet removed): concurrent
\* flights and evictions leave nothing on disk that no budget counts.  (A
\* failing os.Remove does, and is excluded here.)
NoUntrackedFile ==
    "remove" \notin Faults =>
        \A k \in Keys : file[k] # "absent" =>
            \/ k \in Entries(lru)
            \/ victim = k
            \/ \E r \in Req : pc[r] = "record" /\ key[r] = k

\* Nobody finds the account over the byte budget when the mutex is free, not
\* even the first request after a crash that left more files than fit.
BudgetHeld == (MaxBytes > 0 /\ mu = NoReq) => lru.total <= MaxBytes

\* What a reader can find under a cache file's name is a whole body, at every
\* moment and after a crash at any moment (writeCacheFileAtomic).
WholeFiles == \A k \in Keys : file[k] # "partial"

\* How far a request is, and what a flight has done, for those outside.
Waiting == Leading \cup {"wait"}

StatusOf(l) ==
    IF l \in Waiting THEN "waiting"
    ELSE IF l = "lookup" THEN "looking"
    ELSE IF l = "touch" THEN "found"
    ELSE IF l = "join" THEN "missed" ELSE "idle"

HasStored(r) == pc[r] \in {"record"} \cup Locked \/ result[r] = "ok"

FlightOf(k) ==
    IF owner[k] = NoReq THEN "none" ELSE IF HasStored(owner[k]) THEN "stored" ELSE "going"

Ranges == INSTANCE RangeStore
            WITH status <- [r \in Req |-> StatusOf(pc[r])],
                 stored <- { k \in Keys : file[k] = "whole" },
                 flight <- [k \in Keys |-> FlightOf(k)]

\* getXorb keeps the promise of RangeStore: only whole files are found, also
\* after a crash at any moment (writeCacheFileAtomic), all who wait get the one
\* result of their range's one flight, the bytes exactly if they were stored,
\* and a miss of another shim stays a miss (isPeerRequest).
ServesRanges == Ranges!Spec

\* A request of another shim takes part in no flight: it cannot make this shim
\* fetch, so requests among shims go one hop (isPeerRequest).
PeersNeverFetch ==
    \A r \in Req : pc[r] \in Leading \cup {"join", "wait"} => kind[r] = "get"

\* Every request is answered, whatever clients, CDN, peers and disk do.
Answered == \A r \in Req : pc[r] # "idle" ~> pc[r] = "idle"
-----------------------------------------------------------------------------
\* The parts of the inductive invariant that are not properties themselves.

\* lruCache.mu is held exactly by the goroutine in the eviction loop, and an
\* evicted file is pending exactly while that goroutine is about to remove it.
MutexSound ==
    /\ mu # NoReq => pc[mu] \in Locked
    /\ \A r \in Req : pc[r] \in Locked => mu = r
    /\ \A r \in Req : pc[r] = "unlink" => victim \in Keys
    /\ \A r \in Req : pc[r] = "evict" => victim = NoKey
    /\ mu = NoReq => victim = NoKey

\* A temp file is complete when it is renamed.
TempWhole == \A r \in Req : pc[r] = "rename" => tmp[r] = "whole"

\* A flight has a result from the moment it is ready to land.
ResultsSound == \A r \in Req : pc[r] = "land" <=> result[r] # "none"

\* The invariant that XorbServeProofs proves inductive.
IInv ==
    /\ TypeOK
    /\ SlotsAccounted
    /\ SingleFlight
    /\ MutexSound
    /\ TempWhole /\ WholeFiles
    /\ NoUntrackedFile
    /\ Exact(lru) /\ BudgetHeld
    /\ PeersNeverFetch /\ ResultsSound
=============================================================================
