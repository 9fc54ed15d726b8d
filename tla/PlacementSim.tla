---------------------------- MODULE PlacementSim ----------------------------
(***************************************************************************)
(* The placement study (study/placement_locality_sim.py): a log of worker  *)
(* starts is replayed through one LRU cache per node, of whole models      *)
(* (tier 1) or of xorbs (tier 2), and the hit rate is set against what a   *)
(* random placement would hit.  The xorbs of a revision come from          *)
(* study/scrape_xorb_map.py.                                               *)
(*                                                                         *)
(* The log is read in the order of its time stamps, so a start is a step   *)
(* that appends to it: every reachable state is a replayed log.  What a    *)
(* start reads is got and put one by one, and an eviction of put's loop is *)
(* a step.  One thread does all of it: at most one kind of step can be     *)
(* next, except that the next start may be any.                            *)
(*                                                                         *)
(* An LruCache is an account of LruAccount: an OrderedDict from the least  *)
(* to the most recently used key, with _used_bytes as its total.           *)
(***************************************************************************)
EXTENDS LruAccount, FiniteSets, SequencesExt

CONSTANTS Models,     \* (repo_id, revision) pairs
          SizeOf,     \* the model_size_bytes that rows give for each
          Files,      \* the files of each: manifests, None for a file not in Xet
          Scraped,    \* the models that the xorb map has
          RackOf, DatacenterOf, GpuOf,   \* of each host; a rack_id may be NULL
          Sweeps,     \* the replays that are tried, see below
          Delays,     \* seconds between two starts
          None

\* One cell of main's sweep over modes, scopes and cache sizes; which hosts the
\* log names, whether it has the column rack_id, and how long it is (a bound).
Sweep == [mode : {"tier1", "tier2"}, scope : {"host", "rack", "datacenter"}, racks : BOOLEAN,
          capacity : Nat, ttl : Nat \cup {None}, hosts : SUBSET DOMAIN GpuOf, length : Nat]
ASSUME SweepsAssumption == Sweeps \subseteq Sweep
ASSUME ModelsAssumption == SizeOf \in [Models -> (SUBSET Nat) \ {{}}] /\ Scraped \subseteq Models
ASSUME DelaysAssumption == Delays \subseteq Nat
\* A repository has finitely many files, and a manifest is finite.
ASSUME FilesAssumption ==
    \A m \in Scraped : /\ IsFiniteSet(Files[m])
                       /\ \A f \in Files[m] \ {None} :
                             /\ IsFiniteSet(DOMAIN f)
                             /\ \A x \in DOMAIN f : IsFiniteSet(f[x]) /\ f[x] \subseteq Nat

VARIABLES sweep,     \* the cell
          log,       \* the starts: host, model, time, what was warm then
          todo,      \* what the last start has still to read
          putting,   \* whether the last get is still without its put
          caches,    \* the LruCache of each node, without the times
          last_ts,   \* the times of the entries of each
          touches,   \* the reads, with what get answered
          warm,      \* (pool, model) -> the last start on each warm node
          raised     \* whether put found nothing to evict

replayVars == <<sweep, log, todo, putting, caches, last_ts, touches, warm, raised>>
-----------------------------------------------------------------------------
\* flatten_manifest: the size of a xorb is the largest end of a range of it.  A
\* manifest gives the ends of the ranges of each xorb it names.
flatten_manifest(manifest) ==
    [x \in { y \in DOMAIN manifest : manifest[y] # {} } |-> Max(manifest[x])]

\* merge_sizes, over the files of a revision: the largest estimate stays.
merge_sizes(maps) ==
    [x \in UNION { DOMAIN t : t \in maps } |-> Max({ t[x] : t \in { u \in maps : x \in DOMAIN u } })]

\* scrape_revision: a file that is not in Xet is skipped.
scrape_revision(model) == merge_sizes({ flatten_manifest(f) : f \in Files[model] \ {None} })

\* build_rows: a row for each xorb of the revision, in some fixed order.
build_rows(model) ==
    LET sizes == scrape_revision(model)
        hashes == SetToSeq(DOMAIN sizes)
    IN  [i \in DOMAIN hashes |-> [key |-> hashes[i], size |-> sizes[hashes[i]]]]

\* load_xorb_map of those rows; a revision that was not scraped has none.
xorb_map(model) == IF model \in Scraped THEN build_rows(model) ELSE <<>>
-----------------------------------------------------------------------------
\* scope_key: a log without the column falls back to hosts.  A rack_id that is
\* NULL is a name like any other, str(None), and that of hosts of every
\* datacenter.
scope_key(host) ==
    CASE sweep.scope = "host" -> host
      [] sweep.scope = "rack" -> IF sweep.racks THEN RackOf[host] ELSE host
      [] sweep.scope = "datacenter" -> DatacenterOf[host]

\* The cache a start goes to: tier 1 keeps the SKUs apart, tier 2 does not.
Node(host) ==
    IF sweep.mode = "tier1" THEN <<GpuOf[host], scope_key(host)>> ELSE <<None, scope_key(host)>>

\* What a start reads: its model, of the size that its row gives, or its xorbs.
Reads(model, size) ==
    IF sweep.mode = "tier1" THEN <<[key |-> model, size |-> size]>> ELSE xorb_map(model)

Nodes == { Node(h) : h \in sweep.hosts }
Places == { scope_key(h) : h \in sweep.hosts }
Pool(host) == <<GpuOf[host], DatacenterOf[host]>>
Pools == { <<Pool(h), m>> : h \in sweep.hosts, m \in Models }

\* The keys that a cache can hold.
Items ==
    IF sweep.mode = "tier1" THEN Models ELSE UNION { DOMAIN scrape_revision(m) : m \in Scraped }

ReplayInit ==
    /\ sweep \in Sweeps
    /\ log = <<>>
    /\ todo = <<>>
    /\ putting = FALSE
    /\ caches = [n \in Nodes |-> Empty(Items)]
    /\ last_ts = [n \in Nodes |-> [k \in Items |-> 0]]
    /\ touches = <<>>
    /\ warm = [pm \in Pools |-> <<>>]
    /\ raised = FALSE

\* Mutant: a node counts as warm for one second less.
SeenShort(pm, now) ==
    IF sweep.ttl = None THEN warm[pm]
    ELSE Restrict(warm[pm], { n \in DOMAIN warm[pm] : now - warm[pm][n] < sweep.ttl })

\* random_placement_baseline: the nodes of the pool that are warm for a model,
\* without those that have timed out.
Seen(pm, now) ==
    IF sweep.ttl = None THEN warm[pm]
    ELSE Restrict(warm[pm], { n \in DOMAIN warm[pm] : now - warm[pm][n] <= sweep.ttl })

\* The node of this start is warm for those that follow.
Warmed(seen, place, now) ==
    [n \in DOMAIN seen \cup {place} |-> IF n = place THEN now ELSE seen[n]]

\* The time of the last start.
Clock == IF log = <<>> THEN 0 ELSE Last(log).ts

\* One row of the log: the loop of the baseline, which only tier 1 has, and the
\* head of the replay's loop.
Start(host, model, delay) ==
    LET now == Clock + delay
        pm == <<Pool(host), model>>
        seen == IF sweep.mode = "tier1" THEN Seen(pm, now) ELSE <<>>
    IN  /\ todo = <<>> /\ ~putting /\ ~raised
        /\ Len(log) < sweep.length
        /\ log' = Append(log, [host |-> host, model |-> model, ts |-> now, seen |-> DOMAIN seen])
        /\ \E size \in SizeOf[model] : todo' = Reads(model, size)
        /\ warm' = IF sweep.mode = "tier2" THEN warm
                   ELSE [warm EXCEPT ![pm] = Warmed(seen, scope_key(host), now)]
        /\ UNCHANGED <<sweep, putting, caches, last_ts, touches, raised>>
-----------------------------------------------------------------------------
\* Mutant: an eviction is not counted.
EvictedUncounted(c, key) == [c EXCEPT !.order = Dropped(@, key), !.size[key] = 0]

\* _evict.
Evicted(c, key) == Forgotten(c, key)

Stale(node, key, now) == sweep.ttl # None /\ now - last_ts[node][key] > sweep.ttl

\* get: a stale entry goes, one that is hit moves to the end.
Get ==
    LET node == Node(Last(log).host)
        now == Last(log).ts
        key == Head(todo).key
        has == key \in Entries(caches[node])
    IN  /\ todo # <<>> /\ ~putting /\ ~raised
        /\ touches' = Append(touches, [node |-> node, key |-> key, size |-> Head(todo).size,
                                       ts |-> now, hit |-> has /\ ~Stale(node, key, now),
                                       start |-> Len(log)])
        /\ caches' = [caches EXCEPT ![node] = IF has /\ Stale(node, key, now)
                                              THEN Evicted(@, key) ELSE Touched(@, key)]
        /\ todo' = Tail(todo)
        /\ putting' = TRUE
        /\ UNCHANGED <<sweep, log, last_ts, warm, raised>>

\* Mutant: the time of an entry is that of its first put.
PutAgainKeepingTime ==
    LET t == Last(touches)
    IN  /\ putting
        /\ t.key \in Entries(caches[t.node])
        /\ putting' = FALSE
        /\ UNCHANGED <<sweep, log, todo, caches, last_ts, touches, warm, raised>>

\* put of a key that is there: its new size and time are noted at the end,
\* without a look at _used_bytes.
Renewed(c, key, size) ==
    [ order |-> MoveToBack(c.order, key),
      size  |-> [c.size EXCEPT ![key] = size],
      total |-> c.total ]

PutAgain ==
    LET t == Last(touches)
    IN  /\ putting
        /\ t.key \in Entries(caches[t.node])
        /\ caches' = [caches EXCEPT ![t.node] = Renewed(@, t.key, t.size)]
        /\ last_ts' = [last_ts EXCEPT ![t.node][t.key] = t.ts]
        /\ putting' = FALSE
        /\ UNCHANGED <<sweep, log, todo, touches, warm, raised>>

\* put of what can never fit.
PutTooBig ==
    LET t == Last(touches)
    IN  /\ putting
        /\ t.key \notin Entries(caches[t.node])
        /\ t.size > sweep.capacity
        /\ putting' = FALSE
        /\ UNCHANGED <<sweep, log, todo, caches, last_ts, touches, warm, raised>>

\* One turn of put's loop: the oldest entry goes; next of nothing raises.
PutEvicts ==
    LET t == Last(touches)
        c == caches[t.node]
    IN  /\ putting /\ ~raised
        /\ t.key \notin Entries(c)
        /\ t.size <= sweep.capacity
        /\ c.total + t.size > sweep.capacity
        /\ IF c.order = <<>>
           THEN raised' = TRUE /\ caches' = caches
           ELSE raised' = raised /\ caches' = [caches EXCEPT ![t.node] = Evicted(@, Head(c.order))]
        /\ UNCHANGED <<sweep, log, todo, putting, last_ts, touches, warm>>

\* put of a new entry that fits.
PutNew ==
    LET t == Last(touches)
        c == caches[t.node]
    IN  /\ putting
        /\ t.key \notin Entries(c)
        /\ t.size <= sweep.capacity
        /\ c.total + t.size <= sweep.capacity
        /\ caches' = [caches EXCEPT ![t.node] = Recorded(@, t.key, t.size)]
        /\ last_ts' = [last_ts EXCEPT ![t.node][t.key] = t.ts]
        /\ putting' = FALSE
        /\ UNCHANGED <<sweep, log, todo, touches, warm, raised>>

ReplayNext ==
    \/ \E h \in sweep.hosts, m \in Models, d \in Delays : Start(h, m, d)
    \/ Get
    \/ PutAgain
    \/ PutTooBig
    \/ PutEvicts
    \/ PutNew

ReplaySpec == ReplayInit /\ [][ReplayNext]_replayVars
-----------------------------------------------------------------------------
\* summarize and summarize_tier2, before they are rounded: starts or bytes.
Weight(t) == IF sweep.mode = "tier1" THEN 1 ELSE t.size
Weighed(S) == SumFunctionOnSet([i \in DOMAIN touches |-> Weight(touches[i])], S)

Summary ==
    [hit |-> Weighed({ i \in DOMAIN touches : touches[i].hit }),
     total |-> Weighed(DOMAIN touches),
     unmapped |-> Cardinality({ i \in DOMAIN log : xorb_map(log[i].model) = <<>> })]
-----------------------------------------------------------------------------
\* "Size-bounded LRU" (LruCache): what a cache holds is what it has counted, no
\* more than its capacity and no key twice, and an eviction always finds an
\* entry.
SizeBounded ==
    /\ ~raised
    /\ \A n \in Nodes : /\ Exact(caches[n])
                        /\ caches[n].total <= sweep.capacity
                        /\ Distinct(caches[n].order)

\* The reads of key k on node n before the i-th, the last of them, and what the
\* node has read since, as far as it can be cached at all.
Prior(n, k, i) == { j \in 1 .. i - 1 : touches[j].node = n /\ touches[j].key = k }
LastRead(n, k, i) == Max(Prior(n, k, i))
Since(n, k, i) ==
    { touches[j].key : j \in { l \in LastRead(n, k, i) + 1 .. i - 1 :
                                 touches[l].node = n /\ touches[l].size <= sweep.capacity } }

\* The size of each key that was read.
ReadSize ==
    [k \in { touches[j].key : j \in DOMAIN touches } |->
        touches[CHOOSE j \in DOMAIN touches : touches[j].key = k].size]

\* The definition of a hit: the node has read the key before, not longer ago
\* than the TTL, and together with what it has read since, the key still fits.
Expected(i) ==
    LET t == touches[i]
    IN  /\ Prior(t.node, t.key, i) # {}
        /\ sweep.ttl # None => t.ts - touches[LastRead(t.node, t.key, i)].ts <= sweep.ttl
        /\ t.size + SumFunctionOnSet(ReadSize, Since(t.node, t.key, i)) <= sweep.capacity

\* The replay finds exactly the hits of the definition, in both tiers, and so
\* does the summary.
ReplayExact ==
    /\ \A i \in DOMAIN touches : touches[i].hit <=> Expected(i)
    /\ Summary.hit = Weighed({ i \in DOMAIN touches : Expected(i) })

Candidates(pool) ==
    { scope_key(log[i].host) : i \in { j \in DOMAIN log : Pool(log[j].host) = pool } }

\* The starts of a model in a pool on a place, before the i-th start, that had
\* not timed out by then.
Recent(i, place) ==
    { j \in 1 .. i - 1 : /\ log[j].model = log[i].model
                         /\ Pool(log[j].host) = Pool(log[i].host)
                         /\ scope_key(log[j].host) = place
                         /\ sweep.ttl # None => log[i].ts - log[j].ts <= sweep.ttl }

\* What can have left the model in the cache of the i-th start: the starts of it
\* on the same node, in whatever datacenter.
Sources(i) ==
    { j \in 1 .. i - 1 : /\ log[j].model = log[i].model
                         /\ Node(log[j].host) = Node(log[i].host)
                         /\ sweep.ttl # None => log[i].ts - log[j].ts <= sweep.ttl }

\* No host of another datacenter goes by the name of this one's place.
InOneDatacenter(host) ==
    \A h \in sweep.hosts :
        scope_key(h) = scope_key(host) => DatacenterOf[h] = DatacenterOf[host]

\* The measured rate and the baseline are comparable: the nodes that the
\* baseline counts as warm are those on which the model was started within the
\* TTL, never more than the pool has (the expectation is a probability as it
\* stands), and what the replay counts as a hit was started on that node within
\* the TTL.  It is on a warm node of the baseline, which counts each datacenter
\* for itself, unless the node is one of several datacenters, as that of all
\* hosts without a rack is.
BaselineComparable ==
    sweep.mode = "tier1" =>
        \A i \in DOMAIN log :
            /\ log[i].seen = { p \in Places : Recent(i, p) # {} }
            /\ Cardinality(log[i].seen) <= Cardinality(Candidates(Pool(log[i].host)))
            /\ \A t \in DOMAIN touches : (touches[t].start = i /\ touches[t].hit) =>
                  /\ Sources(i) # {}
                  /\ InOneDatacenter(log[i].host) => scope_key(log[i].host) \in log[i].seen
-----------------------------------------------------------------------------
\* The inductive invariants behind the theorems of LruProofs.

\* The type of the state; no cache lists a key twice.
LogRow == [host : sweep.hosts, model : Models, ts : Nat, seen : SUBSET Places]
ReadRow == [node : Nodes, key : Items, size : Nat, ts : Nat, hit : BOOLEAN, start : Nat]
ReplayTypeOK ==
    /\ sweep \in Sweeps
    /\ log \in Seq(LogRow)
    /\ todo \in Seq([key : Items, size : Nat]) /\ (todo # <<>> => log # <<>>)
    /\ putting \in BOOLEAN /\ (putting => touches # <<>>)
    /\ caches = [n \in Nodes |-> caches[n]] /\ \A n \in Nodes : AccountOK(Items, caches[n])
    /\ last_ts \in [Nodes -> [Items -> Nat]]
    /\ touches \in Seq(ReadRow)
    /\ DOMAIN warm = Pools
    /\ \A pm \in Pools : \A p \in DOMAIN warm[pm] : p \in Places /\ warm[pm][p] \in Nat
    /\ raised \in BOOLEAN

\* load_events has sorted the log.
LogSorted == \A i, j \in DOMAIN log : i <= j => log[i].ts <= log[j].ts

\* A read belongs to a start; in tier 1 a start has one read.
ReadsOfStarts ==
    /\ \A t \in DOMAIN touches :
          LET s == log[touches[t].start]
          IN  /\ touches[t].start \in DOMAIN log
              /\ touches[t].node = Node(s.host) /\ touches[t].ts = s.ts
              /\ sweep.mode = "tier1" => touches[t].key = s.model
    /\ sweep.mode = "tier1" =>
          /\ \A t, u \in DOMAIN touches : t < u => touches[t].start < touches[u].start
          /\ todo # <<>> => /\ Head(todo).key = Last(log).model /\ Tail(todo) = <<>>
                            /\ \A t \in DOMAIN touches : touches[t].start < Len(log)

\* The map of warm nodes has the last start on each, and the others have timed
\* out.
Started(pool, model, place) ==
    { j \in DOMAIN log : /\ log[j].model = model /\ Pool(log[j].host) = pool
                         /\ scope_key(log[j].host) = place }
WarmSound ==
    sweep.mode = "tier1" =>
        \A h \in sweep.hosts, m \in Models, p \in Places :
            LET w == warm[<<Pool(h), m>>]
            IN  IF p \in DOMAIN w
                THEN /\ \E j \in Started(Pool(h), m, p) : log[j].ts = w[p]
                     /\ \A j \in Started(Pool(h), m, p) : log[j].ts <= w[p]
                ELSE \A j \in Started(Pool(h), m, p) : sweep.ttl # None /\ Clock - log[j].ts > sweep.ttl

SeenSound ==
    sweep.mode = "tier1" =>
        \A i \in DOMAIN log : log[i].seen = { p \in Places : Recent(i, p) # {} }

\* Key k of node n is being put.
Pending(n, k) == putting /\ Last(touches).node = n /\ Last(touches).key = k
Here == Len(touches) + 1

\* An entry has been read, and has the time of its last read.
StampSound ==
    \A n \in Nodes : \A k \in Entries(caches[n]) :
        /\ Prior(n, k, Here) # {}
        /\ ~Pending(n, k) => last_ts[n][k] = touches[LastRead(n, k, Here)].ts

\* A hit is on a key that was read within the TTL.
HitSound ==
    \A i \in DOMAIN touches : touches[i].hit =>
        \E j \in Prior(touches[i].node, touches[i].key, i) :
            sweep.ttl # None => touches[i].ts - touches[j].ts <= sweep.ttl

BaselineInv ==
    /\ ReplayTypeOK /\ LogSorted /\ ReadsOfStarts
    /\ WarmSound /\ SeenSound /\ StampSound /\ HitSound

\* A key has one size: in tier 1 if the rows of a model agree, which they do when
\* its revision is a commit, in tier 2 if the revisions that share a xorb have
\* read it equally far.
SizesFixed == \A m \in Models : \A s, t \in SizeOf[m] : s = t
SizesAgree ==
    \A l, m \in Scraped : \A x \in DOMAIN scrape_revision(l) \cap DOMAIN scrape_revision(m) :
        scrape_revision(l)[x] = scrape_revision(m)[x]
OneSize == IF sweep.mode = "tier1" THEN SizesFixed ELSE SizesAgree
ItemSize ==
    [k \in Items |-> IF sweep.mode = "tier1" THEN CHOOSE s \in SizeOf[k] : TRUE
                     ELSE LET m == CHOOSE l \in Scraped : k \in DOMAIN scrape_revision(l)
                          IN  scrape_revision(m)[k]]

SizesKnown ==
    /\ \A i \in DOMAIN todo : todo[i].size = ItemSize[todo[i].key]
    /\ \A i \in DOMAIN touches : touches[i].size = ItemSize[touches[i].key]
    /\ \A n \in Nodes : \A k \in Entries(caches[n]) : caches[n].size[k] = ItemSize[k]

SizeInv == BaselineInv /\ (OneSize => SizesKnown /\ SizeBounded)

\* A cache is ordered by the last reads.
Ordered ==
    \A n \in Nodes : \A i, j \in DOMAIN caches[n].order :
        i < j => LastRead(n, caches[n].order[i], Here) < LastRead(n, caches[n].order[j], Here)

\* What was read after an entry is an entry, or about to be one, ...
KeptSince ==
    \A n \in Nodes : \A k \in Entries(caches[n]) : \A y \in Since(n, k, Here) :
        y \in Entries(caches[n]) \/ Pending(n, y)

\* ... and what still fits with all that was read after it is an entry.
KeptFitting ==
    \A n \in Nodes, k \in Items :
        /\ Prior(n, k, Here) # {}
        /\ ItemSize[k] + SumFunctionOnSet(ItemSize, Since(n, k, Here)) <= sweep.capacity
        => k \in Entries(caches[n]) \/ Pending(n, k)

HitsExact == \A i \in DOMAIN touches : touches[i].hit <=> Expected(i)

RecencyInv == SizeInv /\ (OneSize => Ordered /\ KeptSince /\ KeptFitting /\ HitsExact)
=============================================================================
