# A TLA+ development of the xet data-centre cache

The shim (`src/shim-go`) is a Go process that a data centre runs next to its
workers.  It plays three roles towards `hf`/xet clients: a proxy of the Hub, a
relay of the CAS reconstruction API that rewrites manifests so that xorb urls
point at the shim, and a store of xorb byte ranges (Tier 1, on disk) that falls
back to sibling shims (Tier 1.5, peers) and to the CDN.

Around it the repository has a testbed (`src/runpod_testbed`) that provisions a
fleet of peered shims and serverless workers on Runpod, drives downloads
through three caching mechanisms, reports what it measured and tears everything
down, and a study (`src/study`) that replays a log of worker starts through
simulated caches.

This directory models the parts of all three whose correctness depends on the
order in which goroutines, threads, calls, failures and restarts happen, checks
them with TLC on small instances, and proves the main safety properties with
TLAPS for every value of the constants.

## 1. Inventory

| component | state | operations | talks to |
|---|---|---|---|
| Tier 1 LRU accountant (`lru.go`, `disk.go`, `main.go`) | recency list, entry sizes, byte count, one mutex | `Load`, `Touch`, `Record`, `Forget`, `evictLocked` | statfs, `os.Remove` |
| Xorb handler (`xorb.go`, `server.go`) | singleflight table, fetch semaphore, cache files, temp files | `getXorb`, `serveStreamHit`, `writeCacheFileAtomic`, `acquire`, `tryAcquire`, `release`, `cdnGet` | LRU, signed urls, peers, CDN |
| Signed-url map (`signedmap.go`, `xorb.go`) | recency list with expiry and candidate lists, one mutex per call | `Set`, `Get`, `rememberSigned`, `fetchAuthorized` | CAS manifests, CDN |
| Manifest cache and CAS relay (`manifests.go`, `reconstruction.go`) | files, eviction list, one mutex | `Put`, `Get`, `trimLocked`, `seedFromDisk`, `reconstruction`, `rewriteManifest` | CAS, signed urls |
| Peer engine (`peers.go`, `peer_fetch.go`, `peer_hedge.go`) | sticky peer with expiry, throughput estimates | `fetchFromPeer`, `fanoutProbe`, `raceOnePeer`, `updateSticky`, `hedgeDelay` | other shims, fetch semaphore |
| Keepalive and transport (`peer_keepalive.go`, `peer_transport.go`) | connection pool of net/http | a ticker of HEAD requests | other shims |
| Hub proxy (`proxy.go`) | none | one request in, one out | Hub |
| Helpers, middleware (`util.go`, `middleware.go`) | none | ranges, headers, paths, logging, bearer check | |
| Metrics (`metrics.go`, `prometheus.go`) | counters, histograms, one mutex | `Incr`, `Observe`, `Snapshot` | |
| Process life (`main.go`) | | start, seed, signal, drain | all |
| Cache fleet start-up (`provision/selfconfig.py`, `provision/fleet.py`) | the account's pods, listing and addresses, each pod's peers | discover, resolve, exec, time out | Runpod API |
| Provisioning and teardown (`provision/up.py`, `down.py`, `flash.py`, `volumes.py`, `modelstore_api.py`, `mechanisms/`, `experiments/crossdc.py`, `config.py`) | `ProvisionState` in memory and in a file; pods, endpoints and volumes of the account | `make up`, `make down`, `run_pair` | Runpod API, `flash` CLI |
| Driver and worker (`drive/run.py`, `worker/`) | jobs file, thread pool, worker caches, volume | submit, wait, record; upgrade, hydrate, download, sync | serverless queue |
| Scraper (`harvest/scrape.py`) | buffer, metrics file | sample, write, flush | pods |
| Reports (`harvest/report.py`, `compare.py`) | none | statistics of rows and samples | jobs and metrics files |
| Placement study (`study/placement_locality_sim.py`, `scrape_xorb_map.py`) | one LRU per node, warm nodes per model | replay, baseline, summary, xorb map | |
| Tools, sample data, verification (`tools`, `study/make_sample_data.py`, `xet_verify`) | none shared | offline computations | |

What is hard in it:

* **Concurrency.**  Every request is a goroutine.  The requests for one range
  share a flight, all flights share the fetch semaphore with the hedges, and a
  file is renamed into place at one moment and accounted for at another, with
  evictions of other flights in between.  `rememberSigned` is a `Get` and a
  `Set` with nothing held in between; `ManifestCache.Put` writes before it
  locks.
* **Failure.**  A client leaves and cancels the context of the flight it leads;
  CDN, CAS and peers fail or stall; writing, removing and statfs fail; the
  process dies between two system calls and rebuilds its accounts from the
  directory.
* **Time.**  Signed urls expire; a hedge races its peer; a lost hedge still
  holds a slot, or asks for one when its race is long decided.
* **Limits.**  Byte budget, watermark, fetch slots, entries of the url map,
  candidates per xorb, manifests on disk.

* **Money.**  Everything the testbed creates is billed until it is deleted.  A
  call may fail before or after it took effect, the file that teardown works
  from is truncated before it is written, and the process may be killed between
  any two calls.
* **Measurement.**  A job that the driver has given up goes on and warms caches;
  a worker is recycled with its disk; a re-run finds the traces of the first
  run; the platform's timing is missing for some rows.

`PROJECT.json` lists these as hazards, each at its line, with the properties
that would notice it going wrong.

## 2. Modules

| module | what it is |
|---|---|
| `RecencyList` | the list-with-index (`container/list` plus a map) that three components use |
| `LruAccount` | the accounting state of `lruCache` and the body of each method; the study's `LruCache` is kept in the same record |
| `TierOneLRU` | the accountant with its volume: free space, other users, statfs and remove failures, restarts with file times |
| `RangeStore` | abstract: what a shim promises about the ranges it serves |
| `XorbServe` | `getXorb` for any number of concurrent requests, composed with `LruAccount`, singleflight, fetch pool, hedges, file system, crashes; shown to implement `RangeStore` |
| `SignedURLs` | `TTLMap`, `rememberSigned`, `fetchAuthorized` and the clients that rely on them |
| `ManifestCache` | `Put`, `Get`, trimming and seeding, and the answers of the reconstruction handler |
| `PeerFetch` | the race inside a flight: sticky peer, probe, head start, hedge, with discrete time |
| `FullMesh` | abstract: what the start-up of a fleet promises |
| `FleetDiscovery` | the pods of a fleet from creation to the exec of the shim |
| `Testbed` | `make up`, `make down` and `run_pair`, composed with `FleetDiscovery` and shown to implement `FullMesh` |
| `Report` | the numbers of `report.py` and `compare.py` as operators |
| `Drive` | driver, workers, volume, pods' counters and scraper of one demo, with `Report` read off its files |
| `PlacementSim` | the study's `LruCache`, both replays, the random baseline and the xorb map |
| `ListTheorems` | lemmas on the operators of `RecencyList` and `LruAccount`, and on sums over finite sets |
| `LruProofs` | the theorems of `TierOneLRU` and `PlacementSim`, the two programs that keep an `LruAccount` and nothing around it |
| `XorbServeProofs`, `SignedURLsProofs`, `ManifestCacheProofs`, `PeerFetchProofs`, `TestbedProofs`, `DriveProofs` | the theorems of the others |
| `MCXorbServe`, `MCSignedURLs`, `MCManifestCache`, `MCPeerFetch`, `MCTestbed`, `MCDrive`, `MCPlacementSim` | symmetry sets, configurations and constant values for TLC |

An operator whose comment begins with *Mutant* is a deliberately wrong version
of the definition that follows it.  Nothing uses it; putting it in the place of
the definition must break the property that `PROJECT.json` pairs it with, which
is how each property is shown to depend on the code.

### TierOneLRU and LruAccount

An account is the record `[order, size, total]`: `lruCache.order` front first,
the sizes in its `lruEntry`s, and `lruCache.total`.  `Touched`, `Recorded`,
`Loaded`, `Forgotten` and `Popped` are the bodies of the methods between lock
and unlock.  `TierOneLRU` runs them one at a time, as the mutex does (`op` says
what its holder is doing), but takes the eviction loop one iteration per step:
`freeFn` is read again in each, so another user of the volume (`OutsideUse`), a
failing statfs (`readable`) or a failing `os.Remove` can come between two
iterations.  The watermark is the process's (`minFree`): `main.go` computes it
once, as the process starts, and a statfs that fails then leaves the process
without one until it is restarted, whatever statfs answers later; a statfs that
fails later reads as "plenty".  The file a `Record` is about is written in the same step; `XorbServe` takes these
apart.  `written` keeps the files in mtime order, which is what `seedLRU` and
`Load` go by after a `Restart`.  The shim never calls `Forget`; it is part of
the type and its tests, so it is an action here.

### XorbServe

The program counter of a request stops wherever the code can be overtaken:

| pc | code |
|---|---|
| `lookup`, `touch` | open or stat of the cache file, `lru.Touch` and the answer |
| `join`, `wait` | `sf.Do`, as leader or behind another one |
| `peers` | `fetchFromPeer`: up to two races, each with at most one hedge |
| `acquire`, `fetch` | the plain CDN path |
| `create`, `write`, `rename` | the system calls of `writeCacheFileAtomic` |
| `record` | waiting for `lruCache.mu` |
| `evict`, `unlink` | the eviction loop: accounting, then the delete callback |
| `land` | the flight's function returns |

`inflight` is the number of tokens in the semaphore.  A flight holds at most
one (`slot`), for its plain fetch or for its hedge.  A hedge that loses is
either still unwinding with its token (`stray`) or has not even asked for one
(`late`): `raceOnePeer` starts the goroutine and does not wait for it.

`RangeStore` is what of this a client, or another shim, can rely on: a hit is a
range that was stored when the request looked; a client's miss waits for the one
flight of its range, and all who wait when it lands get one result, the bytes
exactly if the flight has stored them; another shim's miss and a probe's are
404 and start nothing; only flights store; a crash loses requests and ranges and
adds nothing.  It knows nothing of temp files, the pool, peers, the mutex or the
account.  The mapping reads `status` off the program counter (`StatusOf`: leader
and followers alike are *waiting*), `stored` off the directory (the files that
are whole) and `flight` off the singleflight table, with whether its leader has
renamed the file into place (`HasStored`).  A partial file under a cache name
would be found and is not stored, so the refinement says that there is none.

Abstractions.  A body has one size and is whole or partial; which error a
failure gives is kept, its text is not.  Which peer is raced and why a race is
lost is left to chance, so every outcome of `fetchFromPeer` is covered, and so
is every time at which it can happen.  `Land` takes the deferred `release`, the
removal of the flight from the singleflight table and the wake-up of the
followers in one step: nothing the model observes happens between them.  In
the code a request can find the flight gone while the followers have not yet
written their answers; here it finds both done, and it can do the same things
next.  `Crash` includes the next process up to the point where it listens;
the order in which the files are seeded is any order (their times depend on
the writes and are kept in `TierOneLRU`).  The watermark is the fault
`"floor"`: an eviction at any iteration, without a reason that the account
knows.  Hits read the file they opened, so a concurrent removal does not
concern them.

### SignedURLs

A url is what it is signed for and a signature.  `Set`, `Found`/`Swept` (what
`Get` returns and what it leaves behind) and `Capped` are `TTLMap`;
`RememberGet` and `RememberSet` are the two halves of `rememberSigned`, with
other handlers free to run in between.  Clients fetch what their last manifest
named (`given`), as xet clients do; every fetch is a miss, since a hit needs no
url, and no sibling has the range.  Fetches of one window share a flight:
`FetchLead` and `FetchJoin` are `sf.Do`, `FetchGet` is the slot and the look-up
of the candidates, `FetchWrong`, `FetchRefused`, `FetchServed`, `BodyLost` and
`FetchExhausted` are the loop of `fetchAuthorized`, one candidate per step, and
`Landed` answers everyone in the flight.  The flight runs under its leader's
context: after `Leave` all that is left is `FetchBroken`, which is `acquire`,
`ctx.Err()` or the body's read failing, with candidates left or not.  Answers are
`served` or `refused` (409 and 502 alike).  A CDN that is `Healthy` honours its
own signatures for their window and refuses other windows.  `excused` records
for whom an exception applies: the map's cap pushed the url out, the CDN failed
on a good signature, or another handler's `rememberSigned` of the same xorb
overlapped.  Two more exceptions are the flight's: its leader's client has left
(`Abandoned`), or it had no url for the window when the client joined (`behind`),
because it looked the candidates up before the client's manifest was rewritten.
The second is as real as the first: the leader comes with an expired manifest,
finds the xorb's other urls, and whoever joins it meanwhile with a fresh manifest
is answered 502 although the map has the url by then.  TLC finds either one when
its exception is dropped.

### ManifestCache

A handler gets a manifest from CAS (`Online`), an error of CAS or a manifest that
does not parse (`Refused`), or no answer (`Offline`, which reads the directory without the mutex).  `Write`,
`Lock`, `TrimPop`, `Unlink`, `TrimDone` are `Put` in the order of the code:
the write before the mutex, listing and trimming under it.  What is in a
manifest is left out.  `leftover` is history: the files that `os.Remove` failed
on and that no `Put` has listed since; they are the only ones that
`NoUntrackedManifest` excepts.

### PeerFetch

`XorbServe` only knows how a race can end.  Here a flight is a program counter
(`headstart`, `hedged`, then `waitcdn` or `waitpeer` when one side has failed),
and the two goroutines of `raceOnePeer` are `peer` and `cdn`: running, or a
result in their channel.  `StartSticky` and `StartProbe` are `fetchFromPeer` up
to the answer of `sticky.get`, `ProbeFinds` and `ProbeFails` the fan-out,
`TimerFires` the end of the head start with the hedge's `tryAcquire`,
`UpdateSticky` and `LoseRace` what follows a race, and `Finish` the end of the
last goroutine.  `Tick` passes time for all flights at once; it waits for steps
of the shim, which take none, and stops at every deadline.  The throughput
estimate of a peer is any of `Throughputs`; `HedgeDelay` is computed from it as
in the code.  The clock is that of the shim, so a peer that stalls and one that
fails differ only in when `PeerEnds` happens.

### FullMesh and FleetDiscovery

A pod knows its name prefix and `FLEET_SIZE`.  `pod` is where it is: `list` (the
loop of `selfconfig.main`), `resolve`, `serving` once `os.execvp` has happened,
`exited` when a deadline passed or a query raised, `gone` when it was
terminated.  `listed` and `addr` are what the account shows, and grow in any
order and at any time; `got` is the current round of `resolve`, one
`get_pod_ports` per step, thrown away when an address is missing.  `FullMesh`
is the promise: a member joins when every member has had an address, with all
the others as its peers.  The refinement mapping takes the peers of a pod that
serves for its mesh and the pods that have ever had an address (`exposed`) for
the announced ones.

### Testbed

`pc` is where the controller is, one value per remote call or file operation:
`create`, `save`/`write` (truncate, write), `wait`, `deploy`, `manifest`,
`find`, `declare`, then `up`; `except` and `finally` lead into the teardown
(`undeploy`, `pods`, `baseline`, `volume`), which `make down` enters as well.
`cfg` is one configuration, `todo` what the current loop still has to do,
`state` and `file` the `ProvisionState` in memory and on disk; the account is
`pod`, `endpoints` and `volume`.  `stuck` collects what the teardown was
refused.  The order of groups, models and labels inside a loop is left open:
the properties do not depend on it.  A configuration is reduced to what
`load_str` and `_validate_reused` decide on.  An `undeploy` that fails is
noted in `stuck` although the code does not look at its exit status: `stuck` is
what the account refused, not what the code knows.  The faults are a failing
call (`call`), one that took effect all the same (`lost`), a disk that cannot
be written, deadlines that pass, a volume that is not listed, a manifest that
does not name all that was deployed, a declaration that the API accepts and does
not carry out (`ignored` keeps them), and a kill; a behaviour has all of them or
none.  A manifest never names what was not planned, and no process fails to
start: a `flash` binary that is missing, or a mechanism that cannot be built,
ends a teardown before it has begun.

### Drive and Report

`dpc` is the driver (`sequential`, `burst`, and how it ended), `todo`, `waiting`
and `raised` are jobs by what their thread does, `rows` the jobs file.  A task
of the platform outlives the thread that waits for it.  `worker`, `local`,
`mirror`, `staged` and `cached` are the places a model can come from, and
`Source` decides which one it is.  A row has three times, in whole seconds: the
handler's breakdown of the read, the platform's execution time, which adds the
upgrade of a cold worker and may be missing, and the driver's wall time, which
adds the time a job waited for a worker, its boot and its staging: any of
`Delays`.  Nothing is said of how much faster a warm job is: a report of a
slowdown is as honest as one of a speedup.  `Report` is evaluated on the rows in every
reachable state, so its operators are checked on every jobs file that a driver
can leave behind, half-finished ones included.  Medians are doubled to stay
whole, and the k-th value of a sorted bucket is the one with fewer than k values
below it and at least k values up to it (`Nth`), ties included.  The scraper's `buf` keeps the latest sample of each pod, which is all
the report uses; its file is torn while it is written.  A second signal during
the flush, and a write that raises, are not modelled.  `--dry-run` and the
text formats are left out.

### PlacementSim

A state is a log that has been replayed.  `Start` appends one row, takes it
through the body of `random_placement_baseline`'s loop (`Seen`, `Warmed`) and
lists in `todo` what the row reads: its model (`simulate`) or its xorbs
(`simulate_tier2`).  Each read is a `Get` and one of the four ways through
`put`: `PutAgain` for a key that is there, `PutTooBig` for one that never fits,
`PutEvicts` for one turn of the eviction loop, `PutNew` when there is room.  The
code is one thread, and the model's control leaves no choice either, except
which row comes next.  `Expected` is an independent definition of a hit that
knows nothing of caches: the key was read on this node, not longer ago than the
TTL, and it fits together with what was read since.

An `LruCache` is an account of `LruAccount`: the keys of its `OrderedDict` in
order, their sizes, and `_used_bytes` as `total`; `last_ts` has the times beside
it.  `move_to_end`, `_evict` and the insertion of a new key do to it what
`Touched`, `Forgotten` and `Recorded` do, and are taken from there; a `put` of a
key that is there is not `Recorded` (it leaves `_used_bytes` alone) and has a
definition of its own, `Renewed`.  `raised` stands for the `StopIteration` of an
eviction that finds nothing.

The size of a model is one of those that the rows of the log give it (`SizeOf`),
and these need not agree.  A `rack_id` is a name or NULL: `scope_key` falls back
to the host only where the log has no such column, so all hosts whose rack is
NULL are one node, in whatever datacenters they are.

## 3. Runs

| run | result | what it shows |
|---|---|---|
| `TierOneLRU_limits` | holds | exact byte count, budget, the process's watermark, own entry evicted last, a failing statfs never purges, a restart counts what is on disk, every operation ends |
| `XorbServe_core` | holds | one flight per range, no uncounted file, the budget kept, and `RangeStore` implemented (whole files only, one result for all who wait, no flight for another shim), with clients, CDN and disk failing and a crash at any step |
| `XorbServe_live` | holds | hedges and plain fetches share the pool without a leak, and every request is answered |
| `SignedURLs_promise` | holds | a fresh manifest's windows are served with the exceptions above; list and map agree, caps hold, candidate lists are never mixed up or repeated |
| `SignedURLs_shared` | violated | the exception for overlapping handlers is needed |
| `ManifestCache_trim` | holds | list without repetition, cap exact, no file that no trim will remove but those `os.Remove` failed on, every request answered however often it fails |
| `ManifestCache_offline` | holds | with room for all, what was answered once can be served offline, through crashes |
| `PeerFetch_race` | holds | a race is bounded by the hedge's or the peer's limit and given up only when every goroutine it has started is over, a dead sticky peer is dropped for good, no goroutine is left behind |
| `Testbed_life` | holds | the state file knows the fleet; a teardown deletes all it is not refused; reused endpoints stay; every model with an endpoint in the manifest is declared or reported, unless the API only pretended; pods implement `FullMesh`; every `make up` ends, and succeeds when nothing fails |
| `Drive_demo` | holds | rows of one pass, one per job; no measurement lost to another thread's exception; phases measure what they say; the two views are of the same jobs and the steady-state one leaves their waits out; metrics survive SIGTERM and flaky pods; the driver ends |
| `PlacementSim_replay` | holds | caches keep to their size; the replay finds exactly the hits of the definition; the baseline counts the same nodes as warm |
| `PlacementSim_drift` | violated | a xorb with two sizes makes the byte count drift |

Bounds.  Three requests are a leader, a follower and a third party that evicts
or leads the other range; two ranges over a budget of one make every store of
the second evict the first.  One slot makes hedges and fetches collide, two let
two flights write at the same time.  One crash meets every state the dead
process can leave, and the properties are about what the next one makes of it.
In `TierOneLRU` sizes 1 and 2 over a budget of 3 make a `Record` evict none,
one or two entries and resize one in place, and `Volume = 5` lets others push
it below the watermark.  Two clients are what an overlap of `rememberSigned`
needs; a clock of 2 with a TTL of 2 lets urls expire before they are used, and
caps of one and two overflow.  Three `Put`s over one place make two trims meet
a third write.  In `PeerFetch` two flights share the sticky peer; a head start
of 0 or 1, a CDN fetch of 1 and a peer timeout of 3 are the smallest times that
tell the three limits apart, and one peer that dies is enough because a flight
races one peer at a time.  `os.Remove` fails in `TierOneLRU_limits`, where the
account is compared with the disk, and in both runs of `ManifestCache`; the proofs
about `XorbServe` and `ManifestCache` allow it wherever the statement can bear
it.  `XorbServe_live` has no byte budget: that the eviction loop ends is
`EvictionTerminates`.  `MaxLate`, `MaxCrashes`, `MaxRestarts` and `MaxClock`
are the bounds on counters; the other constants are settings of the shim or
sets of actors.

`Testbed_life`: two pods are a fleet in which one can be early; two models make
one declaration of several fail; nine configurations are the three mechanisms,
`run_pair`, the ways to reuse endpoints and two refusals; two `make down`s
let the second finish what the first was refused.  `Drive_demo`: nine scenarios,
each with the faults that it can stand without drowning the others: one model,
two groups (a peer to pull from), a burst of two (two threads and two workers
race), two passes (a re-run), a burst of zero; in those whose platform times may
be missing a job waits 0 or 5 seconds, more than its pull takes.  `PlacementSim`: logs of five
starts on one host fill, overflow and refill a cache of 2, 3 or 4 with models of
1, 2 and 3, delays of 0 and 1 against a TTL of 1 meet its boundary, and logs of
three starts tell scopes, racks and SKUs apart on three hosts of one datacenter,
and on three of which two, in different datacenters, have a NULL rack.  There a
model has one size; the sizes that differ are those of `PlacementSim_drift`.
`MaxDowns`, the
`passes` of a scenario and the `length` of a sweep are the bounds there.

`TypeOK` of `PeerFetch` and `Drive` and `ReplayTypeOK` of `PlacementSim`
document the state; they hold in these runs and are not among their properties,
which say more.  All three are proved.

Symmetry is used for requests, ranges, handlers, paths, flights, peers and windows, in
runs without liveness properties: invariants, the refinement of `RangeStore`,
which treats all requests and all ranges alike, and `PromisedWindowServed`, which
treats the two windows that are only asked for together alike.

Fairness.  `TierOneLRU`: a goroutine inside an operation keeps running.
`XorbServe`: strong fairness for each handler.  It stands for the Go scheduler,
for first-come-first-served senders on a channel (`s.sem <-`) and for
`sync.Mutex`, whose starvation mode hands the mutex to a waiter: a goroutine
that can run again and again does run.  That an upstream call ends is the
client timeout and `PEER_FETCH_TIMEOUT`; a lost hedge notices its cancelled
context, hence weak fairness of `StrayUnwinds` and `LateHedge`.  Nothing
forces a request to arrive, a client to leave, a fault or a crash.
`ManifestCache`: the same for each handler.  `SignedURLs` has safety
properties only.  `PeerFetch`: weak fairness for each flight and for its two
goroutines (the Go scheduler; `peerGet` has its timeout, a losing `cdnGet` its
cancelled context), and strong fairness of `Tick`, because time passes between
the moments when all goroutines happen to wait.

`Testbed`: weak fairness of the controller, of each pod's entrypoint and of the
platform's listing and addresses of each pod.  The first two are processes that
run; their polling loops have deadlines, which are the `timeout` fault.  That a
pod gets listed and connected in the end is an assumption about the account; a
behaviour without faults, in which no deadline passes, needs it for
`UpEnds`.  `Drive`: weak fairness of
the driver's threads and of the scraper; nothing is assumed of the platform, so
`DriveEnds` rests on the driver's own deadline.

Deadlock is checked in every run of the shim.  `Testbed`, `Drive` and
`PlacementSim` are programs that end, so their runs do not check it; that they
end where they should is `UpEnds` and `DriveEnds`.

## 4. Where the code and what is said of it disagree

Two of these are runs whose property TLC violates; `PROJECT.json` quotes the
sentences.

1. *Remembered urls* (`xorb.go`, `rememberSigned`; `SignedURLs_shared`).  Two
   overlapping calls for one xorb lose a url, and the client whose manifest
   named it gets 502.
2. *Size-bounded LRU* (`placement_locality_sim.py`, `put`;
   `PlacementSim_drift`).  A key that is put again with another size changes
   what the cache holds and not what it counts.  It happens when two revisions
   share a xorb of which one reads less, and in tier 1 when the rows of a
   revision (`main`, say) differ in `model_size_bytes`.

The others were met while modelling, and no run is kept for them:

* *One pull per cold range* (`xorb.go:152`; the rewrite design, line 226).  The
  flight does not look at the disk again: a request that missed before a flight
  ended and joins after it fetches what is on disk.
* *"They'd all have failed"* (`xorb.go:176`; the rewrite design, line 242).  The
  flight runs under the leader's context; followers get the error that its
  client's departure caused, in `XorbServe` and in `SignedURLs`.
* *Byte-accurate accounting* (`xorb.go:188`; README, line 131).  Between a second
  flight's rename and its `Record` an eviction takes the old entry and removes
  the new file; `Record` then counts a file that does not exist.  The opposite,
  a file nobody counts, does not happen unless `os.Remove` fails, and that is
  proved.
* *"returns ok=false only when BOTH its peer and CDN sides fail"*
  (`peer_hedge.go:50`).  A peer that fails in its head start ends the race there
  (line 83) with the CDN never asked; `fetchFromPeer` goes on to the fan-out, and
  the CDN is asked by `getXorb` after that.  `RaceSound` is therefore stated of
  the goroutines a race has started.
* *Latency guarantee* (`peer_hedge.go:44`).  With every slot taken the hedge
  fails at once and is not tried again: the race waits for the peer's own
  timeout, although the CDN works.
* *"a live run should never silently proceed with no cached model declared"*
  (`modelstore.py:103`).  It can in two ways: the references that
  `set_model_references` returns, empty if the API has not stored any, are
  discarded and "declared" is printed (line 114); and a model whose label the
  manifest does not name is passed over (line 109), and its endpoint, which
  `make down` would undeploy by the labels in the state, goes on billing.
  `DeclaredOrReported` and `UpThenDown` name both as exceptions.
* *"must not kill the burst pool"* (`run.py:116`).  Submission and `record` are
  outside the `try`: an exception there ends the driver, at once in the
  sequential phases and after the last job of the burst otherwise.  The rows of
  the other jobs of a burst survive, which is a part of `JobsFileHonest`.
* A `burst` of 0 is accepted by `load_str` and refused by `ThreadPoolExecutor`
  after the sequential jobs.
* *"survives ANY stop"* (`scrape.py:101`).  A SIGKILL in the middle of
  `write_metrics` leaves a torn file, since the old one is overwritten in place.
* *"Fall back to host if rack_id absent — degrades to host-local"*
  (`placement_locality_sim.py:103`).  It falls back if the column is absent.  The
  extract that `placement-event-instrumentation.md` gives (line 110) selects the
  column whether it is filled or not, and a NULL is the node `None` (`nan`, from
  a CSV) of every host without a rack.  The replay then shares one cache between
  datacenters, and counts hits on nodes that the baseline does not count as warm,
  since it goes by datacenter.  `BaselineComparable` says of such a hit only that
  the model was started on that node within the TTL.
* The model store's `worker_cold` is never true: `upgrade_pkgs` is empty for it,
  so `_upgrade_once` answers False.
* A second drive of a run may find its baseline model on a worker that is still
  up, and then measures a local hit; `PhasesHonest` says so of the first pass
  only.

## 5. Proofs

Everything below is proved for any finite sets of requests, ranges and paths,
any sizes and limits, any number of crashes, and any set of faults.  The
assumptions are the `ASSUME`s of the modules: the "no such thing" values are
not members of the sets they stand beside, sets that are counted are finite,
numbers are natural, sizes and slots positive.

**ListTheorems.**  What each method leaves of a list without repetition and of
an account, and when an account is exact: `Exact` says that the count is
`SumFunctionOnSet` of the sizes over the entries, the fold of the community
modules.  A fold takes the elements in the order of `CHOOSE`, so the first
question is whether the order matters.  The induction theorems of the library
take an operator, which the provers cannot instantiate, but the existence of a
minimal element (`WFMin`) is first-order, and from it follow `LeastNatural` and
`AllNaturals` (a set that has 0 and the successor of each of its members
contains the naturals), which is induction with a set in the place of the
operator.  Along it `SumsExist` builds the function that the fold chooses,
`SumsAgree` shows that there is one such function, `SumTakeOut` that any element
can be taken out of a sum, `SumOfNonzeros` that zeros do not matter, and
`SumAlong` that a sum along a list is the sum over its members.

**LruProofs: tier 1.**  `IInv` has a part about the account (`TypeOK`,
`Exact(lru)`, `WithinBudget`, `OwnEntryNewest`) and one about the volume
(`VolumeFits`, `DiskListed`, `LoadSound`).  `WithinBudget` needs `Exact`: an
emptied list has count 0 only because the count is exact.  `OwnEntryLast`
follows from `OwnEntryNewest`: victims are taken at the front and the recorded
entry is at the back, so it goes when it is alone.  `TierOneVolume` is the action
property `VolumeHonest`.  A loop that ends with the watermark disabled is above
it because the volume is not overcommitted (`VolumeFits`, which follows what a
write and a removal do to the sum over all files).  A failing statfs reads as
the size of the volume, which is no less than the watermark
(`VolumeAssumption`), so it never evicts.  At the end of `Load` the entries are
all the files that take space, with their sizes (`LoadSound` and `DiskListed`),
so the count, a sum over the entries, is the sum over the disk.

**XorbServeProofs.**  `IInv` adds to the properties themselves `MutexSound`
(the mutex is held exactly by the goroutine in the eviction loop, `victim` is
set exactly while that goroutine is about to remove the file), `TempWhole` (a
temp file is complete when it is renamed) and `Exact(lru)`.  A restart seeds the
account with a suffix of the listing, whose count is a sum along a list
(`SumAlong`).  The argument for `SlotsAccounted` counts the requests with `slot` set and follows the count
through every action that sets or clears it; `SingleFlight` follows `owner`
and `pc` together; `NoUntrackedFile` needs `MutexSound`, because the only file
that may be unlisted and not in transit is the current victim.  `ServeRanges` is
the refinement, step by step: `Arrive`, `LookupHit`, `LookupMiss`, `Touch`,
`Lead` or `Follow`, `Rename`, `Unlink`, `Land` and `Crash` are the actions of
`RangeStore`, and everything else a leader does shows nothing (`LeaderMoves`).
`Find` needs `WholeFiles`; `Store` needs `TempWhole`; that the leader and those
who wait for it are exactly the requests `Land` answers is `SingleFlight`; and
that the flight has stored its range exactly when its result is `ok` needs
`ResultsSound` (a result is there from the failure or the end of the eviction
loop to the landing, and at no other time).

**ManifestCacheProofs.**  `IInv` adds `MutexSound`, `PathSet` and
`KeptWhenRoom` (if everything fits nothing is ever trimmed, because a list
without repetition is no longer than the set it is drawn from, and what is
about to be answered is on disk).

**TestbedProofs.**  For any fleet, any models and
configurations, any faults and any number of `make down`s.  The heart of
`MeshIsWhole` is `WholeListing`: a listing drawn from the fleet that is as long
as the fleet is the fleet (`FLEET_SIZE` counts, it does not name), so
`Discover` leaves a pod with all the others as peers; `DiscoverySound` carries
that to `Exec`, whose addresses have all been exposed.  A pod that is
terminated leaves the mesh, and every other step stutters in `FullMesh`.
`IInv` of `Testbed` adds to the properties
`FileKnown` (a teardown works from a file that was read), `FleetSaved` (between
two creations what exists is in the state, and the state is in the file; without
it a second pod could follow an unsaved one), `EndpointsOver`, `PodsOver` and
`VolumeOver` (what a teardown has been through is deleted or stuck, the loop
invariants of `TeardownComplete`), `Accounted` (what exists
was planned, and what the file names was planned too, which is what makes
`UpThenDown` speak of everything billed) and `DeclarationsKept` (no model falls
out of the loop of declarations).  `ReusedIsUntouched` is an action property:
the labels that any teardown undeploys are planned ones, and a run that reuses
endpoints does not plan its models.

**SignedURLsProofs.**  For any clients, xorbs, windows, signatures, caps and TTL.
`SignedURLsType` is the type invariant: list and map agree, the caps hold,
candidate lists are never mixed up or repeated.  `PromisesKept` is the action
property `PromisedWindowServed`.  What has to be carried from the manifest to
the fetch is in four parts: `HandlersSound` (a handler that is about to write
has a url, one that fetches has a window that it was given, no manifest is from
the future),
`ExpiryKept` (no xorb of a manifest expires before the manifest does),
`UrlsKept` (the windows of a fresh manifest have a url in the map and in what
any handler has read of the map to write it back, unless the client is excused)
and `FetchKept` (a flight has a candidate left that authorizes the window of
everyone in it who is owed one).  A step that loses a url has to set `excused`,
and the proof is a search for the steps that can.  `LandingCases` and `LandedOK`
say what the four ends of a flight have in common.

**PeerFetchProofs.**  For any flights, peers, timeouts and throughputs.
`RacesAreSound` rests on `ChannelsSound` (which results can be in the channels at
each point of `raceOnePeer`) and `ClocksSound` (the age of a race against each
of its deadlines; `Tick` stops at them).

**DriveProofs.**  For any models, groups, burst and number of passes, any faults
of workers, volume and platform.  `JobsFileHonest` rests on `FileSound`,
`JobsApart`, `RowsApart`, `LoopSound` and `NoneForgotten`: a job is in exactly
one of the places it can be, a row belongs to one job, and none falls out
between the places.  `PhasesHonest` adds `TasksApart`, `PhasesApart`,
`BaselineSound`, `CachesSound`, `VolumeSound` and `WarmSound`: where a model can
be found in each phase, and that a populate job's sync is over before its row
is there.  `ReportHonest` adds `RowsTimed`, and the statistics themselves:
`Nth` is shown to exist by the least natural again (`NthFacts`), and
`MedianPositive` and `MedianMonotone` say that the median of positive values is
positive and that of smaller values no larger, for any number of rows: there is a
ratio whenever there are two medians, and leaving the waits out makes no phase
slower, whichever rows the platform's time is missing for.  `DelaysAssumption`
says that waits are naturals, `NoneAssumption`
says that `None` is no number, no fraction and no place a model comes from,
`LabelsAssumption` that no group and no model is called like the endpoints
`baseline` and `volumecache`.

**LruProofs: the placement study.**  For any log, any hosts, racks and SKUs, any
models and xorb maps, any capacity and TTL (a log is any sequence of `Start`s).
The assumptions are about the input: sizes, delays and ranges are naturals,
repositories and manifests are finite, a cell of the sweep is what `main` can be
asked for.  Racks may be NULL or have one name in several datacenters.
The three invariants are built on each other.

* `BaselineInv` is enough for `ReplayBaseline`.  The measured rate and the
  baseline read different structures, caches with `last_ts` and the map `warm`,
  and nothing in the code ties them together; the proof ties each of them to
  the log.  `WarmSound` says that a node of `warm` has the time of the last
  start there, and that a node that is not in it has timed out (the loop drops
  what has, and it must never count again: this needs `LogSorted`, the sort of
  `load_events`).  `StampSound` says that an entry has
  the time of its last read, `ReadsOfStarts` which start a read belongs to,
  `HitSound` that a hit had a recent read.  A hit of tier 1 is then on a node
  where the same model was started within the TTL (`Sources`), and one that the
  baseline counts as warm if all hosts that go by the node's name are in one
  datacenter (`InOneDatacenter`): the starts were then in the same pool.
* `SizeInv` adds `SizeBounded` under `OneSize`: every key has one size, which
  is so in tier 1 when the rows of a model agree on it (`SizesFixed`; they do if
  `revision` is a commit, as the data contract asks) and in tier 2 when no two
  revisions give a xorb they share different sizes (`SizesAgree`).  Without that it is false, as
  `PlacementSim_drift` shows.  `SizesKnown` carries the one size of a key through
  `todo`, the reads and the caches, so that `Renewed` changes no size and the
  count stays the sum; then an empty cache counts 0 and what passed the test
  against the capacity fits, so that `next(iter(...))` always finds an entry
  (`RoomWhenEmpty`).
* `RecencyInv` adds what `ReplayExact` needs.  `Ordered`: a cache is in the
  order of the last reads.  `KeptSince`: whatever was read after an entry is an
  entry too.  `KeptFitting`: a key that fits together with everything read since
  is an entry.  An entry and what was read since are therefore entries together
  and fit, since the cache is bounded (`EntryFits`); and the entry that `put`
  evicts does not fit with what was read after it, because that is the whole
  cache and the new key (`HeadDoesNotFit`).  A key that is being put is excepted
  from both (`Pending`).  `GetExact` then says that `get` answers what `Expected`
  defines, and `ExactHits` carries it to the summary.

The xorb map is not an input of these theorems but what `scrape_revision` makes
of any manifests: finitely many xorbs of natural size (`ScrapeOK`), in rows that
carry those sizes (`RowsOK`).

Left to TLC: liveness (`Answered` twice, `EvictionTerminates`,
`DeadPeerDropped`, `GoroutinesEnd`, `UpEnds`, `MetricsReported`, `DriveEnds`),
which is out of the prover's reach.  Every invariant and every action property
of the passing runs is stated by a theorem, `SizeBounded` and `ReplayExact`
under `OneSize`, which holds in every sweep of `PlacementSim_replay`.

## 6. Not modelled, and the plan

Not modelled because it has no state that steps can get wrong: keepalive and
transport tuning, the Hub proxy, logging and authentication wrappers,
Prometheus rendering, the Markdown and the plots of the reports, preflight
checks, the TCP experiment, sample data, offline tools, deployment files and
test drivers (`acceptance.py`, `run_e2e.py`).

Planned, in this order:

1. `Relay`: `SignedURLs`, `ManifestCache` and the disk cache composed: what a
   manifest served offline after a restart is worth (409 for cold ranges).
2. Two shims composed of two `RangeStore`s that ask each other.
3. Pure operators: `parseRange`, `contentRangeForHit`, `hedgeDelay`, the
   throughput estimate, header cleaning, the counters' byte identities.
4. Two runs of the testbed on one account: endpoint names are fixed, so the
   teardown of one undeploys the endpoints of the other.
