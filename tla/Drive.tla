------------------------------- MODULE Drive -------------------------------
(***************************************************************************)
(* One demo of the testbed: the driver (runpod_testbed/drive/run.py) that  *)
(* submits the jobs of a mechanism to its endpoints and appends a row per  *)
(* job to the jobs file, the worker's handler (worker/flash_app.py and     *)
(* worker/timing.py), and the scraper (harvest/scrape.py) that rewrites    *)
(* the file of pod metrics in the background.  The report is read off the  *)
(* two files (Report).                                                     *)
(*                                                                         *)
(* The serverless queue, the workers' boots and recycling, the volume, the *)
(* staging of models and the cache pods are external and modelled as the   *)
(* code uses them.  A task that the driver no longer waits for goes on.    *)
(***************************************************************************)
EXTENDS Report

CONSTANTS Models,      \* cfg.models
          Groups,      \* the overlap groups, one cache pod and endpoint each
          Workers,     \* the workers of one endpoint, numbered (WORKER_MAX)
          Scenarios,   \* the runs that are tried, see below
          Delays,      \* how long a job may wait before it runs
          Torn         \* a metrics file that is not completely written

Mechanisms == {"shim", "volumecache", "modelstore"}
Endpoints == Groups \cup Models \cup {"baseline", "volumecache"}


\* A run of the demo: cfg.overlap and cfg.burst, how often make drive is run on
\* its runid (a bound), whether the scraper runs, and what may go wrong.
AllFaults == {"labels",    \* the state has no endpoint id for a label
              "submit",    \* the call that submits a job raises
              "wait",      \* jobs wait for a worker, its boot or the staging
              "timeout",   \* the wait for an output raises
              "untimed",   \* the platform's timing cannot be fetched
              "crash",     \* the platform fails a job and its worker
              "download",  \* a download raises in the handler
              "volume",    \* hydrate or sync fails
              "recycle",   \* an idle worker is scaled down
              "kill",      \* the driver is killed
              "reap"}      \* the scraper is killed
Scenario == [mech : Mechanisms, overlap : [Groups -> SUBSET Models], burst : Nat, passes : Nat, scraped : BOOLEAN,
             faults : SUBSET AllFaults]
ASSUME ScenariosAssumption == Scenarios \subseteq Scenario
ASSUME DelaysAssumption == Delays \subseteq Nat
ASSUME WorkersAssumption == Workers \in SUBSET Nat /\ IsFiniteSet(Workers)
ASSUME LabelsAssumption == \A label \in {"baseline", "volumecache"} : label \notin Groups \cup Models
ASSUME NoneAssumption == /\ None \notin Nat /\ None \notin Nat \X Nat
                         /\ None \notin {"wan", "peer", "pod", "local", "staged"}

VARIABLES run,       \* the scenario
          dpc,       \* where the driver is
          pass,      \* how often make drive was run
          todo,      \* jobs that are not submitted
          waiting,   \* jobs whose thread waits for the output
          raised,    \* jobs whose thread ended with an exception
          rows,      \* the jobs file
          tasks,     \* the platform's jobs that are queued, running or answered
          worker,    \* off, fresh or upgraded, by endpoint and number
          local,     \* the models in a worker's HF cache
          mirror,    \* the models mirrored on the volume
          degraded,  \* history: a best-effort volume operation failed for these
          staged,    \* the models the platform has staged
          cached,    \* the models in each pod's cache
          pulled,    \* each pod's count of WAN and peer pulls
          spc,       \* where the scraper is
          flaky,     \* pods that do not answer the scraper
          rest,      \* pods the scraper's cycle has still to ask
          buf,       \* the latest sample of each pod in the scraper's buffer
          parquet    \* the metrics file

driverVars == <<run, dpc, pass, todo, waiting, raised, rows>>
platformVars == <<tasks, worker, local, mirror, degraded, staged, cached, pulled>>
scraperVars == <<spc, flaky, rest, buf, parquet>>
vars == <<driverVars, platformVars, scraperVars>>

mech == run.mech
overlap == run.overlap
burst == run.burst
May(fault) == fault \in run.faults
-----------------------------------------------------------------------------
Job(endpoint, model, phase, replica) ==
    [endpoint |-> endpoint, model |-> model, phase |-> phase, replica |-> replica]

Replicas == 0 .. burst - 1

baseline_jobs == { Job("baseline", m, "baseline", 0) : m \in Models }

\* expand_jobs for the shim: one cold job and a warm burst for each model of
\* each group.
expand_jobs ==
    UNION { { Job(g, m, "cold", 0) : m \in overlap[g] }
              \cup { Job(g, m, "warm", r) : m \in overlap[g], r \in Replicas } : g \in Groups }

\* The jobs method of the mechanism.
MechanismJobs ==
    IF mech = "shim" THEN expand_jobs
    ELSE IF mech = "volumecache"
    THEN { Job("volumecache", m, "populate", 0) : m \in Models }
           \cup { Job("volumecache", m, "warm", r) : m \in Models, r \in Replicas }
    ELSE { Job(m, m, "warm", r) : m \in Models, r \in Replicas }

Jobs == baseline_jobs \cup MechanismJobs

\* Mutant: the shim's own name for populate is forgotten.
SequentialPhasesAliased == {"baseline", "populate"}

SEQUENTIAL_PHASES == {"baseline", "cold", "populate"}

\* The order of the job list, up to that of groups and models: the baseline
\* comes first, and the replicas of a burst in turn.
Before(k, j) ==
    \/ k.phase = "baseline" /\ j.phase # "baseline"
    \/ k.endpoint = j.endpoint /\ k.model = j.model /\ k.phase = j.phase /\ k.replica < j.replica

\* The jobs that may go next: one by one, then as many as the pool has threads.
Turn(j) ==
    /\ j \in todo
    /\ \A k \in todo : ~Before(k, j)
    /\ \/ dpc = "sequential" /\ j.phase \in SEQUENTIAL_PHASES /\ waiting = {}
       \/ dpc = "burst" /\ Cardinality(waiting) < burst

\* The driver is not running.
DriveEnded == {"done", "aborted", "refused", "killed"}
-----------------------------------------------------------------------------
Init ==
    /\ run \in Scenarios
    /\ dpc = "start"
    /\ pass = 0
    /\ todo = {} /\ waiting = {} /\ raised = {} /\ rows = {}
    /\ tasks = {}
    /\ worker = [e \in Endpoints |-> [w \in Workers |-> "off"]]
    /\ local = [e \in Endpoints |-> [w \in Workers |-> {}]]
    /\ mirror = {} /\ degraded = {} /\ staged = {}
    /\ cached = [g \in Groups |-> {}]
    /\ pulled = [g \in Groups |-> 0]
    /\ spc = IF mech = "shim" /\ run.scraped THEN "sample" ELSE "off"
    /\ flaky \in IF mech = "shim" /\ run.scraped THEN SUBSET Groups ELSE {{}}
    /\ rest = Groups
    /\ buf = [g \in Groups |-> None]
    /\ parquet = None

\* main, to the truncation of the jobs file.  A label without an endpoint id
\* is refused before that.
Load(resolvable) ==
    /\ dpc \in DriveEnded \cup {"start"}
    /\ pass < run.passes
    /\ resolvable \/ May("labels")
    /\ pass' = pass + 1
    /\ dpc' = IF resolvable THEN "sequential" ELSE "refused"
    /\ todo' = IF resolvable THEN Jobs ELSE {}
    /\ rows' = IF resolvable THEN {} ELSE rows
    /\ waiting' = {}
    /\ raised' = {}
    /\ UNCHANGED <<run, platformVars, scraperVars>>

\* The first half of _submit_and_wait: the endpoint takes the job.
Submit(j) ==
    /\ Turn(j)
    /\ todo' = todo \ {j}
    /\ waiting' = waiting \cup {j}
    /\ tasks' = tasks \cup {[job |-> j, pass |-> pass, stage |-> "queued", worker |-> None,
                             cold |-> FALSE, src |-> None]}
    /\ UNCHANGED <<run, dpc, pass, raised, rows,
                   worker, local, mirror, degraded, staged, cached, pulled, scraperVars>>

\* Mutant: the first exception ends the pool.
RaiseAtOnce(j) ==
    /\ raised' = raised \cup {j}
    /\ dpc' = "aborted"

\* A thread of the pool, or the loop, ends with an exception.  The loop ends
\* with it; the pool goes on to the last job.
Raise(j) ==
    /\ raised' = raised \cup {j}
    /\ dpc' = IF dpc = "sequential" THEN "aborted" ELSE dpc

\* run raises: it is called outside the try statement.
SubmitFails(j) ==
    /\ May("submit")
    /\ Turn(j)
    /\ todo' = todo \ {j}
    /\ Raise(j)
    /\ UNCHANGED <<run, pass, waiting, rows, platformVars, scraperVars>>

\* Seconds by where the bytes came from, and what an upgrade and a job that is
\* given up cost.
Seconds(src) == IF src = "wan" THEN 4 ELSE 1
UpgradeSeconds == 2
job_timeout_s == 9

\* How long the handler runs.
HandlerSeconds(src, cold) == Seconds(src) + (IF cold THEN UpgradeSeconds ELSE 0)

\* Mutant: the local read reports no breakdown.
BreakdownMissing(src) == IF src \in {None, "staged"} THEN None ELSE Seconds(src)

\* The sum of the handler's breakdown; there is none without a result.
Breakdown(src) == IF src = None THEN None ELSE Seconds(src)

\* record and make_timing_row: the shared schema of a job and its result.  The
\* wall time is the driver's own, from before the job was submitted: with the
\* wait for a worker and the staging.  A job without bytes is given the longest
\* it may have.
Row(j, cold, src, exec, delay) ==
    [job |-> j, pass |-> pass, phase |-> schema_phase(j.phase), ok |-> src # None,
     cold |-> cold, src |-> src, bytes |-> IF src = None THEN 0 ELSE 1,
     wall |-> IF src = None THEN job_timeout_s ELSE delay + HandlerSeconds(src, cold),
     exec |-> exec, breakdown |-> Breakdown(src)]

Record(row) ==
    /\ rows' = rows \cup {row}
    /\ waiting' = waiting \ {row.job}
    /\ UNCHANGED <<run, dpc, pass, todo, raised>>

\* _platform_timing's execution time; None when it cannot be fetched.
PlatformTime(t, timed) == IF timed THEN HandlerSeconds(t.src, t.cold) ELSE None

\* The second half of _submit_and_wait when there is an output: the handler's
\* own failures are values in it.
Collect(j, timed) ==
    \E t \in tasks, delay \in Delays :
        /\ timed \/ May("untimed")
        /\ delay = 0 \/ May("wait")
        /\ j \in waiting
        /\ t.job = j /\ t.pass = pass /\ t.stage = "answered"
        /\ Record(Row(j, t.cold, t.src, PlatformTime(t, timed), delay))
        /\ tasks' = tasks \ {t}
        /\ UNCHANGED <<worker, local, mirror, degraded, staged, cached, pulled, scraperVars>>

\* Mutant: output is waited for without a deadline.
GiveUpAnswered(j) ==
    /\ May("timeout")
    /\ j \in waiting
    /\ \E t \in tasks : t.job = j /\ t.pass = pass /\ t.stage = "answered"
    /\ Record(Row(j, FALSE, None, None, 0))
    /\ UNCHANGED <<platformVars, scraperVars>>

\* output raises, at the deadline or for an error of the API: a failed row.
\* The task is not cancelled.
GiveUp(j) ==
    /\ May("timeout")
    /\ j \in waiting
    /\ Record(Row(j, FALSE, None, None, 0))
    /\ UNCHANGED <<platformVars, scraperVars>>

\* A job that the platform has failed has no output; record cannot read it.
CollectNone(j) ==
    \E t \in tasks :
        /\ j \in waiting
        /\ t.job = j /\ t.pass = pass /\ t.stage = "failed"
        /\ tasks' = tasks \ {t}
        /\ waiting' = waiting \ {j}
        /\ Raise(j)
        /\ UNCHANGED <<run, pass, todo, rows,
                       worker, local, mirror, degraded, staged, cached, pulled, scraperVars>>

\* The loop is done.  A pool of no threads is refused.
StartBurst ==
    /\ dpc = "sequential"
    /\ waiting = {}
    /\ \A j \in todo : j.phase \notin SEQUENTIAL_PHASES
    /\ dpc' = IF burst > 0 THEN "burst" ELSE "aborted"
    /\ UNCHANGED <<run, pass, todo, waiting, raised, rows, platformVars, scraperVars>>

\* The pool is left when every thread has ended; the first exception is raised
\* again.
Finish ==
    /\ dpc = "burst"
    /\ todo = {}
    /\ waiting = {}
    /\ dpc' = IF raised = {} THEN "done" ELSE "aborted"
    /\ UNCHANGED <<run, pass, todo, waiting, raised, rows, platformVars, scraperVars>>

\* The driver is killed.
KillDriver ==
    /\ May("kill")
    /\ dpc \in {"sequential", "burst"}
    /\ dpc' = "killed"
    /\ waiting' = {}
    /\ todo' = {}
    /\ UNCHANGED <<run, pass, raised, rows, platformVars, scraperVars>>
-----------------------------------------------------------------------------
Working == {"hydrate", "pull", "sync"}

Endpoint(t) == t.job.endpoint
Idle(e, w) == \A t \in tasks : ~(Endpoint(t) = e /\ t.worker = w /\ t.stage \in Working)

\* The task moves on.  Nobody asks for the output of one that is not waited for.
Move(t, next) ==
    tasks' = (tasks \ {t}) \cup
             (IF next.stage \notin {"answered", "failed"}
                 \/ (next.pass = pass /\ next.job \in waiting)
              THEN {next} ELSE {})

\* upgrade_pkgs: a plain read of staged files needs no packages.
Upgrades(e) == ~(mech = "modelstore" /\ e # "baseline")

Hydrating(e) == mech = "volumecache" /\ e # "baseline"

\* A worker takes a job, an idle one or a new one, and the handler begins:
\* _upgrade_once on its first invocation.
Begin(t, w) ==
    LET e == Endpoint(t)
    IN  /\ t.stage = "queued"
        /\ Idle(e, w)
        /\ worker[e][w] = "off" => \A v \in Workers : worker[e][v] = "off" => w <= v
        /\ worker' = [worker EXCEPT ![e][w] = IF Upgrades(e) THEN "upgraded" ELSE "fresh"]
        /\ Move(t, [t EXCEPT !.stage = IF Hydrating(e) THEN "hydrate" ELSE "pull",
                             !.worker = w,
                             !.cold = Upgrades(e) /\ worker[e][w] # "upgraded"])
        /\ UNCHANGED <<local, mirror, degraded, staged, cached, pulled, driverVars, scraperVars>>

\* hydrate, which is best effort.
Hydrate(t, ok) ==
    LET e == Endpoint(t)
    IN  /\ t.stage = "hydrate" /\ (ok \/ May("volume"))
        /\ local' = [local EXCEPT ![e][t.worker] = IF ok THEN @ \cup mirror ELSE @]
        /\ degraded' = IF ok THEN degraded ELSE degraded \cup {t.job.model}
        /\ Move(t, [t EXCEPT !.stage = "pull"])
        /\ UNCHANGED <<worker, mirror, staged, cached, pulled, driverVars, scraperVars>>

\* Where the downloader gets the model: hf_download from the worker's own HF
\* cache, through the pod of the group or straight from HF; the model store
\* only from the staged snapshot.
Source(t) ==
    LET e == Endpoint(t)
        m == t.job.model
    IN  IF mech = "modelstore" /\ e # "baseline" THEN IF m \in staged THEN "staged" ELSE None
        ELSE IF m \in local[e][t.worker] THEN "local"
        ELSE IF e \notin Groups THEN "wan"
        ELSE IF m \in cached[e] THEN "pod"
        ELSE IF \E g \in Groups : m \in cached[g] THEN "peer" ELSE "wan"

\* time_one around the downloader; an exception is a value.
Pull(t, ok) ==
    LET e == Endpoint(t)
        m == t.job.model
        src == IF ok THEN Source(t) ELSE None
    IN  /\ t.stage = "pull" /\ (ok \/ May("download"))
        /\ local' = IF src \in {None, "staged"} THEN local
                    ELSE [local EXCEPT ![e][t.worker] = @ \cup {m}]
        /\ IF e \in Groups /\ src \in {"wan", "peer"}
           THEN cached' = [cached EXCEPT ![e] = @ \cup {m}] /\ pulled' = [pulled EXCEPT ![e] = @ + 1]
           ELSE UNCHANGED <<cached, pulled>>
        /\ Move(t, [t EXCEPT !.src = src,
                             !.stage = IF Hydrating(e) /\ src # None THEN "sync" ELSE "answered"])
        /\ UNCHANGED <<worker, mirror, degraded, staged, driverVars, scraperVars>>

\* sync(background=False), which is best effort too.
Sync(t, ok) ==
    /\ t.stage = "sync" /\ (ok \/ May("volume"))
    /\ mirror' = IF ok THEN mirror \cup local[Endpoint(t)][t.worker] ELSE mirror
    /\ degraded' = IF ok THEN degraded ELSE degraded \cup {t.job.model}
    /\ Move(t, [t EXCEPT !.stage = "answered"])
    /\ UNCHANGED <<worker, local, staged, cached, pulled, driverVars, scraperVars>>

\* The platform fails a job, and the worker with it.
Crash(t) ==
    LET e == Endpoint(t)
    IN  /\ May("crash")
        /\ t.stage \in Working
        /\ worker' = [worker EXCEPT ![e][t.worker] = "off"]
        /\ local' = [local EXCEPT ![e][t.worker] = {}]
        /\ Move(t, [t EXCEPT !.stage = "failed"])
        /\ UNCHANGED <<mirror, degraded, staged, cached, pulled, driverVars, scraperVars>>

\* An idle worker is scaled down, with its disk.
Recycle(e, w) ==
    /\ May("recycle")
    /\ worker[e][w] # "off"
    /\ Idle(e, w)
    /\ worker' = [worker EXCEPT ![e][w] = "off"]
    /\ local' = [local EXCEPT ![e][w] = {}]
    /\ UNCHANGED <<tasks, mirror, degraded, staged, cached, pulled, driverVars, scraperVars>>

\* The platform stages a declared model.
StageModel(m) ==
    /\ mech = "modelstore"
    /\ m \notin staged
    /\ staged' = staged \cup {m}
    /\ UNCHANGED <<tasks, worker, local, mirror, degraded, cached, pulled, driverVars, scraperVars>>
-----------------------------------------------------------------------------
Scraping == {"sample", "write", "sleep", "flush"}
Empty == \A g \in Groups : buf[g] = None

\* Mutant: a pod that does not answer ends the cycle.
SampleStops(g) ==
    /\ spc = "sample"
    /\ g \in rest
    /\ rest' = IF g \in flaky THEN {} ELSE rest \ {g}
    /\ buf' = IF g \in flaky THEN buf ELSE [buf EXCEPT ![g] = pulled[g]]
    /\ UNCHANGED <<spc, flaky, parquet, driverVars, platformVars>>

\* scrape_once of one pod; a pod that does not answer is passed over.
Sample(g) ==
    /\ spc = "sample"
    /\ g \in rest
    /\ rest' = rest \ {g}
    /\ buf' = IF g \in flaky THEN buf ELSE [buf EXCEPT ![g] = pulled[g]]
    /\ UNCHANGED <<spc, flaky, parquet, driverVars, platformVars>>

\* write_metrics opens the file; with no rows there is nothing to write.
BeginWrite ==
    /\ spc = "sample"
    /\ rest = {}
    /\ spc' = IF Empty THEN "sleep" ELSE "write"
    /\ parquet' = IF Empty THEN parquet ELSE Torn
    /\ UNCHANGED <<flaky, rest, buf, driverVars, platformVars>>

EndWrite ==
    /\ spc = "write"
    /\ spc' = "sleep"
    /\ parquet' = buf
    /\ UNCHANGED <<flaky, rest, buf, driverVars, platformVars>>

Sleep ==
    /\ spc = "sleep"
    /\ spc' = "sample"
    /\ rest' = Groups
    /\ UNCHANGED <<flaky, buf, parquet, driverVars, platformVars>>

\* Mutant: SIGTERM ends the scraper as it does by default.
StopDropping ==
    /\ spc \in {"sample", "write", "sleep"}
    /\ spc' = "stopped"
    /\ UNCHANGED <<flaky, rest, buf, parquet, driverVars, platformVars>>

\* SIGTERM or SIGINT at any moment of the loop: the buffer is written again.
Stop ==
    /\ spc \in {"sample", "write", "sleep"}
    /\ spc' = IF Empty THEN "stopped" ELSE "flush"
    /\ parquet' = IF Empty THEN parquet ELSE Torn
    /\ UNCHANGED <<flaky, rest, buf, driverVars, platformVars>>

Flush ==
    /\ spc = "flush"
    /\ spc' = "stopped"
    /\ parquet' = buf
    /\ UNCHANGED <<flaky, rest, buf, driverVars, platformVars>>

\* SIGKILL.
KillScraper ==
    /\ May("reap")
    /\ spc \in Scraping
    /\ spc' = "killed"
    /\ UNCHANGED <<flaky, rest, buf, parquet, driverVars, platformVars>>
-----------------------------------------------------------------------------
Threads ==
    \/ \E j \in todo : Submit(j) \/ SubmitFails(j)
    \/ \E j \in waiting : CollectNone(j) \/ GiveUp(j) \/ \E timed \in BOOLEAN : Collect(j, timed)
    \/ StartBurst \/ Finish

Platform ==
    \/ \E t \in tasks, w \in Workers : Begin(t, w)
    \/ \E t \in tasks, ok \in BOOLEAN : Hydrate(t, ok) \/ Pull(t, ok) \/ Sync(t, ok)
    \/ \E t \in tasks : Crash(t)
    \/ \E e \in Endpoints, w \in Workers : Recycle(e, w)
    \/ \E m \in Models : StageModel(m)

Scraper == (\E g \in Groups : Sample(g)) \/ BeginWrite \/ EndWrite \/ Sleep \/ Flush

Next ==
    \/ \E resolvable \in BOOLEAN : Load(resolvable)
    \/ Threads \/ KillDriver
    \/ Platform
    \/ Scraper \/ Stop \/ KillScraper

\* The driver's threads and the scraper run.  Nothing is assumed of the
\* platform: the deadline of a job is the driver's own.
Spec == Init /\ [][Next]_vars /\ WF_vars(Threads) /\ WF_vars(Scraper)
-----------------------------------------------------------------------------
JobType == [endpoint : Endpoints, model : Models,
            phase : {"baseline", "cold", "populate", "warm"}, replica : Nat]
Sources == {"wan", "peer", "pod", "local", "staged", None}
TaskType == [job : JobType, pass : Nat, stage : Working \cup {"queued", "answered", "failed"},
             worker : Workers \cup {None}, cold : BOOLEAN, src : Sources]

\* The type of the state; the phases of the rows are those of the schema.
TypeOK ==
    /\ run \in Scenarios
    /\ dpc \in DriveEnded \cup {"start", "sequential", "burst"}
    /\ pass \in 0 .. run.passes
    /\ todo \subseteq Jobs /\ waiting \subseteq Jobs /\ raised \subseteq Jobs
    /\ \A r \in rows : /\ r.job \in Jobs /\ r.phase = schema_phase(r.job.phase) /\ r.phase \in Phases
                       /\ r.src \in Sources /\ r.ok = (r.src # None)
    /\ tasks \subseteq TaskType /\ \A t \in tasks : t.job \in Jobs
    /\ worker \in [Endpoints -> [Workers -> {"off", "fresh", "upgraded"}]]
    /\ local \in [Endpoints -> [Workers -> SUBSET Models]]
    /\ mirror \cup degraded \cup staged \subseteq Models
    /\ cached \in [Groups -> SUBSET Models]
    /\ pulled \in [Groups -> Nat]
    /\ spc \in Scraping \cup {"off", "stopped", "killed"}
    /\ flaky \subseteq Groups /\ rest \subseteq Groups
    /\ buf \in [Groups -> Nat \cup {None}]

RowsOf(j) == { r \in rows : r.job = j }
Measured(j) == RowsOf(j) # {}

\* "so a re-run doesn't double-count" (run.py): once a pass has submitted a job,
\* the jobs file has rows of that pass only and at most one row of a job,
\* however the passes before it ended.
RowsOfOnePass ==
    (dpc # "refused" /\ pass > 0) =>
        \A r, s \in rows : r.pass = pass /\ (r.job = s.job => r = s)

\* No exception in one thread loses the measurements of the others: when the
\* driver is through with a burst, every job of it has its row or has itself
\* raised, and a driver that reports success has a row for every job.
EveryJobAccounted ==
    /\ dpc = "done" => \A j \in Jobs : Measured(j)
    /\ (dpc = "aborted" /\ burst > 0
          /\ \A j \in Jobs : j.phase \in SEQUENTIAL_PHASES => Measured(j))
       => \A j \in Jobs : Measured(j) \/ j \in raised

\* The jobs file is worth reporting on: no row is counted twice, none is lost.
JobsFileHonest == RowsOfOnePass /\ EveryJobAccounted

\* The phases measure what they say.  In the first pass a baseline job is a pull
\* over the WAN.  A warm job whose model was populated on its endpoint in this
\* pass is not, unless a best-effort operation on the volume failed (the sync
\* of a populate job is over before its row is written), and the model store
\* never is.
PhasesHonest ==
    \A r \in rows :
        r.ok =>
            /\ (r.phase = "baseline" /\ pass = 1) => r.src = "wan"
            /\ (r.phase = "warm"
                  /\ \/ mech = "modelstore"
                     \/ \E p \in rows :
                           /\ p.ok /\ p.phase = "populate"
                           /\ p.job.endpoint = r.job.endpoint /\ p.job.model = r.job.model
                           /\ r.job.model \notin degraded)
               => r.src # "wan"

\* The two views of the comparison are of the same jobs: every job that counts
\* in the cold-start view counts in the steady-state view, whether or not the
\* platform's timing could be fetched, and both take the same phase for warm.
ViewsAgree ==
    LET wall == Latency(rows)
        exec == SteadyState(rows)
    IN  /\ DOMAIN exec = DOMAIN wall
        /\ \A p \in DOMAIN wall :
              exec[p].n = wall[p].n /\ exec[p].total_bytes = wall[p].total_bytes
        /\ MechanismStats(rows).wall_phase = MechanismStats(rows).exec_phase

\* "execution/read time only, queue and staging wait excluded" (compare.py:195):
\* however long jobs wait, and whichever of them the platform's timing could not
\* be fetched for, no phase is slower in the steady-state view than end to end.
WaitsExcluded ==
    \A p \in DOMAIN SteadyState(rows) :
        SteadyState(rows)[p].median2 <= Latency(rows)[p].median2

\* The headline rests on jobs that succeeded: there is a speedup, or a slowdown,
\* when there is such a job on both sides.
HeadlineHonest ==
    LET good(p) == { r \in rows : r.ok /\ r.phase = p }
    IN  (Headline(rows).speedup # None) = (good("baseline") # {} /\ good("warm") # {})

\* What the report says of the rows: its two views are of the same jobs, the
\* steady-state one without their waits, and its headline is about jobs that
\* succeeded.
ReportHonest == ViewsAgree /\ WaitsExcluded /\ HeadlineHonest

\* A scraper that SIGTERM has ended, at whatever point of its cycle, leaves a
\* readable file with all it has collected.
MetricsFlushed ==
    spc = "stopped" => parquet = IF Empty THEN None ELSE buf

\* A pod that does not answer never keeps the counters of the others out of the
\* report: what they have counted is in the file in the end, while the scraper
\* runs.
MetricsReported ==
    \A n \in 1 .. Cardinality(Groups) * Cardinality(Models) :
        LET answering == Groups \ flaky
        IN  (spc \in Scraping /\ FinalByPod([g \in answering |-> pulled[g]]) >= n)
              ~> (\/ spc \notin Scraping
                  \/ parquet \notin {None, Torn}
                     /\ FinalByPod([g \in answering |-> parquet[g]]) >= n)

\* The driver comes to an end whatever the platform does, if only the wait for an
\* output can time out.
DriveEnds ==
    (dpc \in {"sequential", "burst"} /\ May("timeout")) ~> (dpc \in DriveEnded)
-----------------------------------------------------------------------------
(***************************************************************************)
(* The inductive invariant behind the properties of the two files.         *)
(***************************************************************************)

\* The metrics file is written whenever there is something to write.
FileSound ==
    /\ Empty => parquet = None
    /\ spc \in {"write", "flush"} => ~Empty
    /\ MetricsFlushed

\* A job is in one place.
JobsApart ==
    /\ \A j \in todo : j \notin waiting /\ j \notin raised /\ ~Measured(j)
    /\ \A j \in waiting : j \notin raised /\ ~Measured(j)
    /\ \A j \in raised : ~Measured(j)

\* The rows are of the pass, and of a job each.
RowsApart ==
    /\ \A r, s \in rows : r.job = s.job => r = s
    /\ (dpc # "refused" /\ pass > 0) => \A r \in rows : r.pass = pass

\* The loop waits for one job at a time, and the pool begins after it.
LoopSound ==
    /\ dpc \notin {"sequential", "burst"} => waiting = {}
    /\ dpc = "sequential" => \A i, j \in waiting : i = j /\ i.phase \in SEQUENTIAL_PHASES
    /\ dpc = "burst" => \A j \in todo \cup waiting : j.phase \notin SEQUENTIAL_PHASES

\* No job is forgotten, unless the loop has ended with an exception.
NoneForgotten ==
    /\ dpc \in {"sequential", "burst"} =>
          \A j \in Jobs : j \in todo \cup waiting \cup raised \/ Measured(j)
    /\ dpc = "done" => \A j \in Jobs : Measured(j)
    /\ dpc = "aborted" => \/ burst = 0
                          \/ \A j \in Jobs : Measured(j) \/ j \in raised
                          \/ \E j \in raised : j.phase \in SEQUENTIAL_PHASES

\* A job is submitted once in a pass, and a worker does one job at a time.
TasksApart ==
    /\ \A t \in tasks : /\ t.pass \in 1 .. pass
                        /\ t.pass = pass => t.job \notin todo
                        /\ t.stage \in Working => t.worker \in Workers
                        /\ t.stage \in {"hydrate", "sync"} => Hydrating(Endpoint(t))
    /\ \A t, u \in tasks :
          \/ t = u
          \/ /\ t.job = u.job => t.pass # u.pass
             /\ (t.stage \in Working /\ u.stage \in Working /\ Endpoint(t) = Endpoint(u))
                   => t.worker # u.worker

\* What the loop is through with is submitted before what the pool does.
PhasesApart ==
    dpc = "sequential" =>
        /\ \A t \in tasks : t.pass = pass => t.job.phase \in SEQUENTIAL_PHASES
        /\ \A r \in rows : r.job.phase \in SEQUENTIAL_PHASES

Unpulled == {"queued", "hydrate", "pull"}

\* The first pull of a model on the baseline endpoint is the one that is
\* measured.
BaselineSound ==
    /\ pass = 0 => /\ todo = {} /\ waiting = {} /\ rows = {}
                   /\ \A w \in Workers : local["baseline"][w] = {}
    /\ pass = 1 =>
          /\ \A t \in tasks : t.job.phase = "baseline" => t.src \in {"wan", None}
          /\ \A r \in rows : r.job.phase = "baseline" => r.src \in {"wan", None}
          /\ \A w \in Workers : \A m \in local["baseline"][w] :
                /\ Job("baseline", m, "baseline", 0) \notin todo
                /\ \A t \in tasks : t.job = Job("baseline", m, "baseline", 0)
                                       => t.stage \notin Unpulled

\* What was pulled through a pod is in its cache.
CachesSound ==
    /\ \A g \in Groups, w \in Workers : local[g][w] \subseteq cached[g]
    /\ mech # "modelstore" =>
          /\ \A t \in tasks : (t.src # None /\ Endpoint(t) \in Groups)
                                 => t.job.model \in cached[Endpoint(t)]
          /\ \A r \in rows : (r.src # None /\ r.job.endpoint \in Groups)
                                 => r.job.model \in cached[r.job.endpoint]

\* There is a row of a job that has put model m on endpoint e.
Populated(e, m) ==
    \E p \in rows : /\ p.ok /\ p.phase = "populate"
                    /\ p.job.endpoint = e /\ p.job.model = m

\* What was pulled onto the volume's endpoint is mirrored before its row is
\* written, and a worker has what was mirrored before it pulls.
VolumeSound ==
    /\ \A t \in tasks : (Hydrating(Endpoint(t)) /\ t.job.model \notin degraded) =>
          /\ t.stage = "sync" => t.job.model \in local[Endpoint(t)][t.worker]
          /\ (t.stage = "answered" /\ t.src # None) => t.job.model \in mirror
          /\ (/\ t.stage = "pull" /\ t.pass = pass /\ t.job.phase = "warm"
              /\ Populated(Endpoint(t), t.job.model))
                => t.job.model \in local[Endpoint(t)][t.worker]
    /\ \A r \in rows : (/\ Hydrating(r.job.endpoint) /\ r.src # None
                        /\ r.job.model \notin degraded) => r.job.model \in mirror

\* The jobs that PhasesHonest promises to serve nearby.
Nearby(j) ==
    /\ j.phase = "warm"
    /\ mech = "modelstore" \/ (Populated(j.endpoint, j.model) /\ j.model \notin degraded)

WarmSound ==
    /\ \A t \in tasks : (t.pass = pass /\ Nearby(t.job)) => t.src # "wan"
    /\ \A r \in rows : Nearby(r.job) => r.src # "wan"

\* A row of a job that succeeded has its times, whatever the platform says, and
\* waits are in none of them but the wall time.
RowsTimed ==
    /\ IsFiniteSet(rows)
    /\ \A r \in rows :
          r.ok => /\ r.breakdown \in 1 .. r.wall /\ r.wall \in Nat
                  /\ r.exec \in (1 .. r.wall) \cup {None}

\* The inductive invariant.
IInv ==
    /\ TypeOK /\ FileSound
    /\ JobsApart /\ RowsApart /\ LoopSound /\ NoneForgotten
    /\ TasksApart /\ PhasesApart /\ BaselineSound /\ CachesSound /\ VolumeSound /\ WarmSound
    /\ RowsTimed
=============================================================================
