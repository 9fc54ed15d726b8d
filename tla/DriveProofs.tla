---------------------------- MODULE DriveProofs ----------------------------
(***************************************************************************)
(* Proofs about Drive for any models, groups, workers and scenarios: what  *)
(* the jobs file and the metrics file are worth, whatever goes wrong.      *)
(***************************************************************************)
EXTENDS Drive, FiniteSetTheorems, WellFoundedInduction, TLAPS

\* What a scenario is made of.
LEMMA RunFacts ==
    ASSUME run \in Scenarios
    PROVE  /\ mech \in Mechanisms /\ overlap \in [Groups -> SUBSET Models]
           /\ burst \in Nat /\ run.passes \in Nat
BY ScenariosAssumption DEF Scenario, mech, overlap, burst

\* The jobs of a run, by its mechanism.
LEMMA JobFacts ==
    ASSUME run \in Scenarios, NEW j \in Jobs
    PROVE  /\ j \in JobType
           /\ j.phase = "baseline" <=> j.endpoint = "baseline"
           /\ j.phase = "baseline" => j = Job("baseline", j.model, "baseline", 0)
           /\ (mech = "shim" /\ j.phase # "baseline") => j.endpoint \in Groups
           /\ (mech = "volumecache" /\ j.phase # "baseline") => j.endpoint = "volumecache"
           /\ mech \notin {"shim", "volumecache"} =>
                 mech = "modelstore" /\ j.phase \in {"baseline", "warm"}
<1>1. mech \in Mechanisms /\ overlap \in [Groups -> SUBSET Models] /\ burst \in Nat
  BY RunFacts
<1>2. CASE j \in baseline_jobs
  BY <1>1, <1>2 DEF baseline_jobs, Job, JobType, Endpoints, Mechanisms
<1>3. CASE j \in MechanismJobs /\ mech = "shim"
  <2>1. PICK g \in Groups : j \in { Job(g, m, "cold", 0) : m \in overlap[g] }
              \cup { Job(g, m, "warm", r) : m \in overlap[g], r \in Replicas }
    BY <1>3 DEF MechanismJobs, expand_jobs
  <2>2. PICK m \in Models, r \in Nat : j = Job(g, m, "cold", 0) \/ j = Job(g, m, "warm", r)
    BY <1>1, <2>1 DEF Replicas
  <2> QED BY <1>3, <2>2, LabelsAssumption DEF Job, JobType, Endpoints
<1>4. CASE j \in MechanismJobs /\ mech = "volumecache"
  <2>1. PICK m \in Models, r \in Nat : \/ j = Job("volumecache", m, "populate", 0)
                                       \/ j = Job("volumecache", m, "warm", r)
    BY <1>1, <1>4 DEF Replicas, MechanismJobs
  <2> QED BY <1>4, <2>1, LabelsAssumption DEF Job, JobType, Endpoints
<1>5. CASE j \in MechanismJobs /\ mech = "modelstore"
  <2>1. PICK m \in Models, r \in Nat : j = Job(m, m, "warm", r)
    BY <1>1, <1>5 DEF Replicas, MechanismJobs
  <2> QED BY <1>5, <2>1, LabelsAssumption DEF Job, JobType, Endpoints
<1> QED BY <1>1, <1>2, <1>3, <1>4, <1>5 DEF Jobs, Mechanisms

\* A run keeps its scenario.
LEMMA RunFixed == [Next]_vars => run' = run
BY DEF Next, vars, driverVars, Load, Threads, Submit, SubmitFails, CollectNone, GiveUp,
       Collect, Record, StartBurst, Finish, KillDriver, Platform, Begin, Hydrate, Pull,
       Sync, Crash, Recycle, StageModel, Scraper, Sample, BeginWrite, EndWrite, Sleep,
       Flush, Stop, KillScraper

\* So its jobs, and what depends on the mechanism, stay the same.
LEMMA JobsFixed ==
    ASSUME run' = run
    PROVE  /\ Jobs' = Jobs /\ mech' = mech /\ burst' = burst
           /\ \A e : Hydrating(e)' = Hydrating(e)
BY DEF Jobs, baseline_jobs, MechanismJobs, expand_jobs, Replicas, mech, overlap, burst,
       Hydrating

\* The platform and the scraper leave the driver alone.
LEMMA DriverAlone ==
    ASSUME Platform \/ Scraper \/ Stop \/ KillScraper \/ UNCHANGED vars
    PROVE  UNCHANGED driverVars
BY DEF vars, Platform, Begin, Hydrate, Pull, Sync, Crash, Recycle, StageModel,
       Scraper, Sample, BeginWrite, EndWrite, Sleep, Flush, Stop, KillScraper

\* The driver and the platform leave the scraper alone.
LEMMA ScraperAlone ==
    ASSUME \/ \E resolvable \in BOOLEAN : Load(resolvable)
           \/ Threads \/ KillDriver \/ Platform \/ UNCHANGED vars
    PROVE  UNCHANGED scraperVars
BY DEF vars, Load, Threads, Submit, SubmitFails, CollectNone, GiveUp, Collect,
       StartBurst, Finish, KillDriver, Platform, Begin, Hydrate, Pull, Sync, Crash,
       Recycle, StageModel

\* The scraper leaves the platform alone.
LEMMA PlatformAlone ==
    ASSUME Scraper \/ Stop \/ KillScraper \/ UNCHANGED vars
    PROVE  UNCHANGED platformVars
BY DEF vars, Scraper, Sample, BeginWrite, EndWrite, Sleep, Flush, Stop, KillScraper

\* What a task becomes replaces it.
LEMMA Moved ==
    ASSUME NEW t \in tasks, NEW next, Move(t, next)
    PROVE  \A u \in tasks' : u = next \/ (u \in tasks /\ u # t)
BY DEF Move

\* A row is of its job and of the pass.
LEMMA RowFacts ==
    ASSUME NEW j, NEW cold, NEW src, NEW exec, NEW delay
    PROVE  /\ Row(j, cold, src, exec, delay).job = j
           /\ Row(j, cold, src, exec, delay).pass = pass
           /\ Row(j, cold, src, exec, delay).phase = schema_phase(j.phase)
           /\ Row(j, cold, src, exec, delay).src = src
           /\ Row(j, cold, src, exec, delay).ok = (src # None)
BY DEF Row
-----------------------------------------------------------------------------
\* The part of TypeOK that is about the driver, the platform and the scraper.
DriverType ==
    /\ run \in Scenarios
    /\ dpc \in DriveEnded \cup {"start", "sequential", "burst"}
    /\ pass \in 0 .. run.passes
    /\ todo \subseteq Jobs /\ waiting \subseteq Jobs /\ raised \subseteq Jobs
    /\ \A r \in rows : /\ r.job \in Jobs /\ r.phase = schema_phase(r.job.phase) /\ r.phase \in Phases
                       /\ r.src \in Sources /\ r.ok = (r.src # None)

PlatformType ==
    /\ tasks \subseteq TaskType /\ \A t \in tasks : t.job \in Jobs
    /\ worker \in [Endpoints -> [Workers -> {"off", "fresh", "upgraded"}]]
    /\ local \in [Endpoints -> [Workers -> SUBSET Models]]
    /\ mirror \cup degraded \cup staged \subseteq Models
    /\ cached \in [Groups -> SUBSET Models]
    /\ pulled \in [Groups -> Nat]

ScraperType ==
    /\ spc \in Scraping \cup {"off", "stopped", "killed"}
    /\ flaky \subseteq Groups /\ rest \subseteq Groups
    /\ buf \in [Groups -> Nat \cup {None}]

\* Together they are TypeOK.
LEMMA TypeParts == TypeOK <=> DriverType /\ PlatformType /\ ScraperType
BY DEF TypeOK, DriverType, PlatformType, ScraperType

\* The scraper's types are kept.
LEMMA ScraperTypeStep ==
    ASSUME TypeOK, [Next]_vars
    PROVE  ScraperType'
<1>1. ScraperType /\ pulled \in [Groups -> Nat]
  BY TypeParts DEF PlatformType
<1>2. ASSUME UNCHANGED scraperVars PROVE ScraperType'
  BY <1>1, <1>2 DEF ScraperType, scraperVars
<1>3. ASSUME NEW g \in Groups, Sample(g) PROVE ScraperType'
  BY <1>1, <1>3 DEF Sample, ScraperType
<1>4. ASSUME BeginWrite \/ EndWrite \/ Sleep \/ Flush \/ Stop \/ KillScraper
      PROVE  ScraperType'
  BY <1>1, <1>4 DEF BeginWrite, EndWrite, Sleep, Flush, Stop, KillScraper, ScraperType, Scraping
<1> QED BY <1>2, <1>3, <1>4, ScraperAlone DEF Next, Scraper

\* The driver's types are kept.
LEMMA DriverTypeStep ==
    ASSUME TypeOK, [Next]_vars
    PROVE  DriverType'
<1>1. DriverType /\ tasks \subseteq TaskType
  BY TypeParts DEF PlatformType
<1>2. run' = run /\ Jobs' = Jobs
  BY RunFixed, JobsFixed
<1>3. ASSUME UNCHANGED driverVars PROVE DriverType'
  BY <1>1, <1>2, <1>3 DEF DriverType, driverVars
<1>4. ASSUME NEW resolvable \in BOOLEAN, Load(resolvable) PROVE DriverType'
  <2>1. pass' \in 0 .. run.passes
    BY <1>1, <1>4, RunFacts DEF Load, DriverType
  <2> QED BY <1>1, <1>2, <1>4, <2>1 DEF Load, DriverType, DriveEnded
<1>5. ASSUME NEW j \in todo, Submit(j) \/ SubmitFails(j) PROVE DriverType'
  BY <1>1, <1>2, <1>5 DEF Submit, SubmitFails, Raise, DriverType, DriveEnded
<1>6. ASSUME NEW j \in waiting, CollectNone(j) PROVE DriverType'
  BY <1>1, <1>2, <1>6 DEF CollectNone, Raise, DriverType, DriveEnded
<1>7. ASSUME NEW j \in waiting, NEW cold, NEW src \in Sources, NEW exec, NEW delay,
             Record(Row(j, cold, src, exec, delay))
      PROVE  DriverType'
  <2> DEFINE row == Row(j, cold, src, exec, delay)
  <2>1. j \in Jobs /\ j.phase \in {"baseline", "cold", "populate", "warm"}
    BY <1>1, JobFacts DEF DriverType, JobType
  <2>2. /\ row.job \in Jobs /\ row.phase = schema_phase(row.job.phase) /\ row.phase \in Phases
        /\ row.src \in Sources /\ row.ok = (row.src # None)
    BY <2>1, RowFacts DEF schema_phase, Phases
  <2>3. /\ rows' = rows \cup {row} /\ waiting' \subseteq waiting
        /\ UNCHANGED <<run, dpc, pass, todo, raised>>
    BY <1>7 DEF Record
  <2> HIDE DEF row
  <2> QED BY <1>1, <1>2, <2>2, <2>3 DEF DriverType
<1>8. ASSUME NEW j \in waiting, GiveUp(j) PROVE DriverType'
  BY <1>7, <1>8 DEF GiveUp, Sources
<1>9. ASSUME NEW j \in waiting, NEW timed \in BOOLEAN, Collect(j, timed) PROVE DriverType'
  <2>1. PICK t \in tasks, delay \in Delays :
           Record(Row(j, t.cold, t.src, PlatformTime(t, timed), delay))
    BY <1>9 DEF Collect
  <2>2. t.src \in Sources
    BY <1>1 DEF TaskType
  <2> QED BY <1>7, <2>1, <2>2
<1>10. ASSUME StartBurst \/ Finish \/ KillDriver PROVE DriverType'
  BY <1>1, <1>2, <1>10 DEF StartBurst, Finish, KillDriver, DriverType, DriveEnded
<1> QED BY <1>3, <1>4, <1>5, <1>6, <1>8, <1>9, <1>10, DriverAlone DEF Next, Threads

\* Where a download gets its bytes.
LEMMA SourceFacts ==
    ASSUME NEW t
    PROVE  LET e == Endpoint(t)
               m == t.job.model
               store == mech = "modelstore" /\ e # "baseline"
           IN  /\ Source(t) \in Sources
               /\ store => Source(t) \in {"staged", None}
               /\ (~store /\ m \in local[e][t.worker]) => Source(t) = "local"
               /\ (~store /\ m \notin local[e][t.worker] /\ e \notin Groups) => Source(t) = "wan"
               /\ (~store /\ m \notin local[e][t.worker] /\ e \in Groups)
                     => Source(t) \in IF m \in cached[e] THEN {"pod"} ELSE {"peer", "wan"}
BY DEF Source, Sources

\* What a task is.
LEMMA TaskFacts ==
    ASSUME TypeOK, NEW t \in tasks
    PROVE  /\ t \in TaskType /\ t.job \in Jobs /\ t.job \in JobType
           /\ Endpoint(t) \in Endpoints /\ t.job.model \in Models
<1>1. t \in TaskType /\ t.job \in Jobs /\ run \in Scenarios
  BY DEF TypeOK
<1>2. t.job \in JobType
  BY <1>1, JobFacts
<1> QED BY <1>1, <1>2 DEF JobType, Endpoint

\* The tasks of the platform stay tasks.
LEMMA TaskTypeMove ==
    ASSUME TypeOK, run' = run, NEW t \in tasks, NEW next \in TaskType,
           next.job = t.job, Move(t, next)
    PROVE  tasks' \subseteq TaskType /\ \A u \in tasks' : u.job \in Jobs'
<1>1. Jobs' = Jobs
  BY JobsFixed
<1>2. \A u \in tasks' : u = next \/ u \in tasks
  BY Moved
<1> QED BY <1>1, <1>2 DEF TypeOK

\* The platform's types are kept.  A worker that works is one of the endpoint's.
LEMMA PlatformTypeStep ==
    ASSUME TypeOK, TasksApart, [Next]_vars
    PROVE  PlatformType'
<1>1. PlatformType /\ DriverType
  BY TypeParts
<1>2. run' = run /\ Jobs' = Jobs
  BY RunFixed, JobsFixed
<1>3. ASSUME UNCHANGED platformVars PROVE PlatformType'
  BY <1>1, <1>2, <1>3 DEF PlatformType, platformVars
<1>4. ASSUME tasks' \subseteq tasks,
             UNCHANGED <<worker, local, mirror, degraded, staged, cached, pulled>>
      PROVE  PlatformType'
  BY <1>1, <1>2, <1>4 DEF PlatformType
<1>5. ASSUME NEW j \in todo, Submit(j) PROVE PlatformType'
  <2> DEFINE t == [job |-> j, pass |-> pass, stage |-> "queued", worker |-> None,
                   cold |-> FALSE, src |-> None]
  <2>1. j \in Jobs /\ j \in JobType /\ pass \in Nat
    BY <1>1, JobFacts, RunFacts DEF DriverType
  <2>2. t \in TaskType /\ t.job = j
    BY <2>1 DEF TaskType, Sources
  <2>3. tasks' = tasks \cup {t}
        /\ UNCHANGED <<worker, local, mirror, degraded, staged, cached, pulled>>
    BY <1>5 DEF Submit
  <2> HIDE DEF t
  <2> QED BY <1>1, <1>2, <2>1, <2>2, <2>3 DEF PlatformType
<1>6. ASSUME NEW j \in todo, SubmitFails(j) PROVE PlatformType'
  BY <1>3, <1>6 DEF SubmitFails
<1>7. ASSUME NEW j \in waiting, CollectNone(j) \/ GiveUp(j) PROVE PlatformType'
  BY <1>3, <1>4, <1>7 DEF CollectNone, GiveUp
<1>8. ASSUME NEW j \in waiting, NEW timed \in BOOLEAN, Collect(j, timed) PROVE PlatformType'
  BY <1>4, <1>8 DEF Collect
<1>9. ASSUME NEW resolvable \in BOOLEAN, Load(resolvable) PROVE PlatformType'
  BY <1>3, <1>9 DEF Load
<1>10. ASSUME StartBurst \/ Finish \/ KillDriver PROVE PlatformType'
  BY <1>3, <1>10 DEF StartBurst, Finish, KillDriver
<1>11. ASSUME NEW t \in tasks, NEW w \in Workers, Begin(t, w) PROVE PlatformType'
  <2> DEFINE next == [t EXCEPT !.stage = IF Hydrating(Endpoint(t)) THEN "hydrate" ELSE "pull",
                               !.worker = w,
                               !.cold = Upgrades(Endpoint(t)) /\ worker[Endpoint(t)][w] # "upgraded"]
  <2>1. t \in TaskType /\ Endpoint(t) \in Endpoints
    BY TaskFacts
  <2>2. next \in TaskType /\ next.job = t.job
    BY <2>1 DEF TaskType, Working
  <2>3. Move(t, next)
    BY <1>11 DEF Begin
  <2> HIDE DEF next
  <2>4. tasks' \subseteq TaskType /\ \A u \in tasks' : u.job \in Jobs'
    BY <1>2, <2>2, <2>3, TaskTypeMove
  <2>5. worker' \in [Endpoints -> [Workers -> {"off", "fresh", "upgraded"}]]
    BY <1>1, <1>11, <2>1 DEF Begin, PlatformType
  <2> QED BY <1>1, <1>11, <2>4, <2>5 DEF Begin, PlatformType
<1>12. ASSUME NEW t \in tasks, NEW ok \in BOOLEAN, Hydrate(t, ok) PROVE PlatformType'
  <2> DEFINE next == [t EXCEPT !.stage = "pull"]
  <2>1. t \in TaskType /\ Endpoint(t) \in Endpoints /\ t.job.model \in Models
    BY TaskFacts
  <2>2. next \in TaskType /\ next.job = t.job
    BY <2>1 DEF TaskType, Working
  <2>3. Move(t, next)
    BY <1>12 DEF Hydrate
  <2> HIDE DEF next
  <2>4. tasks' \subseteq TaskType /\ \A u \in tasks' : u.job \in Jobs'
    BY <1>2, <2>2, <2>3, TaskTypeMove
  <2>5. t.worker \in Workers
    BY <1>12 DEF Hydrate, TasksApart, Working
  <2>6. local' \in [Endpoints -> [Workers -> SUBSET Models]]
    BY <1>1, <1>12, <2>1, <2>5 DEF Hydrate, PlatformType
  <2> QED BY <1>1, <1>12, <2>1, <2>4, <2>6 DEF Hydrate, PlatformType
<1>13. ASSUME NEW t \in tasks, NEW ok \in BOOLEAN, Pull(t, ok) PROVE PlatformType'
  <2> DEFINE src == IF ok THEN Source(t) ELSE None
             next == [t EXCEPT !.src = src,
                               !.stage = IF Hydrating(Endpoint(t)) /\ src # None THEN "sync"
                                         ELSE "answered"]
  <2>1. t \in TaskType /\ Endpoint(t) \in Endpoints /\ t.job.model \in Models
    BY TaskFacts
  <2>2. src \in Sources
    BY SourceFacts DEF Sources
  <2>3. next \in TaskType /\ next.job = t.job
    BY <2>1, <2>2 DEF TaskType, Working
  <2>4. Move(t, next)
    BY <1>13 DEF Pull
  <2>5. t.worker \in Workers
    BY <1>13 DEF Pull, TasksApart, Working
  <2>6. local' \in [Endpoints -> [Workers -> SUBSET Models]]
    BY <1>1, <1>13, <2>1, <2>5 DEF Pull, PlatformType
  <2>7. cached' \in [Groups -> SUBSET Models] /\ pulled' \in [Groups -> Nat]
    BY <1>1, <1>13, <2>1 DEF Pull, PlatformType
  <2>8. UNCHANGED <<worker, mirror, degraded, staged>>
    BY <1>13 DEF Pull
  <2> HIDE DEF next
  <2>9. tasks' \subseteq TaskType /\ \A u \in tasks' : u.job \in Jobs'
    BY <1>2, <2>3, <2>4, TaskTypeMove
  <2> QED BY <1>1, <2>6, <2>7, <2>8, <2>9 DEF PlatformType
<1>14. ASSUME NEW t \in tasks, NEW ok \in BOOLEAN, Sync(t, ok) PROVE PlatformType'
  <2> DEFINE next == [t EXCEPT !.stage = "answered"]
  <2>1. t \in TaskType /\ Endpoint(t) \in Endpoints /\ t.job.model \in Models
    BY TaskFacts
  <2>2. next \in TaskType /\ next.job = t.job
    BY <2>1 DEF TaskType, Working
  <2>3. Move(t, next)
    BY <1>14 DEF Sync
  <2> HIDE DEF next
  <2>4. tasks' \subseteq TaskType /\ \A u \in tasks' : u.job \in Jobs'
    BY <1>2, <2>2, <2>3, TaskTypeMove
  <2>5. t.worker \in Workers
    BY <1>14 DEF Sync, TasksApart, Working
  <2>6. local[Endpoint(t)][t.worker] \subseteq Models
    BY <1>1, <2>1, <2>5 DEF PlatformType
  <2> QED BY <1>1, <1>14, <2>1, <2>4, <2>6 DEF Sync, PlatformType
<1>15. ASSUME NEW t \in tasks, Crash(t) PROVE PlatformType'
  <2> DEFINE next == [t EXCEPT !.stage = "failed"]
  <2>1. t \in TaskType /\ Endpoint(t) \in Endpoints
    BY TaskFacts
  <2>2. next \in TaskType /\ next.job = t.job
    BY <2>1 DEF TaskType, Working
  <2>3. Move(t, next)
    BY <1>15 DEF Crash
  <2> HIDE DEF next
  <2>4. tasks' \subseteq TaskType /\ \A u \in tasks' : u.job \in Jobs'
    BY <1>2, <2>2, <2>3, TaskTypeMove
  <2>5. worker' \in [Endpoints -> [Workers -> {"off", "fresh", "upgraded"}]]
    BY <1>1, <1>15, <2>1 DEF Crash, PlatformType
  <2>6. local' \in [Endpoints -> [Workers -> SUBSET Models]]
    BY <1>1, <1>15, <2>1 DEF Crash, PlatformType
  <2> QED BY <1>1, <1>15, <2>4, <2>5, <2>6 DEF Crash, PlatformType
<1>16. ASSUME NEW e \in Endpoints, NEW w \in Workers, Recycle(e, w) PROVE PlatformType'
  <2>1. worker' \in [Endpoints -> [Workers -> {"off", "fresh", "upgraded"}]]
    BY <1>1, <1>16 DEF Recycle, PlatformType
  <2>2. local' \in [Endpoints -> [Workers -> SUBSET Models]]
    BY <1>1, <1>16 DEF Recycle, PlatformType
  <2> QED BY <1>1, <1>2, <1>16, <2>1, <2>2 DEF Recycle, PlatformType
<1>17. ASSUME NEW m \in Models, StageModel(m) PROVE PlatformType'
  BY <1>1, <1>2, <1>17 DEF StageModel, PlatformType
<1> QED BY <1>3, <1>5, <1>6, <1>7, <1>8, <1>9, <1>10, <1>11, <1>12, <1>13, <1>14, <1>15,
           <1>16, <1>17, PlatformAlone DEF Next, Threads, Platform

\* So TypeOK is kept.
LEMMA TypeStep ==
    ASSUME TypeOK, TasksApart, [Next]_vars
    PROVE  TypeOK'
<1>1. DriverType' /\ PlatformType' /\ ScraperType'
  BY DriverTypeStep, PlatformTypeStep, ScraperTypeStep
<1> QED BY <1>1 DEF TypeOK, DriverType, PlatformType, ScraperType
-----------------------------------------------------------------------------
\* The scraper's file: a write is begun only for a buffer with samples in it,
\* and a buffer never loses its samples.
LEMMA FileStep ==
    ASSUME TypeOK, FileSound, [Next]_vars
    PROVE  FileSound'
<1>1. ASSUME UNCHANGED scraperVars PROVE FileSound'
  BY <1>1 DEF FileSound, MetricsFlushed, Empty, scraperVars
<1>2. ASSUME NEW g \in Groups, Sample(g) PROVE FileSound'
  <2>1. spc' = "sample"
    BY <1>2 DEF Sample
  <2>2. CASE g \in flaky
    BY <1>2, <2>1, <2>2 DEF Sample, FileSound, MetricsFlushed, Empty
  <2>3. CASE g \notin flaky
    <3>1. buf'[g] \in Nat
      BY <1>2, <2>3 DEF Sample, TypeOK
    <3>2. ~Empty'
      BY <3>1, NoneAssumption DEF Empty
    <3> QED BY <2>1, <3>2 DEF FileSound, MetricsFlushed
  <2> QED BY <2>2, <2>3
<1>3. ASSUME BeginWrite \/ EndWrite \/ Sleep \/ Flush \/ Stop \/ KillScraper
      PROVE  FileSound'
  <2>1. buf' = buf /\ Empty' = Empty
    BY <1>3 DEF BeginWrite, EndWrite, Sleep, Flush, Stop, KillScraper, Empty
  <2> QED BY <1>3, <2>1 DEF BeginWrite, EndWrite, Sleep, Flush, Stop, KillScraper,
                            FileSound, MetricsFlushed
<1> QED BY <1>1, <1>2, <1>3, ScraperAlone DEF Next, Scraper
-----------------------------------------------------------------------------
\* What a thread that has an output, or gives up, does to the driver.
LEMMA Recorded ==
    ASSUME NEW j \in waiting,
           GiveUp(j) \/ \E timed \in BOOLEAN : Collect(j, timed)
    PROVE  /\ \E row : /\ rows' = rows \cup {row}
                       /\ row.job = j /\ row.pass = pass
                       /\ row.phase = schema_phase(j.phase)
                       /\ row.ok = (row.src # None)
                       /\ \/ row.src = None
                          \/ \E t \in tasks : /\ t.job = j /\ t.pass = pass
                                              /\ t.stage = "answered" /\ row.src = t.src
           /\ waiting' = waiting \ {j}
           /\ tasks' \subseteq tasks
           /\ UNCHANGED <<run, dpc, pass, todo, raised, worker, local, mirror, degraded,
                          staged, cached, pulled>>
<1>1. CASE GiveUp(j)
  <2> DEFINE row == Row(j, FALSE, None, None, 0)
  <2>1. /\ row.job = j /\ row.pass = pass /\ row.phase = schema_phase(j.phase)
        /\ row.ok = (row.src # None) /\ row.src = None
    BY DEF Row
  <2>2. Record(row) /\ UNCHANGED platformVars
    BY <1>1 DEF GiveUp
  <2> HIDE DEF row
  <2> QED BY <2>1, <2>2 DEF Record, platformVars
<1>2. ASSUME NEW timed \in BOOLEAN, Collect(j, timed)
      PROVE  /\ \E row : /\ rows' = rows \cup {row}
                         /\ row.job = j /\ row.pass = pass
                         /\ row.phase = schema_phase(j.phase)
                         /\ row.ok = (row.src # None)
                         /\ \E t \in tasks : /\ t.job = j /\ t.pass = pass
                                             /\ t.stage = "answered" /\ row.src = t.src
             /\ waiting' = waiting \ {j}
             /\ tasks' \subseteq tasks
             /\ UNCHANGED <<run, dpc, pass, todo, raised, worker, local, mirror, degraded,
                            staged, cached, pulled>>
  <2>1. PICK t \in tasks, delay \in Delays :
           /\ t.job = j /\ t.pass = pass /\ t.stage = "answered"
           /\ Record(Row(j, t.cold, t.src, PlatformTime(t, timed), delay))
           /\ tasks' = tasks \ {t}
           /\ UNCHANGED <<worker, local, mirror, degraded, staged, cached, pulled>>
    BY <1>2 DEF Collect
  <2> DEFINE row == Row(j, t.cold, t.src, PlatformTime(t, timed), delay)
  <2>2. /\ row.job = j /\ row.pass = pass /\ row.phase = schema_phase(j.phase)
        /\ row.ok = (row.src # None) /\ row.src = t.src
    BY RowFacts
  <2>3. Record(row)
    BY <2>1
  <2> HIDE DEF row
  <2> QED BY <2>1, <2>2, <2>3 DEF Record
<1> QED BY <1>1, <1>2

\* What the end of a thread with an exception does to the driver.
LEMMA Thrown ==
    ASSUME NEW j,
           (j \in todo /\ SubmitFails(j)) \/ (j \in waiting /\ CollectNone(j))
    PROVE  /\ raised' = raised \cup {j} /\ j \in todo \cup waiting
           /\ todo' = todo \ {j} \/ (todo' = todo /\ j \in waiting)
           /\ waiting' = waiting \ {j} \/ (waiting' = waiting /\ j \in todo)
           /\ dpc' = IF dpc = "sequential" THEN "aborted" ELSE dpc
           /\ dpc = "sequential" => j \in waiting \/ (waiting = {} /\ j.phase \in SEQUENTIAL_PHASES)
           /\ tasks' \subseteq tasks
           /\ UNCHANGED <<run, pass, rows, worker, local, mirror, degraded, staged, cached,
                          pulled>>
BY DEF SubmitFails, CollectNone, Raise, Turn, platformVars

\* A job is always in one place.
LEMMA JobsApartStep ==
    ASSUME JobsApart, [Next]_vars
    PROVE  JobsApart'
<1>1. ASSUME UNCHANGED driverVars PROVE JobsApart'
  BY <1>1 DEF JobsApart, Measured, RowsOf, driverVars
<1>2. ASSUME NEW resolvable \in BOOLEAN, Load(resolvable) PROVE JobsApart'
  BY <1>2 DEF Load, JobsApart, Measured, RowsOf
<1>3. ASSUME NEW j \in todo, Submit(j) PROVE JobsApart'
  BY <1>3 DEF Submit, JobsApart, Measured, RowsOf
<1>4. ASSUME NEW j, (j \in todo /\ SubmitFails(j)) \/ (j \in waiting /\ CollectNone(j))
      PROVE  JobsApart'
  BY <1>4, Thrown DEF JobsApart, Measured, RowsOf
<1>5. ASSUME NEW j \in waiting, GiveUp(j) \/ \E timed \in BOOLEAN : Collect(j, timed)
      PROVE  JobsApart'
  <2>1. PICK row : rows' = rows \cup {row} /\ row.job = j
    BY <1>5, Recorded
  <2>2. waiting' = waiting \ {j} /\ UNCHANGED <<todo, raised>>
    BY <1>5, Recorded
  <2> QED BY <2>1, <2>2 DEF JobsApart, Measured, RowsOf
<1>6. ASSUME StartBurst \/ Finish \/ KillDriver PROVE JobsApart'
  BY <1>6 DEF StartBurst, Finish, KillDriver, JobsApart, Measured, RowsOf
<1> QED BY <1>1, <1>2, <1>3, <1>4, <1>5, <1>6, DriverAlone DEF Next, Threads

\* The jobs file has a row of a job at most, and is of one pass.
LEMMA RowsApartStep ==
    ASSUME JobsApart, RowsApart, [Next]_vars
    PROVE  RowsApart'
<1>1. ASSUME UNCHANGED driverVars PROVE RowsApart'
  BY <1>1 DEF RowsApart, driverVars
<1>2. ASSUME NEW resolvable \in BOOLEAN, Load(resolvable) PROVE RowsApart'
  BY <1>2 DEF Load, RowsApart
<1>3. ASSUME NEW j \in todo, Submit(j) PROVE RowsApart'
  BY <1>3 DEF Submit, RowsApart
<1>4. ASSUME NEW j, (j \in todo /\ SubmitFails(j)) \/ (j \in waiting /\ CollectNone(j))
      PROVE  RowsApart'
  BY <1>4, Thrown DEF RowsApart
<1>5. ASSUME NEW j \in waiting, GiveUp(j) \/ \E timed \in BOOLEAN : Collect(j, timed)
      PROVE  RowsApart'
  <2>1. PICK row : rows' = rows \cup {row} /\ row.job = j /\ row.pass = pass
    BY <1>5, Recorded
  <2>2. UNCHANGED <<dpc, pass>>
    BY <1>5, Recorded
  <2>3. \A r \in rows : r.job # j
    BY DEF JobsApart, Measured, RowsOf
  <2> QED BY <2>1, <2>2, <2>3 DEF RowsApart
<1>6. ASSUME StartBurst \/ Finish \/ KillDriver PROVE RowsApart'
  BY <1>6 DEF StartBurst, Finish, KillDriver, RowsApart
<1> QED BY <1>1, <1>2, <1>3, <1>4, <1>5, <1>6, DriverAlone DEF Next, Threads

\* The loop comes before the pool, and waits for one job at a time.
LEMMA LoopStep ==
    ASSUME LoopSound, [Next]_vars
    PROVE  LoopSound'
<1>1. ASSUME UNCHANGED driverVars PROVE LoopSound'
  BY <1>1 DEF LoopSound, driverVars
<1>2. ASSUME NEW resolvable \in BOOLEAN, Load(resolvable) PROVE LoopSound'
  BY <1>2 DEF Load, LoopSound
<1>3. ASSUME NEW j \in todo, Submit(j) PROVE LoopSound'
  BY <1>3 DEF Submit, Turn, LoopSound
<1>4. ASSUME NEW j, (j \in todo /\ SubmitFails(j)) \/ (j \in waiting /\ CollectNone(j))
      PROVE  LoopSound'
  <2>1. waiting' \subseteq waiting /\ todo' \subseteq todo
        /\ dpc' = IF dpc = "sequential" THEN "aborted" ELSE dpc
    BY <1>4, Thrown
  <2>2. ASSUME dpc = "sequential" PROVE waiting' = {}
    <3>1. CASE j \in waiting
      <4>1. waiting' = waiting \ {j}
        BY <1>4, <2>2, <3>1 DEF SubmitFails, CollectNone, Turn
      <4> QED BY <2>2, <3>1, <4>1 DEF LoopSound
    <3>2. CASE waiting = {}
      BY <2>1, <3>2
    <3> QED BY <1>4, <2>2, <3>1, <3>2, Thrown
  <2> QED BY <2>1, <2>2 DEF LoopSound
<1>5. ASSUME NEW j \in waiting, GiveUp(j) \/ \E timed \in BOOLEAN : Collect(j, timed)
      PROVE  LoopSound'
  <2>1. waiting' = waiting \ {j} /\ UNCHANGED <<dpc, todo>>
    BY <1>5, Recorded
  <2> QED BY <2>1 DEF LoopSound
<1>6. ASSUME StartBurst \/ Finish \/ KillDriver PROVE LoopSound'
  BY <1>6 DEF StartBurst, Finish, KillDriver, LoopSound
<1> QED BY <1>1, <1>2, <1>3, <1>4, <1>5, <1>6, DriverAlone DEF Next, Threads

\* No exception in a thread of the pool makes the driver forget a job.
LEMMA NoneForgottenStep ==
    ASSUME TypeOK, LoopSound, NoneForgotten, [Next]_vars
    PROVE  NoneForgotten'
<1>1. Jobs' = Jobs /\ burst' = burst /\ burst \in Nat
  BY RunFixed, JobsFixed, RunFacts DEF TypeOK
<1>2. ASSUME UNCHANGED driverVars PROVE NoneForgotten'
  BY <1>1, <1>2 DEF NoneForgotten, Measured, RowsOf, driverVars
<1>3. ASSUME NEW resolvable \in BOOLEAN, Load(resolvable) PROVE NoneForgotten'
  BY <1>1, <1>3 DEF Load, NoneForgotten
<1>4. ASSUME NEW j \in todo, Submit(j) PROVE NoneForgotten'
  BY <1>1, <1>4 DEF Submit, NoneForgotten, Measured, RowsOf
<1>5. ASSUME NEW j, (j \in todo /\ SubmitFails(j)) \/ (j \in waiting /\ CollectNone(j))
      PROVE  NoneForgotten'
  <2>1. raised' = raised \cup {j} /\ rows' = rows
        /\ todo \cup waiting \subseteq todo' \cup waiting' \cup {j}
        /\ dpc' = IF dpc = "sequential" THEN "aborted" ELSE dpc
    BY <1>5, Thrown
  <2>2. dpc = "sequential" => j.phase \in SEQUENTIAL_PHASES
    BY <1>5, Thrown DEF LoopSound
  <2> QED BY <1>1, <2>1, <2>2 DEF NoneForgotten, Measured, RowsOf
<1>6. ASSUME NEW j \in waiting, GiveUp(j) \/ \E timed \in BOOLEAN : Collect(j, timed)
      PROVE  NoneForgotten'
  <2>1. PICK row : rows' = rows \cup {row} /\ row.job = j
    BY <1>6, Recorded
  <2>2. waiting' = waiting \ {j} /\ UNCHANGED <<dpc, todo, raised>>
    BY <1>6, Recorded
  <2>3. Measured(j)' /\ \A i : Measured(i) => Measured(i)'
    BY <2>1 DEF Measured, RowsOf
  <2> QED BY <1>1, <2>2, <2>3 DEF NoneForgotten
<1>7. ASSUME StartBurst \/ Finish \/ KillDriver PROVE NoneForgotten'
  BY <1>1, <1>7 DEF StartBurst, Finish, KillDriver, NoneForgotten, Measured, RowsOf
<1> QED BY <1>2, <1>3, <1>4, <1>5, <1>6, <1>7, DriverAlone DEF Next, Threads
-----------------------------------------------------------------------------
(***************************************************************************)
(* The platform.  What each of its steps makes of a task.                  *)
(***************************************************************************)

\* A worker takes a queued task.
LEMMA BeginFacts ==
    ASSUME TypeOK, NEW t \in tasks, NEW w \in Workers, Begin(t, w)
    PROVE  \E next :
              /\ Move(t, next)
              /\ next.job = t.job /\ next.pass = t.pass /\ next.src = t.src
              /\ next.worker = w
              /\ next.stage = IF Hydrating(Endpoint(t)) THEN "hydrate" ELSE "pull"
              /\ t.stage = "queued" /\ Idle(Endpoint(t), w)
              /\ UNCHANGED <<driverVars, local, mirror, degraded, staged, cached>>
<1> DEFINE next == [t EXCEPT !.stage = IF Hydrating(Endpoint(t)) THEN "hydrate" ELSE "pull",
                             !.worker = w,
                             !.cold = Upgrades(Endpoint(t)) /\ worker[Endpoint(t)][w] # "upgraded"]
<1>1. t \in TaskType
  BY TaskFacts
<1>2. /\ next.job = t.job /\ next.pass = t.pass /\ next.src = t.src /\ next.worker = w
      /\ next.stage = IF Hydrating(Endpoint(t)) THEN "hydrate" ELSE "pull"
  BY <1>1 DEF TaskType
<1>3. /\ Move(t, next) /\ t.stage = "queued" /\ Idle(Endpoint(t), w)
      /\ UNCHANGED <<driverVars, local, mirror, degraded, staged, cached>>
  BY DEF Begin
<1> HIDE DEF next
<1> QED BY <1>2, <1>3

\* The mirror is copied to the worker, or not.
LEMMA HydrateFacts ==
    ASSUME TypeOK, NEW t \in tasks, NEW ok \in BOOLEAN, Hydrate(t, ok)
    PROVE  \E next :
              /\ Move(t, next)
              /\ next.job = t.job /\ next.pass = t.pass /\ next.src = t.src
              /\ next.worker = t.worker /\ next.stage = "pull" /\ t.stage = "hydrate"
              /\ local' = [local EXCEPT ![Endpoint(t)][t.worker] = IF ok THEN @ \cup mirror ELSE @]
              /\ degraded' = IF ok THEN degraded ELSE degraded \cup {t.job.model}
              /\ UNCHANGED <<driverVars, mirror, staged, cached>>
<1> DEFINE next == [t EXCEPT !.stage = "pull"]
<1>1. t \in TaskType
  BY TaskFacts
<1>2. /\ next.job = t.job /\ next.pass = t.pass /\ next.src = t.src
      /\ next.worker = t.worker /\ next.stage = "pull"
  BY <1>1 DEF TaskType
<1>3. /\ Move(t, next) /\ t.stage = "hydrate"
      /\ local' = [local EXCEPT ![Endpoint(t)][t.worker] = IF ok THEN @ \cup mirror ELSE @]
      /\ degraded' = IF ok THEN degraded ELSE degraded \cup {t.job.model}
      /\ UNCHANGED <<driverVars, mirror, staged, cached>>
  BY DEF Hydrate
<1> HIDE DEF next
<1> QED BY <1>2, <1>3

\* A download has got its bytes, or not.
LEMMA PullFacts ==
    ASSUME TypeOK, NEW t \in tasks, NEW ok \in BOOLEAN, Pull(t, ok)
    PROVE  LET e == Endpoint(t)
               m == t.job.model
               src == IF ok THEN Source(t) ELSE None
           IN  \E next :
                  /\ Move(t, next)
                  /\ next.job = t.job /\ next.pass = t.pass /\ next.src = src
                  /\ next.worker = t.worker /\ t.stage = "pull"
                  /\ next.stage = IF Hydrating(e) /\ src # None THEN "sync" ELSE "answered"
                  /\ local' = IF src \in {None, "staged"} THEN local
                              ELSE [local EXCEPT ![e][t.worker] = @ \cup {m}]
                  /\ cached' = IF e \in Groups /\ src \in {"wan", "peer"}
                               THEN [cached EXCEPT ![e] = @ \cup {m}] ELSE cached
                  /\ UNCHANGED <<driverVars, mirror, degraded, staged>>
<1> DEFINE e == Endpoint(t)
           m == t.job.model
           src == IF ok THEN Source(t) ELSE None
           next == [t EXCEPT !.src = src,
                             !.stage = IF Hydrating(e) /\ src # None THEN "sync"
                                       ELSE "answered"]
<1>1. t \in TaskType
  BY TaskFacts
<1>2. /\ next.job = t.job /\ next.pass = t.pass /\ next.src = src
      /\ next.worker = t.worker
      /\ next.stage = IF Hydrating(e) /\ src # None THEN "sync" ELSE "answered"
  BY <1>1 DEF TaskType
<1>3. /\ Move(t, next) /\ t.stage = "pull"
      /\ local' = IF src \in {None, "staged"} THEN local
                  ELSE [local EXCEPT ![e][t.worker] = @ \cup {m}]
      /\ cached' = IF e \in Groups /\ src \in {"wan", "peer"}
                   THEN [cached EXCEPT ![e] = @ \cup {m}] ELSE cached
      /\ UNCHANGED <<driverVars, mirror, degraded, staged>>
  BY DEF Pull
<1> HIDE DEF next
<1> QED BY <1>2, <1>3

\* The worker is copied to the mirror, or not.
LEMMA SyncFacts ==
    ASSUME TypeOK, NEW t \in tasks, NEW ok \in BOOLEAN, Sync(t, ok)
    PROVE  \E next :
              /\ Move(t, next)
              /\ next.job = t.job /\ next.pass = t.pass /\ next.src = t.src
              /\ next.worker = t.worker /\ next.stage = "answered" /\ t.stage = "sync"
              /\ mirror' = IF ok THEN mirror \cup local[Endpoint(t)][t.worker] ELSE mirror
              /\ degraded' = IF ok THEN degraded ELSE degraded \cup {t.job.model}
              /\ UNCHANGED <<driverVars, local, staged, cached>>
<1> DEFINE next == [t EXCEPT !.stage = "answered"]
<1>1. t \in TaskType
  BY TaskFacts
<1>2. /\ next.job = t.job /\ next.pass = t.pass /\ next.src = t.src
      /\ next.worker = t.worker /\ next.stage = "answered"
  BY <1>1 DEF TaskType
<1>3. /\ Move(t, next) /\ t.stage = "sync"
      /\ mirror' = IF ok THEN mirror \cup local[Endpoint(t)][t.worker] ELSE mirror
      /\ degraded' = IF ok THEN degraded ELSE degraded \cup {t.job.model}
      /\ UNCHANGED <<driverVars, local, staged, cached>>
  BY DEF Sync
<1> HIDE DEF next
<1> QED BY <1>2, <1>3

\* A worker dies with its task and its disk.
LEMMA CrashFacts ==
    ASSUME TypeOK, NEW t \in tasks, Crash(t)
    PROVE  \E next :
              /\ Move(t, next)
              /\ next.job = t.job /\ next.pass = t.pass /\ next.src = t.src
              /\ next.worker = t.worker /\ next.stage = "failed" /\ t.stage \in Working
              /\ local' = [local EXCEPT ![Endpoint(t)][t.worker] = {}]
              /\ UNCHANGED <<driverVars, mirror, degraded, staged, cached>>
<1> DEFINE next == [t EXCEPT !.stage = "failed"]
<1>1. t \in TaskType
  BY TaskFacts
<1>2. /\ next.job = t.job /\ next.pass = t.pass /\ next.src = t.src
      /\ next.worker = t.worker /\ next.stage = "failed"
  BY <1>1 DEF TaskType
<1>3. /\ Move(t, next) /\ t.stage \in Working
      /\ local' = [local EXCEPT ![Endpoint(t)][t.worker] = {}]
      /\ UNCHANGED <<driverVars, mirror, degraded, staged, cached>>
  BY DEF Crash
<1> HIDE DEF next
<1> QED BY <1>2, <1>3

\* What a submitted job adds.
LEMMA SubmitFacts ==
    ASSUME NEW j \in todo, Submit(j)
    PROVE  \E t : /\ tasks' = tasks \cup {t}
                  /\ t.job = j /\ t.pass = pass /\ t.stage = "queued" /\ t.src = None
                  /\ todo' = todo \ {j} /\ waiting' = waiting \cup {j}
                  /\ dpc = "sequential" => j.phase \in SEQUENTIAL_PHASES
                  /\ UNCHANGED <<run, dpc, pass, raised, rows, local, mirror, degraded,
                                 staged, cached>>
<1> DEFINE t == [job |-> j, pass |-> pass, stage |-> "queued", worker |-> None,
                 cold |-> FALSE, src |-> None]
<1>1. t.job = j /\ t.pass = pass /\ t.stage = "queued" /\ t.src = None
  OBVIOUS
<1>2. /\ tasks' = tasks \cup {t}
      /\ todo' = todo \ {j} /\ waiting' = waiting \cup {j}
      /\ dpc = "sequential" => j.phase \in SEQUENTIAL_PHASES
      /\ UNCHANGED <<run, dpc, pass, raised, rows, local, mirror, degraded, staged, cached>>
  BY DEF Submit, Turn
<1> HIDE DEF t
<1> QED BY <1>1, <1>2

\* The steps of the driver that submit nothing leave the platform with the
\* tasks it has, or fewer, and the driver with the jobs it has, or fewer.
LEMMA DriverFrame ==
    ASSUME \/ \E j \in todo : SubmitFails(j)
           \/ \E j \in waiting : \/ CollectNone(j) \/ GiveUp(j)
                                 \/ \E timed \in BOOLEAN : Collect(j, timed)
           \/ StartBurst \/ Finish \/ KillDriver
    PROVE  /\ tasks' \subseteq tasks /\ todo' \subseteq todo /\ pass' = pass /\ run' = run
           /\ dpc' = "sequential" => dpc = "sequential"
           /\ UNCHANGED <<local, mirror, degraded, staged, cached>>
<1>1. ASSUME NEW j \in todo, SubmitFails(j)
      PROVE  /\ tasks' \subseteq tasks /\ todo' \subseteq todo /\ pass' = pass /\ run' = run
             /\ dpc' = "sequential" => dpc = "sequential"
             /\ UNCHANGED <<local, mirror, degraded, staged, cached>>
  BY <1>1 DEF SubmitFails, Raise, platformVars
<1>2. ASSUME NEW j \in waiting, CollectNone(j)
      PROVE  /\ tasks' \subseteq tasks /\ todo' \subseteq todo /\ pass' = pass /\ run' = run
             /\ dpc' = "sequential" => dpc = "sequential"
             /\ UNCHANGED <<local, mirror, degraded, staged, cached>>
  BY <1>2 DEF CollectNone, Raise
<1>3. ASSUME NEW j \in waiting, GiveUp(j) \/ \E timed \in BOOLEAN : Collect(j, timed)
      PROVE  /\ tasks' \subseteq tasks /\ todo' \subseteq todo /\ pass' = pass /\ run' = run
             /\ dpc' = "sequential" => dpc = "sequential"
             /\ UNCHANGED <<local, mirror, degraded, staged, cached>>
  BY <1>3, Recorded
<1>4. CASE StartBurst \/ Finish \/ KillDriver
  BY <1>4 DEF StartBurst, Finish, KillDriver, platformVars
<1> QED BY <1>1, <1>2, <1>3, <1>4

\* A task that moves on stays the only one of its job and of its worker.
LEMMA TasksMove ==
    ASSUME TypeOK, TasksApart, UNCHANGED driverVars, NEW t \in tasks, NEW next,
           Move(t, next), next.job = t.job, next.pass = t.pass,
           next.stage \in Working =>
              /\ next.worker \in Workers
              /\ \/ t.stage \in Working /\ next.worker = t.worker
                 \/ Idle(Endpoint(t), next.worker),
           next.stage \in {"hydrate", "sync"} => Hydrating(Endpoint(t))
    PROVE  TasksApart'
<1>1. \A u \in tasks' : u = next \/ (u \in tasks /\ u # t)
  BY Moved
<1>2. Endpoint(next) = Endpoint(t)
  BY DEF Endpoint
<1>3. \A e : Hydrating(e)' = Hydrating(e)
  BY JobsFixed DEF driverVars
<1>4. UNCHANGED <<pass, todo>>
  BY DEF driverVars
<1>5. \A u \in tasks' : /\ u.pass \in 1 .. pass
                        /\ u.pass = pass => u.job \notin todo
                        /\ u.stage \in Working => u.worker \in Workers
                        /\ u.stage \in {"hydrate", "sync"} => Hydrating(Endpoint(u))
  BY <1>1, <1>2 DEF TasksApart
<1>6. ASSUME NEW u \in tasks, u # t
      PROVE  /\ next.job = u.job => next.pass # u.pass
             /\ (next.stage \in Working /\ u.stage \in Working /\ Endpoint(t) = Endpoint(u))
                   => next.worker # u.worker
  BY <1>6 DEF TasksApart, Idle
<1>7. \A u, v \in tasks' :
         \/ u = v
         \/ /\ u.job = v.job => u.pass # v.pass
            /\ (u.stage \in Working /\ v.stage \in Working /\ Endpoint(u) = Endpoint(v))
                  => u.worker # v.worker
  <2> TAKE u, v \in tasks'
  <2>1. CASE u = next /\ v # next
    BY <1>1, <1>2, <1>6, <2>1
  <2>2. CASE u # next /\ v = next
    BY <1>1, <1>2, <1>6, <2>2
  <2>3. CASE u # next /\ v # next
    BY <1>1, <2>3 DEF TasksApart
  <2> QED BY <2>1, <2>2, <2>3
<1>8. \A u : Endpoint(u)' = Endpoint(u)
  BY DEF Endpoint
<1> QED BY <1>3, <1>4, <1>5, <1>7, <1>8 DEF TasksApart

\* A job is submitted once in a pass, and a worker does one job at a time.
LEMMA TasksStep ==
    ASSUME TypeOK, TasksApart, BaselineSound, [Next]_vars
    PROVE  TasksApart'
<1>1. /\ \A e : Hydrating(e)' = Hydrating(e)
      /\ \A u : Endpoint(u)' = Endpoint(u)
  BY RunFixed, JobsFixed DEF Endpoint
<1>2. pass \in Nat
  BY RunFacts DEF TypeOK
<1>3. ASSUME tasks' \subseteq tasks, todo' \subseteq todo, pass' = pass PROVE TasksApart'
  BY <1>1, <1>3 DEF TasksApart
<1>4. ASSUME NEW resolvable \in BOOLEAN, Load(resolvable) PROVE TasksApart'
  <2>1. tasks' = tasks /\ pass' = pass + 1
    BY <1>4 DEF Load, platformVars
  <2>2. \A t \in tasks : t.pass \in 1 .. pass' /\ t.pass # pass'
    BY <1>2, <2>1 DEF TasksApart
  <2> QED BY <1>1, <2>1, <2>2 DEF TasksApart
<1>5. ASSUME NEW j \in todo, Submit(j) PROVE TasksApart'
  <2>1. PICK t : /\ tasks' = tasks \cup {t}
                 /\ t.job = j /\ t.pass = pass /\ t.stage = "queued" /\ t.src = None
                 /\ todo' = todo \ {j} /\ pass' = pass
    BY <1>5, SubmitFacts
  <2>2. pass \in 1 .. pass
    BY <1>2 DEF BaselineSound
  <2>3. t.stage \notin Working /\ t.stage \notin {"hydrate", "sync"}
    BY <2>1 DEF Working
  <2>4. \A u \in tasks : u.job = j => u.pass # pass
    BY DEF TasksApart
  <2> QED BY <1>1, <2>1, <2>2, <2>3, <2>4 DEF TasksApart
<1>6. ASSUME NEW t \in tasks, NEW w \in Workers, Begin(t, w) PROVE TasksApart'
  <2>1. PICK next : /\ Move(t, next) /\ next.job = t.job /\ next.pass = t.pass
                    /\ next.worker = w
                    /\ next.stage = IF Hydrating(Endpoint(t)) THEN "hydrate" ELSE "pull"
                    /\ Idle(Endpoint(t), w) /\ UNCHANGED driverVars
    BY <1>6, BeginFacts
  <2>2. next.stage \in {"hydrate", "sync"} => Hydrating(Endpoint(t))
    BY <2>1
  <2> QED BY <2>1, <2>2, TasksMove
<1>7. ASSUME NEW t \in tasks, NEW ok \in BOOLEAN, Hydrate(t, ok) PROVE TasksApart'
  <2>1. PICK next : /\ Move(t, next) /\ next.job = t.job /\ next.pass = t.pass
                    /\ next.worker = t.worker /\ next.stage = "pull" /\ t.stage = "hydrate"
                    /\ UNCHANGED driverVars
    BY <1>7, HydrateFacts
  <2>2. t.stage \in Working /\ t.worker \in Workers /\ next.stage \notin {"hydrate", "sync"}
    BY <2>1 DEF TasksApart, Working
  <2> QED BY <2>1, <2>2, TasksMove
<1>8. ASSUME NEW t \in tasks, NEW ok \in BOOLEAN, Pull(t, ok) PROVE TasksApart'
  <2>1. PICK next : /\ Move(t, next) /\ next.job = t.job /\ next.pass = t.pass
                    /\ next.worker = t.worker /\ t.stage = "pull"
                    /\ next.stage \in {"sync", "answered"}
                    /\ next.stage = "sync" => Hydrating(Endpoint(t))
                    /\ UNCHANGED driverVars
    BY <1>8, PullFacts
  <2>2. t.stage \in Working /\ t.worker \in Workers
    BY <2>1 DEF TasksApart, Working
  <2>3. next.stage \in {"hydrate", "sync"} => Hydrating(Endpoint(t))
    BY <2>1
  <2> QED BY <2>1, <2>2, <2>3, TasksMove
<1>9. ASSUME NEW t \in tasks, NEW ok \in BOOLEAN, Sync(t, ok) PROVE TasksApart'
  <2>1. PICK next : /\ Move(t, next) /\ next.job = t.job /\ next.pass = t.pass
                    /\ next.stage = "answered" /\ UNCHANGED driverVars
    BY <1>9, SyncFacts
  <2>2. next.stage \notin Working /\ next.stage \notin {"hydrate", "sync"}
    BY <2>1 DEF Working
  <2> QED BY <2>1, <2>2, TasksMove
<1>10. ASSUME NEW t \in tasks, Crash(t) PROVE TasksApart'
  <2>1. PICK next : /\ Move(t, next) /\ next.job = t.job /\ next.pass = t.pass
                    /\ next.stage = "failed" /\ UNCHANGED driverVars
    BY <1>10, CrashFacts
  <2>2. next.stage \notin Working /\ next.stage \notin {"hydrate", "sync"}
    BY <2>1 DEF Working
  <2> QED BY <2>1, <2>2, TasksMove
<1>11. ASSUME NEW e \in Endpoints, NEW w \in Workers, Recycle(e, w) PROVE TasksApart'
  BY <1>3, <1>11 DEF Recycle, driverVars
<1>12. ASSUME NEW m \in Models, StageModel(m) PROVE TasksApart'
  BY <1>3, <1>12 DEF StageModel, driverVars
<1>13. ASSUME Scraper \/ Stop \/ KillScraper \/ UNCHANGED vars PROVE TasksApart'
  BY <1>3, <1>13, DriverAlone, PlatformAlone DEF driverVars, platformVars
<1> QED BY <1>3, <1>4, <1>5, <1>6, <1>7, <1>8, <1>9, <1>10, <1>11, <1>12, <1>13,
           DriverFrame DEF Next, Threads, Platform
-----------------------------------------------------------------------------
\* The platform makes up no jobs.
LEMMA PlatformKeepsJobs ==
    ASSUME TypeOK, Platform
    PROVE  /\ UNCHANGED driverVars
           /\ \A u \in tasks' : \E v \in tasks : u.job = v.job /\ u.pass = v.pass
<1>1. UNCHANGED driverVars
  BY DriverAlone
<1> DEFINE Kept == \A u \in tasks' : \E v \in tasks : u.job = v.job /\ u.pass = v.pass
<1>2. ASSUME NEW t \in tasks, NEW next, Move(t, next), next.job = t.job, next.pass = t.pass
      PROVE  Kept
  BY <1>2, Moved
<1> HIDE DEF Kept
<1>3. ASSUME NEW t \in tasks, NEW w \in Workers, Begin(t, w) PROVE Kept
  BY <1>2, <1>3, BeginFacts
<1>4. ASSUME NEW t \in tasks, NEW ok \in BOOLEAN, Hydrate(t, ok) PROVE Kept
  BY <1>2, <1>4, HydrateFacts
<1>5. ASSUME NEW t \in tasks, NEW ok \in BOOLEAN, Pull(t, ok) PROVE Kept
  BY <1>2, <1>5, PullFacts
<1>6. ASSUME NEW t \in tasks, NEW ok \in BOOLEAN, Sync(t, ok) PROVE Kept
  BY <1>2, <1>6, SyncFacts
<1>7. ASSUME NEW t \in tasks, Crash(t) PROVE Kept
  BY <1>2, <1>7, CrashFacts
<1>8. ASSUME tasks' = tasks PROVE Kept
  BY <1>8 DEF Kept
<1>9. ASSUME NEW e \in Endpoints, NEW w \in Workers, Recycle(e, w) PROVE Kept
  BY <1>8, <1>9 DEF Recycle
<1>10. ASSUME NEW m \in Models, StageModel(m) PROVE Kept
  BY <1>8, <1>10 DEF StageModel
<1>11. Kept
  BY <1>3, <1>4, <1>5, <1>6, <1>7, <1>9, <1>10 DEF Platform
<1> QED BY <1>1, <1>11 DEF Kept

\* While the loop runs, nothing of the burst has been submitted.
LEMMA PhasesStep ==
    ASSUME TypeOK, LoopSound, TasksApart, PhasesApart, [Next]_vars
    PROVE  PhasesApart'
<1>1. ASSUME \A u \in tasks' : \E v \in tasks : u.job = v.job /\ u.pass = v.pass,
             rows' = rows, pass' = pass, dpc' = "sequential" => dpc = "sequential"
      PROVE  PhasesApart'
  BY <1>1 DEF PhasesApart
<1>2. ASSUME NEW resolvable \in BOOLEAN, Load(resolvable) PROVE PhasesApart'
  <2>1. /\ tasks' = tasks /\ pass' = pass + 1 /\ pass \in Nat
        /\ dpc' = "sequential" => rows' = {}
    BY <1>2, RunFacts DEF Load, platformVars, TypeOK
  <2>2. \A t \in tasks : t.pass # pass'
    BY <2>1 DEF TasksApart
  <2> QED BY <2>1, <2>2 DEF PhasesApart
<1>3. ASSUME NEW j \in todo, Submit(j) PROVE PhasesApart'
  <2>1. PICK t : /\ tasks' = tasks \cup {t} /\ t.job = j
                 /\ dpc = "sequential" => j.phase \in SEQUENTIAL_PHASES
                 /\ UNCHANGED <<dpc, pass, rows>>
    BY <1>3, SubmitFacts
  <2> QED BY <2>1 DEF PhasesApart
<1>4. ASSUME NEW j \in waiting, GiveUp(j) \/ \E timed \in BOOLEAN : Collect(j, timed)
      PROVE  PhasesApart'
  <2>1. PICK row : rows' = rows \cup {row} /\ row.job = j
    BY <1>4, Recorded
  <2>2. tasks' \subseteq tasks /\ UNCHANGED <<dpc, pass>>
    BY <1>4, Recorded
  <2> QED BY <2>1, <2>2 DEF PhasesApart, LoopSound
<1>5. ASSUME NEW j, (j \in todo /\ SubmitFails(j)) \/ (j \in waiting /\ CollectNone(j))
      PROVE  PhasesApart'
  <2>1. /\ tasks' \subseteq tasks /\ rows' = rows /\ pass' = pass
        /\ dpc' = "sequential" => dpc = "sequential"
    BY <1>5, Thrown
  <2> QED BY <1>1, <2>1
<1>6. ASSUME StartBurst \/ Finish \/ KillDriver PROVE PhasesApart'
  BY <1>1, <1>6 DEF StartBurst, Finish, KillDriver, platformVars
<1>7. CASE Platform
  BY <1>1, <1>7, PlatformKeepsJobs DEF driverVars
<1>8. CASE Scraper \/ Stop \/ KillScraper \/ UNCHANGED vars
  BY <1>1, <1>8, DriverAlone, PlatformAlone DEF driverVars, platformVars
<1> QED BY <1>2, <1>3, <1>4, <1>5, <1>6, <1>7, <1>8 DEF Next, Threads

\* A worker that hydrates is on the endpoint of the volume.
LEMMA HydratingEndpoint ==
    ASSUME TypeOK, NEW t \in tasks, Hydrating(Endpoint(t))
    PROVE  Endpoint(t) = "volumecache" /\ Endpoint(t) \notin Groups /\ mech # "modelstore"
<1>1. run \in Scenarios /\ t.job \in Jobs
  BY DEF TypeOK
<1>2. mech = "volumecache" /\ t.job.endpoint # "baseline"
  BY DEF Hydrating, Endpoint
<1>3. t.job.endpoint = "volumecache"
  BY <1>1, <1>2, JobFacts
<1> QED BY <1>2, <1>3, LabelsAssumption DEF Endpoint

\* The steps that bring the baseline's workers nothing.
LEMMA BaselineFrame ==
    ASSUME BaselineSound, UNCHANGED <<pass, todo, waiting, rows>>,
           \A w \in Workers : local'["baseline"][w] \subseteq local["baseline"][w],
           \A u \in tasks' : \E v \in tasks :
              /\ u.job = v.job /\ u.src = v.src
              /\ u.stage \in Unpulled => v.stage \in Unpulled
    PROVE  BaselineSound'
BY DEF BaselineSound

\* In the first pass the baseline of a model is its first pull.
LEMMA BaselineStep ==
    ASSUME TypeOK, TasksApart, BaselineSound, [Next]_vars
    PROVE  BaselineSound'
<1>1. /\ pass \in Nat /\ run \in Scenarios /\ "baseline" \in Endpoints
      /\ local \in [Endpoints -> [Workers -> SUBSET Models]]
  BY RunFacts DEF TypeOK, Endpoints
<1>2. ASSUME NEW resolvable \in BOOLEAN, Load(resolvable) PROVE BaselineSound'
  <2>1. /\ tasks' = tasks /\ local' = local /\ pass' = pass + 1 /\ rows' \subseteq rows
    BY <1>2 DEF Load, platformVars
  <2>2. pass' # 0
    BY <1>1, <2>1
  <2>3. pass' = 1 => pass = 0
    BY <1>1, <2>1
  <2>4. pass = 0 => tasks = {}
    BY DEF TasksApart
  <2> QED BY <2>1, <2>2, <2>3, <2>4 DEF BaselineSound
<1>3. ASSUME NEW j \in todo, Submit(j) PROVE BaselineSound'
  <2>1. PICK t : /\ tasks' = tasks \cup {t}
                 /\ t.job = j /\ t.src = None
                 /\ todo' = todo \ {j} /\ UNCHANGED <<pass, rows, local>>
    BY <1>3, SubmitFacts
  <2>2. pass # 0
    BY DEF BaselineSound
  <2> QED BY <2>1, <2>2 DEF BaselineSound
<1>4. ASSUME NEW j \in waiting, GiveUp(j) \/ \E timed \in BOOLEAN : Collect(j, timed)
      PROVE  BaselineSound'
  <2>1. PICK row : /\ rows' = rows \cup {row} /\ row.job = j
                   /\ row.src = None \/ \E t \in tasks : t.job = j /\ row.src = t.src
    BY <1>4, Recorded
  <2>2. tasks' \subseteq tasks /\ waiting' \subseteq waiting /\ UNCHANGED <<pass, todo, local>>
    BY <1>4, Recorded
  <2>3. pass # 0
    BY DEF BaselineSound
  <2> QED BY <2>1, <2>2, <2>3 DEF BaselineSound
<1>5. ASSUME NEW j, (j \in todo /\ SubmitFails(j)) \/ (j \in waiting /\ CollectNone(j))
      PROVE  BaselineSound'
  <2>1. /\ tasks' \subseteq tasks /\ todo' \subseteq todo /\ waiting' \subseteq waiting
        /\ UNCHANGED <<pass, rows, local>>
    BY <1>5, Thrown
  <2> QED BY <2>1 DEF BaselineSound
<1>6. ASSUME StartBurst \/ Finish \/ KillDriver PROVE BaselineSound'
  <2>1. /\ tasks' = tasks /\ todo' \subseteq todo /\ waiting' \subseteq waiting
        /\ UNCHANGED <<pass, rows, local>>
    BY <1>6 DEF StartBurst, Finish, KillDriver, platformVars
  <2> QED BY <2>1 DEF BaselineSound
<1>7. ASSUME NEW t \in tasks, NEW next, Move(t, next), UNCHANGED driverVars,
             next.job = t.job, next.src = t.src,
             next.stage \in Unpulled => t.stage \in Unpulled,
             \A w \in Workers : local'["baseline"][w] \subseteq local["baseline"][w]
      PROVE  BaselineSound'
  <2>1. \A u \in tasks' : \E v \in tasks :
           /\ u.job = v.job /\ u.src = v.src
           /\ u.stage \in Unpulled => v.stage \in Unpulled
    BY <1>7, Moved
  <2> QED BY <1>7, <2>1, BaselineFrame DEF driverVars
<1>8. ASSUME NEW t \in tasks, NEW w \in Workers, Begin(t, w) PROVE BaselineSound'
  <2>1. PICK next : /\ Move(t, next) /\ next.job = t.job /\ next.src = t.src
                    /\ t.stage = "queued" /\ UNCHANGED <<driverVars, local>>
    BY <1>8, BeginFacts
  <2> QED BY <1>7, <2>1 DEF Unpulled
<1>9. ASSUME NEW t \in tasks, NEW ok \in BOOLEAN, Hydrate(t, ok) PROVE BaselineSound'
  <2>1. PICK next :
           /\ Move(t, next) /\ next.job = t.job /\ next.src = t.src
           /\ t.stage = "hydrate" /\ UNCHANGED driverVars
           /\ local' = [local EXCEPT ![Endpoint(t)][t.worker] = IF ok THEN @ \cup mirror ELSE @]
    BY <1>9, HydrateFacts
  <2>2. Endpoint(t) # "baseline"
    BY <2>1, HydratingEndpoint DEF TasksApart
  <2>3. local'["baseline"] = local["baseline"]
    BY <1>1, <2>1, <2>2
  <2> QED BY <1>7, <2>1, <2>3 DEF Unpulled
<1>10. ASSUME NEW t \in tasks, NEW ok \in BOOLEAN, Pull(t, ok) PROVE BaselineSound'
  <2> DEFINE e == Endpoint(t)
             m == t.job.model
             src == IF ok THEN Source(t) ELSE None
  <2>1. PICK next :
           /\ Move(t, next) /\ next.job = t.job /\ next.pass = t.pass /\ next.src = src
           /\ next.worker = t.worker /\ t.stage = "pull"
           /\ next.stage = IF Hydrating(e) /\ src # None THEN "sync" ELSE "answered"
           /\ local' = IF src \in {None, "staged"} THEN local
                       ELSE [local EXCEPT ![e][t.worker] = @ \cup {m}]
           /\ UNCHANGED driverVars
    BY <1>10, PullFacts
  <2>2. /\ t.job \in Jobs /\ e \in Endpoints /\ t.worker \in Workers /\ t.pass \in 1 .. pass
    BY <2>1, TaskFacts DEF TasksApart, Working
  <2>3. next.stage \notin Unpulled
    BY <2>1 DEF Unpulled
  <2>4. \A u \in tasks' : u = next \/ (u \in tasks /\ u # t)
    BY <2>1, Moved
  <2>5. UNCHANGED <<pass, todo, waiting, rows>>
    BY <2>1 DEF driverVars
  <2>6. CASE e # "baseline"
    <3>1. t.job.phase # "baseline"
      BY <1>1, <2>2, <2>6, JobFacts DEF Endpoint
    <3>2. local'["baseline"] = local["baseline"]
      BY <1>1, <2>1, <2>2, <2>6
    <3> QED BY <2>1, <2>3, <2>4, <2>5, <3>1, <3>2 DEF BaselineSound
  <2>7. CASE e = "baseline"
    <3>1. t.job = Job("baseline", m, "baseline", 0)
      BY <1>1, <2>2, <2>7, JobFacts DEF Endpoint
    <3>2. ASSUME pass = 1 PROVE src \in {"wan", None}
      <4>1. m \notin local["baseline"][t.worker]
        BY <2>1, <2>2, <3>1, <3>2 DEF BaselineSound, Unpulled
      <4>2. "baseline" \notin Groups
        BY LabelsAssumption
      <4> QED BY <2>7, <4>1, <4>2, SourceFacts
    <3>3. ASSUME NEW w \in Workers, NEW k \in local'["baseline"][w]
          PROVE  k = m \/ k \in local["baseline"][w]
      BY <1>1, <2>1, <2>2, <2>7, <3>3
    <3>4. ASSUME pass = 1 PROVE /\ t.job \notin todo
                                /\ \A u \in tasks' : u.job = t.job => u.stage \notin Unpulled
      <4>1. t.pass = pass /\ \A u \in tasks : u.pass = pass
        BY <2>2, <3>4 DEF TasksApart
      <4>2. \A u \in tasks : u.job = t.job => u = t
        BY <4>1 DEF TasksApart
      <4> QED BY <2>3, <2>4, <4>1, <4>2 DEF TasksApart
    <3>5. pass # 0
      BY <2>2
    <3> QED BY <2>1, <2>3, <2>4, <2>5, <3>1, <3>2, <3>3, <3>4, <3>5 DEF BaselineSound
  <2> QED BY <2>6, <2>7
<1>11. ASSUME NEW t \in tasks, NEW ok \in BOOLEAN, Sync(t, ok) PROVE BaselineSound'
  <2>1. PICK next : /\ Move(t, next) /\ next.job = t.job /\ next.src = t.src
                    /\ next.stage = "answered" /\ UNCHANGED <<driverVars, local>>
    BY <1>11, SyncFacts
  <2> QED BY <1>7, <2>1 DEF Unpulled
<1>12. ASSUME NEW t \in tasks, Crash(t) PROVE BaselineSound'
  <2>1. PICK next : /\ Move(t, next) /\ next.job = t.job /\ next.src = t.src
                    /\ next.stage = "failed" /\ UNCHANGED driverVars
                    /\ local' = [local EXCEPT ![Endpoint(t)][t.worker] = {}]
    BY <1>12, CrashFacts
  <2>2. \A w \in Workers : local'["baseline"][w] \subseteq local["baseline"][w]
    BY <1>1, <2>1
  <2> QED BY <1>7, <2>1, <2>2 DEF Unpulled
<1>13. ASSUME NEW e \in Endpoints, NEW w \in Workers, Recycle(e, w) PROVE BaselineSound'
  <2>1. /\ local' = [local EXCEPT ![e][w] = {}] /\ tasks' = tasks
        /\ UNCHANGED <<pass, todo, waiting, rows>>
    BY <1>13 DEF Recycle, driverVars
  <2>2. \A v \in Workers : local'["baseline"][v] \subseteq local["baseline"][v]
    BY <1>1, <2>1
  <2> QED BY <2>1, <2>2, BaselineFrame
<1>14. ASSUME NEW m \in Models, StageModel(m) PROVE BaselineSound'
  BY <1>14, BaselineFrame DEF StageModel, driverVars
<1>15. CASE Scraper \/ Stop \/ KillScraper \/ UNCHANGED vars
  BY <1>15, DriverAlone, PlatformAlone, BaselineFrame DEF driverVars, platformVars
<1> QED BY <1>2, <1>3, <1>4, <1>5, <1>6, <1>8, <1>9, <1>10, <1>11, <1>12, <1>13, <1>14, <1>15
        DEF Next, Threads, Platform

\* The caches only grow, and a task or a row that is there already, or of a task
\* that is, names a model in them.
LEMMA CachesFrame ==
    ASSUME CachesSound, run' = run,
           \A g \in Groups : cached[g] \subseteq cached'[g],
           \A g \in Groups, w \in Workers : local'[g][w] \subseteq cached'[g],
           \A u \in tasks' :
              \/ u.src = None \/ mech = "modelstore"
              \/ u.job.endpoint \in Groups => u.job.model \in cached'[u.job.endpoint]
              \/ \E v \in tasks : u.job = v.job /\ u.src = v.src,
           \A r \in rows' : \/ r \in rows \/ r.src = None
                            \/ \E v \in tasks : r.job = v.job /\ r.src = v.src
    PROVE  CachesSound'
<1>1. mech' = mech
  BY JobsFixed
<1>2. mech # "modelstore" =>
         \A u \in tasks' : (u.src # None /\ u.job.endpoint \in Groups)
                              => u.job.model \in cached'[u.job.endpoint]
  BY DEF CachesSound, Endpoint
<1>3. mech # "modelstore" =>
         \A r \in rows' : (r.src # None /\ r.job.endpoint \in Groups)
                              => r.job.model \in cached'[r.job.endpoint]
  BY DEF CachesSound, Endpoint
<1> QED BY <1>1, <1>2, <1>3 DEF CachesSound, Endpoint

\* What a worker has pulled through a pod is in the pod's cache.
LEMMA CachesStep ==
    ASSUME TypeOK, TasksApart, CachesSound, [Next]_vars
    PROVE  CachesSound'
<1>1. /\ run' = run /\ Groups \subseteq Endpoints
      /\ local \in [Endpoints -> [Workers -> SUBSET Models]]
      /\ cached \in [Groups -> SUBSET Models]
      /\ \A g \in Groups, w \in Workers : local[g][w] \subseteq cached[g]
  BY RunFixed DEF TypeOK, Endpoints, CachesSound
<1>2. ASSUME NEW resolvable \in BOOLEAN, Load(resolvable) PROVE CachesSound'
  <2>1. UNCHANGED <<tasks, local, cached>> /\ rows' \subseteq rows
    BY <1>2 DEF Load, platformVars
  <2> QED BY <1>1, <2>1, CachesFrame
<1>3. ASSUME NEW j \in todo, Submit(j) PROVE CachesSound'
  <2>1. PICK t : /\ tasks' = tasks \cup {t} /\ t.src = None
                 /\ UNCHANGED <<rows, local, cached>>
    BY <1>3, SubmitFacts
  <2> QED BY <1>1, <2>1, CachesFrame
<1>4. ASSUME NEW j \in waiting, GiveUp(j) \/ \E timed \in BOOLEAN : Collect(j, timed)
      PROVE  CachesSound'
  <2>1. PICK row : /\ rows' = rows \cup {row} /\ row.job = j
                   /\ row.src = None \/ \E t \in tasks : t.job = j /\ row.src = t.src
    BY <1>4, Recorded
  <2>2. tasks' \subseteq tasks /\ UNCHANGED <<local, cached>>
    BY <1>4, Recorded
  <2> QED BY <1>1, <2>1, <2>2, CachesFrame
<1>5. ASSUME NEW j, (j \in todo /\ SubmitFails(j)) \/ (j \in waiting /\ CollectNone(j))
      PROVE  CachesSound'
  <2>1. tasks' \subseteq tasks /\ UNCHANGED <<rows, local, cached>>
    BY <1>5, Thrown
  <2> QED BY <1>1, <2>1, CachesFrame
<1>6. ASSUME StartBurst \/ Finish \/ KillDriver PROVE CachesSound'
  <2>1. UNCHANGED <<tasks, rows, local, cached>>
    BY <1>6 DEF StartBurst, Finish, KillDriver, platformVars
  <2> QED BY <1>1, <2>1, CachesFrame
<1>7. ASSUME NEW t \in tasks, NEW next, Move(t, next), UNCHANGED <<driverVars, cached>>,
             next.job = t.job, next.src = t.src,
             \A g \in Groups, w \in Workers : local'[g][w] \subseteq local[g][w]
      PROVE  CachesSound'
  <2>1. \A u \in tasks' : \E v \in tasks : u.job = v.job /\ u.src = v.src
    BY <1>7, Moved
  <2>2. rows' = rows
    BY <1>7 DEF driverVars
  <2>3. \A g \in Groups, w \in Workers : local'[g][w] \subseteq cached'[g]
    BY <1>1, <1>7
  <2> QED BY <1>1, <1>7, <2>1, <2>2, <2>3, CachesFrame
<1>8. ASSUME NEW t \in tasks, NEW w \in Workers, Begin(t, w) PROVE CachesSound'
  <2>1. PICK next : /\ Move(t, next) /\ next.job = t.job /\ next.src = t.src
                    /\ UNCHANGED <<driverVars, local, cached>>
    BY <1>8, BeginFacts
  <2> QED BY <1>7, <2>1
<1>9. ASSUME NEW t \in tasks, NEW ok \in BOOLEAN, Hydrate(t, ok) PROVE CachesSound'
  <2>1. PICK next :
           /\ Move(t, next) /\ next.job = t.job /\ next.src = t.src
           /\ t.stage = "hydrate" /\ UNCHANGED <<driverVars, cached>>
           /\ local' = [local EXCEPT ![Endpoint(t)][t.worker] = IF ok THEN @ \cup mirror ELSE @]
    BY <1>9, HydrateFacts
  <2>2. Endpoint(t) \notin Groups
    BY <2>1, HydratingEndpoint DEF TasksApart
  <2>3. \A g \in Groups : local'[g] = local[g]
    BY <1>1, <2>1, <2>2
  <2> QED BY <1>7, <2>1, <2>3
<1>10. ASSUME NEW t \in tasks, NEW ok \in BOOLEAN, Pull(t, ok) PROVE CachesSound'
  <2> DEFINE e == Endpoint(t)
             m == t.job.model
             src == IF ok THEN Source(t) ELSE None
  <2>1. PICK next :
           /\ Move(t, next) /\ next.job = t.job /\ next.src = src /\ t.stage = "pull"
           /\ local' = IF src \in {None, "staged"} THEN local
                       ELSE [local EXCEPT ![e][t.worker] = @ \cup {m}]
           /\ cached' = IF e \in Groups /\ src \in {"wan", "peer"}
                        THEN [cached EXCEPT ![e] = @ \cup {m}] ELSE cached
           /\ UNCHANGED driverVars
    BY <1>10, PullFacts
  <2>2. e \in Endpoints /\ t.worker \in Workers
    BY <2>1, TaskFacts DEF TasksApart, Working
  <2>3. src \in {None, "staged"} \/ (e \in Groups => m \in cached'[e])
    <3>1. src # None => src = Source(t)
      OBVIOUS
    <3>2. ASSUME e \in Groups, src \notin {None, "staged"} PROVE m \in cached'[e]
      <4>1. CASE src \in {"wan", "peer"}
        BY <1>1, <2>1, <3>2, <4>1
      <4>2. CASE src \notin {"wan", "peer"}
        <5>1. m \in cached[e]
          BY <1>1, <2>2, <3>1, <3>2, <4>2, SourceFacts
        <5> QED BY <2>1, <4>2, <5>1
      <4> QED BY <4>1, <4>2
    <3> QED BY <3>2
  <2>4. \A g \in Groups : cached[g] \subseteq cached'[g]
    BY <1>1, <2>1
  <2>5. ASSUME NEW g \in Groups, NEW w \in Workers PROVE local'[g][w] \subseteq cached'[g]
    <3>1. \/ local'[g][w] = local[g][w]
          \/ g = e /\ src \notin {None, "staged"} /\ local'[g][w] = local[g][w] \cup {m}
      BY <1>1, <2>1, <2>2
    <3> QED BY <1>1, <2>3, <2>4, <3>1
  <2>6. src = "staged" => mech = "modelstore"
    BY NoneAssumption, SourceFacts
  <2>7. \A u \in tasks' : u = next \/ u \in tasks
    BY <2>1, Moved
  <2>8. /\ rows' = rows
        /\ \A u \in tasks' :
              \/ u.src = None \/ mech = "modelstore"
              \/ u.job.endpoint \in Groups => u.job.model \in cached'[u.job.endpoint]
              \/ \E v \in tasks : u.job = v.job /\ u.src = v.src
    BY <2>1, <2>3, <2>6, <2>7 DEF driverVars, Endpoint
  <2> HIDE DEF e, m, src
  <2> QED BY <1>1, <2>4, <2>5, <2>8, CachesFrame
<1>11. ASSUME NEW t \in tasks, NEW ok \in BOOLEAN, Sync(t, ok) PROVE CachesSound'
  <2>1. PICK next : /\ Move(t, next) /\ next.job = t.job /\ next.src = t.src
                    /\ UNCHANGED <<driverVars, local, cached>>
    BY <1>11, SyncFacts
  <2> QED BY <1>7, <2>1
<1>12. ASSUME NEW t \in tasks, Crash(t) PROVE CachesSound'
  <2>1. PICK next : /\ Move(t, next) /\ next.job = t.job /\ next.src = t.src
                    /\ UNCHANGED <<driverVars, cached>>
                    /\ local' = [local EXCEPT ![Endpoint(t)][t.worker] = {}]
    BY <1>12, CrashFacts
  <2>2. \A g \in Groups, w \in Workers : local'[g][w] \subseteq local[g][w]
    BY <1>1, <2>1
  <2> QED BY <1>7, <2>1, <2>2
<1>13. ASSUME NEW e \in Endpoints, NEW w \in Workers, Recycle(e, w) PROVE CachesSound'
  <2>1. local' = [local EXCEPT ![e][w] = {}] /\ UNCHANGED <<tasks, cached, rows>>
    BY <1>13 DEF Recycle, driverVars
  <2>2. \A g \in Groups, v \in Workers : local'[g][v] \subseteq cached'[g]
    BY <1>1, <2>1
  <2> QED BY <1>1, <2>1, <2>2, CachesFrame
<1>14. ASSUME NEW m \in Models, StageModel(m) PROVE CachesSound'
  <2>1. UNCHANGED <<tasks, rows, local, cached>>
    BY <1>14 DEF StageModel, driverVars
  <2> QED BY <1>1, <2>1, CachesFrame
<1>15. CASE Scraper \/ Stop \/ KillScraper \/ UNCHANGED vars
  <2>1. UNCHANGED <<tasks, rows, local, cached>>
    BY <1>15, DriverAlone, PlatformAlone DEF driverVars, platformVars
  <2> QED BY <1>1, <2>1, CachesFrame
<1> QED BY <1>2, <1>3, <1>4, <1>5, <1>6, <1>8, <1>9, <1>10, <1>11, <1>12, <1>13, <1>14, <1>15
        DEF Next, Threads, Platform
-----------------------------------------------------------------------------
\* VolumeSound, of one task and of one row.
TaskMirrored(t) ==
    (Hydrating(t.job.endpoint) /\ t.job.model \notin degraded) =>
       /\ t.stage = "sync" => t.job.model \in local[t.job.endpoint][t.worker]
       /\ (t.stage = "answered" /\ t.src # None) => t.job.model \in mirror
       /\ (/\ t.stage = "pull" /\ t.pass = pass /\ t.job.phase = "warm"
           /\ Populated(t.job.endpoint, t.job.model))
             => t.job.model \in local[t.job.endpoint][t.worker]

RowMirrored(r) ==
    (Hydrating(r.job.endpoint) /\ r.src # None /\ r.job.model \notin degraded)
       => r.job.model \in mirror

LEMMA VolumeParts ==
    VolumeSound <=> (\A t \in tasks : TaskMirrored(t)) /\ (\A r \in rows : RowMirrored(r))
BY DEF VolumeSound, TaskMirrored, RowMirrored, Endpoint

\* A task stays mirrored while it, its worker's disk and what was populated in
\* its pass stay the same.
LEMMA TaskKept ==
    ASSUME NEW u, TaskMirrored(u), run' = run,
           mirror \subseteq mirror', degraded \subseteq degraded',
           u.stage \in {"sync", "pull"} =>
              local[u.job.endpoint][u.worker] \subseteq local'[u.job.endpoint][u.worker],
           (u.pass = pass' /\ u.job.phase = "warm" /\ Populated(u.job.endpoint, u.job.model)')
              => u.pass = pass /\ Populated(u.job.endpoint, u.job.model)
    PROVE  TaskMirrored(u)'
<1>1. \A e : Hydrating(e)' = Hydrating(e)
  BY JobsFixed
<1>2. Hydrating(u.job.endpoint)' = Hydrating(u.job.endpoint)
  BY <1>1
<1> DEFINE pop == Populated(u.job.endpoint, u.job.model)
           popNext == Populated(u.job.endpoint, u.job.model)'
<1>3. (u.pass = pass' /\ u.job.phase = "warm" /\ popNext) => u.pass = pass /\ pop
  OBVIOUS
<1> QED BY <1>2 DEF TaskMirrored

\* So does a row.
LEMMA RowKept ==
    ASSUME NEW r, RowMirrored(r), run' = run,
           mirror \subseteq mirror', degraded \subseteq degraded'
    PROVE  RowMirrored(r)'
<1>1. Hydrating(r.job.endpoint)' = Hydrating(r.job.endpoint)
  BY JobsFixed
<1> QED BY <1>1 DEF RowMirrored

\* A step of a task that leaves the disks of the other workers alone.
LEMMA VolumeMove ==
    ASSUME VolumeSound, UNCHANGED driverVars, NEW t \in tasks, NEW next, Move(t, next),
           mirror \subseteq mirror', degraded \subseteq degraded', TaskMirrored(next)',
           \A u \in tasks :
              (u # t /\ u.stage \in {"sync", "pull"}) =>
                 local[u.job.endpoint][u.worker] \subseteq local'[u.job.endpoint][u.worker]
    PROVE  VolumeSound'
<1>1. run' = run /\ rows' = rows /\ pass' = pass
  BY DEF driverVars
<1>2. (\A u \in tasks : TaskMirrored(u)) /\ (\A r \in rows : RowMirrored(r))
  BY VolumeParts
<1>3. \A r \in rows' : RowMirrored(r)'
  BY <1>1, <1>2, RowKept
<1>4. ASSUME NEW u \in tasks, u # t PROVE TaskMirrored(u)'
  <2>1. Populated(u.job.endpoint, u.job.model)' => Populated(u.job.endpoint, u.job.model)
    BY <1>1 DEF Populated
  <2> QED BY <1>1, <1>2, <1>4, <2>1, TaskKept
<1>5. \A u \in tasks' : TaskMirrored(u)'
  BY <1>4, Moved
<1> QED BY <1>3, <1>5 DEF VolumeSound, TaskMirrored, RowMirrored, Endpoint

\* A step that keeps the tasks, the volume and the disks, and populates nothing
\* that a warm job of the pass relies on.
LEMMA VolumeFrame ==
    ASSUME VolumeSound, run' = run, UNCHANGED <<mirror, degraded>>,
           \A u \in tasks' :
              \/ u.stage = "queued"
              \/ /\ u \in tasks
                 /\ u.stage \in {"sync", "pull"} =>
                       local[u.job.endpoint][u.worker] \subseteq local'[u.job.endpoint][u.worker]
                 /\ (u.pass = pass' /\ u.job.phase = "warm"
                       /\ Populated(u.job.endpoint, u.job.model)')
                      => u.pass = pass /\ Populated(u.job.endpoint, u.job.model),
           \A r \in rows' : r \in rows \/ RowMirrored(r)
    PROVE  VolumeSound'
<1>1. (\A u \in tasks : TaskMirrored(u)) /\ (\A r \in rows : RowMirrored(r))
  BY VolumeParts
<1>2. \A r \in rows' : RowMirrored(r)'
  BY <1>1, RowKept
<1>3. ASSUME NEW u \in tasks' PROVE TaskMirrored(u)'
  <2>1. CASE u.stage = "queued"
    BY <2>1 DEF TaskMirrored
  <2>2. CASE u.stage # "queued"
    BY <1>1, <1>3, <2>2, TaskKept
  <2> QED BY <2>1, <2>2
<1> QED BY <1>2, <1>3 DEF VolumeSound, TaskMirrored, RowMirrored, Endpoint

\* A row of a populate job is written while nothing warm of the pass has been
\* submitted.
LEMMA PopulatedEarly ==
    ASSUME TypeOK, LoopSound, PhasesApart, NEW j \in waiting,
           GiveUp(j) \/ \E timed \in BOOLEAN : Collect(j, timed),
           NEW e, NEW m, Populated(e, m)', ~Populated(e, m)
    PROVE  /\ \A u \in tasks : u.pass = pass => u.job.phase # "warm"
           /\ \A r \in rows' : r.job.phase # "warm"
<1>1. PICK row : rows' = rows \cup {row} /\ row.job = j /\ row.phase = schema_phase(j.phase)
  BY Recorded
<1>2. row.phase = "populate"
  BY <1>1 DEF Populated
<1>3. j.phase \in {"cold", "populate"}
  BY <1>1, <1>2 DEF schema_phase
<1>4. dpc = "sequential"
  BY <1>3 DEF LoopSound, SEQUENTIAL_PHASES
<1> QED BY <1>1, <1>3, <1>4 DEF PhasesApart, SEQUENTIAL_PHASES

\* What was pulled is mirrored before its row is written, and hydrated before
\* the next pull.
LEMMA VolumeStep ==
    ASSUME TypeOK, LoopSound, TasksApart, PhasesApart, VolumeSound, [Next]_vars
    PROVE  VolumeSound'
<1>1. /\ run' = run /\ pass \in Nat
      /\ local \in [Endpoints -> [Workers -> SUBSET Models]]
      /\ \A e : Hydrating(e)' = Hydrating(e)
  BY RunFixed, JobsFixed, RunFacts DEF TypeOK
<1>2. (\A u \in tasks : TaskMirrored(u)) /\ (\A r \in rows : RowMirrored(r))
  BY VolumeParts
<1>3. ASSUME NEW resolvable \in BOOLEAN, Load(resolvable) PROVE VolumeSound'
  <2>1. UNCHANGED <<tasks, local, mirror, degraded>> /\ rows' \subseteq rows /\ pass' = pass + 1
    BY <1>3 DEF Load, platformVars
  <2>2. \A u \in tasks : u.pass # pass'
    BY <1>1, <2>1 DEF TasksApart
  <2> QED BY <1>1, <2>1, <2>2, VolumeFrame
<1>4. ASSUME UNCHANGED <<pass, rows, local, mirror, degraded>>,
             \A u \in tasks' : u.stage = "queued" \/ u \in tasks
      PROVE  VolumeSound'
  <2>1. \A u \in tasks' : Populated(u.job.endpoint, u.job.model)'
                             => Populated(u.job.endpoint, u.job.model)
    BY <1>4 DEF Populated
  <2> QED BY <1>1, <1>4, <2>1, VolumeFrame
<1>5. ASSUME NEW j \in todo, Submit(j) PROVE VolumeSound'
  <2>1. PICK t : /\ tasks' = tasks \cup {t} /\ t.stage = "queued"
                 /\ UNCHANGED <<pass, rows, local, mirror, degraded>>
    BY <1>5, SubmitFacts
  <2> QED BY <1>4, <2>1
<1>6. ASSUME NEW j \in waiting, GiveUp(j) \/ \E timed \in BOOLEAN : Collect(j, timed)
      PROVE  VolumeSound'
  <2>1. PICK row : /\ rows' = rows \cup {row} /\ row.job = j
                   /\ \/ row.src = None
                      \/ \E t \in tasks : t.job = j /\ t.stage = "answered" /\ row.src = t.src
    BY <1>6, Recorded
  <2>2. tasks' \subseteq tasks /\ UNCHANGED <<pass, local, mirror, degraded>>
    BY <1>6, Recorded
  <2>3. RowMirrored(row)
    BY <1>2, <2>1 DEF RowMirrored, TaskMirrored
  <2>4. ASSUME NEW u \in tasks, u.pass = pass, u.job.phase = "warm",
               Populated(u.job.endpoint, u.job.model)'
        PROVE  Populated(u.job.endpoint, u.job.model)
    BY <1>6, <2>4, PopulatedEarly
  <2> QED BY <1>1, <2>1, <2>2, <2>3, <2>4, VolumeFrame
<1>7. ASSUME NEW j, (j \in todo /\ SubmitFails(j)) \/ (j \in waiting /\ CollectNone(j))
      PROVE  VolumeSound'
  <2>1. tasks' \subseteq tasks /\ UNCHANGED <<pass, rows, local, mirror, degraded>>
    BY <1>7, Thrown
  <2> QED BY <1>4, <2>1
<1>8. ASSUME StartBurst \/ Finish \/ KillDriver PROVE VolumeSound'
  <2>1. UNCHANGED <<tasks, pass, rows, local, mirror, degraded>>
    BY <1>8 DEF StartBurst, Finish, KillDriver, platformVars
  <2> QED BY <1>4, <2>1
<1>9. ASSUME NEW t \in tasks, NEW w \in Workers, Begin(t, w) PROVE VolumeSound'
  <2>1. PICK next : /\ Move(t, next) /\ next.job = t.job
                    /\ next.stage = IF Hydrating(Endpoint(t)) THEN "hydrate" ELSE "pull"
                    /\ UNCHANGED <<driverVars, local, mirror, degraded>>
    BY <1>9, BeginFacts
  <2>2. Hydrating(next.job.endpoint)' = Hydrating(Endpoint(t))
    BY <1>1, <2>1 DEF Endpoint
  <2>3. TaskMirrored(next)'
    BY <2>1, <2>2 DEF TaskMirrored
  <2> QED BY <2>1, <2>3, VolumeMove
<1>10. ASSUME NEW t \in tasks, NEW ok \in BOOLEAN, Hydrate(t, ok) PROVE VolumeSound'
  <2> DEFINE e == t.job.endpoint
             m == t.job.model
  <2>1. PICK next :
           /\ Move(t, next) /\ next.job = t.job /\ next.worker = t.worker
           /\ next.stage = "pull" /\ t.stage = "hydrate"
           /\ local' = [local EXCEPT ![e][t.worker] = IF ok THEN @ \cup mirror ELSE @]
           /\ degraded' = IF ok THEN degraded ELSE degraded \cup {m}
           /\ UNCHANGED <<driverVars, mirror>>
    BY <1>10, HydrateFacts DEF Endpoint
  <2>2. e \in Endpoints /\ t.worker \in Workers /\ rows' = rows
    BY <2>1, TaskFacts DEF TasksApart, Working, Endpoint, driverVars
  <2>3. ASSUME Populated(e, m)', Hydrating(e), m \notin degraded' PROVE m \in local'[e][t.worker]
    <3>1. PICK p \in rows : p.ok /\ p.job.endpoint = e /\ p.job.model = m
      BY <2>2, <2>3 DEF Populated
    <3>2. p.src # None
      BY <3>1 DEF TypeOK
    <3>3. ok /\ m \in mirror
      BY <1>2, <2>1, <2>3, <3>1, <3>2 DEF RowMirrored
    <3> QED BY <1>1, <2>1, <2>2, <3>3
  <2>4. Hydrating(next.job.endpoint)' = Hydrating(e)
    BY <1>1, <2>1
  <2>5. TaskMirrored(next)'
    BY <2>1, <2>3, <2>4 DEF TaskMirrored
  <2>6. \A u \in tasks : (u # t /\ u.stage \in {"sync", "pull"}) =>
            local[u.job.endpoint][u.worker] \subseteq local'[u.job.endpoint][u.worker]
    <3>1. ASSUME NEW f \in Endpoints, NEW v \in Workers PROVE local[f][v] \subseteq local'[f][v]
      BY <1>1, <2>1, <2>2
    <3> QED BY <3>1, TaskFacts DEF TasksApart, Working, Endpoint
  <2> QED BY <2>1, <2>5, <2>6, VolumeMove
<1>11. ASSUME NEW t \in tasks, NEW ok \in BOOLEAN, Pull(t, ok) PROVE VolumeSound'
  <2> DEFINE e == t.job.endpoint
             m == t.job.model
             src == IF ok THEN Source(t) ELSE None
  <2>1. PICK next :
           /\ Move(t, next) /\ next.job = t.job /\ next.worker = t.worker
           /\ next.src = src /\ t.stage = "pull"
           /\ next.stage = IF Hydrating(e) /\ src # None THEN "sync" ELSE "answered"
           /\ local' = IF src \in {None, "staged"} THEN local
                       ELSE [local EXCEPT ![e][t.worker] = @ \cup {m}]
           /\ UNCHANGED <<driverVars, mirror, degraded>>
    BY <1>11, PullFacts DEF Endpoint
  <2>2. e \in Endpoints /\ t.worker \in Workers
    BY <2>1, TaskFacts DEF TasksApart, Working, Endpoint
  <2>3. ASSUME Hydrating(e), src # None PROVE m \in local'[e][t.worker]
    <3>1. e \notin Groups /\ mech # "modelstore"
      BY <2>3, HydratingEndpoint DEF Endpoint
    <3>2. src \in {"local", "wan"}
      BY <2>3, <3>1, SourceFacts DEF Endpoint
    <3> QED BY <1>1, <2>1, <2>2, <2>3, <3>2
  <2>4. Hydrating(next.job.endpoint)' = Hydrating(e)
    BY <1>1, <2>1
  <2>5. TaskMirrored(next)'
    BY <2>1, <2>3, <2>4 DEF TaskMirrored
  <2>6. \A u \in tasks : (u # t /\ u.stage \in {"sync", "pull"}) =>
            local[u.job.endpoint][u.worker] \subseteq local'[u.job.endpoint][u.worker]
    <3>1. ASSUME NEW f \in Endpoints, NEW v \in Workers PROVE local[f][v] \subseteq local'[f][v]
      BY <1>1, <2>1, <2>2
    <3> QED BY <3>1, TaskFacts DEF TasksApart, Working, Endpoint
  <2> QED BY <2>1, <2>5, <2>6, VolumeMove
<1>12. ASSUME NEW t \in tasks, NEW ok \in BOOLEAN, Sync(t, ok) PROVE VolumeSound'
  <2> DEFINE e == t.job.endpoint
             m == t.job.model
  <2>1. PICK next :
           /\ Move(t, next) /\ next.job = t.job
           /\ next.stage = "answered" /\ t.stage = "sync"
           /\ mirror' = IF ok THEN mirror \cup local[e][t.worker] ELSE mirror
           /\ degraded' = IF ok THEN degraded ELSE degraded \cup {m}
           /\ UNCHANGED <<driverVars, local>>
    BY <1>12, SyncFacts DEF Endpoint
  <2>2. (Hydrating(e) /\ m \notin degraded') => m \in mirror'
    BY <1>2, <2>1 DEF TaskMirrored
  <2>3. Hydrating(next.job.endpoint)' = Hydrating(e)
    BY <1>1, <2>1
  <2>4. TaskMirrored(next)'
    BY <2>1, <2>2, <2>3 DEF TaskMirrored
  <2> QED BY <2>1, <2>4, VolumeMove
<1>13. ASSUME NEW t \in tasks, Crash(t) PROVE VolumeSound'
  <2>1. PICK next : /\ Move(t, next) /\ next.stage = "failed" /\ t.stage \in Working
                    /\ UNCHANGED <<driverVars, mirror, degraded>>
                    /\ local' = [local EXCEPT ![t.job.endpoint][t.worker] = {}]
    BY <1>13, CrashFacts DEF Endpoint
  <2>2. TaskMirrored(next)'
    BY <2>1 DEF TaskMirrored
  <2>3. ASSUME NEW u \in tasks, u # t, u.stage \in {"sync", "pull"}
        PROVE  local'[u.job.endpoint][u.worker] = local[u.job.endpoint][u.worker]
    <3>1. u.job.endpoint # t.job.endpoint \/ u.worker # t.worker
      BY <2>1, <2>3 DEF TasksApart, Endpoint, Working
    <3>2. u.job.endpoint \in Endpoints /\ u.worker \in Workers
      BY <2>3, TaskFacts DEF TasksApart, Working, Endpoint
    <3> QED BY <1>1, <2>1, <3>1, <3>2
  <2> QED BY <2>1, <2>2, <2>3, VolumeMove
<1>14. ASSUME NEW e \in Endpoints, NEW w \in Workers, Recycle(e, w) PROVE VolumeSound'
  <2>1. /\ local' = [local EXCEPT ![e][w] = {}] /\ Idle(e, w)
        /\ UNCHANGED <<tasks, mirror, degraded, rows, pass>>
    BY <1>14 DEF Recycle, driverVars
  <2>2. ASSUME NEW u \in tasks, u.stage \in {"sync", "pull"}
        PROVE  local'[u.job.endpoint][u.worker] = local[u.job.endpoint][u.worker]
    <3>1. u.job.endpoint # e \/ u.worker # w
      BY <2>1, <2>2 DEF Idle, Endpoint, Working
    <3>2. u.job.endpoint \in Endpoints /\ u.worker \in Workers
      BY <2>2, TaskFacts DEF TasksApart, Working, Endpoint
    <3> QED BY <1>1, <2>1, <3>1, <3>2
  <2>3. \A u \in tasks' : Populated(u.job.endpoint, u.job.model)'
                             => Populated(u.job.endpoint, u.job.model)
    BY <2>1 DEF Populated
  <2> QED BY <1>1, <2>1, <2>2, <2>3, VolumeFrame
<1>15. ASSUME NEW m \in Models, StageModel(m) PROVE VolumeSound'
  <2>1. UNCHANGED <<tasks, pass, rows, local, mirror, degraded>>
    BY <1>15 DEF StageModel, driverVars
  <2> QED BY <1>4, <2>1
<1>16. CASE Scraper \/ Stop \/ KillScraper \/ UNCHANGED vars
  <2>1. UNCHANGED <<tasks, pass, rows, local, mirror, degraded>>
    BY <1>16, DriverAlone, PlatformAlone DEF driverVars, platformVars
  <2> QED BY <1>4, <2>1
<1> QED BY <1>3, <1>5, <1>6, <1>7, <1>8, <1>9, <1>10, <1>11, <1>12, <1>13, <1>14, <1>15, <1>16
        DEF Next, Threads, Platform
-----------------------------------------------------------------------------
\* A step that adds no row, and pulls nothing over the WAN.
LEMMA WarmFrame ==
    ASSUME WarmSound, UNCHANGED <<run, pass, rows>>, degraded \subseteq degraded',
           \A u \in tasks' : \/ u.src # "wan" \/ ~(u.pass = pass /\ Nearby(u.job))
                             \/ \E v \in tasks : u.job = v.job /\ u.pass = v.pass /\ u.src = v.src
    PROVE  WarmSound'
<1>1. mech' = mech
  BY JobsFixed
<1>2. ASSUME NEW u \in tasks', Nearby(u.job)' PROVE Nearby(u.job)
  BY <1>1, <1>2 DEF Nearby, Populated
<1>3. ASSUME NEW r \in rows', Nearby(r.job)' PROVE Nearby(r.job)
  BY <1>1, <1>3 DEF Nearby, Populated
<1>4. \A u \in tasks' : (u.pass = pass' /\ Nearby(u.job)') => u.src # "wan"
  BY <1>2 DEF WarmSound
<1>5. \A r \in rows' : Nearby(r.job)' => r.src # "wan"
  BY <1>3 DEF WarmSound
<1> QED BY <1>4, <1>5 DEF WarmSound

\* A warm job of the pass whose model was populated does not go to the WAN.
LEMMA PulledNearby ==
    ASSUME TypeOK, CachesSound, VolumeSound, NEW t \in tasks, t.stage = "pull",
           t.pass = pass, Nearby(t.job)
    PROVE  Source(t) # "wan"
<1> DEFINE e == t.job.endpoint
           m == t.job.model
<1>1. run \in Scenarios /\ t.job \in Jobs /\ t.job.phase = "warm"
  BY DEF TypeOK, Nearby
<1>2. e # "baseline"
  BY <1>1, JobFacts
<1>3. CASE mech = "modelstore"
  BY <1>2, <1>3, NoneAssumption, SourceFacts DEF Endpoint
<1>4. CASE mech # "modelstore"
  <2>1. Populated(e, m) /\ m \notin degraded
    BY <1>4 DEF Nearby
  <2>2. PICK p \in rows : p.ok /\ p.job.endpoint = e /\ p.job.model = m
    BY <2>1 DEF Populated
  <2>3. p.src # None
    BY <2>2 DEF TypeOK
  <2>4. CASE mech = "shim"
    <3>1. e \in Groups
      BY <1>1, <2>4, JobFacts
    <3>2. m \in cached[e]
      BY <1>4, <2>2, <2>3, <3>1 DEF CachesSound
    <3> QED BY <1>4, <3>1, <3>2, SourceFacts DEF Endpoint
  <2>5. CASE mech # "shim"
    <3>1. Hydrating(e)
      BY <1>1, <1>2, <1>4, <2>5, JobFacts DEF Hydrating
    <3>2. m \in local[e][t.worker]
      BY <1>1, <2>1, <3>1 DEF VolumeSound, Endpoint
    <3> QED BY <1>4, <3>2, SourceFacts DEF Endpoint
  <2> QED BY <2>4, <2>5
<1> QED BY <1>3, <1>4

\* No warm job that should be served nearby is a pull over the WAN.
LEMMA WarmStep ==
    ASSUME TypeOK, LoopSound, TasksApart, PhasesApart, CachesSound, VolumeSound, WarmSound,
           [Next]_vars
    PROVE  WarmSound'
<1>1. run' = run /\ mech' = mech /\ pass \in Nat
  BY RunFixed, JobsFixed, RunFacts DEF TypeOK
<1>2. ASSUME NEW resolvable \in BOOLEAN, Load(resolvable) PROVE WarmSound'
  <2>1. UNCHANGED <<tasks, degraded>> /\ (rows' = {} \/ rows' = rows) /\ pass' = pass + 1
    BY <1>2 DEF Load, platformVars
  <2>2. \A u \in tasks' : u.pass # pass'
    BY <1>1, <2>1 DEF TasksApart
  <2>3. ASSUME NEW r \in rows', Nearby(r.job)' PROVE r \in rows /\ Nearby(r.job)
    BY <1>1, <2>1, <2>3 DEF Nearby, Populated
  <2> QED BY <2>2, <2>3 DEF WarmSound
<1>3. ASSUME NEW j \in todo, Submit(j) PROVE WarmSound'
  <2>1. PICK t : /\ tasks' = tasks \cup {t} /\ t.src = None
                 /\ UNCHANGED <<pass, rows, degraded>>
    BY <1>3, SubmitFacts
  <2> QED BY <1>1, <2>1, NoneAssumption, WarmFrame
<1>4. ASSUME NEW j \in waiting, GiveUp(j) \/ \E timed \in BOOLEAN : Collect(j, timed)
      PROVE  WarmSound'
  <2>1. PICK row : /\ rows' = rows \cup {row} /\ row.job = j
                   /\ \/ row.src = None
                      \/ \E t \in tasks : t.job = j /\ t.pass = pass /\ row.src = t.src
    BY <1>4, Recorded
  <2>2. tasks' \subseteq tasks /\ UNCHANGED <<pass, degraded>>
    BY <1>4, Recorded
  <2>3. ASSUME NEW k, Nearby(k)',
               \/ \E u \in tasks : u.pass = pass /\ k = u.job
               \/ \E r \in rows' : k = r.job
        PROVE  Nearby(k)
    <3>1. k.phase = "warm" /\ (mech = "modelstore" \/ Populated(k.endpoint, k.model)')
      BY <1>1, <2>3 DEF Nearby
    <3>2. mech # "modelstore" => Populated(k.endpoint, k.model)
      BY <1>4, <2>3, <3>1, PopulatedEarly
    <3> QED BY <1>1, <2>2, <2>3, <3>1, <3>2 DEF Nearby
  <2>4. \A u \in tasks' : (u.pass = pass' /\ Nearby(u.job)') => u.src # "wan"
    BY <2>2, <2>3 DEF WarmSound
  <2>5. ASSUME NEW r \in rows', Nearby(r.job)' PROVE r.src # "wan"
    <3>1. Nearby(r.job)
      BY <2>3, <2>5
    <3> QED BY <2>1, <2>5, <3>1, NoneAssumption DEF WarmSound
  <2> QED BY <2>4, <2>5 DEF WarmSound
<1>5. ASSUME NEW j, (j \in todo /\ SubmitFails(j)) \/ (j \in waiting /\ CollectNone(j))
      PROVE  WarmSound'
  <2>1. tasks' \subseteq tasks /\ UNCHANGED <<pass, rows, degraded>>
    BY <1>5, Thrown
  <2> QED BY <1>1, <2>1, WarmFrame
<1>6. ASSUME StartBurst \/ Finish \/ KillDriver PROVE WarmSound'
  <2>1. UNCHANGED <<tasks, pass, rows, degraded>>
    BY <1>6 DEF StartBurst, Finish, KillDriver, platformVars
  <2> QED BY <1>1, <2>1, WarmFrame
<1>7. ASSUME NEW t \in tasks, NEW next, Move(t, next), UNCHANGED driverVars,
             degraded \subseteq degraded', next.job = t.job, next.pass = t.pass,
             \/ next.src = t.src
             \/ (t.pass = pass /\ Nearby(t.job)) => next.src # "wan"
      PROVE  WarmSound'
  <2>1. \A u \in tasks' : u = next \/ u \in tasks
    BY <1>7, Moved
  <2>2. UNCHANGED <<run, pass, rows>>
    BY <1>7 DEF driverVars
  <2>3. Nearby(next.job) <=> Nearby(t.job)
    BY <1>7
  <2> QED BY <1>7, <2>1, <2>2, <2>3, WarmFrame
<1>8. ASSUME NEW t \in tasks, NEW w \in Workers, Begin(t, w) PROVE WarmSound'
  <2>1. PICK next : /\ Move(t, next) /\ next.job = t.job /\ next.pass = t.pass
                    /\ next.src = t.src /\ UNCHANGED <<driverVars, degraded>>
    BY <1>8, BeginFacts
  <2> QED BY <1>7, <2>1
<1>9. ASSUME NEW t \in tasks, NEW ok \in BOOLEAN, Hydrate(t, ok) PROVE WarmSound'
  <2>1. PICK next : /\ Move(t, next) /\ next.job = t.job /\ next.pass = t.pass
                    /\ next.src = t.src /\ UNCHANGED driverVars
                    /\ degraded' = IF ok THEN degraded ELSE degraded \cup {t.job.model}
    BY <1>9, HydrateFacts
  <2> QED BY <1>7, <2>1
<1>10. ASSUME NEW t \in tasks, NEW ok \in BOOLEAN, Pull(t, ok) PROVE WarmSound'
  <2>1. PICK next : /\ Move(t, next) /\ next.job = t.job /\ next.pass = t.pass
                    /\ next.src = (IF ok THEN Source(t) ELSE None) /\ t.stage = "pull"
                    /\ UNCHANGED <<driverVars, degraded>>
    BY <1>10, PullFacts
  <2>2. (t.pass = pass /\ Nearby(t.job)) => next.src # "wan"
    BY <2>1, NoneAssumption, PulledNearby
  <2> QED BY <1>7, <2>1, <2>2
<1>11. ASSUME NEW t \in tasks, NEW ok \in BOOLEAN, Sync(t, ok) PROVE WarmSound'
  <2>1. PICK next : /\ Move(t, next) /\ next.job = t.job /\ next.pass = t.pass
                    /\ next.src = t.src /\ UNCHANGED driverVars
                    /\ degraded' = IF ok THEN degraded ELSE degraded \cup {t.job.model}
    BY <1>11, SyncFacts
  <2> QED BY <1>7, <2>1
<1>12. ASSUME NEW t \in tasks, Crash(t) PROVE WarmSound'
  <2>1. PICK next : /\ Move(t, next) /\ next.job = t.job /\ next.pass = t.pass
                    /\ next.src = t.src /\ UNCHANGED <<driverVars, degraded>>
    BY <1>12, CrashFacts
  <2> QED BY <1>7, <2>1
<1>13. ASSUME \/ \E e \in Endpoints, w \in Workers : Recycle(e, w)
              \/ \E m \in Models : StageModel(m)
       PROVE  WarmSound'
  <2>1. UNCHANGED <<tasks, pass, rows, degraded>>
    BY <1>13 DEF Recycle, StageModel, driverVars
  <2> QED BY <1>1, <2>1, WarmFrame
<1>14. CASE Scraper \/ Stop \/ KillScraper \/ UNCHANGED vars
  <2>1. UNCHANGED <<tasks, pass, rows, degraded>>
    BY <1>14, DriverAlone, PlatformAlone DEF driverVars, platformVars
  <2> QED BY <1>1, <2>1, WarmFrame
<1> QED BY <1>2, <1>3, <1>4, <1>5, <1>6, <1>8, <1>9, <1>10, <1>11, <1>12, <1>13, <1>14
        DEF Next, Threads, Platform
-----------------------------------------------------------------------------
\* The times of a row of a job that succeeded.
Timed(row) ==
    row.ok => /\ row.breakdown \in 1 .. row.wall /\ row.wall \in Nat
              /\ row.exec \in (1 .. row.wall) \cup {None}

\* The times of a new row.
LEMMA RecordedTimes ==
    ASSUME NEW j \in waiting, GiveUp(j) \/ \E timed \in BOOLEAN : Collect(j, timed)
    PROVE  \E row : rows' = rows \cup {row} /\ Timed(row)
<1>1. CASE GiveUp(j)
  <2>1. rows' = rows \cup {Row(j, FALSE, None, None, 0)}
    BY <1>1 DEF GiveUp, Record
  <2>2. ~Row(j, FALSE, None, None, 0).ok
    BY DEF Row
  <2> QED BY <2>1, <2>2 DEF Timed
<1>2. ASSUME NEW timed \in BOOLEAN, Collect(j, timed)
      PROVE  \E row : rows' = rows \cup {row} /\ Timed(row)
  <2>1. PICK t \in tasks, delay \in Delays :
           rows' = rows \cup {Row(j, t.cold, t.src, PlatformTime(t, timed), delay)}
    BY <1>2 DEF Collect, Record
  <2> DEFINE row == Row(j, t.cold, t.src, PlatformTime(t, timed), delay)
             took == HandlerSeconds(t.src, t.cold)
  <2>2. /\ row.ok = (t.src # None) /\ row.breakdown = Breakdown(t.src)
        /\ row.wall = IF t.src = None THEN job_timeout_s ELSE delay + took
        /\ row.exec = PlatformTime(t, timed)
    BY DEF Row
  <2>3. /\ Seconds(t.src) \in Nat \ {0} /\ took \in Nat /\ Seconds(t.src) <= took
    BY DEF Seconds, HandlerSeconds, UpgradeSeconds
  <2>4. delay \in Nat
    BY DelaysAssumption
  <2>5. PlatformTime(t, timed) \in {took, None}
    BY DEF PlatformTime
  <2> HIDE DEF row, took
  <2>6. ASSUME row.ok
        PROVE  /\ row.breakdown \in 1 .. row.wall /\ row.wall \in Nat
               /\ row.exec \in (1 .. row.wall) \cup {None}
    <3>1. t.src # None
      BY <2>2, <2>6, Zenon
    <3>2. row.breakdown = Seconds(t.src) /\ row.wall = delay + took
      BY <2>2, <3>1 DEF Breakdown
    <3> QED BY <2>2, <2>3, <2>4, <2>5, <3>2
  <2>7. Timed(row)
    BY <2>6 DEF Timed
  <2> QED BY <2>1, <2>7 DEF row
<1> QED BY <1>1, <1>2

\* The rows of jobs that succeeded have their times, and are finitely many.
LEMMA TimesStep ==
    ASSUME RowsTimed, [Next]_vars
    PROVE  RowsTimed'
<1>1. ASSUME rows' \subseteq rows PROVE RowsTimed'
  BY <1>1, FS_Subset DEF RowsTimed
<1>2. ASSUME NEW j \in waiting, GiveUp(j) \/ \E timed \in BOOLEAN : Collect(j, timed)
      PROVE  RowsTimed'
  <2>1. PICK row : rows' = rows \cup {row} /\ Timed(row)
    BY <1>2, RecordedTimes
  <2>2. IsFiniteSet(rows')
    BY <2>1, FS_AddElement DEF RowsTimed
  <2>3. \A r \in rows' : Timed(r)
    BY <2>1 DEF RowsTimed, Timed
  <2> QED BY <2>2, <2>3 DEF RowsTimed, Timed
<1>3. ASSUME \E resolvable \in BOOLEAN : Load(resolvable) PROVE RowsTimed'
  BY <1>1, <1>3 DEF Load
<1>4. ASSUME \/ \E j \in todo : Submit(j) \/ SubmitFails(j)
             \/ \E j \in waiting : CollectNone(j)
             \/ StartBurst \/ Finish \/ KillDriver
      PROVE  RowsTimed'
  BY <1>1, <1>4 DEF Submit, SubmitFails, CollectNone, StartBurst, Finish, KillDriver
<1>5. CASE Platform \/ Scraper \/ Stop \/ KillScraper \/ UNCHANGED vars
  BY <1>1, <1>5, DriverAlone DEF driverVars
<1> QED BY <1>2, <1>3, <1>4, <1>5 DEF Next, Threads

\* A set of naturals has a least element.
LEMMA LeastNatural ==
    ASSUME NEW T \in SUBSET Nat, T # {}
    PROVE  \E x \in T : \A y \in T : x <= y
<1> DEFINE R == OpToRel(<, Nat)
<1>1. IsWellFoundedOn(R, Nat)
  BY NatLessThanWellFounded
<1>2. \A x, y \in Nat : x < y => <<x, y>> \in R
  BY DEF OpToRel
<1> HIDE DEF R
<1>3. PICK x \in T : \A y \in T : ~(<<y, x>> \in R)
  BY <1>1, WFMin
<1>4. \A y \in T : x <= y
  <2> TAKE y \in T
  <2>1. x \in Nat /\ y \in Nat /\ ~(y < x)
    BY <1>2, <1>3
  <2> QED BY <2>1
<1> QED BY <1>4

\* A bucket of naturals has a largest value: one that the fewest exceed.
LEMMA LargestValue ==
    ASSUME NEW S, IsFiniteSet(S), S # {}, NEW f \in [S -> Nat]
    PROVE  \E hi \in Nat : \A r \in S : f[r] <= hi
<1> DEFINE Above(x) == { r \in S : f[r] > x }
           T == { Cardinality(Above(f[r])) : r \in S }
<1>1. \A x : IsFiniteSet(Above(x)) /\ Cardinality(Above(x)) \in Nat
  <2> TAKE x
  <2>1. IsFiniteSet(Above(x))
    BY FS_Subset
  <2> QED BY <2>1, FS_CardinalityType
<1>2. T \in SUBSET Nat /\ T # {}
  BY <1>1
<1>3. PICK n \in T : \A m \in T : n <= m
  <2> HIDE DEF T
  <2> QED BY <1>2, LeastNatural
<1>4. PICK r \in S : n = Cardinality(Above(f[r]))
  OBVIOUS
<1>5. ASSUME NEW s \in S, ~(f[s] <= f[r]) PROVE FALSE
  <2>1. f[r] \in Nat /\ f[s] \in Nat /\ f[s] > f[r]
    BY <1>5
  <2>2. Above(f[s]) \subseteq Above(f[r])
    <3>1. ASSUME NEW u \in Above(f[s]) PROVE u \in Above(f[r])
      <4>1. u \in S /\ f[u] > f[s] /\ f[u] \in Nat
        OBVIOUS
      <4> QED BY <2>1, <4>1
    <3> QED BY <3>1
  <2>3. s \in Above(f[r]) /\ s \notin Above(f[s])
    BY <2>1
  <2>4. n <= Cardinality(Above(f[s]))
    BY <1>3
  <2> HIDE DEF Above, T
  <2>5. Cardinality(Above(f[s])) < Cardinality(Above(f[r]))
    <3>1. /\ Cardinality(Above(f[s])) <= Cardinality(Above(f[r]))
          /\ Cardinality(Above(f[s])) = Cardinality(Above(f[r])) => Above(f[s]) = Above(f[r])
      BY <1>1, <2>2, FS_Subset
    <3>2. Above(f[s]) # Above(f[r])
      BY <2>3
    <3> QED BY <1>1, <3>1, <3>2
  <2> QED BY <1>1, <1>4, <2>4, <2>5
<1>6. f[r] \in Nat
  OBVIOUS
<1> QED BY <1>5, <1>6

\* The rows of a bucket below a value, and those not above it.
Smaller(f, x) == { r \in DOMAIN f : f[r] < x }
NoLarger(f, x) == { r \in DOMAIN f : f[r] <= x }

\* The k-th smallest value of a bucket exists: it is one of its values, fewer than
\* k are below it, and k are not above it.
LEMMA NthFacts ==
    ASSUME NEW S, IsFiniteSet(S), NEW f \in [S -> Nat], NEW k \in 1 .. Cardinality(S)
    PROVE  /\ \E r \in S : Nth(f, k) = f[r]
           /\ Cardinality(Smaller(f, Nth(f, k))) < k
           /\ k <= Cardinality(NoLarger(f, Nth(f, k)))
<1> DEFINE Below(x) == { r \in S : f[r] < x }
           UpTo(x) == { r \in S : f[r] <= x }
           T == { x \in Nat : k <= Cardinality(UpTo(x)) }
<1>1. S # {} /\ Cardinality(S) \in Nat /\ k \in Nat
  <2>1. Cardinality(S) \in Nat
    BY FS_CardinalityType
  <2> QED BY <2>1, FS_EmptySet
<1>2. \A x : Cardinality(Below(x)) \in Nat /\ Cardinality(UpTo(x)) \in Nat
  <2> TAKE x
  <2>1. IsFiniteSet(Below(x)) /\ IsFiniteSet(UpTo(x))
    BY FS_Subset
  <2> QED BY <2>1, FS_CardinalityType
<1>3. T # {}
  <2>1. PICK hi \in Nat : \A r \in S : f[r] <= hi
    BY <1>1, LargestValue
  <2>2. UpTo(hi) = S
    BY <2>1
  <2> QED BY <1>1, <2>2
<1>4. PICK x \in T : \A y \in T : x <= y
  <2>1. T \in SUBSET Nat /\ T # {}
    BY <1>3
  <2> HIDE DEF T
  <2> QED BY <2>1, LeastNatural
<1>5. x \in Nat /\ k <= Cardinality(UpTo(x))
  BY <1>4
<1>6. Cardinality(Below(x)) < k
  <2>1. CASE x = 0
    <3>1. Below(x) = {}
      BY <2>1
    <3> QED BY <3>1, FS_EmptySet
  <2>2. CASE x # 0
    <3>1. x - 1 \in Nat /\ ~(x <= x - 1)
      BY <1>5, <2>2
    <3>2. x - 1 \notin T
      BY <1>4, <3>1
    <3>3. Below(x) = UpTo(x - 1)
      <4>1. \A r \in S : f[r] \in Nat
        OBVIOUS
      <4>2. \A n \in Nat : n < x <=> n <= x - 1
        BY <1>5
      <4> QED BY <4>1, <4>2
    <3>4. ~(k <= Cardinality(UpTo(x - 1))) /\ Cardinality(UpTo(x - 1)) \in Nat
      BY <1>2, <3>1, <3>2
    <3> HIDE DEF Below, UpTo, T
    <3> QED BY <1>1, <3>3, <3>4
  <2> QED BY <2>1, <2>2
<1>7. x \in Range(f)
  <2>1. SUFFICES ASSUME \A r \in S : f[r] # x PROVE FALSE
    BY DEF Range
  <2>2. Below(x) = UpTo(x)
    BY <1>5, <2>1
  <2> QED BY <1>2, <1>5, <1>6, <2>2
<1>8. DOMAIN f = S
  OBVIOUS
<1>9. /\ Nth(f, k) \in Range(f)
      /\ Cardinality(Below(Nth(f, k))) < k /\ k <= Cardinality(UpTo(Nth(f, k)))
  BY <1>5, <1>6, <1>7, <1>8 DEF Nth
<1> QED BY <1>8, <1>9 DEF Range, Smaller, NoLarger

\* A bucket whose values are no larger has no larger k-th value.
LEMMA NthMonotone ==
    ASSUME NEW S, IsFiniteSet(S), NEW f \in [S -> Nat], NEW g \in [S -> Nat],
           \A r \in S : f[r] <= g[r], NEW k \in 1 .. Cardinality(S)
    PROVE  Nth(f, k) <= Nth(g, k)
<1> DEFINE x == Nth(f, k)
           y == Nth(g, k)
           Low == Smaller(f, x)
           Up == NoLarger(g, y)
<1>1. (\E r \in S : x = f[r]) /\ Cardinality(Low) < k
  BY NthFacts
<1>2. (\E r \in S : y = g[r]) /\ k <= Cardinality(Up)
  BY NthFacts
<1>3. x \in Nat /\ y \in Nat
  BY <1>1, <1>2
<1> HIDE DEF x, y
<1>4. SUFFICES ASSUME ~(x <= y) PROVE FALSE
  BY DEF x, y
<1>5. Up \subseteq Low
  <2>1. ASSUME NEW r \in Up PROVE r \in Low
    <3>1. r \in S /\ g[r] <= y /\ f[r] <= g[r] /\ f[r] \in Nat /\ g[r] \in Nat
      BY DEF NoLarger
    <3> QED BY <1>3, <1>4, <3>1 DEF Smaller
  <2> QED BY <2>1
<1>6. IsFiniteSet(Low) /\ IsFiniteSet(Up)
  <2>1. Low \in SUBSET S /\ Up \in SUBSET S
    BY DEF Smaller, NoLarger
  <2> QED BY <2>1, FS_Subset
<1> HIDE DEF Low, Up
<1>7. /\ Cardinality(Up) <= Cardinality(Low)
      /\ Cardinality(Low) \in Nat /\ Cardinality(Up) \in Nat
  BY <1>5, <1>6, FS_Subset, FS_CardinalityType
<1> QED BY <1>1, <1>2, <1>7

\* The places that a median takes its values from.
LEMMA MiddleFacts ==
    ASSUME NEW n \in Nat, n # 0
    PROVE  IF n % 2 = 1 THEN (n + 1) \div 2 \in 1 .. n
           ELSE n \div 2 \in 1 .. n /\ n \div 2 + 1 \in 1 .. n
OBVIOUS

\* The median of a bucket of positive values is positive.
LEMMA MedianPositive ==
    ASSUME NEW S, IsFiniteSet(S), S # {}, NEW f \in [S -> Nat], \A r \in S : f[r] # 0
    PROVE  Median2(f) \in Nat \ {0}
<1> DEFINE n == Cardinality(S)
<1>1. n \in Nat /\ n # 0
  BY FS_CardinalityType, FS_EmptySet
<1>2. \A k \in 1 .. n : Nth(f, k) \in Nat \ {0}
  <2>1. \A r \in S : f[r] \in Nat \ {0}
    OBVIOUS
  <2>2. \A k \in 1 .. n : \E r \in S : Nth(f, k) = f[r]
    BY NthFacts
  <2> QED BY <2>1, <2>2
<1>3. DOMAIN f = S
  OBVIOUS
<1>4. Median2(f) = IF n % 2 = 1 THEN 2 * Nth(f, (n + 1) \div 2)
                   ELSE Nth(f, n \div 2) + Nth(f, n \div 2 + 1)
  BY <1>3 DEF Median2
<1> HIDE DEF n
<1>5. CASE n % 2 = 1
  <2>1. Nth(f, (n + 1) \div 2) \in Nat \ {0}
    BY <1>1, <1>2, <1>5, MiddleFacts
  <2> QED BY <1>4, <1>5, <2>1
<1>6. CASE n % 2 # 1
  <2>1. Nth(f, n \div 2) \in Nat \ {0} /\ Nth(f, n \div 2 + 1) \in Nat \ {0}
    BY <1>1, <1>2, <1>6, MiddleFacts
  <2> QED BY <1>4, <1>6, <2>1
<1> QED BY <1>5, <1>6

\* A bucket whose values are no larger has no larger median.
LEMMA MedianMonotone ==
    ASSUME NEW S, IsFiniteSet(S), S # {}, NEW f \in [S -> Nat], NEW g \in [S -> Nat],
           \A r \in S : f[r] <= g[r]
    PROVE  Median2(f) <= Median2(g)
<1> DEFINE n == Cardinality(S)
<1>1. n \in Nat /\ n # 0
  BY FS_CardinalityType, FS_EmptySet
<1>2. \A k \in 1 .. n : Nth(f, k) <= Nth(g, k)
  BY NthMonotone
<1>3. \A k \in 1 .. n : Nth(f, k) \in Nat /\ Nth(g, k) \in Nat
  <2> TAKE k \in 1 .. n
  <2>1. (\E r \in S : Nth(f, k) = f[r]) /\ \E r \in S : Nth(g, k) = g[r]
    BY NthFacts
  <2> QED BY <2>1
<1>4. DOMAIN f = S /\ DOMAIN g = S
  OBVIOUS
<1>5. /\ Median2(f) = IF n % 2 = 1 THEN 2 * Nth(f, (n + 1) \div 2)
                      ELSE Nth(f, n \div 2) + Nth(f, n \div 2 + 1)
      /\ Median2(g) = IF n % 2 = 1 THEN 2 * Nth(g, (n + 1) \div 2)
                      ELSE Nth(g, n \div 2) + Nth(g, n \div 2 + 1)
  BY <1>4 DEF Median2
<1> HIDE DEF n
<1>6. CASE n % 2 = 1
  <2>1. (n + 1) \div 2 \in 1 .. n
    BY <1>1, <1>6, MiddleFacts
  <2>2. /\ Nth(f, (n + 1) \div 2) \in Nat /\ Nth(g, (n + 1) \div 2) \in Nat
        /\ Nth(f, (n + 1) \div 2) <= Nth(g, (n + 1) \div 2)
    BY <1>2, <1>3, <2>1
  <2> QED BY <1>5, <1>6, <2>2
<1>7. CASE n % 2 # 1
  <2>1. n \div 2 \in 1 .. n /\ n \div 2 + 1 \in 1 .. n
    BY <1>1, <1>7, MiddleFacts
  <2>2. /\ Nth(f, n \div 2) \in Nat /\ Nth(g, n \div 2) \in Nat
        /\ Nth(f, n \div 2) <= Nth(g, n \div 2)
    BY <1>2, <1>3, <2>1
  <2>3. /\ Nth(f, n \div 2 + 1) \in Nat /\ Nth(g, n \div 2 + 1) \in Nat
        /\ Nth(f, n \div 2 + 1) <= Nth(g, n \div 2 + 1)
    BY <1>2, <1>3, <2>1
  <2> QED BY <1>5, <1>7, <2>2, <2>3
<1> QED BY <1>6, <1>7
-----------------------------------------------------------------------------
\* The invariant holds before the first pass.
LEMMA InitIInv == Init => IInv
<1> SUFFICES ASSUME Init PROVE IInv
  OBVIOUS
<1>1. /\ run \in Scenarios /\ dpc = "start" /\ pass = 0
      /\ todo = {} /\ waiting = {} /\ raised = {} /\ rows = {} /\ tasks = {}
      /\ mirror = {} /\ degraded = {} /\ staged = {}
  BY DEF Init
<1>2. /\ worker \in [Endpoints -> [Workers -> {"off", "fresh", "upgraded"}]]
      /\ local \in [Endpoints -> [Workers -> SUBSET Models]]
      /\ \A e \in Endpoints, w \in Workers : local[e][w] = {}
      /\ cached \in [Groups -> SUBSET Models] /\ pulled \in [Groups -> Nat]
  BY DEF Init
<1>3. /\ spc \in {"sample", "off"} /\ flaky \subseteq Groups /\ rest = Groups
      /\ buf \in [Groups -> Nat \cup {None}] /\ Empty /\ parquet = None
  BY DEF Init, Empty
<1>4. run.passes \in Nat /\ 0 \in 0 .. run.passes
  BY <1>1, RunFacts
<1>5. TypeOK
  BY <1>1, <1>2, <1>3, <1>4 DEF TypeOK, DriveEnded, Scraping
<1>6. FileSound
  BY <1>3 DEF FileSound, MetricsFlushed
<1>7. JobsApart /\ RowsApart /\ LoopSound /\ NoneForgotten
  BY <1>1 DEF JobsApart, RowsApart, LoopSound, NoneForgotten
<1>8. TasksApart /\ PhasesApart /\ VolumeSound /\ WarmSound
  BY <1>1 DEF TasksApart, PhasesApart, VolumeSound, WarmSound
<1>9. BaselineSound
  BY <1>1, <1>2 DEF BaselineSound, Endpoints
<1>10. CachesSound
  BY <1>1, <1>2 DEF CachesSound, Endpoints
<1>11. RowsTimed
  BY <1>1, FS_EmptySet DEF RowsTimed
<1> QED BY <1>5, <1>6, <1>7, <1>8, <1>9, <1>10, <1>11 DEF IInv

\* Every step keeps it.
LEMMA NextIInv == IInv /\ [Next]_vars => IInv'
<1> SUFFICES ASSUME IInv, [Next]_vars PROVE IInv'
  OBVIOUS
<1>1. TypeOK' /\ FileSound'
  BY TypeStep, FileStep DEF IInv
<1>2. JobsApart' /\ RowsApart' /\ LoopSound' /\ NoneForgotten'
  BY JobsApartStep, RowsApartStep, LoopStep, NoneForgottenStep DEF IInv
<1>3. TasksApart' /\ PhasesApart' /\ BaselineSound'
  BY TasksStep, PhasesStep, BaselineStep DEF IInv
<1>4. CachesSound' /\ VolumeSound' /\ WarmSound'
  BY CachesStep, VolumeStep, WarmStep DEF IInv
<1>5. RowsTimed'
  BY TimesStep DEF IInv
<1> QED BY <1>1, <1>2, <1>3, <1>4, <1>5 DEF IInv

\* So it is an invariant of the demo, whatever its fairness.
LEMMA InvariantHolds == Spec => []IInv
BY InitIInv, NextIInv, PTL DEF Spec

\* The types of the driver's, the platform's and the scraper's state: a task is
\* one of the job list's, and a row one of the schema's.
THEOREM DriveType == Spec => []TypeOK
<1>1. IInv => TypeOK
  BY DEF IInv
<1> QED BY <1>1, InvariantHolds, PTL

\* However many jobs, workers and passes there are, and wherever the driver or
\* a thread of its pool gives up: no pass leaves rows of another in the jobs
\* file (run.py truncates it before the first job), no job has two rows, and
\* the only jobs without one are those that raised.
THEOREM DriverKeepsTheFile == Spec => []JobsFileHonest
<1>1. ASSUME IInv PROVE RowsOfOnePass
  BY <1>1 DEF IInv, RowsApart, RowsOfOnePass
<1>2. ASSUME IInv PROVE EveryJobAccounted
  <2>1. raised \subseteq Jobs /\ run \in Scenarios
    BY <1>2 DEF IInv, TypeOK
  <2>2. burst \in Nat
    BY <2>1, RunFacts
  <2>3. dpc = "done" => \A j \in Jobs : Measured(j)
    BY <1>2 DEF IInv, NoneForgotten
  <2>4. ASSUME dpc = "aborted", burst > 0,
               \A j \in Jobs : j.phase \in SEQUENTIAL_PHASES => Measured(j)
        PROVE  \A j \in Jobs : Measured(j) \/ j \in raised
    <3>1. \A j \in raised : j.phase \notin SEQUENTIAL_PHASES
      BY <1>2, <2>1, <2>4 DEF IInv, JobsApart
    <3>2. burst # 0
      BY <2>2, <2>4
    <3> QED BY <1>2, <2>4, <3>1, <3>2 DEF IInv, NoneForgotten
  <2> QED BY <2>3, <2>4 DEF EveryJobAccounted
<1>3. IInv => JobsFileHonest
  BY <1>1, <1>2 DEF JobsFileHonest
<1> QED BY <1>3, InvariantHolds, PTL

\* SIGTERM at any point of the scraper's cycle leaves all it has collected in a
\* file that is completely written.
THEOREM ScraperKeepsTheFile == Spec => []MetricsFlushed
<1>1. IInv => MetricsFlushed
  BY DEF IInv, FileSound
<1> QED BY <1>1, InvariantHolds, PTL

\* For every job list, number of workers and schedule of the platform, with
\* crashes, recycled workers and jobs of earlier passes still running: the rows
\* of the first pass measure the WAN where they say baseline, and no warm row
\* does whose model was populated, unless the volume failed for it.
THEOREM PhasesMeasureTheirName == Spec => []PhasesHonest
<1>1. ASSUME IInv, NEW r \in rows, r.ok, r.phase = "baseline", pass = 1 PROVE r.src = "wan"
  <2>1. r.src # None /\ r.phase = schema_phase(r.job.phase)
    BY <1>1 DEF IInv, TypeOK
  <2>2. r.job.phase = "baseline"
    BY <1>1, <2>1 DEF schema_phase
  <2> QED BY <1>1, <2>1, <2>2 DEF IInv, BaselineSound
<1>2. ASSUME IInv, NEW r \in rows, r.phase = "warm",
             mech = "modelstore" \/ (/\ Populated(r.job.endpoint, r.job.model)
                                     /\ r.job.model \notin degraded)
      PROVE  r.src # "wan"
  <2>1. r.phase = schema_phase(r.job.phase)
    BY <1>2 DEF IInv, TypeOK
  <2>2. r.job.phase = "warm"
    BY <1>2, <2>1 DEF schema_phase
  <2>3. Nearby(r.job)
    BY <1>2, <2>2 DEF Nearby
  <2> QED BY <1>2, <2>3 DEF IInv, WarmSound
<1>3. IInv => PhasesHonest
  BY <1>1, <1>2 DEF PhasesHonest, Populated
<1> QED BY <1>3, InvariantHolds, PTL

\* The fields of a bucket.
LEMMA StatsFacts ==
    ASSUME NEW b
    PROVE  /\ Stats(b).n = Cardinality(DOMAIN b) /\ Stats(b).median2 = Median2(b)
           /\ Stats(b).total_bytes = TotalBytes(DOMAIN b)
BY DEF Stats

\* A row of a job that succeeded has both times, and the wall time is the longer.
LEMMA WallFacts ==
    ASSUME RowsTimed, NEW r \in rows, r.ok
    PROVE  /\ r.wall \in Nat \ {0} /\ Steady(r) # None
           /\ Steady(r) \in Nat /\ Steady(r) <= r.wall
<1>1. /\ r.breakdown \in 1 .. r.wall /\ r.wall \in Nat
      /\ r.exec \in (1 .. r.wall) \cup {None}
  BY DEF RowsTimed
<1>2. Steady(r) \in 1 .. r.wall
  BY <1>1 DEF Steady
<1>3. Steady(r) \in Nat /\ Steady(r) <= r.wall /\ r.wall # 0
  BY <1>1, <1>2
<1> QED BY <1>1, <1>3, NoneAssumption

\* No row that counts is passed over in the steady-state view.
LEMMA AllTimed ==
    ASSUME IInv
    PROVE  \A p : TimedRows(rows, p) = OkRows(rows, p)
<1>1. \A r \in rows : r.ok => Steady(r) # None
  BY WallFacts DEF IInv
<1> QED BY <1>1 DEF TimedRows, OkRows

\* The two views count the same rows: none is passed over in the second.
LEMMA ViewsHold ==
    ASSUME IInv
    PROVE  ViewsAgree
<1> DEFINE wall == Latency(rows)
           exec == SteadyState(rows)
<1>1. \A p : TimedRows(rows, p) = OkRows(rows, p)
  BY AllTimed
<1>2. DOMAIN exec = DOMAIN wall
  BY <1>1 DEF Latency, SteadyState
<1>3. ASSUME NEW p \in DOMAIN wall
      PROVE  exec[p].n = wall[p].n /\ exec[p].total_bytes = wall[p].total_bytes
  <2> DEFINE w == [r \in OkRows(rows, p) |-> r.wall]
             e == [r \in TimedRows(rows, p) |-> Steady(r)]
  <2>1. wall[p] = Stats(w) /\ exec[p] = Stats(e)
    <3>1. p \in DOMAIN exec
      BY <1>2
    <3> QED BY <3>1 DEF Latency, SteadyState
  <2>2. DOMAIN e = DOMAIN w
    BY <1>1
  <2> HIDE DEF w, e, wall, exec
  <2> QED BY <2>1, <2>2, StatsFacts
<1>4. MechanismStats(rows).wall_phase = WarmPhase(wall) /\ MechanismStats(rows).exec_phase = WarmPhase(exec)
  BY DEF MechanismStats
<1>5. WarmPhase(wall) = WarmPhase(exec)
  BY <1>2 DEF WarmPhase
<1> QED BY <1>2, <1>3, <1>4, <1>5 DEF ViewsAgree

\* No phase is slower without the waits of its jobs.
LEMMA WaitsHold ==
    ASSUME IInv
    PROVE  WaitsExcluded
<1> SUFFICES ASSUME NEW p \in DOMAIN SteadyState(rows)
             PROVE  SteadyState(rows)[p].median2 <= Latency(rows)[p].median2
  BY DEF WaitsExcluded
<1> DEFINE S == OkRows(rows, p)
           w == [r \in S |-> r.wall]
           e == [r \in S |-> Steady(r)]
<1>1. S = TimedRows(rows, p)
  BY AllTimed
<1>2. p \in Phases /\ S # {}
  BY <1>1 DEF SteadyState
<1>3. SteadyState(rows)[p] = Stats(e) /\ Latency(rows)[p] = Stats(w)
  BY <1>1, <1>2 DEF SteadyState, Latency
<1>4. IsFiniteSet(S)
  BY FS_Subset DEF OkRows, RowsTimed, IInv
<1>5. \A r \in S : r.wall \in Nat /\ Steady(r) \in Nat /\ Steady(r) <= r.wall
  BY WallFacts DEF OkRows, IInv
<1> HIDE DEF S
<1>6. w \in [S -> Nat] /\ e \in [S -> Nat] /\ \A r \in S : e[r] <= w[r]
  BY <1>5
<1> HIDE DEF w, e
<1>7. Median2(e) <= Median2(w)
  BY <1>2, <1>4, <1>6, MedianMonotone
<1> QED BY <1>3, <1>7, StatsFacts

\* The median of the rows of a phase that succeeded.
LEMMA MedianFacts ==
    ASSUME RowsTimed, NEW p \in Phases
    PROVE  /\ OkRows(rows, p) = {} => MedianOf(Latency(rows), p) = None
           /\ OkRows(rows, p) # {} => MedianOf(Latency(rows), p) \in Nat \ {0}
<1> DEFINE ok == OkRows(rows, p)
           b == [r \in ok |-> r.wall]
<1>1. ok = {} => MedianOf(Latency(rows), p) = None
  BY DEF MedianOf, Latency
<1>2. ok # {} => MedianOf(Latency(rows), p) = Median2(b)
  <2>1. ok # {} => MedianOf(Latency(rows), p) = Stats(b).median2
    BY DEF MedianOf, Latency
  <2> QED BY <2>1, StatsFacts
<1>3. IsFiniteSet(ok)
  BY FS_Subset DEF OkRows, RowsTimed
<1>4. b \in [ok -> Nat] /\ \A r \in ok : b[r] # 0
  BY WallFacts DEF OkRows
<1> HIDE DEF ok, b
<1>5. ok # {} => Median2(b) \in Nat \ {0}
  BY <1>3, <1>4, MedianPositive
<1> QED BY <1>1, <1>2, <1>5 DEF ok

\* The headline is stated when both sides have a median.
LEMMA HeadlineHolds ==
    ASSUME IInv
    PROVE  HeadlineHonest
<1> DEFINE base == MedianOf(Latency(rows), "baseline")
           warm == MedianOf(Latency(rows), "warm")
           good(p) == { r \in rows : r.ok /\ r.phase = p }
<1>1. \A p : good(p) = OkRows(rows, p)
  BY DEF OkRows
<1>2. Headline(rows).speedup = Ratio(base, warm)
  BY DEF Headline
<1>3. /\ good("baseline") = {} => base = None
      /\ good("baseline") # {} => base \in Nat \ {0}
      /\ good("warm") = {} => warm = None
      /\ good("warm") # {} => warm \in Nat \ {0}
  BY <1>1, MedianFacts DEF IInv, Phases
<1> HIDE DEF base, warm, good
<1>4. CASE good("baseline") = {} \/ good("warm") = {}
  <2>1. Ratio(base, warm) = None
    BY <1>3, <1>4 DEF Ratio
  <2> QED BY <1>2, <1>4, <2>1 DEF HeadlineHonest, good
<1>5. CASE good("baseline") # {} /\ good("warm") # {}
  <2>1. base \in Nat /\ warm \in Nat /\ warm # 0
    BY <1>3, <1>5
  <2>2. Ratio(base, warm) = <<base, warm>> /\ Ratio(base, warm) # None
    BY <2>1, NoneAssumption DEF Ratio
  <2> QED BY <1>2, <1>5, <2>2 DEF HeadlineHonest, good
<1> QED BY <1>4, <1>5

\* For every jobs file that a demo can leave behind, half-finished ones included,
\* and however long its jobs waited: the cold-start and the steady-state view are
\* about the same jobs, no phase is slower in the second, which leaves the waits
\* out, and there is a headline exactly when jobs of both phases succeeded.
THEOREM ReportIsHonest == Spec => []ReportHonest
<1>1. IInv => ReportHonest
  BY ViewsHold, WaitsHold, HeadlineHolds DEF ReportHonest
<1> QED BY <1>1, InvariantHolds, PTL
============================================================================
