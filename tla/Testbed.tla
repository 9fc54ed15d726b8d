------------------------------ MODULE Testbed ------------------------------
(***************************************************************************)
(* The life of one testbed run (runpod_testbed): make up                   *)
(* (provision/up.py and the provision method of the three mechanisms),     *)
(* make down (provision/down.py and their teardown methods) and the        *)
(* cross-datacenter experiment (experiments/crossdc.py), on an account     *)
(* that bills for every pod, endpoint and volume until it is deleted.      *)
(*                                                                         *)
(* Every call of the Runpod API or of the flash CLI is a step of its own   *)
(* and may fail, before or after it took effect; the state file that       *)
(* teardown works from is truncated and then written; the process may be   *)
(* killed between any two steps.  Endpoints are undeployed by name and     *)
(* pods and volumes by the id in the file.                                 *)
(***************************************************************************)
EXTENDS FleetDiscovery

CONSTANTS Models,       \* cfg.models
          Baseline,     \* the label of the baseline endpoint
          VolumeLabel,  \* the label of the volumecache endpoint
          Configs,      \* the configurations that are tried
          NoFile,       \* there is no state file
          Torn,         \* the state file is truncated and not yet written
          Faults,       \* what may go wrong, see below
          MaxDowns      \* bound: how often make down is run

AllFaults == {"call",     \* an API call raises, a flash undeploy fails
              "lost",     \* a call that raises has taken effect
              "disk",     \* the state file cannot be written
              "timeout",  \* a pod takes longer than its deadlines
              "lag",      \* the volume listing does not show a new volume
              "manifest", \* the manifest does not name all that was deployed
              "ignored",  \* saveEndpoint answers without error, and no model
              "kill"}     \* the process is killed

Mechanisms == {"shim", "volumecache", "modelstore"}

\* The [modelstore.endpoints] table: absent, naming an endpoint for every
\* model, for some, or endpoints the account does not have.
Reuses == {"none", "all", "some", "unknown"}

Config == [mechanism : Mechanisms \cup {"crossdc"}, reuse : Reuses,
           wellformed : BOOLEAN, burst : Nat, max_burst : Nat, max_pods : Nat]

ASSUME LabelsAssumption ==
    /\ Baseline # VolumeLabel
    /\ {Baseline, VolumeLabel} \cap (Groups \cup Models) = {}
    /\ Groups \cap Models = {}
ASSUME ConfigsAssumption == Configs \subseteq Config
ASSUME TestbedFaultsAssumption == Faults \subseteq AllFaults
ASSUME DownsAssumption == MaxDowns \in Nat

Labels == Groups \cup Models \cup {Baseline, VolumeLabel}

\* ProvisionState: the pods by group, the endpoints by label (those that are
\* reused are told apart by a prefix), the volume.
ProvisionState == [pods : SUBSET Groups, endpoints : SUBSET Labels,
                   reused : SUBSET Models, volume : BOOLEAN]
EmptyState == [pods |-> {}, endpoints |-> {}, reused |-> {}, volume |-> FALSE]
ASSUME FileAssumption ==
    Torn # NoFile /\ Torn \notin ProvisionState /\ NoFile \notin ProvisionState

\* What the account bills for.
Pod(g) == <<"pod", g>>
Endpoint(l) == <<"endpoint", l>>
Volume == <<"volume", VolumeLabel>>
Resources == { Pod(g) : g \in Groups } \cup { Endpoint(l) : l \in Labels } \cup {Volume}

VARIABLES pc,         \* where the process is
          cfg,        \* the configuration
          faults,     \* what may go wrong in this behaviour
          todo,       \* what the current loop still has to do
          state,      \* the ProvisionState in memory
          file,       \* the one on disk
          endpoints,  \* the account's endpoints, by label
          volume,     \* whether the account has this run's volume
          stuck,      \* what the current teardown could not delete
          deployed,   \* whether flash deploy has returned
          upDone,     \* history: make up has succeeded
          declared,   \* the models that are declared on their endpoint
          ignored,    \* history: the models whose declaration was accepted and
                      \* not carried out
          warned,     \* the models whose declaration was reported to fail
          downs       \* how often make down was run

tbVars == <<pc, cfg, faults, todo, state, file, endpoints, volume, stuck,
            deployed, upDone, declared, ignored, warned, downs>>
vars == <<fleetVars, tbVars>>

Mech == cfg.mechanism
Ended == {"refused", "up", "failed", "down", "killed", "ended"}
Reusing == Mech = "modelstore" /\ cfg.reuse # "none"
-----------------------------------------------------------------------------
\* load_str: the text is complete, without placeholders and, for the shim,
\* with overlap groups A, B and C of known models (wellformed), and the caps
\* hold.  run_pair reads no configuration.
Accepted(c) ==
    \/ c.mechanism = "crossdc"
    \/ /\ c.wellformed
       /\ c.burst <= c.max_burst
       /\ c.mechanism = "shim" => Cardinality(Groups) <= c.max_pods

\* plan_endpoints: what `flash deploy` deploys.  With reused endpoints the
\* models are left out of the deployment.
Planned ==
    {Baseline} \cup
    CASE Mech = "shim" -> Groups
      [] Mech = "volumecache" -> {VolumeLabel}
      [] Mech = "modelstore" -> IF Reusing THEN {} ELSE Models
      [] OTHER -> {}

\* Mutant: the volume cache deletes its volume only.
OwnedForgetful(st) ==
    CASE Mech = "shim" -> Groups
      [] Mech = "modelstore" -> st.endpoints \ {Baseline}
      [] OTHER -> {}

\* The endpoints that the mechanism's teardown undeploys: fixed names, or for
\* the model store the names in the state that are its own.
Owned(st) ==
    CASE Mech = "shim" -> Groups
      [] Mech = "volumecache" -> {VolumeLabel}
      [] Mech = "modelstore" -> st.endpoints \ {Baseline}
      [] OTHER -> {}

\* Mutant: the shim waits for each pod before it creates the next.
AfterSaveWaiting ==
    CASE Mech = "shim" /\ ~deployed -> "wait"
      [] Mech # "shim" /\ ~deployed -> "deploy"
      [] Mech = "modelstore" /\ deployed /\ ~Reusing -> "declare"
      [] OTHER -> "up"

\* Where provision goes on once the state is saved.
AfterSave ==
    CASE Mech = "shim" /\ todo # {} -> "create"
      [] Mech = "shim" /\ todo = {} /\ ~deployed -> "wait"
      [] Mech # "shim" /\ ~deployed -> "deploy"
      [] Mech = "modelstore" /\ deployed /\ ~Reusing -> "declare"
      [] OTHER -> "up"

\* The start of provision, or of run_pair.
Start ==
    IF Mech \in {"shim", "crossdc"} THEN "create"
    ELSE IF Reusing THEN "validate" ELSE "save"

Init ==
    /\ FleetInit
    /\ cfg \in Configs
    /\ faults \in {{}, Faults}
    /\ pc = "load"
    /\ todo = {}
    /\ state = EmptyState
    /\ file = NoFile
    /\ endpoints = IF Reusing /\ cfg.reuse # "unknown" THEN Models ELSE {}
    /\ volume = FALSE
    /\ stuck = {}
    /\ deployed = FALSE
    /\ upDone = FALSE
    /\ declared = {}
    /\ ignored = {}
    /\ warned = {}
    /\ downs = 0

\* An exception leaves provision; run_pair has a finally clause instead.
Raise == pc' = IF Mech = "crossdc" THEN "finally" ELSE "except"

\* What a step of the controller leaves alone unless it says otherwise.
Keep == UNCHANGED <<cfg, faults, stuck, deployed, upDone, downs>>
-----------------------------------------------------------------------------
\* Nothing is spent on a configuration that load_str refuses.
Load ==
    /\ pc = "load"
    /\ pc' = IF Accepted(cfg) THEN Start ELSE "refused"
    /\ todo' = IF Mech \in {"shim", "crossdc"} THEN Groups ELSE {}
    /\ Keep
    /\ UNCHANGED <<fleetVars, state, file, endpoints, volume, declared, ignored, warned>>

\* create_cache_pod for the next group.  The shim saves its state at once,
\* run_pair remembers its pods in memory only.
Create(g) ==
    /\ pc = "create"
    /\ g \in todo
    /\ CreatePod(g)
    /\ state' = [state EXCEPT !.pods = @ \cup {g}]
    /\ IF Mech = "crossdc" /\ todo = {g}
       THEN pc' = "wait" /\ todo' = state'.pods
       ELSE pc' = (IF Mech = "shim" THEN "save" ELSE "create") /\ todo' = todo \ {g}
    /\ Keep
    /\ UNCHANGED <<file, endpoints, volume, declared, ignored, warned>>

\* The call raises; the pod may exist all the same.
CreateFails(g) ==
    /\ "call" \in faults
    /\ pc = "create"
    /\ g \in todo
    /\ \/ UNCHANGED fleetVars
       \/ "lost" \in faults /\ CreatePod(g)
    /\ Raise
    /\ Keep
    /\ UNCHANGED <<todo, state, file, endpoints, volume, declared, ignored, warned>>

\* _validate_reused: every model has an endpoint and the account has it.
Validate ==
    /\ pc = "validate"
    /\ IF cfg.reuse = "all" THEN pc' = "save" ELSE Raise
    /\ Keep
    /\ UNCHANGED <<fleetVars, todo, state, file, endpoints, volume, declared, ignored, warned>>

\* Mutant: the fleet is saved once it is complete.
SaveLate ==
    /\ pc = "save"
    /\ IF AfterSave = "create" THEN pc' = "create" /\ UNCHANGED file
       ELSE pc' = "write" /\ file' = Torn
    /\ Keep
    /\ UNCHANGED <<fleetVars, todo, state, endpoints, volume, declared, ignored, warned>>

\* ProvisionState.save: open with "w" truncates the file ...
Save ==
    /\ pc = "save"
    /\ file' = Torn
    /\ pc' = "write"
    /\ Keep
    /\ UNCHANGED <<fleetVars, todo, state, endpoints, volume, declared, ignored, warned>>

\* ... and the state is written into it.  Behind the last one data/last-runid is
\* written, and make up is done but for the declarations.
Write ==
    /\ pc = "write"
    /\ file' = state
    /\ pc' = AfterSave
    /\ todo' = CASE AfterSave = "wait" -> state.pods
                 [] AfterSave = "declare" -> Models \cap state.endpoints
                 [] OTHER -> todo
    /\ upDone' = (upDone \/ AfterSave = "up")
    /\ UNCHANGED <<fleetVars, cfg, faults, stuck, deployed, downs,
                   state, endpoints, volume, declared, ignored, warned>>

\* The write fails and the file stays empty.
WriteFails ==
    /\ "disk" \in faults
    /\ pc = "write"
    /\ Raise
    /\ Keep
    /\ UNCHANGED <<fleetVars, todo, state, file, endpoints, volume, declared, ignored, warned>>

\* The state is written, and data/last-runid cannot be.
NoteFails ==
    /\ "disk" \in faults
    /\ pc = "write"
    /\ AfterSave \in {"declare", "up"}
    /\ file' = state
    /\ Raise
    /\ Keep
    /\ UNCHANGED <<fleetVars, todo, state, endpoints, volume, declared, ignored, warned>>

\* _wait_addr and _wait_healthz (_wait_ready) for the next pod.
AwaitHealthy(g) ==
    /\ pc = "wait"
    /\ g \in todo
    /\ g \in addr /\ pod[g] = "serving"
    /\ todo' = todo \ {g}
    /\ pc' = CASE todo' # {} -> "wait"
              [] todo' = {} /\ Mech = "shim" -> "deploy"
              [] OTHER -> "measure"
    /\ Keep
    /\ UNCHANGED <<fleetVars, state, file, endpoints, volume, declared, ignored, warned>>

\* A pod is not healthy in time, or the query for its address fails.
AwaitFails ==
    /\ faults \cap {"timeout", "call"} # {}
    /\ pc = "wait"
    /\ Raise
    /\ Keep
    /\ UNCHANGED <<fleetVars, todo, state, file, endpoints, volume, declared, ignored, warned>>

\* run_pair's downloads and metrics; whether they fail or not, finally is next.
Measure ==
    /\ pc = "measure"
    /\ Raise
    /\ Keep
    /\ UNCHANGED <<fleetVars, todo, state, file, endpoints, volume, declared, ignored, warned>>

\* `flash deploy` creates the endpoints, and the volume they are attached to.
Deploy ==
    /\ pc = "deploy"
    /\ endpoints' = endpoints \cup Planned
    /\ volume' = (volume \/ Mech = "volumecache")
    /\ deployed' = TRUE
    /\ pc' = "manifest"
    /\ UNCHANGED <<fleetVars, cfg, faults, stuck, upDone, downs,
                   todo, state, file, declared, ignored, warned>>

\* It fails, having created some of them.
DeployFails(made, made_volume) ==
    /\ "call" \in faults
    /\ pc = "deploy"
    /\ made_volume => Mech = "volumecache"
    /\ "lost" \in faults \/ (made = {} /\ ~made_volume)
    /\ endpoints' = endpoints \cup made
    /\ volume' = (volume \/ made_volume)
    /\ Raise
    /\ Keep
    /\ UNCHANGED <<fleetVars, todo, state, file, declared, ignored, warned>>

\* Mutant: reused endpoints are recorded as the run's own.
ReadManifestUnprefixed(named) ==
    /\ pc = "manifest"
    /\ named = Planned \/ "manifest" \in faults
    /\ state' = [state EXCEPT !.endpoints = named \cup (IF Reusing THEN Models ELSE {})]
    /\ pc' = IF Mech = "volumecache" THEN "find" ELSE "save"
    /\ Keep
    /\ UNCHANGED <<fleetVars, todo, file, endpoints, volume, declared, ignored, warned>>

\* manifest_endpoint_ids: what the CLI's manifest names of the deployment, and
\* beside it what is reused.  Nobody compares it with the plan.
ReadManifest(named) ==
    /\ pc = "manifest"
    /\ named = Planned \/ "manifest" \in faults
    /\ state' = [state EXCEPT !.endpoints = named,
                              !.reused = IF Reusing THEN Models ELSE {}]
    /\ pc' = IF Mech = "volumecache" THEN "find" ELSE "save"
    /\ Keep
    /\ UNCHANGED <<fleetVars, todo, file, endpoints, volume, declared, ignored, warned>>

\* The manifest, or the list of volumes, cannot be read.
ReadFails ==
    /\ "call" \in faults
    /\ pc \in {"manifest", "find", "validate"}
    /\ Raise
    /\ Keep
    /\ UNCHANGED <<fleetVars, todo, state, file, endpoints, volume, declared, ignored, warned>>

\* find_volume_id by name; a volume that is not listed is not recorded, and
\* provision goes on with a warning.
FindVolume(found) ==
    /\ pc = "find"
    /\ found \/ "lag" \in faults
    /\ state' = [state EXCEPT !.volume = found]
    /\ pc' = "save"
    /\ Keep
    /\ UNCHANGED <<fleetVars, todo, file, endpoints, volume, declared, ignored, warned>>

\* set_model_references: the endpoint's configuration is read and sent back with
\* the model; an error of either call raises, and the model may be there then.
\* The references in the answer are returned, empty or not.
SetModelReferences(m, ok) ==
    \/ /\ ok \/ "lost" \in faults
       /\ declared' = declared \cup {m}
       /\ UNCHANGED ignored
    \/ /\ ~ok
       /\ UNCHANGED <<declared, ignored>>
    \/ /\ ok /\ "ignored" \in faults
       /\ ignored' = ignored \cup {m}
       /\ UNCHANGED declared

\* Mutant: a declaration that fails ends the loop.
DeclareStops(m, ok) ==
    /\ pc = "declare"
    /\ m \in todo
    /\ ok \/ "call" \in faults
    /\ todo' = IF ok THEN todo \ {m} ELSE {}
    /\ SetModelReferences(m, ok)
    /\ warned' = IF ok THEN warned ELSE warned \cup {m}
    /\ Keep
    /\ UNCHANGED <<fleetVars, pc, state, file, endpoints, volume>>

\* declare_cached_models, one endpoint of those in the state; a model without
\* one is passed over (Write).  A call that raises is kept for the warning, and
\* the loop goes on; what one that returns has returned is not looked at.
Declare(m, ok) ==
    /\ pc = "declare"
    /\ m \in todo
    /\ ok \/ "call" \in faults
    /\ todo' = todo \ {m}
    /\ SetModelReferences(m, ok)
    /\ warned' = IF ok THEN warned ELSE warned \cup {m}
    /\ Keep
    /\ UNCHANGED <<fleetVars, pc, state, file, endpoints, volume>>

DeclareDone ==
    /\ pc = "declare"
    /\ todo = {}
    /\ pc' = "up"
    /\ upDone' = TRUE
    /\ UNCHANGED <<fleetVars, cfg, faults, stuck, deployed, downs,
                   todo, state, file, endpoints, volume, declared, ignored, warned>>
-----------------------------------------------------------------------------
\* teardown_all begins with the endpoints of the mechanism that the state in
\* the file names.
Teardown ==
    /\ pc' = "undeploy"
    /\ todo' = Owned(file)
    /\ stuck' = {}

\* up.py's except clause: tear down what the file knows of.  There may be no
\* file, or one that cannot be parsed.
Recover ==
    /\ pc = "except"
    /\ IF file \in {NoFile, Torn}
       THEN pc' = "failed" /\ UNCHANGED <<todo, stuck>>
       ELSE Teardown
    /\ UNCHANGED <<fleetVars, cfg, faults, deployed, upDone, downs,
                   state, file, endpoints, volume, declared, ignored, warned>>

\* make down, on a run that is up, failed, was killed or is down already.
Down ==
    /\ pc \in {"up", "failed", "killed", "down"}
    /\ Mech # "crossdc"
    /\ file \notin {NoFile, Torn}
    /\ downs < MaxDowns
    /\ downs' = downs + 1
    /\ Teardown
    /\ UNCHANGED <<fleetVars, cfg, faults, deployed, upDone,
                   state, file, endpoints, volume, declared, ignored, warned>>

\* run_pair's finally clause.
Finally ==
    /\ pc = "finally"
    /\ pc' = "pods"
    /\ todo' = state.pods
    /\ stuck' = {}
    /\ UNCHANGED <<fleetVars, cfg, faults, deployed, upDone, downs,
                   state, file, endpoints, volume, declared, ignored, warned>>

\* cli_undeploy of one name; its exit status is not looked at.
Undeploy(l, ok) ==
    /\ pc = "undeploy"
    /\ l \in todo
    /\ ok \/ "call" \in faults
    /\ endpoints' = IF ok THEN endpoints \ {l} ELSE endpoints
    /\ stuck' = IF ok THEN stuck ELSE stuck \cup {Endpoint(l)}
    /\ todo' = todo \ {l}
    /\ UNCHANGED <<fleetVars, pc, cfg, faults, deployed, upDone, downs,
                   state, file, volume, declared, ignored, warned>>

\* Then the pods, by id.
UndeployDone ==
    /\ pc = "undeploy"
    /\ todo = {}
    /\ pc' = "pods"
    /\ todo' = file.pods
    /\ Keep
    /\ UNCHANGED <<fleetVars, state, file, endpoints, volume, declared, ignored, warned>>

\* Mutant: the first pod that cannot be terminated ends the loop.
TerminateStops(g, ok) ==
    /\ pc = "pods"
    /\ g \in todo
    /\ ok \/ "call" \in faults
    /\ IF ok THEN TerminatePod(g) /\ todo' = todo \ {g}
             ELSE UNCHANGED fleetVars /\ todo' = {}
    /\ stuck' = IF ok THEN stuck ELSE stuck \cup {Pod(g)}
    /\ UNCHANGED <<pc, cfg, faults, deployed, upDone, downs,
                   state, file, endpoints, volume, declared, ignored, warned>>

\* terminate_pod of one pod; a failure is noted and the rest go on.
Terminate(g, ok) ==
    /\ pc = "pods"
    /\ g \in todo
    /\ ok \/ "call" \in faults
    /\ IF ok THEN TerminatePod(g) ELSE UNCHANGED fleetVars
    /\ stuck' = IF ok THEN stuck ELSE stuck \cup {Pod(g)}
    /\ todo' = todo \ {g}
    /\ UNCHANGED <<pc, cfg, faults, deployed, upDone, downs,
                   state, file, endpoints, volume, declared, ignored, warned>>

TerminateDone ==
    /\ pc = "pods"
    /\ todo = {}
    /\ pc' = IF Mech = "crossdc" THEN "ended" ELSE "baseline"
    /\ Keep
    /\ UNCHANGED <<fleetVars, todo, state, file, endpoints, volume, declared, ignored, warned>>

\* The baseline endpoint that every run deploys.
UndeployBaseline(ok) ==
    /\ pc = "baseline"
    /\ ok \/ "call" \in faults
    /\ endpoints' = IF ok THEN endpoints \ {Baseline} ELSE endpoints
    /\ stuck' = IF ok THEN stuck ELSE stuck \cup {Endpoint(Baseline)}
    /\ pc' = "volume"
    /\ UNCHANGED <<fleetVars, cfg, faults, deployed, upDone, downs,
                   todo, state, file, volume, declared, ignored, warned>>

\* delete_network_volume for a volume in the state; one that is gone already
\* counts as deleted.
DeleteVolume(ok) ==
    /\ pc = "volume"
    /\ ok \/ "call" \in faults
    /\ volume' = IF ok /\ file.volume THEN FALSE ELSE volume
    /\ stuck' = IF ok \/ ~file.volume THEN stuck ELSE stuck \cup {Volume}
    /\ pc' = IF downs > 0 THEN "down" ELSE "failed"
    /\ UNCHANGED <<fleetVars, cfg, faults, deployed, upDone, downs,
                   todo, state, file, endpoints, declared, ignored, warned>>

\* The process is killed; a KeyboardInterrupt, which except Exception does not
\* catch, ends make up and make down in the same way.
Kill ==
    /\ "kill" \in faults
    /\ pc \notin Ended \cup {"load"}
    /\ pc' = "killed"
    /\ Keep
    /\ UNCHANGED <<fleetVars, todo, state, file, endpoints, volume, declared, ignored, warned>>
-----------------------------------------------------------------------------
Provision ==
    \/ Load
    \/ \E g \in Groups : Create(g) \/ CreateFails(g) \/ AwaitHealthy(g)
    \/ Validate \/ Save \/ Write \/ WriteFails \/ NoteFails
    \/ AwaitFails \/ Measure
    \/ Deploy \/ \E made \in SUBSET Planned, v \in BOOLEAN : DeployFails(made, v)
    \/ \E named \in SUBSET Planned : ReadManifest(named)
    \/ ReadFails
    \/ \E found \in BOOLEAN : FindVolume(found)
    \/ \E m \in Models, ok \in BOOLEAN : Declare(m, ok)
    \/ DeclareDone

TearingDown ==
    \/ Recover \/ Finally
    \/ \E l \in Labels, ok \in BOOLEAN : Undeploy(l, ok)
    \/ UndeployDone
    \/ \E g \in Groups, ok \in BOOLEAN : Terminate(g, ok)
    \/ TerminateDone
    \/ \E ok \in BOOLEAN : UndeployBaseline(ok) \/ DeleteVolume(ok)

Controller == Provision \/ TearingDown

Pods(g) == Entrypoint(g) /\ UNCHANGED tbVars

Platform(g) == (Appear(g) \/ Expose(g)) /\ UNCHANGED tbVars

PodFails(g) ==
    /\ faults \cap {"timeout", "call"} # {}
    /\ ExitNotReady(g)
    /\ UNCHANGED tbVars

Next ==
    \/ Controller \/ Down \/ Kill
    \/ \E g \in Groups : Pods(g) \/ Platform(g) \/ PodFails(g)

\* The process and the pods run, and the platform lists and connects a pod in
\* the end.
Fairness ==
    /\ WF_vars(Controller)
    /\ \A g \in Groups : WF_vars(Pods(g)) /\ WF_vars(Platform(g))

Spec == Init /\ [][Next]_vars /\ Fairness
-----------------------------------------------------------------------------
Stages == {"load", "create", "validate", "save", "write", "wait", "measure",
           "deploy", "manifest", "find", "declare", "except", "finally",
           "undeploy", "pods", "baseline", "volume"}

\* The type of the state.
TypeOK ==
    /\ FleetTypeOK
    /\ pc \in Stages \cup Ended
    /\ cfg \in Config
    /\ faults \subseteq AllFaults
    /\ todo \subseteq Labels
    /\ state \in ProvisionState
    /\ file \in ProvisionState \cup {NoFile, Torn}
    /\ endpoints \subseteq Labels
    /\ volume \in BOOLEAN
    /\ stuck \subseteq Resources
    /\ deployed \in BOOLEAN
    /\ upDone \in BOOLEAN
    /\ declared \subseteq Models
    /\ ignored \subseteq Models
    /\ warned \subseteq Models
    /\ downs \in 0 .. MaxDowns

\* What is billed, the endpoints that this run only reuses left out.
Billed ==
    { Pod(g) : g \in Live }
    \cup { Endpoint(l) : l \in endpoints \ (IF Reusing THEN Models ELSE {}) }
    \cup (IF volume THEN {Volume} ELSE {})

\* What a teardown that works from st goes through.
Named(st) ==
    { Pod(g) : g \in st.pods }
    \cup { Endpoint(l) : l \in Owned(st) \cup {Baseline} }
    \cup (IF st.volume THEN {Volume} ELSE {})

\* "save after each so teardown sees partial fleets" (shim.py): whatever fails
\* and whenever the process is killed, at most one pod of the fleet is unknown
\* to the state file, unless the file itself was left truncated.
FleetRecorded ==
    (Mech = "shim" /\ file # Torn) =>
        \A g, h \in Live :
            (file = NoFile \/ (g \notin file.pods /\ h \notin file.pods)) => g = h

\* A teardown that has ended, by itself after a failed make up or as make down,
\* has deleted everything that the state file names or that has a fixed name,
\* except what it was refused: one stuck resource does not keep the rest
\* billing.  run_pair's finally clause has done the same for the pods that
\* run_pair remembers.
TeardownComplete ==
    /\ (pc \in {"failed", "down"} /\ file \notin {NoFile, Torn}) =>
          Billed \cap Named(file) \subseteq stuck
    /\ pc = "ended" => \A g \in state.pods : g \in Live => Pod(g) \in stuck

\* After a make up that succeeded, make down leaves nothing billing that it was
\* not refused, but for a volume that the listing did not show (provision said
\* so at the time) and for endpoints of the model store that the manifest did
\* not name (its teardown goes by the labels in the state).
UpThenDown ==
    (upDone /\ pc = "down") =>
        Billed \subseteq
            stuck
            \cup (IF file.volume THEN {} ELSE {Volume})
            \cup { Endpoint(m) : m \in Models \ file.endpoints }

\* When a run of the model store is up, every model that has an endpoint in its
\* state is declared on it or reported as failed, one failure of several
\* included, unless the API took the declaration and did not carry it out.
\* ("a live run should never silently proceed with no cached model declared",
\* modelstore.py: the two exceptions, that one and a model without an endpoint
\* in the manifest, are silent all the same.)
DeclaredOrReported ==
    (pc = "up" /\ Mech = "modelstore" /\ ~Reusing) =>
        Models \cap file.endpoints \subseteq declared \cup warned \cup ignored

\* A run that reuses endpoints never undeploys them, whatever fails.
ReusedUntouched ==
    [][(Reusing /\ Models \subseteq endpoints) => Models \subseteq endpoints']_vars

\* The fleet's promise, seen on the pods.
Mesh == INSTANCE FullMesh
          WITH Fleet <- Groups, NoPeers <- NoFile, announced <- exposed,
               mesh <- [g \in Groups |-> IF pod[g] = "serving" THEN peers[g] ELSE NoFile]

\* No pod starts to serve before the whole fleet has addresses, nor with fewer
\* peers than the whole fleet.
MeshWhole == Mesh!Spec

\* make up and the teardown behind it come to an end, whatever fails.  And
\* nothing waits for what comes after it: if nothing fails, a make up with an
\* accepted configuration succeeds.  (Pods wait for the whole fleet to be
\* listed, and the controller for each pod to be healthy.)
UpEnds ==
    /\ pc \notin Ended ~> pc \in Ended
    /\ (faults = {} /\ pc = "load" /\ Accepted(cfg) /\ Mech # "crossdc"
          /\ cfg.reuse \in {"none", "all"})
       ~> (pc = "up")
-----------------------------------------------------------------------------
(* The parts of the inductive invariant behind the theorems.               *)

\* A teardown works from a file it has read; run_pair has none.
FileKnown ==
    /\ pc \in {"except", "undeploy", "baseline", "volume", "down"} => Mech # "crossdc"
    /\ pc = "finally" => Mech = "crossdc"
    /\ (pc \in {"undeploy", "pods", "baseline", "volume"} /\ Mech # "crossdc")
         => file \in ProvisionState

\* While the shim provisions, the pods are in the state, and between two pods
\* that state is in the file.
FleetSaved ==
    Mech = "shim" =>
        /\ pc = "load" => Live = {} /\ file = NoFile /\ state.pods = {}
        /\ pc \in {"create", "validate", "save", "write", "wait", "deploy", "manifest", "find"}
             => Live \subseteq state.pods
        /\ pc = "create" => \/ file = NoFile /\ state.pods = {}
                            \/ file \in ProvisionState /\ state.pods \subseteq file.pods
        /\ pc = "write" => file = Torn

\* What a teardown has been through is deleted or stuck.
PodOver(g) == g \in Live => Pod(g) \in stuck
EndpointOver(l) == l \in endpoints => Endpoint(l) \in stuck
Readable == file \in ProvisionState

EndpointsOver ==
    /\ pc = "undeploy" => \A l \in Owned(file) \ todo : EndpointOver(l)
    /\ (pc \in {"pods", "baseline", "volume", "failed", "down"} /\ Mech # "crossdc" /\ Readable)
         => \A l \in Owned(file) : EndpointOver(l)
    /\ (pc \in {"volume", "failed", "down"} /\ Readable) => EndpointOver(Baseline)

PodsOver ==
    /\ (pc = "pods" /\ Mech # "crossdc") => \A g \in file.pods \ todo : PodOver(g)
    /\ (pc = "pods" /\ Mech = "crossdc") => \A g \in state.pods \ todo : PodOver(g)
    /\ (pc \in {"baseline", "volume", "failed", "down"} /\ Readable)
         => \A g \in file.pods : PodOver(g)
    /\ pc = "ended" => \A g \in state.pods : PodOver(g)

VolumeOver ==
    (pc \in {"failed", "down"} /\ Readable /\ file.volume /\ volume) => Volume \in stuck

\* What make up makes is what the plan says and what the file will name.
Accounted ==
    Mech # "crossdc" =>
        /\ endpoints \subseteq Planned \cup (IF Reusing THEN Models ELSE {})
        /\ Mech # "shim" => Live = {} /\ pc # "create"
        /\ state.endpoints \subseteq Planned
        /\ Readable => file.endpoints \subseteq Planned
        /\ pc = "undeploy" => todo \subseteq Owned(file)
        /\ pc = "declare" => Readable /\ Mech = "modelstore"
        /\ upDone => /\ Readable /\ Live \subseteq file.pods
                     /\ pc \in Ended \cup {"undeploy", "pods", "baseline", "volume"}

\* No model is lost between the manifest and the end of the declarations.
DeclarationsKept ==
    (Mech = "modelstore" /\ ~Reusing) =>
        /\ pc = "declare" =>
              Models \cap file.endpoints \subseteq declared \cup warned \cup ignored \cup todo
        /\ pc = "up" =>
              Models \cap file.endpoints \subseteq declared \cup warned \cup ignored

IInv ==
    /\ TypeOK /\ DiscoverySound
    /\ FileKnown /\ FleetSaved /\ FleetRecorded
    /\ EndpointsOver /\ PodsOver /\ VolumeOver
    /\ Accounted /\ DeclarationsKept
=============================================================================
