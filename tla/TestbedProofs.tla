--------------------------- MODULE TestbedProofs ---------------------------
(***************************************************************************)
(* The safety theorems of Testbed: for fleets and lists of models of any   *)
(* size, every set of configurations and faults, and any number of runs of *)
(* make down.                                                              *)
(***************************************************************************)
EXTENDS Testbed, FiniteSetTheorems, TLAPS

(* The pods of the fleet, whatever controller creates and terminates them.  *)

\* Anything that can happen to the pods.
FleetStep ==
    \E g \in Groups :
        \/ CreatePod(g) \/ TerminatePod(g) \/ Appear(g) \/ Expose(g)
        \/ Entrypoint(g) \/ ExitNotReady(g)

FleetInv == FleetTypeOK /\ DiscoverySound

\* A listing that is as large as the fleet is the fleet.
LEMMA WholeListing ==
    ASSUME FleetTypeOK, Cardinality(listed) >= Cardinality(Groups)
    PROVE  listed = Groups
<1>1. listed \subseteq Groups
  BY DEF FleetTypeOK, Live
<1>2. IsFiniteSet(Groups)
  BY GroupsAssumption
<1>3. Cardinality(listed) <= Cardinality(Groups)
  BY <1>1, <1>2, FS_Subset
<1>4. Cardinality(listed) \in Nat /\ Cardinality(Groups) \in Nat
  BY <1>1, <1>2, FS_Subset, FS_CardinalityType
<1>5. Cardinality(listed) = Cardinality(Groups)
  BY <1>3, <1>4
<1> QED BY <1>1, <1>2, <1>5, FS_Subset

\* Before the first pod is created.
LEMMA FleetInitInv == FleetInit => FleetInv
BY DEF FleetInit, FleetInv, FleetTypeOK, DiscoverySound, Live, Running, Configuring

\* The type of the pods' state.
LEMMA FleetTypeStep ==
    ASSUME FleetTypeOK, FleetStep \/ UNCHANGED fleetVars
    PROVE  FleetTypeOK'
<1> USE DEF FleetTypeOK, Live, Running, Configuring
<1>1. CASE UNCHANGED fleetVars
  BY <1>1 DEF fleetVars
<1>2. ASSUME NEW g \in Groups, CreatePod(g) PROVE FleetTypeOK'
  BY <1>2 DEF CreatePod
<1>3. ASSUME NEW g \in Groups, TerminatePod(g) PROVE FleetTypeOK'
  BY <1>3 DEF TerminatePod
<1>4. ASSUME NEW g \in Groups, Appear(g) PROVE FleetTypeOK'
  BY <1>4 DEF Appear
<1>5. ASSUME NEW g \in Groups, Expose(g) PROVE FleetTypeOK'
  BY <1>5 DEF Expose
<1>6. ASSUME NEW g \in Groups, Discover(g) PROVE FleetTypeOK'
  BY <1>6 DEF Discover
<1>7. ASSUME NEW g \in Groups, NEW p \in Groups, ReadAddr(g, p) PROVE FleetTypeOK'
  BY <1>7 DEF ReadAddr
<1>8. ASSUME NEW g \in Groups, Exec(g) PROVE FleetTypeOK'
  BY <1>8 DEF Exec
<1>9. ASSUME NEW g \in Groups, ExitNotReady(g) PROVE FleetTypeOK'
  BY <1>9 DEF ExitNotReady
<1> QED BY <1>1, <1>2, <1>3, <1>4, <1>5, <1>6, <1>7, <1>8, <1>9 DEF FleetStep, Entrypoint

\* Whoever is past the listing knows the whole fleet, and holds only addresses
\* that were given out.
LEMMA DiscoveryStep ==
    ASSUME FleetInv, FleetStep \/ UNCHANGED fleetVars
    PROVE  DiscoverySound'
<1> USE DEF FleetInv, FleetTypeOK, DiscoverySound, Live, Running, Configuring
<1>1. CASE UNCHANGED fleetVars
  BY <1>1 DEF fleetVars
<1>2. ASSUME NEW g \in Groups, CreatePod(g) PROVE DiscoverySound'
  BY <1>2 DEF CreatePod
<1>3. ASSUME NEW g \in Groups, TerminatePod(g) PROVE DiscoverySound'
  BY <1>3 DEF TerminatePod
<1>4. ASSUME NEW g \in Groups, Appear(g) PROVE DiscoverySound'
  BY <1>4 DEF Appear
<1>5. ASSUME NEW g \in Groups, Expose(g) PROVE DiscoverySound'
  BY <1>5 DEF Expose
<1>6. ASSUME NEW g \in Groups, Discover(g) PROVE DiscoverySound'
  <2>1. listed = Groups
    BY <1>6, WholeListing DEF Discover
  <2> QED BY <1>6, <2>1 DEF Discover
<1>7. ASSUME NEW g \in Groups, NEW p \in Groups, ReadAddr(g, p) PROVE DiscoverySound'
  BY <1>7 DEF ReadAddr
<1>8. ASSUME NEW g \in Groups, Exec(g) PROVE DiscoverySound'
  BY <1>8 DEF Exec
<1>9. ASSUME NEW g \in Groups, ExitNotReady(g) PROVE DiscoverySound'
  BY <1>9 DEF ExitNotReady
<1> QED BY <1>1, <1>2, <1>3, <1>4, <1>5, <1>6, <1>7, <1>8, <1>9 DEF FleetStep, Entrypoint

\* The two together, as one inductive invariant.
LEMMA FleetInvStep ==
    ASSUME FleetInv, FleetStep \/ UNCHANGED fleetVars
    PROVE  FleetInv'
BY FleetTypeStep, DiscoveryStep DEF FleetInv
-----------------------------------------------------------------------------
(* The controller.                                                         *)

Undeploying == {"undeploy", "pods", "baseline", "volume"}
Providing == {"load", "create", "validate", "save", "write", "wait", "measure",
              "deploy", "manifest", "find", "declare"}

\* A step of make up, or of run_pair up to its finally clause, stays there or
\* leaves by success, refusal or an exception.
LEMMA ProvisionStep ==
    ASSUME IInv, Provision
    PROVE  /\ cfg' = cfg /\ pc \in Providing
           /\ pc' \in Providing \cup {"refused", "up", "except", "finally"}
           /\ pc' = "except" => Mech # "crossdc"
           /\ pc' = "finally" => Mech = "crossdc"
<1> USE DEF Raise, Keep, Providing, Mech
<1>1. CASE Load
  BY <1>1 DEF Load, Start
<1>2. ASSUME NEW g \in Groups, Create(g) \/ CreateFails(g) \/ AwaitHealthy(g)
      PROVE  /\ cfg' = cfg /\ pc \in Providing
             /\ pc' \in Providing \cup {"refused", "up", "except", "finally"}
             /\ pc' = "except" => Mech # "crossdc"
             /\ pc' = "finally" => Mech = "crossdc"
  BY <1>2 DEF Create, CreateFails, AwaitHealthy
<1>3. CASE Validate \/ Save \/ WriteFails \/ NoteFails \/ AwaitFails \/ Measure
  BY <1>3 DEF Validate, Save, WriteFails, NoteFails, AwaitFails, Measure
<1>4. CASE Write
  BY <1>4 DEF Write, AfterSave
<1>5. CASE Deploy \/ ReadFails
  BY <1>5 DEF Deploy, ReadFails
<1>5a. ASSUME NEW named, ReadManifest(named)
       PROVE  /\ cfg' = cfg /\ pc \in Providing
              /\ pc' \in Providing \cup {"refused", "up", "except", "finally"}
              /\ pc' = "except" => Mech # "crossdc"
              /\ pc' = "finally" => Mech = "crossdc"
  BY <1>5a DEF ReadManifest
<1>6. ASSUME NEW made, NEW v, DeployFails(made, v)
      PROVE  /\ cfg' = cfg /\ pc \in Providing
             /\ pc' \in Providing \cup {"refused", "up", "except", "finally"}
             /\ pc' = "except" => Mech # "crossdc"
             /\ pc' = "finally" => Mech = "crossdc"
  BY <1>6 DEF DeployFails
<1>7. ASSUME NEW m \in Models, NEW ok \in BOOLEAN, Declare(m, ok)
      PROVE  /\ cfg' = cfg /\ pc \in Providing
             /\ pc' \in Providing \cup {"refused", "up", "except", "finally"}
             /\ pc' = "except" => Mech # "crossdc"
             /\ pc' = "finally" => Mech = "crossdc"
  BY <1>7 DEF Declare
<1>8. ASSUME NEW found \in BOOLEAN, FindVolume(found)
      PROVE  /\ cfg' = cfg /\ pc \in Providing
             /\ pc' \in Providing \cup {"refused", "up", "except", "finally"}
             /\ pc' = "except" => Mech # "crossdc"
             /\ pc' = "finally" => Mech = "crossdc"
  BY <1>8 DEF FindVolume
<1>9. CASE DeclareDone
  BY <1>9 DEF DeclareDone
<1> QED BY <1>1, <1>2, <1>3, <1>4, <1>5, <1>5a, <1>6, <1>7, <1>8, <1>9 DEF Provision

\* A step of a teardown touches neither the state nor the file, and brings
\* nothing to life.
LEMMA TeardownStep ==
    ASSUME IInv, TearingDown \/ Down \/ Kill
    PROVE  /\ cfg' = cfg /\ state' = state /\ file' = file
           /\ pc' \notin Providing
           /\ Live' \subseteq Live
           /\ endpoints' \subseteq endpoints
<1> USE DEF IInv, TypeOK, FleetTypeOK, Live, Providing, Keep, Teardown, fleetVars
<1>1. CASE Recover \/ Finally \/ Down \/ Kill
  BY <1>1 DEF Recover, Finally, Down, Kill
<1>2. CASE UndeployDone \/ TerminateDone
  BY <1>2 DEF UndeployDone, TerminateDone
<1>3. ASSUME NEW l \in Labels, NEW ok \in BOOLEAN, Undeploy(l, ok)
      PROVE  /\ cfg' = cfg /\ state' = state /\ file' = file /\ pc' = pc /\ pc = "undeploy"
             /\ pod' = pod /\ endpoints' \subseteq endpoints
  BY <1>3 DEF Undeploy
<1>4. ASSUME NEW g \in Groups, NEW ok \in BOOLEAN, Terminate(g, ok)
      PROVE  /\ cfg' = cfg /\ state' = state /\ file' = file /\ pc' = pc /\ pc = "pods"
             /\ Live' \subseteq Live /\ endpoints' = endpoints
  BY <1>4 DEF Terminate, TerminatePod, Running
<1>5. ASSUME NEW ok \in BOOLEAN, UndeployBaseline(ok) \/ DeleteVolume(ok)
      PROVE  /\ cfg' = cfg /\ state' = state /\ file' = file
             /\ pc' \in {"volume", "down", "failed"}
             /\ pod' = pod /\ endpoints' \subseteq endpoints
  BY <1>5 DEF UndeployBaseline, DeleteVolume
<1> QED BY <1>1, <1>2, <1>3, <1>4, <1>5 DEF TearingDown

\* What happens to the pods by themselves leaves the rest alone and creates none.
LEMMA PodStep ==
    ASSUME IInv, NEW g \in Groups, Pods(g) \/ Platform(g) \/ PodFails(g)
    PROVE  UNCHANGED tbVars /\ Live' = Live /\ FleetStep
<1> USE DEF IInv, TypeOK, FleetTypeOK, Live, Running, Configuring
<1>1. CASE Platform(g)
  BY <1>1 DEF Platform, Appear, Expose, FleetStep
<1>2. CASE PodFails(g)
  BY <1>2 DEF PodFails, ExitNotReady, FleetStep
<1>3. CASE Pods(g)
  <2>1. Entrypoint(g) /\ UNCHANGED tbVars
    BY <1>3 DEF Pods
  <2>2. CASE Discover(g)
    BY <2>1, <2>2 DEF Discover, FleetStep, Entrypoint
  <2>3. ASSUME NEW p \in Groups, ReadAddr(g, p) PROVE Live' = Live
    BY <2>3 DEF ReadAddr
  <2>4. CASE Exec(g)
    BY <2>1, <2>4 DEF Exec, FleetStep, Entrypoint
  <2> QED BY <2>1, <2>2, <2>3, <2>4 DEF Entrypoint, FleetStep
<1> QED BY <1>1, <1>2, <1>3

\* Every step is one of these.
LEMMA StepKinds ==
    ASSUME [Next]_vars
    PROVE  \/ UNCHANGED vars
           \/ Provision
           \/ TearingDown \/ Down \/ Kill
           \/ \E g \in Groups : Pods(g) \/ Platform(g) \/ PodFails(g)
BY DEF Next, Controller
-----------------------------------------------------------------------------
\* Whatever the controller does to the pods is a step of the fleet.
LEMMA NextFleet ==
    ASSUME IInv, [Next]_vars
    PROVE  FleetStep \/ UNCHANGED fleetVars
<1>1. CASE UNCHANGED vars
  BY <1>1 DEF vars
<1>2. CASE Provision
  <2>1. ASSUME NEW g \in Groups, Create(g) \/ CreateFails(g) \/ AwaitHealthy(g)
        PROVE  FleetStep \/ UNCHANGED fleetVars
    BY <2>1 DEF Create, CreateFails, AwaitHealthy, FleetStep
  <2>2. CASE \/ Load \/ Validate \/ Save \/ Write \/ WriteFails \/ NoteFails \/ AwaitFails \/ Measure
            \/ Deploy \/ ReadFails \/ DeclareDone
    BY <2>2 DEF Load, Validate, Save, Write, WriteFails, NoteFails, AwaitFails, Measure,
                Deploy, ReadFails, DeclareDone
  <2>3. ASSUME NEW made, NEW v, DeployFails(made, v) \/ ReadManifest(made) PROVE UNCHANGED fleetVars
    BY <2>3 DEF DeployFails, ReadManifest
  <2>4. ASSUME NEW found, FindVolume(found) PROVE UNCHANGED fleetVars
    BY <2>4 DEF FindVolume
  <2>5. ASSUME NEW m, NEW ok, Declare(m, ok) PROVE UNCHANGED fleetVars
    BY <2>5 DEF Declare
  <2> QED BY <1>2, <2>1, <2>2, <2>3, <2>4, <2>5 DEF Provision
<1>3. CASE TearingDown \/ Down \/ Kill
  <2>1. CASE Recover \/ Finally \/ UndeployDone \/ TerminateDone \/ Down \/ Kill
    BY <2>1 DEF Recover, Finally, UndeployDone, TerminateDone, Down, Kill
  <2>2. ASSUME NEW l, NEW ok, Undeploy(l, ok) PROVE UNCHANGED fleetVars
    BY <2>2 DEF Undeploy
  <2>3. ASSUME NEW g \in Groups, NEW ok, Terminate(g, ok) PROVE FleetStep \/ UNCHANGED fleetVars
    BY <2>3 DEF Terminate, FleetStep
  <2>4. ASSUME NEW ok, UndeployBaseline(ok) \/ DeleteVolume(ok) PROVE UNCHANGED fleetVars
    BY <2>4 DEF UndeployBaseline, DeleteVolume
  <2> QED BY <1>3, <2>1, <2>2, <2>3, <2>4 DEF TearingDown
<1>4. CASE \E g \in Groups : Pods(g) \/ Platform(g) \/ PodFails(g)
  BY <1>4, PodStep
<1> QED BY <1>1, <1>2, <1>3, <1>4, StepKinds

LEMMA FleetPart == ASSUME IInv, [Next]_vars PROVE FleetTypeOK' /\ DiscoverySound'
BY NextFleet, FleetInvStep DEF IInv, TypeOK, FleetInv

\* The labels that a plan, a state or a teardown can name.
LEMMA LabelFacts ==
    /\ Groups \subseteq Labels /\ Models \subseteq Labels
    /\ Baseline \in Labels /\ VolumeLabel \in Labels
    /\ Planned \subseteq Labels
    /\ \A st \in ProvisionState : Owned(st) \subseteq Labels
<1>1. /\ Groups \subseteq Labels /\ Models \subseteq Labels
      /\ Baseline \in Labels /\ VolumeLabel \in Labels
  BY DEF Labels
<1>2. Planned \subseteq Labels
  BY <1>1 DEF Planned
<1>3. ASSUME NEW st \in ProvisionState PROVE Owned(st) \subseteq Labels
  <2>1. st.endpoints \subseteq Labels
    BY DEF ProvisionState
  <2> QED BY <1>1, <2>1 DEF Owned
<1> QED BY <1>1, <1>2, <1>3

\* The controller's part of the type invariant.
TbTypeOK ==
    /\ pc \in Stages \cup Ended
    /\ cfg \in Config
    /\ faults \subseteq AllFaults
    /\ todo \subseteq Labels
    /\ state \in ProvisionState
    /\ file \in ProvisionState \cup {NoFile, Torn}
    /\ endpoints \subseteq Labels
    /\ volume \in BOOLEAN
    /\ stuck \subseteq Resources
    /\ deployed \in BOOLEAN
    /\ upDone \in BOOLEAN
    /\ declared \subseteq Models
    /\ ignored \subseteq Models
    /\ warned \subseteq Models
    /\ downs \in 0 .. MaxDowns

\* Provisioning keeps it.
LEMMA ProvisionType == ASSUME IInv, Provision PROVE TbTypeOK'
<1> TbTypeOK
  BY DEF IInv, TypeOK, TbTypeOK
<1>pc. pc' \in Stages \cup Ended /\ cfg' = cfg
  BY ProvisionStep DEF Providing, Stages, Ended
<1>st. /\ state.pods \subseteq Groups /\ state.endpoints \subseteq Labels
       /\ state.reused \subseteq Models /\ state.volume \in BOOLEAN
  BY DEF TbTypeOK, ProvisionState
<1> USE <1>pc, LabelFacts DEF TbTypeOK, Keep
<1>1. CASE Load
  BY <1>1 DEF Load
<1>2. ASSUME NEW g \in Groups, Create(g) PROVE TbTypeOK'
  <2>1. state' \in ProvisionState /\ state'.pods \subseteq Labels
    BY <1>2, <1>st DEF Create, ProvisionState
  <2> QED BY <1>2, <2>1 DEF Create
<1>3. ASSUME NEW g \in Groups, CreateFails(g) \/ AwaitHealthy(g) PROVE TbTypeOK'
  BY <1>3 DEF CreateFails, AwaitHealthy
<1>4. CASE Validate \/ Save \/ WriteFails \/ NoteFails \/ AwaitFails \/ Measure
  BY <1>4 DEF Validate, Save, WriteFails, NoteFails, AwaitFails, Measure
<1>5. CASE Write
  <2>1. todo' \subseteq Labels
    BY <1>5, <1>st DEF Write
  <2>2. upDone' \in BOOLEAN
    BY <1>5 DEF Write
  <2> QED BY <1>5, <2>1, <2>2 DEF Write
<1>6. CASE Deploy \/ ReadFails
  BY <1>6 DEF Deploy, ReadFails
<1>7. ASSUME NEW named \in SUBSET Planned, ReadManifest(named) PROVE TbTypeOK'
  <2>1. state' \in ProvisionState
    BY <1>7, <1>st DEF ReadManifest, ProvisionState
  <2> QED BY <1>7, <2>1 DEF ReadManifest
<1>8. ASSUME NEW made \in SUBSET Planned, NEW v \in BOOLEAN, DeployFails(made, v) PROVE TbTypeOK'
  BY <1>8 DEF DeployFails
<1>9. ASSUME NEW found \in BOOLEAN, FindVolume(found) PROVE TbTypeOK'
  <2>1. state' \in ProvisionState
    BY <1>9, <1>st DEF FindVolume, ProvisionState
  <2> QED BY <1>9, <2>1 DEF FindVolume
<1>10. ASSUME NEW m \in Models, NEW ok \in BOOLEAN, Declare(m, ok) PROVE TbTypeOK'
  BY <1>10 DEF Declare, SetModelReferences
<1>11. CASE DeclareDone
  BY <1>11 DEF DeclareDone
<1> QED BY <1>1, <1>2, <1>3, <1>4, <1>5, <1>6, <1>7, <1>8, <1>9, <1>10, <1>11 DEF Provision

\* Teardown keeps it.
LEMMA TeardownType == ASSUME IInv, TearingDown \/ Down \/ Kill PROVE TbTypeOK'
<1> TbTypeOK /\ FileKnown
  BY DEF IInv, TypeOK, TbTypeOK
<1>1. /\ \A g \in Groups : Pod(g) \in Resources
      /\ \A l \in Labels : Endpoint(l) \in Resources
      /\ Volume \in Resources
  BY DEF Resources
<1>2. file \in ProvisionState => file.pods \subseteq Labels /\ Owned(file) \subseteq Labels
  BY LabelFacts DEF ProvisionState
<1>3. state.pods \subseteq Labels
  BY LabelFacts DEF TbTypeOK, ProvisionState
<1> USE DEF TbTypeOK, Keep, Stages, Ended, Teardown
<1>4. CASE Recover \/ Finally \/ Kill
  BY <1>2, <1>3, <1>4 DEF Recover, Finally, Kill
<1>5. CASE Down
  BY <1>2, <1>5, DownsAssumption DEF Down
<1>6. CASE UndeployDone \/ TerminateDone
  BY <1>2, <1>6 DEF UndeployDone, TerminateDone, FileKnown
<1>7. ASSUME NEW l \in Labels, NEW ok \in BOOLEAN, Undeploy(l, ok) PROVE TbTypeOK'
  BY <1>1, <1>7 DEF Undeploy
<1>8. ASSUME NEW g \in Groups, NEW ok \in BOOLEAN, Terminate(g, ok) PROVE TbTypeOK'
  BY <1>1, <1>8 DEF Terminate
<1>9. ASSUME NEW ok \in BOOLEAN, UndeployBaseline(ok) \/ DeleteVolume(ok) PROVE TbTypeOK'
  BY <1>1, <1>9, LabelFacts DEF UndeployBaseline, DeleteVolume
<1> QED BY <1>4, <1>5, <1>6, <1>7, <1>8, <1>9 DEF TearingDown

\* The type invariant is kept by every step.
LEMMA TypePart == ASSUME IInv, [Next]_vars PROVE TypeOK'
<1>1. FleetTypeOK'
  BY FleetPart
<1>2. TbTypeOK'
  <2>1. CASE UNCHANGED tbVars
    BY <2>1 DEF IInv, TypeOK, TbTypeOK, tbVars
  <2> QED BY <2>1, StepKinds, ProvisionType, TeardownType, PodStep DEF vars
<1> QED BY <1>1, <1>2 DEF TypeOK, TbTypeOK
-----------------------------------------------------------------------------
\* Nothing is there to begin with.
LEMMA InitIInv == ASSUME Init PROVE IInv
<1> USE DEF Init, FleetInit
<1>1. Live = {}
  BY DEF Live, Running, Configuring
<1>2. FleetTypeOK /\ DiscoverySound
  BY FleetInitInv DEF FleetInv
<1>3. EmptyState \in ProvisionState /\ EmptyState.pods = {}
  BY DEF EmptyState, ProvisionState
<1>4. TypeOK
  <2>1. faults \subseteq AllFaults
    BY TestbedFaultsAssumption
  <2>2. cfg \in Config
    BY ConfigsAssumption
  <2>3. endpoints \subseteq Labels
    BY LabelFacts
  <2>4. downs \in 0 .. MaxDowns
    BY DownsAssumption
  <2> QED BY <1>2, <1>3, <2>1, <2>2, <2>3, <2>4 DEF TypeOK, Stages
<1>5. FileKnown /\ FleetSaved /\ FleetRecorded
  BY <1>1, <1>3 DEF FileKnown, FleetSaved, FleetRecorded
<1>6. EndpointsOver /\ PodsOver /\ VolumeOver
  BY DEF EndpointsOver, PodsOver, VolumeOver
<1>7. Accounted /\ DeclarationsKept
  <2>1. EmptyState.endpoints = {}
    BY DEF EmptyState
  <2> QED BY <1>1, <2>1, FileAssumption DEF Accounted, DeclarationsKept, Readable
<1> QED BY <1>2, <1>4, <1>5, <1>6, <1>7 DEF IInv

\* A file that a teardown works from stays as it was read.
LEMMA FileKnownPart == ASSUME IInv, [Next]_vars PROVE FileKnown'
<1> FileKnown /\ TypeOK
  BY DEF IInv
<1> USE DEF FileKnown, Mech
<1>1. CASE UNCHANGED tbVars
  BY <1>1 DEF tbVars
<1>2. CASE Provision
  BY <1>2, ProvisionStep DEF Providing
<1>3. CASE TearingDown \/ Down \/ Kill
  <2>0. cfg' = cfg /\ file' = file
    BY <1>3, TeardownStep
  <2> USE DEF TypeOK, Keep, Teardown
  <2>1. CASE Recover
    BY <2>0, <2>1 DEF Recover
  <2>2. CASE Finally \/ Down \/ Kill
    BY <2>0, <2>2 DEF Finally, Down, Kill
  <2>3. CASE UndeployDone \/ TerminateDone
    BY <2>0, <2>3 DEF UndeployDone, TerminateDone
  <2>4. ASSUME NEW l, NEW ok, Undeploy(l, ok) PROVE FileKnown'
    BY <2>0, <2>4 DEF Undeploy
  <2>5. ASSUME NEW g, NEW ok, Terminate(g, ok) PROVE FileKnown'
    BY <2>0, <2>5 DEF Terminate
  <2>6. ASSUME NEW ok, UndeployBaseline(ok) \/ DeleteVolume(ok) PROVE FileKnown'
    BY <2>0, <2>6 DEF UndeployBaseline, DeleteVolume
  <2> QED BY <1>3, <2>1, <2>2, <2>3, <2>4, <2>5, <2>6 DEF TearingDown
<1> QED BY <1>1, <1>2, <1>3, StepKinds, PodStep DEF vars

\* Only a creation adds a pod, and only the one.
LEMMA CreateLive ==
    ASSUME IInv, NEW g \in Groups, CreatePod(g) PROVE Live' = Live \cup {g}
BY DEF IInv, TypeOK, FleetTypeOK, CreatePod, Live, Running, Configuring

\* The file keeps up with the fleet while the shim provisions.
LEMMA SavedProvision == ASSUME IInv, Provision PROVE FleetSaved' /\ FleetRecorded'
<1> TypeOK /\ FleetSaved /\ FleetRecorded
  BY DEF IInv
<1>cfg. Mech' = Mech
  BY ProvisionStep DEF Mech
<1>st. state \in ProvisionState /\ state.pods \subseteq Groups /\ Live \subseteq Groups
  BY DEF TypeOK, ProvisionState, Live
<1>file. file \in ProvisionState => file # NoFile /\ file # Torn
  BY FileAssumption
<1>live. pod' = pod => Live' = Live
  BY DEF Live
<1>0. CASE Mech # "shim"
  BY <1>0, <1>cfg DEF FleetSaved, FleetRecorded
<1> SUFFICES ASSUME Mech = "shim" PROVE FleetSaved' /\ FleetRecorded'
  BY <1>0
<1> USE <1>cfg, <1>live, FileAssumption DEF Keep, FleetSaved, FleetRecorded, fleetVars, Raise
<1>1. CASE Load
  BY <1>1 DEF Load, Start
<1>2. ASSUME NEW g \in Groups, Create(g) PROVE FleetSaved' /\ FleetRecorded'
  <2>1. Live' = Live \cup {g}
    BY <1>2, CreateLive DEF Create
  <2>2. state'.pods = state.pods \cup {g} /\ file' = file /\ pc = "create" /\ pc' = "save"
    BY <1>2, <1>st DEF Create, ProvisionState
  <2>3. FleetSaved'
    BY <2>1, <2>2
  <2>4. FleetRecorded'
    BY <2>1, <2>2, <1>file
  <2> QED BY <2>3, <2>4
<1>3. ASSUME NEW g \in Groups, CreateFails(g) PROVE FleetSaved' /\ FleetRecorded'
  <2>1. Live' \subseteq Live \cup {g}
    BY <1>3, CreateLive DEF CreateFails
  <2>2. file' = file /\ pc = "create" /\ pc' = "except"
    BY <1>3 DEF CreateFails
  <2> QED BY <2>1, <2>2, <1>file
<1>4. ASSUME NEW g \in Groups, AwaitHealthy(g) PROVE FleetSaved' /\ FleetRecorded'
  BY <1>4 DEF AwaitHealthy
<1>5. CASE Validate \/ Save \/ WriteFails \/ NoteFails \/ AwaitFails \/ Measure
  BY <1>5, <1>st DEF Validate, Save, WriteFails, NoteFails, AwaitFails, Measure
<1>6. CASE Write
  <2>1. /\ pc = "write" /\ file' = state /\ state' = state /\ Live' = Live
        /\ pc' \in {"create", "wait", "deploy", "declare", "up"}
    BY <1>6 DEF Write, AfterSave
  <2> QED BY <2>1, <1>st
<1>7. CASE Deploy \/ ReadFails
  BY <1>7 DEF Deploy, ReadFails
<1>8. ASSUME NEW named \in SUBSET Planned, ReadManifest(named) PROVE FleetSaved' /\ FleetRecorded'
  <2>1. /\ state'.pods = state.pods /\ file' = file /\ Live' = Live
        /\ pc = "manifest" /\ pc' \in {"save", "find"}
    BY <1>8, <1>st DEF ReadManifest, ProvisionState
  <2> QED BY <2>1
<1>9. ASSUME NEW made, NEW v, DeployFails(made, v) PROVE FleetSaved' /\ FleetRecorded'
  BY <1>9 DEF DeployFails
<1>10. ASSUME NEW found \in BOOLEAN, FindVolume(found) PROVE FleetSaved' /\ FleetRecorded'
  <2>1. /\ state'.pods = state.pods /\ file' = file /\ Live' = Live
        /\ pc = "find" /\ pc' = "save"
    BY <1>10, <1>st DEF FindVolume, ProvisionState
  <2> QED BY <2>1
<1>11. ASSUME NEW m, NEW ok, Declare(m, ok) PROVE FleetSaved' /\ FleetRecorded'
  BY <1>11 DEF Declare
<1>12. CASE DeclareDone
  BY <1>12 DEF DeclareDone
<1> QED BY <1>1, <1>2, <1>3, <1>4, <1>5, <1>6, <1>7, <1>8, <1>9, <1>10, <1>11, <1>12 DEF Provision

LEMMA SavedPart == ASSUME IInv, [Next]_vars PROVE FleetSaved' /\ FleetRecorded'
<1> FleetSaved /\ FleetRecorded
  BY DEF IInv
<1>1. CASE UNCHANGED tbVars /\ Live' = Live
  BY <1>1 DEF tbVars, FleetSaved, FleetRecorded, Mech
<1>2. CASE TearingDown \/ Down \/ Kill
  BY <1>2, TeardownStep DEF FleetSaved, FleetRecorded, Mech, Providing
<1>3. UNCHANGED vars => UNCHANGED tbVars /\ Live' = Live
  BY DEF vars, fleetVars, Live
<1> QED BY <1>1, <1>2, <1>3, StepKinds, SavedProvision, PodStep
-----------------------------------------------------------------------------
Over == EndpointsOver /\ PodsOver /\ VolumeOver

\* A terminated pod is not alive, and no other pod changes.
LEMMA TerminateLive ==
    ASSUME IInv, NEW g \in Groups, TerminatePod(g) PROVE Live' = Live \ {g}
BY DEF IInv, TypeOK, FleetTypeOK, TerminatePod, Live, Running, Configuring

\* Every stage of a teardown leaves behind only what it was refused.
LEMMA OverTeardown == ASSUME IInv, TearingDown \/ Down \/ Kill PROVE Over'
<1> TypeOK /\ FileKnown /\ EndpointsOver /\ PodsOver /\ VolumeOver
  BY DEF IInv
<1>same. /\ Mech' = Mech /\ file' = file /\ state' = state
         /\ Live' \subseteq Live /\ endpoints' \subseteq endpoints
         /\ Owned(file)' = Owned(file) /\ Readable' = Readable
  BY TeardownStep DEF Mech, Owned, Readable
<1>file. file \in {NoFile, Torn} => ~Readable
  BY FileAssumption DEF Readable
<1> USE <1>same DEF EndpointsOver, PodsOver, VolumeOver, Over, EndpointOver, PodOver, Keep
<1>1. CASE Recover \/ Down
  BY <1>1, <1>file DEF Recover, Down, Teardown
<1>2. CASE Finally \/ Kill
  BY <1>2 DEF Finally, Kill, FileKnown
<1>3. ASSUME NEW l \in Labels, NEW ok \in BOOLEAN, Undeploy(l, ok) PROVE Over'
  <2>1. /\ pc = "undeploy" /\ pc' = pc /\ todo' = todo \ {l}
        /\ stuck \subseteq stuck' /\ (l \in endpoints' => Endpoint(l) \in stuck')
    BY <1>3 DEF Undeploy
  <2> QED BY <2>1
<1>4. CASE UndeployDone
  <2>1. pc = "undeploy" /\ pc' = "pods" /\ todo = {} /\ todo' = file.pods /\ stuck' = stuck
    BY <1>4 DEF UndeployDone
  <2> QED BY <2>1 DEF FileKnown
<1>5. ASSUME NEW g \in Groups, NEW ok \in BOOLEAN, Terminate(g, ok) PROVE Over'
  <2>1. /\ pc = "pods" /\ pc' = pc /\ todo' = todo \ {g}
        /\ stuck \subseteq stuck' /\ (g \in Live' => Pod(g) \in stuck')
    BY <1>5, TerminateLive DEF Terminate
  <2> QED BY <2>1
<1>6. CASE TerminateDone
  <2>1. /\ pc = "pods" /\ todo = {} /\ stuck' = stuck
        /\ pc' = IF Mech = "crossdc" THEN "ended" ELSE "baseline"
    BY <1>6 DEF TerminateDone
  <2> QED BY <2>1
<1>7. ASSUME NEW ok \in BOOLEAN, UndeployBaseline(ok) PROVE Over'
  <2>1. /\ pc = "baseline" /\ pc' = "volume" /\ stuck \subseteq stuck'
        /\ Baseline \in endpoints' => Endpoint(Baseline) \in stuck'
    BY <1>7 DEF UndeployBaseline
  <2> QED BY <2>1 DEF FileKnown
<1>8. ASSUME NEW ok \in BOOLEAN, DeleteVolume(ok) PROVE Over'
  <2>1. /\ pc = "volume" /\ pc' \in {"down", "failed"} /\ stuck \subseteq stuck'
        /\ (file.volume /\ volume') => Volume \in stuck'
    BY <1>8 DEF DeleteVolume
  <2> QED BY <2>1 DEF FileKnown
<1> QED BY <1>1, <1>2, <1>3, <1>4, <1>5, <1>6, <1>7, <1>8 DEF TearingDown

LEMMA OverPart == ASSUME IInv, [Next]_vars PROVE Over'
<1> EndpointsOver /\ PodsOver /\ VolumeOver
  BY DEF IInv
<1>1. CASE UNCHANGED tbVars /\ Live' = Live
  <2>1. /\ pc' = pc /\ Mech' = Mech /\ file' = file /\ state' = state /\ todo' = todo
        /\ stuck' = stuck /\ endpoints' = endpoints /\ volume' = volume
        /\ Owned(file)' = Owned(file) /\ Readable' = Readable
    BY <1>1 DEF tbVars, Mech, Owned, Readable
  <2> QED BY <1>1, <2>1 DEF EndpointsOver, PodsOver, VolumeOver, Over, EndpointOver, PodOver
<1>2. CASE Provision
  BY <1>2, ProvisionStep DEF EndpointsOver, PodsOver, VolumeOver, Over, Providing
<1>3. UNCHANGED vars => UNCHANGED tbVars /\ Live' = Live
  BY DEF vars, fleetVars, Live
<1> QED BY <1>1, <1>2, <1>3, StepKinds, OverTeardown, PodStep

\* What is made is accounted for while make up runs.
LEMMA AccountedProvision == ASSUME IInv, Provision PROVE Accounted'
<1> TypeOK /\ Accounted /\ FleetSaved
  BY DEF IInv
<1>pc. pc \in Providing /\ cfg' = cfg
  BY ProvisionStep
<1>cfg. Mech' = Mech /\ Reusing' = Reusing /\ Planned' = Planned
  BY <1>pc DEF Mech, Reusing, Planned
<1>st. /\ state \in ProvisionState
       /\ cfg \in Config /\ (Mech \in Mechanisms \/ Mech = "crossdc")
  BY DEF TypeOK, Config, Mech
<1>live. pod' = pod => Live' = Live
  BY DEF Live
<1>0. CASE Mech = "crossdc"
  BY <1>0, <1>cfg DEF Accounted
<1> SUFFICES ASSUME Mech # "crossdc" PROVE Accounted'
  BY <1>0
<1>un. ~upDone
  BY <1>pc DEF Accounted, Providing, Ended
<1> USE <1>cfg, <1>live, <1>un DEF Keep, Accounted, fleetVars, Raise, Readable
<1>1. CASE Load
  BY <1>1 DEF Load, Start
<1>2. ASSUME NEW g \in Groups, Create(g) PROVE Accounted'
  <2>1. /\ state'.endpoints = state.endpoints /\ file' = file /\ pc = "create" /\ pc' \in {"save", "create"}
        /\ endpoints' = endpoints /\ upDone' = upDone
    BY <1>2, <1>st DEF Create, ProvisionState
  <2> QED BY <2>1
<1>3. ASSUME NEW g \in Groups, CreateFails(g) \/ AwaitHealthy(g) PROVE Accounted'
  BY <1>3 DEF CreateFails, AwaitHealthy
<1>5. CASE Validate \/ WriteFails \/ NoteFails \/ AwaitFails \/ Measure \/ ReadFails
  BY <1>5 DEF Validate, WriteFails, NoteFails, AwaitFails, Measure, ReadFails
<1>5a. CASE Save
  BY <1>5a, FileAssumption DEF Save
<1>6. CASE Write
  <2>1. /\ pc = "write" /\ file' = state /\ state' = state /\ Live' = Live /\ endpoints' = endpoints
        /\ pc' = AfterSave /\ upDone' = (AfterSave = "up")
    BY <1>6 DEF Write
  <2>2. /\ AfterSave \in {"create", "wait", "deploy", "declare", "up"}
        /\ AfterSave = "create" => Mech = "shim"
        /\ AfterSave = "declare" => Mech = "modelstore"
    BY DEF AfterSave
  <2>3. Live \subseteq state.pods
    BY <2>1 DEF FleetSaved
  <2> QED BY <2>1, <2>2, <2>3, <1>st DEF Ended
<1>7. CASE Deploy
  BY <1>7 DEF Deploy
<1>8. ASSUME NEW named \in SUBSET Planned, ReadManifest(named) PROVE Accounted'
  <2>1. /\ state'.endpoints = named /\ file' = file /\ Live' = Live /\ endpoints' = endpoints
        /\ pc' \in {"save", "find"} /\ upDone' = upDone
    BY <1>8, <1>st DEF ReadManifest, ProvisionState
  <2> QED BY <2>1
<1>9. ASSUME NEW made \in SUBSET Planned, NEW v \in BOOLEAN, DeployFails(made, v) PROVE Accounted'
  BY <1>9 DEF DeployFails
<1>10. ASSUME NEW found \in BOOLEAN, FindVolume(found) PROVE Accounted'
  <2>1. /\ state'.endpoints = state.endpoints /\ file' = file /\ Live' = Live
        /\ endpoints' = endpoints /\ pc' = "save" /\ upDone' = upDone
    BY <1>10, <1>st DEF FindVolume, ProvisionState
  <2> QED BY <2>1
<1>11. ASSUME NEW m, NEW ok, Declare(m, ok) PROVE Accounted'
  BY <1>11 DEF Declare
<1>12. CASE DeclareDone
  BY <1>12 DEF DeclareDone, Ended
<1> QED BY <1>1, <1>2, <1>3, <1>5, <1>5a, <1>6, <1>7, <1>8, <1>9, <1>10, <1>11, <1>12 DEF Provision

\* A teardown undeploys only what the file names as the run's own.
LEMMA AccountedTeardown == ASSUME IInv, TearingDown \/ Down \/ Kill PROVE Accounted'
<1> TypeOK /\ Accounted
  BY DEF IInv
<1>same. /\ Mech' = Mech /\ file' = file /\ state' = state
         /\ Live' \subseteq Live /\ endpoints' \subseteq endpoints
         /\ Owned(file)' = Owned(file) /\ Readable' = Readable
         /\ Reusing' = Reusing /\ Planned' = Planned /\ pc' \notin Providing
  BY TeardownStep DEF Mech, Owned, Readable, Reusing, Planned
<1>1. /\ upDone' = upDone
      /\ upDone => pc' \in Ended \cup {"undeploy", "pods", "baseline", "volume"} \/ Mech = "crossdc"
      /\ pc' = "undeploy" => todo' \subseteq Owned(file) \/ (pc = "undeploy" /\ todo' \subseteq todo)
  <2> USE DEF Keep, Teardown, Ended, Accounted
  <2>1. CASE Recover \/ Finally \/ Down \/ Kill
    BY <2>1 DEF Recover, Finally, Down, Kill
  <2>2. CASE UndeployDone \/ TerminateDone
    BY <2>2 DEF UndeployDone, TerminateDone
  <2>3. ASSUME NEW l, NEW ok, Undeploy(l, ok)
        PROVE  upDone' = upDone /\ pc = "undeploy" /\ pc' = pc /\ todo' \subseteq todo
    BY <2>3 DEF Undeploy
  <2>4. ASSUME NEW g, NEW ok, Terminate(g, ok)
        PROVE  upDone' = upDone /\ pc = "pods" /\ pc' = pc
    BY <2>4 DEF Terminate
  <2>5. ASSUME NEW ok, UndeployBaseline(ok) \/ DeleteVolume(ok)
        PROVE  upDone' = upDone /\ pc' \in {"volume", "down", "failed"}
    BY <2>5 DEF UndeployBaseline, DeleteVolume
  <2> QED BY <2>1, <2>2, <2>3, <2>4, <2>5 DEF TearingDown
<1> QED BY <1>same, <1>1 DEF Accounted, Providing

LEMMA AccountedPart == ASSUME IInv, [Next]_vars PROVE Accounted'
<1> Accounted
  BY DEF IInv
<1>1. CASE UNCHANGED tbVars /\ Live' = Live
  <2>1. /\ pc' = pc /\ Mech' = Mech /\ file' = file /\ state' = state /\ todo' = todo
        /\ endpoints' = endpoints /\ upDone' = upDone /\ Planned' = Planned
        /\ Owned(file)' = Owned(file) /\ Readable' = Readable /\ Reusing' = Reusing
    BY <1>1 DEF tbVars, Mech, Owned, Readable, Reusing, Planned
  <2> QED BY <1>1, <2>1 DEF Accounted
<1>2. UNCHANGED vars => UNCHANGED tbVars /\ Live' = Live
  BY DEF vars, fleetVars, Live
<1> QED BY <1>1, <1>2, StepKinds, AccountedProvision, AccountedTeardown, PodStep

\* Every model is declared, reported or still to be declared.
LEMMA DeclarationsPart == ASSUME IInv, [Next]_vars PROVE DeclarationsKept'
<1> TypeOK /\ Accounted /\ DeclarationsKept
  BY DEF IInv
<1>1. CASE UNCHANGED tbVars
  BY <1>1 DEF tbVars, DeclarationsKept, Mech, Reusing
<1>2. CASE TearingDown \/ Down \/ Kill
  <2>1. pc' \notin Providing /\ pc' # "up"
    <3> USE DEF Providing, Keep, Teardown
    <3>1. CASE Recover \/ Finally \/ Down \/ Kill
      BY <3>1 DEF Recover, Finally, Down, Kill
    <3>2. CASE UndeployDone \/ TerminateDone
      BY <3>2 DEF UndeployDone, TerminateDone
    <3>3. ASSUME NEW l, NEW ok, Undeploy(l, ok) PROVE pc' = "undeploy"
      BY <3>3 DEF Undeploy
    <3>4. ASSUME NEW g, NEW ok, Terminate(g, ok) PROVE pc' = "pods"
      BY <3>4 DEF Terminate
    <3>5. ASSUME NEW ok, UndeployBaseline(ok) \/ DeleteVolume(ok)
          PROVE  pc' \in {"volume", "down", "failed"}
      BY <3>5 DEF UndeployBaseline, DeleteVolume
    <3> QED BY <1>2, <3>1, <3>2, <3>3, <3>4, <3>5 DEF TearingDown
  <2> QED BY <2>1 DEF DeclarationsKept, Providing
<1>3. CASE Provision
  <2>cfg. Mech' = Mech /\ Reusing' = Reusing
    BY <1>3, ProvisionStep DEF Mech, Reusing
  <2>0. CASE ~(Mech = "modelstore" /\ ~Reusing)
    BY <2>0, <2>cfg DEF DeclarationsKept
  <2> SUFFICES ASSUME Mech = "modelstore", ~Reusing PROVE DeclarationsKept'
    BY <2>0
  <2>still. ASSUME pc' \notin {"declare", "up"} PROVE DeclarationsKept'
    BY <2>still DEF DeclarationsKept
  <2> USE DEF Keep, Raise
  <2>1. CASE Load
    BY <2>1, <2>still DEF Load, Start
  <2>2. ASSUME NEW g, Create(g) \/ CreateFails(g) \/ AwaitHealthy(g) PROVE DeclarationsKept'
    BY <2>2, <2>still DEF Create, CreateFails, AwaitHealthy
  <2>3. CASE \/ Validate \/ Save \/ WriteFails \/ NoteFails \/ AwaitFails \/ Measure
            \/ Deploy \/ ReadFails
    BY <2>3, <2>still DEF Validate, Save, WriteFails, NoteFails, AwaitFails, Measure, Deploy,
                          ReadFails
  <2>4. CASE Write
    <3>1. AfterSave \in {"deploy", "declare"}
      BY DEF AfterSave
    <3>2. AfterSave = "declare" => todo' = Models \cap file'.endpoints
      BY <2>4 DEF Write
    <3> QED BY <2>4, <3>1, <3>2, <2>still DEF Write, DeclarationsKept
  <2>5. ASSUME NEW made, NEW v, DeployFails(made, v) \/ ReadManifest(made) PROVE DeclarationsKept'
    BY <2>5, <2>still DEF DeployFails, ReadManifest
  <2>6. ASSUME NEW found, FindVolume(found) PROVE DeclarationsKept'
    BY <2>6, <2>still DEF FindVolume
  <2>7. ASSUME NEW m \in Models, NEW ok \in BOOLEAN, Declare(m, ok) PROVE DeclarationsKept'
    BY <2>7, <2>cfg DEF Declare, SetModelReferences, DeclarationsKept
  <2>8. CASE DeclareDone
    BY <2>8, <2>cfg DEF DeclareDone, DeclarationsKept
  <2> QED BY <1>3, <2>1, <2>2, <2>3, <2>4, <2>5, <2>6, <2>7, <2>8 DEF Provision
<1>4. UNCHANGED vars => UNCHANGED tbVars
  BY DEF vars
<1> QED BY <1>1, <1>2, <1>3, <1>4, StepKinds, PodStep

LEMMA StepIInv == ASSUME IInv, [Next]_vars PROVE IInv'
BY TypePart, FleetPart, FileKnownPart, SavedPart, OverPart, AccountedPart, DeclarationsPart
   DEF IInv, Over

LEMMA AlwaysIInv == Spec => []IInv
<1>1. Init => IInv
  BY InitIInv
<1>2. IInv /\ [Next]_vars => IInv'
  BY StepIInv
<1> QED BY <1>1, <1>2, PTL DEF Spec
-----------------------------------------------------------------------------
\* The state keeps its type.
THEOREM TestbedTypeOK == Spec => []TypeOK
<1>1. IInv => TypeOK
  BY DEF IInv
<1> QED BY <1>1, AlwaysIInv, PTL

\* Whatever fails and whenever make up is killed, at most one pod of the fleet
\* is unknown to a state file that is not left truncated (shim.py's save after
\* each create).
THEOREM FleetIsRecorded == Spec => []FleetRecorded
<1>1. IInv => FleetRecorded
  BY DEF IInv
<1> QED BY <1>1, AlwaysIInv, PTL

\* A teardown that has ended has deleted all that the file names, or that has a
\* fixed name, except what it was refused (down.py's teardown_all), and so has
\* run_pair's finally clause with the pods it created (crossdc.py).
THEOREM TeardownIsComplete == Spec => []TeardownComplete
<1>1. ASSUME IInv, pc \in {"failed", "down"}, file \notin {NoFile, Torn},
             NEW r \in Billed, r \in Named(file)
      PROVE  r \in stuck
  <2>1. Readable /\ EndpointsOver /\ PodsOver /\ VolumeOver
    BY <1>1 DEF IInv, TypeOK, Readable
  <2>2. CASE \E g \in Live : r = Pod(g)
    <3>1. PICK g \in Live : r = Pod(g)
      BY <2>2
    <3>2. g \in file.pods
      BY <1>1, <3>1 DEF Named, Pod, Endpoint, Volume
    <3> QED BY <1>1, <2>1, <3>1, <3>2 DEF PodsOver, PodOver
  <2>3. CASE \E l \in endpoints : r = Endpoint(l)
    <3>1. PICK l \in endpoints : r = Endpoint(l)
      BY <2>3
    <3>2. l \in Owned(file) \cup {Baseline}
      BY <1>1, <3>1 DEF Named, Pod, Endpoint, Volume
    <3>3. Mech # "crossdc" \/ l = Baseline
      BY <3>2 DEF Owned
    <3> QED BY <1>1, <2>1, <3>1, <3>2, <3>3 DEF EndpointsOver, EndpointOver
  <2>4. CASE volume /\ r = Volume
    <3>1. file.volume
      BY <1>1, <2>4 DEF Named, Pod, Endpoint, Volume
    <3> QED BY <1>1, <2>1, <2>4, <3>1 DEF VolumeOver
  <2> QED BY <1>1, <2>2, <2>3, <2>4 DEF Billed
<1>2. ASSUME IInv, pc = "ended", NEW g \in state.pods, g \in Live
      PROVE  Pod(g) \in stuck
  BY <1>2 DEF IInv, PodsOver, PodOver
<1>3. IInv => TeardownComplete
  BY <1>1, <1>2 DEF TeardownComplete
<1> QED BY <1>3, AlwaysIInv, PTL

\* After a make up that succeeded, make down leaves nothing billing that it was
\* not refused, but for a volume that was never listed and for endpoints of the
\* model store that the manifest never named (modelstore.py's teardown).
THEOREM UpIsTornDown == Spec => []UpThenDown
<1>1. ASSUME IInv PROVE UpThenDown
  <2> SUFFICES ASSUME upDone, pc = "down", NEW r \in Billed
               PROVE  r \in stuck \cup (IF file.volume THEN {} ELSE {Volume})
                              \cup { Endpoint(m) : m \in Models \ file.endpoints }
    BY DEF UpThenDown
  <2>1. /\ TypeOK /\ FileKnown /\ EndpointsOver /\ PodsOver /\ VolumeOver /\ Accounted
    BY <1>1 DEF IInv
  <2>2. Mech \in Mechanisms
    BY <2>1 DEF TypeOK, Config, FileKnown, Mech
  <2>3. Readable /\ Live \subseteq file.pods
    BY <2>1, <2>2 DEF Accounted, Mechanisms
  <2>4. CASE \E g \in Live : r = Pod(g)
    BY <2>1, <2>3, <2>4 DEF PodsOver, PodOver
  <2>5. CASE \E l \in endpoints \ (IF Reusing THEN Models ELSE {}) : r = Endpoint(l)
    <3>1. PICK l \in endpoints \ (IF Reusing THEN Models ELSE {}) : r = Endpoint(l)
      BY <2>5
    <3>2. l \in Planned
      BY <2>1, <2>2, <3>1 DEF Accounted, Mechanisms
    <3>3. \/ l \in Owned(file) \/ l = Baseline
          \/ l \in Models \ file.endpoints
      BY <2>2, <3>2 DEF Owned, Planned, Mechanisms
    <3> QED BY <2>1, <2>2, <2>3, <3>1, <3>3 DEF EndpointsOver, EndpointOver, Mechanisms
  <2>6. CASE volume /\ r = Volume
    BY <2>1, <2>3, <2>6 DEF VolumeOver
  <2> QED BY <2>4, <2>5, <2>6 DEF Billed
<1> QED BY <1>1, AlwaysIInv, PTL

\* When a run of the model store is up, every model that the manifest gave an
\* endpoint is declared on it or reported as failed, unless the API has accepted
\* its declaration without carrying it out (modelstore.py's
\* declare_cached_models, which goes on after a failure).
THEOREM DeclarationsAreReported == Spec => []DeclaredOrReported
<1>1. IInv => DeclaredOrReported
  BY DEF IInv, DeclarationsKept, DeclaredOrReported
<1> QED BY <1>1, AlwaysIInv, PTL

\* No step undeploys an endpoint that the run only reuses.
THEOREM ReusedIsUntouched == Spec => ReusedUntouched
<1>1. ASSUME IInv, [Next]_vars, Reusing, Models \subseteq endpoints PROVE Models \subseteq endpoints'
  <2>1. Accounted /\ FileKnown /\ Mech = "modelstore"
    BY <1>1 DEF IInv, Reusing
  <2>2. Planned = {Baseline}
    BY <1>1, <2>1 DEF Planned
  <2>3. CASE UNCHANGED tbVars
    BY <1>1, <2>3 DEF tbVars
  <2>4. CASE Provision
    <3>1. endpoints \subseteq endpoints'
      <4> USE DEF Keep, Raise
      <4>1. CASE \/ Load \/ Validate \/ Save \/ Write \/ WriteFails \/ NoteFails \/ AwaitFails \/ Measure
                \/ Deploy \/ ReadFails \/ DeclareDone
        BY <4>1 DEF Load, Validate, Save, Write, WriteFails, NoteFails, AwaitFails, Measure,
                    Deploy, ReadFails, DeclareDone
      <4>2. ASSUME NEW g, Create(g) \/ CreateFails(g) \/ AwaitHealthy(g) PROVE endpoints' = endpoints
        BY <4>2 DEF Create, CreateFails, AwaitHealthy
      <4>3. ASSUME NEW made, NEW v, DeployFails(made, v) \/ ReadManifest(made)
            PROVE  endpoints \subseteq endpoints'
        BY <4>3 DEF DeployFails, ReadManifest
      <4>4. ASSUME NEW found, FindVolume(found) PROVE endpoints' = endpoints
        BY <4>4 DEF FindVolume
      <4>5. ASSUME NEW m, NEW ok, Declare(m, ok) PROVE endpoints' = endpoints
        BY <4>5 DEF Declare
      <4> QED BY <2>4, <4>1, <4>2, <4>3, <4>4, <4>5 DEF Provision
    <3> QED BY <1>1, <3>1
  <2>5. CASE TearingDown \/ Down \/ Kill
    <3>1. CASE Recover \/ Finally \/ Down \/ Kill \/ UndeployDone \/ TerminateDone
      BY <1>1, <3>1 DEF Recover, Finally, Down, Kill, UndeployDone, TerminateDone, Keep
    <3>2. ASSUME NEW l, NEW ok, Undeploy(l, ok) PROVE FALSE
      <4>1. l \in Owned(file) /\ Readable
        BY <2>1, <3>2 DEF Undeploy, Accounted, FileKnown, Readable
      <4>2. Owned(file) = file.endpoints \ {Baseline}
        BY <2>1 DEF Owned
      <4> QED BY <2>1, <2>2, <4>1, <4>2 DEF Accounted
    <3>3. ASSUME NEW g, NEW ok, Terminate(g, ok) PROVE endpoints' = endpoints
      BY <3>3 DEF Terminate
    <3>4. ASSUME NEW ok, UndeployBaseline(ok) \/ DeleteVolume(ok) PROVE Models \subseteq endpoints'
      BY <1>1, <3>4, LabelsAssumption DEF UndeployBaseline, DeleteVolume
    <3> QED BY <1>1, <2>5, <3>1, <3>2, <3>3, <3>4 DEF TearingDown
  <2>6. UNCHANGED vars => UNCHANGED tbVars
    BY DEF vars
  <2> QED BY <1>1, <2>3, <2>4, <2>5, <2>6, StepKinds, PodStep
<1>2. IInv /\ [Next]_vars => [(Reusing /\ Models \subseteq endpoints) => Models \subseteq endpoints']_vars
  BY <1>1
<1> QED BY <1>2, AlwaysIInv, PTL DEF Spec, ReusedUntouched
-----------------------------------------------------------------------------
(* Every step of the testbed is a step of the abstract fleet or stutters.  *)

Served == [g \in Groups |-> IF pod[g] = "serving" THEN peers[g] ELSE NoFile]

\* Steps of the fleet that change who serves, and with which peers, are those
\* of FullMesh.
LEMMA MeshStep == ASSUME IInv, [Next]_vars PROVE [Mesh!Next]_(Mesh!vars)
<1> FleetTypeOK /\ DiscoverySound
  BY DEF IInv, TypeOK
<1> USE DEF Served, FleetTypeOK
<1>mesh. /\ Mesh!vars = <<exposed, Served>>
         /\ Mesh!Next = \E g \in Groups : Mesh!Announce(g) \/ Mesh!Join(g) \/ Mesh!Leave(g)
  BY DEF Mesh!vars, Mesh!Next
<1>still. ASSUME exposed' = exposed, Served' = Served PROVE [Mesh!Next]_(Mesh!vars)
  BY <1>still DEF Mesh!vars
<1>1. CASE UNCHANGED fleetVars
  <2>1. exposed' = exposed /\ Served' = Served
    BY <1>1 DEF fleetVars
  <2> QED BY <2>1, <1>still
<1>2. ASSUME NEW g \in Groups, CreatePod(g) \/ Appear(g) \/ ExitNotReady(g) \/ Discover(g)
      PROVE  [Mesh!Next]_(Mesh!vars)
  <2>1. exposed' = exposed
    BY <1>2 DEF CreatePod, Appear, ExitNotReady, Discover
  <2>2. \A h \in Groups : (pod[h] = "serving" <=> pod'[h] = "serving")
                            /\ (pod[h] = "serving" => peers'[h] = peers[h])
    BY <1>2 DEF CreatePod, Appear, ExitNotReady, Discover, Configuring
  <2>3. Served' = Served
    BY <2>2
  <2> QED BY <2>1, <2>3, <1>still
<1>3. ASSUME NEW g \in Groups, NEW p \in Groups, ReadAddr(g, p) PROVE [Mesh!Next]_(Mesh!vars)
  <2>1. exposed' = exposed /\ Served' = Served
    BY <1>3 DEF ReadAddr
  <2> QED BY <2>1, <1>still
<1>4. ASSUME NEW g \in Groups, Expose(g) PROVE [Mesh!Next]_(Mesh!vars)
  <2>1. exposed' = exposed \cup {g} /\ Served' = Served
    BY <1>4 DEF Expose
  <2>2. Mesh!Announce(g)
    BY <2>1 DEF Mesh!Announce
  <2> QED BY <2>2, <1>mesh
<1>5. ASSUME NEW g \in Groups, Exec(g) PROVE [Mesh!Next]_(Mesh!vars)
  <2>1. exposed = Groups /\ peers[g] = Groups \ {g} /\ exposed' = exposed
    BY <1>5 DEF Exec, DiscoverySound
  <2>2. Served[g] = NoFile
    BY <1>5 DEF Exec
  <2>3. Served' = [Served EXCEPT ![g] = Groups \ {g}]
    BY <1>5, <2>1 DEF Exec
  <2>4. Mesh!Join(g)
    BY <2>1, <2>2, <2>3 DEF Mesh!Join
  <2> QED BY <2>4, <1>mesh
<1>6. ASSUME NEW g \in Groups, TerminatePod(g) PROVE [Mesh!Next]_(Mesh!vars)
  <2>1. exposed' = exposed
    BY <1>6 DEF TerminatePod
  <2>2. Served' = [Served EXCEPT ![g] = NoFile]
    BY <1>6 DEF TerminatePod, Live, Running
  <2>3. Mesh!Leave(g)
    BY <2>1, <2>2 DEF Mesh!Leave
  <2> QED BY <2>3, <1>mesh
<1> QED BY <1>1, <1>2, <1>3, <1>4, <1>5, <1>6, NextFleet DEF FleetStep, Entrypoint

\* The start-up of the pods (selfconfig.py), with whatever the controller does
\* to them meanwhile, implements the promise of FullMesh.
THEOREM MeshIsWhole == Spec => MeshWhole
<1>1. Init => Mesh!Init
  BY DEF Init, FleetInit, Mesh!Init
<1>2. IInv /\ [Next]_vars => [Mesh!Next]_(Mesh!vars)
  BY MeshStep
<1> QED BY <1>1, <1>2, AlwaysIInv, PTL DEF Spec, MeshWhole, Mesh!Spec
=============================================================================
