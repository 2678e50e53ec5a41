-------------------------- MODULE FleetApplyProofs --------------------------
(* Type correctness of FleetApply, that a run never has two of the          *)
(* controllers it found running down at once, and that no more of a         *)
(* profile's workers than its share are out of service at a time, for every *)
(* fleet, every concurrency setting and every pattern of failures and cuts; *)
(* and what a successful apply leaves on every host, for every history of   *)
(* runs that failed or were cut.                                            *)
EXTENDS FleetApply, FiniteSetTheorems, TLAPS

\* The controllers the run found running and that are down now.
Lost == Down(upAtStart)

\* The phase and the filters are ones the plan has.
InPlan ==
    /\ status \in {"prepare", "walk"} => pc \in 1..Len(Plan(command))
    /\ status = "walk" => \A g \in Groups : step[g] \in 1..Len(Filters(walk))

\* Only the two walks that restart controllers can have one down.
NoneLost ==
    /\ status = "prepare" => Lost = {}
    /\ status = "walk" /\ walk \notin {"upgradeC", "syncC"} => Lost = {}

StartStep == IF walk = "upgradeC" THEN 5 ELSE 4

\* While controllers are restarted the batch is one host, and the controller that
\* is down is in it until its start has succeeded.  After a failure it may stay
\* down, and no batch follows.
SerialWalk ==
    status = "walk" /\ walk \in {"upgradeC", "syncC"} =>
        /\ size[Everyone] = 1
        /\ \A g \in Groups : g # Everyone => rest[g] = {} /\ batch[g] = {}
        /\ \A c, d \in batch[Everyone] : c = d
        /\ bad[Everyone] => batch[Everyone] # {} \/ rest[Everyone] = {}
        /\ Lost \subseteq batch[Everyone] \/ (bad[Everyone] /\ batch[Everyone] = {})
        /\ ~bad[Everyone] /\ step[Everyone] > StartStep => Lost = {}
        /\ ~bad[Everyone] /\ step[Everyone] = StartStep => Lost \subseteq todo[Everyone]

\* The worker walks stop workers only.
WorkersOnly ==
    /\ status = "walk" /\ walk \in {"upgradeW", "checkW", "syncW"} =>
          \A g \in Groups : rest[g] \subseteq Workers /\ batch[g] \subseteq Workers
    /\ status = "prepare" /\ walk = "syncW" => picked \subseteq Workers
    /\ status = "walk" /\ walk = "checkW" => picked \subseteq Workers

FleetInv ==
    /\ TypeOK /\ InPlan /\ NoneLost /\ SerialWalk /\ WorkersOnly /\ RunStopsOneController

-----------------------------------------------------------------------------
(* The tables.                                                             *)

Walks == {"gather", "stage", "configure", "installC", "startC", "installW", "startW",
          "upgradeC", "upgradeW", "pending", "checkC", "syncC", "checkW", "syncW"}

\* The plan's entries are walks, and only the workers' check precedes their sync.
LEMMA PlanEntries ==
  ASSUME NEW c \in {"apply", "sync"}, NEW i \in 1..Len(Plan(c))
  PROVE  /\ Plan(c)[i] \in Walks
         /\ i + 1 \in 1..Len(Plan(c)) /\ Plan(c)[i + 1] = "syncW" => Plan(c)[i] = "checkW"
         /\ Plan(c)[i] = "syncW" => i # 1
  BY DEF Plan, Walks

\* Only the four restarting walks stop anything, and where they start it again.
LEMMA FilterEntries ==
  ASSUME NEW w \in Walks, NEW i \in 1..Len(Filters(w))
  PROVE  /\ w \notin {"upgradeC", "syncC", "upgradeW", "syncW"} => Filters(w)[i] # "stop"
         /\ w \notin {"checkC", "checkW"} => Filters(w)[i] # "check"
         /\ w = "upgradeC" => Len(Filters(w)) = 7 /\ (i = 5 <=> Filters(w)[i] = "start")
                              /\ (i = 2 <=> Filters(w)[i] = "stop")
         /\ w = "syncC" => Len(Filters(w)) = 6 /\ (i = 4 <=> Filters(w)[i] = "start")
                           /\ (i = 2 <=> Filters(w)[i] = "stop")
  BY DEF Filters, UpgradeFilters, SyncFilters, Walks

LEMMA FiltersNonEmpty ==
  ASSUME NEW w \in Walks
  PROVE  Len(Filters(w)) \in Nat /\ Len(Filters(w)) >= 1
  BY DEF Filters, UpgradeFilters, SyncFilters, Walks

LEMMA PlanNonEmpty ==
  ASSUME NEW c \in {"apply", "sync"}
  PROVE  Len(Plan(c)) \in Nat /\ Len(Plan(c)) >= 1
  BY DEF Plan

-----------------------------------------------------------------------------
(* Batches.                                                                *)

LEMMA HostSetsFinite ==
  ASSUME NEW S \in SUBSET Hosts
  PROVE  IsFiniteSet(S) /\ Cardinality(S) \in Nat
<1>1. IsFiniteSet(Hosts)
  BY FS_Interval, FleetApplyAssumption DEF Hosts
<1>2. IsFiniteSet(S)
  BY <1>1, FS_Subset
<1> QED
  BY <1>2, FS_CardinalityType

LEMMA ParseConcurrencyType ==
  ASSUME NEW c \in Settings, NEW total \in Nat
  PROVE  ParseConcurrency(c, total) \in Nat
<1>1. CASE c = Unset
  BY <1>1 DEF ParseConcurrency
<1>2. CASE c # Unset
  <2>1. c[2] \in Nat
    BY <1>2 DEF Settings
  <2>2. total * c[2] + 99 \in Nat
    BY <2>1
  <2>3. (total * c[2] + 99) \div 100 \in Nat
    BY <2>2
  <2> QED
    BY <1>2, <2>1, <2>3 DEF ParseConcurrency
<1> QED
  BY <1>1, <1>2

LEMMA GroupHostsType ==
  ASSUME NEW w, NEW S \in SUBSET Hosts, NEW g
  PROVE  GroupHosts(w, S, g) \in SUBSET S
  BY DEF GroupHosts

LEMMA BatchSizeType ==
  ASSUME NEW w, NEW S \in SUBSET Hosts, NEW g \in Groups
  PROVE  BatchSize(w, S, g) \in Nat
<1>1. Concurrency \in Nat
  BY FleetApplyAssumption
<1>2. ASSUME g \in Profiles
      PROVE  ResolveConcurrency(g, Cardinality(GroupHosts(w, S, g))) \in Nat
  <2>1. Cardinality(GroupHosts(w, S, g)) \in Nat
    BY GroupHostsType, HostSetsFinite
  <2>2. ProfileConcurrency[g] \in Settings /\ WorkerConcurrent \in Settings
    BY <1>2, FleetApplyAssumption
  <2> QED
    BY <2>1, <2>2, ParseConcurrencyType DEF ResolveConcurrency
<1> QED
  BY <1>1, <1>2 DEF BatchSize

\* A batch is part of the hosts that are left, and of size one when asked to be.
LEMMA BatchOfOne ==
  ASSUME NEW w, NEW R \in SUBSET Hosts, NEW n \in Nat, NEW b \in NextBatches(w, R, n)
  PROVE  /\ b \subseteq R
         /\ n = 1 => \A c, d \in b : c = d
<1>1. b \subseteq R
  BY DEF NextBatches
<1>2. ASSUME n = 1 PROVE \A c, d \in b : c = d
  <2>1. IsFiniteSet(b) /\ Cardinality(b) \in Nat
    BY <1>1, HostSetsFinite
  <2>2. Cardinality(b) <= 1
    <3>1. CASE Cardinality(R) <= 1
      BY <1>2, <2>1, <3>1 DEF NextBatches
    <3>2. CASE ~(Cardinality(R) <= 1)
      BY <1>2, <3>2 DEF NextBatches
    <3> QED
      BY <3>1, <3>2
  <2>3. CASE Cardinality(b) = 0
    BY <2>1, <2>3, FS_EmptySet
  <2>4. CASE Cardinality(b) = 1
    BY <2>1, <2>4, FS_Singleton
  <2> QED
    BY <2>1, <2>2, <2>3, <2>4
<1> QED
  BY <1>1, <1>2

-----------------------------------------------------------------------------
(* What a filter does to the services and to the phase's hosts.            *)

\* What any filter may do: types are kept, only h changes its service, only "stop"
\* takes a running engine down, and a "start" that succeeds leaves it up.
EffectOf(f, h, ok) ==
    /\ bin' \in [Hosts -> Nat] /\ up' \in [Hosts -> Nat]
    /\ node' \in [Hosts -> Nodes] /\ drift' \in [Hosts -> Drifts]
    /\ ver' \in [Hosts -> Nat]
    /\ staged' \in SUBSET Hosts /\ picked' \in SUBSET Hosts
    /\ picked' \subseteq picked \union {h}
    /\ \A k \in Hosts : k # h => up'[k] = up[k]
    /\ f # "stop" /\ up[h] # Stopped => up'[h] # Stopped
    /\ f = "start" /\ ok => up'[h] # Stopped

LEMMA DoEffect ==
  ASSUME TypeOK, NEW f, NEW h \in Hosts, NEW ok \in BOOLEAN, Do(f, h, ok)
  PROVE  EffectOf(f, h, ok)
<1> USE DEF EffectOf, TypeOK, Nodes, Drifts, hostVars, factVars, UnknownVersion, Stopped
<1>1. CASE f = "gather"
  BY <1>1 DEF Do, investigateHostDistro
<1>2. CASE f = "stage"
  BY <1>2 DEF Do, uploadFiles
<1>3. CASE f = "configure"
  BY <1>3 DEF Do, configureEngine
<1>4. CASE f = "install"
  BY <1>4, FleetApplyAssumption DEF Do, installPackages
<1>5. CASE f = "pending"
  BY <1>5, FleetApplyAssumption DEF Do, installPending, installPackages
<1>6. CASE f = "start"
  BY <1>6 DEF Do, startAndEnableService
<1>7. CASE f = "drain"
  BY <1>7 DEF Do, drainClusterNode
<1>8. CASE f = "stop"
  BY <1>8 DEF Do, stopService
<1>9. CASE f = "prestart"
  BY <1>9 DEF Do, preStartUpgrade
<1>10. CASE f = "ready"
  BY <1>10 DEF Do, waitNodeReady
<1>11. CASE f = "uncordon"
  BY <1>11 DEF Do, uncordonClusterNode
<1>12. CASE f = "write"
  BY <1>12 DEF Do, writeFiles
<1>13. CASE f = "check"
  BY <1>13 DEF Do, needsUpdate
<1> QED
  BY <1>1, <1>2, <1>3, <1>4, <1>5, <1>6, <1>7, <1>8, <1>9, <1>10, <1>11, <1>12, <1>13 DEF Do

-----------------------------------------------------------------------------
(* The invariant.                                                          *)

LEMMA FleetInit == Init => FleetInv
<1> SUFFICES ASSUME Init PROVE FleetInv
  OBVIOUS
<1>1. TypeOK
  <2>1. bin \in [Hosts -> Nat] /\ up \in [Hosts -> Nat]
    <3>1. {UnknownVersion} \union Installed \subseteq Nat
      BY FleetApplyAssumption DEF UnknownVersion
    <3> QED
      BY <3>1 DEF Init
  <2>2. node \in [Hosts -> Nodes] /\ ver \in [Hosts -> Nat]
    BY DEF Init, Nodes, UnknownVersion
  <2>3. drift \in [Hosts -> Drifts]
    BY FleetApplyAssumption DEF Init, Drifts
  <2>4. command \in {"apply", "sync"}
    BY FleetApplyAssumption DEF Init
  <2>5. rest \in [Groups -> SUBSET Hosts] /\ batch = rest /\ todo = rest
    BY DEF Init, NoHosts
  <2>6. size \in [Groups -> Nat] /\ step \in [Groups -> Nat \ {0}] /\ bad \in [Groups -> BOOLEAN]
    BY DEF Init
  <2> QED
    BY <2>1, <2>2, <2>3, <2>4, <2>5, <2>6 DEF Init, TypeOK, Statuses
<1>2. InPlan /\ NoneLost /\ SerialWalk /\ WorkersOnly /\ RunStopsOneController
  BY DEF Init, InPlan, NoneLost, SerialWalk, WorkersOnly, RunStopsOneController, Lost, Down
<1> QED
  BY <1>1, <1>2 DEF FleetInv

LEMMA StartRunStep ==
  ASSUME FleetInv, NEW c \in Commands, StartRun(c)
  PROVE  FleetInv'
<1> USE DEF FleetInv
<1>1. TypeOK'
  BY FleetApplyAssumption DEF StartRun, TypeOK, Statuses, NoHosts, hostVars, RunningControllers,
     UnknownVersion, NoLeader
<1>2. c \in {"apply", "sync"}
  BY FleetApplyAssumption
<1>3. InPlan' /\ SerialWalk'
  BY <1>2, PlanNonEmpty DEF StartRun, InPlan, SerialWalk
<1>4. NoneLost' /\ RunStopsOneController'
  BY DEF StartRun, NoneLost, RunStopsOneController, Lost, Down, RunningControllers, hostVars
<1>5. WorkersOnly'
  BY DEF StartRun, WorkersOnly
<1> QED
  BY <1>1, <1>3, <1>4, <1>5

\* A step that leaves the services and the run's history alone loses no controller.
LEMMA LostUnchanged ==
  ASSUME UNCHANGED <<up, upAtStart>>
  PROVE  Lost' = Lost /\ (RunStopsOneController => RunStopsOneController')
  BY DEF Lost, Down, RunStopsOneController

LEMMA CutStep ==
  ASSUME FleetInv, Cut
  PROVE  FleetInv'
<1>1. TypeOK'
  BY DEF FleetInv, Cut, TypeOK, Statuses, hostVars, factVars, walkVars
<1>2. RunStopsOneController'
  BY LostUnchanged DEF FleetInv, Cut, hostVars
<1>3. InPlan' /\ NoneLost' /\ SerialWalk' /\ WorkersOnly'
  BY DEF Cut, InPlan, NoneLost, SerialWalk, WorkersOnly
<1> QED
  BY <1>1, <1>2, <1>3 DEF FleetInv

LEMMA HostsOfType ==
  ASSUME NEW w
  PROVE  /\ HostsOf(w) \in SUBSET Hosts
         /\ w \in {"upgradeW", "checkW"} => HostsOf(w) \subseteq Workers
         /\ w = "syncW" => HostsOf(w) \subseteq picked
  BY DEF HostsOf

\* Moving on to the next phase of the plan.
LEMMA NextPhaseStep ==
  ASSUME TypeOK, InPlan, status \in {"prepare", "walk"}, NextPhase, Lost = {},
         UNCHANGED <<command, up, upAtStart>>,
         walk = "checkW" => picked' \subseteq Workers
  PROVE  /\ pc' \in Nat \ {0} /\ status' \in {"prepare", "ok"}
         /\ InPlan' /\ NoneLost' /\ SerialWalk' /\ WorkersOnly' /\ RunStopsOneController'
<1> USE DEF TypeOK
<1>1. pc \in 1..Len(Plan(command)) /\ Len(Plan(command)) \in Nat
  BY PlanNonEmpty DEF InPlan
<1>2. pc' \in Nat \ {0} /\ status' \in {"prepare", "ok"} /\ InPlan'
  BY <1>1 DEF NextPhase, InPlan
<1>3. Lost' = {}
  BY LostUnchanged
<1>4. NoneLost' /\ SerialWalk' /\ RunStopsOneController'
  BY <1>2, <1>3 DEF NoneLost, SerialWalk, RunStopsOneController, Lost
<1>5. ASSUME status' = "prepare", walk' = "syncW" PROVE walk = "checkW"
  <2>1. pc' = pc + 1 /\ pc + 1 \in 1..Len(Plan(command))
    BY <1>1, <1>5 DEF NextPhase
  <2> QED
    BY <1>1, <1>5, <2>1, PlanEntries DEF walk
<1>6. WorkersOnly'
  BY <1>2, <1>5 DEF WorkersOnly
<1> QED
  BY <1>2, <1>4, <1>6

LEMMA PrepareStep ==
  ASSUME FleetInv, Prepare
  PROVE  FleetInv'
<1> USE DEF FleetInv
<1> DEFINE S == HostsOf(walk)
<1>a. status = "prepare" /\ UNCHANGED <<up, upAtStart, command>> /\ Lost = {}
  BY DEF Prepare, hostVars, NoneLost
<1>b. S \in SUBSET Hosts
  BY HostsOfType
<1>1. CASE WantsLeader(walk) /\ RunningControllers = {}
  <2>1. status' = "err" /\ UNCHANGED <<pc, leader, picked, walkVars, out>>
    BY <1>1 DEF Prepare
  <2>2. TypeOK'
    BY <2>1 DEF Prepare, TypeOK, Statuses, hostVars, walkVars
  <2>3. InPlan' /\ NoneLost' /\ SerialWalk' /\ WorkersOnly'
    BY <2>1 DEF InPlan, NoneLost, SerialWalk, WorkersOnly
  <2> QED
    BY <1>a, <2>2, <2>3, LostUnchanged
<1>2. CASE ~(WantsLeader(walk) /\ RunningControllers = {})
  <2>1. leader' \in Controllers \union {NoLeader}
    BY <1>2 DEF Prepare, TypeOK, FirstOf, RunningControllers
  <2>2. picked' \in SUBSET Hosts /\ (walk = "checkW" => picked' = {})
    BY <1>2, <1>b DEF Prepare
  <2>3. CASE S = {}
    <3>1. NextPhase /\ UNCHANGED <<walkVars, out>>
      BY <1>2, <2>3 DEF Prepare
    <3>2. /\ pc' \in Nat \ {0} /\ status' \in {"prepare", "ok"}
          /\ InPlan' /\ NoneLost' /\ SerialWalk' /\ WorkersOnly' /\ RunStopsOneController'
      BY <1>a, <2>2, <3>1, NextPhaseStep
    <3>3. TypeOK'
      BY <2>1, <2>2, <3>1, <3>2 DEF Prepare, TypeOK, Statuses, hostVars, walkVars
    <3> QED
      BY <3>2, <3>3
  <2>4. CASE S # {}
    <3>1. /\ status' = "walk" /\ UNCHANGED pc
          /\ size' = [g \in Groups |-> BatchSize(walk, S, g)]
          /\ rest' = [g \in Groups |-> GroupHosts(walk, S, g)]
          /\ batch' = NoHosts /\ todo' = NoHosts
          /\ step' = [g \in Groups |-> 1] /\ bad' = [g \in Groups |-> FALSE]
          /\ out' = {}
      BY <1>2, <2>4 DEF Prepare
    <3>2. walk' = walk /\ Lost' = {} /\ RunStopsOneController'
      BY <1>a, <3>1, LostUnchanged DEF walk
    <3>3. size' \in [Groups -> Nat]
      BY <1>b, <3>1, BatchSizeType
    <3>4. \A g \in Groups : GroupHosts(walk, S, g) \in SUBSET S
      BY <1>b, GroupHostsType
    <3>5. rest' \in [Groups -> SUBSET Hosts]
      BY <1>b, <3>1, <3>4
    <3>6. batch' \in [Groups -> SUBSET Hosts] /\ todo' = batch'
      BY <3>1 DEF NoHosts
    <3>7. step' \in [Groups -> Nat \ {0}] /\ bad' \in [Groups -> BOOLEAN]
      BY <3>1
    <3>8. TypeOK'
      BY <2>1, <2>2, <3>1, <3>3, <3>5, <3>6, <3>7 DEF Prepare, TypeOK, Statuses, hostVars
    <3>9. InPlan'
      <4>1. walk \in Walks
        BY <1>a, PlanEntries DEF InPlan, TypeOK, walk
      <4>2. Len(Filters(walk)) \in Nat /\ Len(Filters(walk)) >= 1
        BY <4>1, FiltersNonEmpty
      <4> QED
        BY <1>a, <3>1, <3>2, <4>2 DEF InPlan
    <3>10. SerialWalk'
      <4>1. Everyone \in Groups
        BY DEF Groups
      <4>2. ASSUME walk \in {"upgradeC", "syncC"}
            PROVE  size'[Everyone] = 1 /\ \A g \in Groups : g # Everyone => rest'[g] = {}
        BY <3>1, <4>1, <4>2 DEF BatchSize, OneByOne, GroupHosts, ByProfile
      <4>3. \A g \in Groups : batch'[g] = {} /\ ~bad'[g] /\ step'[g] = 1
        BY <3>1 DEF NoHosts
      <4> QED
        BY <3>2, <4>1, <4>2, <4>3 DEF SerialWalk, StartStep
    <3>11. WorkersOnly'
      <4>1. walk \in {"upgradeW", "checkW", "syncW"} => S \subseteq Workers
        BY <1>a, HostsOfType DEF WorkersOnly
      <4>2. \A g \in Groups : rest'[g] \subseteq S /\ batch'[g] = {}
        BY <3>1, <3>4 DEF NoHosts
      <4> QED
        BY <2>2, <3>1, <3>2, <4>1, <4>2 DEF WorkersOnly
    <3> QED
      BY <3>2, <3>8, <3>9, <3>10, <3>11 DEF NoneLost
  <2> QED
    BY <2>3, <2>4
<1> QED
  BY <1>1, <1>2

LEMMA EndWalkStep ==
  ASSUME FleetInv, EndWalk
  PROVE  FleetInv'
<1> USE DEF FleetInv
<1>a. /\ status = "walk" /\ UNCHANGED <<up, upAtStart, command, picked>>
      /\ \A g \in Groups : batch[g] = {}
  BY DEF EndWalk, hostVars, factVars
<1>1. CASE \E g \in Groups : bad[g]
  <2>1. status' = "err" /\ UNCHANGED pc
    BY <1>1 DEF EndWalk
  <2>2. TypeOK'
    BY <2>1 DEF EndWalk, TypeOK, Statuses, hostVars, factVars, walkVars
  <2>3. InPlan' /\ NoneLost' /\ SerialWalk' /\ WorkersOnly'
    BY <2>1 DEF InPlan, NoneLost, SerialWalk, WorkersOnly
  <2> QED
    BY <1>a, <2>2, <2>3, LostUnchanged
<1>2. CASE ~\E g \in Groups : bad[g]
  <2>1. NextPhase
    BY <1>2 DEF EndWalk
  <2>2. Lost = {}
    <3>1. CASE walk \in {"upgradeC", "syncC"}
      BY <1>a, <1>2, <3>1 DEF SerialWalk, Groups
    <3>2. CASE walk \notin {"upgradeC", "syncC"}
      BY <1>a, <3>2 DEF NoneLost
    <3> QED
      BY <3>1, <3>2
  <2>3. walk = "checkW" => picked' \subseteq Workers
    BY <1>a DEF WorkersOnly
  <2>4. /\ pc' \in Nat \ {0} /\ status' \in {"prepare", "ok"}
        /\ InPlan' /\ NoneLost' /\ SerialWalk' /\ WorkersOnly' /\ RunStopsOneController'
    BY <1>a, <2>1, <2>2, <2>3, NextPhaseStep
  <2>5. TypeOK'
    BY <2>4 DEF EndWalk, TypeOK, Statuses, hostVars, factVars, walkVars
  <2> QED
    BY <2>4, <2>5
<1> QED
  BY <1>1, <1>2

LEMMA TakeBatchStep ==
  ASSUME FleetInv, NEW g \in Groups, TakeBatch(g)
  PROVE  FleetInv'
<1> USE DEF FleetInv
<1>1. PICK b \in NextBatches(walk, rest[g], size[g]) :
          /\ batch' = [batch EXCEPT ![g] = b]
          /\ todo' = [todo EXCEPT ![g] = b]
          /\ rest' = [rest EXCEPT ![g] = @ \ b]
  BY DEF TakeBatch
<1>2. /\ status = "walk" /\ batch[g] = {} /\ rest[g] # {}
      /\ step' = [step EXCEPT ![g] = 1]
      /\ UNCHANGED <<up, upAtStart, picked, size, bad, command, pc, status>>
  BY DEF TakeBatch, hostVars, factVars
<1>3. b \subseteq rest[g] /\ (size[g] = 1 => \A c, d \in b : c = d)
  BY BatchOfOne DEF TypeOK
<1>4. walk' = walk /\ Lost' = Lost /\ RunStopsOneController'
  BY <1>2, LostUnchanged DEF walk
<1>5. TypeOK'
  BY <1>1, <1>2, <1>3 DEF TakeBatch, TypeOK, hostVars, factVars
<1>6. InPlan'
  BY <1>2, <1>4 DEF InPlan, TypeOK
<1>7. NoneLost'
  BY <1>2, <1>4 DEF NoneLost
<1>8. SerialWalk'
  <2> SUFFICES ASSUME walk \in {"upgradeC", "syncC"} PROVE SerialWalk'
    BY <1>4 DEF SerialWalk
  <2>1. g = Everyone /\ size[g] = 1 /\ ~bad[g] /\ Lost = {}
    BY <1>2 DEF SerialWalk, TypeOK
  <2>2. batch'[g] = b /\ step'[g] = 1
    BY <1>1, <1>2 DEF TypeOK
  <2>3. \A k \in Groups : k # g => rest'[k] = rest[k] /\ batch'[k] = batch[k]
    BY <1>1 DEF TypeOK
  <2> QED
    BY <1>2, <1>3, <1>4, <2>1, <2>2, <2>3 DEF SerialWalk, StartStep
<1>9. WorkersOnly'
  BY <1>1, <1>2, <1>3, <1>4 DEF WorkersOnly, TypeOK
<1> QED
  BY <1>4, <1>5, <1>6, <1>7, <1>8, <1>9

LEMMA WaitStep ==
  ASSUME FleetInv, NEW g \in Groups, Wait(g)
  PROVE  FleetInv'
<1> USE DEF FleetInv
<1>1. /\ status = "walk" /\ batch[g] # {} /\ todo[g] = {}
      /\ UNCHANGED <<up, upAtStart, picked, size, bad, command, pc, status>>
  BY DEF Wait, hostVars, factVars
<1>2. walk' = walk /\ Lost' = Lost /\ RunStopsOneController' /\ NoneLost'
  BY <1>1, LostUnchanged DEF walk, NoneLost
<1>3. walk \in Walks /\ Len(Filters(walk)) \in Nat /\ step[g] \in 1..Len(Filters(walk))
  <2>1. walk \in Walks
    BY <1>1, PlanEntries DEF InPlan, TypeOK, walk
  <2> QED
    BY <1>1, <2>1, FiltersNonEmpty DEF InPlan
<1>4. CASE step[g] < Len(Filters(walk))
  <2>1. /\ step' = [step EXCEPT ![g] = @ + 1]
        /\ todo' = [todo EXCEPT ![g] = batch[g]]
        /\ UNCHANGED <<rest, batch>>
    BY <1>4 DEF Wait
  <2>2. TypeOK'
    BY <2>1 DEF Wait, TypeOK, hostVars, factVars
  <2>3. InPlan'
    BY <1>1, <1>2, <1>3, <1>4, <2>1 DEF InPlan, TypeOK
  <2>4. SerialWalk'
    <3> SUFFICES ASSUME walk \in {"upgradeC", "syncC"} PROVE SerialWalk'
      BY <1>2 DEF SerialWalk
    <3>1. g = Everyone /\ Lost \subseteq batch[g]
      BY <1>1 DEF SerialWalk
    <3>2. step'[g] = step[g] + 1 /\ todo'[g] = batch[g]
      BY <2>1 DEF TypeOK
    <3>3. step[g] \in Nat /\ StartStep \in Nat /\ StartStep' = StartStep
      BY <1>2, <1>3 DEF StartStep
    <3>4. ASSUME ~bad[g], step'[g] > StartStep PROVE Lost = {}
      BY <1>1, <3>1, <3>2, <3>3, <3>4 DEF SerialWalk
    <3> QED
      BY <1>1, <1>2, <2>1, <3>1, <3>2, <3>3, <3>4 DEF SerialWalk
  <2>5. WorkersOnly'
    BY <1>1, <1>2, <2>1 DEF WorkersOnly
  <2> QED
    BY <1>2, <2>2, <2>3, <2>4, <2>5
<1>5. CASE ~(step[g] < Len(Filters(walk)))
  <2>1. /\ batch' = [batch EXCEPT ![g] = {}]
        /\ rest' = [rest EXCEPT ![g] = IF bad[g] THEN {} ELSE @]
        /\ UNCHANGED <<step, todo>>
    BY <1>5 DEF Wait
  <2>2. TypeOK'
    BY <1>1, <2>1 DEF Wait, TypeOK, hostVars, factVars
  <2>3. InPlan'
    BY <1>1, <1>2, <2>1 DEF InPlan
  <2>4. SerialWalk'
    <3> SUFFICES ASSUME walk \in {"upgradeC", "syncC"} PROVE SerialWalk'
      BY <1>2 DEF SerialWalk
    <3>1. g = Everyone
      BY <1>1 DEF SerialWalk
    <3>2. step[g] \in Nat /\ step[g] > StartStep /\ StartStep' = StartStep
      <4> HIDE DEF FleetInv
      <4>1. StartStep' = StartStep
        BY <1>2 DEF StartStep
      <4>2. CASE walk = "upgradeC"
        <5>1. Len(Filters(walk)) = 7
          BY <1>3, <4>2, FilterEntries
        <5>2. step[g] = 7
          BY <1>3, <1>5, <5>1
        <5>3. StartStep = 5
          BY <4>2 DEF StartStep
        <5> QED
          BY <4>1, <5>2, <5>3
      <4>3. CASE walk = "syncC"
        <5>1. Len(Filters(walk)) = 6
          BY <1>3, <4>3, FilterEntries
        <5>2. step[g] = 6
          BY <1>3, <1>5, <5>1
        <5>3. StartStep = 4
          BY <4>3 DEF StartStep
        <5> QED
          BY <4>1, <5>2, <5>3
      <4> QED
        BY <4>2, <4>3
    <3>3. ~bad[g] => Lost = {}
      BY <1>1, <3>1, <3>2 DEF SerialWalk
    <3>4. batch'[g] = {} /\ (bad[g] => rest'[g] = {})
      BY <2>1 DEF TypeOK
    <3>5. \A k \in Groups : k # g => rest'[k] = rest[k] /\ batch'[k] = batch[k]
      BY <2>1 DEF TypeOK
    <3> QED
      BY <1>1, <1>2, <2>1, <3>1, <3>2, <3>3, <3>4, <3>5 DEF SerialWalk
  <2>5. WorkersOnly'
    BY <1>1, <1>2, <2>1 DEF WorkersOnly, TypeOK
  <2> QED
    BY <1>2, <2>2, <2>3, <2>4, <2>5
<1> QED
  BY <1>4, <1>5

LEMMA RunFilterStep ==
  ASSUME FleetInv, NEW g \in Groups, NEW h \in Hosts, RunFilter(g, h)
  PROVE  FleetInv'
<1> USE DEF FleetInv
<1> DEFINE f == Filters(walk)[step[g]]
<1>1. PICK ok \in BOOLEAN :
          /\ Do(f, h, ok)
          /\ bad' = [bad EXCEPT ![g] = @ \/ ~ok]
          /\ out' = IF f = "drain" THEN out \union {h}
                    ELSE IF f = "uncordon" /\ ok THEN out \ {h} ELSE out
  BY DEF RunFilter
<1>2. /\ status = "walk" /\ h \in todo[g] /\ h \in batch[g]
      /\ todo' = [todo EXCEPT ![g] = @ \ {h}]
      /\ UNCHANGED <<size, rest, batch, step, command, pc, status, leader, runs, upAtStart, stranded>>
  BY DEF RunFilter, TypeOK
<1>3. walk' = walk
  BY <1>2 DEF walk
<1>4. walk \in Walks /\ step[g] \in 1..Len(Filters(walk))
  BY <1>2, PlanEntries DEF InPlan, TypeOK, walk
<1>5. /\ bin' \in [Hosts -> Nat] /\ up' \in [Hosts -> Nat]
      /\ node' \in [Hosts -> Nodes] /\ drift' \in [Hosts -> Drifts]
      /\ ver' \in [Hosts -> Nat]
      /\ staged' \in SUBSET Hosts /\ picked' \in SUBSET Hosts
      /\ picked' \subseteq picked \union {h}
      /\ \A k \in Hosts : k # h => up'[k] = up[k]
      /\ f # "stop" /\ up[h] # Stopped => up'[h] # Stopped
      /\ f = "start" /\ ok => up'[h] # Stopped
  <2>1. TypeOK /\ Do(f, h, ok)
    BY <1>1
  <2> HIDE DEF f, FleetInv
  <2>2. EffectOf(f, h, ok)
    BY <2>1, DoEffect
  <2> QED
    BY <2>2 DEF EffectOf
<1>6. upAtStart \subseteq Hosts /\ upAtStart \subseteq Controllers
  BY FleetApplyAssumption DEF TypeOK
<1>7. /\ Lost' \subseteq Lost \union {h}
      /\ f # "stop" \/ h \in Workers => Lost' \subseteq Lost
      /\ f = "start" /\ ok => h \notin Lost'
  BY <1>2, <1>5, <1>6 DEF Lost, Down, Workers
<1>8. TypeOK'
  <2>1. bad' \in [Groups -> BOOLEAN]
    BY <1>1 DEF TypeOK
  <2>2. out' \in SUBSET Hosts
    BY <1>1 DEF TypeOK
  <2>3. todo' \in [Groups -> SUBSET Hosts] /\ \A k \in Groups : todo'[k] \subseteq batch'[k]
    BY <1>2 DEF TypeOK
  <2> QED
    BY <1>2, <1>5, <2>1, <2>2, <2>3 DEF TypeOK
<1>9. InPlan'
  BY <1>2, <1>3 DEF InPlan
<1>10. WorkersOnly'
  BY <1>2, <1>3, <1>5 DEF WorkersOnly
<1>11. CASE walk \in {"upgradeC", "syncC"}
  <2>1. g = Everyone /\ Lost \subseteq batch[g] /\ batch[g] # {}
    BY <1>2, <1>11 DEF SerialWalk
  <2>2. Lost' \subseteq batch[g]
    BY <1>2, <1>7, <2>1
  <2>3. RunStopsOneController'
    <3>1. \A c, d \in batch[g] : c = d
      BY <1>2, <1>11, <2>1 DEF SerialWalk
    <3> QED
      BY <2>2, <3>1 DEF RunStopsOneController, Lost
  <2>4. bad'[g] = (bad[g] \/ ~ok) /\ todo'[g] = todo[g] \ {h}
    BY <1>1, <1>2 DEF TypeOK
  <2>5. /\ StartStep' = StartStep /\ StartStep \in {4, 5} /\ step[g] \in Nat
        /\ step[g] = StartStep => f = "start"
        /\ step[g] >= StartStep => f # "stop"
    BY <1>3, <1>4, <1>11, FilterEntries DEF StartStep
  <2>6. ASSUME ~bad'[g], step[g] > StartStep PROVE Lost' = {}
    <3>1. Lost = {}
      BY <1>2, <1>11, <2>1, <2>4, <2>6 DEF SerialWalk
    <3>2. f # "stop"
      BY <2>5, <2>6
    <3> QED
      BY <1>7, <3>1, <3>2
  <2>7. ASSUME ~bad'[g], step[g] = StartStep PROVE Lost' \subseteq todo'[g]
    <3>1. Lost \subseteq todo[g]
      BY <1>2, <1>11, <2>1, <2>4, <2>7 DEF SerialWalk
    <3>2. Lost' \subseteq Lost /\ h \notin Lost'
      BY <1>7, <2>4, <2>5, <2>7
    <3> QED
      BY <2>4, <3>1, <3>2
  <2>8. SerialWalk'
    BY <1>2, <1>3, <1>11, <2>1, <2>2, <2>5, <2>6, <2>7 DEF SerialWalk
  <2>9. NoneLost'
    BY <1>2, <1>3, <1>11 DEF NoneLost
  <2> QED
    BY <1>8, <1>9, <1>10, <2>3, <2>8, <2>9
<1>12. CASE walk \notin {"upgradeC", "syncC"}
  <2>1. Lost = {}
    BY <1>2, <1>12 DEF NoneLost
  <2>2. f # "stop" \/ h \in Workers
    <3>1. CASE walk \in {"upgradeW", "syncW"}
      BY <1>2, <3>1 DEF WorkersOnly
    <3>2. CASE walk \notin {"upgradeW", "syncW"}
      BY <1>4, <1>12, <3>2, FilterEntries
    <3> QED
      BY <3>1, <3>2
  <2>3. Lost' = {}
    BY <1>7, <2>1, <2>2
  <2>4. NoneLost' /\ RunStopsOneController'
    BY <2>3 DEF NoneLost, RunStopsOneController, Lost
  <2>5. SerialWalk'
    BY <1>3, <1>12 DEF SerialWalk
  <2> QED
    BY <1>8, <1>9, <1>10, <2>4, <2>5
<1> QED
  BY <1>11, <1>12

LEMMA StutterStep ==
  ASSUME FleetInv, UNCHANGED vars
  PROVE  FleetInv'
<1>1. UNCHANGED <<hostVars, factVars, walkVars, command, pc, status, leader,
                  runs, upAtStart, out, stranded>>
  BY DEF vars
<1>2. TypeOK'
  BY <1>1 DEF FleetInv, TypeOK, hostVars, factVars, walkVars
<1>3. walk' = walk /\ Lost' = Lost /\ RunStopsOneController'
  BY <1>1, LostUnchanged DEF FleetInv, walk, hostVars
<1>4. InPlan' /\ NoneLost' /\ SerialWalk' /\ WorkersOnly'
  BY <1>1, <1>3 DEF FleetInv, InPlan, NoneLost, SerialWalk, StartStep, WorkersOnly,
     factVars, walkVars
<1> QED
  BY <1>2, <1>3, <1>4 DEF FleetInv

\* Whatever runs, fails or is cut, the invariant holds.
LEMMA FleetInvariant == Spec => []FleetInv
<1>1. FleetInv /\ [Next]_vars => FleetInv'
  BY StartRunStep, PrepareStep, EndWalkStep, CutStep, TakeBatchStep, WaitStep, RunFilterStep,
     StutterStep DEF Next
<1> QED
  BY <1>1, FleetInit, PTL DEF Spec

\* The state of a run keeps its type: a batch in progress is made of hosts, and
\* the hosts that have not finished a filter are hosts of the batch.
THEOREM FleetTypeCorrect == Spec => []TypeOK
<1>1. FleetInv => TypeOK
  BY DEF FleetInv
<1> QED
  BY <1>1, FleetInvariant, PTL

\* For every fleet, every concurrency setting and every pattern of failures and
\* cuts: of the controllers that ran when a run of apply or engine-config sync
\* started, the run has at most one down (66_upgrade_controller.go's and
\* 71_engine_config_sync_controller.go's batches of one, and the error that ends a walk).
THEOREM OneControllerDown == Spec => []RunStopsOneController
<1>1. FleetInv => RunStopsOneController
  BY DEF FleetInv
<1> QED
  BY <1>1, FleetInvariant, PTL
-----------------------------------------------------------------------------
(* Hosts out of service.                                                   *)

DrainWalks == {"upgradeC", "upgradeW", "syncC", "syncW"}

\* The hosts of group g that the walk has begun to drain and not put back.
OutOf(g) == GroupHosts(walk, out, g)

\* Only the current batch of a group is out of service; when its last filter, the
\* uncordon, has succeeded on every host nothing is.  After a failure what is out
\* stays out, and no batch follows.
OutInBatch(g) ==
    /\ batch[g] \union rest[g] \subseteq GroupHosts(walk, Hosts, g)
    /\ bad[g] => batch[g] # {} \/ rest[g] = {}
    /\ OutOf(g) \subseteq batch[g] \/ (bad[g] /\ batch[g] = {})
    /\ ~bad[g] /\ step[g] = Len(Filters(walk)) => OutOf(g) \subseteq todo[g]

OutInv ==
    /\ status = "prepare" => out = {}
    /\ status \in {"walk", "err", "cut"} /\ walk \notin DrainWalks => out = {}
    /\ status = "walk" => \A g \in Groups : OutInBatch(g)

\* The workers of a profile.
Members(p) == {h \in Workers : ProfileOf[h] = p}

\* A worker walk's batches, and what is out of service, keep to the profile's share.
ShareInv ==
    /\ status = "walk" /\ walk \in {"upgradeW", "syncW"} =>
          \A p \in Profiles :
              /\ IF size[p] = 0 THEN Share(p) = Cardinality(Members(p)) ELSE size[p] <= Share(p)
              /\ Cardinality(batch[p]) <= Share(p)
    /\ status \in {"walk", "err", "cut"} /\ walk \in {"upgradeW", "syncW"} =>
          \A p \in Profiles : Cardinality(OutOf(p)) <= Share(p)

\* Every host is of one group of a walk.
LEMMA OneGroup ==
  ASSUME NEW w, NEW S \in SUBSET Hosts
  PROVE  /\ \A g \in Groups : GroupHosts(w, S, g) \subseteq S
         /\ \A h \in S : \E g \in Groups : h \in GroupHosts(w, S, g)
         /\ \A g, k \in Groups : \A h \in Hosts :
               h \in GroupHosts(w, Hosts, g) /\ g # k => h \notin GroupHosts(w, S, k)
         /\ \A g \in Groups, T \in SUBSET S : GroupHosts(w, T, g) \subseteq GroupHosts(w, S, g)
<1>1. \A h \in S : ProfileOf[h] \in Groups
  BY FleetApplyAssumption DEF Groups
<1> QED
  BY <1>1 DEF GroupHosts, Groups

\* The filters at the two ends of a walk.
LEMMA DrainEnds ==
  ASSUME NEW w \in Walks
  PROVE  /\ w \in DrainWalks => /\ Len(Filters(w)) \in {6, 7}
                                /\ Filters(w)[Len(Filters(w))] = "uncordon"
                                /\ \A i \in 1..Len(Filters(w)) : Filters(w)[i] = "drain" => i = 1
         /\ w \notin DrainWalks => Len(Filters(w)) = 1 /\ Filters(w)[1] # "drain"
  BY DEF Walks, DrainWalks, Filters, UpgradeFilters, SyncFilters

\* A walk that has put back what it drained moves on with nothing out of service.
LEMMA NextPhaseOut ==
  ASSUME NextPhase, out' = {}
  PROVE  OutInv'
  BY DEF NextPhase, OutInv

LEMMA OutPrepare ==
  ASSUME FleetInv, OutInv, Prepare
  PROVE  OutInv'
<1> DEFINE S == HostsOf(walk)
<1>0. status = "prepare" /\ command' = command /\ out = {} /\ S \in SUBSET Hosts
  BY HostsOfType DEF Prepare, OutInv
<1>1. CASE status' = "err" /\ out' = out
  BY <1>0, <1>1 DEF OutInv
<1>2. CASE NextPhase /\ out' = out
  BY <1>0, <1>2, NextPhaseOut
<1>3. CASE /\ status' = "walk" /\ UNCHANGED pc
           /\ rest' = [g \in Groups |-> GroupHosts(walk, S, g)]
           /\ batch' = NoHosts /\ todo' = NoHosts /\ bad' = [g \in Groups |-> FALSE]
           /\ out' = {}
  <2>1. walk' = walk
    BY <1>0, <1>3 DEF walk
  <2>2. ASSUME NEW g \in Groups PROVE OutInBatch(g)'
    <3>1. batch'[g] = {} /\ todo'[g] = {} /\ ~bad'[g] /\ rest'[g] = GroupHosts(walk, S, g)
      BY <1>3 DEF NoHosts
    <3>2. rest'[g] \subseteq GroupHosts(walk, Hosts, g) /\ GroupHosts(walk, {}, g) = {}
      BY <1>0, <3>1, OneGroup
    <3> QED
      BY <1>3, <2>1, <3>1, <3>2 DEF OutInBatch, OutOf
  <2> QED
    BY <1>3, <2>2 DEF OutInv
<1> QED
  BY <1>1, <1>2, <1>3 DEF Prepare, walkVars

LEMMA OutEndWalk ==
  ASSUME FleetInv, OutInv, EndWalk
  PROVE  OutInv'
<1>0. /\ status = "walk" /\ UNCHANGED <<command, out>> /\ out \in SUBSET Hosts
      /\ \A g \in Groups : batch[g] = {}
  BY DEF EndWalk, FleetInv, TypeOK
<1>1. CASE status' = "err" /\ UNCHANGED pc
  BY <1>0, <1>1 DEF OutInv, walk
<1>2. CASE NextPhase /\ ~\E g \in Groups : bad[g]
  <2>1. \A g \in Groups : OutOf(g) = {}
    BY <1>0, <1>2 DEF OutInv, OutInBatch
  <2>2. out = {}
    BY <1>0, <2>1, OneGroup DEF OutOf
  <2> QED
    BY <1>0, <1>2, <2>2, NextPhaseOut
<1> QED
  BY <1>1, <1>2 DEF EndWalk

\* A filter of group g puts no host of another group out of service.
LEMMA OutOfElsewhere ==
  ASSUME NEW g \in Groups, NEW k \in Groups, k # g, UNCHANGED <<command, pc>>,
         out' = out \/ \E h \in GroupHosts(walk, Hosts, g) : out' \in {out \union {h}, out \ {h}}
  PROVE  OutOf(k)' = OutOf(k)
<1>1. walk' = walk
  BY DEF walk
<1>2. CASE out' = out
  BY <1>1, <1>2 DEF OutOf
<1>3. ASSUME NEW h \in GroupHosts(walk, Hosts, g), out' \in {out \union {h}, out \ {h}}
      PROVE  OutOf(k)' = OutOf(k)
  <2>1. h \in Hosts /\ h \notin GroupHosts(walk, Hosts, k)
    BY <1>3, OneGroup
  <2> QED
    BY <1>1, <1>3, <2>1 DEF OutOf, GroupHosts
<1> QED
  BY <1>2, <1>3

\* What a step of group g need not look at.
LEMMA OutElsewhere ==
  ASSUME FleetInv, OutInv, status = "walk", NEW g \in Groups, NEW k \in Groups, k # g,
         UNCHANGED <<command, pc>>,
         batch'[k] = batch[k], rest'[k] = rest[k], bad'[k] = bad[k], step'[k] = step[k], todo'[k] = todo[k],
         out' = out \/ \E h \in GroupHosts(walk, Hosts, g) : out' \in {out \union {h}, out \ {h}}
  PROVE  OutInBatch(k)'
<1>1. walk' = walk
  BY DEF walk
<1>2. OutOf(k)' = OutOf(k)
  BY OutOfElsewhere
<1>3. OutInBatch(k)
  BY DEF OutInv
<1> QED
  BY <1>1, <1>2, <1>3 DEF OutInBatch

LEMMA OutTakeBatch ==
  ASSUME FleetInv, OutInv, NEW g \in Groups, TakeBatch(g)
  PROVE  OutInv'
<1> USE DEF FleetInv
<1>1. PICK b \in NextBatches(walk, rest[g], size[g]) :
          /\ batch' = [batch EXCEPT ![g] = b]
          /\ todo' = [todo EXCEPT ![g] = b]
          /\ rest' = [rest EXCEPT ![g] = @ \ b]
  BY DEF TakeBatch
<1>2. /\ status = "walk" /\ batch[g] = {} /\ rest[g] # {}
      /\ step' = [step EXCEPT ![g] = 1]
      /\ UNCHANGED <<bad, command, pc, status, out>>
  BY DEF TakeBatch
<1>3. b \subseteq rest[g]
  BY BatchOfOne DEF TypeOK
<1>4. walk' = walk
  BY <1>2 DEF walk
<1>5. OutInBatch(g)'
  <2>1. ~bad[g] /\ OutOf(g) = {} /\ rest[g] \subseteq GroupHosts(walk, Hosts, g)
    BY <1>2 DEF OutInv, OutInBatch
  <2>2. OutOf(g)' = OutOf(g)
    BY <1>2, <1>4 DEF OutOf
  <2>3. batch'[g] = b /\ rest'[g] = rest[g] \ b
    BY <1>1 DEF TypeOK
  <2> QED
    BY <1>2, <1>3, <1>4, <2>1, <2>2, <2>3 DEF OutInBatch
<1>6. ASSUME NEW k \in Groups, k # g PROVE OutInBatch(k)'
  <2>1. /\ batch'[k] = batch[k] /\ rest'[k] = rest[k] /\ bad'[k] = bad[k]
        /\ step'[k] = step[k] /\ todo'[k] = todo[k]
    BY <1>1, <1>2, <1>6 DEF TypeOK
  <2> QED
    BY <1>2, <1>6, <2>1, OutElsewhere
<1> QED
  BY <1>2, <1>4, <1>5, <1>6 DEF OutInv

LEMMA OutWait ==
  ASSUME FleetInv, OutInv, NEW g \in Groups, Wait(g)
  PROVE  OutInv'
<1> USE DEF FleetInv
<1>1. /\ status = "walk" /\ batch[g] # {} /\ todo[g] = {}
      /\ UNCHANGED <<bad, command, pc, status, out>>
  BY DEF Wait
<1>2. walk' = walk
  BY <1>1 DEF walk
<1>3. OutOf(g)' = OutOf(g) /\ OutOf(g) \subseteq batch[g] /\ batch[g] \union rest[g] \subseteq GroupHosts(walk, Hosts, g)
  BY <1>1, <1>2 DEF OutOf, OutInv, OutInBatch
<1>4. OutInBatch(g)'
  <2>1. CASE /\ step' = [step EXCEPT ![g] = @ + 1]
             /\ todo' = [todo EXCEPT ![g] = batch[g]]
             /\ UNCHANGED <<rest, batch>>
    <3>1. todo'[g] = batch[g]
      BY <2>1 DEF TypeOK
    <3> QED
      BY <1>1, <1>2, <1>3, <2>1, <3>1 DEF OutInBatch
  <2>2. CASE /\ ~(step[g] < Len(Filters(walk)))
             /\ batch' = [batch EXCEPT ![g] = {}]
             /\ rest' = [rest EXCEPT ![g] = IF bad[g] THEN {} ELSE @]
             /\ UNCHANGED <<step, todo>>
    <3>1. batch'[g] = {} /\ rest'[g] \subseteq rest[g] /\ (bad[g] => rest'[g] = {})
      BY <2>2 DEF TypeOK
    <3>2. step[g] = Len(Filters(walk))
      <4>1. walk \in Walks
        BY <1>1, PlanEntries DEF InPlan, TypeOK, walk
      <4>2. Len(Filters(walk)) \in Nat /\ step[g] \in 1..Len(Filters(walk))
        BY <1>1, <4>1, FiltersNonEmpty DEF InPlan
      <4> HIDE DEF FleetInv
      <4> QED
        BY <2>2, <4>2
    <3>3. ~bad[g] => OutOf(g) = {}
      BY <1>1, <3>2 DEF OutInv, OutInBatch
    <3> QED
      BY <1>1, <1>2, <1>3, <2>2, <3>1, <3>3 DEF OutInBatch
  <2> QED
    BY <2>1, <2>2 DEF Wait
<1>5. ASSUME NEW k \in Groups, k # g PROVE OutInBatch(k)'
  <2>1. /\ batch'[k] = batch[k] /\ rest'[k] = rest[k] /\ bad'[k] = bad[k]
        /\ step'[k] = step[k] /\ todo'[k] = todo[k]
    BY <1>1, <1>5 DEF Wait, TypeOK
  <2> QED
    BY <1>1, <1>5, <2>1, OutElsewhere
<1> QED
  BY <1>1, <1>2, <1>4, <1>5 DEF OutInv

LEMMA OutRunFilter ==
  ASSUME FleetInv, OutInv, NEW g \in Groups, NEW h \in Hosts, RunFilter(g, h)
  PROVE  OutInv'
<1> USE DEF FleetInv
<1> DEFINE f == Filters(walk)[step[g]]
<1>1. PICK ok \in BOOLEAN :
          /\ bad' = [bad EXCEPT ![g] = @ \/ ~ok]
          /\ out' = IF f = "drain" THEN out \union {h}
                    ELSE IF f = "uncordon" /\ ok THEN out \ {h} ELSE out
  BY DEF RunFilter
<1>2. /\ status = "walk" /\ h \in todo[g] /\ h \in batch[g]
      /\ todo' = [todo EXCEPT ![g] = @ \ {h}]
      /\ UNCHANGED <<rest, batch, step, command, pc, status>>
  BY DEF RunFilter, TypeOK
<1>3. walk' = walk
  BY <1>2 DEF walk
<1>4. walk \in Walks /\ step[g] \in 1..Len(Filters(walk))
  BY <1>2, PlanEntries DEF InPlan, TypeOK, walk
<1>5. h \in GroupHosts(walk, Hosts, g) /\ OutInBatch(g)
  BY <1>2 DEF OutInv, OutInBatch
<1>6. bad'[g] = (bad[g] \/ ~ok) /\ todo'[g] = todo[g] \ {h} /\ bad \in [Groups -> BOOLEAN]
  BY <1>1, <1>2 DEF TypeOK
<1>7. /\ walk \notin DrainWalks => f # "drain" /\ out = {}
      /\ walk \in DrainWalks /\ step[g] = Len(Filters(walk)) => f = "uncordon"
      /\ walk \in DrainWalks /\ f = "drain" => step[g] # Len(Filters(walk))
  <2>1. ASSUME walk \notin DrainWalks PROVE step[g] = 1
    <3> HIDE DEF FleetInv, f
    <3>1. Len(Filters(walk)) = 1
      BY <1>4, <2>1, DrainEnds
    <3>2. step[g] \in 1..1
      BY <1>4, <3>1
    <3> QED
      BY <3>2
  <2> QED
    BY <1>2, <1>4, <2>1, DrainEnds DEF OutInv
<1>8. walk \notin DrainWalks => out' = {}
  BY <1>1, <1>7
<1>9. OutOf(g)' \subseteq OutOf(g) \union {h}
      /\ (f # "drain" => OutOf(g)' \subseteq OutOf(g))
      /\ (f = "uncordon" /\ ok => h \notin OutOf(g)')
  BY <1>1, <1>3 DEF OutOf, GroupHosts
<1> HIDE DEF f
<1>10. OutInBatch(g)'
  <2>1. OutOf(g)' \subseteq batch[g]
    BY <1>2, <1>5, <1>9 DEF OutInBatch
  <2>2. ASSUME ~bad'[g], step[g] = Len(Filters(walk)) PROVE OutOf(g)' \subseteq todo'[g]
    <3>1. OutOf(g) \subseteq todo[g] /\ ok
      BY <1>5, <1>6, <2>2 DEF OutInBatch
    <3>2. CASE walk \in DrainWalks
      BY <1>6, <1>7, <1>9, <2>2, <3>1, <3>2
    <3>3. CASE walk \notin DrainWalks
      <4>1. OutOf(g)' = {}
        BY <1>8, <3>3 DEF OutOf, GroupHosts
      <4> QED
        BY <4>1
    <3> QED
      BY <3>2, <3>3
  <2> QED
    BY <1>2, <1>3, <1>5, <2>1, <2>2 DEF OutInBatch
<1>11. ASSUME NEW k \in Groups, k # g PROVE OutInBatch(k)'
  <2>1. /\ batch'[k] = batch[k] /\ rest'[k] = rest[k] /\ bad'[k] = bad[k]
        /\ step'[k] = step[k] /\ todo'[k] = todo[k]
    BY <1>1, <1>2, <1>11 DEF TypeOK
  <2>2. out' = out \/ out' \in {out \union {h}, out \ {h}}
    BY <1>1
  <2> QED
    BY <1>2, <1>5, <1>11, <2>1, <2>2, OutElsewhere
<1> QED
  BY <1>2, <1>3, <1>8, <1>10, <1>11 DEF OutInv

\* Every step keeps OutInv.
LEMMA OutStep == FleetInv /\ OutInv /\ [Next]_vars => OutInv'
<1> SUFFICES ASSUME FleetInv, OutInv, [Next]_vars PROVE OutInv'
  OBVIOUS
<1>1. ASSUME NEW c \in Commands, StartRun(c) PROVE OutInv'
  BY <1>1 DEF StartRun, OutInv
<1>2. CASE Cut
  BY <1>2 DEF Cut, OutInv, walk
<1>3. CASE UNCHANGED vars
  BY <1>3 DEF vars, walkVars, OutInv, OutInBatch, OutOf, walk
<1> QED
  BY <1>1, <1>2, <1>3, OutPrepare, OutEndWalk, OutTakeBatch, OutWait, OutRunFilter DEF Next

-----------------------------------------------------------------------------
(* The share of a profile.                                                 *)

\* The parts of a larger set are no more than the set.
LEMMA CardinalityGrows ==
  ASSUME NEW S \in SUBSET Hosts, NEW T \in SUBSET S
  PROVE  Cardinality(T) \in Nat /\ Cardinality(S) \in Nat /\ Cardinality(T) <= Cardinality(S)
<1>1. IsFiniteSet(S) /\ Cardinality(S) \in Nat /\ Cardinality(T) \in Nat
  BY HostSetsFinite
<1> QED
  BY <1>1, FS_Subset

\* Percentages are rounded up.
LEMMA RoundedUp ==
  ASSUME NEW x \in Nat, NEW total \in Nat, x <= 100 * total
  PROVE  LET n == (x + 99) \div 100 IN
         /\ n \in Nat /\ 100 * n >= x /\ 100 * n <= x + 99 /\ n <= total
<1> DEFINE n == (x + 99) \div 100
<1>1. n \in Nat /\ 100 * n <= x + 99 /\ x + 99 < 100 * n + 100
  OBVIOUS
<1> HIDE DEF n
<1>2. 100 * n >= x /\ n <= total
  BY <1>1
<1> QED
  BY <1>1, <1>2 DEF n

\* A smaller number of hosts has a smaller percentage.
LEMMA PercentGrows ==
  ASSUME NEW t \in Nat, NEW total \in Nat, t <= total, NEW q \in 0..100
  PROVE  t * q \in Nat /\ total * q \in Nat /\ t * q <= total * q
         /\ total * q <= 100 * total /\ t * q <= 100 * total
<1>1. q \in Nat /\ q <= 100
  OBVIOUS
<1> QED
  BY <1>1, SMTT(30)

\* The setting that ResolveConcurrency finds for a profile.
LEMMA SettingType ==
  ASSUME NEW p \in Profiles
  PROVE  Setting(p) \in Settings /\ \A t : ResolveConcurrency(p, t) = ParseConcurrency(Setting(p), t)
  BY FleetApplyAssumption DEF Setting, ResolveConcurrency

\* A batch sized for some of a profile's workers keeps to the share of all of them:
\* the smallest number that is the configured part.
LEMMA BatchWithinShare ==
  ASSUME NEW p \in Profiles, NEW t \in Nat, t <= Cardinality(Members(p))
  PROVE  /\ Share(p) \in Nat
         /\ LET n == ResolveConcurrency(p, t) IN
            IF n = 0 THEN Share(p) = Cardinality(Members(p)) ELSE n <= Share(p)
<1> DEFINE total == Cardinality(Members(p))
           s == Setting(p)
           n == ResolveConcurrency(p, t)
<1>1. total \in Nat
  BY CardinalityGrows DEF Members, Workers
<1>2. s \in Settings /\ n = ParseConcurrency(s, t)
  BY SettingType
<1>3. CASE s \in {Unset, <<"count", 0>>}
  <2>1. Share(p) = total
    BY <1>3 DEF Share, Members
  <2>2. n = 0
    BY <1>2, <1>3 DEF ParseConcurrency, Unset
  <2> QED
    BY <1>1, <2>1, <2>2
<1>4. CASE s \notin {Unset, <<"count", 0>>} /\ s[1] = "count"
  <2>1. Share(p) = s[2]
    BY <1>4 DEF Share
  <2>2. s[2] \in Nat /\ s = <<"count", s[2]>>
    BY <1>2, <1>4 DEF Settings
  <2>3. n = s[2] /\ n # 0
    BY <1>2, <1>4, <2>2 DEF ParseConcurrency
  <2> QED
    BY <2>1, <2>2, <2>3
<1>5. CASE s \notin {Unset, <<"count", 0>>} /\ s[1] # "count"
  <2> DEFINE q == s[2]
             IsShare(m) == 100 * m >= total * q /\ \A k \in 1..(m - 1) : 100 * k < total * q
  <2>1. q \in 0..100 /\ s # Unset
    BY <1>2, <1>5 DEF Settings
  <2>2. t * q \in Nat /\ total * q \in Nat /\ t * q <= total * q
        /\ total * q <= 100 * total /\ t * q <= 100 * total
    BY <1>1, <2>1, PercentGrows
  <2>3. Share(p) = CHOOSE m \in 1..(total + 1) : IsShare(m)
    BY <1>5 DEF Share, Members
  <2>4. \E m \in 1..(total + 1) : IsShare(m)
    <3> DEFINE x == total * q
               r == (x + 99) \div 100
    <3>1. x \in Nat /\ x <= 100 * total
      BY <2>2
    <3>2. r \in Nat /\ 100 * r >= x /\ 100 * r <= x + 99 /\ r <= total
      BY <1>1, <3>1, RoundedUp
    <3> HIDE DEF x, r, total
    <3>3. CASE r >= 1
      <4>1. \A k \in 1..(r - 1) : 100 * k < x
        BY <3>1, <3>2
      <4>2. r \in 1..(total + 1)
        BY <1>1, <3>2, <3>3
      <4> QED
        BY <3>2, <4>1, <4>2 DEF x
    <3>4. CASE r = 0
      <4>1. 100 * 1 >= x /\ \A k \in 1..(1 - 1) : 100 * k < x
        BY <3>1, <3>2, <3>4
      <4>2. 1 \in 1..(total + 1)
        BY <1>1
      <4> QED
        BY <4>1, <4>2 DEF x
    <3> QED
      BY <3>2, <3>3, <3>4
  <2>5. Share(p) \in 1..(total + 1) /\ 100 * Share(p) >= total * q
    <3> DEFINE P(m) == IsShare(m)
    <3> HIDE DEF P, total
    <3>1. \E m \in 1..(total + 1) : P(m)
      BY <2>4 DEF P
    <3>2. Share(p) \in 1..(total + 1) /\ P(Share(p))
      BY <2>3, <3>1 DEF P
    <3> QED
      BY <3>2 DEF P
  <2>6. LET m == (t * q + 99) \div 100 IN m \in Nat /\ 100 * m <= t * q + 99
    <3> DEFINE y == t * q
    <3>1. y \in Nat /\ y <= 100 * total
      BY <2>2
    <3> HIDE DEF y
    <3>2. LET m == (y + 99) \div 100 IN m \in Nat /\ 100 * m <= y + 99
      BY <1>1, <3>1, RoundedUp
    <3> QED
      BY <3>2 DEF y
  <2>7. n = IF (t * q + 99) \div 100 < 1 THEN 1 ELSE (t * q + 99) \div 100
    BY <1>2, <1>5, <2>1 DEF ParseConcurrency
  <2> DEFINE m == (t * q + 99) \div 100
             y == t * q
             x == total * q
  <2>8. m \in Nat /\ 100 * m <= y + 99 /\ y \in Nat /\ x \in Nat /\ y <= x
    BY <2>2, <2>6
  <2>9. 100 * Share(p) >= x /\ Share(p) \in Nat /\ Share(p) >= 1 /\ n = IF m < 1 THEN 1 ELSE m
    <3>1. Share(p) \in Nat /\ Share(p) >= 1
      <4> HIDE DEF total
      <4> QED
        BY <1>1, <2>5
    <3> QED
      BY <2>5, <2>7, <3>1
  <2> HIDE DEF m, y, x, n
  <2>10. n # 0 /\ n <= Share(p)
    BY <2>8, <2>9
  <2> QED
    BY <2>9, <2>10 DEF n
<1> QED
  BY <1>3, <1>4, <1>5

\* A share is a number, and nothing out of service is within it.
LEMMA ShareType ==
  ASSUME NEW p \in Profiles
  PROVE  Share(p) \in Nat /\ Cardinality({}) = 0 /\ Cardinality({}) <= Share(p)
<1>1. 0 <= Cardinality(Members(p))
  BY CardinalityGrows DEF Members, Workers
<1>2. Share(p) \in Nat
  BY <1>1, BatchWithinShare
<1>3. Cardinality({}) = 0
  BY FS_EmptySet
<1> QED
  BY <1>2, <1>3

LEMMA SharePrepare ==
  ASSUME FleetInv, OutInv, Prepare
  PROVE  ShareInv'
<1> DEFINE S == HostsOf(walk)
<1>0. status = "prepare" /\ command' = command /\ out = {} /\ S \in SUBSET Hosts
  BY HostsOfType DEF Prepare, OutInv
<1>1. CASE status' = "err" /\ out' = out
  <2>1. \A p \in Groups : OutOf(p)' = {}
    BY <1>0, <1>1 DEF OutOf, GroupHosts
  <2> QED
    BY <1>1, <2>1, ShareType DEF ShareInv, Groups, Share, Setting
<1>2. CASE NextPhase
  BY <1>2 DEF NextPhase, ShareInv
<1>3. CASE /\ status' = "walk" /\ UNCHANGED pc
           /\ size' = [g \in Groups |-> BatchSize(walk, S, g)]
           /\ batch' = NoHosts /\ out' = {}
  <2>1. walk' = walk
    BY <1>0, <1>3 DEF walk
  <2> SUFFICES ASSUME walk \in {"upgradeW", "syncW"}, NEW p \in Profiles
               PROVE  /\ IF size'[p] = 0 THEN Share(p) = Cardinality(Members(p)) ELSE size'[p] <= Share(p)
                      /\ Cardinality(batch'[p]) <= Share(p)
                      /\ Cardinality(OutOf(p)') <= Share(p)
    BY <1>3, <2>1 DEF ShareInv, Share, Setting, Members
  <2>2. p \in Groups /\ batch'[p] = {} /\ OutOf(p)' = {}
    BY <1>3 DEF Groups, NoHosts, OutOf, GroupHosts
  <2> DEFINE T == GroupHosts(walk, S, p)
  <2>3. size'[p] = ResolveConcurrency(p, Cardinality(T))
    BY <1>3, <2>2 DEF BatchSize, OneByOne, ByProfile
  <2>4. T \in SUBSET Members(p) /\ Members(p) \in SUBSET Hosts
    <3>1. S \subseteq Workers
      BY <1>0, HostsOfType DEF FleetInv, WorkersOnly
    <3> QED
      BY <3>1 DEF GroupHosts, ByProfile, Members, Workers
  <2>5. Cardinality(T) \in Nat /\ Cardinality(T) <= Cardinality(Members(p))
    BY <2>4, CardinalityGrows
  <2>6. IF size'[p] = 0 THEN Share(p) = Cardinality(Members(p)) ELSE size'[p] <= Share(p)
    BY <2>3, <2>5, BatchWithinShare
  <2> QED
    BY <2>2, <2>6, ShareType
<1> QED
  BY <1>1, <1>2, <1>3 DEF Prepare

LEMMA ShareTakeBatch ==
  ASSUME FleetInv, OutInv, ShareInv, NEW g \in Groups, TakeBatch(g)
  PROVE  ShareInv'
<1> USE DEF FleetInv
<1>1. PICK b \in NextBatches(walk, rest[g], size[g]) : batch' = [batch EXCEPT ![g] = b]
  BY DEF TakeBatch
<1>2. status = "walk" /\ UNCHANGED <<size, command, pc, status, out>>
  BY DEF TakeBatch
<1>3. walk' = walk /\ \A p \in Groups : OutOf(p)' = OutOf(p)
  BY <1>2 DEF walk, OutOf
<1>4. ASSUME walk \in {"upgradeW", "syncW"}, NEW p \in Profiles
      PROVE  Cardinality(batch'[p]) <= Share(p)
  <2>0. p \in Groups
    BY DEF Groups
  <2>1. CASE p # g
    BY <1>1, <1>2, <1>4, <2>0, <2>1 DEF ShareInv, TypeOK
  <2>2. CASE p = g
    <3>1. batch'[p] = b /\ b \subseteq rest[p]
      BY <1>1, <2>0, <2>2, BatchOfOne DEF TypeOK
    <3>2. rest[p] \subseteq Members(p) /\ Members(p) \in SUBSET Hosts
      BY <1>2, <1>4, <2>0 DEF OutInv, OutInBatch, WorkersOnly, GroupHosts, ByProfile, Members, Workers
    <3>3. /\ Cardinality(b) \in Nat /\ Cardinality(Members(p)) \in Nat
          /\ Cardinality(b) <= Cardinality(Members(p))
      BY <3>1, <3>2, CardinalityGrows
    <3>4. /\ IF size[p] = 0 THEN Share(p) = Cardinality(Members(p)) ELSE size[p] <= Share(p)
          /\ size[p] \in Nat /\ Share(p) \in Nat
      BY <1>2, <1>4, <2>0, ShareType DEF ShareInv, TypeOK
    <3>5. size[p] = 0 \/ Cardinality(b) <= size[p]
      BY <1>1, <2>2, <3>3, <3>4 DEF NextBatches
    <3> HIDE DEF FleetInv
    <3> QED
      BY <3>1, <3>3, <3>4, <3>5
  <2> QED
    BY <2>1, <2>2
<1> QED
  BY <1>2, <1>3, <1>4 DEF ShareInv, Share, Setting, Members, Groups

\* The rest: a walk's batch is over, its filters drain and put back.
LEMMA ShareKept ==
  ASSUME FleetInv, OutInv, ShareInv, status = "walk", UNCHANGED <<command, pc>>,
         status' \in {"walk", "err", "cut"}, UNCHANGED size,
         \A p \in Profiles : batch'[p] \in {batch[p], {}},
         \A p \in Profiles : OutOf(p)' = OutOf(p) \/ (OutOf(p)' \subseteq batch[p] /\ batch[p] \subseteq Hosts)
  PROVE  ShareInv'
<1>1. walk' = walk
  BY DEF walk
<1>2. ASSUME walk \in {"upgradeW", "syncW"}, NEW p \in Profiles
      PROVE  Cardinality(batch'[p]) <= Share(p) /\ Cardinality(OutOf(p)') <= Share(p)
  <2>1. Cardinality(batch[p]) <= Share(p) /\ Cardinality(OutOf(p)) <= Share(p)
    BY <1>2 DEF ShareInv
  <2>2. Cardinality(batch'[p]) <= Share(p)
    BY <2>1, ShareType
  <2>3. CASE OutOf(p)' = OutOf(p)
    BY <2>1, <2>2, <2>3
  <2>4. CASE OutOf(p)' \subseteq batch[p] /\ batch[p] \subseteq Hosts
    <3>1. /\ Cardinality(OutOf(p)') \in Nat /\ Cardinality(batch[p]) \in Nat
          /\ Cardinality(OutOf(p)') <= Cardinality(batch[p])
      BY <2>4, CardinalityGrows
    <3>2. Share(p) \in Nat
      BY ShareType
    <3> QED
      BY <2>1, <2>2, <3>1, <3>2
  <2> QED
    BY <2>3, <2>4
<1> QED
  BY <1>1, <1>2 DEF ShareInv, Share, Setting, Members

LEMMA ShareRunFilter ==
  ASSUME FleetInv, OutInv, OutInv', ShareInv, NEW g \in Groups, NEW h \in Hosts, RunFilter(g, h)
  PROVE  ShareInv'
<1> USE DEF FleetInv
<1>1. /\ status = "walk" /\ h \in todo[g] /\ h \in batch[g]
      /\ UNCHANGED <<size, batch, command, pc, status>>
      /\ out' = out \/ out' \in {out \union {h}, out \ {h}}
  BY DEF RunFilter, TypeOK
<1>2. h \in GroupHosts(walk, Hosts, g)
  BY <1>1 DEF OutInv, OutInBatch
<1>3. ASSUME NEW p \in Groups PROVE OutOf(p)' = OutOf(p) \/ OutOf(p)' \subseteq batch[p]
  <2>1. CASE p # g
    BY <1>1, <1>2, <2>1, OutOfElsewhere
  <2>2. CASE p = g
    BY <1>1, <2>2 DEF OutInv, OutInBatch
  <2> QED
    BY <2>1, <2>2
<1>4. \A p \in Profiles : p \in Groups /\ batch[p] \subseteq Hosts
  BY DEF Groups, TypeOK
<1> QED
  BY <1>1, <1>3, <1>4, ShareKept

\* Every step keeps ShareInv.
LEMMA ShareStep == FleetInv /\ OutInv /\ OutInv' /\ ShareInv /\ [Next]_vars => ShareInv'
<1> SUFFICES ASSUME FleetInv, OutInv, OutInv', ShareInv, [Next]_vars PROVE ShareInv'
  OBVIOUS
<1>1. ASSUME status' \in {"prepare", "ok"} PROVE ShareInv'
  BY <1>1 DEF ShareInv
<1>2. ASSUME UNCHANGED <<command, pc, size, batch, out>>, status' = status PROVE ShareInv'
  BY <1>2 DEF ShareInv, OutOf, walk, Share, Setting, Members
<1>3. ASSUME UNCHANGED <<command, pc, size, batch, out>>, status = "walk", status' \in {"err", "cut"}
      PROVE  ShareInv'
  BY <1>3 DEF ShareInv, OutOf, walk, Share, Setting, Members
<1>4. ASSUME NEW c \in Commands, StartRun(c) PROVE ShareInv'
  BY <1>1, <1>4 DEF StartRun
<1>5. CASE EndWalk
  BY <1>1, <1>3, <1>5 DEF EndWalk, NextPhase, walkVars
<1>6. CASE Cut
  <2>1. CASE status = "walk"
    BY <1>3, <1>6, <2>1 DEF Cut, walkVars
  <2>2. CASE status = "prepare"
    <3>1. \A p \in Groups : OutOf(p)' = {}
      BY <1>6, <2>2 DEF Cut, OutInv, OutOf, GroupHosts
    <3> QED
      BY <1>6, <3>1, ShareType DEF Cut, ShareInv, Groups, Share, Setting
  <2> QED
    BY <1>6, <2>1, <2>2 DEF Cut
<1>7. ASSUME NEW g \in Groups, Wait(g) PROVE ShareInv'
  <2>1. /\ status = "walk" /\ UNCHANGED <<command, pc, size, status, out>>
        /\ \A p \in Profiles : p \in Groups /\ batch'[p] \in {batch[p], {}}
    BY <1>7 DEF Wait, FleetInv, TypeOK, Groups
  <2>2. \A p \in Profiles : OutOf(p)' = OutOf(p)
    BY <2>1 DEF OutOf, walk
  <2> QED
    BY <2>1, <2>2, ShareKept
<1>8. CASE UNCHANGED vars
  BY <1>2, <1>8 DEF vars, walkVars
<1> QED
  BY <1>4, <1>5, <1>6, <1>7, <1>8, SharePrepare, ShareTakeBatch, ShareRunFilter DEF Next

\* However a worker walk goes, of a profile's workers no more than its share is out of
\* service at a time: for every fleet, every concurrency setting that ParseConcurrency
\* accepts, every pattern of failures and cuts, and after a batch that failed too.
THEOREM SharesAreHeld == Spec => []ProfileShareHeld
<1>1. Init => OutInv /\ ShareInv
  BY DEF Init, OutInv, ShareInv
<1>2. FleetInv /\ OutInv /\ ShareInv /\ [Next]_vars => (OutInv /\ ShareInv)'
  BY OutStep, ShareStep
<1>3. FleetInv /\ OutInv /\ ShareInv => ProfileShareHeld
  <2> SUFFICES ASSUME OutInv, ShareInv, ByProfile(walk), status \in {"walk", "err", "cut"}, NEW p \in Profiles
               PROVE  Cardinality({h \in out : ProfileOf[h] = p}) <= Share(p)
    BY DEF ProfileShareHeld
  <2>1. CASE walk \in {"upgradeW", "syncW"}
    BY <2>1 DEF ShareInv, OutOf, GroupHosts
  <2>2. CASE walk = "startW"
    <3>1. {h \in out : ProfileOf[h] = p} = {}
      BY <2>2 DEF OutInv, DrainWalks
    <3> QED
      BY <3>1, ShareType
  <2> QED
    BY <2>1, <2>2 DEF ByProfile
<1> QED
  BY <1>1, <1>2, <1>3, FleetInvariant, PTL DEF Spec

-----------------------------------------------------------------------------
(* What a successful apply leaves.                                         *)

\* The version that an install of h leaves is the package's, if it does not fail.
Installable(h) == h \in staged \/ bin[h] = Target
Settled(h) == bin[h] = Target /\ up[h] = Target /\ node[h] = "schedulable"
Clean(h) == drift[h] = "none"

\* A host to install and start, and one that is neither to be upgraded nor settled yet.
Fresh(h) ==
    /\ up[h] = Stopped /\ node[h] # "cordoned" /\ Installable(h)
    /\ h \in Controllers => ver[h] = UnknownVersion
Pending(h) == ~VersionLess(h) /\ ~Settled(h)

\* Every host is to be upgraded, or to be installed and started, or settled.
Begun(h) == IF VersionLess(h) THEN Installable(h) ELSE Fresh(h) \/ Settled(h)

\* What is known of a host when `apply` comes to the walk w.
Before(w, h) ==
    /\ w \in {"gather", "stage"} => ~Stranded(h)
    /\ w = "stage" => ver[h] = bin[h] /\ Acceptable(bin[h])
    /\ w \in {"configure", "installC", "startC", "installW", "startW"} => Begun(h)
    /\ w = "startC" /\ Pending(h) =>
           (h \in Controllers => h \in picked) /\ (h \in picked => bin[h] = Target)
    /\ w \in {"installW", "startW"} /\ h \in Controllers => ~Pending(h)
    /\ w = "startW" /\ Pending(h) => h \in picked /\ bin[h] = Target
    /\ w = "upgradeC" => IF VersionLess(h) THEN Installable(h) ELSE Settled(h)
    /\ w = "upgradeW" => IF VersionLess(h) /\ h \in Workers THEN Installable(h) ELSE Settled(h)
    /\ w \in {"pending", "checkC", "syncC", "checkW", "syncW"} => Settled(h)
    /\ w = "syncC" /\ h \in Controllers => Clean(h) \/ h \in picked
    /\ w \in {"checkW", "syncW"} /\ h \in Controllers => Clean(h)
    /\ w = "syncW" => Clean(h) \/ h \in picked

\* What is known of a host on which the first s filters of an upgrade, or of a sync,
\* have succeeded.
Upgraded(s, h) ==
    /\ s < 3 => Installable(h)
    /\ s >= 3 => bin[h] = Target
    /\ s \in 1..6 => node[h] = "cordoned"
    /\ s \in 2..4 => up[h] = Stopped
    /\ s >= 5 => up[h] = Target
    /\ s = 7 => node[h] = "schedulable"
Synced(s, h) ==
    /\ bin[h] = Target
    /\ s \in 1..5 => node[h] = "cordoned"
    /\ s \in 2..3 => up[h] = Stopped
    /\ s >= 3 => Clean(h)
    /\ s >= 4 => up[h] = Target
    /\ s = 6 => node[h] = "schedulable"

\* The same for every walk.
Past(w, s, h) ==
    /\ w = "gather" => ~Stranded(h) /\ ver[h] = bin[h] /\ Acceptable(bin[h])
    /\ w \in {"stage", "configure", "installC", "startC", "installW", "startW"} => Begun(h)
    /\ w \in {"installC", "installW"} /\ Pending(h) => bin[h] = Target
    /\ w \in {"startC", "installW", "startW"} /\ h \in Controllers => ~Pending(h)
    /\ w = "startW" => ~Pending(h)
    /\ w \in {"upgradeC", "upgradeW"} => Upgraded(s, h)
    /\ w \in {"pending", "checkC", "checkW"} => Settled(h)
    /\ w \in {"checkC", "checkW"} => Clean(h) \/ h \in picked
    /\ w = "checkW" /\ h \in Controllers => Clean(h)
    /\ w \in {"syncC", "syncW"} => Synced(s, h)

After(w, s, h) == IF s = 0 THEN Before(w, h) ELSE Past(w, s, h)

\* The hosts that a walk visits; "pending" takes hosts out of its own set.
Visited(w) == IF w = "pending" THEN Hosts ELSE HostsOf(w)

\* How many filters have been run on h, a host of group g that is visited.
Passed(g, h) ==
    IF h \in rest[g] THEN 0
    ELSE IF h \in todo[g] THEN step[g] - 1
    ELSE IF h \in batch[g] THEN step[g] ELSE Len(Filters(walk))

\* An engine that was never installed does not run, and one that runs has a node.
Sane(h) ==
    /\ bin[h] = UnknownVersion => node[h] = "none"
    /\ node[h] = "none" => up[h] = Stopped

\* A group's hosts are taken once.
TakenOnce(g) ==
    rest[g] \union batch[g] \subseteq Visited(walk) /\ rest[g] \intersect batch[g] = {}

Progress(g, h) ==
    IF h \in Visited(walk) THEN After(walk, Passed(g, h), h) ELSE Before(walk, h)

ApplyInv ==
    /\ \A h \in Hosts : Sane(h)
    /\ status = "walk" => \A g \in Groups : TakenOnce(g)
    /\ command = "apply" =>
          /\ status = "prepare" => \A h \in Hosts \ stranded : Before(walk, h)
          /\ status = "walk" /\ walk \in {"installC", "installW"} => picked = HostsOf(walk)
          /\ status = "walk" /\ (\A g \in Groups : ~bad[g]) =>
                \A g \in Groups : \A h \in GroupHosts(walk, Hosts, g) \ stranded : Progress(g, h)
          /\ status = "ok" => \A h \in Hosts \ stranded : Settled(h) /\ Clean(h)

-----------------------------------------------------------------------------
(* The plan.                                                               *)

\* The order of the walks of `apply`.
Follows(w, v) ==
    <<w, v>> \in {<<"gather", "stage">>, <<"stage", "configure">>, <<"configure", "installC">>,
                  <<"installC", "startC">>, <<"startC", "installW">>, <<"installW", "startW">>,
                  <<"startW", "upgradeC">>, <<"upgradeC", "upgradeW">>, <<"upgradeW", "pending">>,
                  <<"pending", "checkC">>, <<"checkC", "syncC">>, <<"syncC", "checkW">>,
                  <<"checkW", "syncW">>}

\* A phase of `apply` is followed by the next one, or it was the last.
LEMMA ApplyPlan ==
  ASSUME NEW i \in 1..Len(Plan("apply"))
  PROVE  /\ i < Len(Plan("apply")) => Follows(Plan("apply")[i], Plan("apply")[i + 1])
         /\ ~(i < Len(Plan("apply"))) => Plan("apply")[i] = "syncW"
         /\ Plan("apply")[1] = "gather"
  BY DEF Plan, Follows

\* The filters of the walks that run one filter, and of the others.
LEMMA FilterTable ==
  ASSUME NEW w \in Walks
  PROVE  /\ w \notin DrainWalks => Len(Filters(w)) = 1
         /\ w \in {"installC", "installW"} => Filters(w)[1] = "install"
         /\ w \in {"startC", "startW"} => Filters(w)[1] = "start"
         /\ w \in {"checkC", "checkW"} => Filters(w)[1] = "check"
         /\ w \in {"gather", "stage", "configure", "pending"} => Filters(w)[1] = w
         /\ w \in {"upgradeC", "upgradeW"} =>
               /\ Len(Filters(w)) = 7
               /\ Filters(w)[1] = "drain" /\ Filters(w)[2] = "stop" /\ Filters(w)[3] = "install"
               /\ Filters(w)[4] = "prestart" /\ Filters(w)[5] = "start" /\ Filters(w)[6] = "ready"
               /\ Filters(w)[7] = "uncordon"
         /\ w \in {"syncC", "syncW"} =>
               /\ Len(Filters(w)) = 6
               /\ Filters(w)[1] = "drain" /\ Filters(w)[2] = "stop" /\ Filters(w)[3] = "write"
               /\ Filters(w)[4] = "start" /\ Filters(w)[5] = "ready" /\ Filters(w)[6] = "uncordon"
  BY DEF Walks, DrainWalks, Filters, UpgradeFilters, SyncFilters

-----------------------------------------------------------------------------
(* One filter on one host.                                                 *)

\* A filter changes what is recorded of its own host only.
Apart(h) ==
    /\ \A k \in Hosts \ {h} :
          /\ bin'[k] = bin[k] /\ up'[k] = up[k] /\ node'[k] = node[k]
          /\ drift'[k] = drift[k] /\ ver'[k] = ver[k]
          /\ k \in staged' <=> k \in staged
          /\ k \in picked' <=> k \in picked

LEMMA DoApart ==
  ASSUME TypeOK, NEW f, NEW h \in Hosts, NEW ok \in BOOLEAN, Do(f, h, ok)
  PROVE  Apart(h)
<1> USE DEF Apart, TypeOK, hostVars, factVars
<1>1. CASE f = "gather"
  BY <1>1 DEF Do, investigateHostDistro
<1>2. CASE f = "stage"
  BY <1>2 DEF Do, uploadFiles
<1>3. CASE f = "configure"
  BY <1>3 DEF Do, configureEngine
<1>4. CASE f = "install"
  BY <1>4 DEF Do, installPackages
<1>5. CASE f = "pending"
  BY <1>5 DEF Do, installPending, installPackages
<1>6. CASE f = "start"
  BY <1>6 DEF Do, startAndEnableService
<1>7. CASE f = "drain"
  BY <1>7 DEF Do, drainClusterNode
<1>8. CASE f = "stop"
  BY <1>8 DEF Do, stopService
<1>9. CASE f \in {"prestart", "ready"}
  BY <1>9 DEF Do, preStartUpgrade, waitNodeReady
<1>10. CASE f = "uncordon"
  BY <1>10 DEF Do, uncordonClusterNode
<1>11. CASE f = "write"
  BY <1>11 DEF Do, writeFiles
<1>12. CASE f = "check"
  BY <1>12 DEF Do, needsUpdate
<1> QED
  BY <1>1, <1>2, <1>3, <1>4, <1>5, <1>6, <1>7, <1>8, <1>9, <1>10, <1>11, <1>12 DEF Do

\* No filter leaves an engine running that was never installed, or without a node.
LEMMA DoSane ==
  ASSUME TypeOK, NEW f, NEW h \in Hosts, NEW ok \in BOOLEAN, Do(f, h, ok), Sane(h)
  PROVE  Sane(h)'
<1> USE DEF Sane, TypeOK, Nodes, hostVars, factVars, UnknownVersion, Stopped
<1>0. Target \in Nat \ {0}
  BY FleetApplyAssumption
<1>1. CASE f = "gather"
  BY <1>1 DEF Do, investigateHostDistro
<1>2. CASE f = "stage"
  BY <1>2 DEF Do, uploadFiles
<1>3. CASE f = "configure"
  BY <1>3 DEF Do, configureEngine
<1>4. CASE f = "install"
  BY <1>0, <1>4 DEF Do, installPackages
<1>5. CASE f = "pending"
  BY <1>0, <1>5 DEF Do, installPending, installPackages
<1>6. CASE f = "start"
  BY <1>6 DEF Do, startAndEnableService
<1>7. CASE f = "drain"
  BY <1>7 DEF Do, drainClusterNode, HasNode
<1>8. CASE f = "stop"
  BY <1>8 DEF Do, stopService
<1>9. CASE f \in {"prestart", "ready"}
  BY <1>9 DEF Do, preStartUpgrade, waitNodeReady
<1>10. CASE f = "uncordon"
  BY <1>10 DEF Do, uncordonClusterNode, HasNode
<1>11. CASE f = "write"
  BY <1>11 DEF Do, writeFiles
<1>12. CASE f = "check"
  BY <1>12 DEF Do, needsUpdate
<1> QED
  BY <1>1, <1>2, <1>3, <1>4, <1>5, <1>6, <1>7, <1>8, <1>9, <1>10, <1>11, <1>12 DEF Do

\* The filter that a name stands for.
LEMMA DoNamed ==
  ASSUME NEW f, NEW h, NEW ok, Do(f, h, ok)
  PROVE  /\ f = "gather" => investigateHostDistro(h, ok)
         /\ f = "stage" => uploadFiles(h, ok)
         /\ f = "configure" => configureEngine(h, ok)
         /\ f = "install" => installPackages(h, ok)
         /\ f = "pending" => installPending(h, ok)
         /\ f = "start" => startAndEnableService(h, ok)
         /\ f = "drain" => drainClusterNode(h, ok)
         /\ f = "stop" => stopService(h, ok)
         /\ f = "prestart" => preStartUpgrade(h, ok)
         /\ f = "ready" => waitNodeReady(h, ok)
         /\ f = "uncordon" => uncordonClusterNode(h, ok)
         /\ f = "write" => writeFiles(h, ok)
         /\ f = "check" => needsUpdate(h, ok)
  BY DEF Do

\* An upgrade's filter that succeeds takes its host one filter further.
LEMMA UpgradeFilter ==
  ASSUME TypeOK, ~QuietInstall, NEW h \in Hosts, NEW w \in {"upgradeC", "upgradeW"}, NEW s \in 1..7,
         Do(Filters(w)[s], h, TRUE), Upgraded(s - 1, h)
  PROVE  Upgraded(s, h)'
<1> USE DEF TypeOK, hostVars, factVars
<1>0. Target \in Nat \ {0} /\ w \in Walks
  BY FleetApplyAssumption DEF Walks
<1>1. CASE s = 1
  <2>1. drainClusterNode(h, TRUE)
    <3>1. Filters(w)[1] = "drain"
      BY <1>0, FilterTable
    <3> QED
      BY <1>1, <3>1, DoNamed
  <2>2. Upgraded(0, h)
    BY <1>1
  <2>3. Upgraded(1, h)'
    BY <1>0, <2>1, <2>2 DEF drainClusterNode, Upgraded, Installable
  <2> QED
    BY <1>1, <2>3
<1>2. CASE s = 2
  <2>1. stopService(h, TRUE)
    <3>1. Filters(w)[2] = "stop"
      BY <1>0, FilterTable
    <3> QED
      BY <1>2, <3>1, DoNamed
  <2>2. Upgraded(1, h)
    BY <1>2
  <2>3. Upgraded(2, h)'
    BY <1>0, <2>1, <2>2 DEF stopService, Upgraded, Installable
  <2> QED
    BY <1>2, <2>3
<1>3. CASE s = 3
  <2>1. installPackages(h, TRUE)
    <3>1. Filters(w)[3] = "install"
      BY <1>0, FilterTable
    <3> QED
      BY <1>3, <3>1, DoNamed
  <2>2. Upgraded(2, h)
    BY <1>3
  <2>3. Upgraded(3, h)'
    BY <1>0, <2>1, <2>2 DEF installPackages, Upgraded, Installable
  <2> QED
    BY <1>3, <2>3
<1>4. CASE s = 4
  <2>1. preStartUpgrade(h, TRUE)
    <3>1. Filters(w)[4] = "prestart"
      BY <1>0, FilterTable
    <3> QED
      BY <1>4, <3>1, DoNamed
  <2>2. Upgraded(3, h)
    BY <1>4
  <2>3. Upgraded(4, h)'
    BY <1>0, <2>1, <2>2 DEF preStartUpgrade, Upgraded, Installable
  <2> QED
    BY <1>4, <2>3
<1>5. CASE s = 5
  <2>1. startAndEnableService(h, TRUE)
    <3>1. Filters(w)[5] = "start"
      BY <1>0, FilterTable
    <3> QED
      BY <1>5, <3>1, DoNamed
  <2>2. Upgraded(4, h)
    BY <1>5
  <2>3. Upgraded(5, h)'
    BY <1>0, <2>1, <2>2 DEF startAndEnableService, Upgraded, Installable, UnknownVersion, Stopped
  <2> QED
    BY <1>5, <2>3
<1>6. CASE s = 6
  <2>1. waitNodeReady(h, TRUE)
    <3>1. Filters(w)[6] = "ready"
      BY <1>0, FilterTable
    <3> QED
      BY <1>6, <3>1, DoNamed
  <2>2. Upgraded(5, h)
    BY <1>6
  <2>3. Upgraded(6, h)'
    BY <1>0, <2>1, <2>2 DEF waitNodeReady, Upgraded, Installable
  <2> QED
    BY <1>6, <2>3
<1>7. CASE s = 7
  <2>1. uncordonClusterNode(h, TRUE)
    <3>1. Filters(w)[7] = "uncordon"
      BY <1>0, FilterTable
    <3> QED
      BY <1>7, <3>1, DoNamed
  <2>2. Upgraded(6, h)
    BY <1>7
  <2>3. Upgraded(7, h)'
    BY <1>0, <2>1, <2>2 DEF uncordonClusterNode, Upgraded, Installable
  <2> QED
    BY <1>7, <2>3
<1> QED
  BY <1>1, <1>2, <1>3, <1>4, <1>5, <1>6, <1>7

\* A sync's filter that succeeds takes its host one filter further.
LEMMA SyncFilter ==
  ASSUME TypeOK, NEW h \in Hosts, NEW w \in {"syncC", "syncW"}, NEW s \in 1..6,
         Do(Filters(w)[s], h, TRUE), Synced(s - 1, h)
  PROVE  Synced(s, h)'
<1> USE DEF TypeOK, hostVars, factVars
<1>0. Target \in Nat \ {0} /\ w \in Walks
  BY FleetApplyAssumption DEF Walks
<1>1. CASE s = 1
  <2>1. drainClusterNode(h, TRUE)
    <3>1. Filters(w)[1] = "drain"
      BY <1>0, FilterTable
    <3> QED
      BY <1>1, <3>1, DoNamed
  <2>2. Synced(0, h)
    BY <1>1
  <2>3. Synced(1, h)'
    BY <1>0, <2>1, <2>2 DEF drainClusterNode, Synced, Clean
  <2> QED
    BY <1>1, <2>3
<1>2. CASE s = 2
  <2>1. stopService(h, TRUE)
    <3>1. Filters(w)[2] = "stop"
      BY <1>0, FilterTable
    <3> QED
      BY <1>2, <3>1, DoNamed
  <2>2. Synced(1, h)
    BY <1>2
  <2>3. Synced(2, h)'
    BY <1>0, <2>1, <2>2 DEF stopService, Synced, Clean
  <2> QED
    BY <1>2, <2>3
<1>3. CASE s = 3
  <2>1. writeFiles(h, TRUE)
    <3>1. Filters(w)[3] = "write"
      BY <1>0, FilterTable
    <3> QED
      BY <1>3, <3>1, DoNamed
  <2>2. Synced(2, h)
    BY <1>3
  <2>3. Synced(3, h)'
    BY <1>0, <2>1, <2>2 DEF writeFiles, Synced, Clean
  <2> QED
    BY <1>3, <2>3
<1>4. CASE s = 4
  <2>1. startAndEnableService(h, TRUE)
    <3>1. Filters(w)[4] = "start"
      BY <1>0, FilterTable
    <3> QED
      BY <1>4, <3>1, DoNamed
  <2>2. Synced(3, h)
    BY <1>4
  <2>3. Synced(4, h)'
    BY <1>0, <2>1, <2>2 DEF startAndEnableService, Synced, Clean, UnknownVersion, Stopped
  <2> QED
    BY <1>4, <2>3
<1>5. CASE s = 5
  <2>1. waitNodeReady(h, TRUE)
    <3>1. Filters(w)[5] = "ready"
      BY <1>0, FilterTable
    <3> QED
      BY <1>5, <3>1, DoNamed
  <2>2. Synced(4, h)
    BY <1>5
  <2>3. Synced(5, h)'
    BY <1>0, <2>1, <2>2 DEF waitNodeReady, Synced, Clean
  <2> QED
    BY <1>5, <2>3
<1>6. CASE s = 6
  <2>1. uncordonClusterNode(h, TRUE)
    <3>1. Filters(w)[6] = "uncordon"
      BY <1>0, FilterTable
    <3> QED
      BY <1>6, <3>1, DoNamed
  <2>2. Synced(5, h)
    BY <1>6
  <2>3. Synced(6, h)'
    BY <1>0, <2>1, <2>2 DEF uncordonClusterNode, Synced, Clean
  <2> QED
    BY <1>6, <2>3
<1> QED
  BY <1>1, <1>2, <1>3, <1>4, <1>5, <1>6

\* The one filter of a walk that restarts nothing.
LEMMA SingleDo ==
  ASSUME NEW w \in Walks, NEW h, NEW ok, Do(Filters(w)[1], h, ok)
  PROVE  /\ w = "gather" => investigateHostDistro(h, ok)
         /\ w = "stage" => uploadFiles(h, ok)
         /\ w = "configure" => configureEngine(h, ok)
         /\ w \in {"installC", "installW"} => installPackages(h, ok)
         /\ w \in {"startC", "startW"} => startAndEnableService(h, ok)
         /\ w = "pending" => installPending(h, ok)
         /\ w \in {"checkC", "checkW"} => needsUpdate(h, ok)
<1>1. PICK f : f = Filters(w)[1]
  OBVIOUS
<1>2. /\ w \in {"gather", "stage", "configure", "pending"} => f = w
      /\ w \in {"installC", "installW"} => f = "install"
      /\ w \in {"startC", "startW"} => f = "start"
      /\ w \in {"checkC", "checkW"} => f = "check"
  BY <1>1, FilterTable
<1>3. Do(f, h, ok)
  BY <1>1
<1> QED
  BY <1>2, <1>3, DoNamed

\* What it leaves, when it succeeds.
LEMMA SingleFilter ==
  ASSUME TypeOK, ~QuietInstall, NEW h \in Hosts, h \notin stranded, stranded' = stranded,
         NEW w \in Walks, w \notin DrainWalks,
         Do(Filters(w)[1], h, TRUE), Before(w, h), Sane(h), h \in Visited(w),
         w \in {"installC", "installW"} => picked = HostsOf(w)
  PROVE  Past(w, 1, h)'
<1> USE DEF TypeOK, hostVars, factVars
<1>0. Target \in Nat \ {0} /\ w \in Walks
  BY FleetApplyAssumption DEF Walks
<1>1. CASE w = "gather"
  <2>1. investigateHostDistro(h, TRUE)
    BY <1>1, SingleDo
  <2>2. ~Stranded(h)
    BY <1>1 DEF Before
  <2>3. ver'[h] = bin[h] /\ Acceptable(bin[h]) /\ UNCHANGED <<bin, up, node>>
    BY <2>1 DEF investigateHostDistro
  <2> QED
    BY <1>1, <2>2, <2>3 DEF Past, Stranded
<1>2. CASE w = "stage"
  <2>1. uploadFiles(h, TRUE)
    BY <1>2, SingleDo
  <2>2. ~Stranded(h) /\ ver[h] = bin[h] /\ Acceptable(bin[h])
    BY <1>2 DEF Before
  <2>3. h \in staged' /\ UNCHANGED <<bin, up, node, ver>>
    BY <2>1 DEF uploadFiles
  <2>4. Begun(h)'
    <3>1. CASE VersionLess(h)
      BY <2>3, <3>1 DEF Begun, Installable, VersionLess
    <3>2. CASE ver[h] = UnknownVersion
      BY <2>2, <2>3, <3>2 DEF Begun, Fresh, Installable, VersionLess, Sane
    <3>3. CASE ~VersionLess(h) /\ ver[h] # UnknownVersion
      <4>1. bin[h] = Target
        BY <1>0, <2>2, <3>3 DEF VersionLess, Acceptable
      <4>2. node[h] # "cordoned" /\ (up[h] = Target \/ (h \in Workers /\ up[h] = Stopped))
        BY <2>2, <4>1 DEF Stranded
      <4>3. up[h] = Target => Settled(h)
        BY <1>0, <4>1, <4>2 DEF Settled, Sane, Nodes, Stopped
      <4> QED
        BY <2>3, <3>3, <4>1, <4>2, <4>3 DEF Begun, Fresh, Settled, Installable, VersionLess, Workers
    <3> QED
      BY <3>1, <3>2, <3>3
  <2> QED
    BY <1>2, <2>4 DEF Past
<1>3. CASE w = "configure"
  <2>0. configureEngine(h, TRUE)
    BY <1>3, SingleDo
  <2>1. configureEngine(h, TRUE) /\ Begun(h)
    BY <1>3, <2>0 DEF Before
  <2>2. Begun(h)'
    BY <2>1 DEF configureEngine, Begun, Fresh, Settled, Installable, VersionLess
  <2> QED
    BY <1>3, <2>2 DEF Past
<1>4. CASE w \in {"installC", "installW"}
  <2>0. installPackages(h, TRUE)
    BY <1>4, SingleDo
  <2>1. installPackages(h, TRUE) /\ Begun(h)
    BY <1>4, <2>0 DEF Before
  <2>2. Installable(h) => bin'[h] = Target
    BY <2>1 DEF installPackages, Installable
  <2>3. UNCHANGED <<up, node, ver, picked>>
    BY <2>1 DEF installPackages
  <2>4. bin[h] = Target => bin'[h] = Target
    BY <2>1 DEF installPackages
  <2>5. Begun(h)' /\ (Pending(h)' => bin'[h] = Target)
    BY <2>1, <2>2, <2>3, <2>4 DEF Begun, Fresh, Settled, Installable, VersionLess, Pending
  <2>6. Settled(h) => Settled(h)'
    BY <2>3, <2>4 DEF Settled
  <2>7. w = "installW" /\ h \in Controllers => ~Pending(h)'
    BY <2>3, <2>6 DEF Before, Pending, VersionLess
  <2> QED
    BY <1>4, <2>5, <2>7 DEF Past
<1>5. CASE w \in {"startC", "startW"}
  <2>0. startAndEnableService(h, TRUE)
    BY <1>5, SingleDo
  <2>1. startAndEnableService(h, TRUE) /\ Begun(h) /\ h \in picked
    BY <1>5, <2>0 DEF Before, Visited, HostsOf
  <2>2. UNCHANGED <<bin, ver, staged>>
    BY <2>1 DEF startAndEnableService, factVars
  <2>3. Pending(h) => bin[h] = Target /\ Fresh(h)
    BY <1>5, <2>1 DEF Before, Begun, Pending
  <2>4. bin[h] = Target /\ Fresh(h) => Settled(h)'
    BY <1>0, <2>1 DEF startAndEnableService, Fresh, Settled, Nodes, UnknownVersion, Stopped
  <2>5. Settled(h) => Settled(h)'
    BY <1>0, <2>1 DEF startAndEnableService, Settled, Stopped
  <2>6. ~Pending(h)'
    BY <2>2, <2>3, <2>4, <2>5 DEF Pending, VersionLess
  <2>7. Begun(h)'
    BY <2>1, <2>2, <2>6 DEF Begun, Pending, VersionLess, Installable
  <2> QED
    BY <1>5, <2>6, <2>7 DEF Past
<1>6. CASE w = "pending"
  <2>0. installPending(h, TRUE)
    BY <1>6, SingleDo
  <2>1. installPending(h, TRUE) /\ Settled(h)
    BY <1>6, <2>0 DEF Before
  <2>2. Settled(h)'
    BY <2>1 DEF installPending, installPackages, Settled
  <2> QED
    BY <1>6, <2>2 DEF Past
<1>7. CASE w \in {"checkC", "checkW"}
  <2>0. needsUpdate(h, TRUE)
    BY <1>7, SingleDo
  <2>1. needsUpdate(h, TRUE) /\ Settled(h)
    BY <1>7, <2>0 DEF Before
  <2>2. Settled(h)' /\ (Clean(h)' \/ h \in picked') /\ (Clean(h) => Clean(h)')
    BY <2>1 DEF needsUpdate, Settled, Clean
  <2> QED
    BY <1>7, <2>2 DEF Past, Before
<1> QED
  BY <1>1, <1>2, <1>3, <1>4, <1>5, <1>6, <1>7 DEF Walks, DrainWalks

\* A filter that succeeds takes its host one filter further.
LEMMA FilterPasses ==
  ASSUME TypeOK, ~QuietInstall, NEW h \in Hosts, h \notin stranded, stranded' = stranded,
         NEW w \in Walks, NEW s \in 1..Len(Filters(w)),
         Do(Filters(w)[s], h, TRUE), After(w, s - 1, h), Sane(h), h \in Visited(w),
         w \in {"installC", "installW"} => picked = HostsOf(w)
  PROVE  After(w, s, h)'
<1> SUFFICES Past(w, s, h)'
  BY DEF After
<1>1. CASE w \notin DrainWalks
  <2>1. s = 1
    <3>1. s \in 1..1
      BY <1>1, FilterTable
    <3> QED
      BY <3>1
  <2>2. Before(w, h)
    BY <2>1 DEF After
  <2> QED
    BY <1>1, <2>1, <2>2, SingleFilter
<1>2. CASE w \in {"upgradeC", "upgradeW"}
  <2>1. s \in 1..7
    BY <1>2, FilterTable
  <2>2. Upgraded(s - 1, h)
    <3>1. CASE s = 1
      <4>1. Installable(h)
        BY <1>2, <3>1 DEF After, Before, Settled, Installable
      <4> QED
        BY <3>1, <4>1 DEF Upgraded
    <3>2. CASE s # 1
      BY <1>2, <2>1, <3>2 DEF After, Past
    <3> QED
      BY <3>1, <3>2
  <2>3. Upgraded(s, h)'
    BY <1>2, <2>1, <2>2, UpgradeFilter
  <2> QED
    BY <1>2, <2>3 DEF Past
<1>3. CASE w \in {"syncC", "syncW"}
  <2>1. s \in 1..6
    BY <1>3, FilterTable
  <2>2. Synced(s - 1, h)
    <3>1. CASE s = 1
      <4>1. bin[h] = Target
        BY <1>3, <3>1 DEF After, Before, Settled
      <4> QED
        BY <3>1, <4>1 DEF Synced
    <3>2. CASE s # 1
      BY <1>3, <2>1, <3>2 DEF After, Past
    <3> QED
      BY <3>1, <3>2
  <2>3. Synced(s, h)'
    BY <1>3, <2>1, <2>2, SyncFilter
  <2> QED
    BY <1>3, <2>3 DEF Past
<1> QED
  BY <1>1, <1>2, <1>3 DEF DrainWalks

\* What is known of a host does not depend on the others.
LEMMA KnownApart ==
  ASSUME NEW h \in Hosts, NEW k \in Hosts \ {h}, Apart(h)
  PROVE  /\ Sane(k)' = Sane(k)
         /\ \A w : Before(w, k)' = Before(w, k)
         /\ \A w, s : Past(w, s, k)' = Past(w, s, k)
<1>1. /\ bin'[k] = bin[k] /\ up'[k] = up[k] /\ node'[k] = node[k] /\ drift'[k] = drift[k] /\ ver'[k] = ver[k]
      /\ (k \in staged') = (k \in staged) /\ (k \in picked') = (k \in picked)
  BY DEF Apart
<1>2. /\ Settled(k)' = Settled(k) /\ Clean(k)' = Clean(k) /\ Installable(k)' = Installable(k)
      /\ VersionLess(k)' = VersionLess(k) /\ Stranded(k)' = Stranded(k) /\ Sane(k)' = Sane(k)
      /\ Fresh(k)' = Fresh(k)
  BY <1>1 DEF Settled, Clean, Installable, VersionLess, Stranded, Sane, Fresh
<1>3. Pending(k)' = Pending(k) /\ Begun(k)' = Begun(k)
  BY <1>2 DEF Pending, Begun
<1>4. ASSUME NEW w PROVE Before(w, k)' = Before(w, k)
  BY <1>1, <1>2, <1>3 DEF Before
<1>5. ASSUME NEW w, NEW s PROVE Past(w, s, k)' = Past(w, s, k)
  <2>1. Upgraded(s, k)' = Upgraded(s, k) /\ Synced(s, k)' = Synced(s, k)
    BY <1>1, <1>2 DEF Upgraded, Synced
  <2> QED
    BY <1>1, <1>2, <1>3, <2>1 DEF Past
<1> QED
  BY <1>2, <1>4, <1>5

\* A walk visits the same hosts from its start to its end.
LEMMA VisitedStable ==
  ASSUME TypeOK, NEW h \in Hosts, NEW ok \in BOOLEAN, NEW w \in Walks, NEW s \in 1..Len(Filters(w)),
         Do(Filters(w)[s], h, ok)
  PROVE  /\ Visited(w)' = Visited(w)
         /\ w \in {"installC", "installW"} => picked' = picked /\ HostsOf(w)' = HostsOf(w)
<1> USE DEF TypeOK, hostVars, factVars
<1>1. ASSUME w \notin {"gather"} PROVE ver' = ver
  <2>1. Filters(w)[s] # "gather"
    BY <1>1 DEF Walks, Filters, UpgradeFilters, SyncFilters
  <2> QED
    BY <2>1 DEF Do, uploadFiles, configureEngine, installPackages, installPending, startAndEnableService,
                drainClusterNode, stopService, preStartUpgrade, waitNodeReady, uncordonClusterNode, writeFiles,
                needsUpdate
<1>2. ASSUME w \notin {"checkC", "checkW"} PROVE picked' = picked
  <2>1. Filters(w)[s] # "check"
    BY <1>2, FilterEntries
  <2> QED
    BY <2>1 DEF Do, investigateHostDistro, uploadFiles, configureEngine, installPackages, installPending,
                startAndEnableService, drainClusterNode, stopService, preStartUpgrade, waitNodeReady,
                uncordonClusterNode, writeFiles
<1>3. ASSUME w \in {"installC", "installW"} PROVE up' = up
  <2>1. Filters(w)[s] = "install"
    BY <1>3 DEF Filters
  <2> QED
    BY <2>1, DoNamed DEF installPackages
<1>4. w = "gather" => HostsOf(w)' = HostsOf(w)
  BY DEF HostsOf
<1>5. ASSUME w \notin {"gather", "pending"} PROVE HostsOf(w)' = HostsOf(w)
  BY <1>1, <1>2, <1>3, <1>5 DEF HostsOf, controllersNeedingInit, workersNeedingInit, VersionLess
<1> QED
  BY <1>2, <1>4, <1>5 DEF Visited

-----------------------------------------------------------------------------
(* From walk to walk.                                                      *)

\* A walk has done with h, or did not visit it.
Worked(w, h) ==
    \/ h \in Visited(w) /\ Past(w, Len(Filters(w)), h)
    \/ (h \notin Visited(w) \/ w = "pending") /\ Before(w, h)

\* What a walk hands over to the next: which hosts it did not visit says as much as
\* what it did to the others.
LEMMA HandOver ==
  ASSUME TypeOK, NEW h \in Hosts, NEW w \in Walks, NEW v, Follows(w, v), Worked(w, h),
         UNCHANGED <<hostVars, ver, staged, stranded>>,
         w \in {"installC", "installW"} => picked' = HostsOf(w),
         w \in {"checkC", "checkW"} /\ h \in Visited(w) => picked' = picked
  PROVE  Before(v, h)'
<1> USE DEF hostVars
<1>1. /\ Settled(h)' = Settled(h) /\ Clean(h)' = Clean(h) /\ Installable(h)' = Installable(h)
      /\ VersionLess(h)' = VersionLess(h) /\ Stranded(h)' = Stranded(h) /\ Fresh(h)' = Fresh(h)
  BY DEF Settled, Clean, Installable, VersionLess, Stranded, Fresh
<1>2. Pending(h)' = Pending(h) /\ Begun(h)' = Begun(h)
  BY <1>1 DEF Pending, Begun
<1>3. h \in Workers <=> h \notin Controllers
  BY DEF Workers
<1>4. w \in {"gather", "stage", "configure", "pending"} => h \in Visited(w)
  BY DEF Visited, HostsOf
<1>5. CASE w \in {"gather", "stage", "configure"}
  BY <1>1, <1>2, <1>4, <1>5 DEF Worked, Follows, Past, Before
<1>6. CASE w \in {"installC", "installW"}
  <2>1. h \in Visited(w) <=> h \in picked'
    BY <1>6 DEF Visited
  <2>2. h \notin Visited(w) /\ Fresh(h) => (w = "installC" /\ h \in Workers) \/ (w = "installW" /\ h \in Controllers)
    BY <1>3, <1>6 DEF Visited, HostsOf, controllersNeedingInit, workersNeedingInit, Fresh
  <2>3. h \in Visited(w) => (w = "installC" => h \in Controllers) /\ (w = "installW" => h \in Workers)
    BY <1>6 DEF Visited, HostsOf, controllersNeedingInit, workersNeedingInit
  <2>4. Begun(h) /\ Pending(h) => Fresh(h)
    BY DEF Begun, Pending
  <2> QED
    BY <1>1, <1>2, <1>3, <1>6, <2>1, <2>2, <2>3, <2>4 DEF Worked, Follows, Past, Before
<1>7. CASE w \in {"startC", "startW"}
  <2>1. h \in Visited(w) <=> h \in picked
    BY <1>7 DEF Visited, HostsOf
  <2>2. Begun(h) /\ ~Pending(h) => IF VersionLess(h) THEN Installable(h) ELSE Settled(h)
    BY DEF Begun, Pending
  <2> QED
    BY <1>1, <1>2, <1>7, <2>1, <2>2 DEF Worked, Follows, Past, Before
<1>8. CASE w \in {"upgradeC", "upgradeW"}
  <2>1. Len(Filters(w)) = 7
    BY <1>8, FilterTable
  <2>2. Upgraded(7, h) => Settled(h)
    BY DEF Upgraded, Settled
  <2>3. Settled(h) => Installable(h)
    BY DEF Settled, Installable
  <2>4. h \in Visited(w) <=> VersionLess(h) /\ (w = "upgradeC" => h \in Controllers)
                               /\ (w = "upgradeW" => h \in Workers)
    BY <1>8 DEF Visited, HostsOf
  <2> QED
    BY <1>1, <1>3, <1>8, <2>1, <2>2, <2>3, <2>4 DEF Worked, Follows, Past, Before
<1>9. CASE w = "pending"
  BY <1>1, <1>4, <1>9 DEF Worked, Follows, Past, Before
<1>10. CASE w \in {"checkC", "checkW"}
  <2>1. h \in Visited(w) <=> (w = "checkC" => h \in Controllers) /\ (w = "checkW" => h \in Workers)
    BY <1>10 DEF Visited, HostsOf
  <2> QED
    BY <1>1, <1>3, <1>10, <2>1 DEF Worked, Follows, Past, Before
<1>11. CASE w = "syncC"
  <2>1. Len(Filters(w)) = 6 /\ (h \in Visited(w) <=> h \in picked)
    BY <1>11, FilterTable DEF Visited, HostsOf
  <2>2. Synced(6, h) => Settled(h) /\ Clean(h)
    BY DEF Synced, Settled
  <2> QED
    BY <1>1, <1>11, <2>1, <2>2 DEF Worked, Follows, Past, Before
<1> QED
  BY <1>5, <1>6, <1>7, <1>8, <1>9, <1>10, <1>11 DEF Follows

\* What the last walk leaves.
LEMMA LastWalk ==
  ASSUME NEW h \in Hosts, Worked("syncW", h)
  PROVE  Settled(h) /\ Clean(h)
<1>1. Len(Filters("syncW")) = 6 /\ (h \in Visited("syncW") <=> h \in picked)
  BY FilterTable DEF Visited, HostsOf, Walks
<1>2. Synced(6, h) => Settled(h) /\ Clean(h)
  BY DEF Synced, Settled
<1> QED
  BY <1>1, <1>2 DEF Worked, Past, Before

\* The phase that ends, or that has no host, hands over to the next or ends the run.
LEMMA ApplyNext ==
  ASSUME FleetInv, status \in {"prepare", "walk"}, NextPhase,
         UNCHANGED <<hostVars, ver, staged, command, stranded>>, \A h \in Hosts : Sane(h),
         command = "apply" =>
            /\ \A h \in Hosts \ stranded : Worked(walk, h)
            /\ walk \in {"installC", "installW"} => picked' = HostsOf(walk)
            /\ walk \in {"checkC", "checkW"} => picked' = picked \/ Visited(walk) = {}
  PROVE  ApplyInv'
<1>1. \A h \in Hosts : Sane(h)'
  BY DEF Sane, hostVars
<1>2. status' \in {"prepare", "ok"}
  BY DEF NextPhase
<1>3. ASSUME command = "apply"
      PROVE  /\ status' = "prepare" => \A h \in Hosts \ stranded : Before(walk, h)'
             /\ status' = "ok" => \A h \in Hosts \ stranded : Settled(h)' /\ Clean(h)'
  <2>1. pc \in 1..Len(Plan("apply"))
    BY <1>3 DEF FleetInv, InPlan
  <2>2. PICK w : w = walk
    OBVIOUS
  <2>3. w \in Walks
    BY <1>3, <2>1, <2>2, PlanEntries DEF walk
  <2>4. CASE pc < Len(Plan("apply"))
    <3>1. PICK v : v = Plan("apply")[pc + 1]
      OBVIOUS
    <3>2. walk' = v /\ status' = "prepare"
      BY <1>3, <2>4, <3>1 DEF NextPhase, walk
    <3>3. Follows(w, v)
      BY <1>3, <2>1, <2>2, <2>4, <3>1, ApplyPlan DEF walk
    <3>4. ASSUME NEW h \in Hosts, h \notin stranded PROVE Before(v, h)'
      BY <1>3, <2>2, <2>3, <3>3, <3>4, HandOver DEF FleetInv
    <3> QED
      BY <3>2, <3>4
  <2>5. CASE ~(pc < Len(Plan("apply")))
    <3>1. walk = "syncW" /\ status' = "ok"
      BY <1>3, <2>1, <2>5, ApplyPlan DEF walk, NextPhase
    <3>2. ASSUME NEW h \in Hosts, h \notin stranded PROVE Settled(h)' /\ Clean(h)'
      BY <1>3, <3>1, <3>2, LastWalk DEF Settled, Clean, hostVars
    <3> QED
      BY <3>1, <3>2
  <2> QED
    BY <2>4, <2>5
<1> QED
  BY <1>1, <1>2, <1>3 DEF ApplyInv

-----------------------------------------------------------------------------
(* The steps.                                                              *)

\* The walk of a run is one of the table.
LEMMA WalkListed ==
  ASSUME FleetInv, status \in {"prepare", "walk"}
  PROVE  walk \in Walks
<1>1. command \in {"apply", "sync"} /\ pc \in 1..Len(Plan(command))
  BY DEF FleetInv, TypeOK, InPlan
<1> QED
  BY <1>1, PlanEntries DEF walk

LEMMA ApplyPrepare ==
  ASSUME FleetInv, ApplyInv, Prepare
  PROVE  ApplyInv'
<1> DEFINE S == HostsOf(walk)
<1>0. /\ status = "prepare" /\ walk \in Walks /\ S \in SUBSET Hosts
      /\ UNCHANGED <<hostVars, ver, staged, command, stranded>>
  BY WalkListed, HostsOfType DEF Prepare, FleetInv
<1>1. \A h \in Hosts : Sane(h) /\ Sane(h)'
  BY <1>0 DEF ApplyInv, Sane, hostVars
<1>2. ASSUME command = "apply", NEW h \in Hosts \ stranded PROVE Before(walk, h)
  BY <1>0, <1>2 DEF ApplyInv
<1>3. CASE status' = "err"
  BY <1>1, <1>3 DEF ApplyInv
<1>4. CASE S = {} /\ NextPhase /\ picked' = IF walk \in {"checkC", "checkW"} THEN {} ELSE S
  <2>1. walk # "pending" => Visited(walk) = {}
    BY <1>4 DEF Visited
  <2>2. command = "apply" =>
           /\ \A h \in Hosts \ stranded : Worked(walk, h)
           /\ walk \in {"installC", "installW"} => picked' = HostsOf(walk)
           /\ walk \in {"checkC", "checkW"} => picked' = picked \/ Visited(walk) = {}
    BY <1>2, <1>4, <2>1 DEF Worked
  <2> QED
    BY <1>0, <1>1, <1>4, <2>2, ApplyNext
<1>5. CASE /\ status' = "walk" /\ UNCHANGED pc
           /\ rest' = [g \in Groups |-> GroupHosts(walk, S, g)]
           /\ batch' = NoHosts /\ todo' = NoHosts
           /\ picked' = IF walk \in {"checkC", "checkW"} THEN {} ELSE S
  <2>1. walk' = walk
    BY <1>0, <1>5 DEF walk
  <2>2. PICK w : w = walk
    OBVIOUS
  <2>3. HostsOf(w)' = HostsOf(w)
    BY <1>0, <1>5, <2>2 DEF HostsOf, hostVars, controllersNeedingInit, workersNeedingInit, VersionLess
  <2>4. Visited(w)' = Visited(w) /\ S \subseteq Visited(w)
    BY <1>0, <2>2, <2>3 DEF Visited
  <2>5. ASSUME NEW g \in Groups PROVE rest'[g] = GroupHosts(walk, S, g) /\ batch'[g] = {} /\ todo'[g] = {}
    BY <1>5 DEF NoHosts
  <2>6. ASSUME NEW g \in Groups PROVE TakenOnce(g)'
    BY <2>1, <2>2, <2>4, <2>5, GroupHostsType, <1>0 DEF TakenOnce
  <2>7. ASSUME command = "apply", NEW h \in Hosts \ stranded PROVE Before(w, h)'
    <3>1. Before(w, h)
      BY <1>2, <2>2, <2>7
    <3>2. w \in {"startC", "startW", "syncC", "syncW"} => (h \in picked' <=> h \in picked)
      BY <1>5, <2>2 DEF HostsOf
    <3>3. /\ Settled(h)' = Settled(h) /\ Clean(h)' = Clean(h) /\ Stranded(h)' = Stranded(h)
          /\ VersionLess(h)' = VersionLess(h) /\ Installable(h)' = Installable(h) /\ Fresh(h)' = Fresh(h)
      BY <1>0 DEF Settled, Clean, Stranded, VersionLess, Installable, Fresh, hostVars
    <3>4. Pending(h)' = Pending(h) /\ Begun(h)' = Begun(h) /\ bin' = bin /\ ver' = ver
      BY <1>0, <3>3 DEF Pending, Begun, hostVars
    <3> QED
      BY <3>1, <3>2, <3>3, <3>4 DEF Before
  <2>8. ASSUME command = "apply", NEW g \in Groups, NEW h \in GroupHosts(walk, Hosts, g) \ stranded
        PROVE  Progress(g, h)'
    <3>1. h \in Hosts /\ Before(w, h)'
      BY <2>7, <2>8, GroupHostsType
    <3>2. CASE h \in S
      <4>1. h \in rest'[g]
        BY <2>5, <2>8, <3>2 DEF GroupHosts
      <4>2. Passed(g, h)' = 0
        BY <4>1 DEF Passed
      <4> QED
        BY <2>1, <2>2, <3>1, <4>2 DEF Progress, After
    <3>3. CASE h \notin S /\ w # "pending"
      BY <2>1, <2>2, <2>3, <3>1, <3>3 DEF Progress, Visited
    <3>4. CASE h \notin S /\ w = "pending"
      <4>1. h \notin rest'[g] /\ h \notin batch'[g] /\ h \notin todo'[g]
        BY <2>5, <3>4, <1>0, GroupHostsType
      <4>2. Passed(g, h)' = 1
        BY <1>0, <2>1, <2>2, <3>4, <4>1, FilterTable DEF Passed, DrainWalks
      <4>3. Past(w, 1, h)'
        BY <3>1, <3>4 DEF Past, Before
      <4> QED
        BY <2>1, <2>2, <3>1, <4>2, <4>3 DEF Progress, After
    <3> QED
      BY <3>2, <3>3, <3>4
  <2>9. walk \in {"installC", "installW"} => picked' = HostsOf(walk)'
    BY <1>5, <2>1, <2>2, <2>3
  <2> QED
    BY <1>0, <1>1, <1>5, <2>1, <2>6, <2>8, <2>9 DEF ApplyInv
<1> QED
  BY <1>3, <1>4, <1>5 DEF Prepare

LEMMA ApplyEndWalk ==
  ASSUME FleetInv, ApplyInv, EndWalk
  PROVE  ApplyInv'
<1>0. /\ status = "walk" /\ walk \in Walks
      /\ UNCHANGED <<hostVars, ver, staged, picked, command, stranded>>
      /\ \A g \in Groups : batch[g] = {} /\ rest[g] = {} /\ todo[g] = {}
  BY WalkListed DEF EndWalk, factVars, FleetInv, TypeOK
<1>1. \A h \in Hosts : Sane(h) /\ Sane(h)'
  BY <1>0 DEF ApplyInv, Sane, hostVars
<1>2. CASE status' = "err"
  BY <1>1, <1>2 DEF ApplyInv
<1>3. CASE NextPhase /\ \A g \in Groups : ~bad[g]
  <2>1. ASSUME command = "apply", NEW h \in Hosts \ stranded PROVE Worked(walk, h)
    <3>1. PICK g \in Groups : h \in GroupHosts(walk, Hosts, g)
      BY OneGroup
    <3>2. Progress(g, h)
      BY <1>0, <1>3, <2>1, <3>1 DEF ApplyInv
    <3>3. Passed(g, h) = Len(Filters(walk)) /\ Len(Filters(walk)) # 0
      BY <1>0, FiltersNonEmpty DEF Passed
    <3> QED
      BY <3>2, <3>3 DEF Progress, After, Worked
  <2>2. command = "apply" /\ walk \in {"installC", "installW"} => picked' = HostsOf(walk)
    BY <1>0 DEF ApplyInv
  <2> QED
    BY <1>0, <1>1, <1>3, <2>1, <2>2, ApplyNext
<1> QED
  BY <1>2, <1>3 DEF EndWalk

\* A step that runs no filter, and after which every host has passed as many as before.
LEMMA ApplyKept ==
  ASSUME ApplyInv, status = "walk",
         UNCHANGED <<hostVars, factVars, bad, command, pc, status, stranded>>,
         \A g \in Groups : TakenOnce(g)',
         (\A g \in Groups : ~bad[g]) =>
            \A g \in Groups : \A h \in GroupHosts(walk, Hosts, g) : Passed(g, h)' = Passed(g, h)
  PROVE  ApplyInv'
<1> USE DEF hostVars, factVars
<1>1. walk' = walk
  BY DEF walk
<1>2. PICK w : w = walk
  OBVIOUS
<1>3. Visited(w)' = Visited(w) /\ HostsOf(w)' = HostsOf(w)
  BY DEF Visited, HostsOf, controllersNeedingInit, workersNeedingInit, VersionLess
<1>4. ASSUME NEW h \in Hosts
      PROVE  /\ Sane(h)' = Sane(h) /\ Before(w, h)' = Before(w, h)
             /\ \A s : Past(w, s, h)' = Past(w, s, h)
  <2>1. /\ Settled(h)' = Settled(h) /\ Clean(h)' = Clean(h) /\ Stranded(h)' = Stranded(h)
        /\ VersionLess(h)' = VersionLess(h) /\ Installable(h)' = Installable(h) /\ Fresh(h)' = Fresh(h)
    BY DEF Settled, Clean, Stranded, VersionLess, Installable, Fresh
  <2>2. Pending(h)' = Pending(h) /\ Begun(h)' = Begun(h)
    BY <2>1 DEF Pending, Begun
  <2>3. ASSUME NEW s PROVE Upgraded(s, h)' = Upgraded(s, h) /\ Synced(s, h)' = Synced(s, h)
    BY <2>1 DEF Upgraded, Synced
  <2>4. ASSUME NEW s PROVE Past(w, s, h)' = Past(w, s, h)
    BY <2>1, <2>2, <2>3 DEF Past
  <2> QED
    BY <2>1, <2>2, <2>4 DEF Before, Sane
<1>5. ASSUME command = "apply", \A g \in Groups : ~bad[g],
             NEW g \in Groups, NEW h \in GroupHosts(walk, Hosts, g) \ stranded
      PROVE  Progress(g, h)'
  <2>1. h \in Hosts /\ Progress(g, h) /\ Passed(g, h)' = Passed(g, h)
    BY <1>5, GroupHostsType DEF ApplyInv
  <2>2. PICK n : n = Passed(g, h)
    OBVIOUS
  <2>3. After(w, n, h)' = After(w, n, h)
    BY <1>4, <2>1 DEF After
  <2> QED
    BY <1>1, <1>2, <1>3, <1>4, <2>1, <2>2, <2>3 DEF Progress
<1>6. \A h \in Hosts : Sane(h)'
  BY <1>4 DEF ApplyInv
<1>7. command = "apply" /\ walk \in {"installC", "installW"} => picked = HostsOf(walk) /\ HostsOf(walk)' = HostsOf(walk)
  BY <1>1, <1>2, <1>3 DEF ApplyInv
<1> QED
  BY <1>1, <1>5, <1>6, <1>7 DEF ApplyInv

LEMMA ApplyTakeBatch ==
  ASSUME FleetInv, OutInv, ApplyInv, NEW g \in Groups, TakeBatch(g)
  PROVE  ApplyInv'
<1> USE DEF FleetInv
<1>0. /\ status = "walk" /\ UNCHANGED <<hostVars, factVars, bad, command, pc, status, stranded>>
      /\ batch[g] = {} /\ todo[g] = {}
      /\ \A k \in Groups \ {g} : rest'[k] = rest[k] /\ batch'[k] = batch[k] /\ todo'[k] = todo[k] /\ step'[k] = step[k]
  BY DEF TakeBatch, TypeOK
<1>1. PICK b \in NextBatches(walk, rest[g], size[g]) :
         batch'[g] = b /\ todo'[g] = b /\ rest'[g] = rest[g] \ b /\ step'[g] = 1
  BY DEF TakeBatch, TypeOK
<1>2. b \subseteq rest[g]
  BY <1>1, BatchOfOne DEF TypeOK
<1>3. walk' = walk /\ Visited(walk)' = Visited(walk)
  <2>1. PICK w : w = walk
    OBVIOUS
  <2>2. walk' = walk /\ Visited(w)' = Visited(w)
    BY <1>0, <2>1 DEF walk, Visited, HostsOf, controllersNeedingInit, workersNeedingInit, VersionLess, hostVars, factVars
  <2> QED
    BY <2>1, <2>2
<1>4. ASSUME NEW k \in Groups PROVE TakenOnce(k)'
  <2>1. TakenOnce(k)
    BY <1>0 DEF ApplyInv
  <2> QED
    BY <1>0, <1>1, <1>2, <1>3, <2>1 DEF TakenOnce
<1>5. ASSUME NEW k \in Groups, NEW h PROVE Passed(k, h)' = Passed(k, h)
  BY <1>0, <1>1, <1>2, <1>3 DEF Passed
<1> QED
  BY <1>0, <1>4, <1>5, ApplyKept

LEMMA ApplyWait ==
  ASSUME FleetInv, OutInv, ApplyInv, NEW g \in Groups, Wait(g)
  PROVE  ApplyInv'
<1>0. /\ status = "walk" /\ UNCHANGED <<hostVars, factVars, bad, command, pc, status, stranded>>
      /\ todo[g] = {}
  BY DEF Wait
<1>1. \A k \in Groups \ {g} : rest'[k] = rest[k] /\ batch'[k] = batch[k] /\ todo'[k] = todo[k] /\ step'[k] = step[k]
  BY DEF Wait, FleetInv, TypeOK
<1>2. IF step[g] < Len(Filters(walk))
      THEN step'[g] = step[g] + 1 /\ todo'[g] = batch[g] /\ rest'[g] = rest[g] /\ batch'[g] = batch[g]
      ELSE batch'[g] = {} /\ rest'[g] = (IF bad[g] THEN {} ELSE rest[g]) /\ step'[g] = step[g] /\ todo'[g] = {}
  BY DEF Wait, FleetInv, TypeOK
<1>3. walk' = walk /\ Visited(walk)' = Visited(walk)
  <2>1. PICK w : w = walk
    OBVIOUS
  <2>2. walk' = walk /\ Visited(w)' = Visited(w)
    BY <1>0, <2>1 DEF walk, Visited, HostsOf, controllersNeedingInit, workersNeedingInit, VersionLess, hostVars, factVars
  <2> QED
    BY <2>1, <2>2
<1>4. ASSUME NEW k \in Groups PROVE TakenOnce(k) /\ TakenOnce(k)'
  <2>1. TakenOnce(k)
    BY <1>0 DEF ApplyInv
  <2>2. rest'[k] \subseteq rest[k] /\ batch'[k] \subseteq batch[k]
    BY <1>1, <1>2
  <2> QED
    BY <1>3, <2>1, <2>2 DEF TakenOnce
<1>5. walk \in Walks /\ step[g] \in 1..Len(Filters(walk)) /\ Len(Filters(walk)) \in Nat
  BY <1>0, WalkListed, FiltersNonEmpty DEF FleetInv, InPlan
<1>6. ASSUME ~bad[g], NEW k \in Groups, NEW h PROVE Passed(k, h)' = Passed(k, h)
  <2>1. CASE k # g
    BY <1>1, <1>3, <2>1 DEF Passed
  <2>2. CASE k = g /\ step[g] < Len(Filters(walk))
    <3>1. step[g] \in Nat
      BY <1>5
    <3>2. h \in batch[g] => h \notin rest[g]
      BY <1>4 DEF TakenOnce
    <3>3. /\ rest'[g] = rest[g] /\ batch'[g] = batch[g] /\ todo'[g] = batch[g]
          /\ step'[g] = step[g] + 1
      BY <1>2, <2>2
    <3>4. step'[g] - 1 = step[g]
      BY <3>1, <3>3
    <3> QED
      BY <1>0, <1>3, <2>2, <3>2, <3>3, <3>4 DEF Passed
  <2>3. CASE k = g /\ ~(step[g] < Len(Filters(walk)))
    <3>1. step[g] = Len(Filters(walk))
      BY <1>5, <2>3
    <3> QED
      BY <1>0, <1>2, <1>3, <1>6, <2>3, <3>1 DEF Passed
  <2> QED
    BY <2>1, <2>2, <2>3
<1> QED
  BY <1>0, <1>4, <1>6, ApplyKept

LEMMA ApplyRunFilter ==
  ASSUME FleetInv, OutInv, ApplyInv, ~QuietInstall, NEW g \in Groups, NEW h \in Hosts, RunFilter(g, h)
  PROVE  ApplyInv'
<1>0. /\ TypeOK /\ status = "walk" /\ walk \in Walks /\ step[g] \in 1..Len(Filters(walk))
      /\ UNCHANGED <<rest, batch, step, command, pc, status, stranded>>
      /\ todo' = [todo EXCEPT ![g] = @ \ {h}] /\ h \in todo[g] /\ h \in batch[g]
  BY WalkListed DEF RunFilter, FleetInv, InPlan, TypeOK
<1>1. PICK w, s : w = walk /\ s = step[g]
  OBVIOUS
<1>2. PICK ok \in BOOLEAN : Do(Filters(w)[s], h, ok) /\ bad' = [bad EXCEPT ![g] = @ \/ ~ok]
  BY <1>1 DEF RunFilter
<1>3. walk' = w /\ s \in 1..Len(Filters(w)) /\ w \in Walks
  BY <1>0, <1>1 DEF walk
<1>4. Apart(h)
  BY <1>0, <1>2, DoApart
<1>5. Visited(w)' = Visited(w) /\ (w \in {"installC", "installW"} => picked' = picked /\ HostsOf(w)' = HostsOf(w))
  BY <1>0, <1>2, <1>3, VisitedStable
<1>6. \A k \in Hosts : Sane(k)'
  <2>1. Sane(h)'
    BY <1>0, <1>2, DoSane DEF ApplyInv
  <2>2. ASSUME NEW k \in Hosts \ {h} PROVE Sane(k)'
    BY <1>4, KnownApart DEF ApplyInv
  <2> QED
    BY <2>1, <2>2
<1>7. \A k \in Groups : TakenOnce(k) /\ TakenOnce(k)'
  BY <1>0, <1>1, <1>3, <1>5 DEF ApplyInv, TakenOnce
<1>8. command = "apply" /\ w \in {"installC", "installW"} => picked = HostsOf(w) /\ picked' = HostsOf(w)'
  BY <1>0, <1>1, <1>5 DEF ApplyInv
<1>9. ASSUME command = "apply", \A k \in Groups : ~bad'[k],
             NEW j \in Groups, NEW k \in GroupHosts(w, Hosts, j) \ stranded
      PROVE  Progress(j, k)'
  <2>1. ok = TRUE /\ \A i \in Groups : ~bad[i]
    BY <1>0, <1>2, <1>9 DEF TypeOK
  <2>2. k \in Hosts /\ Progress(j, k)
    BY <1>0, <1>1, <1>9, <2>1, GroupHostsType DEF ApplyInv
  <2>3. CASE k # h
    <3>1. PICK n : n = Passed(j, k)
      OBVIOUS
    <3>2. Passed(j, k)' = n
      BY <1>0, <1>1, <1>3, <2>3, <3>1 DEF Passed, TypeOK
    <3>3. Before(w, k)' = Before(w, k) /\ Past(w, n, k)' = Past(w, n, k)
      BY <1>4, <2>2, <2>3, KnownApart
    <3> QED
      BY <1>1, <1>3, <1>5, <2>2, <3>1, <3>2, <3>3 DEF Progress, After
  <2>4. CASE k = h
    <3>1. h \in GroupHosts(w, Hosts, g) /\ h \in Visited(w) /\ h \notin rest[g]
      BY <1>0, <1>1, <1>7 DEF OutInv, OutInBatch, TakenOnce
    <3>2. j = g
      BY <1>9, <2>2, <2>4, <3>1, OneGroup
    <3>3. Passed(g, h) = s - 1
      BY <1>0, <1>1, <3>1 DEF Passed
    <3>4. After(w, s - 1, h)
      BY <1>1, <2>2, <2>4, <3>1, <3>2, <3>3 DEF Progress
    <3>5. After(w, s, h)'
      <4>1. Sane(h) /\ h \notin stranded /\ stranded' = stranded /\ Do(Filters(w)[s], h, TRUE)
        BY <1>0, <1>2, <1>9, <2>1, <2>4 DEF ApplyInv
      <4> QED
        BY <1>0, <1>3, <1>8, <1>9, <3>1, <3>4, <4>1, FilterPasses
    <3>6. Passed(g, h)' = s
      BY <1>0, <1>1, <3>1 DEF Passed, TypeOK
    <3> QED
      BY <1>3, <1>5, <2>4, <3>1, <3>2, <3>5, <3>6 DEF Progress
  <2> QED
    BY <2>3, <2>4
<1> QED
  BY <1>0, <1>1, <1>3, <1>6, <1>7, <1>8, <1>9 DEF ApplyInv

LEMMA ApplyStep == FleetInv /\ OutInv /\ ApplyInv /\ ~QuietInstall /\ [Next]_vars => ApplyInv'
<1> SUFFICES ASSUME FleetInv, OutInv, ApplyInv, ~QuietInstall, [Next]_vars PROVE ApplyInv'
  OBVIOUS
<1>1. ASSUME NEW c \in Commands, StartRun(c) PROVE ApplyInv'
  <2>1. /\ status' = "prepare" /\ pc' = 1 /\ command' = c /\ UNCHANGED hostVars
        /\ stranded' = {h \in Hosts : Stranded(h)}
    BY <1>1 DEF StartRun
  <2>2. \A h \in Hosts : Sane(h)'
    BY <2>1 DEF ApplyInv, Sane, hostVars
  <2>3. c = "apply" => walk' = "gather"
    BY <2>1, ApplyPlan, PlanNonEmpty DEF walk, Plan
  <2>4. \A h \in Hosts \ stranded' : ~Stranded(h)'
    BY <2>1 DEF Stranded, hostVars
  <2>5. ASSUME NEW h \in Hosts, ~Stranded(h)' PROVE Before("gather", h)'
    BY <2>5 DEF Before
  <2> QED
    BY <2>1, <2>2, <2>3, <2>4, <2>5 DEF ApplyInv
<1>2. CASE Cut
  BY <1>2 DEF Cut, ApplyInv, Sane, hostVars
<1>3. CASE UNCHANGED vars
  <2>1. UNCHANGED <<hostVars, factVars, walkVars, command, pc, status, stranded>>
    BY <1>3 DEF vars
  <2>2. CASE status = "walk"
    <3>1. walk' = walk /\ \A g \in Groups : TakenOnce(g)
      BY <2>1, <2>2 DEF walk, ApplyInv
    <3>2. PICK w : w = walk
      OBVIOUS
    <3>3. Visited(w)' = Visited(w)
      BY <2>1 DEF Visited, HostsOf, controllersNeedingInit, workersNeedingInit, VersionLess, hostVars, factVars
    <3>4. \A g \in Groups : TakenOnce(g)' /\ \A h : Passed(g, h)' = Passed(g, h)
      BY <2>1, <3>1, <3>2, <3>3 DEF TakenOnce, Passed, walkVars
    <3> QED
      BY <2>1, <2>2, <3>4, ApplyKept DEF walkVars
  <2>3. CASE status # "walk"
    <3>1. /\ \A h \in Hosts : Sane(h)' = Sane(h) /\ Settled(h)' = Settled(h) /\ Clean(h)' = Clean(h)
          /\ walk' = walk
      BY <2>1 DEF Sane, Settled, Clean, walk, hostVars
    <3>2. PICK w : w = walk
      OBVIOUS
    <3>3. ASSUME NEW h \in Hosts PROVE Before(w, h)' = Before(w, h)
      BY <2>1 DEF Before, Stranded, Acceptable, Begun, Fresh, Settled, Pending, Installable, VersionLess, Clean,
                  hostVars, factVars
    <3> QED
      BY <2>1, <2>3, <3>1, <3>2, <3>3 DEF ApplyInv
  <2> QED
    BY <2>2, <2>3
<1> QED
  BY <1>1, <1>2, <1>3, ApplyPrepare, ApplyEndWalk, ApplyTakeBatch, ApplyWait, ApplyRunFilter DEF Next

\* A run of apply that succeeds leaves every host running the package's version,
\* schedulable and without drift, unless an earlier run had left it where no phase
\* looks: for every fleet, every concurrency setting, every order of the hosts and
\* every history of runs that failed or were cut.  ~QuietInstall: an install that
\* copies nothing and reports no error is not repaired by any phase.
THEOREM AppliedSettles == ASSUME ~QuietInstall PROVE Spec => []AppliedUnlessStranded
<1>1. Init => OutInv /\ ApplyInv
  BY FleetApplyAssumption DEF Init, OutInv, ApplyInv, Sane, UnknownVersion, Stopped
<1>2. FleetInv /\ OutInv /\ [Next]_vars => OutInv'
  BY OutStep
<1>3. FleetInv /\ OutInv /\ ApplyInv /\ [Next]_vars => ApplyInv'
  BY ApplyStep
<1>4. ApplyInv => AppliedUnlessStranded
  BY DEF ApplyInv, AppliedUnlessStranded, Settled, Clean
<1> QED
  BY <1>1, <1>2, <1>3, <1>4, FleetInvariant, PTL DEF Spec
=============================================================================
