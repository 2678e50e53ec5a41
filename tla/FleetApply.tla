------------------------------ MODULE FleetApply ------------------------------
(***************************************************************************)
(* The phases of `apply` and `engine-config sync` that install, start,     *)
(* upgrade and restart the engine on the hosts of a cluster, for the rke2  *)
(* and k3s distros, over several runs of the commands.                     *)
(*                                                                         *)
(* A phase's work is a walk: hosts are taken batch by batch, and in a      *)
(* batch every filter (drain, stop, install ...) is run on all hosts in    *)
(* parallel before the next filter starts.  Filters fail at will; a run    *)
(* may be cut at any point, and the next run starts from whatever it left. *)
(***************************************************************************)
EXTENDS Naturals, Sequences, FiniteSets

CONSTANTS
    NHosts,             \* len(Spec.Hosts); a host is its position there
    Controllers,        \* the hosts that are controllers
    Profiles,           \* the profile names
    ProfileOf,          \* [Hosts -> Profiles]
    ProfileConcurrency, \* [Profiles -> concurrency settings]
    WorkerConcurrent,   \* the -w flag's setting
    Concurrency,        \* the -c flag, 0 for unlimited
    Target,             \* the minor version the package carries
    Installed,          \* the versions found on hosts before the first run
    InitialDrift,       \* how their files may differ from the desired ones
    QuietInstall,       \* may an install fail without an error (59_bin_install.go)?
    Commands,           \* the commands that are run
    MaxRuns             \* bound on the number of runs

Hosts == 1..NHosts
Workers == Hosts \ Controllers

\* A concurrency setting: <<>> when it is empty.
Unset == <<>>
Settings == {Unset} \union ({"count"} \X Nat) \union ({"percent"} \X (0..100))

\* The group of the walks that do not go by profile.
Everyone == "everyone"
Groups == Profiles \union {Everyone}

\* "soft": only files that the engine re-reads by itself differ.
Drifts == {"none", "soft", "hard"}

ASSUME FleetApplyAssumption ==
    /\ NHosts \in Nat
    /\ Controllers \subseteq Hosts
    /\ Everyone \notin Profiles
    /\ ProfileOf \in [Hosts -> Profiles]
    /\ ProfileConcurrency \in [Profiles -> Settings]
    /\ WorkerConcurrent \in Settings
    /\ Concurrency \in Nat
    /\ Target \in Nat \ {0}
    /\ Installed \subseteq Nat \ {0}
    /\ InitialDrift \subseteq Drifts
    /\ QuietInstall \in BOOLEAN
    /\ Commands \subseteq {"apply", "sync"}
    /\ MaxRuns \in Nat

NoLeader == 0
UnknownVersion == 0
Stopped == 0

VARIABLES
    \* The hosts.
    bin,    \* [Hosts -> version of the installed engine, UnknownVersion if none]
    up,     \* [Hosts -> version the service is running, Stopped if it is not]
    node,   \* [Hosts -> the host's node in the cluster]
    drift,  \* [Hosts -> what differs from the desired files]
    \* The process.
    command, pc, status,
    ver,    \* [Hosts -> Metadata.DistroVersion]
    staged, \* SUBSET Hosts: the hosts whose Metadata.Install is set
    picked, \* SUBSET Hosts: the phase's hosts
    leader, \* the phase's leader
    \* The walk in progress, one goroutine per group.
    size,   \* [Groups -> batch size, 0 for unlimited]
    rest,   \* [Groups -> hosts not yet in a batch]
    batch,  \* [Groups -> hosts of the current batch]
    todo,   \* [Groups -> hosts that have not finished the current filter]
    step,   \* [Groups -> position of the current filter]
    bad,    \* [Groups -> has the current batch an error?]
    \* History.
    runs,       \* how many runs have started
    upAtStart,  \* the controllers that ran when this run started
    out,        \* hosts this walk has begun to drain and not put back
    stranded    \* the hosts that were Stranded when this run started

hostVars == <<bin, up, node, drift>>
factVars == <<ver, staged, picked>>
walkVars == <<size, rest, batch, todo, step, bad>>
vars == <<hostVars, factVars, walkVars, command, pc, status, leader,
          runs, upAtStart, out, stranded>>

Nodes == {"none", "schedulable", "cordoned"}
Statuses == {"idle", "prepare", "walk", "ok", "err", "cut"}

TypeOK ==
    /\ bin \in [Hosts -> Nat] /\ up \in [Hosts -> Nat]
    /\ node \in [Hosts -> Nodes] /\ drift \in [Hosts -> Drifts]
    /\ command \in {"apply", "sync"} /\ status \in Statuses
    /\ pc \in Nat \ {0}
    /\ ver \in [Hosts -> Nat]
    /\ staged \in SUBSET Hosts /\ picked \in SUBSET Hosts
    /\ leader \in Controllers \union {NoLeader}
    /\ size \in [Groups -> Nat]
    /\ rest \in [Groups -> SUBSET Hosts]
    /\ batch \in [Groups -> SUBSET Hosts]
    /\ todo \in [Groups -> SUBSET Hosts]
    /\ \A g \in Groups : todo[g] \subseteq batch[g]
    /\ step \in [Groups -> Nat \ {0}]
    /\ bad \in [Groups -> BOOLEAN]
    /\ runs \in Nat
    /\ upAtStart \in SUBSET Controllers
    /\ out \in SUBSET Hosts /\ stranded \in SUBSET Hosts

-----------------------------------------------------------------------------
(* The phases.                                                             *)

\* A phase that runs two walks one after the other, or that acts on hosts while
\* it prepares, is two entries.
Plan(c) ==
    IF c = "apply"
    THEN <<"gather", "stage", "configure", "installC", "startC", "installW", "startW",
           "upgradeC", "upgradeW", "pending", "checkC", "syncC", "checkW", "syncW">>
    ELSE <<"gather", "checkC", "syncC", "checkW", "syncW">>

walk == Plan(command)[pc]

UpgradeFilters == <<"drain", "stop", "install", "prestart", "start", "ready", "uncordon">>
SyncFilters == <<"drain", "stop", "write", "start", "ready", "uncordon">>

Filters(w) ==
    IF w \in {"upgradeC", "upgradeW"} THEN UpgradeFilters
    ELSE IF w \in {"syncC", "syncW"} THEN SyncFilters
    ELSE IF w \in {"installC", "installW"} THEN <<"install">>
    ELSE IF w \in {"startC", "startW"} THEN <<"start">>
    ELSE IF w \in {"checkC", "checkW"} THEN <<"check">> ELSE <<w>>

ByProfile(w) == w \in {"startW", "upgradeW", "syncW"}
OneByOne(w) == w \in {"startC", "upgradeC", "syncC"}

\* The hosts a phase picks when it prepares.  The service is asked now, the
\* version is the one gathered when the run began.
controllersNeedingInit == {h \in Controllers : up[h] = Stopped /\ ver[h] = UnknownVersion}
workersNeedingInit == {h \in Workers : up[h] = Stopped}
VersionLess(h) == ver[h] # UnknownVersion /\ ver[h] < Target

HostsOf(w) ==
    {h \in Hosts :
        /\ w = "installC" => h \in controllersNeedingInit
        /\ w = "installW" => h \in workersNeedingInit
        /\ w = "upgradeC" => h \in Controllers /\ VersionLess(h)
        /\ w = "upgradeW" => h \in Workers /\ VersionLess(h)
        /\ w = "pending" => h \in staged
        /\ w = "checkC" => h \in Controllers
        /\ w = "checkW" => h \in Workers
        /\ w \in {"startC", "startW", "syncC", "syncW"} => h \in picked}

\* The phases that talk to the cluster through its first running controller.
WantsLeader(w) == w \in {"upgradeC", "upgradeW", "checkC", "checkW"}
RunningControllers == {h \in Controllers : up[h] # Stopped}
FirstOf(S) == {h \in S : \A k \in S : h <= k}

\* A percentage is rounded up and at least one host; 0 means unlimited.
ParseConcurrency(c, total) ==
    IF c = Unset THEN 0
    ELSE IF c[1] = "count" THEN c[2]
    ELSE LET scaled == (total * c[2] + 99) \div 100 IN IF scaled < 1 THEN 1 ELSE scaled

ResolveConcurrency(p, total) ==
    ParseConcurrency(IF ProfileConcurrency[p] = Unset THEN WorkerConcurrent
                     ELSE ProfileConcurrency[p], total)

\* GroupByProfile, or one group for the walks that do not go by profile.
GroupHosts(w, S, g) ==
    IF ByProfile(w) THEN {h \in S : ProfileOf[h] = g}
    ELSE IF g = Everyone THEN S ELSE {}

\* Mutant of BatchSize: the controller walks use the general concurrency.
BatchSizeGeneral(w, S, g) ==
    IF ByProfile(w) /\ g \in Profiles
    THEN ResolveConcurrency(g, Cardinality(GroupHosts(w, S, g)))
    ELSE Concurrency

BatchSize(w, S, g) ==
    IF OneByOne(w) THEN 1
    ELSE IF ByProfile(w) /\ g \in Profiles
         THEN ResolveConcurrency(g, Cardinality(GroupHosts(w, S, g)))
         ELSE Concurrency

\* The hosts that may be taken next out of R.  The config-sync phases list their
\* hosts in the order the checks happened to finish, the others in config order.
NextBatches(w, R, n) ==
    IF n = 0 \/ Cardinality(R) <= n THEN {R}
    ELSE {b \in SUBSET R :
             /\ Cardinality(b) = n
             /\ w \notin {"syncC", "syncW"} => \A h \in b, k \in R \ b : h < k}

-----------------------------------------------------------------------------
(* The filters.  Each is a relation between the host it is run on, whether  *)
(* it returns an error, and what it changes.                                *)

LeaderAnswers == leader # NoLeader /\ up[leader] # Stopped
HasNode(h) == LeaderAnswers /\ node[h] # "none"

\* GatherFactsDistro refuses a downgrade, and more than one minor version at a time.
Acceptable(v) == v = UnknownVersion \/ (v <= Target /\ Target <= v + 1)

investigateHostDistro(h, ok) ==
    /\ \/ ver' = [ver EXCEPT ![h] = bin[h]] /\ ok = Acceptable(bin[h])
       \/ UNCHANGED ver /\ ~ok
    /\ UNCHANGED <<hostVars, staged, picked>>

\* The upload phases stage the engine and leave the host a closure to install it.
uploadFiles(h, ok) ==
    /\ staged' = staged \union {h}
    /\ UNCHANGED <<hostVars, ver, picked>>

\* The files of a host whose engine runs are left to the config-sync phases; a
\* failed write of them is only logged.
configureEngine(h, ok) ==
    /\ \/ up[h] = Stopped /\ drift' = [drift EXCEPT ![h] = "none"]
       \/ UNCHANGED drift
    /\ UNCHANGED <<bin, up, node, factVars>>

\* The closure is cleared before it is run.
installPackages(h, ok) ==
    /\ staged' = staged \ {h}
    /\ \/ h \in staged /\ bin' = [bin EXCEPT ![h] = Target]
       \/ h \in staged /\ (ok => QuietInstall) /\ UNCHANGED bin
       \/ h \notin staged /\ ok /\ UNCHANGED bin
    /\ UNCHANGED <<up, node, drift, ver, picked>>

\* InstallStagedFiles logs a failed install and goes on.
installPending(h, ok) == ok /\ \E installed \in BOOLEAN : installPackages(h, installed)

\* The start is fired into a goroutine: a service whose wait timed out may still
\* have come up.  A first start registers the node.
startAndEnableService(h, ok) ==
    /\ \/ up[h] = Stopped /\ bin[h] # UnknownVersion /\ up' = [up EXCEPT ![h] = bin[h]]
       \/ (ok => up[h] # Stopped) /\ UNCHANGED up
    /\ node' = IF node[h] = "none" /\ up'[h] # Stopped
               THEN [node EXCEPT ![h] = "schedulable"] ELSE node
    /\ UNCHANGED <<bin, drift, factVars>>

\* kubectl drain cordons the node first, and may then fail to evict.
drainClusterNode(h, ok) ==
    /\ \/ HasNode(h) /\ node' = [node EXCEPT ![h] = "cordoned"]
       \/ ~ok /\ UNCHANGED node
    /\ UNCHANGED <<bin, up, drift, factVars>>

stopService(h, ok) ==
    /\ \/ up' = [up EXCEPT ![h] = Stopped]
       \/ ~ok /\ UNCHANGED up
    /\ UNCHANGED <<bin, node, drift, factVars>>

\* Nothing for rke2 and k3s, and no distro's step changes what is modelled.
preStartUpgrade(h, ok) == ok /\ UNCHANGED <<hostVars, factVars>>

waitNodeReady(h, ok) ==
    /\ ok => HasNode(h) /\ up[h] # Stopped
    /\ UNCHANGED <<hostVars, factVars>>

uncordonClusterNode(h, ok) ==
    /\ ok => HasNode(h)
    /\ node' = IF ok THEN [node EXCEPT ![h] = "schedulable"] ELSE node
    /\ UNCHANGED <<bin, up, drift, factVars>>

writeFiles(h, ok) ==
    /\ drift' = IF ok THEN [drift EXCEPT ![h] = "none"] ELSE drift
    /\ UNCHANGED <<bin, up, node, factVars>>

\* Drift the engine picks up by itself is written in place, and the host is then
\* not picked; if the write fails the host is picked after all.
needsUpdate(h, ok) ==
    /\ ok
    /\ \/ drift[h] = "none" /\ UNCHANGED <<drift, picked>>
       \/ drift[h] = "soft" /\ drift' = [drift EXCEPT ![h] = "none"] /\ UNCHANGED picked
       \/ drift[h] # "none" /\ UNCHANGED drift /\ picked' = picked \union {h}
    /\ UNCHANGED <<bin, up, node, ver, staged>>

Do(f, h, ok) ==
    \/ f = "gather" /\ investigateHostDistro(h, ok)
    \/ f = "stage" /\ uploadFiles(h, ok)
    \/ f = "configure" /\ configureEngine(h, ok)
    \/ f = "install" /\ installPackages(h, ok)
    \/ f = "pending" /\ installPending(h, ok)
    \/ f = "start" /\ startAndEnableService(h, ok)
    \/ f = "drain" /\ drainClusterNode(h, ok)
    \/ f = "stop" /\ stopService(h, ok)
    \/ f = "prestart" /\ preStartUpgrade(h, ok)
    \/ f = "ready" /\ waitNodeReady(h, ok)
    \/ f = "uncordon" /\ uncordonClusterNode(h, ok)
    \/ f = "write" /\ writeFiles(h, ok)
    \/ f = "check" /\ needsUpdate(h, ok)

-----------------------------------------------------------------------------
(* The runs.                                                               *)

NoHosts == [g \in Groups |-> {}]

\* A host is new, or a working member of the cluster; when there is a cluster
\* its first controller is a member.
Init ==
    /\ bin \in [Hosts -> {UnknownVersion} \union Installed]
    /\ (\E h \in Hosts : bin[h] # UnknownVersion) =>
          \E c \in FirstOf(Controllers) : bin[c] # UnknownVersion
    /\ up = bin
    /\ node = [h \in Hosts |-> IF bin[h] = UnknownVersion THEN "none" ELSE "schedulable"]
    /\ drift \in [Hosts -> InitialDrift \union {"hard"}]
    /\ \A h \in Hosts : IF bin[h] = UnknownVersion THEN drift[h] = "hard"
                        ELSE drift[h] \in InitialDrift
    /\ command \in Commands /\ pc = 1 /\ status = "idle"
    /\ ver = [h \in Hosts |-> UnknownVersion]
    /\ staged = {} /\ picked = {} /\ leader = NoLeader
    /\ size = [g \in Groups |-> 0]
    /\ rest = NoHosts /\ batch = NoHosts /\ todo = NoHosts
    /\ step = [g \in Groups |-> 1] /\ bad = [g \in Groups |-> FALSE]
    /\ runs = 0 /\ upAtStart = {} /\ out = {} /\ stranded = {}

\* What an unfinished run may leave that no phase of a later apply looks for: the
\* package's version is installed, so the host counts as upgraded, but the
\* service does not run it (a stopped worker is started again) or the node is
\* still cordoned.
Stranded(h) ==
    /\ bin[h] = Target
    /\ \/ node[h] = "cordoned"
       \/ up[h] # Target /\ ~(h \in Workers /\ up[h] = Stopped)

\* A process starts with empty metadata.
StartRun(c) ==
    /\ status \notin {"prepare", "walk"} /\ runs < MaxRuns
    /\ command' = c /\ pc' = 1 /\ status' = "prepare"
    /\ ver' = [h \in Hosts |-> UnknownVersion] /\ staged' = {} /\ picked' = {}
    /\ leader' = NoLeader
    /\ runs' = runs + 1 /\ upAtStart' = RunningControllers /\ out' = {}
    /\ rest' = NoHosts /\ batch' = NoHosts /\ todo' = NoHosts
    /\ stranded' = {h \in Hosts : Stranded(h)}
    /\ UNCHANGED <<hostVars, size, step, bad>>

NextPhase ==
    IF pc < Len(Plan(command)) THEN pc' = pc + 1 /\ status' = "prepare"
    ELSE UNCHANGED pc /\ status' = "ok"

\* Prepare and ShouldRun of the phase, and the start of its walk.
Prepare ==
    /\ status = "prepare"
    /\ IF WantsLeader(walk) /\ RunningControllers = {}
       THEN /\ status' = "err"  \* ErrNoControllers
            /\ UNCHANGED <<pc, leader, picked, walkVars, out>>
       ELSE /\ leader' \in IF WantsLeader(walk) THEN FirstOf(RunningControllers) ELSE {leader}
            /\ picked' = IF walk \in {"checkC", "checkW"} THEN {} ELSE HostsOf(walk)
            /\ IF HostsOf(walk) = {}
               THEN NextPhase /\ UNCHANGED <<walkVars, out>>
               ELSE /\ status' = "walk" /\ UNCHANGED pc
                    /\ size' = [g \in Groups |-> BatchSize(walk, HostsOf(walk), g)]
                    /\ rest' = [g \in Groups |-> GroupHosts(walk, HostsOf(walk), g)]
                    /\ batch' = NoHosts /\ todo' = NoHosts
                    /\ step' = [g \in Groups |-> 1] /\ bad' = [g \in Groups |-> FALSE]
                    /\ out' = {}
    /\ UNCHANGED <<hostVars, ver, staged, command, runs, upAtStart, stranded>>

\* BatchedParallelEach: the next batch.
TakeBatch(g) ==
    /\ status = "walk" /\ batch[g] = {} /\ rest[g] # {}
    /\ \E b \in NextBatches(walk, rest[g], size[g]) :
          /\ batch' = [batch EXCEPT ![g] = b]
          /\ todo' = [todo EXCEPT ![g] = b]
          /\ rest' = [rest EXCEPT ![g] = @ \ b]
    /\ step' = [step EXCEPT ![g] = 1]
    /\ UNCHANGED <<hostVars, factVars, size, bad, command, pc, status, leader,
                   runs, upAtStart, out, stranded>>

\* The goroutine of host h runs the current filter.
RunFilter(g, h) ==
    /\ status = "walk" /\ h \in todo[g]
    /\ LET f == Filters(walk)[step[g]] IN
       \E ok \in BOOLEAN :
          /\ Do(f, h, ok)
          /\ bad' = [bad EXCEPT ![g] = @ \/ ~ok]
          /\ out' = IF f = "drain" THEN out \union {h}
                    ELSE IF f = "uncordon" /\ ok THEN out \ {h} ELSE out
    /\ todo' = [todo EXCEPT ![g] = @ \ {h}]
    /\ UNCHANGED <<size, rest, batch, step, command, pc, status, leader, runs, upAtStart, stranded>>

\* Mutant of Wait: a failed batch does not stop the group.
WaitGoesOn(g) ==
    /\ status = "walk" /\ batch[g] # {} /\ todo[g] = {}
    /\ IF step[g] < Len(Filters(walk))
       THEN /\ step' = [step EXCEPT ![g] = @ + 1]
            /\ todo' = [todo EXCEPT ![g] = batch[g]]
            /\ UNCHANGED batch
       ELSE /\ batch' = [batch EXCEPT ![g] = {}]
            /\ UNCHANGED <<step, todo>>
    /\ UNCHANGED <<hostVars, factVars, size, rest, bad, command, pc, status, leader,
                   runs, upAtStart, out, stranded>>

\* wg.Wait: the next filter, on every host of the batch whatever came of the last
\* one; after the last filter the batch is over, and an error ends the group.
Wait(g) ==
    /\ status = "walk" /\ batch[g] # {} /\ todo[g] = {}
    /\ IF step[g] < Len(Filters(walk))
       THEN /\ step' = [step EXCEPT ![g] = @ + 1]
            /\ todo' = [todo EXCEPT ![g] = batch[g]]
            /\ UNCHANGED <<rest, batch>>
       ELSE /\ batch' = [batch EXCEPT ![g] = {}]
            /\ rest' = [rest EXCEPT ![g] = IF bad[g] THEN {} ELSE @]
            /\ UNCHANGED <<step, todo>>
    /\ UNCHANGED <<hostVars, factVars, size, bad, command, pc, status, leader,
                   runs, upAtStart, out, stranded>>

\* Mutant of EndWalk: the groups' errors are dropped.
EndWalkDropsErrors ==
    /\ status = "walk"
    /\ \A g \in Groups : batch[g] = {} /\ rest[g] = {}
    /\ NextPhase
    /\ UNCHANGED <<hostVars, factVars, walkVars, command, leader, runs, upAtStart, out, stranded>>

\* Mutant of EndWalk: a phase that failed is tried again.
EndWalkTriesAgain ==
    /\ status = "walk"
    /\ \A g \in Groups : batch[g] = {} /\ rest[g] = {}
    /\ IF \E g \in Groups : bad[g] THEN status' = "prepare" /\ UNCHANGED pc ELSE NextPhase
    /\ UNCHANGED <<hostVars, factVars, walkVars, command, leader, runs, upAtStart, out, stranded>>

\* The groups are waited for and their errors joined.
EndWalk ==
    /\ status = "walk"
    /\ \A g \in Groups : batch[g] = {} /\ rest[g] = {}
    /\ IF \E g \in Groups : bad[g] THEN status' = "err" /\ UNCHANGED pc ELSE NextPhase
    /\ UNCHANGED <<hostVars, factVars, walkVars, command, leader, runs, upAtStart, out, stranded>>

\* The process is interrupted or dies.
Cut ==
    /\ status \in {"prepare", "walk"}
    /\ status' = "cut"
    /\ UNCHANGED <<hostVars, factVars, walkVars, command, pc, leader, runs, upAtStart, out, stranded>>

Next ==
    \/ \E c \in Commands : StartRun(c)
    \/ Prepare \/ EndWalk \/ Cut
    \/ \E g \in Groups : TakeBatch(g) \/ Wait(g) \/ \E h \in Hosts : RunFilter(g, h)

Spec == Init /\ [][Next]_vars /\ WF_vars(Next)

-----------------------------------------------------------------------------
(* Properties.                                                             *)

Down(S) == {h \in S : up[h] = Stopped}

\* The controller walks take controllers one at a time: of the controllers that
\* ran when the last run started, at most one is down, failures included.
RunStopsOneController == \A c, d \in Down(upAtStart) : c = d

\* What docs/guides/profile-concurrency.md promises of a profile: the smallest
\* number of hosts that is the configured share of the hosts with the profile.
Setting(p) == IF ProfileConcurrency[p] = Unset THEN WorkerConcurrent ELSE ProfileConcurrency[p]
Share(p) ==
    LET total == Cardinality({h \in Workers : ProfileOf[h] = p}) IN
    IF Setting(p) \in {Unset, <<"count", 0>>} THEN total
    ELSE IF Setting(p)[1] = "count" THEN Setting(p)[2]
    ELSE CHOOSE n \in 1..(total + 1) :
            /\ 100 * n >= total * Setting(p)[2]
            /\ \A k \in 1..(n - 1) : 100 * k < total * Setting(p)[2]

\* However the walk goes, and after a failed batch too, no more workers of a
\* profile are out of service at a time than its share.
ProfileShareHeld ==
    ByProfile(walk) /\ status \in {"walk", "err", "cut"} =>
        \A p \in Profiles : Cardinality({h \in out : ProfileOf[h] = p}) <= Share(p)

\* A successful apply leaves every host running the package's version,
\* schedulable and free of drift, except those that were stranded before it.
AppliedUnlessStranded ==
    status = "ok" /\ command = "apply" =>
        \A h \in Hosts \ stranded :
            up[h] = Target /\ node[h] = "schedulable" /\ drift[h] = "none"

\* Every run ends: no group of a walk waits for ever.
RunsEnd == status \in {"prepare", "walk"} ~> status \in {"ok", "err", "cut"}

=============================================================================
