--------------------------- MODULE JoinTokensProofs ---------------------------
(* One cluster, everyone of the list in it and nobody left behind, for every *)
(* set of hosts and host lists and every pattern of failures and cut runs;   *)
(* then the kubeconfig and the labels of any number of such clusters, and    *)
(* what a run may take for granted of the hosts it goes on with.             *)
EXTENDS JoinTokens, Access, Preflight, FiniteSetTheorems, WellFoundedInduction, TLAPS

Members == {h \in Hosts : member[h] # 0}
Tokens == [control : Int, agent : Int]
RunRecord == [phase : Phases, result : {"none", "ok", "failed"}, list : Lists \union {<< >>},
              handed : [control : Nat, agent : Nat], todo : SUBSET Hosts, stranded : SUBSET Hosts,
              checked : SUBSET Hosts]

\* The tokens of a run are worth something, the packages are there before the start, and only
\* a host with data has its engine running.
Types ==
    /\ TypeOK
    /\ clusters \in Seq(Tokens) /\ run \in RunRecord
    /\ run.phase # "idle" => run.list \in Lists /\ run.handed.control > 0 /\ run.handed.agent > 0
    /\ run.phase = "start" => run.todo \subseteq installed
    /\ running \subseteq Members

\* A host that a run has configured has the tokens it needs, and a member never loses them.
HasTokens(h) == tokens[h].agent # Absent /\ (h \in Controllers => tokens[h].control # Absent)
Ready(h) == server[h] = Server(h) /\ HasTokens(h)
ReadyHosts ==
    kind = "rancher" =>
        /\ \A h \in Members : HasTokens(h)
        /\ run.phase = "configure" /\ run.result # "failed" => \A h \in Range(run.list) \ run.todo : Ready(h)
        /\ run.phase \in {"install", "start"} => \A h \in Range(run.list) : Ready(h)

\* While the leader is out, so is everyone: nobody founds a second cluster.
LeaderFirst ==
    run.phase # "idle" /\ "leader" \notin spoilt /\ member[Leader(run.list)] = 0 => Members = {}

TheCluster == "leader" \notin spoilt => \A g, h \in Members : member[g] = member[h]

\* Nothing has gone wrong: all token files that are there are one pair, which the cluster accepts.
Agree(t) ==
    /\ \A h \in Hosts : tokens[h].control \in {Absent, t.control} /\ tokens[h].agent \in {Absent, t.agent}
    /\ \A h \in Members : clusters[member[h]] = t

RancherTokens ==
    kind = "rancher" /\ spoilt = {} =>
        \E t \in [control : Nat \ {0}, agent : Nat \ {0}] :
            Agree(t) /\ (run.phase # "idle" => t = run.handed)

UpstreamTokens ==
    kind = "upstream" /\ spoilt = {} =>
        /\ expired = {}
        /\ \A h \in Hosts : tokens[h] # NoTokens =>
              /\ member[h] # 0 /\ clusters[member[h]] = tokens[h]
              /\ tokens[h].control # Absent /\ tokens[h].agent # Absent
        /\ Members # {} => \E h \in Hosts : tokens[h] # NoTokens
        /\ run.phase # "idle" /\ Members # {} => tokens[Leader(run.list)] # NoTokens

\* kubeadm is only run on hosts that have no data.
OnlyNew == kind = "upstream" /\ run.phase \in {"install", "start"} => run.todo \intersect Members = {}

\* Whom a run has still to bring up, and whom one that ended well has.
NobodySkipped ==
    /\ run.phase \in {"install", "start"} =>
          (Range(run.list) \intersect Controllers) \ run.stranded \subseteq Members \union run.todo
    /\ run.phase = "idle" /\ run.result = "ok" => Range(run.list) \ run.stranded \subseteq Members

\* Nobody outside the list is in the cluster that was asked.
CheckedAlone ==
    \A c \in run.checked : member[c] # 0 /\ \A h \in Hosts \ Range(run.list) : member[h] # member[c]

JoinInv ==
    /\ Types /\ ReadyHosts /\ MembersHoldTokens /\ JoinsAccepted
    /\ LeaderFirst /\ TheCluster /\ RancherTokens /\ UpstreamTokens
    /\ OnlyNew /\ NobodySkipped /\ CheckedAlone

-----------------------------------------------------------------------------
(* Lists and counters.                                                     *)

LEMMA ListHosts ==
  ASSUME NEW l \in Lists
  PROVE  /\ Range(l) \subseteq Hosts /\ Leader(l) \in Range(l) /\ Leader(l) \in Hosts
         /\ Leader(l) \in Controllers
<1>1. l \in Seq(Hosts) /\ l # << >> /\ l[1] \in Controllers
  BY JoinTokensAssumption
<1>2. 1 \in DOMAIN l
  BY <1>1
<1> QED
  BY <1>1, <1>2 DEF Range, Leader

LEMMA FirstHost ==
  ASSUME NEW l, NEW S, NEW h \in First(l, S)
  PROVE  h \in S /\ h \in Range(l)
BY DEF First, Range

\* The counters and the notes of what happened.
Counts ==
    /\ fresh \in Nat /\ runs \in 0..MaxRuns /\ deletes \in 0..MaxDeletes /\ faults \in 0..MaxFaults
    /\ spoilt \subseteq Reasons /\ refused \subseteq Hosts

LEMMA OneMore ==
  /\ \A x \in 0..MaxRuns : x < MaxRuns => x + 1 \in 0..MaxRuns
  /\ \A x \in 0..MaxDeletes : x < MaxDeletes => x + 1 \in 0..MaxDeletes
  /\ \A x \in 0..MaxFaults : x < MaxFaults => x + 1 \in 0..MaxFaults
  /\ fresh \in Nat => fresh + 2 \in Nat
BY JoinTokensAssumption

LEMMA Counted ==
  ASSUME Types, [Next]_vars
  PROVE  Counts'
<1>1. Counts /\ Fault => faults' \in 0..MaxFaults
  BY OneMore DEF Counts, Fault
<1>2. Counts
  BY DEF Types, TypeOK, Counts
<1>3. CASE StartRun
  <2>1. PICK l \in Lists, read \in BOOLEAN :
          /\ (IF read THEN UNCHANGED faults
              ELSE Fault /\ kind = "rancher" /\ tokens[Leader(l)] # NoTokens)
          /\ spoilt' = spoilt \union (IF MovesLeader(l) THEN {"leader"} ELSE {})
                            \union (IF LacksTokens(l) THEN {"tokenless"} ELSE {})
                            \union (IF read THEN {} ELSE {"unread"})
    BY <1>3 DEF StartRun
  <2>2. faults' \in 0..MaxFaults
    BY <1>1, <1>2, <2>1 DEF Counts
  <2>3. spoilt' \subseteq Reasons
    BY <1>2, <2>1 DEF Counts, Reasons
  <2>4. runs < MaxRuns /\ runs' = runs + 1 /\ fresh' = fresh + 2 /\ UNCHANGED <<deletes, refused>>
    BY <1>3 DEF StartRun
  <2>5. runs' \in 0..MaxRuns /\ fresh' \in Nat
    BY <1>2, <2>4, OneMore DEF Counts
  <2> QED
    BY <1>2, <2>2, <2>3, <2>4, <2>5 DEF Counts
<1>4. CASE RefuseRun
  <2>1. runs' \in 0..MaxRuns
    BY <1>2, <1>4, OneMore DEF Counts, RefuseRun
  <2> QED
    BY <1>2, <1>4, <2>1 DEF Counts, RefuseRun
<1>5. CASE ConfigureDone \/ install \/ phaseDone
  BY <1>1, <1>2, <1>5 DEF Counts, ConfigureDone, install, phaseDone
<1>6. CASE Start
  <2>1. PICK h \in First(run.list, run.todo) :
          IF kind = "rancher" THEN startService(h) /\ UNCHANGED faults ELSE Bootstrap(h)
    BY <1>6 DEF Start
  <2>2. UNCHANGED <<fresh, runs, deletes>> /\ h \in Hosts
    BY <1>6, FirstHost DEF Start, Types, RunRecord
  <2>3. CASE kind = "rancher"
    BY <1>2, <2>1, <2>2, <2>3 DEF Counts, startService
  <2>4. CASE kind # "rancher"
    BY <1>1, <1>2, <2>1, <2>2, <2>4 DEF Counts, Bootstrap, bootstrapLeader, bootstrapJoin, Reasons
  <2> QED
    BY <2>3, <2>4
<1>7. CASE StartFails \/ Cut
  BY <1>1, <1>2, <1>7 DEF Counts, StartFails, Cut
<1>8. CASE Expire
  BY <1>2, <1>8 DEF Counts, Expire, Reasons
<1>9. ASSUME NEW h \in Hosts, ConfigureEngine(h) PROVE Counts'
  BY <1>2, <1>9 DEF Counts, ConfigureEngine
<1>10. ASSUME NEW h \in Hosts, ConfigureFails(h) PROVE Counts'
  <2>1. faults' \in 0..MaxFaults /\ UNCHANGED <<fresh, runs, deletes, refused>>
    BY <1>1, <1>2, <1>10 DEF ConfigureFails
  <2>2. spoilt' = spoilt \/ spoilt' = spoilt \union {"torn"} \/ spoilt' = spoilt \union {}
    BY <1>10 DEF ConfigureFails
  <2> QED
    BY <1>2, <2>1, <2>2 DEF Counts, Reasons
<1>11. ASSUME NEW h \in Hosts, Delete(h) PROVE Counts'
  <2>1. deletes' \in 0..MaxDeletes /\ UNCHANGED <<fresh, runs, faults>>
    BY <1>2, <1>11, OneMore DEF Counts, Delete
  <2>2. /\ spoilt' = spoilt \union {"deleted"} \/ spoilt' = spoilt \union {}
        /\ refused' = refused \ {h}
    BY <1>11 DEF Delete
  <2> QED
    BY <1>2, <2>1, <2>2 DEF Counts, Reasons
<1>12. CASE UNCHANGED vars
  BY <1>2, <1>12 DEF Counts, vars
<1> QED
  BY <1>3, <1>4, <1>5, <1>6, <1>7, <1>8, <1>9, <1>10, <1>11, <1>12 DEF Next

-----------------------------------------------------------------------------
(* Steps that change nothing but the run and the packages, or start the    *)
(* engine of a member again.                                               *)

Apart ==
    /\ UNCHANGED <<kind, tokens, server, member, clusters, expired, spoilt>>
    /\ running' \subseteq running \union (Members \intersect installed)

LEMMA ApartKeeps ==
  ASSUME JoinInv, Apart,
         run'.phase = "idle" \/ (run.phase # "idle" /\ run'.list = run.list /\ run'.handed = run.handed)
  PROVE  /\ Members' = Members /\ MembersHoldTokens' /\ LeaderFirst' /\ TheCluster'
         /\ RancherTokens' /\ UpstreamTokens'
<1>1. Members' = Members
  BY DEF Members, Apart
<1>2. MembersHoldTokens'
  BY DEF JoinInv, MembersHoldTokens, Apart
<1>3. LeaderFirst'
  BY <1>1 DEF JoinInv, LeaderFirst, Apart
<1>4. TheCluster'
  BY <1>1 DEF JoinInv, TheCluster, Apart
<1>5. RancherTokens'
  <2>1. SUFFICES ASSUME kind = "rancher", spoilt = {}
                 PROVE \E t \in [control : Nat \ {0}, agent : Nat \ {0}] :
                         Agree(t)' /\ (run'.phase # "idle" => t = run'.handed)
    BY DEF RancherTokens, Apart
  <2>2. PICK t \in [control : Nat \ {0}, agent : Nat \ {0}] :
          Agree(t) /\ (run.phase # "idle" => t = run.handed)
    BY <2>1 DEF JoinInv, RancherTokens
  <2>3. Agree(t)'
    BY <1>1, <2>2 DEF Agree, Apart
  <2> QED
    BY <2>2, <2>3
<1>6. UpstreamTokens'
  BY <1>1 DEF JoinInv, UpstreamTokens, Apart
<1> QED
  BY <1>1, <1>2, <1>3, <1>4, <1>5, <1>6

\* The parts of a run's record.
LEMMA RunFields ==
  ASSUME run \in RunRecord
  PROVE  /\ run.phase \in Phases /\ run.result \in {"none", "ok", "failed"} /\ run.list \in Lists \union {<< >>}
         /\ run.handed \in [control : Nat, agent : Nat] /\ run.todo \subseteq Hosts
         /\ run.stranded \subseteq Hosts /\ run.checked \subseteq Hosts
BY DEF RunRecord

LEMMA EndedRun ==
  ASSUME run \in RunRecord, NEW r \in {"ok", "failed"}
  PROVE  /\ Ended(r) \in RunRecord /\ Ended(r).phase = "idle" /\ Ended(r).result = r /\ Ended(r).todo = {}
         /\ Ended(r).list = run.list /\ Ended(r).stranded = run.stranded /\ Ended(r).checked = run.checked
BY RunFields DEF Ended, NoRun, NoTokens, Absent, RunRecord, Phases

LEMMA FreshRun == NoRun \in RunRecord /\ NoRun.phase = "idle" /\ NoRun.result = "none" /\ NoRun.todo = {}
                  /\ NoRun.checked = {} /\ NoRun.list = << >> /\ NoRun.stranded = {}
BY DEF NoRun, NoTokens, Absent, RunRecord, Phases

\* A run that is over for want of something: packages may have been installed.
LEMMA EndsApart ==
  ASSUME JoinInv, Apart, Counts', JoinsAccepted', installed \subseteq installed', installed' \subseteq Hosts,
         run' \in RunRecord, run'.phase = "idle", run'.todo = {},
         run'.result = "ok" => Range(run'.list) \ run'.stranded \subseteq Members,
         run'.checked = {} \/ (run'.checked = run.checked /\ run'.list = run.list)
  PROVE  JoinInv'
<1>1. /\ Members' = Members /\ MembersHoldTokens' /\ LeaderFirst' /\ TheCluster'
      /\ RancherTokens' /\ UpstreamTokens'
  BY ApartKeeps
<1>2. TypeOK'
  <2>1. /\ run'.result \in {"none", "ok", "failed"} /\ run'.stranded \subseteq Hosts /\ run'.checked \subseteq Hosts
        /\ run'.phase \in Phases
    BY DEF RunRecord
  <2> QED
    BY <2>1 DEF JoinInv, Types, TypeOK, Apart, Counts
<1>3. Types'
  BY <1>1, <1>2 DEF JoinInv, Types, Apart, RunRecord
<1>4. ReadyHosts'
  BY <1>1 DEF JoinInv, ReadyHosts, HasTokens, Apart
<1>5. OnlyNew' /\ NobodySkipped'
  BY <1>1 DEF OnlyNew, NobodySkipped
<1>6. CheckedAlone'
  BY DEF JoinInv, CheckedAlone, Apart
<1> QED
  BY <1>1, <1>3, <1>4, <1>5, <1>6 DEF JoinInv

\* A run goes on with its list, from hosts that are ready.
LEMMA GoesOnApart ==
  ASSUME JoinInv, Apart, Counts', installed \subseteq installed', installed' \subseteq Hosts, refused' = refused,
         run.phase # "idle", run' \in RunRecord, run'.phase \in {"install", "start"}, run'.list = run.list,
         run'.handed = run.handed, run'.checked = run.checked, run'.todo \subseteq Range(run.list),
         \A h \in Range(run.list) : kind = "rancher" => Ready(h),
         run'.phase = "start" => run'.todo \subseteq installed',
         kind = "upstream" => run'.todo \intersect Members = {},
         (Range(run.list) \intersect Controllers) \ run'.stranded \subseteq Members \union run'.todo
  PROVE  JoinInv'
<1>1. /\ Members' = Members /\ MembersHoldTokens' /\ LeaderFirst' /\ TheCluster'
      /\ RancherTokens' /\ UpstreamTokens'
  BY ApartKeeps
<1>2. TypeOK'
  <2>1. /\ run'.result \in {"none", "ok", "failed"} /\ run'.stranded \subseteq Hosts /\ run'.checked \subseteq Hosts
        /\ run'.phase \in Phases
    BY DEF RunRecord
  <2> QED
    BY <2>1 DEF JoinInv, Types, TypeOK, Apart, Counts
<1>3. Types'
  BY <1>1, <1>2 DEF JoinInv, Types, Apart
<1>4. ReadyHosts'
  BY <1>1 DEF JoinInv, ReadyHosts, Ready, HasTokens, Server, Apart
<1>5. OnlyNew' /\ NobodySkipped'
  BY <1>1 DEF OnlyNew, NobodySkipped, Apart
<1>6. CheckedAlone' /\ JoinsAccepted'
  BY DEF JoinInv, CheckedAlone, JoinsAccepted, Apart
<1> QED
  BY <1>1, <1>3, <1>4, <1>5, <1>6 DEF JoinInv

LEMMA RefuseRunStep ==
  ASSUME JoinInv, RefuseRun, Counts'
  PROVE  JoinInv'
<1>1. PICK l \in Lists : run' = [NoRun EXCEPT !.result = "failed", !.list = l]
  BY DEF RefuseRun
<1>2. /\ run' \in RunRecord /\ run'.phase = "idle" /\ run'.result = "failed" /\ run'.todo = {}
      /\ run'.checked = {}
  BY <1>1, FreshRun DEF RunRecord
<1>3. Apart /\ UNCHANGED <<installed, refused>>
  BY DEF RefuseRun, Apart, hostVars
<1>4. JoinsAccepted' /\ installed \subseteq Hosts
  BY <1>3 DEF JoinInv, JoinsAccepted, Apart, Types, TypeOK
<1> QED
  BY <1>2, <1>3, <1>4, EndsApart

\* Cut, StartFails and the errors of the other steps.
LEMMA RunFailed ==
  ASSUME JoinInv, Counts', Apart, run' = Ended("failed"),
         installed \subseteq installed', installed' \subseteq Hosts, JoinsAccepted'
  PROVE  JoinInv'
<1>1. run \in RunRecord
  BY DEF JoinInv, Types
<1>2. /\ run' \in RunRecord /\ run'.phase = "idle" /\ run'.result = "failed" /\ run'.todo = {}
      /\ run'.list = run.list /\ run'.checked = run.checked
  BY <1>1, EndedRun
<1> QED
  BY <1>2, EndsApart

LEMMA CutStep ==
  ASSUME JoinInv, Cut \/ StartFails, Counts'
  PROVE  JoinInv'
<1>1. Apart /\ UNCHANGED <<installed, refused>> /\ run' = Ended("failed")
  BY DEF Cut, StartFails, Apart, hostVars
<1>2. JoinsAccepted' /\ installed \subseteq Hosts
  BY <1>1 DEF JoinInv, JoinsAccepted, Apart, Types, TypeOK
<1> QED
  BY <1>1, <1>2, RunFailed

LEMMA ConfigureDoneStep ==
  ASSUME JoinInv, ConfigureDone, Counts'
  PROVE  JoinInv'
<1>1. Apart /\ UNCHANGED <<installed, refused>> /\ run.phase = "configure" /\ run.todo = {}
  BY DEF ConfigureDone, Apart, hostVars
<1>2. JoinsAccepted' /\ installed \subseteq Hosts /\ run \in RunRecord
  BY <1>1 DEF JoinInv, JoinsAccepted, Apart, Types, TypeOK
<1>3. CASE run.result = "failed"
  BY <1>1, <1>2, <1>3, RunFailed DEF ConfigureDone
<1>4. CASE run.result # "failed"
  <2>1. run.list \in Lists /\ Range(run.list) \subseteq Hosts
    BY <1>1, ListHosts DEF JoinInv, Types
  <2> DEFINE T == controllersNeedingInit(run.list)
  <2> DEFINE S == Stranded(run.list)
  <2>2. T \subseteq Range(run.list) /\ S \subseteq Hosts
    BY <2>1 DEF controllersNeedingInit, Stranded
  <2>3. kind = "upstream" => T \intersect Members = {}
    BY DEF controllersNeedingInit, IsBootstrapped, Members
  <2>4. (Range(run.list) \intersect Controllers) \ S \subseteq Members \union T
    <3>1. kind \in {"rancher", "upstream"} /\ running \subseteq Members
      BY JoinTokensAssumption DEF JoinInv, Types, TypeOK
    <3> QED
      BY <2>1, <3>1 DEF controllersNeedingInit, IsBootstrapped, Stranded, Members
  <2>5. run' = [run EXCEPT !.phase = "install", !.todo = T, !.stranded = S]
    BY <1>4 DEF ConfigureDone
  <2> HIDE DEF T, S
  <2>6. /\ run' \in RunRecord /\ run'.phase = "install" /\ run'.list = run.list /\ run'.handed = run.handed
        /\ run'.checked = run.checked /\ run'.todo = T /\ run'.stranded = S
    BY <1>2, <2>1, <2>2, <2>5 DEF RunRecord, Phases
  <2>7. \A h \in Range(run.list) : kind = "rancher" => Ready(h)
    BY <1>1, <1>4 DEF JoinInv, ReadyHosts
  <2> QED
    BY <1>1, <1>2, <2>2, <2>3, <2>4, <2>6, <2>7, GoesOnApart
<1> QED
  BY <1>3, <1>4

LEMMA InstallStep ==
  ASSUME JoinInv, install, Counts'
  PROVE  JoinInv'
<1>1. PICK done \in SUBSET run.todo :
        /\ installed' = installed \union done
        /\ IF done = run.todo THEN run' = [run EXCEPT !.phase = "start"] ELSE run' = Ended("failed")
  BY DEF install
<1>2. Apart /\ UNCHANGED refused /\ run.phase = "install"
  BY DEF install, Apart
<1>3. JoinsAccepted' /\ installed \subseteq Hosts /\ run \in RunRecord /\ run.todo \subseteq Hosts
      /\ run.todo \subseteq Range(run.list)
  BY <1>2, RunFields DEF JoinInv, JoinsAccepted, Apart, Types, TypeOK
<1>4. installed \subseteq installed' /\ installed' \subseteq Hosts
  BY <1>1, <1>3
<1>5. CASE done # run.todo
  BY <1>1, <1>2, <1>3, <1>4, <1>5, RunFailed
<1>6. CASE done = run.todo
  <2>1. /\ run' \in RunRecord /\ run'.phase = "start" /\ run'.list = run.list /\ run'.handed = run.handed
        /\ run'.checked = run.checked /\ run'.todo = run.todo /\ run'.stranded = run.stranded
    BY <1>1, <1>3, <1>6 DEF RunRecord, Phases
  <2>2. \A h \in Range(run.list) : kind = "rancher" => Ready(h)
    BY <1>2 DEF JoinInv, ReadyHosts
  <2>3. /\ kind = "upstream" => run.todo \intersect Members = {}
        /\ (Range(run.list) \intersect Controllers) \ run.stranded \subseteq Members \union run.todo
    BY <1>2 DEF JoinInv, OnlyNew, NobodySkipped
  <2> QED
    BY <1>1, <1>2, <1>3, <1>4, <1>6, <2>1, <2>2, <2>3, GoesOnApart
<1> QED
  BY <1>5, <1>6

LEMMA PhaseDoneStep ==
  ASSUME JoinInv, phaseDone, Counts'
  PROVE  JoinInv'
<1> DEFINE T == workersNeedingInit(run.list)
<1>1. Apart /\ UNCHANGED <<installed, refused>> /\ run.phase \in {"install", "start"} /\ run.todo = {}
  BY DEF phaseDone, Apart, hostVars
<1>2. JoinsAccepted' /\ installed \subseteq Hosts /\ run \in RunRecord
  BY <1>1 DEF JoinInv, JoinsAccepted, Apart, Types, TypeOK
<1>3. run' = IF T = {} THEN Ended("ok") ELSE [run EXCEPT !.phase = "install", !.todo = T]
  BY DEF phaseDone
<1>4. run.list \in Lists /\ Range(run.list) \subseteq Hosts
  BY <1>1, ListHosts DEF JoinInv, Types
<1>5. T \subseteq Range(run.list) /\ (kind = "upstream" => T \intersect Members = {})
  BY DEF workersNeedingInit, IsBootstrapped, Members
<1>6. (Range(run.list) \intersect Controllers) \ run.stranded \subseteq Members
  BY <1>1 DEF JoinInv, NobodySkipped
<1>7. CASE T = {}
  <2>1. Range(run.list) \ Controllers \subseteq Members
    <3>1. kind \in {"rancher", "upstream"} /\ running \subseteq Members
      BY JoinTokensAssumption DEF JoinInv, Types, TypeOK
    <3> QED
      BY <1>4, <1>7, <3>1 DEF workersNeedingInit, IsBootstrapped, Members
  <2>2. /\ run' \in RunRecord /\ run'.phase = "idle" /\ run'.todo = {} /\ run'.list = run.list
        /\ run'.stranded = run.stranded /\ run'.checked = run.checked
    BY <1>2, <1>3, <1>7, EndedRun
  <2> HIDE DEF T
  <2> QED
    BY <1>1, <1>2, <1>6, <2>1, <2>2, EndsApart
<1>8. CASE T # {}
  <2> HIDE DEF T
  <2>1. /\ run' \in RunRecord /\ run'.phase = "install" /\ run'.list = run.list /\ run'.handed = run.handed
        /\ run'.checked = run.checked /\ run'.todo = T /\ run'.stranded = run.stranded
    BY <1>2, <1>3, <1>4, <1>5, <1>8 DEF RunRecord, Phases
  <2>2. \A h \in Range(run.list) : kind = "rancher" => Ready(h)
    BY <1>1 DEF JoinInv, ReadyHosts
  <2> QED
    BY <1>1, <1>2, <1>5, <1>6, <2>1, <2>2, GoesOnApart
<1> QED
  BY <1>7, <1>8

-----------------------------------------------------------------------------
(* A run starts: the tokens it hands out.                                  *)

LEMMA TokenPositive ==
  ASSUME NEW held \in Int, NEW read \in BOOLEAN, NEW new \in Nat \ {0}
  PROVE  /\ Token(held, read, new) \in Nat \ {0}
         /\ read /\ held > 0 => Token(held, read, new) = held
BY DEF Token

LEMMA StartRunStep ==
  ASSUME JoinInv, StartRun, Counts'
  PROVE  JoinInv'
<1>1. PICK l \in Lists, read \in BOOLEAN :
        /\ ~read => kind = "rancher"
        /\ run' = [NoRun EXCEPT !.phase = "configure", !.list = l, !.todo = Range(l),
                     !.checked = IF unmanagedNodes(l) = {} THEN Asked(l) ELSE {},
                     !.handed = [control |-> Token(tokens[Leader(l)].control, read, fresh + 1),
                                 agent |-> Token(tokens[Leader(l)].agent, read, fresh + 2)]]
        /\ spoilt' = spoilt \union (IF MovesLeader(l) THEN {"leader"} ELSE {})
                            \union (IF LacksTokens(l) THEN {"tokenless"} ELSE {})
                            \union (IF read THEN {} ELSE {"unread"})
  BY DEF StartRun
<1> DEFINE t0 == tokens[Leader(l)]
<1> DEFINE given == [control |-> Token(t0.control, read, fresh + 1), agent |-> Token(t0.agent, read, fresh + 2)]
<1> DEFINE asked == IF unmanagedNodes(l) = {} THEN Asked(l) ELSE {}
<1>2. UNCHANGED <<kind, tokens, server, installed, member, running, clusters, expired, refused>>
  BY DEF StartRun, hostVars
<1>3. /\ Leader(l) \in Hosts /\ Leader(l) \in Controllers /\ Leader(l) \in Range(l) /\ Range(l) \subseteq Hosts
      /\ t0 \in [control : Int, agent : Int] /\ fresh \in Nat /\ running \subseteq Hosts
  BY ListHosts DEF JoinInv, Types, TypeOK
<1>4. /\ given \in [control : Nat, agent : Nat] /\ given.control \in Nat \ {0} /\ given.agent \in Nat \ {0}
      /\ read /\ t0.control > 0 => given.control = t0.control
      /\ read /\ t0.agent > 0 => given.agent = t0.agent
  <2>1. fresh + 1 \in Nat \ {0} /\ fresh + 2 \in Nat \ {0} /\ t0.control \in Int /\ t0.agent \in Int
    BY <1>3
  <2> HIDE DEF t0
  <2>2. /\ Token(t0.control, read, fresh + 1) \in Nat \ {0} /\ Token(t0.agent, read, fresh + 2) \in Nat \ {0}
        /\ read /\ t0.control > 0 => Token(t0.control, read, fresh + 1) = t0.control
        /\ read /\ t0.agent > 0 => Token(t0.agent, read, fresh + 2) = t0.agent
    BY <2>1, TokenPositive
  <2> QED
    BY <2>2
<1>5. asked \subseteq running /\ asked \subseteq Hosts /\ \A c \in asked, h \in Hosts \ Range(l) : member[h] # member[c]
  <2>1. Asked(l) \subseteq Controllers \intersect running
    BY FirstHost DEF Asked
  <2> QED
    BY <1>3, <2>1 DEF unmanagedNodes
<1>6. /\ run'.phase = "configure" /\ run'.result = "none" /\ run'.list = l /\ run'.todo = Range(l)
      /\ run'.checked = asked /\ run'.handed = given /\ run'.stranded = {} /\ run' \in RunRecord
  <2> HIDE DEF given, asked
  <2>1. run' = [NoRun EXCEPT !.phase = "configure", !.list = l, !.todo = Range(l), !.checked = asked, !.handed = given]
    BY <1>1 DEF given, asked
  <2> QED
    BY <1>3, <1>4, <1>5, <2>1, FreshRun DEF NoRun, RunRecord, Phases
<1> HIDE DEF given, asked
<1>7. Members' = Members /\ running \subseteq Members /\ spoilt \subseteq spoilt'
  BY <1>1, <1>2 DEF Members, JoinInv, Types
<1>8. Types'
  <2>1. TypeOK'
    BY <1>2, <1>3, <1>5, <1>6 DEF JoinInv, Types, TypeOK, Counts, Phases
  <2> QED
    BY <1>2, <1>4, <1>6, <1>7, <2>1 DEF JoinInv, Types
<1>9. ReadyHosts'
  BY <1>2, <1>6, <1>7 DEF JoinInv, ReadyHosts, HasTokens
<1>10. MembersHoldTokens' /\ JoinsAccepted'
  BY <1>2, <1>7 DEF JoinInv, MembersHoldTokens, JoinsAccepted
<1>11. "leader" \notin spoilt' => ~MovesLeader(l)
  BY <1>1
<1>12. LeaderFirst' /\ TheCluster'
  BY <1>2, <1>6, <1>7, <1>11 DEF JoinInv, LeaderFirst, TheCluster, MovesLeader, Members
<1>13. OnlyNew' /\ NobodySkipped'
  BY <1>6 DEF OnlyNew, NobodySkipped
<1>14. CheckedAlone'
  BY <1>2, <1>5, <1>6, <1>7 DEF CheckedAlone, Members
<1>15. ASSUME spoilt' = {} PROVE spoilt = {} /\ ~MovesLeader(l) /\ ~LacksTokens(l) /\ read
  BY <1>1, <1>15
<1>16. RancherTokens'
  <2>1. SUFFICES ASSUME kind = "rancher", spoilt' = {}
                 PROVE \E t \in [control : Nat \ {0}, agent : Nat \ {0}] :
                         Agree(t)' /\ (run'.phase # "idle" => t = run'.handed)
    BY <1>2 DEF RancherTokens
  <2>0. PICK g \in [control : Nat \ {0}, agent : Nat \ {0}] : g = given
    BY <1>4
  <2>2. PICK t \in [control : Nat \ {0}, agent : Nat \ {0}] : Agree(t)
    BY <2>1, <1>15 DEF JoinInv, RancherTokens
  <2>3. /\ t.control > 0 /\ t.agent > 0
        /\ t0.control \in {Absent, t.control} /\ t0.agent \in {Absent, t.agent}
    BY <1>3, <2>2 DEF Agree
  <2>4. t0.control # Absent => given.control = t.control
    BY <1>4, <1>15, <2>1, <2>3 DEF Absent
  <2>5. t0.agent # Absent => given.agent = t.agent
    BY <1>4, <1>15, <2>1, <2>3 DEF Absent
  <2>6. /\ t0.control = Absent => \A h \in Hosts : tokens[h].control = Absent
        /\ t0.agent = Absent => \A h \in Hosts : tokens[h].agent = Absent
    BY <1>15, <2>1 DEF LacksTokens
  <2>7. Members # {} => t0.control # Absent /\ t0.agent # Absent
    <3>1. Members # {} => Leader(l) \in Members
      BY <1>3, <1>15, <2>1 DEF MovesLeader, Members
    <3> QED
      BY <1>3, <2>1, <3>1 DEF JoinInv, ReadyHosts, HasTokens
  <2>8. \A h \in Hosts : tokens[h].control \in {Absent, given.control} /\ tokens[h].agent \in {Absent, given.agent}
    BY <2>2, <2>4, <2>5, <2>6 DEF Agree
  <2>9. \A h \in Members : clusters[member[h]] = given
    <3>1. Members # {} => given = t
      BY <1>4, <2>2, <2>4, <2>5, <2>7
    <3> QED
      BY <2>2, <3>1 DEF Agree
  <2>10. Agree(g)'
    BY <1>2, <1>7, <2>0, <2>8, <2>9 DEF Agree
  <2> QED
    BY <1>6, <2>0, <2>10
<1>17. UpstreamTokens'
  <2>1. SUFFICES ASSUME kind = "upstream", spoilt' = {} PROVE UpstreamTokens'
    BY <1>2 DEF UpstreamTokens
  <2>2. UpstreamTokens /\ spoilt = {} /\ ~LacksTokens(l)
    BY <2>1, <1>15 DEF JoinInv
  <2>3. Members # {} => t0 # NoTokens
    <3>1. SUFFICES ASSUME Members # {}, t0 = NoTokens PROVE FALSE
      OBVIOUS
    <3>2. PICK h \in Hosts : tokens[h] # NoTokens
      BY <2>1, <2>2, <3>1 DEF UpstreamTokens
    <3>3. tokens[h].control # Absent /\ t0.control = Absent
      BY <2>1, <2>2, <3>1, <3>2 DEF UpstreamTokens, NoTokens
    <3> QED
      BY <2>2, <3>3 DEF LacksTokens
  <2> QED
    BY <1>2, <1>6, <1>7, <2>1, <2>2, <2>3 DEF UpstreamTokens
<1> QED
  BY <1>8, <1>9, <1>10, <1>12, <1>13, <1>14, <1>16, <1>17 DEF JoinInv

-----------------------------------------------------------------------------
(* Hosts are configured.                                                   *)

LEMMA HandedTokens ==
  ASSUME JoinInv, run.phase = "configure", NEW h \in Hosts
  PROVE  /\ Handed(h) \in Tokens /\ Handed(h).agent # Absent /\ (h \in Controllers => Handed(h).control # Absent)
         /\ Handed(h).control = tokens[h].control
              \/ (tokens[h].control = Absent /\ h \in Controllers /\ Handed(h).control = run.handed.control)
         /\ Handed(h).agent = tokens[h].agent
              \/ (tokens[h].agent = Absent /\ Handed(h).agent = run.handed.agent)
<1>1. /\ tokens[h] \in Tokens /\ run.handed \in [control : Nat, agent : Nat]
      /\ run.handed.control > 0 /\ run.handed.agent > 0
  BY RunFields DEF JoinInv, Types, TypeOK, Tokens
<1> QED
  BY <1>1 DEF Handed, Tokens, Absent

\* One host's token files are written, those it lacked.
LEMMA TokensWritten ==
  ASSUME JoinInv, NEW h \in run.todo, NEW tok \in Tokens, Counts',
         kind = "rancher", run.phase = "configure",
         UNCHANGED <<kind, hostVars, refused>>, spoilt \subseteq spoilt',
         tokens' = [tokens EXCEPT ![h] = tok],
         server' \in [Hosts -> Hosts \union {NoHost}], \A g \in Hosts : g # h => server'[g] = server[g],
         run' \in RunRecord, run'.phase = "configure", run'.list = run.list, run'.handed = run.handed,
         run'.todo = run.todo \ {h}, run'.checked = run.checked, run'.stranded = run.stranded,
         run'.result # "failed" => run.result # "failed" /\ server'[h] = Server(h) /\ HasTokens(h)',
         tokens[h].control # Absent => tok.control = tokens[h].control,
         tokens[h].agent # Absent => tok.agent = tokens[h].agent,
         spoilt' = {} => tok.control \in {Absent, tokens[h].control, run.handed.control}
                         /\ tok.agent \in {Absent, tokens[h].agent, run.handed.agent}
  PROVE  JoinInv'
<1>1. /\ h \in Hosts /\ tokens \in [Hosts -> Tokens] /\ tokens' \in [Hosts -> Tokens] /\ tokens'[h] = tok
      /\ \A g \in Hosts : g # h => tokens'[g] = tokens[g]
  BY RunFields DEF JoinInv, Types, TypeOK, Tokens
<1>2. UNCHANGED <<kind, installed, member, running, clusters, expired, refused>> /\ Members' = Members
  BY DEF hostVars, Members
<1>3. \A g \in Members : HasTokens(g)' /\ (g \in Controllers => tokens'[g].control = tokens[g].control)
  BY <1>1 DEF JoinInv, ReadyHosts, HasTokens, Members
<1>4. TypeOK'
  BY <1>1, <1>2 DEF JoinInv, Types, TypeOK, Counts, RunRecord, Tokens
<1>5. Types'
  BY <1>2, <1>4 DEF JoinInv, Types
<1>6. ReadyHosts'
  <2>1. ASSUME run'.result # "failed", NEW g \in Range(run.list) \ (run.todo \ {h}) PROVE Ready(g)'
    <3>1. CASE g = h
      BY <2>1, <3>1 DEF Ready, Server
    <3>2. CASE g # h
      <4>1. g \in Hosts /\ Ready(g)
        BY <2>1, <3>2, ListHosts DEF JoinInv, ReadyHosts, Types
      <4> QED
        BY <1>1, <3>2, <4>1 DEF Ready, HasTokens, Server
    <3> QED
      BY <3>1, <3>2
  <2> QED
    BY <1>2, <1>3, <2>1 DEF ReadyHosts
<1>7. MembersHoldTokens'
  BY <1>2, <1>3, JoinTokensAssumption DEF JoinInv, MembersHoldTokens, Members
<1>8. JoinsAccepted' /\ LeaderFirst' /\ TheCluster'
  BY <1>2 DEF JoinInv, JoinsAccepted, LeaderFirst, TheCluster
<1>9. RancherTokens'
  <2>1. SUFFICES ASSUME spoilt' = {}
                 PROVE \E t \in [control : Nat \ {0}, agent : Nat \ {0}] :
                         Agree(t)' /\ (run'.phase # "idle" => t = run'.handed)
    BY DEF RancherTokens
  <2>2. PICK t \in [control : Nat \ {0}, agent : Nat \ {0}] : Agree(t) /\ t = run.handed
    BY <2>1 DEF JoinInv, RancherTokens
  <2>3. \A g \in Hosts : tokens'[g].control \in {Absent, t.control} /\ tokens'[g].agent \in {Absent, t.agent}
    BY <1>1, <2>1, <2>2 DEF Agree
  <2>4. Agree(t)'
    BY <1>2, <2>2, <2>3 DEF Agree
  <2> QED
    BY <2>2, <2>4
<1>10. UpstreamTokens' /\ OnlyNew' /\ NobodySkipped'
  BY <1>2 DEF UpstreamTokens, OnlyNew, NobodySkipped
<1>11. CheckedAlone'
  BY <1>2 DEF JoinInv, CheckedAlone
<1> QED
  BY <1>5, <1>6, <1>7, <1>8, <1>9, <1>10, <1>11 DEF JoinInv

\* kubeadm's hosts are given no token file before their cluster is there.
LEMMA NothingWritten ==
  ASSUME JoinInv, NEW h \in run.todo, Counts', kind # "rancher", run.phase = "configure",
         UNCHANGED <<kind, tokens, server, hostVars, refused, spoilt>>,
         run' \in RunRecord, run'.phase = "configure", run'.list = run.list, run'.handed = run.handed,
         run'.todo = run.todo \ {h}, run'.checked = run.checked, run'.stranded = run.stranded
  PROVE  JoinInv'
<1>1. Apart /\ UNCHANGED <<installed, refused>>
  BY DEF Apart, hostVars
<1>2. /\ Members' = Members /\ MembersHoldTokens' /\ LeaderFirst' /\ TheCluster'
      /\ RancherTokens' /\ UpstreamTokens'
  BY <1>1, ApartKeeps
<1>3. TypeOK'
  BY <1>1 DEF JoinInv, Types, TypeOK, Counts, RunRecord, Apart
<1>4. Types'
  BY <1>1, <1>2, <1>3 DEF JoinInv, Types, Apart
<1>5. ReadyHosts' /\ OnlyNew' /\ NobodySkipped'
  BY DEF ReadyHosts, OnlyNew, NobodySkipped
<1>6. CheckedAlone' /\ JoinsAccepted'
  BY <1>1 DEF JoinInv, CheckedAlone, JoinsAccepted, Apart
<1> QED
  BY <1>2, <1>4, <1>5, <1>6 DEF JoinInv

LEMMA ConfigureEngineStep ==
  ASSUME JoinInv, NEW h \in Hosts, ConfigureEngine(h), Counts'
  PROVE  JoinInv'
<1>1. /\ run.phase = "configure" /\ h \in run.todo /\ run' = [run EXCEPT !.todo = @ \ {h}] /\ Configured(h)
      /\ UNCHANGED <<kind, hostVars, spoilt, refused>> /\ run \in RunRecord
  BY DEF ConfigureEngine, JoinInv, Types
<1>2. /\ run' \in RunRecord /\ run'.phase = "configure" /\ run'.list = run.list /\ run'.handed = run.handed
      /\ run'.todo = run.todo \ {h} /\ run'.checked = run.checked /\ run'.stranded = run.stranded
      /\ run'.result = run.result
  BY <1>1 DEF RunRecord
<1>3. CASE kind = "rancher"
  <2>1. PICK tok \in Tokens : tok = Handed(h)
    BY <1>1, HandedTokens
  <2>2. /\ tok.agent # Absent /\ (h \in Controllers => tok.control # Absent)
        /\ tok.control = tokens[h].control
              \/ (tokens[h].control = Absent /\ h \in Controllers /\ tok.control = run.handed.control)
        /\ tok.agent = tokens[h].agent \/ (tokens[h].agent = Absent /\ tok.agent = run.handed.agent)
    BY <1>1, <2>1, HandedTokens
  <2>3. tokens' = [tokens EXCEPT ![h] = tok] /\ server' = [server EXCEPT ![h] = Server(h)]
    BY <1>1, <1>3, <2>1 DEF Configured
  <2>4. /\ server \in [Hosts -> Hosts \union {NoHost}] /\ Server(h) \in Hosts \union {NoHost}
        /\ DOMAIN tokens = Hosts
    BY <1>1, ListHosts DEF JoinInv, Types, TypeOK, Server
  <2>5. /\ server' \in [Hosts -> Hosts \union {NoHost}] /\ server'[h] = Server(h)
        /\ \A g \in Hosts : g # h => server'[g] = server[g]
    BY <2>3, <2>4
  <2>6. HasTokens(h)'
    BY <2>2, <2>3, <2>4 DEF HasTokens
  <2>7. run'.result # "failed" => run.result # "failed" /\ server'[h] = Server(h) /\ HasTokens(h)'
    BY <1>2, <2>5, <2>6
  <2> QED
    BY <1>1, <1>2, <1>3, <2>2, <2>3, <2>5, <2>7, TokensWritten
<1>4. CASE kind # "rancher"
  BY <1>1, <1>2, <1>4, NothingWritten DEF Configured
<1> QED
  BY <1>3, <1>4

LEMMA ConfigureFailsStep ==
  ASSUME JoinInv, NEW h \in Hosts, ConfigureFails(h), Counts'
  PROVE  JoinInv'
<1>1. /\ run.phase = "configure" /\ h \in run.todo
      /\ run' = [run EXCEPT !.todo = @ \ {h}, !.result = "failed"]
      /\ UNCHANGED <<kind, server, hostVars, refused>> /\ run \in RunRecord
  BY DEF ConfigureFails, JoinInv, Types
<1>2. /\ run' \in RunRecord /\ run'.phase = "configure" /\ run'.list = run.list /\ run'.handed = run.handed
      /\ run'.todo = run.todo \ {h} /\ run'.checked = run.checked /\ run'.stranded = run.stranded
      /\ run'.result = "failed"
  BY <1>1 DEF RunRecord
<1>3. server \in [Hosts -> Hosts \union {NoHost}] /\ tokens[h] \in Tokens
  BY DEF JoinInv, Types, TypeOK, Tokens
<1>4. CASE kind = "rancher"
  <2>1. /\ Handed(h) \in Tokens
        /\ Handed(h).control = tokens[h].control
              \/ (tokens[h].control = Absent /\ Handed(h).control = run.handed.control)
        /\ Handed(h).agent = tokens[h].agent
              \/ (tokens[h].agent = Absent /\ Handed(h).agent = run.handed.agent)
    BY <1>1, HandedTokens
  <2>2. PICK tok \in Tokens :
          /\ tokens' = [tokens EXCEPT ![h] = tok] /\ spoilt \subseteq spoilt'
          /\ tokens[h].control # Absent => tok.control = tokens[h].control
          /\ tokens[h].agent # Absent => tok.agent = tokens[h].agent
          /\ spoilt' = {} => tok.control \in {Absent, tokens[h].control, run.handed.control}
                             /\ tok.agent \in {Absent, tokens[h].agent, run.handed.agent}
    <3>1. CASE tokens' = [tokens EXCEPT ![h] = Handed(h)] /\ UNCHANGED spoilt
      BY <2>1, <3>1
    <3>2. ASSUME NEW left \in {Absent, Torn}, NEW t \in Failed(h, left), tokens' = [tokens EXCEPT ![h] = t],
                 spoilt' = spoilt \union IF left = Torn THEN {"torn"} ELSE {}
          PROVE  /\ t \in Tokens /\ spoilt \subseteq spoilt'
                 /\ tokens[h].control # Absent => t.control = tokens[h].control
                 /\ tokens[h].agent # Absent => t.agent = tokens[h].agent
                 /\ spoilt' = {} => t.control \in {Absent, tokens[h].control, run.handed.control}
                                    /\ t.agent \in {Absent, tokens[h].agent, run.handed.agent}
      <4>1. left \in Int /\ spoilt \subseteq spoilt' /\ (spoilt' = {} => left = Absent)
        BY <3>2 DEF Absent, Torn
      <4>2. CASE t = [tokens[h] EXCEPT !.control = left] /\ Handed(h).control # tokens[h].control
        BY <1>3, <2>1, <4>1, <4>2 DEF Tokens
      <4>3. CASE t = [Handed(h) EXCEPT !.agent = left] /\ Handed(h).agent # tokens[h].agent
        BY <1>3, <2>1, <4>1, <4>3 DEF Tokens
      <4> QED
        BY <3>2, <4>2, <4>3 DEF Failed
    <3> QED
      BY <1>4, <3>1, <3>2 DEF ConfigureFails
  <2> QED
    BY <1>1, <1>2, <1>3, <1>4, <2>2, TokensWritten
<1>5. CASE kind # "rancher"
  BY <1>1, <1>2, <1>5, NothingWritten DEF ConfigureFails
<1> QED
  BY <1>4, <1>5

-----------------------------------------------------------------------------
(* A host leaves, a token expires.                                         *)

LEMMA DeleteStep ==
  ASSUME JoinInv, NEW h \in Hosts, Delete(h), Counts'
  PROVE  JoinInv'
<1>1. /\ tokens' = [tokens EXCEPT ![h] = NoTokens] /\ server' = [server EXCEPT ![h] = NoHost]
      /\ installed' = installed \ {h} /\ running' = running \ {h} /\ member' = [member EXCEPT ![h] = 0]
      /\ refused' = refused \ {h} /\ run' = NoRun /\ UNCHANGED <<kind, clusters, expired>>
      /\ spoilt' = spoilt \union IF kind = "upstream" /\ tokens[h] # NoTokens THEN {"deleted"} ELSE {}
  BY DEF Delete
<1>2. /\ run' \in RunRecord /\ run'.phase = "idle" /\ run'.result = "none" /\ run'.todo = {} /\ run'.checked = {}
      /\ run'.stranded = {}
  BY <1>1, FreshRun
<1>3. /\ tokens \in [Hosts -> Tokens] /\ NoTokens \in Tokens /\ member \in [Hosts -> 0..Len(clusters)]
      /\ server \in [Hosts -> Hosts \union {NoHost}] /\ 0 \in 0..Len(clusters)
  BY DEF JoinInv, Types, TypeOK, Tokens, NoTokens, Absent
<1>4. /\ tokens' \in [Hosts -> Tokens] /\ tokens'[h] = NoTokens /\ member' \in [Hosts -> 0..Len(clusters)]
      /\ \A g \in Hosts : g # h => tokens'[g] = tokens[g] /\ member'[g] = member[g]
      /\ server' \in [Hosts -> Hosts \union {NoHost}] /\ member'[h] = 0
  BY <1>1, <1>3
<1>5. Members' = Members \ {h} /\ spoilt \subseteq spoilt'
  BY <1>1, <1>4 DEF Members
<1>6. TypeOK'
  BY <1>1, <1>2, <1>4 DEF JoinInv, Types, TypeOK, Counts, Phases, Tokens
<1>7. Types'
  BY <1>1, <1>2, <1>5, <1>6 DEF JoinInv, Types
<1>8. ReadyHosts'
  BY <1>1, <1>2, <1>4, <1>5 DEF JoinInv, ReadyHosts, HasTokens, Members
<1>9. MembersHoldTokens' /\ JoinsAccepted'
  BY <1>1, <1>4, <1>5, JoinTokensAssumption DEF JoinInv, MembersHoldTokens, JoinsAccepted
<1>10. LeaderFirst' /\ TheCluster' /\ OnlyNew' /\ NobodySkipped' /\ CheckedAlone'
  BY <1>2, <1>4, <1>5 DEF JoinInv, LeaderFirst, TheCluster, OnlyNew, NobodySkipped, CheckedAlone, Members
<1>11. RancherTokens'
  <2>1. SUFFICES ASSUME kind = "rancher", spoilt' = {}
                 PROVE \E t \in [control : Nat \ {0}, agent : Nat \ {0}] : Agree(t)'
    BY <1>1, <1>2 DEF RancherTokens
  <2>2. PICK t \in [control : Nat \ {0}, agent : Nat \ {0}] : Agree(t)
    BY <1>5, <2>1 DEF JoinInv, RancherTokens
  <2>3. Agree(t)'
    BY <1>1, <1>4, <1>5, <2>2 DEF Agree, NoTokens, Members
  <2> QED
    BY <2>3
<1>12. UpstreamTokens'
  <2>1. SUFFICES ASSUME kind = "upstream", spoilt' = {} PROVE UpstreamTokens'
    BY <1>1 DEF UpstreamTokens
  <2>2. tokens[h] = NoTokens /\ UpstreamTokens /\ spoilt = {}
    BY <1>1, <2>1 DEF JoinInv
  <2> QED
    BY <1>1, <1>2, <1>4, <1>5, <2>1, <2>2 DEF UpstreamTokens
<1> QED
  BY <1>7, <1>8, <1>9, <1>10, <1>11, <1>12 DEF JoinInv

LEMMA ExpireStep ==
  ASSUME JoinInv, Expire, Counts'
  PROVE  JoinInv'
<1>1. /\ kind = "upstream" /\ clusters # << >> /\ expired' = expired \union {Len(clusters)}
      /\ UNCHANGED <<kind, tokens, server, installed, member, running, clusters, run, refused>>
      /\ "expired" \in spoilt' /\ spoilt \subseteq spoilt'
  BY DEF Expire
<1>2. Members' = Members /\ Len(clusters) \in 1..Len(clusters)
  BY <1>1 DEF Members, JoinInv, Types
<1>3. TypeOK'
  BY <1>1, <1>2 DEF JoinInv, Types, TypeOK, Counts
<1>4. Types'
  BY <1>1, <1>2, <1>3 DEF JoinInv, Types
<1>5. ReadyHosts' /\ RancherTokens' /\ UpstreamTokens' /\ MembersHoldTokens'
  BY <1>1 DEF ReadyHosts, RancherTokens, UpstreamTokens, MembersHoldTokens
<1>6. JoinsAccepted' /\ LeaderFirst' /\ TheCluster' /\ OnlyNew' /\ NobodySkipped' /\ CheckedAlone'
  BY <1>1, <1>2 DEF JoinInv, JoinsAccepted, LeaderFirst, TheCluster, OnlyNew, NobodySkipped, CheckedAlone
<1> QED
  BY <1>4, <1>5, <1>6 DEF JoinInv

-----------------------------------------------------------------------------
(* A host is started.                                                      *)

\* Whose turn it is.
Turn(h) ==
    /\ run.phase = "start" /\ run \in RunRecord /\ h \in run.todo /\ h \in Range(run.list)
    /\ h \in Hosts /\ h \in installed /\ run.list \in Lists

\* What stays the same whatever comes of it.
Around == UNCHANGED <<kind, server, installed, expired>>

LEMMA NextTurn ==
  ASSUME JoinInv, NEW h, Turn(h), NextHost(h)
  PROVE  /\ run' \in RunRecord /\ run'.phase = "start" /\ run'.list = run.list /\ run'.handed = run.handed
         /\ run'.checked = run.checked /\ run'.todo = run.todo \ {h} /\ run'.stranded = run.stranded
         /\ run'.todo \subseteq Range(run.list) /\ run'.todo \subseteq installed
         /\ \A g \in Range(run.list) : kind = "rancher" => Ready(g)
<1>1. run' = [run EXCEPT !.todo = @ \ {h}] /\ run \in RunRecord /\ run.phase = "start"
  BY DEF NextHost, Turn
<1>2. /\ run' \in RunRecord /\ run'.phase = "start" /\ run'.list = run.list /\ run'.handed = run.handed
      /\ run'.checked = run.checked /\ run'.todo = run.todo \ {h} /\ run'.stranded = run.stranded
  BY <1>1 DEF RunRecord
<1> QED
  BY <1>1, <1>2 DEF JoinInv, Types, TypeOK, ReadyHosts

LEMMA Resumes ==
  ASSUME JoinInv, Counts', NEW h, Turn(h), NextHost(h), Around, kind = "rancher",
         member[h] # 0, Up(h, member[h]), UNCHANGED <<clusters, refused, tokens, spoilt>>
  PROVE  JoinInv'
<1>1. h \in Members /\ h \in installed /\ member' = member
  BY DEF Turn, Members, Up, JoinInv, Types, TypeOK
<1>2. Apart /\ installed' = installed /\ installed \subseteq Hosts
  BY <1>1 DEF Apart, Around, Up, JoinInv, Types, TypeOK
<1>3. (Range(run.list) \intersect Controllers) \ run.stranded \subseteq Members \union run.todo
  BY DEF JoinInv, NobodySkipped, Turn
<1> QED
  BY <1>1, <1>2, <1>3, NextTurn, GoesOnApart DEF Turn

\* A host that is new to the cluster.
LEMMA HostUp ==
  ASSUME JoinInv, NEW h, Turn(h), NEW c \in Nat \ {0}, c <= Len(clusters'), Up(h, c), member[h] = 0,
         clusters' \in Seq(Tokens), Len(clusters) <= Len(clusters')
  PROVE  /\ member' \in [Hosts -> 0..Len(clusters')] /\ member'[h] = c
         /\ \A g \in Hosts : g # h => member'[g] = member[g]
         /\ Members' = Members \union {h} /\ h \notin Members
         /\ running' \subseteq Members' /\ running' \subseteq installed
<1>1. h \in Hosts /\ h \in installed /\ member \in [Hosts -> 0..Len(clusters)] /\ Len(clusters) \in Nat
  BY DEF Turn, JoinInv, Types, TypeOK
<1>2. 0..Len(clusters) \subseteq 0..Len(clusters') /\ c \in 0..Len(clusters')
  BY <1>1
<1>3. /\ member' \in [Hosts -> 0..Len(clusters')] /\ member'[h] = c
      /\ \A g \in Hosts : g # h => member'[g] = member[g]
  BY <1>1, <1>2 DEF Up
<1>4. Members' = Members \union {h} /\ h \notin Members
  BY <1>1, <1>3 DEF Members
<1> QED
  BY <1>1, <1>3, <1>4 DEF Up, JoinInv, Types, TypeOK

LEMMA Joins ==
  ASSUME JoinInv, Counts', NEW h, Turn(h), NextHost(h), Around,
         member[h] = 0, NEW s \in Controllers \intersect running, Up(h, member[s]),
         UNCHANGED <<clusters, refused, tokens, spoilt>>,
         kind = "rancher" /\ h \in Controllers => tokens[h].control = clusters[member[s]].control
  PROVE  JoinInv'
<1>1. /\ s \in Members /\ s \in Hosts /\ member[s] \in Nat \ {0} /\ member[s] <= Len(clusters)
      /\ clusters \in Seq(Tokens) /\ Len(clusters) \in Nat /\ s # h
  BY DEF JoinInv, Types, TypeOK, Members
<1>2. /\ member' \in [Hosts -> 0..Len(clusters)] /\ member'[h] = member[s]
      /\ \A g \in Hosts : g # h => member'[g] = member[g]
      /\ Members' = Members \union {h} /\ h \notin Members
      /\ running' \subseteq Members' /\ running' \subseteq installed
  BY <1>1, HostUp
<1>3. /\ run' \in RunRecord /\ run'.phase = "start" /\ run'.list = run.list /\ run'.handed = run.handed
      /\ run'.checked = run.checked /\ run'.todo = run.todo \ {h} /\ run'.stranded = run.stranded
      /\ run'.todo \subseteq Range(run.list) /\ run'.todo \subseteq installed
      /\ \A g \in Range(run.list) : kind = "rancher" => Ready(g)
  BY NextTurn
<1>4. h \in Hosts /\ h \in Range(run.list) /\ run.phase = "start" /\ run.list \in Lists /\ Leader(run.list) \in Hosts
  BY ListHosts DEF Turn
<1>5. TypeOK'
  BY <1>2, <1>3 DEF JoinInv, Types, TypeOK, Counts, Around, RunRecord
<1>6. Types'
  BY <1>2, <1>3, <1>4, <1>5 DEF JoinInv, Types, Around
<1>7. ReadyHosts'
  BY <1>2, <1>3, <1>4 DEF JoinInv, ReadyHosts, Ready, HasTokens, Server, Around
<1>8. MembersHoldTokens'
  BY <1>2, <1>4, JoinTokensAssumption DEF JoinInv, MembersHoldTokens, Around
<1>9. JoinsAccepted' /\ OnlyNew'
  BY <1>2, <1>3, <1>4 DEF JoinInv, JoinsAccepted, OnlyNew, Around
<1>10. LeaderFirst'
  BY <1>1, <1>2, <1>3, <1>4 DEF JoinInv, LeaderFirst
<1>11. TheCluster'
  <2>1. \A g \in Members' : member'[g] \in {member[k] : k \in Members}
    BY <1>1, <1>2 DEF Members
  <2> QED
    BY <2>1 DEF JoinInv, TheCluster
<1>12. RancherTokens'
  <2>1. SUFFICES ASSUME kind = "rancher", spoilt = {}
                 PROVE \E t \in [control : Nat \ {0}, agent : Nat \ {0}] :
                         Agree(t)' /\ (run'.phase # "idle" => t = run'.handed)
    BY DEF RancherTokens, Around
  <2>2. PICK t \in [control : Nat \ {0}, agent : Nat \ {0}] : Agree(t) /\ t = run.handed
    BY <1>4, <2>1 DEF JoinInv, RancherTokens
  <2>3. Agree(t)'
    BY <1>1, <1>2, <2>2 DEF Agree, Members
  <2> QED
    BY <1>3, <2>2, <2>3
<1>13. UpstreamTokens'
  BY <1>1, <1>2, <1>3, <1>4 DEF JoinInv, UpstreamTokens, Around
<1>14. NobodySkipped'
  BY <1>2, <1>3, <1>4 DEF JoinInv, NobodySkipped
<1>15. CheckedAlone'
  <2>1. run.checked \subseteq Hosts
    BY RunFields DEF Turn
  <2> QED
    BY <1>2, <1>3, <1>4, <2>1 DEF JoinInv, CheckedAlone
<1> QED
  BY <1>6, <1>7, <1>8, <1>9, <1>10, <1>11, <1>12, <1>13, <1>14, <1>15 DEF JoinInv

\* The leader founds the cluster: nobody has one, unless a new controller was put first.
LEMMA Founds ==
  ASSUME JoinInv, Counts', NEW h, Turn(h), Around, h = Leader(run.list), member[h] = 0,
         NEW x \in Tokens, clusters' = Append(clusters, x), Up(h, Len(clusters) + 1),
         spoilt \subseteq spoilt', UNCHANGED refused,
         tokens' \in [Hosts -> Tokens], \A g \in Hosts : g # h => tokens'[g] = tokens[g],
         NextHost(h) \/ (kind = "upstream" /\ spoilt' # {} /\ run' = Ended("failed")),
         kind = "rancher" => tokens' = tokens /\ x = tokens[h],
         kind = "upstream" /\ spoilt' = {} => tokens'[h] = x /\ x.control # Absent /\ x.agent # Absent
  PROVE  JoinInv'
<1> DEFINE n == Len(clusters) + 1
<1>1. clusters \in Seq(Tokens) /\ Len(clusters) \in Nat /\ n \in Nat \ {0}
  BY DEF JoinInv, Types
<1>2. /\ clusters' \in Seq(Tokens) /\ Len(clusters') = n /\ clusters'[n] = x
      /\ \A i \in 1..Len(clusters) : clusters'[i] = clusters[i]
  BY <1>1
<1>3. /\ member' \in [Hosts -> 0..n] /\ member'[h] = n
      /\ \A g \in Hosts : g # h => member'[g] = member[g]
      /\ Members' = Members \union {h} /\ h \notin Members
      /\ running' \subseteq Members' /\ running' \subseteq installed
  <2>1. n <= Len(clusters') /\ Len(clusters) <= Len(clusters') /\ Len(clusters') = n /\ Up(h, n)
    BY <1>1, <1>2
  <2> HIDE DEF n
  <2> QED
    BY <1>1, <1>2, <2>1, HostUp
<1>4. \A g \in Members : g # h /\ g \in Hosts /\ member'[g] = member[g] /\ clusters'[member'[g]] = clusters[member[g]]
  <2>1. \A g \in Members : g # h /\ g \in Hosts /\ member[g] \in 1..Len(clusters)
    BY <1>1, <1>3 DEF Members, JoinInv, Types, TypeOK
  <2> QED
    BY <1>2, <1>3, <2>1
<1>5. /\ h \in Hosts /\ h \in Range(run.list) /\ h \in Controllers /\ run.phase = "start" /\ run.list \in Lists
      /\ run \in RunRecord
  BY ListHosts DEF Turn
<1>6. /\ run' \in RunRecord /\ run'.list = run.list /\ run'.checked = run.checked /\ run'.todo \subseteq Range(run.list)
      /\ run'.todo \subseteq installed
      /\ \/ /\ run'.phase = "start" /\ run'.todo = run.todo \ {h} /\ run'.handed = run.handed
            /\ run'.stranded = run.stranded
         \/ kind = "upstream" /\ spoilt' # {} /\ run'.phase = "idle" /\ run'.result = "failed"
  <2>1. CASE NextHost(h)
    BY <2>1, NextTurn
  <2>2. CASE kind = "upstream" /\ spoilt' # {} /\ run' = Ended("failed")
    BY <1>5, <2>2, EndedRun
  <2> QED
    BY <2>1, <2>2
<1>7. "leader" \notin spoilt' => Members = {}
  BY <1>5 DEF JoinInv, LeaderFirst
<1> HIDE DEF n
<1>8. TypeOK'
  <2>1. expired' \subseteq 1..n /\ running' \subseteq installed' /\ installed' \subseteq Hosts
    BY <1>1, <1>3 DEF JoinInv, Types, TypeOK, Around, n
  <2>2. server' \in [Hosts -> Hosts \union {NoHost}] /\ kind' \in Kinds
    BY DEF JoinInv, Types, TypeOK, Around
  <2> QED
    BY <1>2, <1>3, <1>6, <2>1, <2>2 DEF TypeOK, Counts, RunRecord, Tokens
<1>9. Types'
  <2>1. run'.phase # "idle" => run'.list \in Lists /\ run'.handed.control > 0 /\ run'.handed.agent > 0
    BY <1>5, <1>6 DEF JoinInv, Types
  <2> QED
    BY <1>2, <1>3, <1>6, <1>8, <2>1 DEF Types, Around
<1>10. ReadyHosts'
  <2>1. SUFFICES ASSUME kind = "rancher" PROVE ReadyHosts'
    BY DEF ReadyHosts, Around
  <2>2. /\ run'.phase = "start" /\ tokens' = tokens /\ \A g \in Members \union {h} : HasTokens(g)
        /\ \A g \in Range(run.list) : Ready(g)
    BY <1>5, <1>6, <2>1 DEF JoinInv, ReadyHosts, Ready
  <2> QED
    BY <1>3, <1>6, <2>2 DEF ReadyHosts, Ready, HasTokens, Server, Around
<1>11. MembersHoldTokens'
  <2>1. SUFFICES ASSUME kind = "rancher", NEW g \in Controllers, member'[g] # 0, tokens'[g].control > 0
                 PROVE tokens'[g].control = clusters'[member'[g]].control
    BY DEF MembersHoldTokens, Around
  <2>2. CASE g = h
    BY <1>2, <1>3, <2>1, <2>2
  <2>3. CASE g # h
    <3>1. g \in Members
      BY <1>3, <2>1, <2>3, JoinTokensAssumption DEF Members
    <3> QED
      BY <1>4, <2>1, <3>1 DEF JoinInv, MembersHoldTokens
  <2> QED
    BY <2>2, <2>3
<1>12. JoinsAccepted'
  BY DEF JoinInv, JoinsAccepted
<1>13. LeaderFirst'
  BY <1>1, <1>3, <1>6 DEF LeaderFirst
<1>14. TheCluster'
  BY <1>3, <1>7 DEF TheCluster
<1>15. RancherTokens'
  <2>1. SUFFICES ASSUME kind = "rancher", spoilt' = {}
                 PROVE \E t \in [control : Nat \ {0}, agent : Nat \ {0}] :
                         Agree(t)' /\ (run'.phase # "idle" => t = run'.handed)
    BY DEF RancherTokens, Around
  <2>2. PICK t \in [control : Nat \ {0}, agent : Nat \ {0}] : Agree(t) /\ t = run.handed
    BY <1>5, <2>1 DEF JoinInv, RancherTokens
  <2>3. Members = {} /\ run'.handed = run.handed /\ tokens' = tokens /\ x = tokens[h]
    BY <1>6, <1>7, <2>1
  <2>4. x = t
    <3>1. HasTokens(h)
      BY <1>5, <2>1 DEF JoinInv, ReadyHosts, Ready
    <3> QED
      BY <1>5, <2>2, <2>3, <3>1 DEF HasTokens, Agree, Tokens
  <2>5. Agree(t)'
    BY <1>2, <1>3, <2>2, <2>3, <2>4 DEF Agree
  <2> QED
    BY <2>2, <2>3, <2>5
<1>16. UpstreamTokens'
  <2>1. SUFFICES ASSUME kind = "upstream", spoilt' = {} PROVE UpstreamTokens'
    BY DEF UpstreamTokens, Around
  <2>2. Members = {} /\ UpstreamTokens /\ spoilt = {}
    BY <1>7, <2>1 DEF JoinInv
  <2>3. \A g \in Hosts : g # h => tokens'[g] = NoTokens
    <3>1. \A g \in Hosts : tokens[g] = NoTokens
      BY <2>1, <2>2 DEF UpstreamTokens, Members
    <3> QED
      BY <3>1
  <2>4. tokens'[h] = x /\ x.control # Absent /\ x.agent # Absent /\ x # NoTokens
    BY <2>1 DEF NoTokens
  <2>5. /\ expired' = {} /\ member'[h] # 0 /\ clusters'[member'[h]] = x
        /\ Leader(run'.list) = h
    BY <1>1, <1>2, <1>3, <1>6, <2>1, <2>2 DEF UpstreamTokens, Around
  <2> QED
    BY <1>5, <2>3, <2>4, <2>5 DEF UpstreamTokens
<1>17. OnlyNew'
  BY <1>3, <1>5, <1>6 DEF JoinInv, OnlyNew, Around
<1>18. NobodySkipped'
  BY <1>3, <1>5, <1>6 DEF JoinInv, NobodySkipped
<1>19. CheckedAlone'
  <2>1. run.checked \subseteq Hosts
    BY <1>5, RunFields
  <2> QED
    BY <1>3, <1>5, <1>6, <2>1 DEF JoinInv, CheckedAlone
<1> QED
  BY <1>9, <1>10, <1>11, <1>12, <1>13, <1>14, <1>15, <1>16, <1>17, <1>18, <1>19 DEF JoinInv

\* A start that ends the run; a host is only turned away after something went wrong.
LEMMA TurnFails ==
  ASSUME JoinInv, Counts', NEW h, Turn(h), Around, UNCHANGED <<member, running, clusters, tokens, spoilt>>,
         run' = Ended("failed"), spoilt = {} => refused' = refused
  PROVE  JoinInv'
<1>1. Apart /\ installed' = installed /\ installed \subseteq Hosts
  BY DEF Apart, Around, JoinInv, Types, TypeOK
<1>2. JoinsAccepted'
  BY DEF JoinInv, JoinsAccepted
<1> QED
  BY <1>1, <1>2, RunFailed

LEMMA RancherStart ==
  ASSUME JoinInv, Counts', NEW h, Turn(h), Around, kind = "rancher", startService(h)
  PROVE  JoinInv'
<1>1. /\ UNCHANGED <<tokens, spoilt>> /\ run.list \in Lists /\ h \in Hosts /\ Ready(h)
      /\ Leader(run.list) \in Hosts /\ NoHost \notin Hosts
  BY ListHosts, JoinTokensAssumption DEF startService, Turn, JoinInv, ReadyHosts
<1>2. CASE member[h] # 0 /\ Up(h, member[h]) /\ UNCHANGED <<clusters, refused>> /\ NextHost(h)
  BY <1>1, <1>2, Resumes
<1>3. CASE /\ member[h] = 0 /\ h \in Controllers /\ server[h] = NoHost
           /\ clusters' = Append(clusters, tokens[h])
           /\ Up(h, Len(clusters) + 1) /\ UNCHANGED refused /\ NextHost(h)
  <2>1. h = Leader(run.list)
    BY <1>1, <1>3 DEF Ready, Server
  <2>2. PICK x \in Tokens : x = tokens[h]
    BY <1>1 DEF JoinInv, Types, TypeOK, Tokens
  <2>3. tokens' \in [Hosts -> Tokens] /\ tokens' = tokens /\ spoilt' = spoilt
    BY <1>1 DEF JoinInv, Types, TypeOK, Tokens
  <2> QED
    BY <1>3, <2>1, <2>2, <2>3, Founds
<1>4. ASSUME member[h] = 0, NEW s \in Contacts(h),
             IF Admits(member[s], h)
             THEN Up(h, member[s]) /\ UNCHANGED refused /\ NextHost(h)
             ELSE UNCHANGED <<member, running>> /\ refused' = refused \union {h} /\ run' = Ended("failed"),
             UNCHANGED clusters, h \notin Controllers \/ server[h] # NoHost
      PROVE  JoinInv'
  <2>1. s \in running /\ s \in Hosts /\ s \in Members /\ s \in Controllers
    <3>1. s \in running /\ (h \in Controllers => s = server[h])
      BY <1>4 DEF Contacts
    <3>2. h \in Controllers => s \in Controllers
      BY <1>1, <1>4, <3>1, ListHosts DEF Ready, Server
    <3> QED
      BY <1>4, <3>1, <3>2 DEF Contacts, JoinInv, Types, Members
  <2>2. CASE Admits(member[s], h)
    <3>1. h \in Controllers => tokens[h].control = clusters[member[s]].control
      BY <2>2 DEF Admits
    <3> QED
      BY <1>1, <1>4, <2>1, <2>2, <3>1, Joins
  <2>3. CASE ~Admits(member[s], h)
    <3>1. spoilt # {}
      <4>1. SUFFICES ASSUME spoilt = {} PROVE Admits(member[s], h)
        BY <2>3
      <4>2. PICK t \in [control : Nat \ {0}, agent : Nat \ {0}] : Agree(t)
        BY <4>1 DEF JoinInv, RancherTokens
      <4>3. clusters[member[s]] = t /\ HasTokens(h)
        BY <1>1, <2>1, <4>2 DEF Agree, Ready
      <4> QED
        BY <1>1, <4>2, <4>3 DEF Admits, Agree, HasTokens
    <3> QED
      BY <1>1, <1>4, <2>3, <3>1, TurnFails
  <2> QED
    BY <2>2, <2>3
<1>5. CASE run' = Ended("failed") /\ UNCHANGED <<member, running, clusters, refused>>
  BY <1>1, <1>5, TurnFails
<1> QED
  BY <1>2, <1>3, <1>4, <1>5 DEF startService

LEMMA LeaderStart ==
  ASSUME JoinInv, Counts', NEW h, Turn(h), Around, kind = "upstream", h = Leader(run.list), bootstrapLeader(h)
  PROVE  JoinInv'
<1>1. /\ member[h] = 0 /\ clusters \in Seq(Tokens) /\ Len(clusters) \in Nat /\ h \in Hosts
      /\ tokens \in [Hosts -> Tokens]
  BY DEF Turn, JoinInv, OnlyNew, Members, Types, TypeOK, Tokens
<1>2. PICK x \in Tokens : x = [control |-> Minted, agent |-> Minted]
  <2>1. Minted \in Int
    BY <1>1 DEF Minted
  <2> QED
    BY <2>1 DEF Tokens
<1>3. x.control # Absent /\ x.agent # Absent /\ x.control = Minted
  BY <1>1, <1>2 DEF Minted, Absent
<1>4. /\ clusters' = Append(clusters, x) /\ Up(h, Len(clusters) + 1) /\ UNCHANGED refused
  BY <1>2 DEF bootstrapLeader, Minted
<1>5. CASE tokens' = [tokens EXCEPT ![h] = [control |-> Minted, agent |-> Minted]] /\ NextHost(h) /\ UNCHANGED spoilt
  <2>1. /\ tokens' \in [Hosts -> Tokens] /\ tokens'[h] = x /\ \A g \in Hosts : g # h => tokens'[g] = tokens[g]
    BY <1>1, <1>2, <1>5
  <2> QED
    BY <1>1, <1>3, <1>4, <1>5, <2>1, Founds
<1>6. CASE /\ run' = Ended("failed") /\ spoilt' = spoilt \union {"unrecorded"}
           /\ \E left \in {Absent, Torn} :
                \/ tokens' = [tokens EXCEPT ![h] = [control |-> left, agent |-> Absent]]
                \/ tokens' = [tokens EXCEPT ![h] = [control |-> Minted, agent |-> left]]
  <2>1. PICK y \in Tokens : tokens' = [tokens EXCEPT ![h] = y]
    <3>1. Absent \in Int /\ Torn \in Int /\ Minted \in Int
      BY <1>1 DEF Absent, Torn, Minted
    <3> QED
      BY <1>6, <3>1 DEF Tokens
  <2>2. tokens' \in [Hosts -> Tokens] /\ \A g \in Hosts : g # h => tokens'[g] = tokens[g]
    BY <1>1, <2>1
  <2>3. spoilt' # {} /\ spoilt \subseteq spoilt'
    BY <1>6
  <2> QED
    BY <1>1, <1>4, <1>6, <2>2, <2>3, Founds
<1> QED
  BY <1>5, <1>6 DEF bootstrapLeader

LEMMA UpstreamStart ==
  ASSUME JoinInv, Counts', NEW h, Turn(h), Around, kind = "upstream", NEW l, l = Leader(run.list), bootstrapJoin(h, l)
  PROVE  JoinInv'
<1>1. /\ member[h] = 0 /\ UNCHANGED <<tokens, clusters, spoilt>> /\ run.phase = "start" /\ l \in Hosts
  BY ListHosts DEF Turn, JoinInv, OnlyNew, Members, bootstrapJoin
<1>2. ASSUME NEW s \in Controllers \intersect running,
             IF Accepts(s, l) /\ (h \in Controllers => l \in running /\ member[l] = member[s])
             THEN Up(h, member[s]) /\ UNCHANGED refused /\ NextHost(h)
             ELSE UNCHANGED <<member, running>> /\ run' = Ended("failed")
                  /\ refused' = IF ~Accepts(s, l) THEN refused \union {h} ELSE refused
      PROVE  JoinInv'
  <2>1. CASE Accepts(s, l) /\ (h \in Controllers => l \in running /\ member[l] = member[s])
    BY <1>1, <1>2, <2>1, Joins
  <2>2. CASE ~(Accepts(s, l) /\ (h \in Controllers => l \in running /\ member[l] = member[s]))
    <3>1. spoilt = {} => Accepts(s, l)
      <4>1. SUFFICES ASSUME spoilt = {} PROVE Accepts(s, l)
        OBVIOUS
      <4>2. s \in Members
        BY DEF JoinInv, Types
      <4>3. UpstreamTokens /\ tokens[l] # NoTokens
        BY <1>1, <4>1, <4>2 DEF JoinInv, UpstreamTokens
      <4>4. /\ expired = {} /\ l \in Members /\ clusters[member[l]] = tokens[l]
            /\ tokens[l].control # Absent /\ tokens[l].agent # Absent
        BY <1>1, <4>1, <4>3 DEF UpstreamTokens, Members
      <4>5. member[s] = member[l]
        BY <4>1, <4>2, <4>4 DEF JoinInv, TheCluster
      <4> QED
        BY <4>4, <4>5 DEF Accepts, readJoinTokenAndHash
    <3> QED
      BY <1>1, <1>2, <2>2, <3>1, TurnFails
  <2> QED
    BY <2>1, <2>2
<1>3. CASE run' = Ended("failed") /\ UNCHANGED <<member, running, refused>>
  BY <1>1, <1>3, TurnFails
<1> QED
  BY <1>2, <1>3 DEF bootstrapJoin

LEMMA StartStep ==
  ASSUME JoinInv, Counts', Start
  PROVE  JoinInv'
<1>1. PICK h \in First(run.list, run.todo) :
        IF kind = "rancher" THEN startService(h) /\ UNCHANGED faults ELSE Bootstrap(h)
  BY DEF Start
<1>2. Turn(h) /\ Around
  <2>1. h \in run.todo /\ h \in Range(run.list) /\ run.phase = "start" /\ run \in RunRecord /\ Around
    BY <1>1, FirstHost DEF Start, Around, JoinInv, Types
  <2> QED
    BY <2>1, RunFields DEF Turn, JoinInv, Types
<1>3. kind \in {"rancher", "upstream"}
  BY JoinTokensAssumption DEF JoinInv, Types, TypeOK
<1>4. CASE kind = "rancher"
  BY <1>1, <1>2, <1>4, RancherStart
<1>5. CASE kind = "upstream"
  BY <1>1, <1>2, <1>5, LeaderStart, UpstreamStart DEF Bootstrap
<1> QED
  BY <1>3, <1>4, <1>5

-----------------------------------------------------------------------------
LEMMA JoinInit == Init => JoinInv
<1> SUFFICES ASSUME Init PROVE JoinInv
  OBVIOUS
<1>1. Members = {} /\ run = NoRun /\ spoilt = {} /\ refused = {} /\ kind \in Kinds /\ expired = {}
  BY DEF Init, Members
<1>2. clusters = << >> /\ clusters \in Seq(Tokens) /\ Len(clusters) = 0
  BY DEF Init
<1>3. \A h \in Hosts : tokens[h] = NoTokens /\ member[h] = 0
  BY DEF Init
<1>4. TypeOK
  <2>1. Counts
    BY JoinTokensAssumption DEF Init, Counts
  <2>2. NoTokens \in [control : Int, agent : Int] /\ 0 \in 0..Len(clusters)
    BY <1>2 DEF NoTokens, Absent
  <2>3. /\ tokens \in [Hosts -> [control : Int, agent : Int]] /\ server \in [Hosts -> Hosts \union {NoHost}]
        /\ installed = {} /\ running = {} /\ member \in [Hosts -> 0..Len(clusters)]
    BY <2>2 DEF Init
  <2> QED
    BY <1>1, <2>1, <2>3, FreshRun DEF TypeOK, Counts, Phases
<1>5. Types
  BY <1>1, <1>2, <1>4, FreshRun DEF Types, Init
<1>6. ReadyHosts /\ OnlyNew /\ NobodySkipped /\ CheckedAlone /\ LeaderFirst /\ TheCluster /\ JoinsAccepted
  BY <1>1, FreshRun DEF ReadyHosts, OnlyNew, NobodySkipped, CheckedAlone, LeaderFirst, TheCluster, JoinsAccepted
<1>7. MembersHoldTokens /\ UpstreamTokens
  BY <1>1, <1>3, FreshRun, JoinTokensAssumption DEF MembersHoldTokens, UpstreamTokens
<1>8. RancherTokens
  <2>1. PICK t \in [control : Nat \ {0}, agent : Nat \ {0}] : TRUE
    <3>1. [control |-> 1, agent |-> 1] \in [control : Nat \ {0}, agent : Nat \ {0}]
      OBVIOUS
    <3> QED
      BY <3>1
  <2>2. Agree(t)
    BY <1>1, <1>3 DEF Agree, NoTokens
  <2> QED
    BY <1>1, <2>2, FreshRun DEF RancherTokens
<1> QED
  BY <1>5, <1>6, <1>7, <1>8 DEF JoinInv

LEMMA JoinNext == JoinInv /\ [Next]_vars => JoinInv'
<1> SUFFICES ASSUME JoinInv, [Next]_vars PROVE JoinInv'
  OBVIOUS
<1>1. Counts'
  BY Counted DEF JoinInv
<1>2. CASE Next
  BY <1>1, <1>2, StartRunStep, RefuseRunStep, ConfigureDoneStep, InstallStep, PhaseDoneStep, StartStep,
     CutStep, ExpireStep, ConfigureEngineStep, ConfigureFailsStep, DeleteStep
  DEF Next
<1>3. CASE UNCHANGED vars
  <2>1. Apart /\ UNCHANGED <<installed, refused, run>>
    BY <1>3 DEF Apart, vars
  <2>2. /\ Members' = Members /\ MembersHoldTokens' /\ LeaderFirst' /\ TheCluster' /\ RancherTokens' /\ UpstreamTokens'
    <3>1. run'.phase = "idle" \/ (run.phase # "idle" /\ run'.list = run.list /\ run'.handed = run.handed)
      BY <2>1
    <3> QED
      BY <2>1, <3>1, ApartKeeps
  <2>3. TypeOK'
    BY <1>1, <1>3 DEF vars, JoinInv, Types, TypeOK
  <2> QED
    BY <1>3, <2>2, <2>3
    DEF vars, JoinInv, Types, ReadyHosts, Ready, HasTokens, Server, JoinsAccepted, OnlyNew, NobodySkipped, CheckedAlone
<1> QED
  BY <1>2, <1>3

LEMMA JoinAlways == Spec => []JoinInv
BY JoinInit, JoinNext, PTL DEF Spec

\* For every set of hosts, every host list and every pattern of failed writes and commands, cut runs,
\* deletes and expired tokens: the hosts are one cluster unless a new controller was put in front of it,
\* a controller's token file is its cluster's, and nobody is turned away before one of the named events
\* (ConfigureEngine.Prepare, RancherCommon.ConfigureEngine, Upstream.Bootstrap).
THEOREM OneClusterHolds == Spec => []OneCluster
<1>1. JoinInv => OneCluster
  BY DEF JoinInv, OneCluster, Types, TheCluster, Members
<1> QED
  BY <1>1, JoinAlways, PTL

\* A run that reports success has every host of its list in one cluster, but the controllers that an
\* earlier run installed and did not start (controllersNeedingInit, workersNeedingInit).
THEOREM EveryoneJoins == Spec => []RunJoinsEveryone
<1>1. JoinInv => RunJoinsEveryone
  <2> SUFFICES ASSUME JoinInv, run.result = "ok", run.phase = "idle",
                      NEW h \in Range(run.list) \ run.stranded
               PROVE  member[h] # 0 /\ (spoilt \intersect {"leader"} = {} =>
                                          \A g \in Range(run.list) : member[g] \in {0, member[h]})
    BY DEF RunJoinsEveryone
  <2>1. h \in Members
    BY DEF JoinInv, NobodySkipped
  <2>2. Range(run.list) \subseteq Hosts
    <3>1. run.list \in Lists \/ run.list = << >>
      BY RunFields DEF JoinInv, Types
    <3> QED
      BY <3>1, ListHosts DEF Range
  <2> QED
    BY <2>1, <2>2 DEF JoinInv, TheCluster, Members
<1> QED
  BY <1>1, JoinAlways, PTL

\* A run that asked a cluster for its nodes and reports success leaves no node of that cluster
\* outside its list (DetectRemovedHosts).
THEOREM NobodyLeft == Spec => []NobodyLeftBehind
<1>1. JoinInv => NobodyLeftBehind
  BY DEF JoinInv, CheckedAlone, NobodyLeftBehind
<1> QED
  BY <1>1, JoinAlways, PTL

--------------------------------------------------------------------------------
(* The operator's kubeconfig and the labels: what a run carries from what it has read to what it writes. *)
Parts == {"ca", "cert", "key"}
Entries == [cluster : [ca : Nat, extra : {"none", "proxy"}] \union {NoneThere}, user : [cert : Nat, key : Nat] \union {NoneThere}, context : BOOLEAN]

\* A kubeconfig whose contexts all have what they name.
Whole(e) == (e.context <=> e.user # NoneThere) /\ (e.context => e.cluster # NoneThere)
Sound(k) ==
    /\ k \in [entries : [Runs -> Entries], current : Runs \union {NoneThere}]
    /\ k.current # NoneThere => k.entries[k.current].context
    /\ \A c \in Runs : Whole(k.entries[c])

Fields == {"pc", "job", "leader", "creds", "since", "next", "read", "built", "listed", "at", "result"}
Clusters ==
    /\ gen \in [Runs -> Nat] /\ hosts \in [Runs -> Seq(HostRecord)] /\ DOMAIN nodes = Runs
    /\ DOMAIN session = Runs

\* What a run has read is of the time since it began to read, and all there once it goes on.
OfItsTime(r, g) ==
    /\ DOMAIN r = Fields /\ r.since \in Nat /\ r.next \in Nat \ {0} /\ r.at \in Nat \ {0}
    /\ r.creds \in [Parts -> Nat \union {NoneThere}]
    /\ r.pc # "idle" => r.result = "none"
    /\ r.pc = "modify" => Sound(r.read)
    /\ r.pc \notin {"idle", "modify"} => r.read = NoneThere
    /\ r.pc \notin {"idle", "admin", "pieces"} \/ r.result = "ok" => r.creds \in [Parts -> Nat]
    /\ r.since <= g
    /\ \A p \in Parts : r.creds[p] # NoneThere => r.since <= r.creds[p] /\ r.creds[p] <= g

\* What a run builds is its own cluster's, and what it wrote is in the file.
BuiltOwn(c, r) == r.built # NoneThere => \A d \in Runs : (r.built.entries[d] # NoEntry) <=> d = c
Kept(c, r, e) ==
    r.result = "ok" /\ r.read # NoneThere =>
        /\ e.context /\ e.user.cert = r.creds.cert
        /\ e.cluster.extra = (IF r.read.entries[c].cluster = NoneThere THEN "none" ELSE r.read.entries[c].cluster.extra)

AccessInv ==
    /\ Clusters /\ Sound(kube)
    /\ \A c \in Runs :
        /\ OfItsTime(session[c], gen[c]) /\ BuiltOwn(c, session[c])
        /\ c \notin lost => Kept(c, session[c], kube.entries[c])
        /\ OwnProfiles(hosts[c], nodes[c])

LEMMA Three == Range(Pieces) = Parts /\ Len(Pieces) = 3 /\ \A i \in 1..3 : Pieces[i] \in Parts
<1>1. Len(Pieces) = 3 /\ DOMAIN Pieces = 1..3 /\ Pieces[1] = "ca" /\ Pieces[2] = "cert" /\ Pieces[3] = "key"  BY DEF Pieces
<1>2. 1..3 = {1, 2, 3}  OBVIOUS
<1>3. QED  BY <1>1, <1>2 DEF Range, Parts

(* A step of one run that writes no file and marks no node. *)
LEMMA OneSession ==
    ASSUME AccessInv, NEW c \in Runs, NEW r, Go(c, r), UNCHANGED <<gen, nodes, kube, lost, hosts>>,
           OfItsTime(r, gen[c]), BuiltOwn(c, r), r.result # "ok" \/ r.read = NoneThere
    PROVE  AccessInv'
<1>1. DOMAIN session = Runs  BY DEF AccessInv, Clusters
<1>2. session'[c] = r /\ DOMAIN session' = Runs /\ \A d \in Runs \ {c} : session'[d] = session[d]  BY <1>1 DEF Go
<1>3. Clusters'  BY <1>2 DEF AccessInv, Clusters
<1>4. Sound(kube)'  BY DEF AccessInv, Sound, Whole
<1>5. ASSUME NEW d \in Runs
      PROVE  /\ OfItsTime(session[d], gen[d])' /\ BuiltOwn(d, session[d])'
             /\ (d \notin lost => Kept(d, session[d], kube.entries[d]))' /\ OwnProfiles(hosts[d], nodes[d])'
    <2>1. CASE d = c
        <3>1. session'[d] = r /\ gen'[d] = gen[c]  BY <1>2, <2>1
        <3>2. Kept(d, session[d], kube.entries[d])'  BY <3>1 DEF Kept
        <3>3. OwnProfiles(hosts[d], nodes[d])'  BY DEF AccessInv, OwnProfiles
        <3>4. OfItsTime(session[d], gen[d])' /\ BuiltOwn(d, session[d])'  BY <3>1, <2>1 DEF OfItsTime, BuiltOwn, Sound
        <3>5. QED  BY <3>2, <3>3, <3>4
    <2>2. CASE d # c
        <3>1. session'[d] = session[d] /\ gen'[d] = gen[d] /\ kube'.entries[d] = kube.entries[d] /\ lost' = lost /\ hosts' = hosts /\ nodes' = nodes  BY <1>2, <2>2
        <3>2. OfItsTime(session[d], gen[d]) /\ BuiltOwn(d, session[d]) /\ (d \notin lost => Kept(d, session[d], kube.entries[d])) /\ OwnProfiles(hosts[d], nodes[d])
              BY DEF AccessInv
        <3>3. OfItsTime(session[d], gen[d])'  BY <3>1, <3>2
        <3>4. QED  BY <3>1, <3>2
    <2>3. QED  BY <2>1, <2>2
<1>6. QED  BY <1>3, <1>4, <1>5 DEF AccessInv

(* A session is a record of its fields. *)
LEMMA SessionFacts ==
    ASSUME AccessInv, NEW c \in Runs
    PROVE  OfItsTime(session[c], gen[c]) /\ BuiltOwn(c, session[c]) /\ gen[c] \in Nat /\ DOMAIN session[c] = Fields
BY DEF AccessInv, OfItsTime, Clusters

LEMMA FreshSession ==
    ASSUME NEW c \in Runs, NEW g \in Nat
    PROVE  OfItsTime(Fresh, g) /\ BuiltOwn(c, Fresh)
<1>1. NoCreds \in [Parts -> Nat \union {NoneThere}] /\ \A p \in Parts : NoCreds[p] = NoneThere  BY Three DEF NoCreds
<1>2. DOMAIN Fresh = Fields  BY DEF Fresh, Fields
<1>3. Fresh.pc = "idle" /\ Fresh.result = "none" /\ Fresh.since = 0 /\ Fresh.next = 1 /\ Fresh.at = 1 /\ Fresh.creds = NoCreds /\ Fresh.built = NoneThere
      BY DEF Fresh
<1>4. QED  BY <1>1, <1>2, <1>3 DEF OfItsTime, BuiltOwn

(* A run that ends in an error. *)
LEMMA FailStep ==
    ASSUME AccessInv, NEW c \in Runs, NEW e, e # "ok", Fail(c, e), UNCHANGED <<gen, nodes, kube, lost, hosts>>
    PROVE  AccessInv'
<1> DEFINE r == [session[c] EXCEPT !.pc = "idle", !.result = e]
<1>1. OfItsTime(session[c], gen[c]) /\ BuiltOwn(c, session[c]) /\ DOMAIN session[c] = Fields  BY SessionFacts
<1>2. "pc" \in Fields /\ "result" \in Fields /\ DOMAIN r = Fields  BY <1>1 DEF Fields
<1>3. r.pc = "idle" /\ r.result = e  BY <1>1, <1>2
<1>4. r.creds = session[c].creds /\ r.since = session[c].since /\ r.next = session[c].next /\ r.at = session[c].at /\ r.built = session[c].built
      BY <1>1 DEF Fields
<1>5. OfItsTime(r, gen[c])
    <2> HIDE DEF r
    <2>1. QED  BY <1>1, <1>2, <1>3, <1>4 DEF OfItsTime
<1>6. BuiltOwn(c, r)
    <2> HIDE DEF r
    <2>1. QED  BY <1>1, <1>4 DEF BuiltOwn
<1>7. Go(c, r) /\ r.result # "ok"  BY <1>3 DEF Fail
<1> HIDE DEF r
<1>8. QED  BY <1>5, <1>6, <1>7, OneSession

LEMMA PrepareStep == ASSUME AccessInv, NEW c \in Runs, Prepare(c)  PROVE  AccessInv'
<1>1. UNCHANGED <<gen, nodes, kube, lost, hosts>>  BY DEF Prepare
<1>2. CASE Fail(c, "ErrNoControllers")  BY <1>1, <1>2, FailStep
<1>3. ASSUME NEW j, NEW l, Go(c, [Fresh EXCEPT !.pc = "admin", !.job = j, !.leader = l])  PROVE AccessInv'
    <2> DEFINE r == [Fresh EXCEPT !.pc = "admin", !.job = j, !.leader = l]
    <2>1. gen[c] \in Nat /\ OfItsTime(Fresh, gen[c]) /\ BuiltOwn(c, Fresh)  BY SessionFacts, FreshSession
    <2>2. DOMAIN r = Fields /\ r.pc = "admin" /\ r.result = "none" /\ r.creds = Fresh.creds /\ r.since = Fresh.since /\ r.next = Fresh.next /\ r.at = Fresh.at
          /\ r.built = Fresh.built /\ r.read = NoneThere
          BY DEF Fresh, Fields
    <2>3. Go(c, r)  BY <1>3
    <2> HIDE DEF r
    <2>4. OfItsTime(r, gen[c]) /\ BuiltOwn(c, r)  BY <2>1, <2>2 DEF OfItsTime, BuiltOwn
    <2>5. QED  BY <1>1, <2>2, <2>3, <2>4, OneSession
<1>4. QED  BY <1>2, <1>3 DEF Prepare

LEMMA ReadAdminStep == ASSUME AccessInv, NEW c \in Runs, ReadAdmin(c)  PROVE  AccessInv'
<1>1. UNCHANGED <<gen, nodes, kube, lost, hosts>> /\ session[c].pc = "admin"  BY DEF ReadAdmin
<1>2. CASE Fail(c, "unreadable")  BY <1>1, <1>2, FailStep
<1>3. CASE Fail(c, "ErrNoAdminCredentials")  BY <1>1, <1>3, FailStep
<1> DEFINE read == [p \in Range(Pieces) |-> IF file[c].holds[p] = "data" THEN gen[c] ELSE NoneThere]
           r == [session[c] EXCEPT !.pc = "pieces", !.since = gen[c], !.creds = read]
<1>4. CASE Go(c, r)
    <2>1. OfItsTime(session[c], gen[c]) /\ BuiltOwn(c, session[c]) /\ DOMAIN session[c] = Fields /\ gen[c] \in Nat  BY SessionFacts
    <2>2. session[c].result = "none" /\ session[c].read = NoneThere  BY <1>1, <2>1 DEF OfItsTime
    <2>3. read \in [Parts -> Nat \union {NoneThere}] /\ \A p \in Parts : read[p] # NoneThere => read[p] = gen[c]  BY <2>1, Three
    <2> HIDE DEF read
    <2>4. DOMAIN r = Fields /\ r.pc = "pieces" /\ r.result = session[c].result /\ r.creds = read /\ r.since = gen[c] /\ r.next = session[c].next
          /\ r.at = session[c].at /\ r.built = session[c].built /\ r.read = session[c].read
          BY <2>1 DEF Fields
    <2> HIDE DEF r
    <2>5. OfItsTime(r, gen[c]) /\ BuiltOwn(c, r)  BY <2>1, <2>2, <2>3, <2>4 DEF OfItsTime, BuiltOwn
    <2>6. QED  BY <1>1, <1>4, <2>2, <2>4, <2>5, OneSession
<1>5. QED  BY <1>2, <1>3, <1>4 DEF ReadAdmin

LEMMA ResolvePEMStep == ASSUME AccessInv, NEW c \in Runs, ResolvePEM(c)  PROVE  AccessInv'
<1>1. UNCHANGED <<gen, nodes, kube, lost, hosts>> /\ session[c].pc = "pieces" /\ session[c].next <= Len(Pieces)  BY DEF ResolvePEM
<1>2. OfItsTime(session[c], gen[c]) /\ BuiltOwn(c, session[c]) /\ DOMAIN session[c] = Fields /\ gen[c] \in Nat  BY SessionFacts
<1>3. session[c].result = "none" /\ session[c].read = NoneThere /\ session[c].creds \in [Parts -> Nat \union {NoneThere}] /\ session[c].next \in Nat \ {0}
      /\ session[c].since \in Nat /\ session[c].since <= gen[c]
      BY <1>1, <1>2 DEF OfItsTime
<1> DEFINE p == Pieces[session[c].next]
<1>4. p \in Parts  BY <1>1, <1>3, Three
<1>5. CASE Fail(c, "unreadable")  BY <1>1, <1>5, FailStep
<1> DEFINE given == IF file[c].holds[p] = "path" THEN gen[c] ELSE session[c].creds[p]
           creds == [session[c].creds EXCEPT ![p] = given]
           r == [session[c] EXCEPT !.next = @ + 1, !.creds[p] = IF file[c].holds[p] = "path" THEN gen[c] ELSE @]
<1>6. CASE Go(c, r)
    <2>1. DOMAIN r = Fields /\ r.pc = session[c].pc /\ r.result = session[c].result /\ r.creds = creds /\ r.since = session[c].since /\ r.next = session[c].next + 1
          /\ r.at = session[c].at /\ r.built = session[c].built /\ r.read = session[c].read
          BY <1>2 DEF Fields
    <2>2. given = gen[c] \/ given = session[c].creds[p]  OBVIOUS
    <2> HIDE DEF p, given
    <2>3. creds \in [Parts -> Nat \union {NoneThere}] /\ \A q \in Parts : creds[q] = gen[c] \/ creds[q] = session[c].creds[q]  BY <1>2, <1>3, <1>4, <2>2
    <2> HIDE DEF creds, r
    <2>4. \A q \in Parts : creds[q] # NoneThere => session[c].since <= creds[q] /\ creds[q] <= gen[c]
          BY <1>2, <1>3, <2>3 DEF OfItsTime
    <2>5. OfItsTime(r, gen[c])  BY <1>1, <1>2, <1>3, <2>1, <2>3, <2>4 DEF OfItsTime
    <2>6. BuiltOwn(c, r)  BY <1>2, <2>1 DEF BuiltOwn
    <2>7. QED  BY <1>1, <1>3, <1>6, <2>1, <2>5, <2>6, OneSession
<1>7. QED  BY <1>5, <1>6 DEF ResolvePEM

(* What a run builds from nothing is its own cluster's entry alone. *)
LEMMA BuiltAlone ==
    ASSUME NEW c \in Runs, NEW creds
    PROVE  \A d \in Runs : (Merge(NewConfig, c, creds).entries[d] # NoEntry) <=> d = c
<1>1. \A d \in Runs : NewConfig.entries[d] = NoEntry  BY DEF NewConfig
<1>2. DOMAIN NewConfig.entries = Runs  BY DEF NewConfig
<1>3. Entry(NoEntry, creds) # NoEntry  BY DEF Entry, NoEntry
<1> DEFINE k == [NewConfig.entries EXCEPT ![c] = Entry(@, creds)]
<1>4. k[c] = Entry(NoEntry, creds) /\ \A d \in Runs \ {c} : k[d] = NoEntry  BY <1>1, <1>2
<1>5. Merge(NewConfig, c, creds).entries = k  BY DEF Merge
<1> HIDE DEF k
<1>6. QED  BY <1>3, <1>4, <1>5

LEMMA BuildStep == ASSUME AccessInv, NEW c \in Runs, Build(c)  PROVE  AccessInv'
<1>1. UNCHANGED <<gen, nodes, kube, lost, hosts>> /\ session[c].pc = "pieces"  BY DEF Build
<1>2. OfItsTime(session[c], gen[c]) /\ BuiltOwn(c, session[c]) /\ DOMAIN session[c] = Fields  BY SessionFacts
<1>3. session[c].result = "none" /\ session[c].read = NoneThere  BY <1>1, <1>2 DEF OfItsTime
<1>4. CASE Fail(c, "ErrNoAdminCredentials")  BY <1>1, <1>4, FailStep
<1> DEFINE made == Merge(NewConfig, c, session[c].creds)
           Goes(r) == /\ DOMAIN r = Fields /\ r.creds = session[c].creds /\ r.since = session[c].since /\ r.next = session[c].next
                      /\ r.at = session[c].at /\ r.read = session[c].read /\ r.built \in {session[c].built, made}
                      /\ \/ r.pc \in {"list", "read"} /\ r.result = "none"
                         \/ r.pc = "idle" /\ r.result = "ok"
<1>5. ASSUME NEW r, Go(c, r), Goes(r), \A p \in Parts : session[c].creds[p] # NoneThere  PROVE AccessInv'
    <2>1. session[c].creds \in [Parts -> Nat]  BY <1>2, <1>5 DEF OfItsTime
    <2>2. OfItsTime(r, gen[c])  BY <1>2, <1>3, <1>5, <2>1 DEF OfItsTime
    <2>3. \A d \in Runs : (made.entries[d] # NoEntry) <=> d = c  BY BuiltAlone
    <2> HIDE DEF made
    <2>4. BuiltOwn(c, r)  BY <1>2, <1>5, <2>3 DEF BuiltOwn
    <2>5. QED  BY <1>1, <1>3, <1>5, <2>2, <2>4, OneSession
<1>6. ASSUME ~ \E p \in Range(Pieces) : session[c].creds[p] = NoneThere  PROVE \A p \in Parts : session[c].creds[p] # NoneThere  BY <1>6, Three
<1>7. CASE Go(c, [session[c] EXCEPT !.pc = "list"]) /\ ~ \E p \in Range(Pieces) : session[c].creds[p] = NoneThere
    <2> DEFINE r == [session[c] EXCEPT !.pc = "list"]
    <2> HIDE DEF made
    <2>1. Goes(r)  BY <1>2, <1>3 DEF Fields
    <2> HIDE DEF r, Goes
    <2>2. QED  BY <1>5, <1>6, <1>7, <2>1 DEF r
<1>8. CASE Go(c, [session[c] EXCEPT !.pc = "read", !.built = made]) /\ ~ \E p \in Range(Pieces) : session[c].creds[p] = NoneThere
    <2> DEFINE r == [session[c] EXCEPT !.pc = "read", !.built = made]
    <2> HIDE DEF made
    <2>1. Goes(r)  BY <1>2, <1>3 DEF Fields
    <2> HIDE DEF r, Goes
    <2>2. QED  BY <1>5, <1>6, <1>8, <2>1 DEF r
<1>9. CASE Go(c, [session[c] EXCEPT !.pc = "idle", !.built = made, !.result = "ok"]) /\ ~ \E p \in Range(Pieces) : session[c].creds[p] = NoneThere
    <2> DEFINE r == [session[c] EXCEPT !.pc = "idle", !.built = made, !.result = "ok"]
    <2> HIDE DEF made
    <2>1. Goes(r)  BY <1>2, <1>3 DEF Fields
    <2> HIDE DEF r, Goes
    <2>2. QED  BY <1>5, <1>6, <1>9, <2>1 DEF r
<1> HIDE DEF Goes
<1>10. QED  BY <1>4, <1>7, <1>8, <1>9 DEF Build

LEMMA GetStartingConfigStep == ASSUME AccessInv, NEW c \in Runs, GetStartingConfig(c)  PROVE  AccessInv'
<1>1. UNCHANGED <<gen, nodes, kube, lost, hosts>> /\ session[c].pc = "read"  BY DEF GetStartingConfig
<1>2. OfItsTime(session[c], gen[c]) /\ BuiltOwn(c, session[c]) /\ DOMAIN session[c] = Fields  BY SessionFacts
<1>3. session[c].result = "none" /\ session[c].creds \in [Parts -> Nat] /\ Sound(kube)  BY <1>1, <1>2 DEF OfItsTime, AccessInv
<1> DEFINE r == [session[c] EXCEPT !.pc = "modify", !.read = kube]
<1>4. DOMAIN r = Fields /\ r.pc = "modify" /\ r.read = kube /\ r.result = "none" /\ r.creds = session[c].creds /\ r.since = session[c].since
      /\ r.next = session[c].next /\ r.at = session[c].at /\ r.built = session[c].built
      BY <1>2, <1>3 DEF Fields
<1>5. Go(c, r)  BY DEF GetStartingConfig
<1> HIDE DEF r
<1>6. OfItsTime(r, gen[c])  BY <1>2, <1>3, <1>4 DEF OfItsTime
<1>7. BuiltOwn(c, r)  BY <1>2, <1>4 DEF BuiltOwn
<1>8. QED  BY <1>1, <1>4, <1>5, <1>6, <1>7, OneSession

LEMMA ListNodesStep == ASSUME AccessInv, NEW c \in Runs, ListNodes(c)  PROVE  AccessInv'
<1>1. UNCHANGED <<gen, nodes, kube, lost, hosts>> /\ session[c].pc = "list"  BY DEF ListNodes
<1>2. OfItsTime(session[c], gen[c]) /\ BuiltOwn(c, session[c]) /\ DOMAIN session[c] = Fields  BY SessionFacts
<1>3. session[c].result = "none" /\ session[c].creds \in [Parts -> Nat] /\ session[c].read = NoneThere  BY <1>1, <1>2 DEF OfItsTime
<1> DEFINE r == [session[c] EXCEPT !.pc = "label", !.listed = nodes[c], !.at = 1]
<1>4. DOMAIN r = Fields /\ r.pc = "label" /\ r.read = NoneThere /\ r.result = "none" /\ r.creds = session[c].creds /\ r.since = session[c].since
      /\ r.next = session[c].next /\ r.at = 1 /\ r.built = session[c].built
      BY <1>2, <1>3 DEF Fields
<1>5. Go(c, r)  BY DEF ListNodes
<1> HIDE DEF r
<1>6. OfItsTime(r, gen[c])  BY <1>2, <1>3, <1>4 DEF OfItsTime
<1>7. BuiltOwn(c, r)  BY <1>2, <1>4 DEF BuiltOwn
<1>8. QED  BY <1>1, <1>4, <1>5, <1>6, <1>7, OneSession

LEMMA EndRunStep == ASSUME AccessInv, NEW c \in Runs, EndRun(c)  PROVE  AccessInv'
<1>1. UNCHANGED <<gen, nodes, kube, lost, hosts>> /\ session[c].pc = "label"  BY DEF EndRun
<1>2. OfItsTime(session[c], gen[c]) /\ BuiltOwn(c, session[c]) /\ DOMAIN session[c] = Fields  BY SessionFacts
<1>3. session[c].creds \in [Parts -> Nat] /\ session[c].read = NoneThere  BY <1>1, <1>2 DEF OfItsTime
<1> DEFINE r == [session[c] EXCEPT !.pc = "idle", !.result = "ok"]
<1>4. DOMAIN r = Fields /\ r.pc = "idle" /\ r.read = NoneThere /\ r.result = "ok" /\ r.creds = session[c].creds /\ r.since = session[c].since
      /\ r.next = session[c].next /\ r.at = session[c].at /\ r.built = session[c].built
      BY <1>2, <1>3 DEF Fields
<1>5. Go(c, r)  BY DEF EndRun
<1> HIDE DEF r
<1>6. OfItsTime(r, gen[c])  BY <1>2, <1>3, <1>4 DEF OfItsTime
<1>7. BuiltOwn(c, r)  BY <1>2, <1>4 DEF BuiltOwn
<1>8. QED  BY <1>1, <1>4, <1>5, <1>6, <1>7, OneSession

(* The label goes to a node of the host's name. *)
LEMMA LabelNodeStep == ASSUME AccessInv, NEW c \in Runs, LabelNode(c)  PROVE  AccessInv'
<1>1. UNCHANGED <<gen, kube, lost, hosts>> /\ session[c].pc = "label" /\ session[c].at <= Len(hosts[c])  BY DEF LabelNode
<1>2. OfItsTime(session[c], gen[c]) /\ BuiltOwn(c, session[c]) /\ DOMAIN session[c] = Fields  BY SessionFacts
<1>3. session[c].creds \in [Parts -> Nat] /\ session[c].read = NoneThere /\ session[c].result = "none" /\ session[c].at \in Nat \ {0}  BY <1>1, <1>2 DEF OfItsTime
<1> DEFINE r == [session[c] EXCEPT !.at = @ + 1]
<1>4. DOMAIN r = Fields /\ r.pc = "label" /\ r.read = NoneThere /\ r.result = "none" /\ r.creds = session[c].creds /\ r.since = session[c].since
      /\ r.next = session[c].next /\ r.at = session[c].at + 1 /\ r.built = session[c].built
      BY <1>1, <1>2, <1>3 DEF Fields
<1>5. OfItsTime(r, gen[c]) /\ BuiltOwn(c, r)
    <2> HIDE DEF r
    <2>1. QED  BY <1>2, <1>3, <1>4 DEF OfItsTime, BuiltOwn
<1>6. CASE Go(c, r) /\ UNCHANGED nodes
    <2> HIDE DEF r
    <2>1. QED  BY <1>1, <1>4, <1>5, <1>6, OneSession
<1>7. CASE Fail(c, "patch") /\ UNCHANGED nodes  BY <1>1, <1>7, FailStep
<1>8. ASSUME NEW n \in NodeOf(c), n \in DOMAIN nodes[c], nodes' = [nodes EXCEPT ![c][n] = @ \union {HostOf(c).profile}], Go(c, r)  PROVE AccessInv'
    <2> HIDE DEF r
    <2>1. DOMAIN nodes = Runs /\ DOMAIN session = Runs /\ hosts[c] \in Seq(HostRecord)  BY DEF AccessInv, Clusters
    <2>2. session[c].at \in DOMAIN hosts[c]  BY <1>1, <1>3, <2>1
    <2>3. Lower[n] = Lower[HostOf(c).name]  BY <1>8 DEF NodeOf
    <2>4. /\ DOMAIN nodes' = Runs /\ DOMAIN nodes'[c] = DOMAIN nodes[c] /\ nodes'[c][n] = nodes[c][n] \union {HostOf(c).profile}
          /\ \A m \in DOMAIN nodes[c] \ {n} : nodes'[c][m] = nodes[c][m]
          /\ \A d \in Runs \ {c} : nodes'[d] = nodes[d]
          BY <1>8, <2>1
    <2>5. OwnProfiles(hosts[c], nodes[c])  BY DEF AccessInv
    <2>6. OwnProfiles(hosts[c], nodes'[c])  BY <2>2, <2>3, <2>4, <2>5 DEF OwnProfiles, HostOf
    <2>7. session'[c] = r /\ DOMAIN session' = Runs /\ \A d \in Runs \ {c} : session'[d] = session[d]  BY <1>8, <2>1 DEF Go
    <2>8. Clusters'  BY <1>1, <2>4, <2>7 DEF AccessInv, Clusters
    <2>9. Sound(kube)'  BY <1>1 DEF AccessInv, Sound, Whole
    <2>10. ASSUME NEW d \in Runs
           PROVE  /\ OfItsTime(session[d], gen[d])' /\ BuiltOwn(d, session[d])'
                  /\ (d \notin lost => Kept(d, session[d], kube.entries[d]))' /\ OwnProfiles(hosts[d], nodes[d])'
        <3>1. CASE d = c
            <4>1. session'[d] = r /\ gen'[d] = gen[c] /\ hosts' = hosts  BY <1>1, <2>7, <3>1
            <4>2. Kept(d, session[d], kube.entries[d])'  BY <1>4, <4>1 DEF Kept
            <4>3. QED  BY <1>5, <2>6, <3>1, <4>1, <4>2
        <3>2. CASE d # c
            <4>1. session'[d] = session[d] /\ gen' = gen /\ kube' = kube /\ lost' = lost /\ hosts' = hosts /\ nodes'[d] = nodes[d]  BY <1>1, <2>4, <2>7, <3>2
            <4>2. OfItsTime(session[d], gen[d]) /\ BuiltOwn(d, session[d]) /\ (d \notin lost => Kept(d, session[d], kube.entries[d])) /\ OwnProfiles(hosts[d], nodes[d])
                  BY DEF AccessInv
            <4>3. QED  BY <4>1, <4>2
        <3>3. QED  BY <3>1, <3>2
    <2>11. QED  BY <2>8, <2>9, <2>10 DEF AccessInv
<1> HIDE DEF r
<1>9. QED  BY <1>6, <1>7, <1>8 DEF LabelNode, r

(* What is merged into a kubeconfig whose contexts have what they name leaves it one. *)
LEMMA MergeSound ==
    ASSUME NEW k, Sound(k), NEW c \in Runs, NEW creds \in [Parts -> Nat]
    PROVE  /\ Sound(Merge(k, c, creds))
           /\ Merge(k, c, creds).entries[c] = Entry(k.entries[c], creds)
           /\ \A d \in Runs \ {c} : Merge(k, c, creds).entries[d] = k.entries[d]
<1> DEFINE e == Entry(k.entries[c], creds)
           entries == [k.entries EXCEPT ![c] = Entry(@, creds)]
<1>1. k \in [entries : [Runs -> Entries], current : Runs \union {NoneThere}] /\ k.entries \in [Runs -> Entries] /\ k.entries[c] \in Entries  BY DEF Sound
<1>2. creds.ca \in Nat /\ creds.cert \in Nat /\ creds.key \in Nat  BY DEF Parts
<1> DEFINE extra == IF k.entries[c].cluster = NoneThere THEN "none" ELSE k.entries[c].cluster.extra
<1>3. extra \in {"none", "proxy"}  BY <1>1 DEF Entries
<1>4. e = [cluster |-> [ca |-> creds.ca, extra |-> extra], user |-> [cert |-> creds.cert, key |-> creds.key], context |-> TRUE]  BY DEF Entry
<1> HIDE DEF e, extra
<1>5. e.cluster \in [ca : Nat, extra : {"none", "proxy"}] /\ e.user \in [cert : Nat, key : Nat] /\ e.context = TRUE  BY <1>2, <1>3, <1>4
<1>6. e \in Entries  BY <1>4, <1>5 DEF Entries
<1>7. e.cluster # NoneThere /\ e.user # NoneThere
    <2>1. [ca : Nat, extra : {"none", "proxy"}] \subseteq [ca : Int, extra : {"none", "proxy"}] /\ [cert : Nat, key : Nat] \subseteq [cert : Int, key : Int]  OBVIOUS
    <2>2. QED  BY <1>5, <2>1, AccessAssumption
<1>8. entries[c] = e /\ \A d \in Runs \ {c} : entries[d] = k.entries[d]  BY <1>1 DEF e
<1>9. entries \in [Runs -> Entries]  BY <1>1, <1>6 DEF e
<1> HIDE DEF entries
<1>10. Merge(k, c, creds) = [entries |-> entries, current |-> c]  BY DEF Merge, entries
<1>11. \A d \in Runs : Whole(entries[d])  BY <1>5, <1>7, <1>8 DEF Sound, Whole
<1>12. Sound(Merge(k, c, creds))  BY <1>5, <1>8, <1>9, <1>10, <1>11 DEF Sound
<1>13. QED  BY <1>8, <1>10, <1>12 DEF e

(* A run that writes leaves its own entry, and those of others as it had read them: an entry that *)
(* has changed since is counted among the lost.                                                  *)
LEMMA ModifyConfigStep == ASSUME AccessInv, NEW c \in Runs, ModifyConfig(c)  PROVE  AccessInv'
<1> DEFINE old == session[c]  r == [session[c] EXCEPT !.pc = "idle", !.result = "ok"]
<1>1. UNCHANGED <<gen, nodes, hosts>> /\ old.pc = "modify" /\ kube' = Merge(old.read, c, old.creds) /\ Go(c, r)
      /\ lost' = (lost \ {c}) \union {d \in Runs \ {c} : kube.entries[d] # old.read.entries[d]}
      BY DEF ModifyConfig
<1>2. OfItsTime(old, gen[c]) /\ BuiltOwn(c, old) /\ DOMAIN old = Fields  BY SessionFacts
<1>3. old.creds \in [Parts -> Nat] /\ Sound(old.read)  BY <1>1, <1>2 DEF OfItsTime
<1>4. DOMAIN r = Fields /\ r.pc = "idle" /\ r.read = old.read /\ r.result = "ok" /\ r.creds = old.creds /\ r.since = old.since
      /\ r.next = old.next /\ r.at = old.at /\ r.built = old.built
      BY <1>2 DEF Fields
<1> HIDE DEF r, old
<1>5. OfItsTime(r, gen[c])  BY <1>2, <1>3, <1>4 DEF OfItsTime
<1>6. BuiltOwn(c, r)  BY <1>2, <1>4 DEF BuiltOwn
<1>7. Sound(kube') /\ kube'.entries[c] = Entry(old.read.entries[c], old.creds) /\ \A d \in Runs \ {c} : kube'.entries[d] = old.read.entries[d]
      BY <1>1, <1>3, MergeSound
<1>8. Kept(c, r, kube'.entries[c])  BY <1>4, <1>7 DEF Kept, Entry
<1>9. session'[c] = r /\ DOMAIN session' = Runs /\ \A d \in Runs \ {c} : session'[d] = session[d]  BY <1>1 DEF Go, AccessInv, Clusters
<1>10. Clusters'  BY <1>1, <1>9 DEF AccessInv, Clusters
<1>11. ASSUME NEW d \in Runs
       PROVE  /\ OfItsTime(session[d], gen[d])' /\ BuiltOwn(d, session[d])'
              /\ (d \notin lost => Kept(d, session[d], kube.entries[d]))' /\ OwnProfiles(hosts[d], nodes[d])'
    <2>1. OfItsTime(session[d], gen[d]) /\ BuiltOwn(d, session[d]) /\ (d \notin lost => Kept(d, session[d], kube.entries[d])) /\ OwnProfiles(hosts[d], nodes[d])
          BY DEF AccessInv
    <2>2. gen' = gen /\ nodes' = nodes /\ hosts' = hosts  BY <1>1
    <2>3. CASE d = c  BY <1>5, <1>6, <1>8, <1>9, <2>1, <2>2, <2>3
    <2>4. CASE d # c
        <3>1. session'[d] = session[d]  BY <1>9, <2>4
        <3>2. d \notin lost' => d \notin lost /\ kube'.entries[d] = kube.entries[d]  BY <1>1, <1>7, <2>4
        <3>3. QED  BY <2>1, <2>2, <3>1, <3>2
    <2>5. QED  BY <2>3, <2>4
<1>12. QED  BY <1>7, <1>10, <1>11 DEF AccessInv

(* What the clusters do of themselves. *)
LEMMA RotateStep == ASSUME AccessInv, NEW c \in Runs, Rotate(c)  PROVE  AccessInv'
<1>1. UNCHANGED <<hosts, nodes, kube, session, lost>> /\ gen' = [gen EXCEPT ![c] = @ + 1]  BY DEF Rotate
<1>2. gen \in [Runs -> Nat] /\ gen' \in [Runs -> Nat] /\ \A d \in Runs : gen[d] <= gen'[d]  BY <1>1 DEF AccessInv, Clusters
<1>3. Clusters'  BY <1>1, <1>2 DEF AccessInv, Clusters
<1>4. Sound(kube)'  BY <1>1 DEF AccessInv, Sound, Whole
<1>5. ASSUME NEW d \in Runs
      PROVE  /\ OfItsTime(session[d], gen[d])' /\ BuiltOwn(d, session[d])'
             /\ (d \notin lost => Kept(d, session[d], kube.entries[d]))' /\ OwnProfiles(hosts[d], nodes[d])'
    <2>1. OfItsTime(session[d], gen[d]) /\ BuiltOwn(d, session[d]) /\ (d \notin lost => Kept(d, session[d], kube.entries[d])) /\ OwnProfiles(hosts[d], nodes[d])
          BY DEF AccessInv
    <2>2. gen[d] \in Nat /\ gen'[d] \in Nat /\ gen[d] <= gen'[d]  BY <1>2
    <2>3. OfItsTime(session[d], gen'[d])  BY <2>1, <2>2 DEF OfItsTime
    <2>4. QED  BY <1>1, <2>1, <2>3
<1>6. QED  BY <1>3, <1>4, <1>5 DEF AccessInv

(* The names and profiles of the hosts stay, and what nodes remain keep their labels. *)
LEMMA ClusterChanges ==
    ASSUME AccessInv, UNCHANGED <<gen, kube, session, lost>>, DOMAIN nodes' = Runs, hosts' \in [Runs -> Seq(HostRecord)],
           \A d \in Runs : OwnProfiles(hosts'[d], nodes'[d])
    PROVE  AccessInv'
<1>1. Clusters'  BY DEF AccessInv, Clusters
<1>2. Sound(kube)'  BY DEF AccessInv, Sound, Whole
<1>3. ASSUME NEW d \in Runs
      PROVE  /\ OfItsTime(session[d], gen[d])' /\ BuiltOwn(d, session[d])'
             /\ (d \notin lost => Kept(d, session[d], kube.entries[d]))' /\ OwnProfiles(hosts[d], nodes[d])'
    <2>1. OfItsTime(session[d], gen[d]) /\ BuiltOwn(d, session[d]) /\ (d \notin lost => Kept(d, session[d], kube.entries[d]))  BY DEF AccessInv
    <2>2. QED  BY <2>1
<1>4. QED  BY <1>1, <1>2, <1>3 DEF AccessInv

LEMMA StopControllerStep == ASSUME AccessInv, NEW c \in Runs, StopController(c)  PROVE  AccessInv'
<1>1. PICK i \in DOMAIN hosts[c] : hosts[c][i].running /\ hosts' = [hosts EXCEPT ![c][i].running = FALSE]  BY DEF StopController
<1>2. hosts \in [Runs -> Seq(HostRecord)] /\ hosts[c] \in Seq(HostRecord)  BY DEF AccessInv, Clusters
<1> DEFINE h == hosts[c][i]  stopped == [h EXCEPT !.running = FALSE]  list == [hosts[c] EXCEPT ![i] = stopped]
<1>3. h \in HostRecord  BY <1>1, <1>2
<1>4. stopped \in HostRecord /\ stopped.profile = h.profile /\ stopped.name = h.name  BY <1>3 DEF HostRecord
<1>5. list \in Seq(HostRecord) /\ DOMAIN list = DOMAIN hosts[c] /\ \A j \in DOMAIN list : list[j].profile = hosts[c][j].profile /\ list[j].name = hosts[c][j].name
    <2> HIDE DEF stopped
    <2>1. list[i] = stopped /\ DOMAIN list = DOMAIN hosts[c] /\ \A j \in DOMAIN list \ {i} : list[j] = hosts[c][j]  BY <1>1
    <2>2. hosts[c] \in [1..Len(hosts[c]) -> HostRecord] /\ Len(hosts[c]) \in Nat  BY <1>2
    <2>3. list \in [1..Len(hosts[c]) -> HostRecord]  BY <1>4, <2>2
    <2>4. list \in Seq(HostRecord)  BY <2>2, <2>3
    <2>5. QED  BY <1>4, <2>1, <2>4
<1>6. hosts' = [hosts EXCEPT ![c] = list]  BY <1>1
<1> HIDE DEF h, stopped, list
<1>7. hosts' \in [Runs -> Seq(HostRecord)] /\ hosts'[c] = list /\ \A d \in Runs \ {c} : hosts'[d] = hosts[d]  BY <1>2, <1>5, <1>6
<1>8. UNCHANGED <<gen, nodes, kube, session, lost>>  BY DEF StopController
<1>9. ASSUME NEW d \in Runs  PROVE OwnProfiles(hosts'[d], nodes'[d])
    <2>1. OwnProfiles(hosts[d], nodes[d])  BY DEF AccessInv
    <2>2. nodes'[d] = nodes[d]  BY <1>8
    <2>3. DOMAIN hosts'[d] = DOMAIN hosts[d] /\ \A j \in DOMAIN hosts[d] : hosts'[d][j].profile = hosts[d][j].profile /\ hosts'[d][j].name = hosts[d][j].name
          BY <1>5, <1>7
    <2>4. QED  BY <2>1, <2>2, <2>3 DEF OwnProfiles
<1>10. DOMAIN nodes' = Runs  BY <1>8 DEF AccessInv, Clusters
<1>11. QED  BY <1>7, <1>8, <1>9, <1>10, ClusterChanges

LEMMA RemoveNodeStep == ASSUME AccessInv, NEW c \in Runs, RemoveNode(c)  PROVE  AccessInv'
<1>1. PICK n \in DOMAIN nodes[c] : nodes' = [nodes EXCEPT ![c] = [m \in DOMAIN nodes[c] \ {n} |-> nodes[c][m]]]  BY DEF RemoveNode
<1>2. DOMAIN nodes = Runs /\ hosts \in [Runs -> Seq(HostRecord)]  BY DEF AccessInv, Clusters
<1>3. UNCHANGED <<gen, hosts, kube, session, lost>>  BY DEF RemoveNode
<1>4. ASSUME NEW d \in Runs  PROVE OwnProfiles(hosts'[d], nodes'[d])
    <2>1. OwnProfiles(hosts[d], nodes[d])  BY DEF AccessInv
    <2>2. DOMAIN nodes'[d] \subseteq DOMAIN nodes[d] /\ \A m \in DOMAIN nodes'[d] : nodes'[d][m] = nodes[d][m]  BY <1>1, <1>2
    <2>3. hosts'[d] = hosts[d]  BY <1>3
    <2>4. QED  BY <2>1, <2>2, <2>3 DEF OwnProfiles
<1>5. QED  BY <1>1, <1>2, <1>3, <1>4, ClusterChanges

LEMMA AccessInitially == AccessInit => AccessInv
<1> SUFFICES ASSUME AccessInit PROVE AccessInv  OBVIOUS
<1>1. PICK w \in Worlds : hosts = [c \in Runs |-> w[c].hosts] /\ nodes = [c \in Runs |-> w[c].nodes]  BY DEF AccessInit
<1>2. \A c \in Runs : w[c].hosts \in Seq(HostRecord) /\ OwnProfiles(w[c].hosts, w[c].nodes)  BY AccessAssumption
<1>3. gen = [c \in Runs |-> 1] /\ session = [c \in Runs |-> Fresh]  BY DEF AccessInit
<1>4. Clusters  BY <1>1, <1>2, <1>3 DEF Clusters
<1>5. PICK c \in Runs : kube = [entries |-> [d \in Runs |-> IF d = c THEN GivenEntry ELSE NoEntry], current |-> NoneThere]  BY DEF AccessInit
<1>6. NoEntry \in Entries /\ GivenEntry \in Entries /\ Whole(NoEntry) /\ Whole(GivenEntry)
    <2>1. [ca |-> 0, extra |-> "proxy"] \in [ca : Nat, extra : {"none", "proxy"}]  OBVIOUS
    <2> DEFINE given == [ca |-> 0, extra |-> "proxy"]
    <2>2. GivenEntry = [cluster |-> given, user |-> NoneThere, context |-> FALSE]  BY DEF GivenEntry
    <2> HIDE DEF given
    <2>3. GivenEntry \in Entries  BY <2>1, <2>2 DEF Entries, given
    <2>4. NoEntry \in Entries  BY DEF NoEntry, Entries
    <2>5. QED  BY <2>2, <2>3, <2>4 DEF NoEntry, Whole
<1>7. Sound(kube)
    <2>1. kube.current = NoneThere /\ \A d \in Runs : kube.entries[d] \in {GivenEntry, NoEntry}  BY <1>5
    <2>2. kube \in [entries : [Runs -> Entries], current : Runs \union {NoneThere}]  BY <1>5, <1>6
    <2>3. QED  BY <1>6, <2>1, <2>2 DEF Sound
<1>8. ASSUME NEW d \in Runs
      PROVE  OfItsTime(session[d], gen[d]) /\ BuiltOwn(d, session[d]) /\ Kept(d, session[d], kube.entries[d]) /\ OwnProfiles(hosts[d], nodes[d])
    <2>1. session[d] = Fresh /\ gen[d] = 1 /\ hosts[d] = w[d].hosts /\ nodes[d] = w[d].nodes  BY <1>1, <1>3
    <2>2. Fresh.result = "none"  BY DEF Fresh
    <2>3. OfItsTime(Fresh, 1) /\ BuiltOwn(d, Fresh)  BY FreshSession
    <2>4. QED  BY <1>2, <2>1, <2>2, <2>3 DEF Kept
<1>9. QED  BY <1>4, <1>7, <1>8 DEF AccessInv

LEMMA AccessStep == AccessInv /\ [AccessNext]_accessVars => AccessInv'
<1> SUFFICES ASSUME AccessInv, [AccessNext]_accessVars PROVE AccessInv'  OBVIOUS
<1>1. CASE UNCHANGED accessVars
    <2>1. UNCHANGED <<gen, kube, session, lost, hosts, nodes>>  BY <1>1 DEF accessVars
    <2>2. DOMAIN nodes' = Runs /\ hosts' \in [Runs -> Seq(HostRecord)] /\ \A d \in Runs : OwnProfiles(hosts'[d], nodes'[d])  BY <2>1 DEF AccessInv, Clusters
    <2>3. QED  BY <2>1, <2>2, ClusterChanges
<1>2. ASSUME NEW c \in Runs,
             \/ Prepare(c) \/ ReadAdmin(c) \/ ResolvePEM(c) \/ Build(c) \/ GetStartingConfig(c) \/ ModifyConfig(c)
             \/ ListNodes(c) \/ LabelNode(c) \/ EndRun(c) \/ Rotate(c) \/ StopController(c) \/ RemoveNode(c)
      PROVE  AccessInv'
      BY <1>2, PrepareStep, ReadAdminStep, ResolvePEMStep, BuildStep, GetStartingConfigStep, ModifyConfigStep, ListNodesStep, LabelNodeStep, EndRunStep,
         RotateStep, StopControllerStep, RemoveNodeStep
<1>3. QED  BY <1>1, <1>2 DEF AccessNext

LEMMA AccessFromInv == AccessInv => AccessSound
<1> SUFFICES ASSUME AccessInv PROVE AccessSound  OBVIOUS
<1>1. Sound(kube)  BY DEF AccessInv
<1>2. ASSUME NEW c \in Runs
      PROVE  LET e == kube.entries[c]  r == session[c] IN
        /\ e.context <=> e.user # NoneThere
        /\ e.context => e.cluster # NoneThere /\ NoneThere \notin {e.cluster.ca, e.user.cert, e.user.key}
        /\ (r.result = "ok" /\ r.read # NoneThere /\ c \notin lost) =>
            e.context /\ e.user.cert = r.creds.cert /\ e.cluster.extra = (IF r.read.entries[c].cluster = NoneThere THEN "none" ELSE r.read.entries[c].cluster.extra)
        /\ r.built # NoneThere => \A d \in Runs : (r.built.entries[d] # NoEntry) <=> d = c
        /\ (r.result = "ok" /\ r.since = gen[c]) => r.creds.cert = r.creds.key
        /\ OwnProfiles(hosts[c], nodes[c])
    <2> DEFINE e == kube.entries[c]  r == session[c]
    <2>1. OfItsTime(r, gen[c]) /\ BuiltOwn(c, r) /\ (c \notin lost => Kept(c, r, e)) /\ OwnProfiles(hosts[c], nodes[c]) /\ gen[c] \in Nat  BY DEF AccessInv, Clusters
    <2>2. e \in Entries /\ Whole(e)  BY <1>1 DEF Sound
    <2> HIDE DEF e, r
    <2>3. NoneThere \notin Nat  BY AccessAssumption
    <2>4. e.context => e.cluster # NoneThere /\ NoneThere \notin {e.cluster.ca, e.user.cert, e.user.key}  BY <2>2, <2>3 DEF Entries, Whole
    <2>5. r.result = "ok" /\ r.since = gen[c] => r.creds.cert = r.creds.key
        <3> SUFFICES ASSUME r.result = "ok", r.since = gen[c] PROVE r.creds["cert"] = r.creds["key"]  OBVIOUS
        <3>1. r.creds \in [Parts -> Nat] /\ \A p \in Parts : r.creds[p] # NoneThere => r.since <= r.creds[p] /\ r.creds[p] <= gen[c]  BY <2>1 DEF OfItsTime
        <3>2. \A p \in Parts : r.creds[p] = gen[c]  BY <2>1, <2>3, <3>1
        <3>3. QED  BY <3>2 DEF Parts
    <2>6. QED  BY <2>1, <2>2, <2>4, <2>5 DEF e, r, Whole, Kept, BuiltOwn
<1>3. kube.current # NoneThere => kube.entries[kube.current].context  BY <1>1 DEF Sound
<1>4. QED  BY <1>2, <1>3 DEF AccessSound

(* The operator's kubeconfig opens what it says and keeps what it was given, and nodes carry the      *)
(* profiles of hosts of their name, for every number of clusters whose runs meet at any point of the  *)
(* merge, and however their certificates rotate, their controllers stop and their nodes go            *)
(* (80_kubeconfig.go, 81_label_nodes.go).                                                             *)
THEOREM AccessStaysSound == AccessSpec => []AccessSound
<1>1. AccessInit => AccessInv  BY AccessInitially
<1>2. AccessInv /\ [AccessNext]_accessVars => AccessInv'  BY AccessStep
<1>3. AccessInv => AccessSound  BY AccessFromInv
<1>4. QED  BY <1>1, <1>2, <1>3, PTL DEF AccessSpec
-----------------------------------------------------------------------------
(* The hosts a run goes on with.                                           *)

FactNames == {"connected", "dials", "os", "arch", "name", "iface", "addr", "rules", "taints", "skew", "configurer"}

\* The steps of a run that come after each.
Later == [connect |-> {"detect", "investigate", "profiles", "validate", "clocks", "ready"},
          detect |-> {"investigate", "profiles", "validate", "clocks", "ready"},
          investigate |-> {"profiles", "validate", "clocks", "ready"}, profiles |-> {"validate", "clocks", "ready"},
          validate |-> {"clocks", "ready"}, clocks |-> {"ready"}, ready |-> {}]

Steps == {"connect", "detect", "investigate", "profiles", "validate", "clocks", "ready"}
Past(s, h) == step \in Later[s] \/ (step = s /\ h \notin todo)

\* The rules and the taints of a host: its own, and with those of its profile.
AsGiven(h) == facts[h].rules = inv[h].rules /\ facts[h].taints = inv[h].taints
WithProfile(h) ==
    IF inv[h].profile \in DOMAIN Profiles
    THEN /\ facts[h].rules = MergeRules(inv[h].rules, Profiles[inv[h].profile].rules)
         /\ facts[h].taints = MergeList(inv[h].taints, Profiles[inv[h].profile].taints)
    ELSE AsGiven(h)

\* What a step established of a host stays, to the end of the run.
Learned(h) ==
    /\ Past("connect", h) => facts[h].connected
    /\ Past("detect", h) => facts[h].configurer \in {inv[h].os} \union Range(inv[h].like)
    /\ Past("investigate", h) => facts[h].name # None
    /\ IF Past("profiles", h) THEN WithProfile(h) ELSE AsGiven(h)
    /\ Past("validate", h) => UniqueName(h) /\ UniqueAddress(h) /\ FirewallUsable(h) /\ ArchCarried(h)
    /\ Past("clocks", h) => facts[h].skew = inv[h].skew

PreflightTypes ==
    /\ inv \in Inventories /\ step \in Steps \union {"failed", "over"}
    /\ todo \subseteq Listed /\ failed \subseteq Listed
    /\ DOMAIN facts = Listed /\ \A h \in Listed : DOMAIN facts[h] = FactNames

PreflightInv ==
    /\ PreflightTypes
    /\ step \in Steps => \A h \in Listed \ failed : Learned(h)
    /\ step = "ready" => failed = {} /\ \A h \in Listed : Deviation(h) <= MaxSkew

LEMMA PreflightInitially == PreflightInit => PreflightInv
<1>. SUFFICES ASSUME PreflightInit PROVE PreflightInv
  OBVIOUS
<1>1. PreflightTypes
  BY DEF PreflightInit, PreflightTypes, Unknown, FactNames, Steps, Listed
<1>2. ASSUME NEW h \in Listed PROVE Learned(h)
  <2>1. AsGiven(h)
    BY DEF PreflightInit, AsGiven, Unknown
  <2>2. \A s \in Steps : ~Past(s, h)
    <3>1. \A s \in Steps : "connect" \notin Later[s]
      BY DEF Later, Steps
    <3>. QED
      BY <3>1 DEF PreflightInit, Past
  <2>. QED
    BY <2>1, <2>2 DEF Learned, Later, Steps
<1>. QED
  BY <1>1, <1>2 DEF PreflightInv, PreflightInit

\* A step done on one host: what it leaves of the facts that were there, and what it adds.
LEMMA HostStep ==
    ASSUME PreflightInv, step \in Steps \ {"ready"}, NEW h \in todo, NEW f, NEW ok,
           Done(h, f, ok), DOMAIN f = FactNames, h \notin failed' => Learned(h)',
           step # "connect" => f.connected = facts[h].connected,
           step \notin {"connect", "detect"} => f.configurer = facts[h].configurer,
           step \in {"profiles", "validate", "clocks"} => f.name = facts[h].name /\ f.addr = facts[h].addr /\ f.arch = facts[h].arch
    PROVE  PreflightInv'
<1>1. PreflightTypes' /\ Listed' = Listed /\ h \in Listed
  BY DEF PreflightInv, PreflightTypes, Done, Listed, Later, Steps
<1>2. ASSUME NEW g \in Listed \ failed', g # h PROVE Learned(g)'
  <2>1. Learned(g)
    BY <1>1 DEF PreflightInv, Done
  <2>2. \A x \in Steps : Past(x, g)' = Past(x, g)
    BY <1>2 DEF Past, Done
  <2>3. facts'[g] = facts[g] /\ inv' = inv
    BY <1>2 DEF Done
  <2>4. AsGiven(g)' = AsGiven(g) /\ WithProfile(g)' = WithProfile(g) /\ FirewallUsable(g)' = FirewallUsable(g) /\ ArchCarried(g)' = ArchCarried(g)
    BY <2>3 DEF AsGiven, WithProfile, FirewallUsable, ArchCarried
  <2>5. CASE step \in {"validate", "clocks"}
    <3>1. \A x \in Listed : facts'[x].name = facts[x].name /\ facts'[x].addr = facts[x].addr
      BY <2>5, <1>1 DEF Done, PreflightInv, PreflightTypes
    <3>2. UniqueName(g)' = UniqueName(g) /\ UniqueAddress(g)' = UniqueAddress(g)
      BY <3>1, <1>1 DEF UniqueName, UniqueAddress, Sharing
    <3>. QED
      BY <2>1, <2>2, <2>3, <2>4, <3>2 DEF Learned, Later, Steps
  <2>6. CASE step \notin {"validate", "clocks"}
    <3>1. ~Past("validate", g)
      BY <2>6, <1>1 DEF Past, Later, Steps
    <3>. QED
      BY <2>1, <2>2, <2>3, <2>4, <3>1 DEF Learned, Later, Steps
  <2>. QED
    BY <2>5, <2>6
<1>. QED
  BY <1>1, <1>2 DEF PreflightInv, Done

(* One step for each phase. *)
LEMMA HostFacts ==
    ASSUME PreflightInv, NEW h \in todo, NEW f, NEW ok, Done(h, f, ok), step \in Steps
    PROVE  /\ h \in Listed /\ DOMAIN facts[h] = FactNames /\ facts'[h] = f /\ inv' = inv /\ step' = step /\ h \notin todo'
           /\ h \notin failed' => ok /\ Learned(h)
BY DEF PreflightInv, PreflightTypes, Done, Listed

LEMMA ConnectStep == ASSUME PreflightInv, NEW h \in Listed, Connect(h) PROVE PreflightInv'
<1>0. step = "connect" /\ h \in todo
  BY DEF Connect
<1>1. CASE Done(h, [facts[h] EXCEPT !.connected = TRUE], TRUE)
  <2>1. h \notin failed' => Learned(h)'
    <3>. SUFFICES ASSUME h \notin failed' PROVE Learned(h)'
      OBVIOUS
    <3>1. Learned(h) /\ facts'[h] = [facts[h] EXCEPT !.connected = TRUE] /\ inv' = inv /\ step' = step /\ DOMAIN facts[h] = FactNames
      BY <1>0, <1>1, HostFacts DEF Later, Steps
    <3>2. AsGiven(h)
      BY <3>1, <1>0 DEF Learned, Past, Later, Steps
    <3>3. AsGiven(h)' /\ facts'[h].connected
      BY <3>1, <3>2 DEF AsGiven, FactNames
    <3>. QED
      BY <3>3, <3>1, <1>0 DEF Learned, Past, Later, Steps
  <2>2. DOMAIN [facts[h] EXCEPT !.connected = TRUE] = FactNames
    BY DEF PreflightInv, PreflightTypes
  <2>. QED
    BY <1>0, <1>1, <2>1, <2>2, HostStep DEF Later, Steps
<1>2. CASE Done(h, facts[h], FALSE)
  <2>1. h \notin failed' => Learned(h)'
    BY <1>2 DEF Done
  <2>2. DOMAIN facts[h] = FactNames
    BY DEF PreflightInv, PreflightTypes
  <2>. QED
    BY <1>0, <1>2, <2>1, <2>2, HostStep DEF Later, Steps
<1>3. CASE facts' = [facts EXCEPT ![h].dials = @ + 1] /\ UNCHANGED <<inv, step, todo, failed>>
  <2>1. /\ PreflightTypes' /\ Listed' = Listed
        /\ \A g \in Listed : \A n \in FactNames \ {"dials"} : facts'[g][n] = facts[g][n]
    BY <1>3 DEF PreflightInv, PreflightTypes, Listed
  <2>2. ASSUME NEW g \in Listed \ failed PROVE Learned(g)'
    <3>1. Learned(g) /\ AsGiven(g)
      BY <1>0 DEF PreflightInv, Learned, Past, Later, Steps
    <3>2. facts'[g].connected = facts[g].connected /\ AsGiven(g)'
      BY <2>1, <3>1, <1>3 DEF AsGiven, FactNames
    <3>. QED
      BY <3>1, <3>2, <1>0, <1>3 DEF Learned, Past, Later, Steps
  <2>. QED
    BY <2>1, <2>2, <1>0, <1>3 DEF PreflightInv
<1>. QED
  BY <1>1, <1>2, <1>3 DEF Connect, TryAgain

LEMMA DetectOSStep == ASSUME PreflightInv, NEW h \in Listed, DetectOS(h) PROVE PreflightInv'
<1>0. step = "detect" /\ h \in todo /\ DOMAIN facts[h] = FactNames
  BY DEF DetectOS, PreflightInv, PreflightTypes
<1>. DEFINE tried == Releases(h)
            hits == {i \in DOMAIN tried : ResolveOSModule(tried[i])}
<1>1. ASSUME NEW hit \in hits, Done(h, [facts[h] EXCEPT !.os = tried[hit], !.configurer = tried[hit]], TRUE)
      PROVE  PreflightInv'
  <2>. DEFINE f == [facts[h] EXCEPT !.os = tried[hit], !.configurer = tried[hit]]
  <2>1. DOMAIN f = FactNames /\ \A n \in FactNames \ {"os", "configurer"} : f[n] = facts[h][n]
    BY <1>0
  <2>2. f.configurer = tried[hit]
    BY <1>0 DEF FactNames
  <2>3. tried[hit] \in {inv[h].os} \union Range(inv[h].like)
    <3>1. inv[h].like \in Seq(Range(inv[h].like))
      BY PreflightAssumption DEF PreflightInv, PreflightTypes, IsList, Listed
    <3>. QED
      BY <3>1 DEF Releases, Range
  <2>. HIDE DEF f
  <2>4. h \notin failed' => Learned(h)'
    <3>. SUFFICES ASSUME h \notin failed' PROVE Learned(h)'
      OBVIOUS
    <3>1. Learned(h) /\ facts'[h] = f /\ inv' = inv /\ step' = step
      BY <1>0, <1>1, HostFacts DEF Steps, f
    <3>2. AsGiven(h) /\ facts[h].connected
      BY <3>1, <1>0 DEF Learned, Past, Later, Steps
    <3>3. AsGiven(h)' /\ facts'[h].connected /\ facts'[h].configurer \in {inv'[h].os} \union Range(inv'[h].like)
      BY <3>1, <3>2, <2>1, <2>2, <2>3 DEF AsGiven, FactNames
    <3>. QED
      BY <3>3, <3>1, <1>0 DEF Learned, Past, Later, Steps
  <2>5. f.connected = facts[h].connected
    BY <2>1 DEF FactNames
  <2>. QED
    BY <1>0, <1>1, <2>1, <2>4, <2>5, HostStep DEF Steps, f
<1>2. ASSUME NEW x, Done(h, [facts[h] EXCEPT !.os = x], FALSE) PROVE PreflightInv'
  <2>1. h \notin failed' => Learned(h)'
    BY <1>2 DEF Done
  <2>2. DOMAIN [facts[h] EXCEPT !.os = x] = FactNames /\ [facts[h] EXCEPT !.os = x].connected = facts[h].connected
    BY <1>0 DEF FactNames
  <2>. QED
    BY <1>0, <1>2, <2>1, <2>2, HostStep DEF Steps
<1>. QED
  BY <1>1, <1>2 DEF DetectOS

LEMMA InvestigateHostStep == ASSUME PreflightInv, NEW h \in Listed, InvestigateHost(h) PROVE PreflightInv'
<1>0. step = "investigate" /\ h \in todo /\ DOMAIN facts[h] = FactNames
  BY DEF InvestigateHost, PreflightInv, PreflightTypes
<1>1. ASSUME NEW f, Done(h, f, FALSE), DOMAIN f = FactNames, f.connected = facts[h].connected, f.configurer = facts[h].configurer
      PROVE  PreflightInv'
  <2>1. h \notin failed' => Learned(h)'
    BY <1>1 DEF Done
  <2>. QED
    BY <1>0, <1>1, <2>1, HostStep DEF Steps
<1>2. ASSUME NEW name, NEW iface, NEW addr, name # None,
             Done(h, [facts[h] EXCEPT !.arch = Arch(h), !.name = name, !.iface = iface, !.addr = addr], TRUE)
      PROVE  PreflightInv'
  <2>. DEFINE f == [facts[h] EXCEPT !.arch = Arch(h), !.name = name, !.iface = iface, !.addr = addr]
  <2>1. /\ DOMAIN f = FactNames /\ f.name = name /\ f.connected = facts[h].connected /\ f.configurer = facts[h].configurer
        /\ f.rules = facts[h].rules /\ f.taints = facts[h].taints
    BY <1>0 DEF FactNames
  <2>. HIDE DEF f
  <2>2. h \notin failed' => Learned(h)'
    <3>. SUFFICES ASSUME h \notin failed' PROVE Learned(h)'
      OBVIOUS
    <3>1. Learned(h) /\ facts'[h] = f /\ inv' = inv /\ step' = step
      BY <1>0, <1>2, HostFacts DEF Steps, f
    <3>2. AsGiven(h) /\ facts[h].connected /\ facts[h].configurer \in {inv[h].os} \union Range(inv[h].like)
      BY <3>1, <1>0 DEF Learned, Past, Later, Steps
    <3>3. AsGiven(h)' /\ facts'[h].connected /\ facts'[h].configurer \in {inv'[h].os} \union Range(inv'[h].like) /\ facts'[h].name # None
      BY <3>1, <3>2, <2>1, <1>2 DEF AsGiven
    <3>. QED
      BY <3>3, <3>1, <1>0 DEF Learned, Past, Later, Steps
  <2>. QED
    BY <1>0, <1>2, <2>1, <2>2, HostStep DEF Steps, f
<1>3. DOMAIN [facts[h] EXCEPT !.arch = Arch(h)] = FactNames /\ [facts[h] EXCEPT !.arch = Arch(h)].connected = facts[h].connected
      /\ [facts[h] EXCEPT !.arch = Arch(h)].configurer = facts[h].configurer
  BY <1>0 DEF FactNames
<1>. QED
  BY <1>0, <1>1, <1>2, <1>3 DEF InvestigateHost

LEMMA SetupProfileOverridesStep == ASSUME PreflightInv, NEW h \in Listed, SetupProfileOverrides(h) PROVE PreflightInv'
<1>0. step = "profiles" /\ h \in todo /\ DOMAIN facts[h] = FactNames
  BY DEF SetupProfileOverrides, PreflightInv, PreflightTypes
<1>1. PICK f : /\ Done(h, f, TRUE) /\ DOMAIN f = FactNames
               /\ \A n \in FactNames \ {"rules", "taints"} : f[n] = facts[h][n]
               /\ IF inv[h].profile \in DOMAIN Profiles
                  THEN /\ f.rules = MergeRules(facts[h].rules, Profiles[inv[h].profile].rules)
                       /\ f.taints = MergeList(facts[h].taints, Profiles[inv[h].profile].taints)
                  ELSE f.rules = facts[h].rules /\ f.taints = facts[h].taints
  <2>1. CASE inv[h].profile \in DOMAIN Profiles
    <3>. DEFINE rs == MergeRules(facts[h].rules, Profiles[inv[h].profile].rules)
                ts == MergeList(facts[h].taints, Profiles[inv[h].profile].taints)
                f == [facts[h] EXCEPT !.rules = rs, !.taints = ts]
    <3>1. Done(h, f, TRUE)
      BY <2>1 DEF SetupProfileOverrides
    <3>. HIDE DEF rs, ts
    <3>2. f.rules = rs /\ f.taints = ts /\ DOMAIN f = FactNames /\ \A n \in FactNames \ {"rules", "taints"} : f[n] = facts[h][n]
      BY <1>0 DEF FactNames
    <3>. HIDE DEF f
    <3>. QED
      BY <2>1, <3>1, <3>2 DEF rs, ts
  <2>2. CASE inv[h].profile \notin DOMAIN Profiles
    BY <1>0, <2>2 DEF SetupProfileOverrides
  <2>. QED
    BY <2>1, <2>2
<1>2. f.connected = facts[h].connected /\ f.configurer = facts[h].configurer /\ f.name = facts[h].name
      /\ f.addr = facts[h].addr /\ f.arch = facts[h].arch
  BY <1>1 DEF FactNames
<1>3. h \notin failed' => Learned(h)'
  <2>. SUFFICES ASSUME h \notin failed' PROVE Learned(h)'
    OBVIOUS
  <2>1. Learned(h) /\ facts'[h] = f /\ inv' = inv /\ step' = step /\ h \notin todo'
    BY <1>0, <1>1, HostFacts DEF Steps
  <2>2. AsGiven(h) /\ facts[h].connected /\ facts[h].configurer \in {inv[h].os} \union Range(inv[h].like) /\ facts[h].name # None
    BY <2>1, <1>0 DEF Learned, Past, Later, Steps
  <2>3. WithProfile(h)'
    BY <1>1, <2>1, <2>2 DEF AsGiven, WithProfile
  <2>4. facts'[h].connected /\ facts'[h].configurer \in {inv'[h].os} \union Range(inv'[h].like) /\ facts'[h].name # None
    BY <1>2, <2>1, <2>2
  <2>. QED
    BY <2>1, <2>3, <2>4, <1>0 DEF Learned, Past, Later, Steps
<1>. QED
  BY <1>0, <1>1, <1>2, <1>3, HostStep DEF Steps

LEMMA ValidateHostStep == ASSUME PreflightInv, NEW h \in Listed, ValidateHost(h) PROVE PreflightInv'
<1>. DEFINE ok == /\ UniqueName(h) /\ UniqueAddress(h)
                  /\ inv[h].sudo /\ inv[h].fits
                  /\ FirewallUsable(h) /\ ArchCarried(h)
<1>0. step = "validate" /\ h \in todo /\ DOMAIN facts[h] = FactNames /\ Done(h, facts[h], ok)
  BY DEF ValidateHost, PreflightInv, PreflightTypes
<1>1. h \notin failed' => Learned(h)'
  <2>. SUFFICES ASSUME h \notin failed' PROVE Learned(h)'
    OBVIOUS
  <2>1. Learned(h) /\ facts'[h] = facts[h] /\ inv' = inv /\ step' = step /\ h \notin todo' /\ ok
    <3>. HIDE DEF ok
    <3>. QED
      BY <1>0, HostFacts DEF Steps
  <2>2. \A g \in Listed : facts'[g] = facts[g]
    BY <1>0 DEF Done, PreflightInv, PreflightTypes
  <2>3. Listed' = Listed
    BY <2>1 DEF Listed
  <2>4. UniqueName(h)' /\ UniqueAddress(h)' /\ FirewallUsable(h)' /\ ArchCarried(h)'
    BY <2>1, <2>2, <2>3 DEF UniqueName, UniqueAddress, Sharing, FirewallUsable, ArchCarried
  <2>5. WithProfile(h) /\ facts[h].connected /\ facts[h].configurer \in {inv[h].os} \union Range(inv[h].like) /\ facts[h].name # None
    BY <2>1, <1>0 DEF Learned, Past, Later, Steps
  <2>6. WithProfile(h)'
    BY <2>1, <2>5 DEF WithProfile, AsGiven
  <2>. QED
    BY <2>1, <2>4, <2>5, <2>6, <1>0 DEF Learned, Past, Later, Steps
<1>. HIDE DEF ok
<1>. QED
  BY <1>0, <1>1, HostStep DEF Steps

LEMMA ReadClockStep == ASSUME PreflightInv, NEW h \in Listed, ReadClock(h) PROVE PreflightInv'
<1>. DEFINE f == [facts[h] EXCEPT !.skew = inv[h].skew]
<1>0. step = "clocks" /\ h \in todo /\ DOMAIN facts[h] = FactNames /\ Done(h, f, inv[h].clock)
  BY DEF ReadClock, PreflightInv, PreflightTypes
<1>1. DOMAIN f = FactNames /\ f.skew = inv[h].skew /\ \A n \in FactNames \ {"skew"} : f[n] = facts[h][n]
  BY <1>0 DEF FactNames
<1>. HIDE DEF f
<1>2. /\ f.connected = facts[h].connected /\ f.configurer = facts[h].configurer /\ f.name = facts[h].name
      /\ f.addr = facts[h].addr /\ f.arch = facts[h].arch /\ f.rules = facts[h].rules /\ f.taints = facts[h].taints
  BY <1>1 DEF FactNames
<1>3. h \notin failed' => Learned(h)'
  <2>. SUFFICES ASSUME h \notin failed' PROVE Learned(h)'
    OBVIOUS
  <2>1. Learned(h) /\ facts'[h] = f /\ inv' = inv /\ step' = step /\ h \notin todo'
    BY <1>0, HostFacts DEF Steps
  <2>2. \A g \in Listed : facts'[g].name = facts[g].name /\ facts'[g].addr = facts[g].addr
    BY <1>0, <1>2 DEF Done, PreflightInv, PreflightTypes
  <2>3. Listed' = Listed
    BY <2>1 DEF Listed
  <2>4. /\ UniqueName(h) /\ UniqueAddress(h) /\ FirewallUsable(h) /\ ArchCarried(h)
        /\ WithProfile(h) /\ facts[h].connected /\ facts[h].configurer \in {inv[h].os} \union Range(inv[h].like) /\ facts[h].name # None
    BY <2>1, <1>0 DEF Learned, Past, Later, Steps
  <2>5. UniqueName(h)' /\ UniqueAddress(h)'
    BY <2>2, <2>3, <2>4 DEF UniqueName, UniqueAddress, Sharing
  <2>6. FirewallUsable(h)' /\ ArchCarried(h)' /\ WithProfile(h)'
    BY <1>2, <2>1, <2>4 DEF FirewallUsable, ArchCarried, WithProfile, AsGiven
  <2>. QED
    BY <1>1, <1>2, <2>1, <2>4, <2>5, <2>6, <1>0 DEF Learned, Past, Later, Steps
<1>. QED
  BY <1>0, <1>1, <1>2, <1>3, HostStep DEF Steps

LEMMA LeastOf ==
    ASSUME NEW T, T \subseteq Nat, T # {}
    PROVE  \E m \in T : \A k \in T : m <= k
<1>1. PICK m \in T : \A k \in T : <<k, m>> \notin OpToRel(<, Nat)
  <2>. DEFINE R == OpToRel(<, Nat)
  <2>1. IsWellFoundedOn(R, Nat)
    BY NatLessThanWellFounded
  <2>. HIDE DEF R
  <2>2. \E m \in T : \A k \in T : ~(<<k, m>> \in R)
    BY <2>1, WFMin
  <2>. QED
    BY <2>2 DEF R
<1>2. \A k \in T : ~(k < m)
  BY <1>1, Zenon DEF OpToRel
<1>. QED
  BY <1>2

LEMMA InductionTo ==
    ASSUME NEW n \in Nat, NEW T, 0 \in T, \A i \in 1..n : i - 1 \in T => i \in T
    PROVE  \A i \in 0..n : i \in T
<1>. DEFINE Out == {i \in 0..n : i \notin T}
<1>. SUFFICES ASSUME Out # {} PROVE FALSE
  OBVIOUS
<1>1. PICK m \in Out : \A k \in Out : m <= k
  <2>1. Out \subseteq Nat /\ Out # {}
    OBVIOUS
  <2>. HIDE DEF Out
  <2>. QED
    BY <2>1, LeastOf
<1>2. m - 1 \in 0..n /\ m - 1 \notin Out
  BY <1>1
<1>. QED
  BY <1>1, <1>2

(* A value worked out one step after the other, each from the one before, is there. *)
StepsTo(g, d0, n, move) == g[0] = d0 /\ \A i \in 1..n : g[i] = move[<<g[i - 1], i>>]
LEMMA StepByStep ==
    ASSUME NEW D, NEW d0 \in D, NEW n \in Nat, NEW move \in [D \X (1..n) -> D]
    PROVE  \E g \in [0..n -> D] : StepsTo(g, d0, n, move)
<1>. DEFINE Upto(m) == {g \in [0..m -> D] : g[0] = d0 /\ \A i \in 1..m : g[i] = move[<<g[i - 1], i>>]}
           T == {m \in 0..n : Upto(m) # {}}
<1>1. 0 \in T
  <2>1. [i \in 0..0 |-> d0] \in Upto(0)
    OBVIOUS
  <2>. QED
    BY <2>1
<1>2. ASSUME NEW i \in 1..n, i - 1 \in T PROVE i \in T
  <2>1. PICK g \in [0..(i - 1) -> D] : g[0] = d0 /\ \A j \in 1..(i - 1) : g[j] = move[<<g[j - 1], j>>]
    BY <1>2
  <2>. DEFINE h == [j \in 0..i |-> IF j = i THEN move[<<g[i - 1], i>>] ELSE g[j]]
  <2>2. h \in [0..i -> D]
    BY <2>1
  <2>3. h[0] = d0
    BY <2>1
  <2>4. \A j \in 1..i : h[j] = move[<<h[j - 1], j>>]
    <3>. TAKE j \in 1..i
    <3>1. j - 1 \in 0..i /\ j - 1 # i /\ j \in 0..i
      OBVIOUS
    <3>2. h[j - 1] = g[j - 1]
      BY <3>1
    <3>3. h[j] = move[<<g[j - 1], j>>]
      <4>1. CASE j = i
        BY <4>1, <3>1
      <4>2. CASE j # i
        <5>1. j \in 1..(i - 1) /\ h[j] = g[j]
          BY <4>2, <3>1
        <5>. QED
          BY <5>1, <2>1
      <4>. QED
        BY <4>1, <4>2
    <3>. HIDE DEF h
    <3>. QED
      BY <3>2, <3>3
  <2>. HIDE DEF h
  <2>5. h \in Upto(i)
    BY <2>2, <2>3, <2>4
  <2>. QED
    BY <2>5
<1>3. n \in T
  <2>. HIDE DEF T
  <2>. QED
    BY <1>1, <1>2, InductionTo
<1>. QED
  BY <1>3 DEF StepsTo

-----------------------------------------------------------------------------
(* The median of the clocks, and the rules of a profile added to a host's. *)

LEMMA Extreme ==
    ASSUME NEW S, IsFiniteSet(S), S # {}, NEW R,
           \A x \in S : <<x, x>> \notin R,
           \A x, y, z \in S : <<x, y>> \in R /\ <<y, z>> \in R => <<x, z>> \in R
    PROVE  \E m \in S : \A k \in S : <<k, m>> \notin R
<1>. DEFINE Below(y) == {x \in S : <<x, y>> \in R}
            T == {Cardinality(Below(y)) : y \in S}
<1>1. \A y \in S : IsFiniteSet(Below(y)) /\ Cardinality(Below(y)) \in Nat
  <2>. SUFFICES ASSUME NEW y \in S PROVE IsFiniteSet(Below(y)) /\ Cardinality(Below(y)) \in Nat
    OBVIOUS
  <2>1. Below(y) \in SUBSET S
    OBVIOUS
  <2>. HIDE DEF Below
  <2>. QED
    BY <2>1, FS_Subset, FS_CardinalityType
<1>2. PICK n \in T : \A k \in T : n <= k
  <2>1. T \subseteq Nat /\ T # {}
    <3>. HIDE DEF Below
    <3>. QED
      BY <1>1
  <2>. HIDE DEF T
  <2>. QED
    BY <2>1, LeastOf
<1>3. PICK m \in S : n = Cardinality(Below(m))
  <2>. HIDE DEF Below
  <2>. QED
    BY <1>2
<1>4. ASSUME NEW k \in S, <<k, m>> \in R PROVE FALSE
  <2>1. Below(k) \in SUBSET Below(m) /\ k \in Below(m) /\ k \notin Below(k)
    BY <1>4
  <2>. HIDE DEF Below
  <2>2. Cardinality(Below(m)) <= Cardinality(Below(k))
    BY <1>2, <1>3
  <2>3. Cardinality(Below(k)) <= Cardinality(Below(m)) /\ (Cardinality(Below(m)) = Cardinality(Below(k)) => Below(m) = Below(k))
    BY <2>1, <1>1, FS_Subset
  <2>. QED
    BY <2>1, <2>2, <2>3, <1>1
<1>. QED
  BY <1>4

LEMMA LeastAndGreatest ==
    ASSUME NEW S, IsFiniteSet(S), S # {}, S \subseteq Int
    PROVE  (\E m \in S : \A k \in S : m <= k) /\ (\E m \in S : \A k \in S : k <= m)
<1>. DEFINE Lt == {p \in S \X S : p[1] < p[2]}
            Gt == {p \in S \X S : p[1] > p[2]}
<1>1. \A x, y \in S : (<<x, y>> \in Lt <=> x < y) /\ (<<x, y>> \in Gt <=> x > y)
  OBVIOUS
<1>. HIDE DEF Lt, Gt
<1>2. \E m \in S : \A k \in S : <<k, m>> \notin Lt
  <2>1. (\A x \in S : <<x, x>> \notin Lt) /\ \A x, y, z \in S : <<x, y>> \in Lt /\ <<y, z>> \in Lt => <<x, z>> \in Lt
    BY <1>1
  <2>. QED
    BY <2>1, Extreme
<1>3. \E m \in S : \A k \in S : <<k, m>> \notin Gt
  <2>1. (\A x \in S : <<x, x>> \notin Gt) /\ \A x, y, z \in S : <<x, y>> \in Gt /\ <<y, z>> \in Gt => <<x, z>> \in Gt
    BY <1>1
  <2>. QED
    BY <2>1, Extreme
<1>4. \E m \in S : \A k \in S : m <= k
  <2>1. PICK m \in S : \A k \in S : <<k, m>> \notin Lt
    BY <1>2
  <2>2. \A k \in S : ~(k < m)
    BY <1>1, <2>1
  <2>. QED
    BY <2>2
<1>5. \E m \in S : \A k \in S : k <= m
  <2>1. PICK m \in S : \A k \in S : <<k, m>> \notin Gt
    BY <1>3
  <2>2. \A k \in S : ~(k > m)
    BY <1>1, <2>1
  <2>. QED
    BY <2>2
<1>. QED
  BY <1>4, <1>5

LEMMA FirstNumbers == ASSUME NEW n \in Nat PROVE IsFiniteSet(1..n) /\ Cardinality(1..n) = n
<1>1. IsFiniteSet(1..n) /\ Cardinality(1..n) = IF 1 > n THEN 0 ELSE n - 1 + 1
  BY FS_Interval
<1>. QED
  BY <1>1

LEMMA ListedHosts ==
    ASSUME inv \in Inventories
    PROVE  /\ Listed = 1..Len(inv) /\ Len(inv) \in Nat /\ IsFiniteSet(Listed) /\ Cardinality(Listed) = Len(inv)
           /\ \A h \in Listed : inv[h].skew \in Int
<1>1. inv \in Seq(Range(inv)) /\ \A h \in Listed : inv[h].skew \in Int
  BY PreflightAssumption DEF IsList, Listed
<1>2. Listed = 1..Len(inv) /\ Len(inv) \in Nat
  BY <1>1 DEF Listed
<1>3. IsFiniteSet(1..Len(inv)) /\ Cardinality(1..Len(inv)) = Len(inv)
  BY <1>2, FirstNumbers
<1>. QED
  BY <1>1, <1>2, <1>3

\* The median is one of the clocks.
LEMMA MedianIsASkew ==
    ASSUME inv \in Inventories, Listed # {}, \A h \in Listed : facts[h].skew = inv[h].skew
    PROVE  Median \in Int
<1>. DEFINE S == {facts[h].skew : h \in Listed}
<1>1. IsFiniteSet(S) /\ S # {} /\ S \subseteq Int
  <2>1. [h \in Listed |-> facts[h].skew] \in Surjection(Listed, S)
    BY DEF Surjection
  <2>. QED
    BY <2>1, FS_Surjection, ListedHosts
<1>2. Middle # {}
  <2>1. PICK m \in S : \A k \in S : k <= m
    <3>. HIDE DEF S
    <3>. QED
      BY <1>1, LeastAndGreatest
  <2>2. UpTo(m) = Listed
    BY <2>1 DEF UpTo
  <2>3. Cardinality(UpTo(m)) = Len(inv) /\ Len(inv) > 0
    BY <2>2, ListedHosts
  <2>4. Len(inv) > Len(inv) \div 2
    BY <2>3, ListedHosts
  <2>. QED
    BY <2>3, <2>4 DEF Middle
<1>3. Middle \in SUBSET S
  BY DEF Middle
<1>4. IsFiniteSet(Middle) /\ Middle \subseteq Int
  <2>. HIDE DEF S
  <2>. QED
    BY <1>1, <1>3, FS_Subset
<1>5. \E m \in Middle : \A k \in Middle : m <= k
  BY <1>2, <1>4, LeastAndGreatest
<1>6. Median \in Middle
  BY <1>5 DEF Median
<1>. QED
  BY <1>4, <1>6

\* FirewallConfig.Merge: the host's own rules stay in front, nothing else than the rules of the two
\* is there, and every rule of the profile has a rule of its key.
RulesJoined(own, update, rs) ==
    /\ rs \in Seq(Range(own) \union Range(update)) /\ Len(own) <= Len(rs) /\ \A i \in 1..Len(own) : rs[i] = own[i]
    /\ \A k \in 1..Len(update) : \E i \in 1..Len(rs) : Key(rs[i]) = Key(update[k])
LEMMA MergedRules ==
    ASSUME NEW own, NEW update, own \in Seq(Range(own)), update \in Seq(Range(update))
    PROVE  RulesJoined(own, update, MergeRules(own, update))
<1>. DEFINE D == Seq(Range(own) \union Range(update))
            n == Len(update)
            Has(rs, k) == \E i \in DOMAIN rs : Key(rs[i]) = Key(update[k])
            move == [x \in D \X (1..n) |-> IF Has(x[1], x[2]) THEN x[1] ELSE Append(x[1], update[x[2]])]
<1>1. n \in Nat /\ own \in D /\ \A k \in 1..n : update[k] \in Range(own) \union Range(update)
  OBVIOUS
<1>2. move \in [D \X (1..n) -> D]
  BY <1>1
<1>3. PICK g \in [0..n -> D] : StepsTo(g, own, n, move)
  <2>. HIDE DEF D, move, n
  <2>. QED
    BY <1>1, <1>2, StepByStep
<1>4. g[0] = own /\ \A k \in 1..n : g[k] = IF Has(g[k - 1], k) THEN g[k - 1] ELSE Append(g[k - 1], update[k])
  <2>1. g[0] = own /\ \A k \in 1..n : g[k] = move[<<g[k - 1], k>>]
    BY <1>3 DEF StepsTo
  <2>2. ASSUME NEW k \in 1..n PROVE move[<<g[k - 1], k>>] = IF Has(g[k - 1], k) THEN g[k - 1] ELSE Append(g[k - 1], update[k])
    <3>1. k - 1 \in 0..n
      BY <1>1
    <3>. HIDE DEF D, n
    <3>2. g[k - 1] \in D
      BY <1>3, <3>1
    <3>. HIDE DEF Has
    <3>. QED
      BY <3>2
  <2>. HIDE DEF move, Has
  <2>. QED
    BY <2>1, <2>2
<1>. DEFINE Good(rs, k) == /\ Len(own) <= Len(rs) /\ \A i \in 1..Len(own) : rs[i] = own[i]
                           /\ \A j \in 1..k : Has(rs, j)
            T == {k \in 0..n : Good(g[k], k)}
<1>5. 0 \in T
  BY <1>1, <1>4
<1>6. ASSUME NEW k \in 1..n, k - 1 \in T PROVE k \in T
  <2>1. g[k - 1] \in D /\ g[k] \in D /\ Good(g[k - 1], k - 1)
    <3>1. k - 1 \in 0..n /\ k \in 0..n
      BY <1>1
    <3>. HIDE DEF D, n, Good
    <3>. QED
      BY <1>6, <1>3, <3>1
  <2>2. CASE Has(g[k - 1], k)
    <3>1. g[k] = g[k - 1]
      BY <2>2, <1>4
    <3>2. \A j \in 1..k : Has(g[k], j)
      <4>. TAKE j \in 1..k
      <4>1. j = k \/ j \in 1..(k - 1)
        OBVIOUS
      <4>. HIDE DEF Has
      <4>. QED
        BY <4>1, <3>1, <2>1, <2>2
    <3>. QED
      BY <3>1, <3>2, <2>1
  <2>3. CASE ~Has(g[k - 1], k)
    <3>1. g[k] = Append(g[k - 1], update[k])
      BY <2>3, <1>4
    <3>2. /\ Len(g[k]) = Len(g[k - 1]) + 1 /\ \A i \in 1..Len(g[k - 1]) : g[k][i] = g[k - 1][i]
          /\ g[k][Len(g[k])] = update[k] /\ DOMAIN g[k - 1] = 1..Len(g[k - 1]) /\ DOMAIN g[k] = 1..Len(g[k])
          /\ Len(g[k - 1]) \in Nat
      BY <3>1, <2>1, <1>1
    <3>3. ASSUME NEW j \in 1..(k - 1) PROVE Has(g[k], j)
      <4>1. PICK i \in 1..Len(g[k - 1]) : Key(g[k - 1][i]) = Key(update[j])
        BY <2>1, <3>2
      <4>2. i \in 1..Len(g[k]) /\ g[k][i] = g[k - 1][i]
        BY <3>2
      <4>. QED
        BY <4>1, <4>2, <3>2
    <3>4. Has(g[k], k)
      BY <3>2
    <3>5. \A j \in 1..k : Has(g[k], j)
      <4>. TAKE j \in 1..k
      <4>1. j = k \/ j \in 1..(k - 1)
        OBVIOUS
      <4>. HIDE DEF Has
      <4>. QED
        BY <4>1, <3>3, <3>4
    <3>. QED
      BY <3>2, <3>5, <2>1
  <2>. QED
    BY <2>2, <2>3
<1>7. n \in T
  <2>. HIDE DEF T, n
  <2>1. n \in 0..n
    BY <1>1
  <2>2. \A k \in 0..n : k \in T
    BY <1>1, <1>5, <1>6, InductionTo
  <2>. QED
    BY <2>1, <2>2
<1>8. MergeRules(own, update) = g[n]
  <2>. DEFINE Rec(f, k) == IF k = 0 THEN own
                           ELSE IF \E i \in DOMAIN f[k - 1] : Key(f[k - 1][i]) = Key(update[k]) THEN f[k - 1]
                           ELSE Append(f[k - 1], update[k])
              m == CHOOSE f : f = [k \in 0..n |-> Rec(f, k)]
  <2>1. g = [k \in 0..n |-> Rec(g, k)]
    <3>1. ASSUME NEW k \in 0..n PROVE g[k] = Rec(g, k)
      <4>1. CASE k = 0
        BY <4>1, <1>4
      <4>2. CASE k # 0
        <5>1. k \in 1..n
          BY <4>2, <1>1
        <5>2. g[k] = IF Has(g[k - 1], k) THEN g[k - 1] ELSE Append(g[k - 1], update[k])
          BY <5>1, <1>4
        <5>. HIDE DEF n
        <5>. QED
          BY <5>2, <4>2, Zenon
      <4>. QED
        BY <4>1, <4>2
    <3>. HIDE DEF Rec
    <3>. QED
      BY <1>3, <3>1
  <2>2. m = [k \in 0..n |-> Rec(m, k)]
    <3>. HIDE DEF Rec
    <3>. QED
      BY <2>1
  <2>3. \A k \in 0..n : m[k] = Rec(m, k)
    <3>. HIDE DEF Rec, m
    <3>. QED
      BY <2>2, Zenon
  <2>4. \A k \in 0..n : m[k] = g[k]
    <3>. DEFINE U == {k \in 0..n : m[k] = g[k]}
    <3>1. 0 \in U
      <4>1. 0 \in 0..n
        BY <1>1
      <4>2. m[0] = Rec(m, 0)
        <5>. HIDE DEF m, Rec
        <5>. QED
          BY <2>3, <4>1
      <4>. HIDE DEF m
      <4>3. m[0] = own
        BY <4>2
      <4>. QED
        BY <4>1, <4>3, <1>4
    <3>2. ASSUME NEW k \in 1..n, k - 1 \in U PROVE k \in U
      <4>1. m[k - 1] = g[k - 1] /\ k # 0 /\ k \in 0..n
        <5>. HIDE DEF m
        <5>. QED
          BY <3>2, <1>1
      <4>2. m[k] = Rec(m, k)
        <5>. HIDE DEF m, Rec
        <5>. QED
          BY <4>1, <2>3
      <4>4. g[k] = Rec(g, k)
        <5>1. g[k] = IF Has(g[k - 1], k) THEN g[k - 1] ELSE Append(g[k - 1], update[k])
          BY <1>4
        <5>. HIDE DEF n
        <5>. QED
          BY <5>1, <4>1, Zenon
      <4>3. Rec(m, k) = Rec(g, k)
        <5>. HIDE DEF m
        <5>. QED
          BY <4>1
      <4>. HIDE DEF m, Rec
      <4>. QED
        BY <4>1, <4>2, <4>3, <4>4
    <3>. HIDE DEF U, n
    <3>3. \A k \in 0..n : k \in U
      BY <1>1, <3>1, <3>2, InductionTo
    <3>. HIDE DEF m
    <3>. QED
      BY <3>3 DEF U
  <2>5. MergeRules(own, update) = m[n]
    BY DEF MergeRules
  <2>6. n \in 0..n
    BY <1>1
  <2>. HIDE DEF m, n
  <2>. QED
    BY <2>4, <2>5, <2>6
<1>9. g[n] \in D /\ Good(g[n], n)
  BY <1>1, <1>3, <1>7
<1>. QED
  BY <1>8, <1>9 DEF RulesJoined

-----------------------------------------------------------------------------
LEMMA NextStepStep == ASSUME PreflightInv, NextStep PROVE PreflightInv'
<1>0. step \in Steps \ {"ready"} /\ todo = {} /\ inv' = inv /\ facts' = facts /\ failed' = failed /\ Listed' = Listed
  BY DEF NextStep, Following, Steps, Listed
<1>1. CASE step' = "failed" /\ UNCHANGED <<inv, facts, todo, failed>>
  BY <1>1, <1>0 DEF PreflightInv, PreflightTypes, Steps
<1>2. CASE /\ step' = Following[step] /\ todo' = (IF step = "clocks" THEN {} ELSE Listed)
           /\ failed = {} \/ SamePhase(step)
           /\ step = "clocks" => \A h \in Listed : ~(Deviation(h) > MaxSkew)
  <2>1. step' \in Steps /\ step \notin Later[step'] /\ step' # step
    BY <1>0, <1>2 DEF Following, Steps, Later
  <2>2. PreflightTypes'
    BY <1>0, <1>2, <2>1 DEF PreflightInv, PreflightTypes
  <2>3. ASSUME NEW h \in Listed \ failed PROVE Learned(h)'
    <3>1. Learned(h)
      BY <1>0 DEF PreflightInv
    <3>2. \A s \in Steps \ {"ready"} : Past(s, h)' => Past(s, h)
      BY <1>0, <1>2 DEF Past, Following, Steps, Later
    <3>3. Past("profiles", h)' <=> Past("profiles", h)
      BY <1>0, <1>2 DEF Past, Following, Steps, Later
    <3>4. UniqueName(h)' = UniqueName(h) /\ UniqueAddress(h)' = UniqueAddress(h) /\ FirewallUsable(h)' = FirewallUsable(h)
          /\ ArchCarried(h)' = ArchCarried(h) /\ AsGiven(h)' = AsGiven(h) /\ WithProfile(h)' = WithProfile(h)
      BY <1>0 DEF UniqueName, UniqueAddress, Sharing, FirewallUsable, ArchCarried, AsGiven, WithProfile
    <3>. QED
      BY <3>1, <3>2, <3>3, <3>4, <1>0 DEF Learned, Steps
  <2>4. step' = "ready" => failed' = {} /\ \A h \in Listed' : Deviation(h)' <= MaxSkew
    <3>. SUFFICES ASSUME step' = "ready" PROVE failed = {} /\ \A h \in Listed : Deviation(h)' <= MaxSkew
      BY <1>0
    <3>1. step = "clocks"
      BY <1>0, <1>2 DEF Following, Steps
    <3>2. failed = {} /\ \A h \in Listed : ~(Deviation(h) > MaxSkew)
      BY <3>1, <1>2 DEF SamePhase
    <3>3. \A h \in Listed : Deviation(h) \in Int /\ Deviation(h)' = Deviation(h)
      <4>1. \A h \in Listed : Deviation(h)' = Deviation(h)
        <5>1. Middle' = Middle
          BY <1>0 DEF Middle, UpTo
        <5>2. Median' = Median
          BY <5>1 DEF Median
        <5>. QED
          BY <1>0, <5>2 DEF Deviation
      <4>2. \A h \in Listed : facts[h].skew = inv[h].skew
        BY <1>0, <3>1, <3>2 DEF PreflightInv, Learned, Past, Steps
      <4>3. Listed # {} => Median \in Int
        BY <4>2, MedianIsASkew DEF PreflightInv, PreflightTypes
      <4>. QED
        BY <4>1, <4>2, <4>3, PreflightAssumption DEF Deviation, PreflightInv, PreflightTypes, Listed
    <3>. QED
      BY <3>2, <3>3, PreflightAssumption
  <2>. QED
    BY <2>2, <2>3, <2>4, <1>0 DEF PreflightInv
<1>. QED
  BY <1>1, <1>2 DEF NextStep

LEMMA DisconnectStep == ASSUME PreflightInv, Disconnect PROVE PreflightInv'
<1>1. PreflightTypes'
  BY DEF Disconnect, PreflightInv, PreflightTypes, Listed
<1>. QED
  BY <1>1 DEF Disconnect, PreflightInv, Steps

LEMMA PreflightPreserved == PreflightInv /\ [PreflightNext]_preflightVars => PreflightInv'
<1>. SUFFICES ASSUME PreflightInv, [PreflightNext]_preflightVars PROVE PreflightInv'
  OBVIOUS
<1>1. CASE UNCHANGED preflightVars
  <2>1. inv' = inv /\ facts' = facts /\ step' = step /\ todo' = todo /\ failed' = failed /\ Listed' = Listed
    BY <1>1 DEF preflightVars, Listed
  <2>2. PreflightTypes'
    BY <2>1 DEF PreflightInv, PreflightTypes
  <2>3. \A h \in Listed : Learned(h)' = Learned(h)
    BY <2>1 DEF Learned, Past, AsGiven, WithProfile, UniqueName, UniqueAddress, Sharing, FirewallUsable, ArchCarried
  <2>4. Middle' = Middle
    BY <2>1 DEF Middle, UpTo
  <2>5. Median' = Median
    BY <2>4 DEF Median
  <2>6. \A h \in Listed : Deviation(h)' = Deviation(h)
    BY <2>1, <2>5 DEF Deviation
  <2>. QED
    BY <2>1, <2>2, <2>3, <2>6 DEF PreflightInv
<1>2. CASE PreflightNext
  BY <1>2, ConnectStep, DetectOSStep, InvestigateHostStep, SetupProfileOverridesStep, ValidateHostStep, ReadClockStep,
     NextStepStep, DisconnectStep DEF PreflightNext
<1>. QED
  BY <1>1, <1>2

LEMMA RulesApart ==
    ASSUME NEW h \in Listed, inv \in Inventories, WithProfile(h), FirewallUsable(h)
    PROVE  /\ Cardinality({Key(r) : r \in Range(facts[h].rules)}) = Len(facts[h].rules)
           /\ inv[h].rules = SubSeq(facts[h].rules, 1, Len(inv[h].rules))
           /\ inv[h].taints # <<>> => facts[h].taints = inv[h].taints
           /\ inv[h].profile \in DOMAIN Profiles =>
                \A r \in Range(Profiles[inv[h].profile].rules) :
                    r \in Range(facts[h].rules) \/ \E o \in Range(inv[h].rules) \union Range(Profiles[inv[h].profile].rules) : o # r /\ Key(o) = Key(r)
<1>. DEFINE own == inv[h].rules
            update == Profiles[inv[h].profile].rules
            rs == facts[h].rules
<1>1. own \in Seq(Range(own)) /\ (inv[h].profile \in DOMAIN Profiles => update \in Seq(Range(update)))
  BY PreflightAssumption DEF IsList, Listed
<1>2. \E S : /\ rs \in Seq(S) /\ Len(own) <= Len(rs) /\ \A i \in 1..Len(own) : rs[i] = own[i]
             /\ inv[h].profile \in DOMAIN Profiles =>
                    /\ S = Range(own) \union Range(update)
                    /\ \A k \in 1..Len(update) : \E i \in 1..Len(rs) : Key(rs[i]) = Key(update[k])
  <2>1. CASE inv[h].profile \in DOMAIN Profiles
    <3>1. rs = MergeRules(own, update)
      BY <2>1 DEF WithProfile
    <3>. HIDE DEF own, update, rs
    <3>2. RulesJoined(own, update, MergeRules(own, update))
      BY <1>1, <2>1, MergedRules
    <3>. QED
      BY <3>1, <3>2 DEF RulesJoined
  <2>2. CASE inv[h].profile \notin DOMAIN Profiles
    <3>1. rs = own
      BY <2>2 DEF WithProfile, AsGiven
    <3>. HIDE DEF own, update, rs
    <3>. QED
      BY <3>1, <2>2, <1>1
  <2>. QED
    BY <2>1, <2>2
<1>3. PICK S : /\ rs \in Seq(S) /\ Len(own) <= Len(rs) /\ \A i \in 1..Len(own) : rs[i] = own[i]
               /\ inv[h].profile \in DOMAIN Profiles =>
                    /\ S = Range(own) \union Range(update)
                    /\ \A k \in 1..Len(update) : \E i \in 1..Len(rs) : Key(rs[i]) = Key(update[k])
  <2>. HIDE DEF own, update, rs
  <2>. QED
    BY <1>2
<1>4. \A i, j \in DOMAIN rs : Key(rs[i]) = Key(rs[j]) => i = j
  BY DEF FirewallUsable, ValidateRules
<1>. HIDE DEF own, update, rs
<1>5. Cardinality({Key(r) : r \in Range(rs)}) = Len(rs)
  <2>. DEFINE K == {Key(r) : r \in Range(rs)}
              f == [i \in 1..Len(rs) |-> Key(rs[i])]
  <2>1. f \in Surjection(1..Len(rs), K)
    <3>1. DOMAIN rs = 1..Len(rs)
      BY <1>3
    <3>2. f \in [1..Len(rs) -> K]
      BY <3>1 DEF Range
    <3>3. \A x \in K : \E i \in 1..Len(rs) : f[i] = x
      <4>. TAKE x \in K
      <4>1. PICK i \in DOMAIN rs : x = Key(rs[i])
        BY DEF Range
      <4>. QED
        BY <3>1, <4>1
    <3>. HIDE DEF f, K
    <3>. QED
      BY <3>2, <3>3 DEF Surjection
  <2>2. f \in Injection(1..Len(rs), K)
    <3>1. \A i, j \in 1..Len(rs) : f[i] = f[j] => i = j
      BY <1>3, <1>4
    <3>2. f \in [1..Len(rs) -> K]
      BY <2>1 DEF Surjection
    <3>. HIDE DEF f, K
    <3>. QED
      BY <3>1, <3>2 DEF Injection, IsInjective
  <2>3. IsFiniteSet(1..Len(rs)) /\ Cardinality(1..Len(rs)) = Len(rs)
    <3>1. Len(rs) \in Nat
      BY <1>3
    <3>. QED
      BY <3>1, FirstNumbers
  <2>. HIDE DEF K, f
  <2>4. Cardinality(K) = Cardinality(1..Len(rs))
    BY <2>1, <2>2, <2>3, FS_Surjection
  <2>. QED
    BY <2>3, <2>4 DEF K
<1>6. own = SubSeq(rs, 1, Len(own))
  <2>1. own = [i \in 1..Len(own) |-> own[i]] /\ Len(own) \in Nat /\ Len(rs) \in Nat
    BY <1>1, <1>3
  <2>2. SubSeq(rs, 1, Len(own)) = [i \in 1..Len(own) |-> rs[i]]
    BY <2>1, <1>3
  <2>. HIDE DEF own, rs
  <2>3. \A i \in 1..Len(own) : own[i] = rs[i]
    BY <1>3
  <2>. QED
    BY <2>1, <2>2, <2>3
<1>7. ASSUME inv[h].profile \in DOMAIN Profiles, NEW r \in Range(update)
      PROVE  r \in Range(rs) \/ \E o \in Range(own) \union Range(update) : o # r /\ Key(o) = Key(r)
  <2>1. PICK k \in 1..Len(update) : r = update[k]
    BY <1>1, <1>7 DEF Range
  <2>2. PICK i \in 1..Len(rs) : Key(rs[i]) = Key(update[k])
    BY <1>3, <1>7, <2>1
  <2>3. rs[i] \in S /\ i \in DOMAIN rs
    BY <1>3, <2>2
  <2>4. rs[i] \in Range(own) \union Range(update) /\ rs[i] \in Range(rs)
    BY <1>3, <1>7, <2>3 DEF Range
  <2>. QED
    BY <2>1, <2>2, <2>4
<1>8. inv[h].taints # <<>> => facts[h].taints = inv[h].taints
  BY DEF WithProfile, AsGiven, MergeList
<1>. QED
  BY <1>5, <1>6, <1>7, <1>8 DEF own, update, rs

LEMMA ApartFromInv == PreflightInv => HostsApart
<1>. SUFFICES ASSUME PreflightInv, step = "ready" PROVE HostsApart
  BY DEF HostsApart
<1>1. inv \in Inventories /\ \A h \in Listed : Learned(h) /\ Deviation(h) <= MaxSkew
  BY DEF PreflightInv, PreflightTypes, Steps
<1>2. ASSUME NEW h \in Listed
      PROVE  /\ facts[h].connected /\ facts[h].configurer \in {inv[h].os} \union Range(inv[h].like) /\ facts[h].name # None
             /\ WithProfile(h) /\ UniqueName(h) /\ UniqueAddress(h) /\ FirewallUsable(h) /\ ArchCarried(h)
             /\ facts[h].skew = inv[h].skew
  BY <1>1, <1>2 DEF Learned, Past, Later
<1>3. ASSUME NEW field, NEW g \in Listed, NEW h \in Listed, Sharing(h, field) = 1, facts[g][field] = facts[h][field]
      PROVE  g = h
  <2>. DEFINE S == {x \in Listed : facts[x][field] = facts[h][field]}
  <2>1. S \in SUBSET Listed /\ g \in S /\ h \in S /\ Cardinality(S) = 1
    BY <1>3 DEF Sharing
  <2>. HIDE DEF S
  <2>2. IsFiniteSet(S)
    BY <1>1, <2>1, ListedHosts, FS_Subset
  <2>. QED
    BY <2>1, <2>2, FS_Singleton
<1>4. \A g, h \in Listed : g # h => facts[g].name # facts[h].name
  BY <1>2, <1>3 DEF UniqueName
<1>5. \A g, h \in Listed : g # h /\ facts[g].addr = facts[h].addr => facts[h].addr = None
  BY <1>2, <1>3 DEF UniqueAddress
<1>6. ASSUME NEW g \in Listed, NEW h \in Listed PROVE inv[g].skew - inv[h].skew <= 2 * MaxSkew
  <2>1. Median \in Int
    BY <1>1, <1>2, MedianIsASkew
  <2>2. inv[g].skew \in Int /\ inv[h].skew \in Int /\ facts[g].skew = inv[g].skew /\ facts[h].skew = inv[h].skew
    BY <1>1, <1>2, ListedHosts
  <2>. QED
    BY <1>1, <2>1, <2>2, PreflightAssumption DEF Deviation
<1>7. \A h \in Listed : Carried # {} => facts[h].arch \in Carried
  BY <1>2 DEF ArchCarried
<1>. QED
  BY <1>1, <1>2, <1>4, <1>5, <1>6, <1>7, RulesApart DEF HostsApart

\* The hosts of a run that goes on are apart, for every inventory, set of profiles and package,
\* whatever the machines answer and in whatever order (07_connect.go to 11_validate_hosts.go).
THEOREM HostsStayApart == PreflightSpec => []HostsApart
<1>1. PreflightInit => PreflightInv
  BY PreflightInitially
<1>2. PreflightInv /\ [PreflightNext]_preflightVars => PreflightInv'
  BY PreflightPreserved
<1>3. PreflightInv => HostsApart
  BY ApartFromInv
<1>. QED
  BY <1>1, <1>2, <1>3, PTL DEF PreflightSpec
=============================================================================
