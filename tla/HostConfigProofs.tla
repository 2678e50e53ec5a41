--------------------------- MODULE HostConfigProofs ---------------------------
(* What the runs leave of a host's configuration, and that a dry run leaves   *)
(* all of it alone, for every host, every sequence of packages, runs and      *)
(* reboots, and every pattern of commands that fail and runs that are cut.    *)
EXTENDS HostConfig, FiniteSetTheorems, TLAPS

-----------------------------------------------------------------------------
(* The invariant.                                                          *)

\* Types, those that TypeOK leaves out included.
PrepTyped ==
    /\ env \in [Names -> Nat] /\ etcHosts \in [Names -> Nat] /\ contSELinux \in BOOLEAN
    /\ sysctl \in Contents /\ kernel \in Contents
    /\ fapolicy \in [rules : Contents, executables : Contents, loaded : Contents \X Contents]

RecordTyped(r) ==
    /\ r.kind \in {"none", "torn", "written"}
    /\ r.kind = "written" =>
        /\ DOMAIN r.booleans \subseteq Booleans /\ \A b \in DOMAIN r.booleans : r.booleans[b] \in BOOLEAN
        /\ DOMAIN r.modules \subseteq Modules /\ DOMAIN r.contexts \subseteq Contexts

SELinuxTyped ==
    /\ policy \in [Modules -> SUBSET Policies] /\ cil \in [Modules -> Nat \union {Torn}]
    /\ sebool \in [Booleans -> BOOLEAN] /\ fcontext \in [Contexts -> Nat]
    /\ RecordTyped(record)

FirewallTyped == rules \subseteq Rules /\ ufwState \subseteq Rules /\ include \in BOOLEAN

EngineTyped ==
    /\ files \in [Managed -> Contents] /\ loaded \in [Managed -> Contents] /\ yaml \in Contents
    /\ engine \in {"absent", "stopped", "running"}

\* The steps that a run of c takes.
Taken(c) ==
    CASE c = "apply" -> {"hosts", "selinux", "fapolicyd", "record", "modules", "booleans", "contexts",
                         "etchosts", "firewall", "configure", "start", "sync", "halt", "write", "restart"}
      [] c = "prepare" -> {"hosts", "selinux", "fapolicyd", "record", "modules", "booleans", "contexts", "kernel"}
      [] c = "reset" -> {"uninstall", "unlabel"}
      [] c = "sync" -> {"sync", "halt", "write", "restart"}
      [] OTHER -> {"sync"}

RunTyped ==
    /\ kind \in Kinds /\ cfg \in Configs /\ command \in {"apply", "dry", "prepare", "sync", "reset"}
    /\ pc \in Steps /\ status \in {"idle", "run", "ok", "err", "cut"}
    /\ faults \in 0..MaxFaults /\ faulty \in BOOLEAN
    /\ recordLost \in BOOLEAN /\ dropped \in BOOLEAN /\ unrecorded \in BOOLEAN
    /\ status = "run" => pc \in Taken(command)

Typed == PrepTyped /\ SELinuxTyped /\ FirewallTyped /\ EngineTyped /\ RunTyped

\* A running engine has read the files that it only reads when it starts, and an engine that
\* has ever run has laid out its own charts. It is stopped while its files are rewritten, and
\* they are as asked for when it is started again.
FilesDesired ==
    /\ \A p \in DOMAIN DesiredFiles : files[p] = DesiredFiles[p]
    /\ \A p \in {"ca", "release", "chart"} : files[p] # Absent => Has(DesiredFiles, p)

EngineInv ==
    /\ engine = "running" => \A p \in {"registries", "ca"} : loaded[p] = files[p]
    /\ engine # "absent" => files["addon"] # Absent
    /\ Running("write") \/ Running("restart") => engine = "stopped"
    /\ Running("restart") => FilesDesired

\* What a boolean was at first is what it is, or what the record says.
BooleansKept ==
    \A b \in Booleans : sebool[b] # Original[b] => record.kind = "written" /\ b \in DOMAIN record.booleans
RecordedOriginal ==
    record.kind = "written" => \A b \in DOMAIN record.booleans : record.booleans[b] = Original[b]

\* What is installed, and what is mapped, is in the record.
PolicyKept ==
    /\ \A m \in Modules : policy[m] # {} =>
        /\ record.kind = "written" /\ m \in DOMAIN record.modules
        /\ \A q \in policy[m] : q[1] = record.modules[m][1]
    /\ \A p \in Contexts : fcontext[p] # Absent => record.kind = "written" /\ p \in DOMAIN record.contexts

\* The record is written before anything of it is done.
RecordFits ==
    /\ record.kind = "written" /\ record.modules = Policy /\ record.contexts = SELinux.contexts
    /\ DOMAIN SELinux.booleans \subseteq DOMAIN record.booleans

SELinuxInv ==
    /\ record.kind = "written" => kind.selinux
    /\ record.kind = "torn" => recordLost
    /\ ~recordLost => BooleansKept /\ RecordedOriginal
    /\ ~recordLost /\ ~dropped => PolicyKept
    /\ Running("modules") \/ Running("booleans") \/ Running("contexts") => RecordFits

\* The rules of ufw are recorded, and once the firewall's phase is past without a fault the
\* rules are the plan's.
Enforced ==
    Select \in {"ufw", "nftables"} =>
        plan \subseteq rules /\ (Select = "nftables" \/ ~unrecorded => rules \subseteq plan)

FirewallInv ==
    /\ Select = "ufw" /\ ~unrecorded => rules \subseteq ufwState
    /\ command = "apply" /\ status = "run" /\ ~faulty
            /\ pc \in {"configure", "start", "sync", "halt", "write", "restart"} => Enforced

\* What a run that is over leaves.
Outcome ==
    /\ EngineReadsDesired /\ ManagedDirsExact
    /\ BooleansRestored /\ PolicyRemoved
    /\ FirewallMatchesPlan

ConfigInv == Typed /\ EngineInv /\ SELinuxInv /\ FirewallInv /\ Outcome

-----------------------------------------------------------------------------
(* What a package asks for.                                                *)

LEMMA AskedFiles ==
    ASSUME NEW c \in Configs
    PROVE  /\ DOMAIN Conf[c].files \subseteq {"registries", "ca", "chart", "release"}
           /\ \A p \in DOMAIN Conf[c].files : Conf[c].files[p] \in Configs
           /\ Conf[c].rules \subseteq Rules /\ IsFiniteSet(Conf[c].kernel)
           /\ Conf[c].sysctl \in BOOLEAN /\ Conf[c].fapolicyd \in BOOLEAN /\ Conf[c].executables \in BOOLEAN
BY HostConfigAssumption DEF HostConfigAssumption, Range

LEMMA AskedNames ==
    ASSUME NEW c \in Configs
    PROVE  /\ \A n \in DOMAIN Conf[c].env : Conf[c].env[n] \in Nat
           /\ \A n \in DOMAIN Conf[c].hostEnv : Conf[c].hostEnv[n] \in Nat
           /\ Conf[c].nodes \in Seq(Nat \X Names)
BY HostConfigAssumption DEF HostConfigAssumption, Range

LEMMA AskedPolicy ==
    ASSUME NEW c \in Configs
    PROVE  /\ DOMAIN Conf[c].modules \subseteq Modules /\ DOMAIN Conf[c].booleans \subseteq Booleans
           /\ DOMAIN Conf[c].contexts \subseteq Contexts
           /\ \A m \in DOMAIN Conf[c].modules : Conf[c].modules[m] \in Int \X Nat
           /\ \A b \in DOMAIN Conf[c].booleans : Conf[c].booleans[b] \in BOOLEAN
           /\ \A p \in DOMAIN Conf[c].contexts : Conf[c].contexts[p] \in Nat
BY HostConfigAssumption DEF HostConfigAssumption, Range

\* A version is neither of the two numbers that stand for a file that is missing or cut short.
LEMMA VersionsApart == Absent \notin Configs /\ Torn \notin Configs /\ Configs \subseteq Contents /\ Absent # Torn
BY HostConfigAssumption DEF HostConfigAssumption, Absent, Torn, Contents

-----------------------------------------------------------------------------
(* The course of a run.                                                    *)

LEMMA AfterStep ==
    /\ command = "apply" =>
        /\ After("hosts") = "selinux" /\ After("selinux") = "fapolicyd" /\ After("fapolicyd") = "record"
        /\ After("contexts") = "etchosts" /\ After("etchosts") = "firewall"
    /\ command = "prepare" =>
        /\ After("hosts") = "selinux" /\ After("selinux") = "fapolicyd" /\ After("fapolicyd") = "record"
        /\ After("contexts") = "kernel"
<1>1. ASSUME command = "apply"
      PROVE  /\ After("hosts") = "selinux" /\ After("selinux") = "fapolicyd" /\ After("fapolicyd") = "record"
             /\ After("contexts") = "etchosts" /\ After("etchosts") = "firewall"
  <2> DEFINE steps == <<"hosts", "selinux", "fapolicyd", "record", "modules", "booleans", "contexts",
                        "etchosts", "firewall", "configure", "start", "sync", "done">>
  <2>1. Plan(command) = steps
    BY <1>1 DEF Plan
  <2>2. DOMAIN steps = 1..13
    OBVIOUS
  <2>3. /\ (CHOOSE k \in 1..13 : steps[k] = "hosts") = 1 /\ (CHOOSE k \in 1..13 : steps[k] = "selinux") = 2
        /\ (CHOOSE k \in 1..13 : steps[k] = "fapolicyd") = 3 /\ (CHOOSE k \in 1..13 : steps[k] = "contexts") = 7
        /\ (CHOOSE k \in 1..13 : steps[k] = "etchosts") = 8
    OBVIOUS
  <2> QED
    BY <2>1, <2>2, <2>3 DEF After
<1>2. ASSUME command = "prepare"
      PROVE  /\ After("hosts") = "selinux" /\ After("selinux") = "fapolicyd" /\ After("fapolicyd") = "record"
             /\ After("contexts") = "kernel"
  <2> DEFINE steps == <<"hosts", "selinux", "fapolicyd", "record", "modules", "booleans", "contexts",
                        "kernel", "done">>
  <2>1. Plan(command) = steps
    BY <1>2 DEF Plan
  <2>2. DOMAIN steps = 1..9
    OBVIOUS
  <2>3. /\ (CHOOSE k \in 1..9 : steps[k] = "hosts") = 1 /\ (CHOOSE k \in 1..9 : steps[k] = "selinux") = 2
        /\ (CHOOSE k \in 1..9 : steps[k] = "fapolicyd") = 3 /\ (CHOOSE k \in 1..9 : steps[k] = "contexts") = 7
    OBVIOUS
  <2> QED
    BY <2>1, <2>2, <2>3 DEF After
<1> QED
  BY <1>1, <1>2

\* Without a fault no command of the step failed.
LEMMA FailsType ==
    ASSUME RunTyped, NEW n \in Nat, Fails(n)
    PROVE  /\ faults' \in 0..MaxFaults /\ faulty' \in BOOLEAN
           /\ ~faulty' => n = 0 /\ ~faulty
<1>1. MaxFaults \in Nat
  BY HostConfigAssumption DEF HostConfigAssumption
<1>2. faults \in 0..MaxFaults /\ faulty \in BOOLEAN
  BY DEF RunTyped
<1>3. faults' = faults + n /\ faults' <= MaxFaults
  BY DEF Fails
<1>4. faults' \in 0..MaxFaults
  BY <1>1, <1>2, <1>3
<1>5. faulty' = (faulty \/ n > 0)
  BY DEF Fails
<1>6. faulty' \in BOOLEAN
  BY <1>5, ZenonT(20)
<1>7. ASSUME ~faulty' PROVE n = 0 /\ ~faulty
  <2>1. ~faulty /\ ~(n > 0)
    BY <1>5, <1>7
  <2> QED
    BY <2>1
<1> QED
  BY <1>4, <1>6, <1>7

\* A step that ends goes to a step of the same run, or the run is over.
LEMMA EndsRun ==
    ASSUME RunTyped, status = "run", NEW ok \in BOOLEAN, NEW next \in Taken(command) \union {"done"}, Ends(ok, next),
           recordLost' \in BOOLEAN, dropped' \in BOOLEAN, unrecorded' \in BOOLEAN
    PROVE  /\ RunTyped' /\ UNCHANGED <<kind, cfg, command>>
           /\ status' = "run" => ok /\ pc' = next
           /\ status' = "ok" <=> ok /\ next = "done"
           /\ ~faulty' => ok /\ ~faulty
           /\ status' \in {"run", "ok", "err"}
<1>1. /\ faults' \in 0..MaxFaults /\ faulty' \in BOOLEAN /\ (~faulty' => ok /\ ~faulty)
  <2>1. Fails(IF ok THEN 0 ELSE 1)
    BY DEF Ends
  <2>2. (IF ok THEN 0 ELSE 1) \in Nat
    OBVIOUS
  <2> QED
    BY <2>1, <2>2, FailsType
<1>2. /\ UNCHANGED <<kind, cfg, command>> /\ pc' = (IF ok THEN next ELSE pc)
      /\ status' = IF ~ok THEN "err" ELSE IF next = "done" THEN "ok" ELSE "run"
  BY DEF Ends
<1>3. next \in Steps
  BY DEF Taken, Steps, RunTyped
<1> QED
  BY <1>1, <1>2, <1>3 DEF RunTyped

\* An engine, a policy and a firewall that a step leaves alone.
LEMMA EngineKept ==
    ASSUME EngineTyped, EngineInv, UNCHANGED <<files, engine, loaded, yaml, cfg>>,
           status' = "run" => pc' \notin {"write", "restart"}
    PROVE  EngineTyped' /\ EngineInv'
BY DEF EngineTyped, EngineInv, Running, FilesDesired, DesiredFiles

LEMMA SELinuxKept ==
    ASSUME SELinuxTyped, SELinuxInv, UNCHANGED <<policy, cil, sebool, fcontext, record, kind, recordLost, dropped>>,
           status' = "run" => pc' \notin {"modules", "booleans", "contexts"}
    PROVE  SELinuxTyped' /\ SELinuxInv'
BY DEF SELinuxTyped, SELinuxInv, Running, BooleansKept, RecordedOriginal, PolicyKept, RecordTyped

LEMMA FirewallKept ==
    ASSUME FirewallTyped, FirewallInv, UNCHANGED <<rules, ufwState, include, kind, cfg, unrecorded, command>>,
           status' = "run" /\ pc' \in {"configure", "start", "sync", "halt", "write", "restart"} /\ command = "apply" =>
               status = "run" /\ pc \in {"configure", "start", "sync", "halt", "write", "restart"},
           ~faulty' => ~faulty
    PROVE  FirewallTyped' /\ FirewallInv'
BY DEF FirewallTyped, FirewallInv, Select, Detect, detectFirewalld, detectUFW, detectNftables, Installed, Enforced, plan

\* What is said of a run that is over is not said of one that is not, nor of `prepare` and of a dry run.
LEMMA NothingOver ==
    ASSUME EngineInv', status' # "ok" \/ command' \in {"prepare", "dry"}
    PROVE  Outcome'
BY DEF Outcome, EngineInv, EngineReadsDesired, ManagedDirsExact, BooleansRestored, PolicyRemoved, FirewallMatchesPlan, Done

LEMMA PrepKept ==
    ASSUME PrepTyped, UNCHANGED <<env, contSELinux, etcHosts, sysctl, kernel, fapolicy>>
    PROVE  PrepTyped'
BY DEF PrepTyped

-----------------------------------------------------------------------------
(* Preparation.                                                            *)

\* A step of the preparation touches nothing the rest of the invariant is about.
LEMMA PlainStep ==
    ASSUME ConfigInv, status = "run", PrepTyped',
           UNCHANGED <<selinuxVars, firewallVars, engineVars, recordLost, dropped, unrecorded>>,
           NEW ok \in BOOLEAN, NEW next \in Taken(command), Ends(ok, next),
           next \in {"selinux", "fapolicyd", "record", "etchosts", "firewall", "kernel"},
           pc \in {"hosts", "selinux", "fapolicyd", "record", "contexts", "etchosts"}
    PROVE  ConfigInv'
<1>1. recordLost' \in BOOLEAN /\ dropped' \in BOOLEAN /\ unrecorded' \in BOOLEAN /\ RunTyped
  BY DEF ConfigInv, Typed, RunTyped
<1>2. /\ RunTyped' /\ UNCHANGED <<kind, cfg, command>>
      /\ status' = "run" => ok /\ pc' = next
      /\ status' = "ok" <=> ok /\ next = "done"
      /\ ~faulty' => ok /\ ~faulty
  BY <1>1, EndsRun
<1>3. EngineTyped' /\ EngineInv'
  BY <1>2, EngineKept DEF ConfigInv, Typed, engineVars
<1>4. SELinuxTyped' /\ SELinuxInv'
  BY <1>2, SELinuxKept DEF ConfigInv, Typed, selinuxVars
<1>5. FirewallTyped' /\ FirewallInv'
  BY <1>2, FirewallKept DEF ConfigInv, Typed, firewallVars
<1>6. Outcome'
  BY <1>2, <1>3, NothingOver
<1> QED
  BY <1>2, <1>3, <1>4, <1>5, <1>6 DEF ConfigInv, Typed

\* The steps of the preparation belong to apply and prepare.
LEMMA Preparing ==
    ASSUME RunTyped, status = "run", pc \in {"hosts", "selinux", "fapolicyd", "record", "contexts", "etchosts"}
    PROVE  /\ command \in {"apply", "prepare"}
           /\ pc = "etchosts" => command = "apply"
           /\ pc # "record" => After(pc) \in Taken(command)
           /\ pc # "record" => After(pc) \in {"selinux", "fapolicyd", "record", "etchosts", "firewall", "kernel"}
           /\ pc = "record" => After("contexts") \in Taken(command) /\ "modules" \in Taken(command)
           /\ pc = "record" => After("contexts") \in {"etchosts", "kernel"}
<1>1. command \in {"apply", "prepare"} /\ (pc = "etchosts" => command = "apply")
  BY DEF RunTyped, Taken
<1>2. CASE command = "apply"
  BY <1>2, AfterStep DEF Taken
<1>3. CASE command = "prepare"
  BY <1>1, <1>3, AfterStep DEF Taken
<1> QED
  BY <1>1, <1>2, <1>3

LEMMA HostsStep == ASSUME ConfigInv, prepareHost PROVE ConfigInv'
<1>1. RunTyped /\ PrepTyped /\ status = "run" /\ pc = "hosts" /\ cfg \in Configs
  BY DEF ConfigInv, Typed, RunTyped, prepareHost, Running
<1>2. PICK hostEnv, packageEnv, wrote, applied \in BOOLEAN :
        /\ IF hostEnv THEN updateEnvironment(packageEnv) ELSE UNCHANGED env
        /\ sysctl' \in IF Conf[cfg].sysctl /\ packageEnv THEN Written(sysctl, cfg, wrote) ELSE {sysctl}
        /\ kernel' = IF Conf[cfg].sysctl /\ applied THEN cfg ELSE kernel
        /\ Ends(applied, After("hosts"))
  BY DEF prepareHost
<1>3. UNCHANGED <<contSELinux, etcHosts, fapolicy, selinuxVars, firewallVars, engineVars, recordLost, dropped, unrecorded>>
  BY DEF prepareHost, HistoryUnchanged
<1>4. env' \in [Names -> Nat]
  BY <1>1, <1>2, AskedNames DEF updateEnvironment, Has, PrepTyped
<1>5. sysctl' \in Contents /\ kernel' \in Contents
  BY <1>1, <1>2, VersionsApart DEF Written, PrepTyped, Contents
<1>6. PrepTyped'
  BY <1>1, <1>3, <1>4, <1>5 DEF PrepTyped
<1> QED
  BY <1>1, <1>2, <1>3, <1>6, Preparing, PlainStep

LEMMA ContainerStep == ASSUME ConfigInv, installContainerSELinux PROVE ConfigInv'
<1>1. RunTyped /\ PrepTyped /\ status = "run" /\ pc = "selinux"
  BY DEF ConfigInv, Typed, RunTyped, installContainerSELinux, Running
<1>2. PICK ok \in BOOLEAN :
        /\ contSELinux' = (contSELinux \/ (kind.selinux /\ ok))
        /\ Ends(ok, After("selinux"))
  BY DEF installContainerSELinux
<1>3. UNCHANGED <<env, etcHosts, sysctl, kernel, fapolicy, selinuxVars, firewallVars, engineVars, recordLost, dropped, unrecorded>>
  BY DEF installContainerSELinux, HistoryUnchanged
<1>4. contSELinux' \in BOOLEAN
  BY <1>2, Zenon
<1>5. PrepTyped'
  BY <1>1, <1>3, <1>4 DEF PrepTyped
<1> QED
  BY <1>1, <1>2, <1>3, <1>5, Preparing, PlainStep

LEMMA FapolicydStep == ASSUME ConfigInv, prepareFapolicyd PROVE ConfigInv'
<1>1. RunTyped /\ PrepTyped /\ status = "run" /\ pc = "fapolicyd" /\ cfg \in Configs
  BY DEF ConfigInv, Typed, RunTyped, prepareFapolicyd, Running
<1> DEFINE Put(w, old) == [kept |-> old, torn |-> Torn, new |-> cfg][w]
<1>2. PICK ok \in BOOLEAN, r, x \in {"kept", "torn", "new"} :
        /\ fapolicy' = [rules |-> <<Put(r, fapolicy.rules), Put(x, fapolicy.executables)>>[1],
                        executables |-> <<Put(r, fapolicy.rules), Put(x, fapolicy.executables)>>[2],
                        loaded |-> IF ok /\ ((kind.fapolicyd /\ Conf[cfg].fapolicyd)
                                              \/ (kind.fapolicyd /\ Conf[cfg].executables))
                                   THEN <<Put(r, fapolicy.rules), Put(x, fapolicy.executables)>> ELSE fapolicy.loaded]
        /\ Ends(ok, After("fapolicyd"))
  BY DEF prepareFapolicyd
<1>3. UNCHANGED <<env, contSELinux, etcHosts, sysctl, kernel, selinuxVars, firewallVars, engineVars, recordLost, dropped, unrecorded>>
  BY DEF prepareFapolicyd, HistoryUnchanged
<1>4. fapolicy \in [rules : Contents, executables : Contents, loaded : Contents \X Contents]
  BY <1>1 DEF PrepTyped
<1>5. \A w \in {"kept", "torn", "new"}, old \in Contents : Put(w, old) \in Contents
  BY <1>1, VersionsApart DEF Contents
<1>6. Put(r, fapolicy.rules) \in Contents /\ Put(x, fapolicy.executables) \in Contents
  BY <1>2, <1>4, <1>5
<1> HIDE DEF Put
<1>7. fapolicy' \in [rules : Contents, executables : Contents, loaded : Contents \X Contents]
  BY <1>2, <1>4, <1>6
<1>8. PrepTyped'
  BY <1>1, <1>3, <1>7 DEF PrepTyped
<1> QED
  BY <1>1, <1>2, <1>3, <1>8, Preparing, PlainStep

LEMMA HostsFileStep == ASSUME ConfigInv, configureHostsFile PROVE ConfigInv'
<1>1. RunTyped /\ PrepTyped /\ status = "run" /\ pc = "etchosts" /\ cfg \in Configs
  BY DEF ConfigInv, Typed, RunTyped, configureHostsFile, Running
<1> DEFINE nodes == Conf[cfg].nodes
           last == {i \in DOMAIN nodes : \A j \in DOMAIN nodes : nodes[j][1] = nodes[i][1] => j <= i}
           Lines(n) == {nodes[i][1] : i \in {k \in last : nodes[k][2] = n}}
           taken == {nodes[i][1] : i \in last}
<1>2. PICK ok \in BOOLEAN :
        /\ etcHosts' = [n \in Names |-> IF ~ok THEN etcHosts[n]
                                        ELSE IF Lines(n) # {} THEN CHOOSE a \in Lines(n) : TRUE
                                        ELSE IF etcHosts[n] \in taken THEN Absent ELSE etcHosts[n]]
        /\ Ends(ok, After("etchosts"))
  BY DEF configureHostsFile
<1>3. UNCHANGED <<env, contSELinux, sysctl, kernel, fapolicy, selinuxVars, firewallVars, engineVars, recordLost, dropped, unrecorded>>
  BY DEF configureHostsFile, HistoryUnchanged
<1>4. ASSUME NEW n \in Names, Lines(n) # {} PROVE (CHOOSE a \in Lines(n) : TRUE) \in Nat
  <2>1. Lines(n) \subseteq Nat
    BY <1>1, AskedNames
  <2> HIDE DEF Lines
  <2> QED
    BY <1>4, <2>1
<1> HIDE DEF Lines, taken
<1>5. etcHosts' \in [Names -> Nat]
  BY <1>1, <1>2, <1>4 DEF PrepTyped, Absent
<1>6. PrepTyped'
  BY <1>1, <1>3, <1>5 DEF PrepTyped
<1> QED
  BY <1>1, <1>2, <1>3, <1>6, Preparing, PlainStep

-----------------------------------------------------------------------------
(* The SELinux policy and the record of it.                                *)

\* A step on the policy that ends and leaves the rest of the host alone.
LEMMA PolicyStep ==
    ASSUME ConfigInv, status = "run", SELinuxTyped', SELinuxInv',
           UNCHANGED <<prepVars, firewallVars, engineVars, unrecorded>>,
           recordLost' \in BOOLEAN, dropped' \in BOOLEAN,
           NEW ok \in BOOLEAN, NEW next \in Taken(command), Ends(ok, next),
           next \in {"modules", "booleans", "contexts", "etchosts", "kernel"}
    PROVE  ConfigInv'
<1>1. unrecorded' \in BOOLEAN /\ RunTyped
  BY DEF ConfigInv, Typed, RunTyped
<1>2. /\ RunTyped' /\ UNCHANGED <<kind, cfg, command>>
      /\ status' = "run" => ok /\ pc' = next
      /\ status' = "ok" <=> ok /\ next = "done"
      /\ ~faulty' => ok /\ ~faulty
  BY <1>1, EndsRun
<1>3. EngineTyped' /\ EngineInv'
  BY <1>2, EngineKept DEF ConfigInv, Typed, engineVars
<1>4. FirewallTyped' /\ FirewallInv'
  BY <1>2, FirewallKept DEF ConfigInv, Typed, firewallVars
<1>5. PrepTyped'
  BY PrepKept DEF ConfigInv, Typed, prepVars
<1>6. Outcome'
  BY <1>2, <1>3, NothingOver
<1> QED
  BY <1>2, <1>3, <1>4, <1>5, <1>6 DEF ConfigInv, Typed

\* A record that is written keeps the values that were recorded before, and no package of the
\* past has lost a module or a context by it unless it is noted.
LEMMA Recorded ==
    ASSUME SELinuxTyped, SELinuxInv, kind.selinux, cfg \in Configs, record' = recorded,
           UNCHANGED <<policy, sebool, fcontext, kind, cfg>>, recordLost \in BOOLEAN, dropped \in BOOLEAN,
           recordLost' = recordLost, dropped' = (dropped \/ Drops)
    PROVE  /\ RecordTyped(record')
           /\ ~recordLost' => BooleansKept' /\ RecordedOriginal'
           /\ ~recordLost' /\ ~dropped' => PolicyKept'
           /\ RecordFits'
<1> DEFINE known == IF record.kind = "written" THEN record.booleans ELSE <<>>
           names == DOMAIN SELinux.booleans
<1>1. /\ record'.kind = "written" /\ record'.modules = Policy /\ record'.contexts = SELinux.contexts
      /\ record'.booleans = priorBooleans(names)
  BY DEF recorded
<1>2. DOMAIN Policy = DOMAIN SELinux.modules /\ \A m \in DOMAIN SELinux.modules : Policy[m][1] = Priority(m)
  BY DEF Policy
<1>3. Policy' = Policy /\ SELinux' = SELinux
  BY DEF Policy, SELinux, Priority, Source
<1>4. /\ DOMAIN record'.booleans = names \union DOMAIN known
      /\ \A b \in DOMAIN known : record'.booleans[b] = known[b]
      /\ \A b \in names \ DOMAIN known : record'.booleans[b] = sebool[b]
  BY <1>1 DEF priorBooleans, Has
<1>5. /\ names \subseteq Booleans /\ DOMAIN SELinux.modules \subseteq Modules
      /\ DOMAIN SELinux.contexts \subseteq Contexts
  BY AskedPolicy DEF SELinux
<1>6. DOMAIN known \subseteq Booleans /\ \A b \in DOMAIN known : known[b] \in BOOLEAN
  <2>1. CASE record.kind = "written"
    BY <2>1 DEF SELinuxTyped, RecordTyped
  <2>2. CASE record.kind # "written"
    BY <2>2
  <2> QED
    BY <2>1, <2>2
<1>7. \A b \in DOMAIN record'.booleans : record'.booleans[b] \in BOOLEAN
  <2> SUFFICES ASSUME NEW b \in DOMAIN record'.booleans PROVE record'.booleans[b] \in BOOLEAN
    OBVIOUS
  <2>1. CASE b \in DOMAIN known
    BY <1>4, <1>6, <2>1
  <2>2. CASE b \notin DOMAIN known
    BY <1>4, <1>5, <2>2 DEF SELinuxTyped
  <2> QED
    BY <2>1, <2>2
<1>8. RecordTyped(record')
  BY <1>1, <1>2, <1>4, <1>5, <1>6, <1>7 DEF RecordTyped
<1>9. ASSUME ~recordLost' PROVE BooleansKept' /\ RecordedOriginal'
  <2>1. BooleansKept /\ RecordedOriginal
    BY <1>9 DEF SELinuxInv
  <2>2. \A b \in Booleans : sebool[b] # Original[b] => b \in DOMAIN known
    BY <2>1 DEF BooleansKept
  <2>3. BooleansKept'
    BY <1>1, <1>4, <2>2 DEF BooleansKept
  <2>4. \A b \in DOMAIN known : known[b] = Original[b]
    BY <2>1 DEF RecordedOriginal
  <2>5. \A b \in DOMAIN record'.booleans : record'.booleans[b] = Original[b]
    <3> SUFFICES ASSUME NEW b \in DOMAIN record'.booleans PROVE record'.booleans[b] = Original[b]
      OBVIOUS
    <3>1. CASE b \in DOMAIN known
      BY <1>4, <2>4, <3>1
    <3>2. CASE b \notin DOMAIN known
      BY <1>4, <1>5, <2>2, <3>2
    <3> QED
      BY <3>1, <3>2
  <2>6. RecordedOriginal'
    BY <2>5 DEF RecordedOriginal
  <2> QED
    BY <2>3, <2>6
<1>10. ASSUME ~recordLost', ~dropped' PROVE PolicyKept'
  <2>1. PolicyKept /\ ~Drops
    BY <1>10 DEF SELinuxInv
  <2>2. ASSUME NEW m \in Modules, policy[m] # {}
        PROVE  m \in DOMAIN Policy /\ \A q \in policy[m] : q[1] = Policy[m][1]
    <3>1. record.kind = "written" /\ m \in DOMAIN record.modules /\ \A q \in policy[m] : q[1] = record.modules[m][1]
      BY <2>1, <2>2 DEF PolicyKept
    <3>2. m \in DOMAIN SELinux.modules /\ Priority(m) = record.modules[m][1]
      BY <2>1, <3>1 DEF Drops, Has
    <3> QED
      BY <1>2, <3>1, <3>2
  <2>3. ASSUME NEW p \in Contexts, fcontext[p] # Absent PROVE p \in DOMAIN SELinux.contexts
    <3>1. record.kind = "written" /\ p \in DOMAIN record.contexts
      BY <2>1, <2>3 DEF PolicyKept
    <3> QED
      BY <2>1, <3>1 DEF Drops, Has
  <2> HIDE DEF names
  <2> QED
    BY <1>1, <2>2, <2>3 DEF PolicyKept
<1>11. RecordFits'
  BY <1>1, <1>3, <1>4 DEF RecordFits
<1> QED
  BY <1>8, <1>9, <1>10, <1>11

LEMMA RecordStep == ASSUME ConfigInv, recordState PROVE ConfigInv'
<1>1. /\ RunTyped /\ SELinuxTyped /\ SELinuxInv /\ status = "run" /\ pc = "record" /\ cfg \in Configs
      /\ recordLost \in BOOLEAN /\ dropped \in BOOLEAN
  BY DEF ConfigInv, Typed, RunTyped, recordState, Running
<1>2. UNCHANGED <<prepVars, policy, cil, sebool, fcontext, firewallVars, engineVars, unrecorded>>
  BY DEF recordState
<1>3. CASE ~HasPolicy
  <2>1. Ends(TRUE, After("contexts")) /\ UNCHANGED <<record, recordLost, dropped>>
    BY <1>3 DEF recordState
  <2>2. pc' = After("contexts") /\ UNCHANGED kind
    BY <2>1 DEF Ends
  <2>3. SELinuxTyped' /\ SELinuxInv'
    BY <1>1, <1>2, <2>1, <2>2, Preparing, SELinuxKept
  <2> QED
    BY <1>1, <1>2, <2>1, <2>3, Preparing, PolicyStep
<1>4. CASE HasPolicy
  <2>1. PICK ok \in BOOLEAN :
          /\ record' \in IF ok THEN {recorded} ELSE {record, TornRecord}
          /\ recordLost' = (recordLost \/ record' = TornRecord)
          /\ dropped' = (dropped \/ (ok /\ Drops))
          /\ Ends(ok, "modules")
    BY <1>4 DEF recordState
  <2>2. UNCHANGED <<kind, cfg>> /\ (status' = "run" => ok)
    BY <2>1 DEF Ends
  <2>3. recordLost' \in BOOLEAN /\ dropped' \in BOOLEAN
    BY <2>1, Zenon
  <2>4. kind.selinux
    BY <1>4 DEF HasPolicy
  <2>5. SELinuxTyped' /\ SELinuxInv'
    <3>1. CASE ok
      <4>1. record' = recorded /\ record'.kind = "written" /\ record' # TornRecord
        BY <2>1, <3>1 DEF recorded, TornRecord
      <4>2. recordLost' = recordLost /\ dropped' = (dropped \/ Drops)
        BY <1>1, <2>1, <3>1, <4>1
      <4>3. /\ RecordTyped(record')
            /\ ~recordLost' => BooleansKept' /\ RecordedOriginal'
            /\ ~recordLost' /\ ~dropped' => PolicyKept'
            /\ RecordFits'
        BY <1>1, <1>2, <2>2, <2>4, <4>1, <4>2, Recorded
      <4> QED
        BY <1>1, <1>2, <2>2, <2>4, <4>1, <4>3 DEF SELinuxTyped, SELinuxInv
    <3>2. CASE ~ok /\ record' = record
      <4>1. dropped' = dropped /\ (~recordLost' => ~recordLost)
        BY <1>1, <2>1, <3>2
      <4>2. status' # "run"
        BY <2>2, <3>2
      <4>3. recordLost => recordLost'
        BY <2>1
      <4> QED
        BY <1>1, <1>2, <2>2, <3>2, <4>1, <4>2, <4>3
        DEF SELinuxTyped, SELinuxInv, RecordTyped, BooleansKept, RecordedOriginal, PolicyKept, Running
    <3>3. CASE ~ok /\ record' = TornRecord
      <4>1. recordLost' /\ status' # "run" /\ record'.kind = "torn"
        BY <2>1, <2>2, <3>3 DEF TornRecord
      <4> QED
        BY <1>1, <1>2, <4>1 DEF SELinuxTyped, SELinuxInv, RecordTyped, Running
    <3> QED
      BY <2>1, <3>1, <3>2, <3>3
  <2> QED
    BY <1>1, <1>2, <2>1, <2>3, <2>5, Preparing, PolicyStep
<1> QED
  BY <1>3, <1>4

\* What the three steps after the record have in common: it is there, and they leave it.
LEMMA Labelling ==
    ASSUME ConfigInv, status = "run", pc \in {"modules", "booleans", "contexts"}
    PROVE  /\ RunTyped /\ SELinuxTyped /\ SELinuxInv /\ cfg \in Configs /\ RecordFits
           /\ recordLost \in BOOLEAN /\ dropped \in BOOLEAN
           /\ command \in {"apply", "prepare"} /\ {"booleans", "contexts", After("contexts")} \subseteq Taken(command)
           /\ After("contexts") \in {"etchosts", "kernel"}
<1>1. RunTyped /\ SELinuxTyped /\ SELinuxInv /\ cfg \in Configs /\ recordLost \in BOOLEAN /\ dropped \in BOOLEAN
  BY DEF ConfigInv, Typed, RunTyped
<1>2. RecordFits
  BY <1>1 DEF SELinuxInv, Running
<1>3. command \in {"apply", "prepare"}
  BY <1>1 DEF RunTyped, Taken
<1>4. CASE command = "apply"
  BY <1>1, <1>2, <1>4, AfterStep DEF Taken
<1>5. CASE command = "prepare"
  BY <1>1, <1>2, <1>5, AfterStep DEF Taken
<1> QED
  BY <1>3, <1>4, <1>5

LEMMA ModulesStep == ASSUME ConfigInv, applyModules PROVE ConfigInv'
<1>1. status = "run" /\ pc = "modules"
  BY DEF applyModules, Running
<1>2. /\ RunTyped /\ SELinuxTyped /\ SELinuxInv /\ cfg \in Configs /\ RecordFits
      /\ recordLost \in BOOLEAN /\ dropped \in BOOLEAN /\ "booleans" \in Taken(command)
  BY <1>1, Labelling
<1>3. UNCHANGED <<prepVars, sebool, fcontext, record, firewallVars, engineVars, recordLost, dropped, unrecorded>>
  BY DEF applyModules, HistoryUnchanged
<1> DEFINE needed == {m \in DOMAIN SELinux.modules : Needs(m)}
<1>a. \E done \in SUBSET needed, wrote \in SUBSET needed, torn \in SUBSET needed :
        /\ done \subseteq wrote /\ torn \intersect wrote = {}
        /\ Cardinality((wrote \ done) \union torn) <= 1
        /\ policy' = [m \in Modules |->
               IF m \in done
               THEN {q \in policy[m] : q[1] # Priority(m)} \union {Policy[m]}
               ELSE policy[m]]
        /\ cil' = [m \in Modules |-> IF m \in wrote THEN Source(m)
                                     ELSE IF m \in torn THEN Torn ELSE cil[m]]
        /\ Ends(done = needed, "booleans")
  BY DEF applyModules
<1>4. PICK done \in SUBSET needed, wrote \in SUBSET needed, torn \in SUBSET needed :
        /\ done \subseteq wrote /\ torn \intersect wrote = {}
        /\ Cardinality((wrote \ done) \union torn) <= 1
        /\ policy' = [m \in Modules |->
               IF m \in done
               THEN {q \in policy[m] : q[1] # Priority(m)} \union {Policy[m]}
               ELSE policy[m]]
        /\ cil' = [m \in Modules |-> IF m \in wrote THEN Source(m)
                                     ELSE IF m \in torn THEN Torn ELSE cil[m]]
        /\ Ends(done = needed, "booleans")
  BY <1>a, Zenon
<1>5. UNCHANGED <<kind, cfg>>
  BY <1>4 DEF Ends
<1>6. ASSUME NEW m \in DOMAIN SELinux.modules
      PROVE  /\ Policy[m] \in Policies /\ Source(m) \in Nat /\ Policy[m][1] = Priority(m)
             /\ m \in DOMAIN record.modules /\ record.modules[m][1] = Priority(m)
  <2>1. SELinux.modules[m] \in Int \X Nat
    BY <1>2, AskedPolicy DEF SELinux
  <2>2. Priority(m) \in Nat \ {0} /\ Source(m) \in Nat
    BY <2>1 DEF Priority, Source
  <2>3. Policy[m] = <<Priority(m), Source(m)>> /\ m \in DOMAIN Policy
    BY DEF Policy
  <2>4. record.modules = Policy
    BY <1>2 DEF RecordFits
  <2> QED
    BY <2>2, <2>3, <2>4 DEF Policies
<1>7. policy' \in [Modules -> SUBSET Policies]
  BY <1>2, <1>4, <1>6 DEF SELinuxTyped
<1>8. cil' \in [Modules -> Nat \union {Torn}]
  BY <1>2, <1>4, <1>6 DEF SELinuxTyped
<1>9. SELinuxTyped'
  BY <1>2, <1>3, <1>7, <1>8 DEF SELinuxTyped, RecordTyped
<1>10. ASSUME PolicyKept PROVE PolicyKept'
  <2>1. ASSUME NEW m \in Modules, policy'[m] # {}
        PROVE  /\ record.kind = "written" /\ m \in DOMAIN record.modules
               /\ \A q \in policy'[m] : q[1] = record.modules[m][1]
    <3>1. CASE m \in done
      <4>1. policy'[m] = {q \in policy[m] : q[1] # Priority(m)} \union {Policy[m]}
        BY <1>4, <3>1
      <4>2. \A q \in policy[m] : q[1] = record.modules[m][1]
        BY <1>10 DEF PolicyKept
      <4>3. record.kind = "written"
        BY <1>2 DEF RecordFits
      <4> QED
        BY <1>4, <1>6, <3>1, <4>1, <4>2, <4>3
    <3>2. CASE m \notin done
      BY <1>4, <1>10, <2>1, <3>2 DEF PolicyKept
    <3> QED
      BY <3>1, <3>2
  <2> QED
    BY <1>3, <1>10, <2>1 DEF PolicyKept
<1>11. RecordFits'
  BY <1>2, <1>3, <1>5 DEF RecordFits, Policy, SELinux, Priority, Source
<1>12. SELinuxInv'
  BY <1>2, <1>3, <1>5, <1>10, <1>11 DEF SELinuxInv, BooleansKept, RecordedOriginal
<1>13. (done = needed) \in BOOLEAN
  OBVIOUS
<1> HIDE DEF needed
<1> QED
  BY <1>1, <1>2, <1>3, <1>4, <1>9, <1>12, <1>13, PolicyStep

LEMMA BooleansStep == ASSUME ConfigInv, applyBooleans PROVE ConfigInv'
<1>1. status = "run" /\ pc = "booleans"
  BY DEF applyBooleans, Running
<1>2. /\ RunTyped /\ SELinuxTyped /\ SELinuxInv /\ cfg \in Configs /\ RecordFits
      /\ recordLost \in BOOLEAN /\ dropped \in BOOLEAN /\ "contexts" \in Taken(command)
  BY <1>1, Labelling
<1>3. UNCHANGED <<prepVars, policy, cil, fcontext, record, firewallVars, engineVars, recordLost, dropped, unrecorded>>
  BY DEF applyBooleans, HistoryUnchanged
<1>4. PICK ok \in BOOLEAN :
        /\ sebool' = [b \in Booleans |-> IF ok /\ Has(SELinux.booleans, b)
                                         THEN SELinux.booleans[b] ELSE sebool[b]]
        /\ Ends(ok, "contexts")
  BY DEF applyBooleans
<1>5. UNCHANGED <<kind, cfg>>
  BY <1>4 DEF Ends
<1>6. sebool' \in [Booleans -> BOOLEAN]
  BY <1>2, <1>4, AskedPolicy DEF SELinuxTyped, SELinux, Has
<1>7. SELinuxTyped'
  BY <1>2, <1>3, <1>6 DEF SELinuxTyped, RecordTyped
<1>8. BooleansKept => BooleansKept'
  BY <1>2, <1>3, <1>4 DEF BooleansKept, RecordFits, Has
<1>9. RecordFits'
  BY <1>2, <1>3, <1>5 DEF RecordFits, Policy, SELinux, Priority, Source
<1>10. SELinuxInv'
  BY <1>2, <1>3, <1>5, <1>8, <1>9 DEF SELinuxInv, RecordedOriginal, PolicyKept
<1> QED
  BY <1>1, <1>2, <1>3, <1>4, <1>7, <1>10, PolicyStep

LEMMA ContextsStep == ASSUME ConfigInv, applyFileContexts PROVE ConfigInv'
<1>1. status = "run" /\ pc = "contexts"
  BY DEF applyFileContexts, Running
<1>2. /\ RunTyped /\ SELinuxTyped /\ SELinuxInv /\ cfg \in Configs /\ RecordFits
      /\ recordLost \in BOOLEAN /\ dropped \in BOOLEAN /\ After("contexts") \in Taken(command)
      /\ After("contexts") \in {"etchosts", "kernel"}
  BY <1>1, Labelling
<1>3. UNCHANGED <<prepVars, policy, cil, sebool, record, firewallVars, engineVars, recordLost, dropped, unrecorded>>
  BY DEF applyFileContexts, HistoryUnchanged
<1>4. PICK done \in SUBSET DOMAIN SELinux.contexts :
        /\ fcontext' = [p \in Contexts |-> IF p \in done THEN SELinux.contexts[p] ELSE fcontext[p]]
        /\ Ends(done = DOMAIN SELinux.contexts, After("contexts"))
  BY DEF applyFileContexts
<1>5. UNCHANGED <<kind, cfg>>
  BY <1>4 DEF Ends
<1>6. fcontext' \in [Contexts -> Nat]
  BY <1>2, <1>4, AskedPolicy DEF SELinuxTyped, SELinux
<1>7. SELinuxTyped'
  BY <1>2, <1>3, <1>6 DEF SELinuxTyped, RecordTyped
<1>8. PolicyKept => PolicyKept'
  BY <1>2, <1>3, <1>4 DEF PolicyKept, RecordFits
<1>9. RecordFits'
  BY <1>2, <1>3, <1>5 DEF RecordFits, Policy, SELinux, Priority, Source
<1>10. SELinuxInv'
  BY <1>2, <1>3, <1>5, <1>8, <1>9 DEF SELinuxInv, BooleansKept, RecordedOriginal
<1>11. (done = DOMAIN SELinux.contexts) \in BOOLEAN
  OBVIOUS
<1> QED
  BY <1>1, <1>2, <1>3, <1>4, <1>7, <1>10, <1>11, PolicyStep

\* A set of which nothing is left over was taken whole.
LEMMA NothingLeft ==
    ASSUME NEW S, IsFiniteSet(S), NEW T \in SUBSET S
    PROVE  Cardinality(S \ T) \in Nat /\ (Cardinality(S \ T) = 0 => T = S)
<1>1. IsFiniteSet(S \ T)
  BY FS_Difference
<1>2. Cardinality(S \ T) \in Nat /\ (Cardinality(S \ T) = 0 <=> S \ T = {})
  BY <1>1, FS_CardinalityType, FS_EmptySet
<1> QED
  BY <1>2

LEMMA RemoveStep == ASSUME ConfigInv, removeHost PROVE ConfigInv'
<1>1. /\ RunTyped /\ SELinuxTyped /\ SELinuxInv /\ status = "run" /\ pc = "unlabel"
      /\ recordLost \in BOOLEAN /\ dropped \in BOOLEAN /\ unrecorded \in BOOLEAN
  BY DEF ConfigInv, Typed, RunTyped, removeHost, Running
<1>2. command = "reset"
  BY <1>1 DEF RunTyped, Taken
<1>3. UNCHANGED <<prepVars, firewallVars, engineVars, dropped, unrecorded>>
  BY DEF removeHost
<1>4. SUFFICES /\ RunTyped' /\ UNCHANGED <<kind, cfg, command>> /\ status' \in {"ok", "err"}
               /\ SELinuxTyped' /\ SELinuxInv' /\ BooleansRestored' /\ PolicyRemoved' /\ (~faulty' => ~faulty)
  <2>1. EngineTyped' /\ EngineInv'
    BY <1>3, <1>4, EngineKept DEF ConfigInv, Typed, engineVars
  <2>2. FirewallTyped' /\ FirewallInv'
    BY <1>3, <1>4, FirewallKept DEF ConfigInv, Typed, firewallVars
  <2>3. PrepTyped'
    BY <1>3, PrepKept DEF ConfigInv, Typed, prepVars
  <2>4. EngineReadsDesired' /\ ManagedDirsExact' /\ FirewallMatchesPlan'
    BY <1>2, <1>4, <2>1 DEF EngineReadsDesired, ManagedDirsExact, FirewallMatchesPlan, Done, EngineInv
  <2> QED
    BY <1>4, <2>1, <2>2, <2>3, <2>4 DEF ConfigInv, Typed, Outcome
<1>5. CASE ~kind.selinux \/ record.kind # "written"
  <2>1. Ends(TRUE, "done") /\ UNCHANGED <<policy, cil, sebool, fcontext, record, recordLost>>
    BY <1>5 DEF removeHost, selinuxVars
  <2>2. RunTyped' /\ UNCHANGED <<kind, cfg, command>> /\ status' \in {"ok", "err"} /\ (~faulty' => ~faulty)
    <3>1. recordLost' \in BOOLEAN /\ dropped' \in BOOLEAN /\ unrecorded' \in BOOLEAN
      BY <1>1, <1>3, <2>1
    <3>2. status' = "ok"
      BY <2>1 DEF Ends
    <3> QED
      BY <1>1, <2>1, <3>1, <3>2, EndsRun
  <2>3. SELinuxTyped' /\ SELinuxInv'
    BY <1>1, <1>3, <2>1, <2>2, SELinuxKept
  <2>4. record'.kind # "written"
    BY <1>1, <1>5, <2>1 DEF SELinuxInv
  <2>5. BooleansRestored'
    <3> SUFFICES ASSUME ~recordLost' PROVE sebool' = Original
      BY DEF BooleansRestored
    <3>1. BooleansKept'
      BY <2>3 DEF SELinuxInv
    <3>2. \A b \in Booleans : sebool'[b] = Original[b]
      BY <2>4, <3>1 DEF BooleansKept
    <3>3. sebool' \in [Booleans -> BOOLEAN] /\ Original \in [Booleans -> BOOLEAN]
      BY <2>3, HostConfigAssumption DEF SELinuxTyped, HostConfigAssumption
    <3> QED
      BY <3>2, <3>3
  <2>6. PolicyRemoved'
    BY <2>3, <2>4 DEF PolicyRemoved, SELinuxInv, PolicyKept
  <2> QED
    BY <2>2, <2>3, <2>5, <2>6
<1>6. CASE kind.selinux /\ record.kind = "written"
  <2>1. PICK ctx \in SUBSET DOMAIN record.contexts, mods \in SUBSET DOMAIN record.modules,
             bools, deleted \in BOOLEAN :
          /\ fcontext' = [p \in Contexts |-> IF p \in ctx THEN Absent ELSE fcontext[p]]
          /\ sebool' = [b \in Booleans |-> IF bools /\ Has(record.booleans, b)
                                           THEN record.booleans[b] ELSE sebool[b]]
          /\ policy' = [m \in Modules |-> IF m \in mods
                          THEN {q \in policy[m] : q[1] # record.modules[m][1]} ELSE policy[m]]
          /\ cil' = [m \in Modules |-> IF Has(record.modules, m) THEN Absent ELSE cil[m]]
          /\ record' = IF deleted THEN NoRecord ELSE record
          /\ recordLost' = (recordLost \/ (deleted /\ ~(bools /\ ctx = DOMAIN record.contexts
                                                      /\ mods = DOMAIN record.modules)))
          /\ Fails(Cardinality(DOMAIN record.contexts \ ctx) + Cardinality(DOMAIN record.modules \ mods)
                   + (IF bools THEN 0 ELSE 1) + (IF deleted THEN 0 ELSE 1))
          /\ pc' = "done" /\ status' = "ok" /\ UNCHANGED <<kind, command, cfg, runs>>
    BY <1>6 DEF removeHost
  <2>2. /\ DOMAIN record.contexts \subseteq Contexts /\ DOMAIN record.modules \subseteq Modules
        /\ \A b \in DOMAIN record.booleans : record.booleans[b] \in BOOLEAN
    BY <1>1, <1>6 DEF SELinuxTyped, RecordTyped
  <2>3. IsFiniteSet(DOMAIN record.contexts) /\ IsFiniteSet(DOMAIN record.modules)
    BY <2>2, FS_Subset, HostConfigAssumption DEF HostConfigAssumption
  <2>4. /\ Cardinality(DOMAIN record.contexts \ ctx) \in Nat /\ Cardinality(DOMAIN record.modules \ mods) \in Nat
        /\ Cardinality(DOMAIN record.contexts \ ctx) = 0 => ctx = DOMAIN record.contexts
        /\ Cardinality(DOMAIN record.modules \ mods) = 0 => mods = DOMAIN record.modules
    BY <2>3, NothingLeft
  <2> DEFINE c1 == Cardinality(DOMAIN record.contexts \ ctx)
             c2 == Cardinality(DOMAIN record.modules \ mods)
             c3 == IF bools THEN 0 ELSE 1
             c4 == IF deleted THEN 0 ELSE 1
  <2>5. c1 + c2 + c3 + c4 \in Nat /\ (c1 + c2 + c3 + c4 = 0 => c1 = 0 /\ c2 = 0 /\ bools /\ deleted)
    <3>1. c3 \in Nat /\ (c3 = 0 => bools) /\ c4 \in Nat /\ (c4 = 0 => deleted) /\ c1 \in Nat /\ c2 \in Nat
      BY <2>4
    <3> HIDE DEF c1, c2, c3, c4
    <3> QED
      BY <3>1
  <2>6. Fails(c1 + c2 + c3 + c4)
    BY <2>1
  <2>7. /\ faults' \in 0..MaxFaults /\ faulty' \in BOOLEAN
        /\ ~faulty' => ~faulty /\ bools /\ deleted /\ ctx = DOMAIN record.contexts /\ mods = DOMAIN record.modules
    <3> HIDE DEF c1, c2, c3, c4
    <3>1. /\ faults' \in 0..MaxFaults /\ faulty' \in BOOLEAN
          /\ ~faulty' => c1 + c2 + c3 + c4 = 0 /\ ~faulty
      BY <1>1, <2>5, <2>6, FailsType
    <3> QED
      BY <2>4, <2>5, <3>1 DEF c1, c2
  <2> HIDE DEF c1, c2, c3, c4
  <2>8. recordLost' \in BOOLEAN
    BY <2>1, Zenon
  <2>9. RunTyped'
    BY <1>1, <1>3, <2>1, <2>7, <2>8 DEF RunTyped, Steps
  <2>10. RecordTyped(record')
    BY <1>1, <2>1 DEF SELinuxTyped, RecordTyped, NoRecord
  <2>11. SELinuxTyped'
    <3>1. policy' \in [Modules -> SUBSET Policies] /\ cil' \in [Modules -> Nat \union {Torn}]
      BY <1>1, <2>1 DEF SELinuxTyped, Absent
    <3>2. sebool' \in [Booleans -> BOOLEAN] /\ fcontext' \in [Contexts -> Nat]
      BY <1>1, <2>1, <2>2 DEF SELinuxTyped, Absent, Has
    <3> QED
      BY <2>10, <3>1, <3>2 DEF SELinuxTyped
  <2>12. ASSUME ~recordLost'
         PROVE  /\ BooleansKept' /\ RecordedOriginal'
                /\ deleted => sebool' = Original /\ bools /\ ctx = DOMAIN record.contexts /\ mods = DOMAIN record.modules
    <3>1. ~recordLost /\ (deleted => bools /\ ctx = DOMAIN record.contexts /\ mods = DOMAIN record.modules)
      BY <2>1, <2>12
    <3>2. BooleansKept /\ RecordedOriginal
      BY <1>1, <3>1 DEF SELinuxInv
    <3>3. \A b \in Booleans : b \in DOMAIN record.booleans \/ sebool[b] = Original[b]
      BY <3>2 DEF BooleansKept
    <3>4. \A b \in DOMAIN record.booleans : record.booleans[b] = Original[b]
      BY <1>6, <3>2 DEF RecordedOriginal
    <3>5. CASE deleted
      <4>1. \A b \in Booleans : sebool'[b] = Original[b]
        BY <2>1, <3>1, <3>3, <3>4, <3>5 DEF Has
      <4>2. Original \in [Booleans -> BOOLEAN]
        BY HostConfigAssumption DEF HostConfigAssumption
      <4>3. sebool' = Original
        BY <2>11, <4>1, <4>2 DEF SELinuxTyped
      <4>4. record'.kind # "written"
        BY <2>1, <3>5 DEF NoRecord
      <4> QED
        BY <3>1, <4>1, <4>3, <4>4 DEF BooleansKept, RecordedOriginal
    <3>6. CASE ~deleted
      <4>1. record' = record
        BY <2>1, <3>6
      <4>2. \A b \in Booleans : b \in DOMAIN record.booleans \/ sebool'[b] = Original[b]
        BY <2>1, <3>3 DEF Has
      <4> QED
        BY <1>6, <3>4, <3>6, <4>1, <4>2 DEF BooleansKept, RecordedOriginal
    <3> QED
      BY <3>5, <3>6
  <2>13. ASSUME ~recordLost', ~dropped'
         PROVE  PolicyKept' /\ (deleted => (\A m \in Modules : policy'[m] = {}) /\ (\A p \in Contexts : fcontext'[p] = Absent))
    <3>1. PolicyKept
      BY <1>1, <1>3, <2>1, <2>13 DEF SELinuxInv
    <3>2. CASE deleted
      <4>1. ctx = DOMAIN record.contexts /\ mods = DOMAIN record.modules
        BY <2>12, <2>13, <3>2
      <4>2. \A m \in Modules : policy'[m] = {}
        BY <2>1, <3>1, <4>1 DEF PolicyKept
      <4>3. \A p \in Contexts : fcontext'[p] = Absent
        BY <2>1, <3>1, <4>1 DEF PolicyKept
      <4> QED
        BY <4>2, <4>3 DEF PolicyKept
    <3>3. CASE ~deleted
      BY <2>1, <3>1, <3>3 DEF PolicyKept
    <3> QED
      BY <3>2, <3>3
  <2>14. record'.kind # "torn" /\ (record'.kind = "written" => kind'.selinux)
    BY <1>6, <2>1 DEF NoRecord
  <2>15. SELinuxInv'
    BY <2>1, <2>12, <2>13, <2>14 DEF SELinuxInv, Running
  <2>16. BooleansRestored' /\ PolicyRemoved'
    BY <2>7, <2>12, <2>13 DEF BooleansRestored, PolicyRemoved
  <2> QED
    BY <2>1, <2>7, <2>9, <2>11, <2>15, <2>16
<1> QED
  BY <1>5, <1>6

-----------------------------------------------------------------------------
(* The firewall.                                                           *)

\* A rule that is neither stale nor of the plan was not cargoship's: once the stale ones are
\* deleted and the plan is applied, the plan is what is left of the recorded rules.
LEMMA ReconciledPlan ==
    ASSUME rules \subseteq ufwState
    PROVE  Reconciled(ufwState \ plan, plan) = plan
<1>1. ASSUME NEW r \in rules PROVE SameMatch(r, ufwState \ plan) \/ SameMatch(r, plan)
  <2>1. r \in ufwState \ plan \/ r \in plan
    BY <1>1
  <2> QED
    BY <2>1 DEF SameMatch
<1> QED
  BY <1>1 DEF Reconciled

\* The phase ends or is taken once more, and without a fault it has ended well.
LEMMA FirewallEnds ==
    ASSUME RunTyped, status = "run", pc = "firewall", NEW ok \in BOOLEAN, EndsOrRetries(ok),
           recordLost' \in BOOLEAN, dropped' \in BOOLEAN, unrecorded' \in BOOLEAN
    PROVE  /\ RunTyped' /\ UNCHANGED <<kind, cfg, command>> /\ (~faulty' => ok /\ ~faulty)
           /\ status' \in {"run", "err"} /\ pc' \in {"firewall", "configure"}
<1>1. "configure" \in Taken(command) \union {"done"} /\ command = "apply"
  BY DEF RunTyped, Taken
<1>2. CASE Ends(ok, "configure")
  <2>1. pc' \in {"firewall", "configure"} /\ status' \in {"run", "err"}
    BY <1>2 DEF Ends
  <2> QED
    BY <1>1, <1>2, <2>1, EndsRun
<1>3. CASE ~ok /\ Fails(1) /\ UNCHANGED <<pc, status, kind, command, cfg, runs>>
  <2>1. faults' \in 0..MaxFaults /\ faulty' \in BOOLEAN /\ faulty'
    BY <1>3, FailsType
  <2> QED
    BY <1>3, <2>1 DEF RunTyped
<1> QED
  BY <1>2, <1>3 DEF EndsOrRetries

LEMMA FirewallStep == ASSUME ConfigInv, configureFirewall PROVE ConfigInv'
<1>1. /\ RunTyped /\ EngineTyped /\ EngineInv /\ FirewallTyped /\ FirewallInv /\ status = "run" /\ pc = "firewall"
      /\ cfg \in Configs /\ recordLost \in BOOLEAN /\ dropped \in BOOLEAN /\ unrecorded \in BOOLEAN
  BY DEF ConfigInv, Typed, RunTyped, configureFirewall, Running
<1>2. UNCHANGED <<recordLost, dropped, prepVars, selinuxVars, yaml, engine, loaded>>
  BY DEF configureFirewall
<1>3. command = "apply"
  BY <1>1 DEF RunTyped, Taken
<1>4. plan \subseteq Rules
  BY <1>1, AskedFiles DEF plan
<1> DEFINE Firewalled ==
               /\ RunTyped' /\ UNCHANGED <<kind, cfg, command>> /\ status' \in {"run", "err"}
               /\ pc' \in {"firewall", "configure"}
               /\ files' \in [Managed -> Contents] /\ \A p \in Managed \ {"ruleset"} : files'[p] = files[p]
               /\ rules' \subseteq Rules /\ ufwState' \subseteq Rules /\ include' \in BOOLEAN
               /\ Select = "ufw" /\ ~unrecorded' => rules' \subseteq ufwState'
               /\ Select = "ufw" /\ ~faulty' => plan \subseteq rules' /\ (~unrecorded' => rules' \subseteq plan)
               /\ Select = "nftables" /\ ~faulty' => rules' = plan
<1>5. SUFFICES Firewalled
  <2>1. EngineTyped' /\ EngineInv'
    <3>1. {"registries", "ca", "addon"} \subseteq Managed \ {"ruleset"}
      BY DEF Managed
    <3>2. ~(pc' \in {"write", "restart"})
      BY <1>5
    <3> QED
      BY <1>1, <1>2, <1>5, <3>1, <3>2 DEF EngineTyped, EngineInv, Running
  <2>2. SELinuxTyped' /\ SELinuxInv'
    BY <1>2, <1>5, SELinuxKept DEF ConfigInv, Typed, selinuxVars
  <2>3. Select' = Select /\ plan' = plan
    BY <1>5 DEF Select, Detect, detectFirewalld, detectUFW, detectNftables, Installed, plan
  <2>4. FirewallTyped' /\ FirewallInv'
    BY <1>5, <2>3 DEF FirewallTyped, FirewallInv, Enforced
  <2>5. PrepTyped'
    BY <1>2, PrepKept DEF ConfigInv, Typed, prepVars
  <2>6. Outcome'
    BY <1>5, <2>1, NothingOver
  <2> QED
    BY <1>5, <2>1, <2>2, <2>4, <2>5, <2>6 DEF ConfigInv, Typed
<1>6. CASE Select = "none" /\ Ends(TRUE, "configure") /\ UNCHANGED <<firewallVars, files, unrecorded>>
  <2>1. EndsOrRetries(TRUE) /\ unrecorded' \in BOOLEAN /\ recordLost' \in BOOLEAN /\ dropped' \in BOOLEAN
    BY <1>1, <1>2, <1>6 DEF EndsOrRetries
  <2>2. /\ RunTyped' /\ UNCHANGED <<kind, cfg, command>> /\ status' \in {"run", "err"}
        /\ pc' \in {"firewall", "configure"}
    BY <1>1, <2>1, FirewallEnds
  <2> QED
    BY <1>1, <1>6, <2>2 DEF firewallVars, FirewallTyped, EngineTyped
<1>7. ASSUME Select = "firewalld", NEW done \in SUBSET plan, NEW ok \in BOOLEAN, Firewalld(done, ok)
      PROVE  Firewalled
  <2>1. EndsOrRetries(ok) /\ unrecorded' \in BOOLEAN /\ recordLost' \in BOOLEAN /\ dropped' \in BOOLEAN
    BY <1>1, <1>2, <1>7 DEF Firewalld
  <2>2. /\ RunTyped' /\ UNCHANGED <<kind, cfg, command>> /\ status' \in {"run", "err"}
        /\ pc' \in {"firewall", "configure"}
    BY <1>1, <2>1, FirewallEnds
  <2>3. UNCHANGED <<ufwState, include, files>> /\ rules' \subseteq done \union rules
    BY <1>7 DEF Firewalld
  <2>4. rules' \subseteq Rules
    BY <1>1, <1>4, <2>3 DEF FirewallTyped
  <2> QED
    BY <1>1, <1>7, <2>2, <2>3, <2>4 DEF FirewallTyped, EngineTyped
<1>8. ASSUME Select = "ufw", NEW gone \in SUBSET ufwState, NEW done \in SUBSET plan, NEW wrote \in BOOLEAN,
             NEW ok \in BOOLEAN, UFW(gone, done, wrote, ok)
      PROVE  Firewalled
  <2>1. /\ rules' = Reconciled(gone, done) /\ UNCHANGED <<include, files>>
        /\ ufwState' \in IF wrote THEN {plan} ELSE IF done = plan THEN {ufwState, {}} ELSE {ufwState}
        /\ unrecorded' = (unrecorded \/ gone # ufwState \ plan \/ ~wrote)
        /\ wrote => done = plan
        /\ ok => wrote
    BY <1>8 DEF UFW
  <2>2. unrecorded' \in BOOLEAN /\ recordLost' \in BOOLEAN /\ dropped' \in BOOLEAN
    BY <1>1, <1>2, <2>1, Zenon
  <2>3. /\ RunTyped' /\ UNCHANGED <<kind, cfg, command>> /\ status' \in {"run", "err"}
        /\ pc' \in {"firewall", "configure"} /\ (~faulty' => ok /\ gone = ufwState \ plan)
    <3>1. CASE gone = ufwState \ plan /\ EndsOrRetries(ok)
      BY <1>1, <2>2, <3>1, FirewallEnds
    <3>2. CASE Fails(1) /\ pc' = "configure" /\ UNCHANGED <<status, kind, command, cfg, runs>>
      <4>1. faults' \in 0..MaxFaults /\ faulty' \in BOOLEAN /\ faulty'
        BY <1>1, <3>2, FailsType
      <4> QED
        BY <1>1, <1>3, <2>2, <3>2, <4>1 DEF RunTyped, Steps, Taken
    <3> QED
      BY <1>8, <3>1, <3>2 DEF UFW
  <2>4. rules' \subseteq rules \union done /\ done \subseteq rules'
    BY <2>1 DEF Reconciled
  <2>5. rules' \subseteq Rules /\ ufwState' \subseteq Rules
    BY <1>1, <1>4, <2>1, <2>4 DEF FirewallTyped
  <2>6. ASSUME ~unrecorded' PROVE rules' = plan /\ ufwState' = plan
    <3>1. ~unrecorded /\ gone = ufwState \ plan /\ wrote
      BY <2>1, <2>6
    <3>2. rules \subseteq ufwState
      BY <1>1, <1>8, <3>1 DEF FirewallInv
    <3>3. done = plan /\ ufwState' = plan
      BY <2>1, <3>1
    <3> QED
      BY <2>1, <3>1, <3>2, <3>3, ReconciledPlan
  <2>7. ~faulty' => plan \subseteq rules'
    BY <2>1, <2>3, <2>4
  <2> QED
    BY <1>1, <1>8, <2>1, <2>3, <2>5, <2>6, <2>7 DEF FirewallTyped, EngineTyped
<1>9. ASSUME Select = "nftables", NEW wrote \in BOOLEAN, NEW loads \in BOOLEAN, NEW persists \in BOOLEAN,
             Nftables(wrote, loads, persists)
      PROVE  Firewalled
  <2>1. PICK f \in Written(files["ruleset"], cfg, wrote) : files' = [files EXCEPT !["ruleset"] = f]
    BY <1>9 DEF Nftables
  <2>2. /\ rules' = IF loads THEN plan ELSE rules
        /\ include' = (include \/ persists) /\ (persists => loads) /\ UNCHANGED <<ufwState, unrecorded>>
        /\ EndsOrRetries(persists)
    BY <1>9 DEF Nftables
  <2>3. /\ RunTyped' /\ UNCHANGED <<kind, cfg, command>> /\ (~faulty' => persists)
        /\ status' \in {"run", "err"} /\ pc' \in {"firewall", "configure"}
    BY <1>1, <1>2, <2>2, FirewallEnds
  <2>4. f \in Contents
    BY <1>1, <2>1, VersionsApart DEF Written, Contents, EngineTyped, Managed
  <2>5. files' \in [Managed -> Contents] /\ \A p \in Managed \ {"ruleset"} : files'[p] = files[p]
    BY <1>1, <2>1, <2>4 DEF EngineTyped
  <2>6. include' \in BOOLEAN
    BY <2>2, Zenon
  <2>7. rules' \subseteq Rules /\ ufwState' \subseteq Rules
    BY <1>1, <1>4, <2>2 DEF FirewallTyped
  <2> QED
    BY <1>1, <1>9, <2>2, <2>3, <2>5, <2>6, <2>7
<1> QED
  BY <1>6, <1>7, <1>8, <1>9 DEF configureFirewall

-----------------------------------------------------------------------------
(* The engine and its files.                                               *)

\* A step on the engine leaves the rest of the host alone.
LEMMA EngineStep ==
    ASSUME ConfigInv, status = "run", pc \in {"configure", "start", "sync", "halt", "write", "restart", "uninstall"},
           UNCHANGED <<prepVars, selinuxVars, firewallVars, recordLost, dropped, unrecorded, kind, cfg, command>>,
           RunTyped', EngineTyped', EngineInv', ~faulty' => ~faulty, Outcome',
           pc' \in {"configure", "start", "sync", "halt", "write", "restart", "unlabel", "done"}
    PROVE  ConfigInv'
<1>1. pc = "uninstall" => command # "apply"
  BY DEF ConfigInv, Typed, RunTyped, Taken
<1>2. SELinuxTyped' /\ SELinuxInv'
  BY SELinuxKept DEF ConfigInv, Typed, selinuxVars
<1>3. FirewallTyped' /\ FirewallInv'
  BY <1>1, FirewallKept DEF ConfigInv, Typed, firewallVars
<1>4. PrepTyped'
  BY PrepKept DEF ConfigInv, Typed, prepVars
<1> QED
  BY <1>2, <1>3, <1>4 DEF ConfigInv, Typed

\* What those steps start from.
LEMMA EngineFacts ==
    ASSUME ConfigInv, status = "run"
    PROVE  /\ RunTyped /\ EngineTyped /\ EngineInv /\ FirewallInv /\ cfg \in Configs
           /\ recordLost \in BOOLEAN /\ dropped \in BOOLEAN /\ unrecorded \in BOOLEAN
           /\ DOMAIN DesiredFiles \subseteq {"registries", "ca", "chart", "release"}
           /\ DOMAIN DesiredFiles \subseteq Managed
           /\ \A p \in DOMAIN DesiredFiles : DesiredFiles[p] \in Configs
           /\ StaleFiles \subseteq {"ca", "release", "ruleset", "chart"} \ DOMAIN DesiredFiles
BY AskedFiles DEF ConfigInv, Typed, RunTyped, DesiredFiles, Managed, StaleFiles, prunes, Has

LEMMA SomeFinite ==
    ASSUME NEW S \in SUBSET Managed
    PROVE  IsFiniteSet(S) /\ Cardinality(S) \in Nat /\ (Cardinality(S) = 0 => S = {})
<1>1. IsFiniteSet(Managed)
  <2>1. IsFiniteSet({"registries"})
    BY FS_Singleton
  <2>2. IsFiniteSet({"registries"} \union {"ca"})
    BY <2>1, FS_AddElement
  <2>3. IsFiniteSet(({"registries"} \union {"ca"}) \union {"chart"})
    BY <2>2, FS_AddElement
  <2>4. IsFiniteSet((({"registries"} \union {"ca"}) \union {"chart"}) \union {"release"})
    BY <2>3, FS_AddElement
  <2>5. IsFiniteSet(((({"registries"} \union {"ca"}) \union {"chart"}) \union {"release"}) \union {"ruleset"})
    BY <2>4, FS_AddElement
  <2>6. IsFiniteSet((((({"registries"} \union {"ca"}) \union {"chart"}) \union {"release"}) \union {"ruleset"})
                    \union {"addon"})
    BY <2>5, FS_AddElement
  <2>7. Managed = ((((({"registries"} \union {"ca"}) \union {"chart"}) \union {"release"}) \union {"ruleset"})
                    \union {"addon"})
    BY DEF Managed
  <2> QED
    BY <2>6, <2>7
<1>2. IsFiniteSet(S)
  BY <1>1, FS_Subset
<1> QED
  BY <1>2, FS_CardinalityType, FS_EmptySet

\* Files are rewritten to what is asked for, cut short, removed or left.
LEMMA RewrittenFiles ==
    ASSUME files \in [Managed -> Contents], cfg \in Configs, NEW paths \in SUBSET DOMAIN DesiredFiles,
           NEW bad, NEW skip, NEW gone,
           \A p \in DOMAIN DesiredFiles : DesiredFiles[p] \in Configs
    PROVE  /\ Rewritten(paths, bad, skip, gone) \in [Managed -> Contents]
           /\ \A p \in Managed : p \notin paths \union bad \union gone =>
                Rewritten(paths, bad, skip, gone)[p] = files[p]
BY VersionsApart DEF Rewritten, Contents

LEMMA ConfigureStep == ASSUME ConfigInv, ConfigureEngine PROVE ConfigInv'
<1>1. status = "run" /\ pc = "configure"
  BY DEF ConfigureEngine, Running
<1>2. /\ RunTyped /\ EngineTyped /\ EngineInv /\ cfg \in Configs
      /\ recordLost \in BOOLEAN /\ dropped \in BOOLEAN /\ unrecorded \in BOOLEAN
      /\ DOMAIN DesiredFiles \subseteq {"registries", "ca", "chart", "release"}
      /\ DOMAIN DesiredFiles \subseteq Managed
      /\ \A p \in DOMAIN DesiredFiles : DesiredFiles[p] \in Configs
      /\ StaleFiles \subseteq {"ca", "release", "ruleset", "chart"} \ DOMAIN DesiredFiles
  BY <1>1, EngineFacts
<1>3. UNCHANGED <<prepVars, selinuxVars, firewallVars, recordLost, dropped, unrecorded, kind, cfg, command, engine, loaded>>
  BY DEF ConfigureEngine, HistoryUnchanged
<1>4. PICK ok, listed \in BOOLEAN, bad, skip \in SUBSET DOMAIN DesiredFiles :
        /\ bad \intersect skip = {}
        /\ IF engine = "running"
           THEN /\ UNCHANGED files /\ listed /\ bad = {} /\ skip = {}
                /\ Fails(IF ok THEN 0 ELSE 1)
           ELSE /\ files' = Rewritten(DOMAIN DesiredFiles, bad, skip, IF listed THEN StaleFiles ELSE {})
                /\ Fails((IF ok THEN 0 ELSE 1) + (IF listed THEN 0 ELSE 1)
                         + Cardinality(bad \union skip))
        /\ yaml' \in Written(yaml, cfg, ok)
        /\ pc' = IF ok THEN "start" ELSE pc
        /\ status' = IF ok THEN "run" ELSE "err"
  BY DEF ConfigureEngine
<1>5. faults' \in 0..MaxFaults /\ faulty' \in BOOLEAN /\ (~faulty' => ~faulty)
  <2>1. (IF ok THEN 0 ELSE 1) \in Nat /\ (IF listed THEN 0 ELSE 1) \in Nat
    OBVIOUS
  <2>2. Cardinality(bad \union skip) \in Nat
    BY <1>2, SomeFinite
  <2>3. (IF ok THEN 0 ELSE 1) + (IF listed THEN 0 ELSE 1) + Cardinality(bad \union skip) \in Nat
    BY <2>1, <2>2
  <2> QED
    BY <1>2, <1>4, <2>1, <2>3, FailsType
<1>6. pc' \in {"configure", "start"} /\ status' \in {"run", "err"}
  BY <1>1, <1>4
<1>7. RunTyped'
  BY <1>1, <1>2, <1>3, <1>4, <1>5, <1>6 DEF RunTyped, Steps, Taken
<1>8. /\ files' \in [Managed -> Contents] /\ files'["addon"] = files["addon"]
      /\ engine = "running" => files' = files
  <2>1. CASE engine = "running"
    BY <1>2, <1>4, <2>1 DEF EngineTyped
  <2>2. CASE engine # "running"
    <3> DEFINE gone == IF listed THEN StaleFiles ELSE {}
    <3>1. files' = Rewritten(DOMAIN DesiredFiles, bad, skip, gone)
      BY <1>4, <2>2
    <3>2. "addon" \in Managed /\ "addon" \notin DOMAIN DesiredFiles \union bad \union gone
      BY <1>2 DEF Managed
    <3> HIDE DEF gone
    <3>3. /\ Rewritten(DOMAIN DesiredFiles, bad, skip, gone) \in [Managed -> Contents]
          /\ Rewritten(DOMAIN DesiredFiles, bad, skip, gone)["addon"] = files["addon"]
      BY <1>2, <3>2, RewrittenFiles DEF EngineTyped
    <3> QED
      BY <2>2, <3>1, <3>3
  <2> QED
    BY <2>1, <2>2
<1>9. yaml' \in Contents
  BY <1>2, <1>4, VersionsApart DEF Written, Contents, EngineTyped
<1>10. EngineTyped' /\ EngineInv'
  BY <1>2, <1>3, <1>6, <1>8, <1>9 DEF EngineTyped, EngineInv, Running
<1>11. Outcome'
  BY <1>6, <1>10, NothingOver
<1> QED
  BY <1>1, <1>3, <1>5, <1>6, <1>7, <1>10, <1>11, EngineStep

\* A service that starts has read its files, and its own charts are there.
LEMMA StartedEngine ==
    ASSUME EngineTyped, cfg \in Configs, Started
    PROVE  /\ engine' = "running" /\ loaded' = files' /\ files' \in [Managed -> Contents]
           /\ files'["addon"] # Absent /\ \A p \in Managed \ {"addon"} : files'[p] = files[p]
BY VersionsApart DEF Started, EngineTyped, Managed

LEMMA StartStep == ASSUME ConfigInv, Start PROVE ConfigInv'
<1>1. status = "run" /\ pc = "start"
  BY DEF Start, startService, Running
<1>2. /\ RunTyped /\ EngineTyped /\ EngineInv /\ cfg \in Configs
      /\ recordLost \in BOOLEAN /\ dropped \in BOOLEAN /\ unrecorded \in BOOLEAN
  BY <1>1, EngineFacts
<1>3. UNCHANGED <<prepVars, selinuxVars, firewallVars, recordLost, dropped, unrecorded, yaml>>
  BY DEF Start, startService, HistoryUnchanged
<1>4. PICK ok \in BOOLEAN :
        /\ (engine # "running" /\ Started) \/ UNCHANGED <<engine, files, loaded>>
        /\ Ends(ok, "sync")
  BY DEF Start, startService
<1>5. "sync" \in Taken(command)
  BY <1>1, <1>2 DEF RunTyped, Taken
<1>6. /\ RunTyped' /\ UNCHANGED <<kind, cfg, command>> /\ (status' = "run" => pc' = "sync")
      /\ status' \in {"run", "err"} /\ (~faulty' => ~faulty) /\ pc' \in {"start", "sync"}
  <2>1. pc' \in {"start", "sync"} /\ status' \in {"run", "err"}
    BY <1>1, <1>4 DEF Ends
  <2>2. recordLost' \in BOOLEAN /\ dropped' \in BOOLEAN /\ unrecorded' \in BOOLEAN
    BY <1>2, <1>3
  <2> QED
    BY <1>1, <1>2, <1>4, <1>5, <2>1, <2>2, EndsRun
<1>7. EngineTyped' /\ EngineInv'
  <2>1. CASE Started
    <3>1. /\ engine' = "running" /\ loaded' = files' /\ files' \in [Managed -> Contents]
          /\ files'["addon"] # Absent
      BY <1>2, <2>1, StartedEngine
    <3> QED
      BY <1>2, <1>3, <1>6, <3>1 DEF EngineTyped, EngineInv, Running
  <2>2. CASE UNCHANGED <<engine, files, loaded>>
    BY <1>2, <1>3, <1>6, <2>2, EngineKept
  <2> QED
    BY <1>4, <2>1, <2>2
<1>8. Outcome'
  BY <1>6, <1>7, NothingOver
<1> QED
  BY <1>1, <1>3, <1>6, <1>7, <1>8, EngineStep

\* A run that ends well after the firewall's phase and without a fault leaves the plan enforced.
LEMMA FirewallOutcome ==
    ASSUME FirewallInv, status = "run", pc \in {"sync", "restart"},
           UNCHANGED <<firewallVars, unrecorded, kind, cfg, command>>, ~faulty' => ~faulty
    PROVE  FirewallMatchesPlan'
<1>1. Select' = Select /\ plan' = plan
  BY DEF Select, Detect, detectFirewalld, detectUFW, detectNftables, Installed, plan
<1> SUFFICES ASSUME command' = "apply", ~faulty', Select \in {"ufw", "nftables"}
             PROVE  (plan \subseteq rules /\ (Select = "nftables" \/ ~unrecorded => rules \subseteq plan))'
  BY <1>1 DEF FirewallMatchesPlan, Done
<1>2. Enforced
  BY DEF FirewallInv
<1> QED
  BY <1>1, <1>2 DEF Enforced, firewallVars

LEMMA RestartStep == ASSUME ConfigInv, Restart PROVE ConfigInv'
<1>1. status = "run" /\ pc = "restart"
  BY DEF Restart, startService, Running
<1>2. /\ RunTyped /\ EngineTyped /\ EngineInv /\ FirewallInv /\ cfg \in Configs
      /\ recordLost \in BOOLEAN /\ dropped \in BOOLEAN /\ unrecorded \in BOOLEAN
      /\ DOMAIN DesiredFiles \subseteq {"registries", "ca", "chart", "release"}
      /\ \A p \in DOMAIN DesiredFiles : DesiredFiles[p] \in Configs
  BY <1>1, EngineFacts
<1>3. UNCHANGED <<prepVars, selinuxVars, firewallVars, recordLost, dropped, unrecorded, yaml>>
  BY DEF Restart, startService, HistoryUnchanged
<1>4. PICK ok \in BOOLEAN :
        /\ (engine # "running" /\ Started) \/ ((ok => engine = "running") /\ UNCHANGED <<engine, files, loaded>>)
        /\ Ends(ok, "done")
  BY DEF Restart, startService
<1>5. engine = "stopped" /\ FilesDesired /\ command \in {"apply", "sync"}
  BY <1>1, <1>2 DEF EngineInv, Running, RunTyped, Taken
<1>6. /\ RunTyped' /\ UNCHANGED <<kind, cfg, command>> /\ (status' = "ok" => ok)
      /\ status' \in {"ok", "err"} /\ (~faulty' => ~faulty) /\ pc' \in {"restart", "done"}
  <2>1. pc' \in {"restart", "done"} /\ status' \in {"ok", "err"}
    BY <1>1, <1>4 DEF Ends
  <2>2. recordLost' \in BOOLEAN /\ dropped' \in BOOLEAN /\ unrecorded' \in BOOLEAN
    BY <1>2, <1>3
  <2> QED
    BY <1>1, <1>2, <1>4, <2>1, <2>2, EndsRun
<1>7. DesiredFiles' = DesiredFiles
  BY <1>6 DEF DesiredFiles
<1>8. CASE Started
  <2>1. /\ engine' = "running" /\ loaded' = files' /\ files' \in [Managed -> Contents]
        /\ files'["addon"] # Absent /\ \A p \in Managed \ {"addon"} : files'[p] = files[p]
    BY <1>2, <1>8, StartedEngine
  <2>2. EngineTyped' /\ EngineInv'
    BY <1>2, <1>3, <1>6, <2>1 DEF EngineTyped, EngineInv, Running
  <2>3. {"registries", "ca", "chart", "release"} \subseteq Managed \ {"addon"}
    BY DEF Managed
  <2>4. \A p \in DOMAIN DesiredFiles : files'[p] = DesiredFiles[p]
    BY <1>2, <1>5, <2>1, <2>3 DEF FilesDesired
  <2>5. EngineReadsDesired'
    BY <1>7, <2>1, <2>4 DEF EngineReadsDesired
  <2>6. ASSUME NEW p \in {"ca", "release", "chart"} PROVE files'[p] # Absent <=> Has(DesiredFiles, p)
    <3>1. CASE p \in DOMAIN DesiredFiles
      BY <1>2, <2>4, <3>1, VersionsApart DEF Has
    <3>2. CASE p \notin DOMAIN DesiredFiles
      BY <1>5, <2>1, <2>3, <3>2 DEF FilesDesired, Has
    <3> QED
      BY <3>1, <3>2
  <2>7. ManagedDirsExact'
    BY <1>7, <2>1, <2>6 DEF ManagedDirsExact, Has
  <2>8. FirewallMatchesPlan'
    BY <1>1, <1>2, <1>3, <1>6, FirewallOutcome
  <2>9. BooleansRestored' /\ PolicyRemoved'
    BY <1>5, <1>6 DEF BooleansRestored, PolicyRemoved, Done
  <2>10. Outcome'
    BY <2>5, <2>7, <2>8, <2>9 DEF Outcome
  <2> QED
    BY <1>1, <1>3, <1>6, <2>2, <2>10, EngineStep
<1>9. CASE (ok => engine = "running") /\ UNCHANGED <<engine, files, loaded>>
  <2>1. status' = "err"
    BY <1>5, <1>6, <1>9
  <2>2. EngineTyped' /\ EngineInv'
    BY <1>2, <1>3, <1>6, <1>9, <2>1, EngineKept
  <2>3. Outcome'
    BY <2>1, <2>2, NothingOver
  <2> QED
    BY <1>1, <1>3, <1>6, <2>2, <2>3, EngineStep
<1> QED
  BY <1>4, <1>8, <1>9

LEMMA HaltStep == ASSUME ConfigInv, drainAndStop PROVE ConfigInv'
<1>1. status = "run" /\ pc = "halt"
  BY DEF drainAndStop, Running
<1>2. /\ RunTyped /\ EngineTyped /\ EngineInv
      /\ recordLost \in BOOLEAN /\ dropped \in BOOLEAN /\ unrecorded \in BOOLEAN
  BY <1>1, EngineFacts
<1>3. UNCHANGED <<prepVars, selinuxVars, firewallVars, recordLost, dropped, unrecorded, yaml, files, loaded>>
  BY DEF drainAndStop, HistoryUnchanged
<1>4. PICK ok \in BOOLEAN :
        /\ (engine = "running" /\ engine' = "stopped") \/ ((ok => engine = "stopped") /\ UNCHANGED engine)
        /\ Ends(ok, "write")
  BY DEF drainAndStop
<1>5. "write" \in Taken(command)
  BY <1>1, <1>2 DEF RunTyped, Taken
<1>6. /\ RunTyped' /\ UNCHANGED <<kind, cfg, command>> /\ (status' = "run" => ok /\ pc' = "write")
      /\ status' \in {"run", "err"} /\ (~faulty' => ~faulty) /\ pc' \in {"halt", "write"}
  <2>1. pc' \in {"halt", "write"} /\ status' \in {"run", "err"}
    BY <1>1, <1>4 DEF Ends
  <2>2. recordLost' \in BOOLEAN /\ dropped' \in BOOLEAN /\ unrecorded' \in BOOLEAN
    BY <1>2, <1>3
  <2> QED
    BY <1>1, <1>2, <1>4, <1>5, <2>1, <2>2, EndsRun
<1>7. EngineTyped' /\ EngineInv'
  BY <1>2, <1>3, <1>4, <1>6 DEF EngineTyped, EngineInv, Running
<1>8. Outcome'
  BY <1>6, <1>7, NothingOver
<1> QED
  BY <1>1, <1>3, <1>6, <1>7, <1>8, EngineStep

LEMMA WriteStep == ASSUME ConfigInv, writeFiles PROVE ConfigInv'
<1>1. status = "run" /\ pc = "write"
  BY DEF writeFiles, Running
<1>2. /\ RunTyped /\ EngineTyped /\ EngineInv /\ cfg \in Configs
      /\ recordLost \in BOOLEAN /\ dropped \in BOOLEAN /\ unrecorded \in BOOLEAN
      /\ DOMAIN DesiredFiles \subseteq {"registries", "ca", "chart", "release"}
      /\ DOMAIN DesiredFiles \subseteq Managed
      /\ \A p \in DOMAIN DesiredFiles : DesiredFiles[p] \in Configs
      /\ StaleFiles \subseteq {"ca", "release", "ruleset", "chart"} \ DOMAIN DesiredFiles
  BY <1>1, EngineFacts
<1>3. UNCHANGED <<prepVars, selinuxVars, firewallVars, recordLost, dropped, unrecorded, yaml, engine, loaded>>
  BY DEF writeFiles, HistoryUnchanged
<1>4. PICK bad \in SUBSET DOMAIN DesiredFiles, skip \in SUBSET DOMAIN DesiredFiles, gone \in SUBSET StaleFiles :
        /\ files' = Rewritten(DOMAIN DesiredFiles, bad, skip, gone)
        /\ Ends(bad \union skip = {} /\ gone = StaleFiles, "restart")
  BY DEF writeFiles
<1> DEFINE ok == bad \union skip = {} /\ gone = StaleFiles
<1>5. "restart" \in Taken(command) /\ engine = "stopped" /\ ok \in BOOLEAN /\ Ends(ok, "restart")
  BY <1>1, <1>2, <1>4 DEF RunTyped, Taken, EngineInv, Running
<1>6. /\ RunTyped' /\ UNCHANGED <<kind, cfg, command>> /\ (status' = "run" => ok /\ pc' = "restart")
      /\ status' \in {"run", "err"} /\ (~faulty' => ~faulty) /\ pc' \in {"write", "restart"}
  <2> HIDE DEF ok
  <2>1. pc' \in {"write", "restart"} /\ status' \in {"run", "err"}
    BY <1>1, <1>5 DEF Ends
  <2>2. recordLost' \in BOOLEAN /\ dropped' \in BOOLEAN /\ unrecorded' \in BOOLEAN
    BY <1>2, <1>3
  <2> QED
    BY <1>1, <1>2, <1>5, <2>1, <2>2, EndsRun
<1>7. files' \in [Managed -> Contents] /\ files'["addon"] = files["addon"]
  <2>1. "addon" \in Managed /\ "addon" \notin DOMAIN DesiredFiles \union bad \union gone
    BY <1>2 DEF Managed
  <2>2. /\ Rewritten(DOMAIN DesiredFiles, bad, skip, gone) \in [Managed -> Contents]
        /\ Rewritten(DOMAIN DesiredFiles, bad, skip, gone)["addon"] = files["addon"]
    BY <1>2, <2>1, RewrittenFiles DEF EngineTyped
  <2> QED
    BY <1>4, <2>2
<1>8. ASSUME ok PROVE FilesDesired'
  <2>1. bad = {} /\ skip = {} /\ gone = StaleFiles /\ files' = Rewritten(DOMAIN DesiredFiles, {}, {}, StaleFiles)
    BY <1>4, <1>8
  <2>2. \A p \in DOMAIN DesiredFiles : files'[p] = DesiredFiles[p]
    BY <1>2, <2>1 DEF Rewritten
  <2>3. ASSUME NEW p \in {"ca", "release", "chart"}, files'[p] # Absent PROVE Has(DesiredFiles, p)
    <3> SUFFICES ASSUME p \notin DOMAIN DesiredFiles PROVE FALSE
      BY DEF Has
    <3>1. p \in Managed /\ prunes(p) /\ ~Has(DesiredFiles, p)
      BY DEF Managed, prunes, Has
    <3>2. CASE p \in StaleFiles
      BY <2>1, <2>3, <3>1, <3>2 DEF Rewritten
    <3>3. CASE p \notin StaleFiles
      <4>1. files[p] = Absent
        BY <3>1, <3>3 DEF StaleFiles
      <4>2. files'[p] = files[p]
        BY <2>1, <3>1, <3>3 DEF Rewritten
      <4> QED
        BY <2>3, <4>1, <4>2
    <3> QED
      BY <3>2, <3>3
  <2> QED
    BY <1>6, <2>2, <2>3 DEF FilesDesired, DesiredFiles, Has
<1>9. EngineTyped' /\ EngineInv'
  BY <1>2, <1>3, <1>5, <1>6, <1>7, <1>8 DEF EngineTyped, EngineInv, Running
<1>10. Outcome'
  BY <1>6, <1>9, NothingOver
<1> QED
  BY <1>1, <1>3, <1>6, <1>9, <1>10, EngineStep

LEMMA UninstallStep == ASSUME ConfigInv, uninstallNode PROVE ConfigInv'
<1>1. status = "run" /\ pc = "uninstall"
  BY DEF uninstallNode, Running
<1>2. RunTyped /\ EngineTyped /\ EngineInv
  BY <1>1, EngineFacts
<1>3. /\ UNCHANGED <<prepVars, selinuxVars, firewallVars, recordLost, dropped, unrecorded, loaded, kind, command, cfg, status>>
      /\ yaml' = Absent /\ engine' = "absent" /\ pc' = "unlabel"
  BY DEF uninstallNode, HistoryUnchanged
<1>4. PICK left \in SUBSET Managed :
        files' = [p \in Managed |-> IF p \in left THEN files[p] ELSE Absent] /\ Fails(Cardinality(left))
  BY DEF uninstallNode
<1>5. faults' \in 0..MaxFaults /\ faulty' \in BOOLEAN /\ (~faulty' => ~faulty)
  BY <1>2, <1>4, SomeFinite, FailsType
<1>6. RunTyped'
  BY <1>1, <1>2, <1>3, <1>5 DEF RunTyped, Steps, Taken
<1>7. files' \in [Managed -> Contents]
  BY <1>2, <1>4 DEF EngineTyped, Contents
<1>8. EngineTyped' /\ EngineInv'
  BY <1>2, <1>3, <1>7 DEF EngineTyped, EngineInv, Running, Contents
<1>9. Outcome'
  BY <1>1, <1>3, <1>8, NothingOver
<1> QED
  BY <1>1, <1>3, <1>5, <1>6, <1>8, <1>9, EngineStep

\* The check finds the files as asked for, or puts right in place those the engine reads again,
\* or goes on to stop the engine.
LEMMA SyncStep == ASSUME ConfigInv, needsUpdate PROVE ConfigInv'
<1>1. status = "run" /\ pc = "sync"
  BY DEF needsUpdate, Running
<1>2. /\ RunTyped /\ EngineTyped /\ EngineInv /\ FirewallInv /\ cfg \in Configs
      /\ recordLost \in BOOLEAN /\ dropped \in BOOLEAN /\ unrecorded \in BOOLEAN
      /\ DOMAIN DesiredFiles \subseteq {"registries", "ca", "chart", "release"}
      /\ DOMAIN DesiredFiles \subseteq Managed
      /\ \A p \in DOMAIN DesiredFiles : DesiredFiles[p] \in Configs
  BY <1>1, EngineFacts
<1>3. UNCHANGED <<kind, command, cfg, yaml, engine, loaded, prepVars, selinuxVars, firewallVars, recordLost,
                  dropped, unrecorded>>
  BY DEF needsUpdate, HistoryUnchanged
<1>4. command \in {"apply", "sync", "dry"}
  BY <1>1, <1>2 DEF RunTyped, Taken
<1> DEFINE inPlace == DOMAIN DesiredFiles \intersect NoRestart
           Stale(listed) == IF listed THEN StaleFiles ELSE {}
           Soft(listed) == ~restartRequired(Stale(listed)) /\ driftedFiles # {} /\ mayWrite
<1>5. PICK listed \in BOOLEAN, bad \in SUBSET inPlace, skip \in SUBSET inPlace :
        /\ ~Soft(listed) => bad = {} /\ skip = {}
        /\ files' = IF Soft(listed) THEN Rewritten(inPlace, bad, skip, {}) ELSE files
        /\ Fails((IF listed THEN 0 ELSE 1) + (IF bad \union skip # {} THEN 1 ELSE 0))
        /\ pc' = IF mayWrite /\ (restartRequired(Stale(listed)) \/ bad \union skip # {}) THEN "halt" ELSE "done"
  BY DEF needsUpdate
<1> HIDE DEF Soft, Stale
<1>6. status' = IF pc' = "done" THEN "ok" ELSE "run"
  BY DEF needsUpdate
<1>7. faults' \in 0..MaxFaults /\ faulty' \in BOOLEAN /\ (~faulty' => ~faulty /\ listed)
  <2> DEFINE n == (IF listed THEN 0 ELSE 1) + (IF bad \union skip # {} THEN 1 ELSE 0)
  <2>1. n \in Nat /\ (n = 0 => listed)
    OBVIOUS
  <2>2. Fails(n)
    BY <1>5
  <2> HIDE DEF n
  <2> QED
    BY <1>2, <2>1, <2>2, FailsType
<1>8. pc' \in {"halt", "done"} /\ (pc' = "halt" => mayWrite)
  BY <1>5
<1>9. RunTyped'
  <2>1. status' \in {"ok", "run"} /\ (status' = "run" => pc' = "halt")
    BY <1>6, <1>8
  <2>2. pc' = "halt" => command \in {"apply", "sync"}
    BY <1>4, <1>8 DEF mayWrite
  <2>3. pc' \in Steps /\ (status' = "run" => pc' \in Taken(command))
    BY <1>8, <2>1, <2>2 DEF Steps, Taken
  <2> QED
    BY <1>2, <1>3, <1>7, <2>1, <2>3 DEF RunTyped
<1>10. /\ files' \in [Managed -> Contents]
       /\ \A p \in Managed \ NoRestart : files'[p] = files[p]
  <2>1. CASE Soft(listed)
    <3>1. /\ Rewritten(inPlace, bad, skip, {}) \in [Managed -> Contents]
          /\ \A p \in Managed : p \notin inPlace \union bad \union {} =>
                Rewritten(inPlace, bad, skip, {})[p] = files[p]
      <4>1. files \in [Managed -> Contents] /\ inPlace \in SUBSET DOMAIN DesiredFiles
        BY <1>2 DEF EngineTyped
      <4> HIDE DEF inPlace
      <4> QED
        BY <1>2, <4>1, RewrittenFiles
    <3> QED
      BY <1>5, <2>1, <3>1
  <2>2. CASE ~Soft(listed)
    BY <1>2, <1>5, <2>2 DEF EngineTyped
  <2> QED
    BY <2>1, <2>2
<1>11. {"registries", "ca", "addon"} \subseteq Managed \ NoRestart /\ {"ca", "release", "chart"} \subseteq Managed
  BY DEF Managed, NoRestart
<1>12. EngineTyped' /\ EngineInv'
  BY <1>2, <1>3, <1>8, <1>10, <1>11 DEF EngineTyped, EngineInv, Running
<1>13. DesiredFiles' = DesiredFiles
  BY <1>3 DEF DesiredFiles
<1>14. ASSUME status' = "ok", command # "dry"
       PROVE  /\ ~restartRequired(Stale(listed))
              /\ \A p \in DOMAIN DesiredFiles : files'[p] = DesiredFiles[p]
              /\ \A p \in Managed : p \notin DOMAIN DesiredFiles => files'[p] = files[p]
  <2>1. mayWrite
    BY <1>14 DEF mayWrite
  <2>2. ~restartRequired(Stale(listed)) /\ bad = {} /\ skip = {}
    BY <1>5, <1>6, <1>14, <2>1
  <2>3. Stale(listed) = {} /\ driftedFiles \ NoRestart = {}
    BY <2>2 DEF restartRequired
  <2>4. CASE Soft(listed)
    <3>1. files' = Rewritten(inPlace, {}, {}, {})
      BY <1>5, <2>2, <2>4
    <3>2. ASSUME NEW p \in DOMAIN DesiredFiles PROVE files'[p] = DesiredFiles[p]
      <4>1. CASE p \in NoRestart
        BY <1>2, <3>1, <4>1 DEF Rewritten
      <4>2. CASE p \notin NoRestart
        <5>1. files[p] = DesiredFiles[p]
          BY <2>3, <4>2 DEF driftedFiles
        <5> QED
          BY <1>2, <1>10, <4>2, <5>1
      <4> QED
        BY <4>1, <4>2
    <3>3. ASSUME NEW p \in Managed, p \notin DOMAIN DesiredFiles PROVE files'[p] = files[p]
      BY <3>1, <3>3 DEF Rewritten
    <3> QED
      BY <2>2, <3>2, <3>3
  <2>5. CASE ~Soft(listed)
    <3>1. files' = files /\ driftedFiles = {}
      BY <1>5, <2>1, <2>2, <2>5 DEF Soft
    <3> QED
      BY <2>2, <3>1 DEF driftedFiles
  <2> QED
    BY <2>4, <2>5
<1>15. EngineReadsDesired'
  <2> SUFFICES ASSUME status' = "ok", command # "dry", engine = "running", NEW p \in DOMAIN DesiredFiles
               PROVE  files'[p] = DesiredFiles[p] /\ (p \notin NoRestart => loaded[p] = DesiredFiles[p])
    BY <1>3, <1>4, <1>13 DEF EngineReadsDesired, Done
  <2>1. files'[p] = DesiredFiles[p]
    BY <1>14
  <2>2. ASSUME p \notin NoRestart PROVE loaded[p] = DesiredFiles[p]
    <3>1. p \in {"registries", "ca"}
      BY <1>2, <2>2 DEF NoRestart
    <3>2. loaded[p] = files[p] /\ files'[p] = files[p]
      BY <1>2, <1>10, <1>11, <3>1 DEF EngineInv
    <3> QED
      BY <2>1, <3>2
  <2> QED
    BY <2>1, <2>2
<1>16. ASSUME status' = "ok", command = "apply", ~faulty', NEW p \in {"ca", "release", "chart"}
       PROVE  files'[p] # Absent <=> Has(DesiredFiles, p)
  <2>1. CASE p \in DOMAIN DesiredFiles
    BY <1>2, <1>14, <1>16, <2>1, VersionsApart DEF Has
  <2>2. CASE p \notin DOMAIN DesiredFiles
    <3>1. StaleFiles = {}
      BY <1>7, <1>14, <1>16 DEF restartRequired, Stale
    <3>2. files[p] = Absent
      BY <1>11, <1>16, <2>2, <3>1 DEF StaleFiles, prunes, Has
    <3> QED
      BY <1>11, <1>14, <1>16, <2>2, <3>2 DEF Has
  <2> QED
    BY <2>1, <2>2
<1>17. ManagedDirsExact'
  BY <1>3, <1>12, <1>13, <1>16 DEF ManagedDirsExact, Done, EngineInv, Has
<1>18. FirewallMatchesPlan'
  BY <1>1, <1>2, <1>3, <1>7, FirewallOutcome
<1>19. BooleansRestored' /\ PolicyRemoved'
  BY <1>3, <1>4 DEF BooleansRestored, PolicyRemoved, Done
<1>20. Outcome'
  BY <1>15, <1>17, <1>18, <1>19 DEF Outcome
<1> QED
  BY <1>1, <1>3, <1>7, <1>8, <1>9, <1>12, <1>20, EngineStep

-----------------------------------------------------------------------------
(* A reboot, a run that starts and a run that is cut.                      *)

\* A boot reads what is on disk: the engine its files, nftables the ruleset. The rules of ufw
\* are as they were.
LEMMA BootStep ==
    ASSUME PrepTyped, FirewallTyped, EngineTyped, EngineInv, NEW onDisk, Boot(onDisk), UNCHANGED <<kind, cfg>>,
           status' # "run"
    PROVE  /\ PrepTyped' /\ FirewallTyped' /\ EngineTyped' /\ EngineInv'
           /\ UNCHANGED <<ufwState, include>> /\ (Select # "nftables" => rules' = rules)
<1>1. /\ kernel' = sysctl /\ fapolicy' = [fapolicy EXCEPT !.loaded = <<fapolicy.rules, fapolicy.executables>>]
      /\ rules' = BootRules /\ engine' = IF engine = "absent" THEN "absent" ELSE "running"
      /\ loaded' = IF engine = "absent" THEN loaded ELSE files
      /\ UNCHANGED <<env, contSELinux, etcHosts, sysctl, ufwState, include, files, yaml>>
  BY DEF Boot
<1>2. PrepTyped'
  BY <1>1 DEF PrepTyped
<1>3. BootRules \subseteq Rules
  <2>1. files["ruleset"] \in Configs => Conf[files["ruleset"]].rules \subseteq Rules
    BY AskedFiles
  <2> QED
    BY <2>1 DEF BootRules, FirewallTyped
<1>4. FirewallTyped' /\ (Select # "nftables" => rules' = rules)
  BY <1>1, <1>3 DEF FirewallTyped, BootRules
<1>5. EngineTyped' /\ EngineInv'
  BY <1>1 DEF EngineTyped, EngineInv, Running
<1> QED
  BY <1>1, <1>2, <1>4, <1>5

LEMMA RebootStep == ASSUME ConfigInv, Reboot PROVE ConfigInv'
<1>1. /\ status' = "idle" /\ Boot(modfiles)
      /\ UNCHANGED <<kind, selinuxVars, command, cfg, pc, faults, faulty, recordLost, dropped, unrecorded>>
  BY DEF Reboot, HistoryUnchanged
<1>2. /\ PrepTyped' /\ FirewallTyped' /\ EngineTyped' /\ EngineInv'
      /\ UNCHANGED <<ufwState, include>> /\ (Select # "nftables" => rules' = rules)
  BY <1>1, BootStep DEF ConfigInv, Typed
<1>3. RunTyped'
  BY <1>1 DEF ConfigInv, Typed, RunTyped
<1>4. SELinuxTyped' /\ SELinuxInv'
  BY <1>1, SELinuxKept DEF ConfigInv, Typed, selinuxVars
<1>5. Select' = Select
  BY <1>1 DEF Select, Detect, detectFirewalld, detectUFW, detectNftables, Installed
<1>6. FirewallInv'
  BY <1>1, <1>2, <1>5 DEF ConfigInv, FirewallInv
<1>7. Outcome'
  BY <1>1, <1>2, NothingOver
<1> QED
  BY <1>2, <1>3, <1>4, <1>6, <1>7 DEF ConfigInv, Typed

LEMMA EnableStep == ASSUME ConfigInv, enableModules PROVE ConfigInv'
<1>1. /\ RunTyped /\ PrepTyped /\ FirewallTyped /\ FirewallInv /\ EngineTyped /\ EngineInv
      /\ status = "run" /\ pc = "kernel" /\ cfg \in Configs
  BY DEF ConfigInv, Typed, RunTyped, enableModules, Running
<1>2. /\ pc' = "done" /\ status' = "ok"
      /\ UNCHANGED <<kind, command, cfg, selinuxVars, recordLost, dropped, unrecorded>>
  BY DEF enableModules, HistoryUnchanged
<1>3. command = "prepare"
  BY <1>1 DEF RunTyped, Taken
<1> DEFINE missing == Conf[cfg].kernel \ modfiles
<1>4. PICK wrote \in SUBSET missing, reboots \in BOOLEAN :
        /\ IF reboots THEN Boot(modfiles \union wrote)
           ELSE /\ modfiles' = modfiles \union wrote
                /\ UNCHANGED <<env, contSELinux, etcHosts, sysctl, kernel, fapolicy, modloaded,
                               firewallVars, engineVars>>
        /\ Fails(Cardinality(missing \ wrote) + (IF missing # {} /\ ~reboots THEN 1 ELSE 0))
  BY DEF enableModules
<1>5. faults' \in 0..MaxFaults /\ faulty' \in BOOLEAN
  <2>1. IsFiniteSet(missing \ wrote)
    BY <1>1, AskedFiles, FS_Difference
  <2>2. Cardinality(missing \ wrote) \in Nat
    BY <2>1, FS_CardinalityType
  <2> HIDE DEF missing
  <2>3. Cardinality(missing \ wrote) + (IF missing # {} /\ ~reboots THEN 1 ELSE 0) \in Nat
    BY <2>2
  <2> QED
    BY <1>1, <1>4, <2>3, FailsType
<1>6. RunTyped'
  BY <1>1, <1>2, <1>5 DEF RunTyped, Steps
<1>7. /\ PrepTyped' /\ FirewallTyped' /\ EngineTyped' /\ EngineInv'
      /\ UNCHANGED <<ufwState, include>> /\ (Select # "nftables" => rules' = rules)
  <2>1. CASE reboots
    BY <1>1, <1>2, <1>4, <2>1, BootStep
  <2>2. CASE ~reboots
    <3>1. UNCHANGED <<env, contSELinux, etcHosts, sysctl, kernel, fapolicy, firewallVars, engineVars>>
      BY <1>4, <2>2
    <3>2. PrepTyped'
      BY <1>1, <3>1, PrepKept
    <3>3. EngineTyped' /\ EngineInv'
      BY <1>1, <1>2, <3>1, EngineKept DEF engineVars
    <3> QED
      BY <1>1, <3>1, <3>2, <3>3 DEF FirewallTyped, firewallVars
  <2> QED
    BY <2>1, <2>2
<1>8. SELinuxTyped' /\ SELinuxInv'
  BY <1>2, SELinuxKept DEF ConfigInv, Typed, selinuxVars
<1>9. Select' = Select
  BY <1>2 DEF Select, Detect, detectFirewalld, detectUFW, detectNftables, Installed
<1>10. FirewallInv'
  BY <1>1, <1>2, <1>7, <1>9 DEF FirewallInv
<1>11. Outcome'
  BY <1>2, <1>3, <1>7, NothingOver
<1> QED
  BY <1>6, <1>7, <1>8, <1>10, <1>11 DEF ConfigInv, Typed

LEMMA CutStep == ASSUME ConfigInv, Cut PROVE ConfigInv'
<1>1. /\ status' = "cut" /\ Fails(1)
      /\ UNCHANGED <<kind, hostVars, command, cfg, pc, recordLost, dropped, unrecorded>>
  BY DEF Cut, HistoryUnchanged
<1>2. faults' \in 0..MaxFaults /\ faulty' \in BOOLEAN /\ (~faulty' => ~faulty)
  BY <1>1, FailsType DEF ConfigInv, Typed
<1>3. RunTyped'
  BY <1>1, <1>2 DEF ConfigInv, Typed, RunTyped
<1>4. EngineTyped' /\ EngineInv'
  BY <1>1, EngineKept DEF ConfigInv, Typed, hostVars, engineVars
<1>5. SELinuxTyped' /\ SELinuxInv'
  BY <1>1, SELinuxKept DEF ConfigInv, Typed, hostVars, selinuxVars
<1>6. FirewallTyped' /\ FirewallInv'
  BY <1>1, <1>2, FirewallKept DEF ConfigInv, Typed, hostVars, firewallVars
<1>7. PrepTyped'
  BY <1>1, PrepKept DEF ConfigInv, Typed, hostVars, prepVars
<1>8. Outcome'
  BY <1>1, <1>4, NothingOver
<1> QED
  BY <1>3, <1>4, <1>5, <1>6, <1>7, <1>8 DEF ConfigInv, Typed

LEMMA FirstStep ==
    ASSUME NEW c \in {"apply", "dry", "prepare", "sync", "reset"}
    PROVE  /\ Plan(c)[1] \in Taken(c) /\ Plan(c)[1] \in {"hosts", "uninstall", "sync"}
           /\ c = "apply" => Plan(c)[1] = "hosts"
BY DEF Plan, Taken

LEMMA StartRunStep ==
    ASSUME ConfigInv, NEW c \in Commands, NEW v \in Configs, StartRun(c, v)
    PROVE  ConfigInv'
<1>1. /\ command' = c /\ cfg' = v /\ pc' = Plan(c)[1] /\ status' = "run" /\ faulty' = FALSE
      /\ UNCHANGED <<kind, hostVars, faults, recordLost, dropped, unrecorded>>
  BY DEF StartRun, HistoryUnchanged
<1>2. c \in {"apply", "dry", "prepare", "sync", "reset"}
  BY HostConfigAssumption DEF HostConfigAssumption
<1>3. /\ pc' \in Taken(c) /\ pc' \in {"hosts", "uninstall", "sync"}
      /\ c = "apply" => pc' = "hosts"
  BY <1>1, <1>2, FirstStep
<1>4. RunTyped'
  BY <1>1, <1>2, <1>3 DEF ConfigInv, Typed, RunTyped, Steps
<1>5. EngineTyped' /\ EngineInv'
  BY <1>1, <1>3 DEF ConfigInv, Typed, hostVars, engineVars, EngineTyped, EngineInv, Running
<1>6. SELinuxTyped' /\ SELinuxInv'
  BY <1>1, <1>3, SELinuxKept DEF ConfigInv, Typed, hostVars, selinuxVars
<1>7. FirewallTyped'
  BY <1>1 DEF ConfigInv, Typed, FirewallTyped, hostVars, firewallVars
<1>8. Select' = Select
  BY <1>1 DEF Select, Detect, detectFirewalld, detectUFW, detectNftables, Installed
<1>9. FirewallInv'
  BY <1>1, <1>3, <1>8 DEF ConfigInv, FirewallInv, hostVars, firewallVars
<1>10. PrepTyped'
  BY <1>1, PrepKept DEF ConfigInv, Typed, hostVars, prepVars
<1>11. Outcome'
  BY <1>1, <1>5, NothingOver
<1> QED
  BY <1>4, <1>5, <1>6, <1>7, <1>9, <1>10, <1>11 DEF ConfigInv, Typed

-----------------------------------------------------------------------------
(* The theorems.                                                           *)

LEMMA ConfigInvInit == Init => ConfigInv
<1> SUFFICES ASSUME Init PROVE ConfigInv
  OBVIOUS
<1>1. PrepTyped
  BY DEF Init, PrepTyped, Contents, Absent
<1>2. SELinuxTyped
  <2>1. sebool \in [Booleans -> BOOLEAN]
    BY HostConfigAssumption DEF Init, HostConfigAssumption
  <2> QED
    BY <2>1 DEF Init, SELinuxTyped, RecordTyped, NoRecord, Absent
<1>3. FirewallTyped
  BY DEF Init, FirewallTyped
<1>4. EngineTyped
  BY DEF Init, EngineTyped, Contents
<1>5. RunTyped
  <2>1. MaxFaults \in Nat
    BY HostConfigAssumption DEF HostConfigAssumption
  <2>2. faults = 0 /\ 0 \in 0..MaxFaults
    BY <2>1 DEF Init
  <2> QED
    BY <2>2 DEF Init, RunTyped, Steps
<1>6. EngineInv
  BY DEF Init, EngineInv, Running
<1>7. SELinuxInv
  BY DEF Init, SELinuxInv, NoRecord, BooleansKept, RecordedOriginal, PolicyKept, Running
<1>8. FirewallInv
  BY DEF Init, FirewallInv
<1>9. Outcome
  BY DEF Init, Outcome, EngineReadsDesired, ManagedDirsExact, BooleansRestored, PolicyRemoved,
         FirewallMatchesPlan, Done
<1> QED
  BY <1>1, <1>2, <1>3, <1>4, <1>5, <1>6, <1>7, <1>8, <1>9 DEF ConfigInv, Typed

LEMMA ConfigInvNext == ConfigInv /\ [Next]_vars => ConfigInv'
<1> SUFFICES ASSUME ConfigInv, [Next]_vars PROVE ConfigInv'
  OBVIOUS
<1>1. CASE UNCHANGED vars
  <2>1. RunTyped' /\ PrepTyped'
    BY <1>1 DEF vars, hostVars, prepVars, ConfigInv, Typed, RunTyped, PrepTyped
  <2>2. EngineTyped' /\ EngineInv'
    BY <1>1 DEF vars, hostVars, engineVars, ConfigInv, Typed, EngineTyped, EngineInv, Running, FilesDesired, DesiredFiles
  <2>3. SELinuxTyped'
    BY <1>1 DEF vars, hostVars, selinuxVars, ConfigInv, Typed, SELinuxTyped, RecordTyped
  <2>4. SELinuxInv'
    BY <1>1 DEF vars, hostVars, selinuxVars, ConfigInv, SELinuxInv, Running, BooleansKept, RecordedOriginal,
                PolicyKept, RecordFits, Policy, SELinux, Priority, Source
  <2>5. Select' = Select /\ plan' = plan
    BY <1>1 DEF vars, Select, Detect, detectFirewalld, detectUFW, detectNftables, Installed, plan
  <2>6. FirewallTyped' /\ FirewallInv'
    BY <1>1, <2>5 DEF vars, hostVars, firewallVars, ConfigInv, Typed, FirewallTyped, FirewallInv, Enforced
  <2>7. EngineReadsDesired' /\ ManagedDirsExact' /\ BooleansRestored' /\ PolicyRemoved'
    BY <1>1 DEF vars, hostVars, engineVars, selinuxVars, ConfigInv, Outcome, EngineReadsDesired, ManagedDirsExact,
                BooleansRestored, PolicyRemoved, Done, DesiredFiles
  <2>8. FirewallMatchesPlan'
    BY <1>1, <2>5 DEF vars, hostVars, firewallVars, ConfigInv, Outcome, FirewallMatchesPlan, Done
  <2> QED
    BY <2>1, <2>2, <2>3, <2>4, <2>6, <2>7, <2>8 DEF ConfigInv, Typed, Outcome
<1>2. ASSUME NEW c \in Commands, NEW v \in Configs, StartRun(c, v) PROVE ConfigInv'
  BY <1>2, StartRunStep
<1>3. CASE Reboot
  BY <1>3, RebootStep
<1>4. CASE Cut
  BY <1>4, CutStep
<1>5. CASE prepareHost
  BY <1>5, HostsStep
<1>6. CASE installContainerSELinux
  BY <1>6, ContainerStep
<1>7. CASE prepareFapolicyd
  BY <1>7, FapolicydStep
<1>8. CASE enableModules
  BY <1>8, EnableStep
<1>9. CASE configureHostsFile
  BY <1>9, HostsFileStep
<1>10. CASE recordState
  BY <1>10, RecordStep
<1>11. CASE applyModules
  BY <1>11, ModulesStep
<1>12. CASE applyBooleans
  BY <1>12, BooleansStep
<1>13. CASE applyFileContexts
  BY <1>13, ContextsStep
<1>14. CASE removeHost
  BY <1>14, RemoveStep
<1>15. CASE configureFirewall
  BY <1>15, FirewallStep
<1>16. CASE ConfigureEngine
  BY <1>16, ConfigureStep
<1>17. CASE Start
  BY <1>17, StartStep
<1>18. CASE needsUpdate
  BY <1>18, SyncStep
<1>19. CASE drainAndStop
  BY <1>19, HaltStep
<1>20. CASE writeFiles
  BY <1>20, WriteStep
<1>21. CASE Restart
  BY <1>21, RestartStep
<1>22. CASE uninstallNode
  BY <1>22, UninstallStep
<1> QED
  BY <1>1, <1>2, <1>3, <1>4, <1>5, <1>6, <1>7, <1>8, <1>9, <1>10, <1>11, <1>12, <1>13, <1>14, <1>15, <1>16,
     <1>17, <1>18, <1>19, <1>20, <1>21, <1>22 DEF Next

\* However the runs, the reboots and the faults follow one another: after a run that succeeds a
\* running engine has the files of its configuration and has read those it reads only when it starts;
\* the pruned directories and the firewall hold the plan exactly; and a reset returns SELinux to
\* what it was before the first run.
THEOREM HostStaysAsConfigured == Spec => []HostAsConfigured
<1>1. Spec => []ConfigInv
  BY ConfigInvInit, ConfigInvNext, PTL DEF Spec
<1>2. ConfigInv => HostAsConfigured
  <2> SUFFICES ASSUME ConfigInv PROVE HostAsConfigured
    OBVIOUS
  <2>1. record.kind \in {"none", "torn", "written"}
    BY DEF ConfigInv, Typed, SELinuxTyped, RecordTyped
  <2>2. TypeOK
    BY <2>1 DEF ConfigInv, Typed, PrepTyped, SELinuxTyped, FirewallTyped, EngineTyped, RunTyped, TypeOK
  <2> QED
    BY <2>2 DEF ConfigInv, Outcome, HostAsConfigured
<1> QED
  BY <1>1, <1>2, PTL

\* A step of a dry run is the check of `sync`, which writes nothing then, or the end of it.
LEMMA DryStep ==
    ASSUME ConfigInv, [Next]_vars, command = "dry", status = "run"
    PROVE  UNCHANGED hostVars
<1>1. pc = "sync"
  BY DEF ConfigInv, Typed, RunTyped, Taken
<1>2. CASE UNCHANGED vars
  BY <1>2 DEF vars
<1>3. CASE needsUpdate
  <2>1. files' = files
    BY <1>3 DEF needsUpdate, mayWrite
  <2> QED
    BY <1>3, <2>1 DEF needsUpdate, hostVars, engineVars
<1>4. CASE Cut
  BY <1>4 DEF Cut
<1>5. ~Reboot /\ ~(\E c \in Commands, v \in Configs : StartRun(c, v))
  BY DEF Reboot, StartRun
<1>6. /\ ~prepareHost /\ ~installContainerSELinux /\ ~prepareFapolicyd /\ ~enableModules /\ ~configureHostsFile
      /\ ~recordState /\ ~applyModules /\ ~applyBooleans /\ ~applyFileContexts /\ ~removeHost
      /\ ~configureFirewall /\ ~ConfigureEngine /\ ~Start /\ ~drainAndStop /\ ~writeFiles /\ ~Restart
      /\ ~uninstallNode
  BY <1>1 DEF Running, prepareHost, installContainerSELinux, prepareFapolicyd, enableModules, configureHostsFile,
     recordState, applyModules, applyBooleans, applyFileContexts, removeHost, configureFirewall, ConfigureEngine,
     Start, drainAndStop, writeFiles, Restart, startService, uninstallNode
<1> QED
  BY <1>2, <1>3, <1>4, <1>5, <1>6 DEF Next

\* A dry run of `engine-config sync` changes nothing on the host, in any state an earlier run, a
\* reboot or a fault can have left it in.
THEOREM DryRunsWriteNothing == Spec => DryRunWritesNothing
<1>1. Spec => []ConfigInv
  BY ConfigInvInit, ConfigInvNext, PTL DEF Spec
<1>2. ConfigInv /\ [Next]_vars => [command = "dry" /\ status = "run" => UNCHANGED hostVars]_vars
  BY DryStep
<1> QED
  BY <1>1, <1>2, PTL DEF Spec, DryRunWritesNothing
=============================================================================
