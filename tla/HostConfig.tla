------------------------------ MODULE HostConfig ------------------------------
(***************************************************************************)
(* The configuration cargoship keeps on one host over several runs of      *)
(* `apply`, `prepare`, `engine-config sync` and `reset`: sysctl settings,  *)
(* fapolicyd rules, kernel modules, the SELinux policy and the record of   *)
(* it, the firewall and the files the engine reads.                        *)
(*                                                                         *)
(* A file is written in place: a write that fails leaves the old contents  *)
(* or a file cut short.  Every command may fail and a run may be cut       *)
(* between any two of its steps; the host may be rebooted between runs.    *)
(***************************************************************************)
EXTENDS Integers, Sequences, FiniteSets, Functions

CONSTANTS
    Kinds,      \* the hosts: [preferred, running, installed, ruleset, selinux, fapolicyd]
    Configs,    \* versions of the package and the configuration, numbered from 1
    Conf,       \* [Configs -> record]: what each asks of the host (see HostConfigAssumption)
    Modules,    \* names of SELinux modules
    Booleans,   \* names of SELinux booleans
    Original,   \* [Booleans -> BOOLEAN]: what the host had them at
    Contexts,   \* paths with a file context
    Names,      \* environment variables and host names
    Commands,   \* the commands that are run
    MaxRuns,    \* bound on the number of runs and reboots
    MaxFaults   \* bound on the commands that fail and the runs that are cut

Backends == <<"firewalld", "ufw", "nftables">>
BackendNames == {"firewalld", "ufw", "nftables"}

\* The files cargoship writes for the engine, the two that share a directory with them:
\* the nftables ruleset and a chart of the engine's own.
Managed == {"registries", "ca", "chart", "release", "ruleset", "addon"}
NoRestart == {"chart", "release"}

\* A module's priority and source; a firewall rule and the comment stamped on it.
Policies == (Nat \ {0}) \X Nat
Rules == STRING \X STRING

Absent == 0
Torn == -1
Contents == Configs \union {Absent, Torn}

ASSUME HostConfigAssumption ==
    /\ Configs \subseteq Nat \ {0}
    /\ DOMAIN Conf = Configs
    /\ \A c \in Configs :
        /\ DOMAIN Conf[c].modules \subseteq Modules
        /\ DOMAIN Conf[c].booleans \subseteq Booleans
        /\ DOMAIN Conf[c].contexts \subseteq Contexts
        /\ DOMAIN Conf[c].files \subseteq {"registries", "ca", "chart", "release"}
        /\ Range(Conf[c].files) \subseteq Configs
        /\ Range(Conf[c].env) \union Range(Conf[c].hostEnv) \union Range(Conf[c].contexts) \subseteq Nat
        /\ Range(Conf[c].modules) \subseteq Int \X Nat
        /\ Range(Conf[c].booleans) \subseteq BOOLEAN
        /\ Conf[c].nodes \in Seq(Nat \X Names)
        /\ Conf[c].rules \subseteq Rules /\ IsFiniteSet(Conf[c].kernel)
        /\ {Conf[c].sysctl, Conf[c].fapolicyd, Conf[c].executables} \subseteq BOOLEAN
    /\ \A k \in Kinds : {k.selinux, k.fapolicyd, k.ruleset} \subseteq BOOLEAN
    /\ IsFiniteSet(Modules) /\ IsFiniteSet(Contexts)
    /\ Original \in [Booleans -> BOOLEAN]
    /\ Commands \subseteq {"apply", "dry", "prepare", "sync", "reset"}
    /\ MaxRuns \in Nat /\ MaxFaults \in Nat

NoRecord == [kind |-> "none"]
TornRecord == [kind |-> "torn"]

VARIABLES
    \* The host.
    kind,       \* which of Kinds it is
    env,        \* [Names -> value in /etc/environment, Absent if there is none]
    contSELinux, \* is container-selinux installed?
    etcHosts,   \* [Names -> address in /etc/hosts, Absent if there is none]
    sysctl,     \* 99-cargoship.conf
    kernel,     \* the settings in effect
    fapolicy,   \* [rules, executables, loaded]: the two rule files and what fapolicyd read
    modfiles,   \* the files in modules-load.d
    modloaded,  \* the kernel modules loaded
    policy,     \* [Modules -> SUBSET Policies]: the installed SELinux modules
    cil,        \* [Modules -> source on the host, Absent or Torn]
    sebool,     \* [Booleans -> BOOLEAN]
    fcontext,   \* [Contexts -> type, Absent if there is no mapping]
    record,     \* cargoship-state.json
    rules,      \* cargoship's rules that the firewall enforces
    ufwState,   \* ufw.rules: the rules applied by the last run
    include,    \* does the boot-time nftables file include the ruleset?
    files,      \* [Managed -> Contents]
    yaml,       \* the engine's config.yaml
    engine,     \* "absent", "stopped" or "running"
    loaded,     \* [Managed -> Contents]: what the engine read when it started
    \* The process.
    command, cfg, pc, status,
    \* History.
    runs, faults,
    faulty,     \* has a command of this run failed?
    recordLost, \* was a record cut short, or deleted while some of it was left?
    dropped,    \* did a package ever drop or renumber a module or a context?
    unrecorded  \* did ufw ever fail before its rules were recorded?

prepVars == <<env, contSELinux, etcHosts, sysctl, kernel, fapolicy, modfiles, modloaded>>
selinuxVars == <<policy, cil, sebool, fcontext, record>>
firewallVars == <<rules, ufwState, include>>
engineVars == <<files, yaml, engine, loaded>>
hostVars == <<prepVars, selinuxVars, firewallVars, engineVars>>
vars == <<kind, hostVars, command, cfg, pc, status, runs, faults, faulty, recordLost, dropped,
          unrecorded>>

Plan(c) ==
    CASE c = "apply" -> <<"hosts", "selinux", "fapolicyd", "record", "modules", "booleans", "contexts",
                          "etchosts", "firewall", "configure", "start", "sync", "done">>
      [] c = "prepare" -> <<"hosts", "selinux", "fapolicyd", "record", "modules", "booleans", "contexts",
                            "kernel", "done">>
      [] c = "reset" -> <<"uninstall", "unlabel", "done">>
      [] OTHER -> <<"sync", "done">>

Steps == {"hosts", "selinux", "etchosts", "fapolicyd", "record", "modules", "booleans", "contexts", "firewall",
          "configure", "start", "sync", "halt", "write", "restart", "kernel", "uninstall",
          "unlabel", "done"}

TypeOK ==
    /\ kind \in Kinds
    /\ env \in [Names -> Nat] /\ etcHosts \in [Names -> Nat] /\ contSELinux \in BOOLEAN
    /\ {sysctl, kernel, yaml} \subseteq Contents
    /\ fapolicy \in [rules : Contents, executables : Contents, loaded : Contents \X Contents]
    /\ policy \in [Modules -> SUBSET Policies]
    /\ cil \in [Modules -> Nat \union {Torn}]
    /\ sebool \in [Booleans -> BOOLEAN] /\ fcontext \in [Contexts -> Nat]
    /\ record.kind \in {"none", "torn", "written"}
    /\ rules \subseteq Rules /\ ufwState \subseteq Rules /\ include \in BOOLEAN
    /\ files \in [Managed -> Contents] /\ loaded \in [Managed -> Contents]
    /\ engine \in {"absent", "stopped", "running"}
    /\ pc \in Steps /\ status \in {"idle", "run", "ok", "err", "cut"}
    /\ faults \in 0..MaxFaults

-----------------------------------------------------------------------------
(* Steps of a run.                                                         *)

Running(step) == status = "run" /\ pc = step

After(step) ==
    LET plan == Plan(command)
    IN plan[1 + CHOOSE k \in DOMAIN plan : plan[k] = step]

HistoryUnchanged == UNCHANGED <<recordLost, dropped, unrecorded>>

\* n commands of the step fail.
Fails(n) == faults' = faults + n /\ faults' <= MaxFaults /\ faulty' = (faulty \/ n > 0)

\* The step is over; with an error the phase fails and the run ends.
Ends(ok, next) ==
    /\ Fails(IF ok THEN 0 ELSE 1)
    /\ pc' = IF ok THEN next ELSE pc
    /\ status' = IF ~ok THEN "err" ELSE IF next = "done" THEN "ok" ELSE "run"
    /\ UNCHANGED <<kind, command, cfg, runs>>

\* What a file may hold after it is written.
Written(old, new, ok) == IF ok THEN {new} ELSE {old, Torn}

Has(f, x) == x \in DOMAIN f

-----------------------------------------------------------------------------
(* Preparation: sysctl, fapolicyd and kernel modules.                      *)

\* The host's variables, then the package's over them; a value stays when it is dropped.
\* The session is reopened after each, and a host that cannot be reached again fails the phase.
updateEnvironment(ofPackage) ==
    env' = [n \in Names |->
        IF ofPackage /\ Has(Conf[cfg].env, n) THEN Conf[cfg].env[n]
        ELSE IF Has(Conf[cfg].hostEnv, n) THEN Conf[cfg].hostEnv[n] ELSE env[n]]

\* A package without settings leaves the sysctl file of an earlier one.
prepareHost ==
    /\ Running("hosts")
    /\ \E hostEnv, packageEnv, wrote, applied \in BOOLEAN :
        LET set == Conf[cfg].sysctl IN
        /\ packageEnv => hostEnv
        /\ wrote => packageEnv
        /\ applied => wrote
        /\ IF hostEnv THEN updateEnvironment(packageEnv) ELSE UNCHANGED env
        /\ sysctl' \in IF set /\ packageEnv THEN Written(sysctl, cfg, wrote) ELSE {sysctl}
        /\ kernel' = IF set /\ applied THEN cfg ELSE kernel
        /\ packageEnv /\ ~set => applied
        /\ Ends(applied, After("hosts"))
    /\ HistoryUnchanged
    /\ UNCHANGED <<contSELinux, etcHosts, fapolicy, modfiles, modloaded, selinuxVars, firewallVars,
                   engineVars>>

installContainerSELinux ==
    /\ Running("selinux")
    /\ \E ok \in BOOLEAN :
        /\ ~kind.selinux => ok
        /\ contSELinux' = (contSELinux \/ (kind.selinux /\ ok))
        /\ Ends(ok, After("selinux"))
    /\ HistoryUnchanged
    /\ UNCHANGED <<env, etcHosts, sysctl, kernel, fapolicy, modfiles, modloaded, selinuxVars,
                   firewallVars, engineVars>>

\* The nodes are keyed by address, so that of two with one address the last stands; a node
\* that left keeps its line.
configureHostsFile ==
    /\ Running("etchosts")
    /\ \E ok \in BOOLEAN :
        LET nodes == Conf[cfg].nodes
            last == {i \in DOMAIN nodes : \A j \in DOMAIN nodes : nodes[j][1] = nodes[i][1] => j <= i}
            Lines(n) == {nodes[i][1] : i \in {k \in last : nodes[k][2] = n}}
            taken == {nodes[i][1] : i \in last}
        IN
        /\ etcHosts' = [n \in Names |-> IF ~ok THEN etcHosts[n]
                                        ELSE IF Lines(n) # {} THEN CHOOSE a \in Lines(n) : TRUE
                                        ELSE IF etcHosts[n] \in taken THEN Absent ELSE etcHosts[n]]
        /\ Ends(ok, After("etchosts"))
    /\ HistoryUnchanged
    /\ UNCHANGED <<env, contSELinux, sysctl, kernel, fapolicy, modfiles, modloaded, selinuxVars,
                   firewallVars, engineVars>>

\* Two files, and a restart when either was written.  The rules of a package that has
\* none any more are left as they are.
prepareFapolicyd ==
    /\ Running("fapolicyd")
    /\ \E ok \in BOOLEAN, r, x \in {"kept", "torn", "new"} :
        LET hasRules == kind.fapolicyd /\ Conf[cfg].fapolicyd
            hasExec == kind.fapolicyd /\ Conf[cfg].executables
            After_(w, old) == [kept |-> old, torn |-> Torn, new |-> cfg][w]
            now == <<After_(r, fapolicy.rules), After_(x, fapolicy.executables)>>
        IN
        /\ r # "new" => (~hasRules /\ r = "kept") \/ ~ok
        /\ x # "new" => (~hasExec /\ x = "kept") \/ ~ok
        /\ r # "kept" => hasRules
        /\ x # "kept" => hasExec /\ (hasRules => r = "new")
        /\ ~ok => hasRules \/ hasExec
        /\ fapolicy' = [rules |-> now[1], executables |-> now[2],
                        loaded |-> IF ok /\ (hasRules \/ hasExec) THEN now ELSE fapolicy.loaded]
        /\ Ends(ok, After("fapolicyd"))
    /\ HistoryUnchanged
    /\ UNCHANGED <<env, contSELinux, etcHosts, sysctl, kernel, modfiles, modloaded, selinuxVars,
                   firewallVars, engineVars>>

-----------------------------------------------------------------------------
(* The firewall that a host has, and what a boot does.                     *)

\* What each backend looks for: a running service, an active front end, a ruleset that the
\* host loads at boot.  The ruleset of kube-proxy and the CNI does not count.
Installed(b) == b \in kind.installed
detectFirewalld == "firewalld" \in kind.running
detectUFW == Installed("ufw") /\ "ufw" \in kind.running
detectNftables == Installed("nftables") /\ ("nftables" \in kind.running \/ kind.ruleset)
Detect(b) ==
    \/ b = "firewalld" /\ detectFirewalld
    \/ b = "ufw" /\ detectUFW
    \/ b = "nftables" /\ detectNftables

\* The front end of the OS first: used when it runs, left alone when it is only installed.
Select ==
    LET detected == {k \in DOMAIN Backends : Detect(Backends[k])} IN
    IF Detect(kind.preferred) THEN kind.preferred
    ELSE IF Installed(kind.preferred) \/ detected = {} THEN "none"
    ELSE Backends[CHOOSE k \in detected : \A j \in detected : k <= j]

\* The nftables service loads the ruleset through the include, when the file is there.
BootRules ==
    IF Select # "nftables" THEN rules
    ELSE IF include /\ files["ruleset"] \in Configs THEN Conf[files["ruleset"]].rules
    ELSE {}

\* The settings, the kernel modules and the engine's files are read again.
Boot(onDisk) ==
    /\ kernel' = sysctl
    /\ fapolicy' = [fapolicy EXCEPT !.loaded = <<fapolicy.rules, fapolicy.executables>>]
    /\ modfiles' = onDisk /\ modloaded' = onDisk
    /\ rules' = BootRules
    /\ engine' = IF engine = "absent" THEN "absent" ELSE "running"
    /\ loaded' = IF engine = "absent" THEN loaded ELSE files
    /\ UNCHANGED <<env, contSELinux, etcHosts, sysctl, ufwState, include, files, yaml>>

\* Only the files that are missing are written; a write that fails is logged, and the host
\* is rebooted as if it had been made.  A reboot that fails is logged too.
enableModules ==
    /\ Running("kernel")
    /\ \E wrote \in SUBSET (Conf[cfg].kernel \ modfiles), reboots \in BOOLEAN :
        LET missing == Conf[cfg].kernel \ modfiles
            added == missing # {}
        IN
        /\ ~added => ~reboots
        /\ IF reboots THEN Boot(modfiles \union wrote)
           ELSE /\ modfiles' = modfiles \union wrote
                /\ UNCHANGED <<env, contSELinux, etcHosts, sysctl, kernel, fapolicy, modloaded,
                               firewallVars, engineVars>>
        /\ Fails(Cardinality(missing \ wrote) + (IF added /\ ~reboots THEN 1 ELSE 0))
    /\ pc' = "done" /\ status' = "ok"
    /\ HistoryUnchanged
    /\ UNCHANGED <<kind, command, cfg, runs, selinuxVars>>

-----------------------------------------------------------------------------
(* The SELinux policy.  A host takes one when SELinux is enforcing and      *)
(* semodule is there, and a package that supplies none is skipped.          *)

SELinux == Conf[cfg]
HasPolicy == kind.selinux /\ (DOMAIN SELinux.modules \union DOMAIN SELinux.booleans
                              \union DOMAIN SELinux.contexts) # {}

\* A module that sets none is installed above the distribution's own policy.
Priority(m) == IF SELinux.modules[m][1] <= 0 THEN 400 ELSE SELinux.modules[m][1]

Source(m) == SELinux.modules[m][2]
Policy == [m \in DOMAIN SELinux.modules |-> <<Priority(m), Source(m)>>]

\* Mutant of priorBooleans: the values are taken afresh on every run.
priorFresh(names) == [b \in names |-> sebool[b]]

\* The first value recorded stands; a record that cannot be decoded starts empty.
priorBooleans(names) ==
    LET known == IF record.kind = "written" THEN record.booleans ELSE <<>>
    IN [b \in names \union DOMAIN known |-> IF Has(known, b) THEN known[b] ELSE sebool[b]]

\* The lists of modules and contexts are this package's.
recorded ==
    [kind |-> "written", booleans |-> priorBooleans(DOMAIN SELinux.booleans),
     modules |-> Policy, contexts |-> SELinux.contexts]

Drops ==
    record.kind = "written" /\
    (\/ \E m \in DOMAIN record.modules :
            ~Has(SELinux.modules, m) \/ Priority(m) # record.modules[m][1]
     \/ \E p \in DOMAIN record.contexts : ~Has(SELinux.contexts, p))

recordState ==
    /\ Running("record")
    /\ IF ~HasPolicy
       THEN /\ Ends(TRUE, After("contexts"))
            /\ UNCHANGED <<record, recordLost, dropped>>
       ELSE \E ok \in BOOLEAN :
            /\ record' \in IF ok THEN {recorded} ELSE {record, TornRecord}
            /\ recordLost' = (recordLost \/ record' = TornRecord)
            /\ dropped' = (dropped \/ (ok /\ Drops))
            /\ Ends(ok, "modules")
    /\ UNCHANGED <<unrecorded, prepVars, policy, cil, sebool, fcontext, firewallVars, engineVars>>

\* A module is left alone when its source is the same and a module of its name is
\* installed, at whatever priority.
Needs(m) == cil[m] # Source(m) \/ policy[m] = {}

\* The modules in `done` were installed; the one that failed has its source written or not.
applyModules ==
    /\ Running("modules")
    /\ LET needed == {m \in DOMAIN SELinux.modules : Needs(m)} IN
       \E done \in SUBSET needed, wrote \in SUBSET needed, torn \in SUBSET needed :
        /\ done \subseteq wrote /\ torn \intersect wrote = {}
        /\ Cardinality((wrote \ done) \union torn) <= 1
        /\ policy' = [m \in Modules |->
               IF m \in done
               THEN {q \in policy[m] : q[1] # Priority(m)} \union {Policy[m]}
               ELSE policy[m]]
        /\ cil' = [m \in Modules |-> IF m \in wrote THEN Source(m)
                                     ELSE IF m \in torn THEN Torn ELSE cil[m]]
        /\ Ends(done = needed, "booleans")
    /\ HistoryUnchanged
    /\ UNCHANGED <<prepVars, sebool, fcontext, record, firewallVars, engineVars>>

applyBooleans ==
    /\ Running("booleans")
    /\ \E ok \in BOOLEAN :
        /\ sebool' = [b \in Booleans |-> IF ok /\ Has(SELinux.booleans, b)
                                         THEN SELinux.booleans[b] ELSE sebool[b]]
        /\ DOMAIN SELinux.booleans = {} => ok
        /\ Ends(ok, "contexts")
    /\ HistoryUnchanged
    /\ UNCHANGED <<prepVars, policy, cil, fcontext, record, firewallVars, engineVars>>

\* A mapping that exists is modified; a failure leaves the ones before it.
applyFileContexts ==
    /\ Running("contexts")
    /\ \E done \in SUBSET DOMAIN SELinux.contexts :
        /\ fcontext' = [p \in Contexts |-> IF p \in done THEN SELinux.contexts[p] ELSE fcontext[p]]
        /\ Ends(done = DOMAIN SELinux.contexts, After("contexts"))
    /\ HistoryUnchanged
    /\ UNCHANGED <<prepVars, policy, cil, sebool, record, firewallVars, engineVars>>

\* Contexts, booleans and modules, at the priority that was recorded; what cannot be
\* removed is logged, and the record is deleted all the same.
removeHost ==
    /\ Running("unlabel")
    /\ IF ~kind.selinux \/ record.kind # "written"
       THEN Ends(TRUE, "done") /\ UNCHANGED <<selinuxVars, recordLost>>
       ELSE \E ctx \in SUBSET DOMAIN record.contexts, mods \in SUBSET DOMAIN record.modules,
               bools, deleted \in BOOLEAN :
            /\ fcontext' = [p \in Contexts |-> IF p \in ctx THEN Absent ELSE fcontext[p]]
            /\ sebool' = [b \in Booleans |-> IF bools /\ Has(record.booleans, b)
                                             THEN record.booleans[b] ELSE sebool[b]]
            /\ policy' = [m \in Modules |-> IF m \in mods
                            THEN {q \in policy[m] : q[1] # record.modules[m][1]} ELSE policy[m]]
            /\ cil' = [m \in Modules |-> IF Has(record.modules, m) THEN Absent ELSE cil[m]]
            /\ record' = IF deleted THEN NoRecord ELSE record
            /\ recordLost' = (recordLost \/ (deleted /\ ~(bools /\ ctx = DOMAIN record.contexts
                                                        /\ mods = DOMAIN record.modules)))
            /\ Fails(Cardinality(DOMAIN record.contexts \ ctx) + Cardinality(DOMAIN record.modules \ mods)
                     + (IF bools THEN 0 ELSE 1) + (IF deleted THEN 0 ELSE 1))
            /\ pc' = "done" /\ status' = "ok" /\ UNCHANGED <<kind, command, cfg, runs>>
    /\ UNCHANGED <<dropped, unrecorded, prepVars, firewallVars, engineVars>>

-----------------------------------------------------------------------------
(* The firewall.  The phase is repeated for 30 seconds while it fails.      *)

plan == Conf[cfg].rules

EndsOrRetries(ok) ==
    \/ Ends(ok, "configure")
    \/ ~ok /\ Fails(1) /\ UNCHANGED <<pc, status, kind, command, cfg, runs>>

\* The sets of addresses and of ports are rewritten when the plan has any; a rule of an
\* earlier plan stays.
Firewalld(done, ok) ==
    /\ done \subseteq plan /\ (ok => done = plan)
    /\ rules' = done \union {r \in rules : ~\E q \in done : q[2] = r[2] /\ r[2] \in {"cluster", "ports"}}
    /\ EndsOrRetries(ok)
    /\ UNCHANGED <<ufwState, include, files, unrecorded>>

\* ufw does not match on the comment: a delete takes the rule whatever its comment is,
\* and a rule that is there gets the new comment.
SameMatch(r, S) == \E q \in S : q[1] = r[1]

\* Mutant of Reconciled: the rules are applied before the dropped ones are deleted.
ReconciledApplyFirst(gone, done) ==
    {r \in rules \union done : ~SameMatch(r, gone)}

Reconciled(gone, done) ==
    {r \in rules : ~SameMatch(r, gone) /\ ~SameMatch(r, done)} \union done

\* Rules that a failed run added are in no record.
UFW(gone, done, wrote, ok) ==
    LET stale == ufwState \ plan IN
    /\ gone \subseteq stale /\ done \subseteq plan
    /\ wrote => done = plan
    /\ ok => wrote
    /\ rules' = Reconciled(gone, done)
    /\ ufwState' \in IF wrote THEN {plan} ELSE IF done = plan THEN {ufwState, {}} ELSE {ufwState}
    /\ unrecorded' = (unrecorded \/ gone # stale \/ ~wrote)
    /\ \/ gone = stale /\ EndsOrRetries(ok)
       \/ gone # stale /\ ok /\ Fails(1) /\ pc' = "configure" /\ UNCHANGED <<status, kind, command, cfg, runs>>
    /\ UNCHANGED <<include, files>>

\* One table, replaced as a whole once the ruleset is written and has been checked; the
\* include is appended once.
Nftables(wrote, loads, persists) ==
    /\ loads => wrote
    /\ persists => loads
    /\ \E f \in Written(files["ruleset"], cfg, wrote) : files' = [files EXCEPT !["ruleset"] = f]
    /\ rules' = IF loads THEN plan ELSE rules
    /\ include' = (include \/ persists)
    /\ EndsOrRetries(persists)
    /\ UNCHANGED <<ufwState, unrecorded>>

configureFirewall ==
    /\ Running("firewall")
    /\ \/ Select = "none" /\ Ends(TRUE, "configure") /\ UNCHANGED <<firewallVars, files, unrecorded>>
       \/ Select = "firewalld" /\ \E done \in SUBSET plan, ok \in BOOLEAN : Firewalld(done, ok)
       \/ Select = "ufw" /\ \E gone \in SUBSET ufwState, done \in SUBSET plan, wrote, ok \in BOOLEAN :
                                UFW(gone, done, wrote, ok)
       \/ Select = "nftables" /\ \E wrote, loads, persists \in BOOLEAN :
                                Nftables(wrote, loads, persists)
    /\ UNCHANGED <<recordLost, dropped, prepVars, selinuxVars, yaml, engine, loaded>>

-----------------------------------------------------------------------------
(* The engine's files.                                                     *)

DesiredFiles == Conf[cfg].files

\* The CA and state directories are pruned whole, the manifests by the charts' suffix;
\* registries.yaml is in none of them.
prunes(p) == p \in {"ca", "release", "ruleset", "chart"}

StaleFiles == {p \in Managed : files[p] # Absent /\ prunes(p) /\ ~Has(DesiredFiles, p)}

\* The files after those in bad were cut short, those in skip not written and those in gone
\* removed.
Rewritten(paths, bad, skip, gone) ==
    [p \in Managed |->
        IF p \in gone THEN Absent
        ELSE IF p \in bad THEN Torn
        ELSE IF p \in paths \ skip THEN DesiredFiles[p] ELSE files[p]]

\* Under a running engine only config.yaml is written; failed writes of the other files
\* are logged.
ConfigureEngine ==
    /\ Running("configure")
    /\ \E ok, listed \in BOOLEAN, bad, skip \in SUBSET DOMAIN DesiredFiles :
        LET gone == IF listed THEN StaleFiles ELSE {} IN
        /\ bad \intersect skip = {}
        /\ IF engine = "running"
           THEN /\ UNCHANGED files /\ listed /\ bad = {} /\ skip = {}
                /\ Fails(IF ok THEN 0 ELSE 1)
           ELSE /\ files' = Rewritten(DOMAIN DesiredFiles, bad, skip, gone)
                /\ Fails((IF ok THEN 0 ELSE 1) + (IF listed THEN 0 ELSE 1)
                         + Cardinality(bad \union skip))
        /\ yaml' \in Written(yaml, cfg, ok)
        /\ pc' = IF ok THEN "start" ELSE pc
        /\ status' = IF ok THEN "run" ELSE "err"
    /\ HistoryUnchanged
    /\ UNCHANGED <<kind, command, cfg, runs, engine, loaded, prepVars, selinuxVars, firewallVars>>

\* The service reads its files and, on its first start, lays out its own charts.
Started ==
    /\ engine' = "running"
    /\ files' = [files EXCEPT !["addon"] = IF @ = Absent THEN cfg ELSE @]
    /\ loaded' = files'

\* The phases that initialise controllers and workers pass over an engine that runs.
startService(step, next) ==
    /\ Running(step)
    /\ \E ok \in BOOLEAN :
        /\ \/ engine # "running" /\ Started
           \/ (ok => engine = "running") /\ UNCHANGED <<engine, files, loaded>>
        /\ Ends(ok, next)
    /\ HistoryUnchanged
    /\ UNCHANGED <<yaml, prepVars, selinuxVars, firewallVars>>

Start == startService("start", "sync")
Restart == startService("restart", "done")

-----------------------------------------------------------------------------
(* Engine-config sync.                                                     *)

driftedFiles == {p \in DOMAIN DesiredFiles : files[p] # DesiredFiles[p]}

\* Mutant of restartRequired: a restart only when every drifted file needs one.
restartIfAll(stale) == stale # {} \/ (driftedFiles # {} /\ driftedFiles \intersect NoRestart = {})

restartRequired(stale) == stale # {} \/ driftedFiles \ NoRestart # {}

\* Mutant of mayWrite: the check of a dry run writes in place.
mayWriteAlways == TRUE

mayWrite == command # "dry"

\* The check runs while the phase is prepared.  Files the engine re-reads by itself are
\* written in place, unless it is a dry run; a write that fails leaves the host to the
\* restart.
needsUpdate ==
    /\ Running("sync")
    /\ \E listed \in BOOLEAN, bad, skip \in SUBSET (DOMAIN DesiredFiles \intersect NoRestart) :
        LET stale == IF listed THEN StaleFiles ELSE {}
            soft == ~restartRequired(stale) /\ driftedFiles # {} /\ mayWrite
            failed == bad \union skip # {}
        IN
        /\ bad \intersect skip = {}
        /\ ~soft => bad = {} /\ skip = {}
        /\ Cardinality(bad) <= 1
        /\ files' = IF soft THEN Rewritten(DOMAIN DesiredFiles \intersect NoRestart, bad, skip, {})
                    ELSE files
        /\ Fails((IF listed THEN 0 ELSE 1) + (IF failed THEN 1 ELSE 0))
        /\ pc' = IF mayWrite /\ (restartRequired(stale) \/ failed) THEN "halt" ELSE "done"
    /\ status' = IF pc' = "done" THEN "ok" ELSE "run"
    /\ HistoryUnchanged
    /\ UNCHANGED <<kind, command, cfg, runs, yaml, engine, loaded, prepVars, selinuxVars, firewallVars>>

\* Drain and stop; a host without a node cannot be drained.
drainAndStop ==
    /\ Running("halt")
    /\ \E ok \in BOOLEAN :
        /\ \/ engine = "running" /\ engine' = "stopped"
           \/ (ok => engine = "stopped") /\ UNCHANGED engine
        /\ Ends(ok, "write")
    /\ HistoryUnchanged
    /\ UNCHANGED <<files, yaml, loaded, prepVars, selinuxVars, firewallVars>>

writeFiles ==
    /\ Running("write")
    /\ \E bad, skip \in SUBSET DOMAIN DesiredFiles, gone \in SUBSET StaleFiles :
        /\ bad \intersect skip = {} /\ Cardinality(bad) <= 1
        /\ gone # {} => bad \union skip = {}
        /\ files' = Rewritten(DOMAIN DesiredFiles, bad, skip, gone)
        /\ Ends(bad \union skip = {} /\ gone = StaleFiles, "restart")
    /\ HistoryUnchanged
    /\ UNCHANGED <<yaml, engine, loaded, prepVars, selinuxVars, firewallVars>>

\* Everything is removed that can be; failures are logged.
uninstallNode ==
    /\ Running("uninstall")
    /\ \E left \in SUBSET Managed :
        /\ files' = [p \in Managed |-> IF p \in left THEN files[p] ELSE Absent]
        /\ Fails(Cardinality(left))
    /\ yaml' = Absent
    /\ engine' = "absent"
    /\ pc' = "unlabel"
    /\ HistoryUnchanged
    /\ UNCHANGED <<kind, command, cfg, runs, status, loaded, prepVars, selinuxVars, firewallVars>>

-----------------------------------------------------------------------------
Init ==
    /\ kind \in Kinds
    /\ env = [n \in Names |-> Absent] /\ etcHosts = env /\ contSELinux = FALSE
    /\ sysctl = Absent /\ kernel = Absent /\ yaml = Absent
    /\ fapolicy = [rules |-> Absent, executables |-> Absent, loaded |-> <<Absent, Absent>>]
    /\ modfiles = {} /\ modloaded = {}
    /\ policy = [m \in Modules |-> {}] /\ cil = [m \in Modules |-> Absent]
    /\ sebool = Original /\ fcontext = [p \in Contexts |-> Absent] /\ record = NoRecord
    /\ rules = {} /\ ufwState = {} /\ include = FALSE
    /\ files = [p \in Managed |-> Absent] /\ loaded = files /\ engine = "absent"
    /\ command = "apply" /\ cfg \in Configs /\ pc = "done" /\ status = "idle"
    /\ runs = 0 /\ faults = 0 /\ faulty = FALSE
    /\ recordLost = FALSE /\ dropped = FALSE /\ unrecorded = FALSE

Cut ==
    /\ status = "run" /\ Fails(1) /\ status' = "cut"
    /\ HistoryUnchanged
    /\ UNCHANGED <<kind, hostVars, command, cfg, pc, runs>>

StartRun(c, v) ==
    /\ status # "run" /\ runs < MaxRuns
    /\ runs' = runs + 1
    /\ command' = c /\ cfg' = v /\ pc' = Plan(c)[1] /\ status' = "run"
    /\ faulty' = FALSE
    /\ HistoryUnchanged
    /\ UNCHANGED <<kind, hostVars, faults>>

Reboot ==
    /\ status # "run" /\ runs < MaxRuns
    /\ runs' = runs + 1 /\ status' = "idle"
    /\ Boot(modfiles)
    /\ HistoryUnchanged
    /\ UNCHANGED <<kind, selinuxVars, command, cfg, pc, faults, faulty>>

Next ==
    \/ \E c \in Commands, v \in Configs : StartRun(c, v)
    \/ Reboot \/ Cut
    \/ prepareHost \/ installContainerSELinux \/ prepareFapolicyd \/ enableModules \/ configureHostsFile
    \/ recordState \/ applyModules \/ applyBooleans \/ applyFileContexts \/ removeHost
    \/ configureFirewall
    \/ ConfigureEngine \/ Start
    \/ needsUpdate \/ drainAndStop \/ writeFiles \/ Restart
    \/ uninstallNode

Spec == Init /\ [][Next]_vars

-----------------------------------------------------------------------------
(* Properties.                                                             *)

Done(c) == status = "ok" /\ command \in c

\* After a run that succeeds, a running engine has the files the configuration asks for, and
\* has read those it only reads when it starts.  Writes that ConfigureEngine only logged, files
\* cut short by an earlier run and files written in place are all made good by the sync.
EngineReadsDesired ==
    Done({"apply", "sync"}) /\ engine = "running" =>
        \A p \in DOMAIN DesiredFiles :
            /\ files[p] = DesiredFiles[p]
            /\ p \notin NoRestart => loaded[p] = DesiredFiles[p]

\* After an apply in which no command failed, the directories cargoship prunes hold the
\* files of the configuration and nothing else of ours, and no run takes a chart of the engine's
\* own out of the directory they share.
ManagedDirsExact ==
    /\ Done({"apply"}) /\ ~faulty =>
        \A p \in {"ca", "release", "chart"} : files[p] # Absent <=> Has(DesiredFiles, p)
    /\ engine = "running" => files["addon"] # Absent

\* A reset in which no command failed returns every boolean to the value the host had before
\* the first run, whatever packages came in between and wherever their runs stopped, unless
\* a write of the record was cut short or a reset that could not undo all of it deleted it.
BooleansRestored ==
    Done({"reset"}) /\ ~faulty /\ ~recordLost => sebool = Original

\* A reset in which no command failed leaves no module and no file context, when no package
\* dropped or renumbered one that an earlier package had.
PolicyRemoved ==
    Done({"reset"}) /\ ~faulty /\ ~recordLost /\ ~dropped =>
        /\ \A m \in Modules : policy[m] = {}
        /\ \A p \in Contexts : fcontext[p] = Absent

\* After an apply in which no command failed, ufw and nftables enforce the rules of the plan and
\* none of an earlier one; ufw may keep a rule that an earlier run did not live to record.
FirewallMatchesPlan ==
    Done({"apply"}) /\ ~faulty /\ Select \in {"ufw", "nftables"} =>
        /\ plan \subseteq rules
        /\ Select = "nftables" \/ ~unrecorded => rules \subseteq plan

\* A dry run changes nothing on the host, although its check is the code that writes files in place.
DryRunWritesNothing == [][command = "dry" /\ status = "run" => UNCHANGED hostVars]_vars

\* The host as the runs leave it: the engine runs on what the configuration asks for, the
\* directories it shares with cargoship hold that and nothing else, the firewall enforces
\* the plan, and a reset takes back of SELinux what the runs before it did and only that.
HostAsConfigured ==
    /\ TypeOK
    /\ EngineReadsDesired /\ ManagedDirsExact
    /\ BooleansRestored /\ PolicyRemoved
    /\ FirewallMatchesPlan
=============================================================================
