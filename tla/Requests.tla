------------------------------ MODULE Requests ------------------------------
(* How a run is asked for: the Ansible inventory translated into a cluster  *)
(* document (internal/ansibleinv), the module that renders a task as a      *)
(* command line (internal/ansiblemod), the settings of files, environment   *)
(* and flags (cmd/viper.go), and what stands before a run (cmd/common.go).  *)
(* A task is read, translated, written to a file and run from that file,    *)
(* and two tasks may use one file.                                          *)
EXTENDS Integers, SequencesExt

CONSTANTS
    Procs,          \* processes of the management node
    Inventories,    \* requests to translate: [groups, mapping, vars, name]
    Tasked,         \* those that the modules' tasks carry
    Modules,        \* the modules that tasks name
    Values,         \* values of the option "concurrency"
    Default,        \* its default
    Unset,          \* not given
    Bad,            \* given and unusable
    Misspelt,       \* a parameter or a variable nobody reads
    Blank,          \* a name of white space
    Private,        \* the path of a task that names none
    Named,          \* the path that operators name
    MaxTasks

VARIABLES
    conf,           \* what the configuration file and the environment say
    proc,           \* a process: its step, its task, the document, the command
    disk,           \* the documents at the paths
    tasks           \* tasks begun

vars == <<conf, proc, disk, tasks>>

Refused == [ok |-> FALSE, doc |-> <<>>]
RoleOrder == <<"controller", "worker">>

-----------------------------------------------------------------------------
(* The translation. *)

DefaultRoleGroups == [r \in {"controller", "worker"} |-> <<r>>]

RoleGroups(req) == IF DOMAIN req.mapping = {} THEN DefaultRoleGroups ELSE req.mapping

checkRoles(mapping) ==
    \A r \in DOMAIN mapping :
        r \in ToSet(RoleOrder) /\ mapping[r] # <<>> /\ Blank \notin ToSet(mapping[r])

\* A group that the operator's mapping names has to be there; one that the default names may lack.
checkGroupsExist(req) ==
    \A r \in DOMAIN req.mapping : ToSet(req.mapping[r]) \subseteq DOMAIN req.groups

\* Every host of every group in the order of the walk, with the role it is given there.
Walk(req) ==
    LET m == RoleGroups(req)
        Hosts(g) == IF g \in DOMAIN req.groups THEN req.groups[g] ELSE <<>>
        Role(r) == IF r \in DOMAIN m THEN FlattenSeq([i \in DOMAIN m[r] |-> Hosts(m[r][i])]) ELSE <<>>
    IN FlattenSeq([i \in DOMAIN RoleOrder |->
           LET hs == Role(RoleOrder[i]) IN [j \in DOMAIN hs |-> [host |-> hs[j], role |-> RoleOrder[i]]]])

\* A second group that claims a host wins over the first.
ClaimLast(acc, a) ==
    IF ~acc.ok \/ a.host = Blank THEN Refused
    ELSE [acc EXCEPT !.doc = Append(SelectSeq(@, LAMBDA b : b.host # a.host), a)]

Claim(acc, a) ==
    LET before == {b \in ToSet(acc.doc) : b.host = a.host} IN
    IF ~acc.ok \/ a.host = Blank \/ \E b \in before : b.role # a.role THEN Refused
    ELSE IF before # {} THEN acc
    ELSE [acc EXCEPT !.doc = Append(@, a)]

deriveRoles(req) ==
    LET out == FoldLeft(Claim, [ok |-> TRUE, doc |-> <<>>], Walk(req)) IN
    IF /\ checkRoles(RoleGroups(req)) /\ checkGroupsExist(req)
       /\ \E a \in ToSet(out.doc) : a.role = "controller"
    THEN out ELSE Refused

checkUnknown(v) == Misspelt \notin DOMAIN v

\* ansible_port: a number, or text that is one; 0 and nothing are the default.
portVar(v) ==
    IF "port" \notin DOMAIN v \/ v.port = 0 THEN 22 ELSE v.port

\* A variable that has to be text, or the value it falls back to.
stringVar(v, name, fallback) == IF name \in DOMAIN v THEN v[name] ELSE fallback

hostFromVars(a, v) ==
    [host |-> a.host, role |-> a.role, port |-> portVar(v),
     hostname |-> stringVar(v, "hostname", a.host), profile |-> stringVar(v, "profile", a.role)]

\* A variable of the wrong kind, or a nested one with a key that its field lacks (decodeVar).
Readable(v) == checkUnknown(v) /\ \A n \in DOMAIN v : v[n] # Bad

validate(doc) == \A i \in DOMAIN doc : doc[i].port \in 1..65535

Translate(req) ==
    LET out == deriveRoles(req)
        Vars(h) == IF h \in DOMAIN req.vars THEN req.vars[h] ELSE <<>>
        doc == [i \in DOMAIN out.doc |-> hostFromVars(out.doc[i], Vars(out.doc[i].host))]
    IN IF /\ out.ok /\ req.name # Unset
          /\ \A i \in DOMAIN out.doc : Readable(Vars(out.doc[i].host))
          /\ validate(doc)
       THEN [ok |-> TRUE, doc |-> doc] ELSE Refused

-----------------------------------------------------------------------------
(* The command line of a task, and the settings behind it. *)

\* What each module asks of its parameters, and what its command has a flag for.
Surface(package, confirm, dryRun, accepts) ==
    [package |-> package, confirm |-> confirm, dryRun |-> dryRun, accepts |-> accepts]
Apply == Surface(TRUE, TRUE, TRUE, {"concurrency"})
EngineConfigSync == Surface(TRUE, TRUE, TRUE, {"concurrency"})
Prepare == Surface(TRUE, TRUE, TRUE, {"concurrency"})
Reset == Surface(FALSE, TRUE, TRUE, {"concurrency"})
KubeConfig == Surface(FALSE, FALSE, FALSE, {})

modules == [apply |-> Apply, engine_config_sync |-> EngineConfigSync, prepare |-> Prepare,
            reset |-> Reset, kube_config |-> KubeConfig]

\* A parameter that was not given adds no flag.
Flags(params) == [n \in {k \in DOMAIN params : params[k] # Unset} |-> params[n]]

\* Check mode forgotten for the actions that ask for a confirmation.
beginConfirmed(t) ==
    [action |-> t.module, config |-> t.path, confirm |-> modules[t.module].confirm,
     dryRun |-> t.check /\ modules[t.module].dryRun /\ ~modules[t.module].confirm, flags |-> Flags(t.params)]

begin(t) ==
    [action |-> t.module, config |-> t.path, confirm |-> modules[t.module].confirm,
     dryRun |-> t.check /\ modules[t.module].dryRun, flags |-> Flags(t.params)]

\* resolvedConfig: the environment over the configuration file over the default; flags are seeded
\* with it.
resolvedConfig ==
    IF conf.env # Unset THEN conf.env ELSE IF conf.file # Unset THEN conf.file ELSE Default

Effective(cmd) == IF "concurrency" \in DOMAIN cmd.flags THEN cmd.flags["concurrency"] ELSE resolvedConfig

configLoadError == conf.file = Bad

requireConfirm(cmd) == cmd.confirm \/ cmd.dryRun

preflightInstall(cmd) == requireConfirm(cmd)
preflightReset(cmd) == requireConfirm(cmd)
preflight(cmd) ==
    CASE cmd.action = "kube_config" -> TRUE
      [] cmd.action = "reset" -> preflightReset(cmd)
      [] OTHER -> preflightInstall(cmd)

\* kube-config goes to the first controller alone.
Scope(m, doc) ==
    IF m = "kube_config" THEN <<SelectSeq(doc, LAMBDA d : d.role = "controller")[1]>> ELSE doc

-----------------------------------------------------------------------------
Idle == [pc |-> "idle"]
Set(p, r) == proc' = [proc EXCEPT ![p] = r]
Goto(p, pc) == Set(p, [proc[p] EXCEPT !.pc = pc])
\* The module's one answer, whatever happened; a command that it ran hands it its error.  The
\* answer to a task that ran nothing is not kept.
Reply(p, answer) ==
    Set(p, IF proc[p].ran THEN [proc[p] EXCEPT !.pc = "answered", !.answer = answer] ELSE Idle)
Fail(p) == Reply(p, "failed")

\* A directory of its own for every task that names no path.
At(t) == IF t.path = Private THEN t.n ELSE 0
Absent == [there |-> FALSE, doc |-> <<>>]

Init ==
    /\ conf \in [file : Values \union {Unset, Bad}, env : Values \union {Unset}]
    /\ proc = [p \in Procs |-> Idle]
    /\ disk = [l \in 0..MaxTasks |-> Absent]
    /\ tasks = 0

Free(p) == proc[p].pc \in {"idle", "answered"} /\ tasks < MaxTasks

Begin(p, pc, t, cmd) ==
    /\ Set(p, [pc |-> pc, task |-> t, cmd |-> cmd, read |-> <<>>, opt |-> Unset, ran |-> FALSE,
               crossed |-> FALSE, answer |-> "none"])
    /\ UNCHANGED <<conf, disk>>

Params == {<<>>} \union [{"concurrency"} -> Values] \union [{Misspelt} -> {Default}]

\* Ansible calls the module with a file of parameters.
Ask(p) ==
    /\ Free(p) /\ tasks' = tasks + 1
    /\ \E m \in Modules, check \in BOOLEAN, inv \in Tasked, path \in {Private, Named}, params \in Params :
        \E package \in IF modules[m].package THEN BOOLEAN ELSE {FALSE} :
            Begin(p, "asked",
                  [by |-> "module", module |-> m, check |-> check, package |-> package, inv |-> inv,
                   path |-> path, params |-> params, n |-> tasks + 1], <<>>)

\* An operator types a command that reads the document at the named path.
Type(p) ==
    /\ Free(p) /\ tasks' = tasks + 1
    /\ \E m \in Modules, confirm, dryRun \in BOOLEAN, params \in {<<>>} \union [{"concurrency"} -> Values] :
        /\ m = "kube_config" => ~confirm /\ ~dryRun
        /\ Begin(p, "run", [by |-> "operator", module |-> m, confirm |-> confirm, path |-> Named,
                            params |-> params, n |-> tasks + 1],
                 [action |-> m, config |-> Named, confirm |-> confirm, dryRun |-> dryRun,
                  flags |-> Flags(params)])

UnknownParameter(t) == ~(DOMAIN t.params \subseteq modules[t.module].accepts)

\* Args.Params, the checks of each module, and the task that check mode cannot run.
ReadArgs(p) ==
    /\ proc[p].pc = "asked"
    /\ LET t == proc[p].task IN
       IF UnknownParameter(t) \/ (modules[t.module].package /\ ~t.package) THEN Fail(p)
       ELSE IF t.check /\ ~modules[t.module].dryRun THEN Reply(p, "skipped")
       ELSE Goto(p, "write")
    /\ UNCHANGED <<conf, disk, tasks>>

\* A write to the named path reaches the commands that have still to read it.
Crossing(p, r) ==
    [q \in Procs |->
        IF q = p THEN r
        ELSE IF proc[q].pc \in {"run", "open"} /\ proc[q].task.path = Named /\ proc[p].task.path = Named
             THEN [proc[q] EXCEPT !.crossed = TRUE] ELSE proc[q]]

writeInventory(p) ==
    /\ proc[p].pc = "write"
    /\ LET t == proc[p].task
           out == Translate(t.inv)
       IN \/ Fail(p) /\ UNCHANGED disk
          \/ /\ out.ok
             /\ disk' = [disk EXCEPT ![At(t)] = [there |-> TRUE, doc |-> out.doc]]
             /\ proc' = Crossing(p, [proc[p] EXCEPT !.pc = "run", !.cmd = begin(t)])
    /\ UNCHANGED <<conf, tasks>>

\* What a command checks before it opens anything: the configuration file of cargoship, the
\* document, the package and the timeout, and last the confirmation.
Preflight(p) ==
    /\ proc[p].pc = "run"
    /\ \/ Fail(p)
       \/ /\ ~configLoadError /\ preflight(proc[p].cmd) /\ disk[At(proc[p].task)].there
          /\ Goto(p, "open")
    /\ UNCHANGED <<conf, disk, tasks>>

\* The document as it is when the command gets to it.
initCluster(p) == disk[At(proc[p].task)].doc

\* initCluster reads the document; the package, its values and the credentials follow, and any
\* of them may fail.
initManager(p) ==
    /\ proc[p].pc = "open"
    /\ \/ Fail(p)
       \/ Set(p, [proc[p] EXCEPT !.pc = "phases", !.ran = TRUE,
                                 !.read = Scope(proc[p].cmd.action, initCluster(p)),
                                 !.opt = Effective(proc[p].cmd)])
    /\ UNCHANGED <<conf, disk, tasks>>

Phases(p) ==
    /\ proc[p].pc = "phases"
    /\ Fail(p) \/ Goto(p, "over")
    /\ UNCHANGED <<conf, disk, tasks>>

\* A task whose run went well removes the document it generated in a directory of its own.
Finish(p) ==
    /\ proc[p].pc = "over"
    /\ LET t == proc[p].task IN
       IF t.by = "operator" \/ t.path = Named THEN Reply(p, "ok") /\ UNCHANGED disk
       ELSE \/ Fail(p) /\ UNCHANGED disk
            \/ Reply(p, "ok") /\ disk' = [disk EXCEPT ![At(t)] = Absent]
    /\ UNCHANGED <<conf, tasks>>

\* inventory from-ansible: its flag wins over the name in the request, and it writes the document
\* to the named path.
FromAnsible(p) ==
    /\ Free(p) /\ tasks = 0 /\ tasks' = MaxTasks
    /\ \E req \in Inventories, name \in {Unset, "flag"} :
        LET t == [by |-> "from-ansible", path |-> Named, n |-> 1,
                  inv |-> IF name # Unset THEN [req EXCEPT !.name = name] ELSE req]
            out == Translate(t.inv)
            end == [pc |-> "answered", task |-> t, cmd |-> <<>>, read |-> out.doc, opt |-> Unset,
                    ran |-> FALSE, crossed |-> FALSE, answer |-> IF out.ok THEN "ok" ELSE "failed"]
        IN /\ Set(p, end)
           /\ disk' = IF out.ok THEN [disk EXCEPT ![0] = [there |-> TRUE, doc |-> out.doc]] ELSE disk
    /\ UNCHANGED conf

Next ==
    \E p \in Procs :
        \/ Ask(p) \/ Type(p) \/ FromAnsible(p)
        \/ ReadArgs(p) \/ writeInventory(p) \/ Preflight(p) \/ initManager(p) \/ Phases(p) \/ Finish(p)

Spec == Init /\ [][Next]_vars

-----------------------------------------------------------------------------
Ran == {r \in {proc[p] : p \in Procs} : r.pc # "idle" /\ r.ran}
ByModule == {r \in Ran : r.task.by = "module"}

\* A task in check mode never starts a command that changes hosts, any other one starts exactly
\* what was asked for, and an operator's command that is not a dry run was confirmed.
RunsWhatWasAsked ==
    /\ \A r \in ByModule : r.cmd.dryRun = r.task.check
    /\ \A r \in Ran \ ByModule : r.cmd.dryRun \/ r.task.module = "kube_config" \/ r.task.confirm

\* The nearest word counts: a parameter or flag, the environment, the file, the default; what a
\* task does not say overrules nothing.
NearestWordCounts ==
    \A r \in Ran :
        LET param == IF "concurrency" \in DOMAIN r.task.params THEN r.task.params["concurrency"] ELSE Unset
            words == <<param, conf.env, conf.file, Default>>
            near == CHOOSE i \in 1..4 : words[i] # Unset /\ \A j \in 1..i - 1 : words[j] = Unset
        IN r.opt = words[near]

\* The hosts of the groups that the mapping names for a role.
Claimed(req, r) ==
    LET m == RoleGroups(req) IN
    UNION {ToSet(req.groups[g]) : g \in (IF r \in DOMAIN m THEN ToSet(m[r]) ELSE {}) \intersect DOMAIN req.groups}

\* A document lists every host of the mapped groups once, in the one role its groups give it, the
\* controllers first, and its leader is the first host of the first controller group that has one;
\* a request in which a host has two roles, or no role is a controller's, gives no document.
AsGrouped(req, doc) ==
    LET m == RoleGroups(req)
        Groups == SelectSeq(m["controller"], LAMBDA g : g \in DOMAIN req.groups /\ req.groups[g] # <<>>)
    IN /\ \A i, j \in DOMAIN doc : doc[i].host = doc[j].host => i = j
       /\ \A r \in ToSet(RoleOrder) : {d.host : d \in {x \in ToSet(doc) : x.role = r}} = Claimed(req, r)
       /\ \A i, j \in DOMAIN doc : i < j /\ doc[i].role = "worker" => doc[j].role = "worker"
       /\ doc[1].host = Head(req.groups[Groups[1]])

\* A run that nobody wrote over reads the cluster of its own task's inventory.
OwnCluster ==
    /\ \A r \in ByModule : r.task.path = Private \/ ~r.crossed => 
           r.read = Scope(r.task.module, Translate(r.task.inv).doc)
    /\ \A p \in Procs : proc[p].pc = "answered" /\ proc[p].task.by = "from-ansible" /\ proc[p].answer = "ok" =>
           AsGrouped(proc[p].task.inv, proc[p].read)

\* The document a failed run was made from can still be read, and a task that went well leaves
\* none of its own behind.
DocumentKept ==
    \A r \in ByModule :
        /\ r.answer = "failed" => disk[At(r.task)].there
        /\ r.answer = "ok" /\ r.task.path = Private => ~disk[At(r.task)].there

\* What runs is what was asked for, of the cluster that was meant.
RequestsSound == RunsWhatWasAsked /\ NearestWordCounts /\ OwnCluster /\ DocumentKept
=============================================================================
