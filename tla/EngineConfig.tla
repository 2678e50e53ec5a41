----------------------------- MODULE EngineConfig -----------------------------
(***************************************************************************)
(* What cargoship writes for the engine of one host (rke2, k3s, or kubeadm *)
(* with containerd: "upstream"), and what that engine has read, over runs  *)
(* of `apply` and `engine-config sync`, upgrades, reboots and resets.      *)
(* HostConfig has the writes that fail; here the files have contents.      *)
(*                                                                         *)
(* A host is [distro, controller, leader, name, address, labels, taints].  *)
(* A document is [name, version, registries, audit, pss, config, manifest, *)
(* images]; `config` maps paths of keys to sequences of strings, `audit`   *)
(* and `pss` are "" when there is none.                                    *)
(***************************************************************************)
EXTENDS Registries

CONSTANTS
    Hosts,      \* the hosts a behaviour may be about
    Documents,  \* the documents they may be given: a function of a distro to a sequence of them
    Schema,     \* generated keys: [distro, minor release -> [server, agent]], each a set of paths
    Minor,      \* the minor release of each version
    Meta,       \* what a run hands down: [tls, balancer, leader, controllerToken, agentToken]
    MaxRuns     \* bound on runs, reboots and resets

None == <<>>

VARIABLES
    host,       \* the host
    files,      \* the files on it: paths to contents
    engine,     \* "absent", "stopped" or "running"
    version,    \* the version of the engine that is installed
    loaded,     \* the files as the engine read them when it started
    joined,     \* upstream: was `kubeadm init` or `kubeadm join` run?
    doc,        \* the number of the document of the run
    pc,         \* the step of the run
    restarted,  \* did the run restart a running engine?
    found,      \* [files, engine] as the run found them
    settled,    \* the document that the last finished apply was given, 0 when something came after it
    again,      \* is this an apply of that document?
    runs

engineVars == <<host, files, engine, version, loaded, joined, doc, pc, restarted, found, settled, again, runs>>

Rancher == host.distro # "upstream"
Doc == Documents[host.distro][doc]

-----------------------------------------------------------------------------
(* Charts and images.                                                       *)

\* An entry with a `values` key is [wrapped, enabled, images, values]; one without is all values.
chartEnabled(e) == e.wrapped => e.enabled # "false"
ChartImages(e) == IF e.wrapped THEN {e.images[k] : k \in DOMAIN e.images} ELSE {}
disabledCharts(d) == IF <<"disable">> \in DOMAIN d.config
                     THEN {d.config[<<"disable">>][k] : k \in DOMAIN d.config[<<"disable">>]} \ {""} ELSE {}

\* Mutant: a chart that was switched off is configured all the same.
chartsAll(d) == DOMAIN d.manifest \ disabledCharts(d)

chartsOf(d) == {c \in DOMAIN d.manifest \ disabledCharts(d) : chartEnabled(d.manifest[c])}
helmChartConfigs(d) ==
    [p \in {<<"manifests", c>> : c \in chartsOf(d)} |-> <<d.manifest[p[2]].values>>]
EnabledImages(d) ==
    {d.images[k] : k \in DOMAIN d.images}
    \union UNION {ChartImages(d.manifest[c]) : c \in {x \in DOMAIN d.manifest : chartEnabled(d.manifest[x])}}

\* The packaged pause image, and where kubeadm's own images come from.
sandboxImage(d) == LET P == {k \in DOMAIN d.images : d.images[k][2] = "pause"}
                   IN IF P = {} THEN None ELSE d.images[CHOOSE k \in P : \A j \in P : k <= j]
imageRepository(d, cfg) ==
    IF <<"imageRepository">> \in DOMAIN cfg THEN cfg[<<"imageRepository">>]
    ELSE LET P == {k \in DOMAIN d.images : d.images[k][1] # ""}
         IN IF P = {} THEN None ELSE <<d.images[CHOOSE k \in P : \A j \in P : k <= j][1]>>

-----------------------------------------------------------------------------
(* The keys of an engine's configuration.                                   *)

Prefixes(p) == {SubSeq(p, 1, k) : k \in 1..Len(p)}
Restricted(f, S) == [x \in DOMAIN f \intersect S |-> f[x]]
With(f, g) == [x \in DOMAIN f \union DOMAIN g |-> IF x \in DOMAIN g THEN g[x] ELSE f[x]]
Put(f, x, v) == With(f, [y \in {x} |-> v])

\* Is there a generated schema for the version?  Patch releases share one.
Lookup(d) == <<host.distro, Minor[d.version]>> \in DOMAIN Schema
SchemaKeys(d, controller) ==
    LET s == Schema[<<host.distro, Minor[d.version]>>] IN IF controller THEN s.server ELSE s.agent

\* A key is kept when each part of its path is known, or a known part has nothing below it.
KnownKey(p, keys) ==
    \A q \in Prefixes(p) :
        q \in keys \/ \E r \in Prefixes(q) : r \in keys /\ ~\E s \in keys : r # s /\ r \in Prefixes(s)
validateEngineConfig(d, controller, cfg) ==
    IF ~Lookup(d) THEN cfg
    ELSE Restricted(cfg, {p \in DOMAIN cfg : KnownKey(p, SchemaKeys(d, controller))})

controllerArgs == {<<"kube-apiserver-arg">>, <<"kube-controller-manager-arg">>, <<"kube-scheduler-arg">>, <<"etcd-arg">>}
NodeLabels(h) == <<h.labels>>
SupervisorURL(h, name) == <<name, IF h.distro = "rke2" THEN "9345" ELSE "6443">>

\* The package's own address for the node stands.
setNodeIP(cfg, h) ==
    IF h.address = "" \/ <<"node-ip">> \in DOMAIN cfg THEN cfg ELSE Put(cfg, <<"node-ip">>, <<h.address>>)

\* config.yaml; the paths in it are the ones of files.
NodeConfig(d, h) ==
    LET base == setNodeIP(With(d.config, [p \in {<<"node-name">>, <<"data-dir">>} |->
                    IF p = <<"node-name">> THEN <<h.name>> ELSE <<"data">>]), h)
        labelled == IF h.labels = "" THEN base ELSE Put(base, <<"node-label">>, NodeLabels(h))
        tainted == IF h.taints = "" THEN labelled ELSE Put(labelled, <<"node-taint">>, <<h.taints>>)
        server == Put(Put(Put(tainted, <<"tls-san">>, Meta.tls), <<"token-file">>, <<"config", "token">>),
                      <<"agent-token-file">>, <<"config", "agent-token">>)
        agent == Put(Restricted(Put(tainted, <<"token-file">>, <<"config", "agent-token">>),
                        (DOMAIN tainted \union {<<"token-file">>}) \ controllerArgs),
                     <<"server">>, SupervisorURL(h, Meta.balancer))
        joining == IF ~h.controller THEN agent
                  ELSE IF h.leader THEN server ELSE Put(server, <<"server">>, SupervisorURL(h, Meta.leader))
        audited == IF d.audit = "" THEN joining ELSE Put(joining, <<"audit-policy-file">>, <<"config", "audit.yaml">>)
        secured == IF d.pss = "" THEN audited
                   ELSE Put(audited, <<"pod-security-admission-config-file">>, <<"config", "pss.yaml">>)
    IN validateEngineConfig(d, h.controller, secured)

-----------------------------------------------------------------------------
(* The files an engine is meant to have.                                    *)

Policies(d, dir) ==
    With(IF d.audit = "" THEN <<>> ELSE [p \in {<<dir, "audit.yaml">>} |-> <<"Policy", d.audit>>],
         IF d.pss = "" THEN <<>> ELSE [p \in {<<dir, "pss.yaml">>} |-> <<"AdmissionConfiguration", d.pss>>])

\* Written last, with the list of the others.
DistroReleaseDesiredFile(d, fs) ==
    IF d.name = "" /\ d.version = "" THEN fs
    ELSE Put(fs, <<"state", "distro-release.json">>,
             [name |-> d.name, version |-> d.version, images |-> EnabledImages(d), managed |-> DOMAIN fs])

RegistriesPath == <<"config", "registries.yaml">>
RancherFiles(d, rs, controller) ==
    LET pulls == IF rs = <<>> THEN <<>>
                 ELSE Put(registryCAFiles(rs), RegistriesPath, buildRegistriesConfig(rs))
        charts == IF controller THEN helmChartConfigs(d) ELSE <<>>
    IN DistroReleaseDesiredFile(d, With(With(pulls, Policies(d, "config")), charts))

NoMeta == [tls |-> <<>>, balancer |-> "", leader |-> "", controllerToken |-> "", agentToken |-> ""]

\* kubeadm's documents.  The API server is a pod: what a flag names has to be mounted.
auditPSSVolumes(d) ==
    (IF d.audit = "" THEN {} ELSE {<<"kubernetes", "audit.yaml">>}) \union (IF d.pss = "" THEN {} ELSE {<<"kubernetes", "pss.yaml">>})
apiServerFlags(d) ==
    (IF d.audit = "" THEN {} ELSE {<<"audit-policy-file", <<"kubernetes", "audit.yaml">>>>})
    \union (IF d.pss = "" THEN {} ELSE {<<"admission-control-config-file", <<"kubernetes", "pss.yaml">>>>})
ServiceSubnet == <<"networking", "serviceSubnet">>
PodSubnet == <<"networking", "podSubnet">>
Subnets(cfg, service) ==
    <<IF service \in DOMAIN cfg THEN cfg[service] ELSE <<"10.96.0.0/12">>,
      IF PodSubnet \in DOMAIN cfg THEN cfg[PodSubnet] ELSE None>>
ComponentArgs(cfg) == Restricted(cfg, {<<c, "extraArgs">> : c \in {"apiServer", "controllerManager", "scheduler"}})
buildClusterConfiguration(d, meta) ==
    LET cfg == validateEngineConfig(d, TRUE, d.config)
    IN [kind |-> "cluster", version |-> d.version, endpoint |-> meta.balancer, subnets |-> Subnets(cfg, ServiceSubnet),
        repository |-> imageRepository(d, cfg), sans |-> meta.tls, flags |-> apiServerFlags(d),
        mounts |-> auditPSSVolumes(d), args |-> ComponentArgs(cfg)]
buildJoinConfiguration(h, meta) ==
    [kind |-> "join", token |-> IF h.controller THEN meta.controllerToken ELSE meta.agentToken,
     endpoint |-> meta.balancer, name |-> h.name, controlPlane |-> h.controller]
buildContainerdConfig(d) == [cgroup |-> "systemd", hosts |-> "certs", sandbox |-> sandboxImage(d)]
buildCrictlConfig == [runtime |-> "containerd", image |-> "containerd"]
KubeadmPath == <<"kubernetes", "kubeadm-config.yaml">>
UpstreamFiles(d, rs, h, meta) ==
    LET runtime == With(buildContainerdHostsConfigs(rs), registryCAFiles(rs))
        containerd == Put(Put(runtime, <<"containerd", "config.toml">>, buildContainerdConfig(d)),
                          <<"etc", "crictl.yaml">>, buildCrictlConfig)
        docs == IF h.leader THEN buildClusterConfiguration(d, meta) ELSE buildJoinConfiguration(h, meta)
    IN DistroReleaseDesiredFile(d, Put(With(containerd, Policies(d, "kubernetes")), KubeadmPath, docs))

DesiredFiles(d, rs, h, meta) ==
    IF Rancher THEN RancherFiles(d, rs, h.controller) ELSE UpstreamFiles(d, rs, h, meta)

\* The networks that the firewall trusts.
GetClusterCIDR(d) == Subnets(d.config, ServiceSubnet)

\* What is pruned.  The manifest directory is the engine's too, and only charts' files are looked at.
ManagedDirs == IF Rancher THEN {"tls", "state", "manifests"} ELSE {"tls"}
CleanupPaths == IF Rancher THEN {"data", "manifests", "config", "node", "kubelet"}
                ELSE {"kubelet", "kubernetes", "staging", "cni"}
Stale(fs, desired) == {p \in DOMAIN fs : p[1] \in ManagedDirs /\ p \notin DOMAIN desired}
Without(fs, S) == [p \in DOMAIN fs \ S |-> fs[p]]
NoRestart(p) == p[1] \in {"manifests", "state"}

-----------------------------------------------------------------------------
(* Runs.                                                                    *)

Idle == pc \in {"idle", "applied", "synced", "reset"}

EngineInit ==
    /\ host \in Hosts /\ files = <<>> /\ engine = "absent" /\ version = "" /\ loaded = <<>>
    /\ joined = FALSE /\ doc = 1 /\ pc = "idle" /\ restarted = FALSE
    /\ found = [files |-> <<>>, engine |-> "absent"] /\ settled = 0 /\ again = FALSE /\ runs = 0

Begin(command) ==
    /\ Idle /\ runs < MaxRuns
    /\ doc' \in DOMAIN Documents[host.distro]
    /\ ValidateRegistries(Documents[host.distro][doc'].registries)
    /\ pc' = IF command = "apply" THEN "configure" ELSE "sync-only"
    /\ restarted' = FALSE /\ found' = [files |-> files, engine |-> engine]
    /\ again' = (command = "apply" /\ settled = doc')
    /\ settled' = 0 /\ runs' = runs + 1
    /\ UNCHANGED <<host, files, engine, version, loaded, joined>>

\* Tokens are written once.  A running engine of rke2 or k3s keeps its files, all but config.yaml.
Tokens(fs) ==
    LET mine == {<<"config", "agent-token">>} \union (IF host.controller THEN {<<"config", "token">>} ELSE {})
    IN With([p \in mine |-> <<IF p[2] = "token" THEN Meta.controllerToken ELSE Meta.agentToken>>], fs)
ConfigureEngine ==
    /\ pc = "configure" /\ pc' = "start"
    /\ LET desired == DesiredFiles(Doc, DecryptRegistryAuth(Doc.registries), host, Meta)
           kept == IF engine = "running" THEN files ELSE With(Without(files, Stale(files, desired)), desired)
       IN files' = IF ~Rancher THEN With(files, desired)
                   ELSE Put(Tokens(kept), <<"config", "config.yaml">>, NodeConfig(Doc, host))
    /\ UNCHANGED <<host, engine, version, loaded, joined, doc, restarted, found, settled, again, runs>>

\* An engine that does not run is installed, bootstrapped and started; one that is older is
\* stopped, replaced and started again; one that is there is left alone.
StartOrUpgrade ==
    /\ pc = "start" /\ pc' = "sync"
    /\ LET older == engine = "running" /\ version # Doc.version IN
       /\ engine' = "running"
       /\ version' = IF engine # "running" \/ older THEN Doc.version ELSE version
       /\ loaded' = IF engine # "running" \/ older THEN files ELSE loaded
       /\ joined' = ~Rancher
       /\ restarted' = older
    /\ UNCHANGED <<host, files, doc, found, settled, again, runs>>

\* The files are rendered for a host without a name, an address or a leader's role.
Blank == [host EXCEPT !.leader = FALSE, !.name = "", !.address = "", !.labels = "", !.taints = ""]

\* Mutant: the files of a worker are taken for every host.
filesForWorkers == DesiredFiles(Doc, DecryptRegistryAuth(Doc.registries), [Blank EXCEPT !.controller = FALSE], NoMeta)

filesFor == DesiredFiles(Doc, DecryptRegistryAuth(Doc.registries), Blank, NoMeta)
driftedFiles(want) == {p \in DOMAIN want : p \notin DOMAIN files \/ files[p] # want[p]} \union Stale(files, want)

\* Drift in files the engine reads again by itself is written in place; any other is written
\* while the engine is stopped.
Sync ==
    /\ pc \in {"sync", "sync-only"} /\ engine = "running"
    /\ pc' = IF pc = "sync" THEN "applied" ELSE "synced"
    /\ LET want == filesFor
           drifted == driftedFiles(want)
           restart == \E p \in drifted : p \notin DOMAIN want \/ ~NoRestart(p)
       IN /\ files' = IF drifted = {} THEN files
                      ELSE IF restart THEN With(Without(files, Stale(files, want)), want)
                      ELSE With(files, Restricted(want, {p \in DOMAIN want : NoRestart(p)}))
          /\ loaded' = IF restart THEN files' ELSE loaded
          /\ restarted' = (restarted \/ restart)
    /\ settled' = IF pc = "sync" THEN doc ELSE 0
    /\ UNCHANGED <<host, engine, version, joined, doc, found, again, runs>>

\* The run is interrupted, or finds no controller to ask.
Cut ==
    /\ ~Idle /\ pc' = "idle"
    /\ UNCHANGED <<host, files, engine, version, loaded, joined, doc, restarted, found, settled, again, runs>>

Reboot ==
    /\ Idle /\ engine = "running" /\ runs < MaxRuns
    /\ loaded' = files /\ pc' = "idle" /\ runs' = runs + 1
    /\ UNCHANGED <<host, files, engine, version, joined, doc, restarted, found, settled, again>>

\* What is under the paths of the distro goes, then the managed directories and cargoship's own.
uninstallNode ==
    /\ Idle /\ engine # "absent" /\ runs < MaxRuns
    /\ files' = Without(files, {p \in DOMAIN files : p[1] \in CleanupPaths \union ManagedDirs \union {"state", "tls"}})
    /\ engine' = "absent" /\ version' = "" /\ loaded' = <<>> /\ joined' = FALSE
    /\ pc' = "reset" /\ settled' = 0 /\ runs' = runs + 1
    /\ UNCHANGED <<host, doc, restarted, found, again>>

EngineNext ==
    \/ \E c \in {"apply", "sync"} : Begin(c)
    \/ ConfigureEngine \/ StartOrUpgrade \/ Sync \/ Cut \/ Reboot \/ uninstallNode

-----------------------------------------------------------------------------
(* Properties.                                                              *)

\* Two registries differ in credentials that were encrypted when they were compared, or their
\* certificates have one name; on such a pair nothing is promised.
Confused(rs, i, j) ==
    \/ Rancher /\ ConfigHost(rs[i]) = ConfigHost(rs[j]) /\ rs[i].auth # rs[j].auth
       /\ Unreadable(rs[i].auth) /\ Unreadable(rs[j].auth)
    \/ ConfigHost(rs[i]) # ConfigHost(rs[j]) /\ Sanitized[ConfigHost(rs[i])] = Sanitized[ConfigHost(rs[j])]
Pulls(name) == IF Rancher THEN RancherPulls(loaded, RegistriesPath, name) ELSE ContainerdPulls(files, name)

\* After an apply the engine pulls for each registry of the document from where it says, with the
\* credential and the certificate that it gives; and a registry that an earlier document
\* redirected is asked directly again (buildRegistriesConfig, buildContainerdHostsConfigs, the
\* restarts of the sync).  One without a mirror of its own follows the wildcard's.  The last registry cannot be dropped so: its file is not pruned.
PullsAsConfigured ==
    pc = "applied" =>
        LET rs == Doc.registries
            names == {rs[i].name : i \in DOMAIN rs}
        IN /\ \A i \in DOMAIN rs :
                \/ \E j \in DOMAIN rs \ {i} : Confused(rs, i, j)
                \/ ~Rancher /\ rs[i].name = "*"
                \/ Rancher /\ "*" \in names /\ rs[i].proxy = <<>>
                \/ Pulls(rs[i].name) = Meant(rs[i])
           /\ Rancher /\ rs # <<>> /\ "*" \notin names =>
                \A d \in DOMAIN Documents[host.distro] : LET old == Documents[host.distro][d].registries IN
                    \A i \in DOMAIN old : old[i].name \notin names =>
                        Pulls(old[i].name).endpoint = Direct(old[i].name)

\* After an apply the engine of a controller has loaded the audit policy and the admission
\* configuration of the document, and a configuration that names them (ConfigureEngine, Sync);
\* but for an engine without the flag (k3s), one that ran while the host already had the file, and upstream, whose
\* API server keeps what it was bootstrapped with.
Enforced(key, name, kind, policy) ==
    \/ policy = ""
    \/ Lookup(Doc) /\ key \notin SchemaKeys(Doc, TRUE)
    \/ found.engine = "running" /\ name \in DOMAIN found.files /\ found.files[name] = <<kind, policy>>
    \/ /\ key \in DOMAIN loaded[<<"config", "config.yaml">>]
       /\ loaded[<<"config", "config.yaml">>][key] = name
       /\ name \in DOMAIN loaded /\ loaded[name] = <<kind, policy>>
PolicyInForce ==
    pc = "applied" /\ Rancher /\ host.controller =>
        /\ Enforced(<<"audit-policy-file">>, <<"config", "audit.yaml">>, "Policy", Doc.audit)
        /\ Enforced(<<"pod-security-admission-config-file">>, <<"config", "pss.yaml">>, "AdmissionConfiguration", Doc.pss)

\* kubeadm is given a cluster document on the leader and a join document elsewhere; the first
\* names no policy file that is not on the host and in the API server's pod, and its networks
\* are the ones the firewall trusts.
BootstrapComplete ==
    pc = "start" /\ ~Rancher /\ ~joined =>
        LET docs == files[KubeadmPath] IN
        /\ docs.kind = IF host.leader THEN "cluster" ELSE "join"
        /\ docs.kind = "cluster" =>
            /\ \A f \in docs.flags : f[2] \in docs.mounts /\ f[2] \in DOMAIN files
            /\ docs.subnets = GetClusterCIDR(Doc)

\* An apply that finds what the one before it left restarts nothing, on rke2 and k3s: what is
\* rendered for a host is what is rendered for a blank one of its role.
QuietWhenSettled == pc = "applied" /\ again /\ Rancher => ~restarted

\* After an apply a controller has the charts' files of the document and no others, and every
\* chart that is configured has its images on the host (helmChartConfigs, EnabledImages).
ChartsCarried ==
    pc = "applied" /\ Rancher =>
        LET written == {p[2] : p \in {q \in DOMAIN files : q[1] = "manifests"}} IN
        /\ written = IF host.controller THEN chartsOf(Doc) ELSE {}
        /\ \A c \in written : ChartImages(Doc.manifest[c]) \subseteq EnabledImages(Doc)

\* A node's configuration names a token that is on the host and a server unless it is the
\* leader, and an agent's names none of the control plane's flags (NodeConfig).
NodeRegisters ==
    pc = "start" /\ Rancher =>
        LET cfg == files[<<"config", "config.yaml">>] IN
        /\ <<"token-file">> \in DOMAIN cfg /\ cfg[<<"token-file">>] \in DOMAIN files
        /\ (<<"server">> \in DOMAIN cfg) <=> ~host.leader
        /\ ~host.controller => DOMAIN cfg \intersect controllerArgs = {}

\* A reset leaves no credential on a host of rke2 or k3s (CleanupPaths, cleanManagedDirs);
\* upstream leaves containerd's.
NothingLeft == pc = "reset" /\ Rancher => {p \in DOMAIN files : p[1] \in {"config", "tls", "certs"}} = {}

EngineSound ==
    /\ PullsAsConfigured /\ PolicyInForce /\ BootstrapComplete /\ QuietWhenSettled
    /\ ChartsCarried /\ NodeRegisters /\ NothingLeft
=============================================================================
