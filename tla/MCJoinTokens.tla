------------------------------ MODULE MCJoinTokens ----------------------------
(***************************************************************************)
(* How hosts come to be a cluster and how its operator reaches it: the     *)
(* checks of the hosts, the join tokens and the kubeconfig. They share no  *)
(* state, so a behaviour is one of them, which `subject` names.            *)
(***************************************************************************)
EXTENDS JoinTokens, Access, Preflight, TLC

CONSTANTS ka, kb

VARIABLE subject

(* Two controllers and a worker; lists in both orders of the controllers, with and without the worker. *)
MCHosts == {"c1", "c2", "w"}
MCControllers == {"c1", "c2"}
MCLists == {<<"c1", "c2", "w">>, <<"c2", "c1", "w">>, <<"c1">>, <<"c2">>, <<"c2", "w">>}

(* Rules: one of a profile, one the host names the same in another spelling, two without a name that *)
(* match the same, and ones no backend can apply; ports at the ends of their range. *)
Port(t, l, r, h) == [text |-> t, low |-> l, range |-> r, high |-> h]
NoPort == Port("", 0, FALSE, 0)
Rule(n, a, d, p, proto) == [name |-> n, action |-> a, direction |-> d, source |-> "", ingress |-> "", egress |-> "", port |-> p, protocol |-> proto]
Metrics == Rule("metrics", "allow", "", Port("9100", 9100, FALSE, 0), "tcp")
OwnMetrics == Rule("Metrics", "deny", "in", NoPort, "")
Unnamed == Rule("", "allow", "", Port("1-65535", 1, TRUE, 65535), "udp")
Forward == [Rule("pods", "allow", "forward", NoPort, "") EXCEPT !.ingress = "public", !.egress = "trusted"]
BadRules == {Rule("x", "allow", "", Port("0", 0, FALSE, 0), "tcp"), Rule("x", "allow", "", Port("9-9", 9, TRUE, 9), "tcp"),
    Rule("x", "allow", "", Port("65536", 65536, FALSE, 0), "tcp"), Rule("x", "allow", "", Port("1-65536", 1, TRUE, 65536), "tcp"),
    Rule("x", "allow", "", Port("22", 22, FALSE, 0), ""), Rule("x", "allow", "", NoPort, "icmp"), Rule("x", "log", "", NoPort, ""),
    Rule("x", "allow", "up", NoPort, ""), Rule("x", "allow", "forward", NoPort, ""), [Rule("x", "allow", "out", NoPort, "") EXCEPT !.egress = "lan"],
    [Rule("x", "allow", "", NoPort, "") EXCEPT !.source = "not-an-address"]}

(* A host that needs nothing, and what may differ of it. *)
OnEth1 == [a |-> "10.0.0.1", b |-> "10.0.0.2", c |-> "10.0.0.3"]
Plain(n) == [hostname |-> "", iface |-> "", addr |-> "", profile |-> "", rules |-> <<>>, taints |-> <<>>,
    answers |-> {"ok"}, os |-> "ubuntu", like |-> <<>>, uname |-> "amd64", answersTo |-> n, device |-> "eth1",
    addrs |-> <<"fd00::1", "192.0.2.1", OnEth1[n]>>, public |-> "192.0.2.1", skew |-> 0, clock |-> TRUE, sudo |-> TRUE, fits |-> TRUE]
Firsts == {Plain("a"), [Plain("a") EXCEPT !.answers = {"ok", "later"}], [Plain("a") EXCEPT !.answers = {"later", "mismatch"}],
    [Plain("a") EXCEPT !.os = "mint", !.like = <<"lm", "ubuntu", "debian">>], [Plain("a") EXCEPT !.os = "plan9", !.like = <<"unix">>],
    [Plain("a") EXCEPT !.os = ""], [Plain("a") EXCEPT !.hostname = "b"], [Plain("a") EXCEPT !.hostname = "n"], [Plain("a") EXCEPT !.answersTo = ""],
    [Plain("a") EXCEPT !.uname = ""], [Plain("a") EXCEPT !.uname = "s390x"], [Plain("a") EXCEPT !.addr = "10.0.0.2"],
    [Plain("a") EXCEPT !.iface = "eth9", !.addrs = <<>>], [Plain("a") EXCEPT !.device = ""], [Plain("a") EXCEPT !.sudo = FALSE],
    [Plain("a") EXCEPT !.fits = FALSE], [Plain("a") EXCEPT !.clock = FALSE], [Plain("a") EXCEPT !.profile = "none"]}
    \union {[Plain("a") EXCEPT !.rules = <<r>>] : r \in BadRules \union {Unnamed}} \union {[Plain("a") EXCEPT !.rules = <<Metrics, OwnMetrics>>]}
    \union {[Plain("a") EXCEPT !.profile = "edge", !.rules = rs, !.taints = ts] :
        rs \in {<<>>, <<OwnMetrics>>, <<Unnamed>>, <<Unnamed, Unnamed>>}, ts \in {<<>>, <<"own">>}}
    \union {[Plain("a") EXCEPT !.skew = k] : k \in {-31, -30, 30, 31}}
Seconds == {Plain("b"), [Plain("b") EXCEPT !.device = ""], [Plain("b") EXCEPT !.skew = 30]}
Thirds == {Plain("c"), [Plain("c") EXCEPT !.skew = 60]}
AllInventories == {<<f, s>> : f \in Firsts, s \in Seconds} \union {<<f, s, t>> : f \in {x \in Firsts : x.skew # 0} \union {Plain("a")}, s \in Seconds, t \in Thirds}

EdgeProfile == [edge |-> [rules |-> <<Metrics, Forward, Forward>>, taints |-> <<"edge", "edge">>]]
MCSanitized == [metrics |-> "metrics", Metrics |-> "metrics", pods |-> "pods", x |-> "x"]

(* Two clusters: one with a controller that may stop and a worker whose name is spelled in capitals, *)
(* one of a single host; kubeconfigs that embed, that name files, that lack a piece, and broken ones. *)
Holding(ca, cert, key) == [readable |-> TRUE, named |-> TRUE, holds |-> [ca |-> ca, cert |-> cert, key |-> key]]
Embedding == Holding("data", "data", "data")
FilesSeen == {Embedding, Holding("path", "path", "path"), Holding("data", "path", "missing"), Holding("data", "data", "none"),
    [Embedding EXCEPT !.readable = FALSE], [Embedding EXCEPT !.named = FALSE]}
H(n, ctl, p) == [name |-> n, controller |-> ctl, running |-> TRUE, profile |-> p]
Fleet == <<H("cp", TRUE, "cp"), H("W1", FALSE, "edge"), H("w2", FALSE, ""), H("w3", FALSE, "edge")>>
Lowered == [cp |-> "cp", W1 |-> "w1", w1 |-> "w1", w2 |-> "w2", w3 |-> "w3", cq |-> "cq"]
Here(f, ns) == ka :> [file |-> f, hosts |-> Fleet, nodes |-> ns] @@ kb :> [file |-> Embedding, hosts |-> <<H("cq", TRUE, "")>>, nodes |-> [cq |-> {}]]
TwoClusters == {Here(f, [cp |-> {}, w1 |-> {}]) : f \in FilesSeen} \union {Here(Embedding, [cp |-> {"cp"}, w1 |-> {"given"}, w2 |-> {}])}

MCRuns == {ka, kb}

-----------------------------------------------------------------------------
PreflightIdle == inv = <<>> /\ facts = <<>> /\ step = "idle" /\ todo = {} /\ failed = {}
AccessIdle ==
    /\ file = [c \in Runs |-> NoneThere] /\ hosts = [c \in Runs |-> <<>>] /\ nodes = [c \in Runs |-> <<>>] /\ gen = [c \in Runs |-> 0]
    /\ kube = NewConfig /\ session = [c \in Runs |-> Fresh] /\ lost = {} /\ stops = 0 /\ starts = 0
TokensIdle ==
    /\ kind = "rancher" /\ tokens = [h \in Hosts |-> NoTokens] /\ server = [h \in Hosts |-> NoHost]
    /\ installed = {} /\ running = {} /\ member = [h \in Hosts |-> 0]
    /\ clusters = << >> /\ expired = {} /\ run = NoRun /\ fresh = 0
    /\ runs = 0 /\ deletes = 0 /\ faults = 0 /\ spoilt = {} /\ refused = {}

ClusterInit ==
    \/ subject = "tokens" /\ Init /\ PreflightIdle /\ AccessIdle
    \/ subject = "hosts" /\ TokensIdle /\ PreflightInit /\ AccessIdle
    \/ subject = "access" /\ TokensIdle /\ PreflightIdle /\ AccessInit
ClusterNext ==
    \/ subject = "tokens" /\ Next /\ UNCHANGED <<subject, preflightVars, accessVars>>
    \/ subject = "hosts" /\ PreflightNext /\ UNCHANGED <<subject, vars, accessVars>>
    \/ subject = "access" /\ AccessNext /\ UNCHANGED <<subject, vars, preflightVars>>
ClusterSpec == ClusterInit /\ [][ClusterNext]_<<subject, vars, preflightVars, accessVars>>
=============================================================================
