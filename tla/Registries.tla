------------------------------ MODULE Registries ------------------------------
(***************************************************************************)
(* The registries of a cluster document: which lists of them are accepted, *)
(* and what is written for the two kinds of engine, a registries.yaml      *)
(* (rke2 and k3s) and one hosts.toml for each registry (containerd).       *)
(*                                                                         *)
(* A registry is [name, auth, proxy, tls]: auth is [user, pass, token],    *)
(* proxy is a sequence of at most one [scheme, host, user, rewrite] and    *)
(* tls a sequence of at most one [ca, caFile, cert, key, skip].  A name,   *)
(* an address and a secret are strings; "" is one that is not given.       *)
(***************************************************************************)
EXTENDS Integers, Sequences, FiniteSets

CONSTANTS
    BadNames,   \* names with a scheme, a path or a blank in them
    PEM,        \* the texts that are certificates
    Opens,      \* what each encrypted text holds, as a function of the text
    Sanitized   \* hosts as names of files: what is not a letter, a digit or one of ._- becomes _

LastOf(S) == CHOOSE i \in S : \A j \in S : j <= i

IsEncrypted(v) == v \in DOMAIN Opens
Opened(v) == IF IsEncrypted(v) THEN Opens[v] ELSE v

-----------------------------------------------------------------------------
(* What is accepted.  The list is checked as it is loaded, while its        *)
(* secrets are still encrypted.                                             *)

validateRegistryName(n) == n # "" /\ n \notin BadNames

tlsValid(t) ==
    /\ t.ca = "" \/ t.caFile = ""
    /\ t.ca = "" \/ IsEncrypted(t.ca) \/ t.ca \in PEM
    /\ (t.cert = "") <=> (t.key = "")

\* A scheme is read from the address, or https is meant.
Endpoint(p) == <<IF p.scheme = "" THEN "https" ELSE p.scheme, p.host>>

\* A replacement may refer to the groups its pattern has.
proxyValid(p) ==
    /\ p.host # "" /\ p.user = ""
    /\ Endpoint(p)[1] \in {"http", "https"}
    /\ \A w \in p.rewrite : w.compiles /\ w.to # "" /\ w.refs \subseteq 0..w.groups

authValid(a) == (a.user = "") <=> (a.pass = "")

MirrorEndpoint(r) == IF r.proxy = <<>> THEN <<>> ELSE Endpoint(r.proxy[1])

\* The host a pull goes to, which is the one that credentials are for.
ConfigHost(r) == IF r.proxy = <<>> THEN r.name ELSE MirrorEndpoint(r)[2]

Valid(r) ==
    /\ validateRegistryName(r.name)
    /\ \A k \in DOMAIN r.tls : tlsValid(r.tls[k])
    /\ \A k \in DOMAIN r.proxy : proxyValid(r.proxy[k])
    /\ authValid(r.auth)
    /\ r.proxy # <<>> \/ r.tls # <<>> \/ r.auth.user # "" \/ r.auth.token # ""

\* Credentials that are encrypted cannot be compared, and count as the same; a token never does.
Unreadable(a) == \A f \in {"user", "pass", "token"} : a[f] = "" \/ IsEncrypted(a[f])

\* Mutant: only the TLS settings are compared.
sameTLS(a, b) == a.tls = b.tls

sameRegistryConfig(a, b) ==
    /\ \/ a.auth = b.auth
       \/ Unreadable(a.auth) /\ Unreadable(b.auth) /\ a.auth.token = "" /\ b.auth.token = ""
    /\ a.tls = b.tls

\* An entry is compared with the first of its host.
ValidateRegistries(rs) ==
    \A i \in DOMAIN rs :
        /\ Valid(rs[i])
        /\ \A j \in 1..(i - 1) : rs[j].name # rs[i].name
        /\ LET first == CHOOSE j \in 1..i : /\ ConfigHost(rs[j]) = ConfigHost(rs[i])
                                            /\ \A k \in 1..(j - 1) : ConfigHost(rs[k]) # ConfigHost(rs[i])
           IN first < i => sameRegistryConfig(rs[first], rs[i])

\* The list an engine is configured from.
DecryptRegistryAuth(rs) ==
    [i \in DOMAIN rs |->
        [rs[i] EXCEPT !.auth = [f \in DOMAIN @ |-> Opened(@[f])],
                      !.tls = [k \in DOMAIN @ |-> [@[k] EXCEPT !.ca = Opened(@)]]]]

-----------------------------------------------------------------------------
(* The files.  A path is a directory and a name.                            *)

registryCAPath(host) == <<"tls", Sanitized[host]>>

\* Of two hosts with one name of a file the last is written.
registryCAFiles(rs) ==
    LET with == {i \in DOMAIN rs : rs[i].tls # <<>> /\ rs[i].tls[1].ca # ""}
        at(p) == {i \in with : registryCAPath(ConfigHost(rs[i])) = p}
    IN [p \in {registryCAPath(ConfigHost(rs[i])) : i \in with} |-> <<rs[LastOf(at(p))].tls[1].ca>>]

\* A token is sent before a pair, and half a pair as it is.
registryAuth(a) ==
    IF a.token # "" THEN <<"token", a.token, "">>
    ELSE IF a.user # "" \/ a.pass # "" THEN <<"pair", a.user, a.pass>> ELSE <<>>

\* A header cannot be made of half a pair.
registryAuthHeader(a) ==
    IF a.token # "" THEN <<"token", a.token, "">>
    ELSE IF a.user # "" /\ a.pass # "" THEN <<"pair", a.user, a.pass>> ELSE <<>>

Client(t) == IF t = <<>> \/ t[1].cert = "" THEN <<>> ELSE <<t[1].cert, t[1].key>>
Skips(t) == t # <<>> /\ t[1].skip
registryTLS(t, host) ==
    [ca |-> IF t = <<>> \/ (t[1].ca = "" /\ t[1].caFile = "") THEN <<>>
            ELSE IF t[1].ca # "" THEN registryCAPath(host) ELSE <<"given", t[1].caFile>>,
     client |-> Client(t), skip |-> Skips(t)]
NoTLS == [ca |-> <<>>, client |-> <<>>, skip |-> FALSE]

Settings(r) == [auth |-> registryAuth(r.auth), tls |-> registryTLS(r.tls, ConfigHost(r))]
NoSettings == [auth |-> <<>>, tls |-> NoTLS]

\* Mutant: credentials are filed under the registry rather than the host a pull goes to.
configsByName(rs, host) == {i \in DOMAIN rs : rs[i].name = host /\ Settings(rs[i]) # NoSettings}

configsOf(rs, host) == {i \in DOMAIN rs : ConfigHost(rs[i]) = host /\ Settings(rs[i]) # NoSettings}

\* registries.yaml: where pulls for a name go, and what a host is asked with.
buildRegistriesConfig(rs) ==
    LET mirrored == {i \in DOMAIN rs : MirrorEndpoint(rs[i]) # <<>>}
        hosts == {h \in {ConfigHost(rs[i]) : i \in DOMAIN rs} \union {rs[i].name : i \in DOMAIN rs} :
                    configsOf(rs, h) # {}}
    IN [mirrors |-> [n \in {rs[i].name : i \in mirrored} |->
                        LET r == rs[CHOOSE i \in mirrored : rs[i].name = n]
                        IN [endpoint |-> MirrorEndpoint(r), rewrite |-> r.proxy[1].rewrite]],
        configs |-> [h \in hosts |-> Settings(rs[LastOf(configsOf(rs, h))])]]

\* hosts.toml, for the registries that have something to say.
hostsTOML(r) ==
    [endpoint |-> IF MirrorEndpoint(r) = <<>> THEN <<"https", r.name>> ELSE MirrorEndpoint(r),
     auth |-> registryAuthHeader(r.auth), tls |-> registryTLS(r.tls, ConfigHost(r))]
containerdHostsPath(name) == <<"certs", name>>
buildContainerdHostsConfigs(rs) ==
    LET said == {i \in DOMAIN rs : MirrorEndpoint(rs[i]) # <<>>
                    \/ hostsTOML(rs[i]).auth # <<>> \/ hostsTOML(rs[i]).tls # NoTLS}
    IN [p \in {containerdHostsPath(rs[i].name) : i \in said} |->
            hostsTOML(rs[CHOOSE i \in said : rs[i].name = p[2]])]

-----------------------------------------------------------------------------
(* What an engine makes of them: the endpoint it asks, the credential it    *)
(* sends and the certificate it trusts, read from the files F it has.       *)

Reads(F, p) == IF p \in DOMAIN F THEN F[p] ELSE <<>>
Asked(F, endpoint, s) ==
    [endpoint |-> endpoint, auth |-> s.auth, client |-> s.tls.client, skip |-> s.tls.skip,
     ca |-> IF s.tls.ca = <<>> \/ s.tls.ca[1] = "given" THEN s.tls.ca ELSE Reads(F, s.tls.ca)]
Direct(name) == <<"https", name>>

\* The mirror of the name, or the one of every name.
RancherPulls(F, path, name) ==
    IF path \notin DOMAIN F THEN Asked(F, Direct(name), NoSettings)
    ELSE LET M == F[path].mirrors
             e == IF name \in DOMAIN M THEN M[name].endpoint
                  ELSE IF "*" \in DOMAIN M THEN M["*"].endpoint ELSE Direct(name)
             C == F[path].configs
         IN Asked(F, e, IF e[2] \in DOMAIN C THEN C[e[2]] ELSE NoSettings)

\* The directory of the name; one that is called * is not looked up.
ContainerdPulls(F, name) ==
    LET p == containerdHostsPath(name)
    IN IF p \notin DOMAIN F THEN Asked(F, Direct(name), NoSettings) ELSE Asked(F, F[p].endpoint, F[p])

\* What the document asks for a registry.
Meant(r) ==
    [endpoint |-> IF r.proxy = <<>> THEN Direct(r.name) ELSE MirrorEndpoint(r),
     auth |-> registryAuth([f \in DOMAIN r.auth |-> Opened(r.auth[f])]),
     client |-> Client(r.tls), skip |-> Skips(r.tls),
     ca |-> IF r.tls = <<>> THEN <<>> ELSE IF r.tls[1].ca # "" THEN <<Opened(r.tls[1].ca)>>
            ELSE IF r.tls[1].caFile # "" THEN <<"given", r.tls[1].caFile>> ELSE <<>>]
=============================================================================
