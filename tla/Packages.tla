------------------------------- MODULE Packages -------------------------------
(***************************************************************************)
(* A package from the sources it is built from to the process that applies *)
(* it: create, sign, archive, publish to a registry, pull, import and      *)
(* load.  Processes keep a package in a directory of their own and meet in *)
(* two places: the tarball of one name, written in place, and the index of *)
(* one tag, which every publisher reads, changes and writes back.          *)
(*                                                                         *)
(* A file is its digest; a package is the digests of its parts with the    *)
(* distro.yaml that lists them (checksums.txt is bound to it by its        *)
(* aggregate checksum) and the bundle that signs that distro.yaml.         *)
(***************************************************************************)
EXTENDS Naturals, Sequences, FiniteSets, Functions

CONSTANTS
    Processes,      \* processes at work
    Arches,     \* the architectures the definition declares
    PartSeq,    \* the parts of the package, in the order they are pulled
    Group,      \* [part -> "images", "files", "os" or "values"]
    Served,     \* [part -> the digests its declared source may answer with]
    Mirrored,   \* [part -> the digests an override or a content store may answer with]
    Shasum,     \* [part -> the declared digest, 0 for none]
    Keys,       \* signing keys
    MaxOps,     \* bound on the operations started
    MaxFaults   \* bound on failures, kills and damage

Parts == Range(PartSeq)
NoKey == "none"
Damaged == 99
Digests == {Damaged} \union UNION {Served[f] \union Mirrored[f] : f \in Parts}

ASSUME PackagesAssumption ==
    /\ Processes # {} /\ Arches # {} /\ NoKey \notin Keys /\ PartSeq \in Seq(Parts)
    /\ 0 \notin UNION {Served[f] \union Mirrored[f] : f \in Parts}
    /\ \A f \in Parts : Group[f] \in {"images", "files", "os", "values"}
    /\ \A f \in Parts : Group[f] \in {"images", "values"} => Shasum[f] = 0
    /\ MaxOps \in Nat /\ MaxFaults \in Nat

VARIABLES
    work,       \* [Processes -> what it does, and the package it has in its directory]
    tars,       \* [tarball name -> the tarball]
    index,      \* [Arches -> the manifest the tag's index lists for it]
    latest,     \* [Arches -> the manifest last published for it]
    raced,      \* an index was written that had changed since it was read
    builds,     \* what was built: the digests recorded and the architectures
    signatures, \* what was signed, with which key
    ops, faults

packageVars == <<work, tars, index, latest, raced, builds, signatures, ops, faults>>

(* distro.yaml, a bundle, a package. `via` says what the package went through. *)
NoYaml == [sums |-> [f \in Parts |-> 0], arches |-> {}, signed |-> FALSE]
NoBundle == [key |-> NoKey, of |-> NoYaml]
NoPackage == [have |-> [f \in Parts |-> 0], yaml |-> NoYaml, bundle |-> NoBundle, via |-> {}]
NoTar == [state |-> "none", pkg |-> NoPackage]
NoIndex == [a \in Arches |-> NoPackage]
NoWork == [pc |-> "idle", pkg |-> NoPackage, pushable |-> FALSE, trust |-> NoKey, read |-> NoIndex]

Stages == {"idle", "loaded", "archiving", "pushed", "fetched"}
TarNames == Arches \union {"multi"}

PackagesTypeOK ==
    /\ \A p \in Processes :
        /\ work[p].pc \in Stages /\ work[p].pushable \in BOOLEAN /\ work[p].trust \in Keys \union {NoKey}
        /\ work[p].pkg.have \in [Parts -> Digests \union {0}]
        /\ work[p].pkg.via \subseteq {"registry", "short"}
        /\ work[p].pc # "idle" => work[p].pkg.yaml.arches # {}
    /\ \A n \in TarNames : tars[n].state \in {"none", "whole", "short", "torn"}
    /\ DOMAIN index = Arches /\ raced \in BOOLEAN
    /\ ops \in 0..MaxOps /\ faults \in 0..MaxFaults

PackagesInit ==
    /\ work = [p \in Processes |-> NoWork] /\ tars = [n \in TarNames |-> NoTar]
    /\ index = NoIndex /\ latest = NoIndex /\ raced = FALSE
    /\ builds = {} /\ signatures = {} /\ ops = 0 /\ faults = 0

Doing(p, pc) == work[p].pc = pc
Op == ops < MaxOps /\ ops' = ops + 1
Fault == faults < MaxFaults /\ faults' = faults + 1

-----------------------------------------------------------------------------
(* Create *)

(* fileGrabber: a file with a shasum is that file; one without is taken from its declared source *)
(* and no other. *)
Accepts(f, from, d) ==
    /\ from # "declared" => Shasum[f] # 0
    /\ Shasum[f] # 0 => d = Shasum[f]

(* packageValues takes a values file from where it is declared, images.Pull an image from a    *)
(* registry or a content store, whatever they have under the name now.                         *)
packageValues(f) == Served[f]
ImagesPull(f) == Served[f] \union Mirrored[f]
fileGrabber(f) == {d \in Served[f] : Accepts(f, "declared", d)}
                  \union {d \in Mirrored[f] : Accepts(f, "override", d) \/ Accepts(f, "store", d)}
Staged(f) == CASE Group[f] = "values" -> packageValues(f)
               [] Group[f] = "images" -> ImagesPull(f)
               [] OTHER -> fileGrabber(f)

(* AssembleDistro: one digest for every part. recordDistroMetadata writes them down. *)
Stagings ==
    LET staged == [f \in Parts |-> Staged(f)]
    IN {h \in [Parts -> UNION Range(staged)] : \A f \in Parts : h[f] \in staged[f]}

Recorded(h, as) == [sums |-> h, arches |-> as, signed |-> FALSE]

(* resolveArchitectures: all the architectures declared, or the one that was asked for. *)
Targets == {Arches} \union {{a} : a \in Arches}

(* SignBlobWithKey; VerifyBlobWithKey accepts the key and the very bytes of the signing. *)
Bundle(k, yaml) == [key |-> k, of |-> yaml]
BundleVerifies(bundle, k, yaml) == bundle = Bundle(k, yaml)

\* Mutant of SignPackage: the bundle is made of the distro.yaml as it was.
SignPackageEarly(pkg, k) ==
    [pkg EXCEPT !.yaml.signed = TRUE, !.bundle = Bundle(k, pkg.yaml)]

(* SignPackage: distro.yaml says that it is signed and the bundle is made over it. When either *)
(* cannot be put in place the caller gives the package up, so only the whole is of interest. *)
SignPackage(pkg, k) ==
    LET yaml == [pkg.yaml EXCEPT !.signed = TRUE]
    IN [pkg EXCEPT !.yaml = yaml, !.bundle = Bundle(k, yaml)]

Signature(pkg) == [key |-> pkg.bundle.key, sums |-> pkg.yaml.sums, arches |-> pkg.yaml.arches]

Build(p) ==
    /\ Doing(p, "idle") /\ Op
    /\ \E h \in Stagings, as \in Targets, k \in Keys \union {NoKey} :
        LET bare == [NoPackage EXCEPT !.have = h, !.yaml = Recorded(h, as)]
            pkg == IF k = NoKey THEN bare ELSE SignPackage(bare, k)
        IN /\ work' = [work EXCEPT ![p] = [NoWork EXCEPT !.pc = "loaded", !.pkg = pkg,
                                                       !.pushable = (k # NoKey)]]
           /\ builds' = builds \union {[sums |-> h, arches |-> as]}
           /\ signatures' = IF k = NoKey THEN signatures ELSE signatures \union {Signature(pkg)}
    /\ UNCHANGED <<tars, index, latest, raced, faults>>

-----------------------------------------------------------------------------
(* Archive *)

(* FileName *)
FileName(as) == IF Cardinality(as) = 1 THEN CHOOSE a \in as : TRUE ELSE "multi"
MyTar(p) == FileName(work[p].pkg.yaml.arches)

(* Archive removes the tarball of that name and writes it in place. *)
Archive(p) ==
    /\ Doing(p, "loaded")
    /\ tars' = [tars EXCEPT ![MyTar(p)] = [NoTar EXCEPT !.state = "torn"]]
    /\ work' = [work EXCEPT ![p].pc = "archiving"]
    /\ UNCHANGED <<index, latest, raced, builds, signatures, ops, faults>>

(* The tarball is complete, unless another process wrote one of that name meanwhile: then it is *)
(* one of the two or neither. *)
Archived(p) ==
    LET others == {q \in Processes \ {p} : Doing(q, "archiving") /\ MyTar(q) = MyTar(p)}
    IN /\ Doing(p, "archiving")
       /\ \/ tars' = [tars EXCEPT ![MyTar(p)] = [state |-> "whole", pkg |-> work[p].pkg]]
          \/ others # {} /\ tars' = [tars EXCEPT ![MyTar(p)] = [NoTar EXCEPT !.state = "torn"]]
       /\ work' = [work EXCEPT ![p] = NoWork]
       /\ UNCHANGED <<index, latest, raced, builds, signatures, ops, faults>>

(* A process dies. A tarball it was writing does not decompress, or, uncompressed and broken off *)
(* after a file, reads as a shorter one. *)
Prefix(pkg, n) == [f \in Parts |-> IF f \in {PartSeq[i] : i \in 1..n} THEN pkg.have[f] ELSE 0]

Dies(p) ==
    /\ work[p].pc \in {"archiving", "pushed", "fetched"} /\ Fault
    /\ IF Doing(p, "archiving")
       THEN \E n \in 0..Len(PartSeq) :
                tars' = [tars EXCEPT ![MyTar(p)] =
                    IF n = Len(PartSeq) THEN [NoTar EXCEPT !.state = "torn"]
                    ELSE [state |-> "short", pkg |-> [work[p].pkg EXCEPT !.have = Prefix(work[p].pkg, n),
                                                                         !.via = @ \union {"short"}]]]
       ELSE UNCHANGED tars
    /\ work' = [work EXCEPT ![p] = NoWork]
    /\ UNCHANGED <<index, latest, raced, builds, signatures, ops>>

(* A part of a stored tarball is damaged. *)
Damage ==
    /\ Fault
    /\ \E n \in TarNames, f \in Parts :
        /\ tars[n].state = "whole" /\ tars[n].pkg.have[f] # 0
        /\ tars' = [tars EXCEPT ![n].pkg.have[f] = Damaged]
    /\ UNCHANGED <<work, index, latest, raced, builds, signatures, ops>>

-----------------------------------------------------------------------------
(* Load *)

\* Mutant of Intact: files are only counted.
IntactListed(pkg) == TRUE

(* validateDistroIntegrity: a file that is there is listed and has the digest listed; one that is *)
(* listed and not there is passed over. *)
Intact(pkg) == \A f \in Parts : pkg.have[f] # 0 => pkg.have[f] = pkg.yaml.sums[f]

(* VerifyPackageSignature and what LoadFromDir makes of its answer. With nothing to verify *)
(* against, `always` refuses and `if possible` goes on. *)
Verified(pkg, k, always) ==
    /\ ~pkg.yaml.signed /\ k # NoKey => FALSE
    /\ always => (pkg.yaml.signed /\ k # NoKey /\ pkg.bundle # NoBundle)
    /\ (k # NoKey /\ pkg.yaml.signed /\ pkg.bundle # NoBundle) => BundleVerifies(pkg.bundle, k, pkg.yaml)

(* computeManifest: a layer for every file that is there, under the digest that checksums.txt has *)
(* for it. A manifest that a registry answered with is no source to push from. *)
computeManifest(pkg) ==
    [pkg EXCEPT !.have = [f \in Parts |-> IF pkg.have[f] = 0 THEN 0 ELSE pkg.yaml.sums[f]]]
SetRegistryDigest(layout) == [layout EXCEPT !.pushable = FALSE]

(* Fetch serves a layer from its file, and the registry takes only what has the digest it is under. *)
Fetch(pkg) == \A f \in Parts : pkg.have[f] = computeManifest(pkg).have[f]

(* LoadFromDir: what was loaded and, when it was verified for good, with which key. *)
LoadFromDir(p, pkg, fromRegistry) ==
    \E k \in Keys \union {NoKey}, always \in BOOLEAN :
        LET layout == [NoWork EXCEPT !.pc = "loaded", !.pkg = pkg, !.pushable = TRUE,
                                   !.trust = IF always THEN k ELSE NoKey]
        IN /\ Intact(pkg) /\ Verified(pkg, k, always)
           /\ work' = [work EXCEPT ![p] = IF fromRegistry THEN SetRegistryDigest(layout) ELSE layout]

LoadTar(p) ==
    /\ Doing(p, "idle") /\ Op
    /\ \E n \in TarNames : tars[n].state \in {"whole", "short"} /\ LoadFromDir(p, tars[n].pkg, FALSE)
    /\ UNCHANGED <<tars, index, latest, raced, builds, signatures, faults>>

(* pullHTTPFile: the archive as it is served, or as much of it as arrived. *)
pullHTTPFile(n) ==
    IF tars[n].state = "whole" THEN {tars[n], [tars[n] EXCEPT !.state = "short"]} ELSE {tars[n]}

(* pullHTTP: what arrived has the checksum given, that of an archive written whole. *)
PullHTTP(p) ==
    /\ Doing(p, "idle") /\ Op
    /\ \E n \in TarNames : \E got \in pullHTTPFile(n) :
        got.state = "whole" /\ LoadFromDir(p, got.pkg, FALSE)
    /\ UNCHANGED <<tars, index, latest, raced, builds, signatures, faults>>

(* AssembleLayers: the images, the files and the OS files, each digest once. *)
Pos(f) == CHOOSE i \in 1..Len(PartSeq) : PartSeq[i] = f
Wanted(m) == {f \in Parts : m.have[f] # 0 /\ Group[f] \in {"images", "files", "os"}}
Twin(m, f) == \E g \in Wanted(m) : Pos(g) < Pos(f) /\ m.have[g] = m.have[f]
Layers(m) == [f \in Parts |-> IF f \in Wanted(m) /\ ~Twin(m, f) THEN m.have[f] ELSE 0]

Extracted(m) == [m EXCEPT !.have = Layers(m), !.via = @ \union {"registry"}]
Listed == {index[a] : a \in Arches} \ {NoPackage}

(* pullOCI: the manifest of the architecture, else the only one there is. *)
Resolved(a) == IF index[a] # NoPackage THEN {index[a]} ELSE IF Cardinality(Listed) = 1 THEN Listed ELSE {}

(* LayersFromImages refuses a package without the images it declares. *)
ImagesThere(m) == \A f \in Parts : Group[f] = "images" => m.have[f] # 0

PullOCI(p) ==
    /\ Doing(p, "idle") /\ Op
    /\ \E a \in Arches : \E m \in Resolved(a) : ImagesThere(m) /\ LoadFromDir(p, Extracted(m), TRUE)
    /\ UNCHANGED <<tars, index, latest, raced, builds, signatures, faults>>

(* Import reads a copy of the tag in a directory. selectManifest takes the manifest of the *)
(* architecture, else the first there is. *)
selectManifest(a) == IF index[a] # NoPackage THEN {index[a]} ELSE Listed

Import(p) ==
    /\ Doing(p, "idle") /\ Op
    /\ \E a \in Arches : \E m \in selectManifest(a) :
        ImagesThere(m) /\ LoadFromDir(p, Extracted(m), TRUE)
    /\ UNCHANGED <<tars, index, latest, raced, builds, signatures, faults>>

-----------------------------------------------------------------------------
(* Sign, publish *)

(* package sign, with --overwrite for a package that is signed; the manifest to push is computed *)
(* anew. *)
Sign(p) ==
    /\ Doing(p, "loaded") /\ Op
    /\ \E k \in Keys :
        LET pkg == SignPackage(work[p].pkg, k)
        IN /\ work' = [work EXCEPT ![p].pkg = pkg, ![p].pushable = TRUE, ![p].trust = NoKey]
           /\ signatures' = signatures \union {Signature(pkg)}
    /\ UNCHANGED <<tars, index, latest, raced, builds, faults>>

(* PushPackage copies the blobs and the manifest; a package that came from a registry is not *)
(* pushable until it is signed again. *)
PushPackage(p) ==
    /\ Doing(p, "loaded") /\ work[p].pushable /\ Fetch(work[p].pkg) /\ Op
    /\ work' = [work EXCEPT ![p].pc = "pushed"]
    /\ UNCHANGED <<tars, index, latest, raced, builds, signatures, faults>>

FetchIndex(p) ==
    /\ Doing(p, "pushed")
    /\ work' = [work EXCEPT ![p].pc = "fetched", ![p].read = index]
    /\ UNCHANGED <<tars, index, latest, raced, builds, signatures, ops, faults>>

\* Mutant of updateIndexForArches: the index lists the architectures of this package.
updateIndexAnew(read, pkg) == [a \in Arches |-> IF a \in pkg.yaml.arches THEN pkg ELSE NoPackage]

updateIndexForArches(read, pkg) == [a \in Arches |-> IF a \in pkg.yaml.arches THEN pkg ELSE read[a]]

PushIndex(p) ==
    LET pkg == computeManifest(work[p].pkg) IN
    /\ Doing(p, "fetched")
    /\ index' = updateIndexForArches(work[p].read, pkg)
    /\ latest' = [a \in Arches |-> IF a \in pkg.yaml.arches THEN pkg ELSE latest[a]]
    /\ raced' = (raced \/ index # work[p].read)
    /\ work' = [work EXCEPT ![p] = NoWork]
    /\ UNCHANGED <<tars, builds, signatures, ops, faults>>

(* A failed request: the attempt starts again, index and all, or the command gives up. *)
PushFails(p) ==
    /\ work[p].pc \in {"pushed", "fetched"} /\ Fault
    /\ \/ work' = [work EXCEPT ![p].pc = "pushed", ![p].read = NoIndex]
       \/ work' = [work EXCEPT ![p] = NoWork]
    /\ UNCHANGED <<tars, index, latest, raced, builds, signatures, ops>>

(* The command that loaded or built the package is done with it. *)
Cleanup(p) ==
    /\ Doing(p, "loaded") /\ work' = [work EXCEPT ![p] = NoWork]
    /\ UNCHANGED <<tars, index, latest, raced, builds, signatures, ops, faults>>

PackagesNext ==
    \/ \E p \in Processes :
        \/ Build(p) \/ Archive(p) \/ Archived(p) \/ LoadTar(p) \/ PullHTTP(p) \/ PullOCI(p) \/ Import(p)
        \/ Sign(p) \/ PushPackage(p) \/ FetchIndex(p) \/ PushIndex(p) \/ PushFails(p)
        \/ Cleanup(p) \/ Dies(p)
    \/ Damage

PackagesSpec == PackagesInit /\ [][PackagesNext]_packageVars

-----------------------------------------------------------------------------
InHand == {work[p].pkg : p \in {q \in Processes : ~Doing(q, "idle")}}
OnOffer == Listed \union {tars[n].pkg : n \in {t \in TarNames : tars[t].state \in {"whole", "short"}}}

(* A package that was loaded holds what a build recorded, file by file, whatever it went through *)
(* and however its tarball was damaged: validateDistroIntegrity. *)
LoadedAsBuilt ==
    \A pkg \in InHand :
        /\ [sums |-> pkg.yaml.sums, arches |-> pkg.yaml.arches] \in builds
        /\ \A f \in Parts : pkg.have[f] \in {0, pkg.yaml.sums[f]}

(* It lacks a part only for a reason: the registry keeps no values and one file of each digest, *)
(* and a tarball broken off after a file reads as whole. *)
LoadedWhole ==
    \A pkg \in InHand : \A f \in Parts : pkg.have[f] = 0 =>
        \/ "short" \in pkg.via
        \/ "registry" \in pkg.via /\ (Group[f] = "values" \/ \E g \in Parts \ {f} : pkg.have[g] = pkg.yaml.sums[f])

(* A file that declares a shasum is that file in every package built or on offer, and one that *)
(* declares none is as its own source served it. Images are bound to their names only. *)
AsDeclared ==
    \A pkg \in InHand \union OnOffer : \A f \in {g \in Parts : Group[g] # "images"} :
        pkg.yaml.sums[f] \in (IF Shasum[f] = 0 THEN Served[f] ELSE {Shasum[f]})

(* A package loaded with a key under `always` is one that was signed with it, contents and all. *)
TrustedWasSigned ==
    \A p \in Processes : work[p].trust # NoKey =>
        [key |-> work[p].trust, sums |-> work[p].pkg.yaml.sums, arches |-> work[p].pkg.yaml.arches]
            \in signatures

(* What says it is signed can be verified: its bundle was made over that very distro.yaml. *)
SignedVerifies == \A pkg \in InHand \union OnOffer : pkg.yaml.signed => pkg.bundle.of = pkg.yaml

(* The tag resolves every architecture to the package last published for it, as long as no two *)
(* publishers changed the index at once; publishing one leaves the others alone. *)
LatestResolves == ~raced => index = latest

(* What a package holds, from its build through tarballs and registries to the load: what was  *)
(* declared, what was built, and all of it but for the losses that are named; a signed package *)
(* verifies, what verified was signed so, and a tag leads to what was last published. *)
PackagesSound ==
    /\ PackagesTypeOK /\ LoadedAsBuilt /\ LoadedWhole /\ AsDeclared
    /\ TrustedWasSigned /\ SignedVerifies /\ LatestResolves
=============================================================================
