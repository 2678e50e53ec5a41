-------------------------------- MODULE Mirror --------------------------------
(***************************************************************************)
(* `package mirror`: processes push the images and files of their packages *)
(* to one registry, piece by piece and with retries.  Where an item goes   *)
(* is computed from its name alone, because whoever reads the mirror can   *)
(* only compute it again: containerd asks for an image's path unchanged,   *)
(* and a file has a tag made of its source.                                *)
(***************************************************************************)
EXTENDS Naturals, Sequences, Functions

CONSTANTS
    Mirrors,        \* processes
    Carries,        \* [Mirrors -> [images, files, os: sequences of items]]
    Destinations,   \* command lines: [arg, config, proxies]
    Attempts,       \* tries of one push
    NoSource        \* the source of a file whose content is inline

Files(m) == Range(Carries[m].files) \union Range(Carries[m].os)

(* An image has no tag that is the digest of a file's source. *)
ASSUME MirrorAssumption ==
    /\ \A m \in Mirrors : LET p == Carries[m] IN
        /\ p.images \in Seq(Range(p.images)) /\ p.files \in Seq(Range(p.files)) /\ p.os \in Seq(Range(p.os))
        /\ \A img \in Range(p.images) : img.blobs \in Seq(Range(img.blobs))
    /\ \A m, n \in Mirrors : \A img \in Range(Carries[m].images), f \in Files(n) : img.tag # f.source

VARIABLES
    mirror,     \* [Mirrors -> the process]
    blobs,      \* the registry's blobs: <<repository, digest>>
    tags        \* the registry's tags: [<<repository, tag>> -> manifest]

mirrorVars == <<mirror, blobs, tags>>

(* The command line's choice; neither half named means both. *)
Selected(flags) == IF flags = {} THEN {"images", "files"} ELSE flags

MirrorInit ==
    /\ \E d \in Destinations, flags \in {{}, {"images"}, {"files"}} :
        mirror = [m \in Mirrors |-> [at |-> "target", dest |-> d, halves |-> Selected(flags),
                                     target |-> "none", item |-> 1, part |-> 1, tries |-> 0]]
    /\ blobs = {} /\ tags = <<>>

-----------------------------------------------------------------------------
(* The proxy of a registry entry, completed with a scheme: MirrorEndpoint. *)
MirrorEndpoint(p) == IF p.url = "none" THEN "none" ELSE p.host

(* resolveTarget: an argument, which must be an OCI address, or the only proxy the cluster *)
(* configuration declares, never both. *)
Proxied(d) == {i \in DOMAIN d.proxies : MirrorEndpoint(d.proxies[i]) # "none"}

resolveTarget(d) ==
    CASE d.arg # "none" -> IF d.config \/ d.arg = "plain" THEN "error" ELSE d.arg
      [] d.arg = "none" /\ d.config /\ (\E i \in Proxied(d) : Proxied(d) = {i}) ->
            d.proxies[CHOOSE i \in Proxied(d) : TRUE].host
      [] OTHER -> "error"

ResolveTarget(m) ==
    /\ mirror[m].at = "target"
    /\ LET t == resolveTarget(mirror[m].dest) IN
        mirror' = IF t = "error" THEN [mirror EXCEPT ![m].at = "failed"]
                  ELSE [mirror EXCEPT ![m].at = "connect", ![m].target = t]
    /\ UNCHANGED <<blobs, tags>>

-----------------------------------------------------------------------------
(* The reference of an image in the mirror: the target for its host, and its path unchanged. *)
ImageRef(img) == <<img.path, img.tag>>

(* The reference of a file: its name for people, and a digest of its whole source. *)
FileRef(f) == <<<<"files", f.base>>, f.source>>

ImageItem(img) == [kind |-> "image", ref |-> ImageRef(img), of |-> <<img.host>> \o img.path, parts |-> img.blobs]

EmptyConfig == 0
(* pushFile: hauler's shape, an empty config and one layer. A file with no source is inline. *)
FileItem(f) == [kind |-> IF f.source = NoSource THEN "inline" ELSE "file", ref |-> FileRef(f), of |-> <<"file", f.source>>, parts |-> <<EmptyConfig, f.content>>]

(* mirrorImages and mirrorFiles: every image of the package, those of disabled charts too, and the *)
(* files of both lists. *)
Items(m) ==
    LET images == Carries[m].images
        files == Carries[m].files \o Carries[m].os
    IN (IF "images" \in mirror[m].halves THEN [i \in DOMAIN images |-> ImageItem(images[i])] ELSE <<>>)
       \o (IF "files" \in mirror[m].halves THEN [i \in DOMAIN files |-> FileItem(files[i])] ELSE <<>>)

Item(m) == Items(m)[mirror[m].item]

(* NewRegistryClient and ShouldUsePlainHTTP: over https, else over http, else an error. *)
Connect(m) ==
    /\ mirror[m].at = "connect"
    /\ \E ok \in BOOLEAN : mirror' = [mirror EXCEPT ![m].at = IF ~ok THEN "failed" ELSE IF Items(m) = <<>> THEN "done" ELSE "push"]
    /\ UNCHANGED <<blobs, tags>>

Manifest(i) == [parts |-> Range(i.parts), of |-> i.of]

\* Mutant of Tagging: the manifest is pushed before the last blob.
TagEarly(m) == mirror[m].part >= Len(Item(m).parts)

(* The blobs come before the manifest that names them. *)
Tagging(m) == mirror[m].part > Len(Item(m).parts)

NextItem(m) ==
    mirror' = [mirror EXCEPT ![m].part = 1, ![m].tries = 0, ![m].item = @ + 1, ![m].at = IF mirror[m].item = Len(Items(m)) THEN "done" ELSE "push"]

(* What has no source has no reference either: it is passed over. *)
PassOver(m) ==
    /\ mirror[m].at = "push" /\ Item(m).kind = "inline"
    /\ NextItem(m)
    /\ UNCHANGED <<blobs, tags>>

(* One push of pushFile or one transfer of oras.Copy that the registry took: the next part, and *)
(* after the manifest the next item. *)
Push(m) ==
    LET i == Item(m) IN
    /\ mirror[m].at = "push" /\ i.kind # "inline"
    /\ IF Tagging(m)
       THEN /\ tags' = [r \in DOMAIN tags \union {i.ref} |-> IF r = i.ref THEN Manifest(i) ELSE tags[r]]
            /\ NextItem(m)
            /\ UNCHANGED blobs
       ELSE /\ blobs' = blobs \union {<<i.ref[1], i.parts[mirror[m].part]>>}
            /\ mirror' = [mirror EXCEPT ![m].part = @ + 1, ![m].tries = IF i.kind = "file" THEN 0 ELSE @]
            /\ UNCHANGED tags

(* A push that failed is tried again: the part of a file, or the whole copy of an image, which *)
(* finds the blobs it sent. *)
PushRefused(m) ==
    /\ mirror[m].at = "push" /\ Item(m).kind # "inline"
    /\ IF mirror[m].tries + 1 < Attempts
       THEN mirror' = [mirror EXCEPT ![m].tries = @ + 1, ![m].part = IF Item(m).kind = "file" THEN @ ELSE 1]
       ELSE mirror' = [mirror EXCEPT ![m].at = "failed"]
    /\ UNCHANGED <<blobs, tags>>

MirrorKilled(m) ==
    /\ mirror[m].at \notin {"done", "failed"}
    /\ mirror' = [mirror EXCEPT ![m].at = "failed"]
    /\ UNCHANGED <<blobs, tags>>

MirrorStep(m) == ResolveTarget(m) \/ Connect(m) \/ PassOver(m) \/ Push(m) \/ PushRefused(m)
MirrorNext == \E m \in Mirrors : MirrorStep(m) \/ MirrorKilled(m)
MirrorSpec == MirrorInit /\ [][MirrorNext]_mirrorVars

-----------------------------------------------------------------------------
(* Whatever fails and whoever is killed, what a tag names is there to be pulled, and a file's tag *)
(* holds the file of that source, never another version's of the same name. *)
TagsPullable ==
    \A r \in DOMAIN tags :
        /\ \A b \in tags[r].parts : <<r[1], b>> \in blobs
        /\ \A m \in Mirrors : \A f \in Files(m) :
            (f.source # NoSource /\ r = FileRef(f)) => tags[r].of = <<"file", f.source>>

(* A mirror that succeeded pushed everything: each of its images and files is found where a node *)
(* or a reader computes it to be, unless an image of the same path from another host is there. *)
(* And the registry it went to is the one that was named, or the only one that the cluster's *)
(* nodes are pointed at. *)
MirrorComplete ==
    \A m \in Mirrors : mirror[m].at = "done" =>
        /\ \A img \in Range(Carries[m].images) : "images" \in mirror[m].halves =>
            LET r == ImageRef(img) IN
            /\ r \in DOMAIN tags
            /\ tags[r].of # <<img.host>> \o img.path =>
                \E n \in Mirrors : \E x \in Range(Carries[n].images) :
                    x.host # img.host /\ x.path = img.path /\ tags[r].of = <<x.host>> \o x.path
        /\ \A f \in Files(m) :
            ("files" \in mirror[m].halves /\ f.source # NoSource) =>
                \E r \in DOMAIN tags : tags[r].of = <<"file", f.source>>
        /\ LET d == mirror[m].dest IN
            IF d.config THEN \A i \in Proxied(d) : d.proxies[i].host = mirror[m].target ELSE mirror[m].target = d.arg

(* Both: what the mirror holds can be pulled, at every moment, and it holds what was promised. *)
MirrorSound == TagsPullable /\ MirrorComplete
=============================================================================
