-------------------------------- MODULE Sources --------------------------------
(***************************************************************************)
(* Where a build takes its files and images from: an override of their     *)
(* address, a content store (a hauler store or a zarf package, a directory *)
(* or an archive unpacked for the length of the build), or the declared    *)
(* source; and the image layout that a build leaves in the package.        *)
(*                                                                         *)
(* An address is a sequence of tokens with "/" among them and the host     *)
(* ("." for a local path) first, so a string prefix need not end where a   *)
(* segment does.  What is fetched is named by the place it was found at;   *)
(* its verification is in Packages.                                        *)
(***************************************************************************)
EXTENDS Naturals, Sequences, FiniteSets, SequencesExt

CONSTANTS
    Requests,   \* what builds are asked for: [files, images, arches, fover, rover]
    Bundles,    \* the content stores they may be given
    Upstream,   \* [image reference -> what its registry holds under it]
    RefSeq,     \* the image references in string order
    None        \* no name

VARIABLES
    job,        \* the request of this build
    bundle,     \* the content store it was given, as it lies on disk
    stage,      \* where Build is
    unpacked,   \* the temporary directory of an unpacked archive exists
    store,      \* the opened content store: what it holds by name
    staged,     \* where the files staged so far came from
    found,      \* the manifests found so far, in the order their requests were answered
    imageIndex  \* index.json of the package's image layout

sourceVars == <<job, bundle, stage, unpacked, store, staged, found, imageIndex>>

NoStore == [images |-> <<>>, files |-> <<>>]
Stages == {"overrides", "unpack", "open", "files", "images", "save", "sort", "built", "failed", "killed"}

SourcesInit ==
    /\ job \in Requests /\ bundle \in Bundles
    /\ stage = "overrides" /\ unpacked = FALSE /\ store = NoStore
    /\ staged = <<>> /\ found = <<>> /\ imageIndex = <<>>

-----------------------------------------------------------------------------
(* File overrides.  Hosts are compared without regard to case, but sorted with it. *)
Lower(h) == IF h = "GitHub.com" THEN "github.com" ELSE h
HostRank(h) == CASE h = "GitHub.com" -> 1 [] h = "github.com" -> 2 [] OTHER -> 3
IsURL(a) == a[1] # "."

(* Parse sorts the overrides by their source, descending: of two that can match one file, where *)
(* one extends the other, the longer comes first. The order of the others decides nothing. *)
After(o, p) ==
    \/ HostRank(o.source[1]) > HostRank(p.source[1])
    \/ HostRank(o.source[1]) = HostRank(p.source[1]) /\ Len(o.source) > Len(p.source)
Duplicated(os) == \E i, j \in DOMAIN os : i # j /\ os[i].source = os[j].source
Parse(os) == SetToSortSeq(Range(os), After)

\* Mutant of matchRemainder: a prefix is enough.
matchAnyPrefix(a, o) == Lower(a[1]) = Lower(o.source[1]) /\ IsPrefix(Tail(o.source), Tail(a))

(* A prefix counts when it ends with a segment of the path: matchRemainder. *)
matchRemainder(a, o) ==
    /\ Lower(a[1]) = Lower(o.source[1])
    /\ IsPrefix(Tail(o.source), Tail(a))
    /\ Len(a) = Len(o.source) \/ a[Len(o.source) + 1] = "/"

(* Whether a path leaves the directory it is joined to: more ".." than names at some point. *)
Count(s, tokens) == Len(SelectSeq(s, LAMBDA t : t \in tokens))
Outside(s) == \E i \in 1..Len(s) : LET h == SubSeq(s, 1, i) IN Count(h, {".."}) > i - Count(h, {"..", "/"})

(* Resolve: the first override that matches; a local target must not be left. *)
Resolve(os, a) ==
    LET i == IF IsURL(a) THEN SelectInSeq(Parse(os), LAMBDA o : matchRemainder(a, o)) ELSE 0
        o == Parse(os)[i]
    IN IF i = 0 THEN [from |-> "nothing"]
       ELSE [from |-> IF o.local /\ Outside(SubSeq(a, Len(o.source) + 1, Len(a))) THEN "outside" ELSE "override", what |-> o]

-----------------------------------------------------------------------------
(* Image references.  docker.io has two names, and official images a namespace of their own. *)
RegistryHosts == {"docker.io", "index.docker.io", "quay.io", "mirror"}

CanonicalImageRef(r) ==
    LET hosted == r[1] \in RegistryHosts
        path == IF hosted THEN SubSeq(r, 3, Len(r)) ELSE r
    IN CASE "?" \in Range(r) -> r    \* does not parse
         [] hosted /\ r[1] \notin {"docker.io", "index.docker.io"} -> r
         [] OTHER -> <<"index.docker.io", "/">> \o (IF Len(path) = 1 THEN <<"library", "/">> ELSE <<>>) \o path

(* Pull applies the first registry override whose source is a prefix of the reference, as a *)
(* string; ParseRegistryOverrides has sorted them as Parse does. *)
Overridden(os, r) ==
    LET list == SetToSortSeq(Range(os), LAMBDA a, b : Len(a.source) > Len(b.source))
        i == SelectInSeq(list, LAMBDA o : IsPrefix(o.source, r))
    IN IF i = 0 THEN r ELSE list[i].to \o SubSeq(r, Len(list[i].source) + 1, Len(r))

-----------------------------------------------------------------------------
(* A hauler store: an index whose entries name what they were collected from.  An entry about *)
(* another entry carries the same name. *)
Put(m, k, x) == [j \in DOMAIN m \union {k} |-> IF j = k THEN x ELSE m[j]]

isAttached(e) == e.about \in {"subject", "kind"}

(* classify and fileLayer: a manifest with a file's config, or with a titled layer, is a file and *)
(* its content is the first titled layer; an index is always an image. *)
FirstTitled(e) == SelectInSeq(e.titles, LAMBDA t : t)
classify(e) ==
    CASE e.media = "index" -> "image"
      [] e.media = "unreadable" \/ (e.config = "file" /\ FirstTitled(e) = 0) -> "error"
      [] e.config = "file" \/ FirstTitled(e) # 0 -> "file"
      [] OTHER -> "image"

Content(entries) == SelectSeq(entries, LAMBDA e : e.ref # None /\ ~isAttached(e))
haulerLoad(entries) ==
    FoldLeft(LAMBDA s, e : IF classify(e) = "file" THEN [s EXCEPT !.files = Put(@, e.ref, <<e.id, FirstTitled(e)>>)]
                           ELSE [s EXCEPT !.images = Put(@, CanonicalImageRef(e.ref), e)],
             NoStore, Content(entries))
haulerError(entries) == \E i \in DOMAIN Content(entries) : classify(Content(entries)[i]) = "error"

(* A zarf package: the document of the newest version that is understood, the first of equals. *)
Priority(doc) == CASE doc.version \in {"", "v1alpha1"} -> 1 [] doc.version = "v1beta1" -> 2 [] OTHER -> 0
readDefinition(docs) ==
    FoldLeft(LAMBDA best, doc : IF Priority(doc) > Priority(best) THEN doc ELSE best,
             [version |-> "unknown", components |-> <<>>], docs)

(* loadFiles: a file lies in its component's tarball at its position among the component's *)
(* files, those that are skipped counted: the ones without a source and the ones zarf extracted. *)
(* A source declared twice is the last one. *)
loadFiles(components) ==
    LET Add(m, c, i) == LET f == components[c][i] IN
                        IF f.source = None \/ f.extract THEN m ELSE Put(m, f.source, <<c, i>>)
    IN FoldLeft(LAMBDA m, c : FoldLeft(LAMBDA n, i : Add(n, c, i), m, [i \in DOMAIN components[c] |-> i]),
                <<>>, [c \in DOMAIN components |-> c])

(* loadImages: by the name zarf recorded, or the one crane did. *)
loadImages(entries) ==
    LET Ref(e) == IF e.ref # None THEN e.ref ELSE e.base
    IN FoldLeft(LAMBDA m, e : IF Ref(e) = None THEN m ELSE Put(m, CanonicalImageRef(Ref(e)), e), <<>>, entries)

zarfLoad(b) == [files |-> loadFiles(readDefinition(b.docs).components), images |-> loadImages(b.index)]

-----------------------------------------------------------------------------
(* What a store answers: an image by any spelling of its name, a file by the exact one. *)
HasImage(r) == CanonicalImageRef(r) \in DOMAIN store.images
ResolveImage(r) == store.images[CanonicalImageRef(r)].image
File(f) == f \in DOMAIN store.files
Fetch(f) == store.files[f]

(* Close removes what an archive was unpacked into, and leaves a directory alone. *)
Close == unpacked' = FALSE

(* An error ends the build; the store is closed in any case. *)
GiveUp == stage' = "failed" /\ Close

(* The command line: a source overridden twice is refused. *)
ParseOverrides ==
    /\ stage = "overrides"
    /\ stage' = IF Duplicated(job.fover) \/ Duplicated(job.rover) THEN "failed" ELSE IF bundle.form = "none" THEN "files" ELSE "unpack"
    /\ UNCHANGED <<job, bundle, unpacked, store, staged, found, imageIndex>>

(* Unpack: a directory is read where it is, a part of a split archive is refused, and a broken *)
(* archive leaves nothing. *)
Unpack ==
    /\ stage = "unpack"
    /\ \/ bundle.form \in {"missing", "part", "broken"} /\ GiveUp
       \/ bundle.form = "dir" /\ stage' = "open" /\ UNCHANGED unpacked
       \/ bundle.form = "archive" /\ stage' = "open" /\ unpacked' = TRUE
    /\ UNCHANGED <<job, bundle, store, staged, found, imageIndex>>

(* openContentStore: a zarf.yaml makes it a zarf package, else an index.json a hauler store; one *)
(* that cannot be read, or that holds nothing, is an error. *)
Opened == IF bundle.docs # <<>> THEN zarfLoad(bundle) ELSE haulerLoad(bundle.index)
OpenError ==
    \/ bundle.docs # <<>> /\ readDefinition(bundle.docs).version = "unknown"
    \/ bundle.docs = <<>> /\ (bundle.index = <<>> \/ haulerError(bundle.index))
    \/ Opened = NoStore
OpenContentStore ==
    /\ stage = "open"
    /\ IF OpenError THEN GiveUp /\ UNCHANGED <<job, bundle, store, staged, found, imageIndex>>
       ELSE stage' = "files" /\ store' = Opened /\ UNCHANGED <<job, bundle, unpacked, staged, found, imageIndex>>

(* fileGrabber: an override before the store, and either only for a file with a checksum. *)
Grab(f) ==
    LET m == Resolve(job.fover, f) IN
       CASE m.from = "outside" -> [from |-> "error"]
         [] m.from = "override" -> IF job.summed THEN m ELSE [from |-> "error"]
         [] m.from = "nothing" /\ File(f) -> IF job.summed THEN [from |-> "store", what |-> Fetch(f)]
                                            ELSE [from |-> "error"]
         [] OTHER -> [from |-> "declared"]

GrabFile ==
    /\ stage = "files" /\ Len(staged) < Len(job.files)
    /\ LET g == Grab(job.files[Len(staged) + 1]) IN
        \/ g.from # "error" /\ staged' = Append(staged, g) /\ UNCHANGED stage /\ UNCHANGED <<job, bundle, unpacked, store, found, imageIndex>>
        \/ GiveUp /\ UNCHANGED <<job, bundle, store, staged, found, imageIndex>>    \* refused, or the copy or the download failed

FilesStaged ==
    /\ stage = "files" /\ Len(staged) = Len(job.files)
    /\ stage' = "images"
    /\ UNCHANGED <<job, bundle, unpacked, store, staged, found, imageIndex>>

-----------------------------------------------------------------------------
(* Pull: the overridden reference is looked up in the store, then in its registry. *)
Lookup(r) ==
    CASE HasImage(r) -> ResolveImage(r)
      [] ~HasImage(r) /\ r \in DOMAIN Upstream -> Upstream[r]
      [] OTHER -> [multi |-> FALSE, digest |-> 0]

(* A manifest serves every architecture; an index is asked for each of them, and an image named by *)
(* its digest must not be one. Manifests that two platforms share are copied once. *)
Fetched(img) ==
    LET u == Lookup(Overridden(job.rover, img.ref))
        Add(s, a) == IF u.digests[a] \in Range(s) THEN s ELSE Append(s, u.digests[a])
    IN IF u.multi THEN FoldLeft(Add, <<>>, job.arches) ELSE <<u.digest>>
FetchError(img) ==
    LET u == Lookup(Overridden(job.rover, img.ref)) IN
    IF u.multi THEN img.pinned \/ \E i \in DOMAIN job.arches : job.arches[i] \notin DOMAIN u.digests ELSE u.digest = 0

Asked == {img \in job.images : \A i \in DOMAIN found : found[i].ref # img.ref}

(* The requests for the manifests are answered in any order. *)
FetchManifests(img) ==
    /\ stage = "images" /\ img \in Asked
    /\ \/ ~FetchError(img) /\ found' = found \o [i \in DOMAIN Fetched(img) |-> [ref |-> img.ref, digest |-> Fetched(img)[i]]]
          /\ UNCHANGED stage /\ UNCHANGED <<job, bundle, unpacked, store, staged, imageIndex>>
       \/ GiveUp /\ UNCHANGED <<job, bundle, store, staged, found, imageIndex>>

(* A package without images has no layout to write. *)
ManifestsFound ==
    /\ stage = "images" /\ Asked = {}
    /\ IF job.images = {} THEN stage' = "built" /\ Close ELSE stage' = "save" /\ UNCHANGED unpacked
    /\ UNCHANGED <<job, bundle, store, staged, found, imageIndex>>

(* The manifests of an index are put in the order of their platforms; its digest is of that list. *)
Saved(r) == LET mine == SelectSeq(found, LAMBDA m : m.ref = r) IN [i \in DOMAIN mine |-> mine[i].digest]
tagImage(r) == [ref |-> r, manifests |-> SortSeq(Saved(r), LAMBDA a, b : a % 10 < b % 10)]
DigestOf(t) == FoldLeft(LAMBDA n, d : 100 * n + d, 0, t.manifests)

(* orasSave and tagImage, each with its retries, then the index as oras writes it: in any order. *)
SaveImages ==
    /\ stage = "save"
    /\ \/ \E s \in SetToSeqs({tagImage(m.ref) : m \in Range(found)}) : imageIndex' = s
          /\ stage' = "sort" /\ UNCHANGED <<job, bundle, unpacked, store, staged, found>>
       \/ GiveUp /\ UNCHANGED <<job, bundle, store, staged, found, imageIndex>>

RefRank(r) == SelectInSeq(RefSeq, LAMBDA x : x = r)

\* Mutant of Before: entries with one digest are left as they come.
BeforeByDigest(s, t) == DigestOf(s) < DigestOf(t)

(* The order of the entries of index.json: by digest, and by name for one image under two names. *)
Before(s, t) == DigestOf(s) < DigestOf(t) \/ (DigestOf(s) = DigestOf(t) /\ RefRank(s.ref) < RefRank(t.ref))

(* sortIndexFile is the last step; Build returns and the store is closed. *)
SortIndex ==
    /\ stage = "sort"
    /\ imageIndex' = SortSeq(imageIndex, Before)
    /\ stage' = "built" /\ Close
    /\ UNCHANGED <<job, bundle, store, staged, found>>

Kill ==
    /\ stage \notin {"built", "failed", "killed"}
    /\ stage' = "killed"
    /\ UNCHANGED <<job, bundle, unpacked, store, staged, found, imageIndex>>

SourcesNext ==
    \/ ParseOverrides \/ Unpack \/ OpenContentStore \/ GrabFile \/ FilesStaged
    \/ (\E img \in job.images : FetchManifests(img)) \/ ManifestsFound \/ SaveImages \/ SortIndex \/ Kill

-----------------------------------------------------------------------------
(* What the answers should be, from the names as an operator reads them: segment by segment, and *)
(* docker.io's images without the parts that may be left out. *)
Segments(a) ==
    FoldLeft(LAMBDA s, t : IF t = "/" THEN Append(s, <<>>) ELSE [s EXCEPT ![Len(s)] = Append(@, t)], <<<<>>>>, a)
Covers(o, a) ==
    /\ IsURL(a) /\ Lower(o.source[1]) = Lower(a[1])
    /\ IsPrefix(Tail(Segments(o.source)), Tail(Segments(a)))
Short(r) == LET s == SelectSeq(r, LAMBDA t : t # "/")
                h == IF s[1] \in {"docker.io", "index.docker.io"} THEN Tail(s) ELSE s
            IN IF h[1] = "library" THEN Tail(h) ELSE h
Newest == {i \in DOMAIN bundle.docs : \A j \in DOMAIN bundle.docs :
    Priority(bundle.docs[i]) >= Priority(bundle.docs[j]) /\ (j < i => Priority(bundle.docs[i]) > Priority(bundle.docs[j]))}
CollectedFiles(a) ==
    IF bundle.docs # <<>>
    THEN UNION {{<<c, i>> \in (1..3) \X (1..3) :
                    LET cs == bundle.docs[n].components IN
                    c \in DOMAIN cs /\ i \in DOMAIN cs[c] /\ cs[c][i].source = a /\ ~cs[c][i].extract} : n \in Newest}
    ELSE {<<e.id, SelectInSeq(e.titles, LAMBDA t : t)>> : e \in {x \in Range(bundle.index) : x.ref = a /\ x.about = "content" /\ TRUE \in Range(x.titles)}}
CollectedImages(r) ==
    {e.image : e \in {x \in Range(bundle.index) :
        /\ bundle.docs # <<>> \/ (x.about = "content" /\ x.config = "image" /\ TRUE \notin Range(x.titles))
        /\ \E y \in {x.ref, x.base} \ {None} : (y = x.ref \/ x.ref = None) /\ Short(y) = Short(r)}}

(* A file comes from the most specific override that covers its address, else from what the store *)
(* collected under exactly that address, else from the address itself, and from elsewhere only *)
(* with a checksum. (Overrides that spell one host in two ways are not ordered by length.) The *)
(* archive a build unpacked is gone when it ends. *)
FilesFromTheirPlace ==
    /\ \A i \in DOMAIN staged :
        LET a == job.files[i]
            g == staged[i]
            cover == {o \in Range(job.fover) : Covers(o, a)}
            oneSpelling == Cardinality({o.source[1] : o \in cover}) = 1
        IN /\ cover # {} => /\ g.from = "override" /\ g.what \in cover
                            /\ oneSpelling => \A o \in cover : Len(o.source) <= Len(g.what.source)
           /\ (cover = {} /\ bundle.form # "none" /\ CollectedFiles(a) # {}) =>
                g.from = "store" /\ g.what \in CollectedFiles(a)
           /\ (cover = {} /\ (bundle.form = "none" \/ CollectedFiles(a) = {})) => g.from = "declared"
           /\ g.from # "declared" => job.summed
    /\ stage \in {"built", "failed"} => ~unpacked

(* The layout of a finished build names every image once and holds it for every architecture asked *)
(* for, from the store when that collected it under any of its spellings; and the order of its *)
(* entries and manifests is fixed by what they are, not by who answered first. *)
LayoutReproducible ==
    stage = "built" =>
    /\ {t.ref : t \in Range(imageIndex)} = {img.ref : img \in job.images}
    /\ \A i, j \in DOMAIN imageIndex : i < j =>
        LET Key(t) == 100 * DigestOf(t) + RefRank(t.ref) IN Key(imageIndex[i]) < Key(imageIndex[j])
    /\ \A t \in Range(imageIndex) :
        LET r == Overridden(job.rover, t.ref)
            us == IF bundle.form # "none" /\ CollectedImages(r) # {} THEN CollectedImages(r) ELSE {Upstream[r]}
        IN /\ \E u \in us : Range(t.manifests) = IF u.multi THEN {u.digests[a] : a \in Range(job.arches)} ELSE {u.digest}
           /\ \A i, j \in DOMAIN t.manifests : i < j => t.manifests[i] % 10 < t.manifests[j] % 10
=============================================================================
