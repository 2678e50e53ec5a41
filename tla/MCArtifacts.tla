------------------------------ MODULE MCArtifacts ------------------------------
(***************************************************************************)
(* What a package is made from and where its parts go: the download cache, *)
(* the sources of a build and the mirror. They share no state, so a        *)
(* behaviour is one of them, which `subject` names.                        *)
(***************************************************************************)
EXTENDS Downloads, Mirror, TLC

CONSTANTS p1, p2, None
TwoProcs == {p1, p2}

VARIABLES subject, job, bundle, stage, unpacked, store, staged, found, imageIndex

(* Four addresses, with a name that another one starts with, a climb out of a directory and a *)
(* local path; overrides of a host, in two spellings, and of a directory of it. *)
X == <<"github.com", "/", "rancher", "/", "x">>
Dev == <<"github.com", "/", "rancher", "-dev", "/", "x">>
Climb == <<"github.com", "/", "..", "/", "x">>
Local == <<".", "/", "x">>
Redirects == {[source |-> <<"github.com">>, local |-> TRUE], [source |-> <<"github.com", "/", "rancher">>, local |-> FALSE],
              [source |-> <<"GitHub.com", "/", "rancher">>, local |-> FALSE]}
UpTo2(S) == UNION {[1..n -> S] : n \in 0..2}

(* Images under several names: two of docker.io's, one official image, and one whose host another *)
(* host's name starts with. *)
Pause == <<"docker.io", "/", "rancher", "/", "pause">>
Nginx == <<"nginx">>
Quay == <<"quay.io", "/", "etcd">>
Lookalike == <<"quay.io", ".test", "/", "etcd">>
OfMirror == <<"mirror", "/", "etcd">>
Refs == <<Pause, OfMirror, Nginx, Quay, Lookalike>>
Multi(d1, d2) == [multi |-> TRUE, digests |-> (1 :> d1) @@ (2 :> d2)]
Single(d) == [multi |-> FALSE, digest |-> d]
Registry == (Pause :> Multi(11, 12)) @@ (Nginx :> Multi(21, 21)) @@ (Quay :> Single(31)) @@ (Lookalike :> Single(31)) @@ (OfMirror :> Single(41))

FileJobs == {[files |-> <<a>>, summed |-> s, images |-> {}, arches |-> <<1>>, fover |-> os, rover |-> <<>>] :
    a \in {X, Dev, Climb, Local}, s \in BOOLEAN, os \in UpTo2(Redirects)}
ImageJobs == {[files |-> <<X>>, summed |-> TRUE, images |-> {[ref |-> r, pinned |-> p] : r \in rs}, arches |-> as, fover |-> <<>>, rover |-> os] :
    rs \in {{Pause}, {Pause, Nginx}, {Quay, Lookalike}}, p \in BOOLEAN, as \in {<<1>>, <<2, 1>>},
    os \in {<<>>, <<[source |-> <<"quay.io">>, to |-> <<"mirror">>]>>,
            <<[source |-> <<"quay.io">>, to |-> <<"docker.io">>], [source |-> <<"quay.io", "/", "etcd">>, to |-> OfMirror]>>}}

(* The entries of a hauler store: a file in both shapes, an image, the signature of each kind, an *)
(* image collected under docker.io's other name, an entry with no name and one that is broken. *)
Entry(ref, about, media, config, titles, id, image) ==
    [ref |-> ref, base |-> None, about |-> about, media |-> media, config |-> config, titles |-> titles, id |-> id, image |-> image]
HaulEntries == {
    Entry(X, "content", "manifest", "file", <<FALSE, TRUE>>, 1, Single(1)), Entry(X, "content", "manifest", "image", <<TRUE>>, 2, Single(1)),
    Entry(<<"index.docker.io", "/", "rancher", "/", "pause">>, "content", "index", "image", <<>>, 3, Multi(51, 52)),
    Entry(<<"docker.io", "/", "rancher", "/", "pause">>, "kind", "manifest", "image", <<FALSE>>, 4, Single(91)),
    Entry(<<"docker.io", "/", "rancher", "/", "pause">>, "subject", "manifest", "image", <<FALSE>>, 5, Single(92)),
    Entry(<<"docker.io", "/", "library", "/", "nginx">>, "content", "manifest", "image", <<FALSE>>, 6, Single(61)),
    Entry(None, "content", "manifest", "file", <<TRUE>>, 7, Single(1)),
    Entry(Dev, "content", "manifest", "file", <<FALSE>>, 8, Single(1))}
(* The documents and images of a zarf package. *)
ZFile(a, e) == [source |-> a, extract |-> e]
Docs == {[version |-> v, components |-> cs] : v \in {"", "v1beta1", "v9"},
    cs \in {<<<<ZFile(None, FALSE), ZFile(X, FALSE)>>>>, <<<<ZFile(X, TRUE)>>, <<ZFile(Dev, TRUE), ZFile(Dev, FALSE)>>>>, <<>>}}
ZarfIndexes == {<<>>, <<[Entry(None, "content", "manifest", "image", <<>>, 1, Single(71)) EXCEPT !.base = Nginx]>>,
                <<Entry(Pause, "content", "index", "image", <<>>, 1, Multi(81, 82))>>}

Form(f) == [form |-> f, docs |-> <<>>, index |-> <<>>]
Stores == {Form(f) : f \in {"none", "missing", "part", "broken", "archive", "dir"}}
    \union {[form |-> f, docs |-> <<>>, index |-> s] : f \in {"archive"}, s \in UpTo2(HaulEntries)}
    \union {[form |-> f, docs |-> s, index |-> i] : f \in {"dir"}, s \in UpTo2(Docs), i \in ZarfIndexes}

S == INSTANCE Sources WITH Requests <- FileJobs \union ImageJobs, Bundles <- Stores, Upstream <- Registry, RefSeq <- Refs

(* Two versions of a package, mirrored at once: a file of one name from two sources, a file with no *)
(* source, and images of one path from two hosts. *)
Img(h, path, bs) == [host |-> h, path |-> <<path>>, tag |-> "t", blobs |-> bs]
File(src, base, c) == [source |-> src, base |-> base, content |-> c]
TwoPackages == (p1 :> [images |-> <<Img("docker", "pause", <<1, 2>>), Img("quay", "pause", <<1>>)>>,
                       files |-> <<File("v1/rke2", "rke2", 11), File(None, "motd", 12)>>, os |-> <<>>])
            @@ (p2 :> [images |-> <<Img("docker", "pause", <<1, 2>>)>>, files |-> <<File("v2/rke2", "rke2", 13)>>, os |-> <<File("rpm", "rpm", 14)>>])
Proxy(u, h) == [url |-> u, host |-> h]
CommandLines == {[arg |-> a, config |-> c, proxies |-> ps] : a \in {"none", "reg", "plain"}, c \in BOOLEAN,
    ps \in {<<>>, <<Proxy("none", "none"), Proxy("url", "mirror/prefix")>>, <<Proxy("url", "mirror"), Proxy("url", "other")>>}}

-----------------------------------------------------------------------------
CacheIdle ==
    /\ kind = "file" /\ dir = [x \in Names |-> 0] /\ disk = [i \in Inodes |-> Empty] /\ proc = [p \in Procs |-> Idle]
    /\ prune = NoPrune /\ overlapped = FALSE /\ starts = 0 /\ cuts = 0 /\ prunes = 0
SourcesIdle ==
    /\ job = None /\ bundle = None /\ stage = "idle" /\ unpacked = FALSE /\ store = None
    /\ staged = <<>> /\ found = <<>> /\ imageIndex = <<>>
MirrorIdle == mirror = [m \in Mirrors |-> [at |-> "target"]] /\ blobs = {} /\ tags = <<>>

sources == <<job, bundle, stage, unpacked, store, staged, found, imageIndex>>

ArtifactsInit ==
    \/ subject = "cache" /\ Init /\ SourcesIdle /\ MirrorIdle
    \/ subject = "build" /\ CacheIdle /\ S!SourcesInit /\ MirrorIdle
    \/ subject = "mirror" /\ CacheIdle /\ SourcesIdle /\ MirrorInit

ArtifactsNext ==
    \/ subject = "cache" /\ Next /\ UNCHANGED <<subject, sources, mirrorVars>>
    \/ subject = "build" /\ S!SourcesNext /\ UNCHANGED <<subject, vars, mirrorVars>>
    \/ subject = "mirror" /\ MirrorNext /\ UNCHANGED <<subject, vars, sources>>

ArtifactsSpec ==
    /\ ArtifactsInit /\ [][ArtifactsNext]_<<subject, vars, sources, mirrorVars>>
    /\ \A p \in Procs : WF_vars(Step(p))

(* The files, the images and the layout of a build: see Sources. *)
SourcesSound == subject = "build" => S!FilesFromTheirPlace /\ S!LayoutReproducible
=============================================================================
