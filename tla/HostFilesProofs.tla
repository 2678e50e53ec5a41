--------------------------- MODULE HostFilesProofs ---------------------------
(* What applies and resets leave on a host, for every list of packages, every *)
(* sequence of runs and any commands that fail on the way.                    *)
EXTENDS HostFiles, TLAPS

-----------------------------------------------------------------------------
(* What is asked of the packages.                                          *)

EnginePaths == UNION {{OSFilesOf[v][i].path : i \in DOMAIN OSFilesOf[v]} : v \in Packages}
FilePaths == UNION {{FilesOf[v][i].path : i \in DOMAIN FilesOf[v]} : v \in Packages}
AllImages == UNION {ImagesOf[v] : v \in Packages}

\* A path stays with its category in all packages, and only images are uploaded to
\* the image directory.  Otherwise a prune does take what has just been uploaded:
\* removeStaleManifestEntries compares the entries of one category, so a path that a new
\* version carries as a file is stale among the images.
PathsApart ==
    /\ EnginePaths \intersect (Data \union FilePaths \union ImageTars) = {}
    /\ ImageTars \intersect (Data \union FilePaths) = {}

\* Every package has an engine for every host.
EngineCarried ==
    \A v \in Packages, f \in {"rpm", "apt", "other"} :
        \E i \in DOMAIN OSFilesOf[v] : OSFilesOf[v][i].selector \in {f, "bin"} /\ Applies(OSFilesOf[v][i])

-----------------------------------------------------------------------------
(* The invariant.                                                          *)

\* The category of an upload and its path go together.
Fits(c, p) ==
    /\ c = "engine" <=> p \in EnginePaths
    /\ c = "image" => p \in AllImages
    /\ p \in ImageTars => c = "image"

Categorised ==
    /\ \A e \in manifest \union prior \union uploaded : Fits(e[1], e[2])
    /\ \A p \in Paths : Ours(p) => Fits(disk[p][2], p)

\* What the phase at work uploads.
Batch == IF pc = "upload" THEN profileFilesForArch(install)
         ELSE IF pc \in Uploads THEN ItemsOf(pc) ELSE {}

Queue ==
    /\ status # "idle" => pkg \in Packages
    /\ todo \subseteq Batch
    /\ (item # NoItem) => item \in Batch /\ status \in {"run", "cut"}

\* A file of ours is in the manifest, or recorded as lost, or about to be recorded.
Accounted ==
    \A p \in Paths : Ours(p) /\ p \notin Named(manifest) \union missed =>
        status = "run" /\ item # NoItem /\ item.path = p

\* The uploads of a phase: made, failed or still to be made.
Sent(x) == x.path \in failed \/ <<x.category, x.path>> \in uploaded
Pending(x) == x \in todo \/ x = item \/ Sent(x)

AfterImages == {"pruneI", "sweep", "rpm", "apt", "bin", "upload", "pruneE", "install"}
AfterFiles == {"image"} \union AfterImages
AfterData == {"file"} \union AfterFiles

Delivered ==
    /\ \A x \in Batch : Pending(x)
    /\ pc \in AfterData => \A x \in dataFiles : Sent(x)
    /\ pc \in AfterFiles => \A x \in distroFilesFor : Sent(x)
    /\ pc \in AfterImages => \A x \in imgFiles : Sent(x)
    /\ (pc = "pruneE" \/ engineUploaded) => \A x \in profileFilesForArch(install) : Sent(x)

\* Only what this package has for the host is uploaded.
OwnUploads ==
    /\ \A e \in uploaded : e[1] = "image" => e[2] \in ImagesOf[pkg]
    /\ \A e \in uploaded : e[1] = "engine" =>
          IF pc \in {"upload", "pruneE"} THEN e[2] \in {x.path : x \in profileFilesForArch(install)}
          ELSE engineUploaded

\* Which phase uploads the engine.
HasEngine(s) == profileFilesForArch(s) # {}

Chosen ==
    /\ pc \in {"upload", "pruneE", "install"} => install \in Methods
    /\ install = "bin" => Method = "bin"
    /\ pc = "install" /\ ~engineUploaded => install = "bin" /\ ~HasEngine("bin")
    /\ install \in {"rpm", "apt"} => install = family
    /\ install = "bin" => pc \in {"upload", "pruneE", "install"}
    /\ pc = "pruneE" => (engineUploaded <=> HasEngine(install))
    /\ engineUploaded => install = Method /\ HasEngine(install)
    /\ pc \in {"upload", "rpm"} \union Uploads \union {"tmp", "pruneI", "sweep"} => ~engineUploaded
    /\ pc \in {"apt", "bin"} /\ ~engineUploaded /\ family = "rpm" => ~HasEngine("rpm")
    /\ pc = "bin" /\ ~engineUploaded /\ family = "apt" => ~HasEngine("apt")

\* What was staged under a temporary name.
Staged ==
    \A p \in Paths : tmp[p] # Absent =>
        /\ tmp[p] \in BytesFor(p)
        /\ p \in {x.path : x \in {y \in profileFilesForArch("bin") : y.staged}}
        /\ status = "run" => install = "bin"

\* What an apply without faults has achieved so far.
InPlace(p) == disk[p] \in BytesFor(p) \/ tmp[p] \in BytesFor(p)

Clean ==
    /\ failed = {}
    /\ \A p \in Named(uploaded) : InPlace(p)
    /\ item # NoItem => InPlace(item.path)
    /\ pc \in {"upload", "pruneE"} => Named(manifest) \subseteq Named(prior) \union Named(uploaded)
    /\ pc \in AfterImages \ {"pruneI", "sweep"} /\ ~marker =>
          \A p \in ImageTars : disk[p] # Absent => <<"image", p>> \in uploaded
    /\ pc \in {"apt", "bin", "install"} /\ engineUploaded =>
          \A p \in Paths : Ours(p) /\ disk[p][2] = "engine" => p \in Carried \union missed

\* A tarball nobody ships survives the applies of a host with the marker.
Spared == marker => \A p \in (had \intersect ImageTars) \ AllImages : disk[p] # Absent

RunInv ==
    status = "run" /\ command = "apply" =>
        /\ pc # "uninstall"
        /\ Delivered /\ OwnUploads /\ Chosen /\ Spared
        /\ ~faulty => Clean

ResetRuns == command = "reset" => pc = "uninstall" /\ (status = "run" => uploaded = {} /\ item = NoItem)

FilesInv ==
    /\ TypeOK /\ Categorised /\ Queue /\ Accounted /\ Staged /\ RunInv /\ ResetRuns

-----------------------------------------------------------------------------
(* The model's operators.                                                  *)

\* The phases follow one another.
LEMMA AfterIs ==
    /\ After("tmp") = "data" /\ After("data") = "file" /\ After("file") = "image"
    /\ After("image") = "pruneI" /\ After("pruneI") = "sweep" /\ After("sweep") = "rpm"
    /\ After("rpm") = "apt" /\ After("apt") = "bin" /\ After("bin") = "install"
<1> DEFINE S == Stages
<1>1. DOMAIN S = 1..10 /\ S[1] = "tmp" /\ S[2] = "data" /\ S[3] = "file" /\ S[4] = "image"
      /\ S[5] = "pruneI" /\ S[6] = "sweep" /\ S[7] = "rpm" /\ S[8] = "apt" /\ S[9] = "bin"
      /\ S[10] = "install"
  BY DEF Stages
<1> HIDE DEF S
<1>2. ASSUME NEW a \in 1..9, \A k \in 1..10 : S[k] = S[a] => k = a
      PROVE  (CHOOSE k \in 1..10 : S[k] = S[a]) = a
  BY <1>2
<1> QED
  BY <1>1, <1>2 DEF After, S

\* The stages.
LEMMA StageIs ==
    {Stages[k] : k \in DOMAIN Stages} =
        {"tmp", "data", "file", "image", "pruneI", "sweep", "rpm", "apt", "bin", "install"}
  BY DEF Stages

\* Bytes of a package are neither a foreign file nor none.
LEMMA BytesShape ==
    ASSUME NEW v \in Packages, NEW c \in Categories, NEW i \in Nat
    PROVE  /\ <<v, c, i>> \in Bytes /\ <<v, c, i>> # Absent /\ <<v, c, i>> # Foreign
           /\ <<v, c, i>>[1] = v /\ <<v, c, i>>[2] = c
<1>1. Len(<<v, c, i>>) = 3 /\ Len(Absent) = 0 /\ Len(Foreign) = 1
  BY DEF Absent, Foreign
<1>2. <<v, c, i>> # Absent /\ <<v, c, i>> # Foreign
  BY <1>1
<1> QED
  BY <1>2 DEF Bytes, Categories

LEMMA BytesKnown ==
    ASSUME NEW b \in Bytes
    PROVE  b # Absent /\ b # Foreign
  BY BytesShape DEF Bytes, Categories

LEMMA EngineItems ==
    ASSUME NEW s, pkg \in Packages, NEW x \in profileFilesForArch(s)
    PROVE  \E i \in DOMAIN OSFilesOf[pkg] :
              /\ OSFilesOf[pkg][i].selector = s /\ Applies(OSFilesOf[pkg][i])
              /\ x = [path |-> OSFilesOf[pkg][i].path, category |-> "engine",
                      bytes |-> <<pkg, "engine", i>>,
                      staged |-> (OSFilesOf[pkg][i].executable /\ s = "bin")]
  BY DEF profileFilesForArch, Item, Assembled

LEMMA EngineFacts ==
    ASSUME NEW s, pkg \in Packages, NEW x \in profileFilesForArch(s)
    PROVE  /\ x.path \in Paths /\ x.path \in EnginePaths
           /\ x.category = "engine" /\ x.bytes \in BytesFor(x.path) /\ x.bytes \in Bytes
           /\ x.bytes[2] = "engine" /\ (x.staged => s = "bin")
<1>1. PICK i \in DOMAIN OSFilesOf[pkg] :
              /\ OSFilesOf[pkg][i].selector = s /\ Applies(OSFilesOf[pkg][i])
              /\ x = [path |-> OSFilesOf[pkg][i].path, category |-> "engine",
                      bytes |-> <<pkg, "engine", i>>,
                      staged |-> (OSFilesOf[pkg][i].executable /\ s = "bin")]
  BY EngineItems
<1>2. i \in Nat /\ OSFilesOf[pkg][i] \in Entry
  BY HostFilesAssumption
<1>3. x.path \in Paths /\ (x.staged => s = "bin")
  BY <1>1, <1>2 DEF Entry
<1>4. x.bytes \in Bytes /\ x.bytes[2] = "engine"
  BY <1>1, <1>2, BytesShape DEF Categories
<1>5. x.path \in EnginePaths
  BY <1>1 DEF EnginePaths
<1>6. x.bytes \in BytesFor(x.path)
  BY <1>1 DEF BytesFor
<1> QED
  BY <1>1, <1>3, <1>4, <1>5, <1>6

LEMMA FileFacts ==
    ASSUME pkg \in Packages, NEW x \in distroFilesFor
    PROVE  /\ x.path \in Paths /\ x.path \in FilePaths
           /\ x.category = "file" /\ x.bytes \in BytesFor(x.path) /\ x.bytes \in Bytes
           /\ x.bytes[2] = "file" /\ ~x.staged
<1>1. PICK i \in DOMAIN FilesOf[pkg] :
              /\ Applies(FilesOf[pkg][i])
              /\ x = [path |-> FilesOf[pkg][i].path, category |-> "file",
                      bytes |-> <<pkg, "file", i>>, staged |-> FALSE]
  BY DEF distroFilesFor, Item, Assembled
<1>2. i \in Nat /\ FilesOf[pkg][i] \in Entry
  BY HostFilesAssumption
<1>3. x.path \in Paths
  BY <1>1, <1>2 DEF Entry
<1>4. x.bytes \in Bytes /\ x.bytes[2] = "file"
  BY <1>1, <1>2, BytesShape DEF Categories
<1>5. x.path \in FilePaths
  BY <1>1 DEF FilePaths
<1>6. x.bytes \in BytesFor(x.path)
  BY <1>1 DEF BytesFor
<1> QED
  BY <1>1, <1>3, <1>4, <1>5, <1>6

LEMMA DataFacts ==
    ASSUME pkg \in Packages, NEW x \in dataFiles
    PROVE  /\ x.path \in Paths /\ x.path \in Data
           /\ x.category = "data" /\ x.bytes \in BytesFor(x.path) /\ x.bytes \in Bytes
           /\ x.bytes[2] = "data" /\ ~x.staged
<1>1. x.path \in Data /\ x.category = "data" /\ x.bytes = <<pkg, "data", 0>> /\ ~x.staged
  BY DEF dataFiles
<1>2. x.bytes \in Bytes /\ x.bytes[2] = "data"
  BY <1>1, BytesShape DEF Categories
<1>3. x.bytes \in BytesFor(x.path)
  BY <1>1 DEF BytesFor
<1> QED
  BY <1>1, <1>2, <1>3, HostFilesAssumption

LEMMA ImageFacts ==
    ASSUME pkg \in Packages, NEW x \in imgFiles
    PROVE  /\ x.path \in Paths /\ x.path \in ImagesOf[pkg] /\ x.path \in AllImages
           /\ x.path \in ImageTars
           /\ x.category = "image" /\ x.bytes \in BytesFor(x.path) /\ x.bytes \in Bytes
           /\ x.bytes[2] = "image" /\ ~x.staged
<1>1. x.path \in ImagesOf[pkg] /\ x.category = "image" /\ x.bytes = <<pkg, "image", 0>>
      /\ ~x.staged
  BY DEF imgFiles
<1>2. x.bytes \in Bytes /\ x.bytes[2] = "image"
  BY <1>1, BytesShape DEF Categories
<1>3. x.bytes \in BytesFor(x.path)
  BY <1>1 DEF BytesFor
<1> QED
  BY <1>1, <1>2, <1>3, HostFilesAssumption DEF AllImages

\* The three categories that the file phases upload, and the engine's.
LEMMA PathsFit ==
    ASSUME PathsApart, NEW p
    PROVE  /\ p \in EnginePaths => Fits("engine", p)
           /\ p \in Data => Fits("data", p)
           /\ p \in FilePaths => Fits("file", p)
           /\ p \in AllImages => Fits("image", p)
<1>1. AllImages \subseteq ImageTars
  BY HostFilesAssumption DEF AllImages
<1> QED
  BY <1>1 DEF PathsApart, Fits

\* No upload is the empty one.
LEMMA NotNoItem == ASSUME NEW x, x.category \in Categories PROVE x # NoItem
<1>1. NoItem.category = ""
  BY Zenon DEF NoItem
<1>2. x.category # ""
  BY DEF Categories
<1> QED
  BY <1>1, <1>2, Zenon

\* What is queued for upload.
LEMMA BatchFacts ==
    ASSUME PathsApart, pkg \in Packages, NEW x \in Batch
    PROVE  /\ x.path \in Paths /\ x.category \in Categories
           /\ x.bytes \in BytesFor(x.path) /\ x.bytes \in Bytes /\ x.bytes[2] = x.category
           /\ Fits(x.category, x.path) /\ x # NoItem
           /\ x.staged => install = "bin" /\ pc = "upload"
           /\ pc = "upload" => x \in profileFilesForArch(install) /\ x.category = "engine"
           /\ x.category = "engine" => pc = "upload"
           /\ x.category = "image" => x \in imgFiles
<1>1. CASE pc = "upload"
  <2>1. x \in profileFilesForArch(install)
    BY <1>1 DEF Batch
  <2>2. Fits("engine", x.path)
    BY <2>1, EngineFacts, PathsFit
  <2>3. /\ x.path \in Paths /\ x.category = "engine" /\ x.bytes \in BytesFor(x.path)
        /\ x.bytes \in Bytes /\ x.bytes[2] = "engine"
    BY <2>1, EngineFacts
  <2>4. x.staged => install = "bin"
    BY <2>1, EngineFacts
  <2> QED
    BY <1>1, <2>1, <2>2, <2>3, <2>4, NotNoItem DEF Categories
<1>2. CASE pc = "data"
  <2>1. x \in dataFiles
    BY <1>2 DEF Batch, Uploads, ItemsOf
  <2>2. Fits("data", x.path)
    BY <2>1, DataFacts, PathsFit
  <2>3. /\ x.path \in Paths /\ x.category = "data" /\ x.bytes \in BytesFor(x.path)
        /\ x.bytes \in Bytes /\ x.bytes[2] = "data" /\ ~x.staged
    BY <2>1, DataFacts
  <2> QED
    BY <1>2, <2>1, <2>2, <2>3, NotNoItem DEF Categories
<1>3. CASE pc = "file"
  <2>1. x \in distroFilesFor
    BY <1>3 DEF Batch, Uploads, ItemsOf
  <2>2. Fits("file", x.path)
    BY <2>1, FileFacts, PathsFit
  <2>3. /\ x.path \in Paths /\ x.category = "file" /\ x.bytes \in BytesFor(x.path)
        /\ x.bytes \in Bytes /\ x.bytes[2] = "file" /\ ~x.staged
    BY <2>1, FileFacts
  <2> QED
    BY <1>3, <2>1, <2>2, <2>3, NotNoItem DEF Categories
<1>4. CASE pc = "image"
  <2>1. x \in imgFiles
    BY <1>4 DEF Batch, Uploads, ItemsOf
  <2>2. Fits("image", x.path)
    BY <2>1, ImageFacts, PathsFit
  <2>3. /\ x.path \in Paths /\ x.category = "image" /\ x.bytes \in BytesFor(x.path)
        /\ x.bytes \in Bytes /\ x.bytes[2] = "image" /\ ~x.staged
    BY <2>1, ImageFacts
  <2> QED
    BY <1>4, <2>1, <2>2, <2>3, NotNoItem DEF Categories
<1> QED
  BY <1>1, <1>2, <1>3, <1>4 DEF Batch, Uploads

\* What a package holds for a path is of the path's category.
LEMMA BytesForFits ==
    ASSUME PathsApart, pkg \in Packages, NEW p \in Paths, NEW b \in BytesFor(p)
    PROVE  b \in Bytes /\ Fits(b[2], p)
<1>1. CASE b = <<pkg, "data", 0>> /\ p \in Data
  BY <1>1, BytesShape, PathsFit DEF Categories
<1>2. CASE b = <<pkg, "image", 0>> /\ p \in ImagesOf[pkg]
  <2>1. p \in AllImages
    BY <1>2 DEF AllImages
  <2> QED
    BY <1>2, <2>1, BytesShape, PathsFit DEF Categories
<1>3. ASSUME NEW i \in DOMAIN FilesOf[pkg], b = <<pkg, "file", i>>, FilesOf[pkg][i].path = p
      PROVE  b \in Bytes /\ Fits(b[2], p)
  <2>1. i \in Nat /\ p \in FilePaths
    BY <1>3, HostFilesAssumption DEF FilePaths
  <2> QED
    BY <1>3, <2>1, BytesShape, PathsFit DEF Categories
<1>4. ASSUME NEW i \in DOMAIN OSFilesOf[pkg], b = <<pkg, "engine", i>>, OSFilesOf[pkg][i].path = p
      PROVE  b \in Bytes /\ Fits(b[2], p)
  <2>1. i \in Nat /\ p \in EnginePaths
    BY <1>4, HostFilesAssumption DEF EnginePaths
  <2> QED
    BY <1>4, <2>1, BytesShape, PathsFit DEF Categories
<1> QED
  BY <1>1, <1>2, <1>3, <1>4 DEF BytesFor

\* What a package has for a host changes with the package and the host only.
LEMMA Frames ==
    ASSUME pkg' = pkg
    PROVE  /\ dataFiles' = dataFiles /\ distroFilesFor' = distroFilesFor /\ imgFiles' = imgFiles
           /\ \A s : profileFilesForArch(s)' = profileFilesForArch(s)
           /\ \A s : HasEngine(s)' = HasEngine(s)
           /\ \A s : ItemsOf(s)' = ItemsOf(s)
           /\ \A p : BytesFor(p)' = BytesFor(p)
           /\ family' = family => Method' = Method /\ Carried' = Carried
<1>1. dataFiles' = dataFiles
  BY DEF dataFiles
<1>2. distroFilesFor' = distroFilesFor
  BY DEF distroFilesFor, Item
<1>3. imgFiles' = imgFiles
  BY DEF imgFiles
<1>4. \A s : profileFilesForArch(s)' = profileFilesForArch(s)
  BY DEF profileFilesForArch, Item
<1>5. \A p : BytesFor(p)' = BytesFor(p)
  BY DEF BytesFor
<1>6. family' = family => Method' = Method
  BY DEF Method
<1> QED
  BY <1>1, <1>2, <1>3, <1>4, <1>5, <1>6 DEF Carried, ItemsOf, HasEngine

-----------------------------------------------------------------------------
(* Types.                                                                  *)

LEMMA FailsType ==
    ASSUME TypeOK, NEW ok \in BOOLEAN, Fails(ok)
    PROVE  faults' \in 0..MaxFaults /\ faulty' \in BOOLEAN /\ (faulty => faulty') /\ (~faulty' => ok)
<1>1. faults' \in 0..MaxFaults
  BY HostFilesAssumption DEF TypeOK, Fails
<1>2. faulty' \in BOOLEAN /\ (faulty => faulty') /\ (~faulty' => ok)
  BY DEF TypeOK, Fails
<1> QED
  BY <1>1, <1>2

\* The manifest and the host after a prune.
LEMMA Removes ==
    ASSUME NEW old, NEW current, TypeOK, removeStaleManifestEntries(old, current),
           old \subseteq Categories \X Paths
    PROVE  \E gone \in SUBSET diffManifest(old, current) :
              /\ disk' = [p \in Paths |-> IF p \in Named(gone) THEN Absent ELSE disk[p]]
              /\ manifest' \subseteq manifest
              /\ missed \subseteq missed' /\ missed' \subseteq Paths
              /\ \A p \in Named(manifest) : p \in Named(manifest') \/ p \in Named(gone)
                                            \/ p \in missed' \/ disk'[p] \in {Absent, Foreign}
              /\ faults' \in 0..MaxFaults /\ faulty' \in BOOLEAN /\ (faulty => faulty')
              /\ ~faulty' => gone = diffManifest(old, current) /\ missed' = missed
<1>1. PICK gone \in SUBSET diffManifest(old, current), read, write \in BOOLEAN :
        /\ disk' = [p \in Paths |-> IF p \in Named(gone) THEN Absent ELSE disk[p]]
        /\ IF gone = {} THEN UNCHANGED manifest
           ELSE WriteManifest(diffManifest(readManifest(read), gone), write)
        /\ missed' = missed \union IF read /\ write THEN {} ELSE Unnamed(disk', manifest')
        /\ Fails(gone = diffManifest(old, current) /\ read /\ write)
  BY DEF removeStaleManifestEntries
<1>2. manifest' \subseteq manifest
  BY <1>1 DEF WriteManifest, diffManifest, readManifest
<1>3. missed \subseteq missed' /\ missed' \subseteq Paths
  BY <1>1 DEF TypeOK, Unnamed
<1>4. /\ faults' \in 0..MaxFaults /\ faulty' \in BOOLEAN /\ (faulty => faulty')
      /\ ~faulty' => gone = diffManifest(old, current) /\ read /\ write
  <2> DEFINE ok == gone = diffManifest(old, current) /\ read /\ write
  <2>1. ok \in BOOLEAN /\ Fails(ok)
    BY <1>1
  <2> QED
    BY <2>1, FailsType
<1>5. ASSUME NEW p \in Named(manifest), p \notin Named(gone)
      PROVE  p \in Named(manifest') \/ p \in missed' \/ disk'[p] \in {Absent, Foreign}
  <2>1. p \in Paths
    BY DEF Named, TypeOK
  <2>2. CASE read /\ write
    BY <1>1, <1>5, <2>2 DEF WriteManifest, diffManifest, readManifest, Named
  <2>3. CASE ~(read /\ write)
    BY <1>1, <1>5, <2>1, <2>3 DEF Unnamed
  <2> QED
    BY <2>2, <2>3
<1> QED
  BY <1>1, <1>2, <1>3, <1>4, <1>5

\* The two prunes of what an earlier run uploaded.
LEMMA Prunings ==
    ASSUME TypeOK, cleanStaleImages \/ cleanStaleEngine
    PROVE  \E gone \in SUBSET (prior \ uploaded) :
              /\ disk' = [p \in Paths |-> IF p \in Named(gone) THEN Absent ELSE disk[p]]
              /\ \A e \in gone :
                    \/ cleanStaleImages /\ e[1] = "image"
                       /\ e[2] \notin Named(filterManifestByCategory(uploaded, "image"))
                    \/ cleanStaleEngine /\ e[1] = "engine" /\ engineUploaded
                       /\ e[2] \notin Named(filterManifestByCategory(uploaded, "engine"))
              /\ manifest' \subseteq manifest
              /\ missed \subseteq missed' /\ missed' \subseteq Paths
              /\ \A p \in Named(manifest) : p \in Named(manifest') \/ p \in Named(gone)
                                            \/ p \in missed' \/ disk'[p] \in {Absent, Foreign}
              /\ faults' \in 0..MaxFaults /\ faulty' \in BOOLEAN /\ (faulty => faulty')
              /\ ~faulty' => missed' = missed
              /\ ~faulty' /\ cleanStaleEngine /\ engineUploaded =>
                    \A e \in prior : e[1] = "engine" =>
                        e \in gone \/ e[2] \in Named(filterManifestByCategory(uploaded, "engine"))
<1> DEFINE old(c) == filterManifestByCategory(prior, c)
           current(c) == filterManifestByCategory(uploaded, c)
<1>1. ASSUME NEW c, removeStaleManifestEntries(old(c), current(c))
      PROVE \E gone \in SUBSET diffManifest(old(c), current(c)) :
              /\ disk' = [p \in Paths |-> IF p \in Named(gone) THEN Absent ELSE disk[p]]
              /\ manifest' \subseteq manifest
              /\ missed \subseteq missed' /\ missed' \subseteq Paths
              /\ \A p \in Named(manifest) : p \in Named(manifest') \/ p \in Named(gone)
                                            \/ p \in missed' \/ disk'[p] \in {Absent, Foreign}
              /\ faults' \in 0..MaxFaults /\ faulty' \in BOOLEAN /\ (faulty => faulty')
              /\ ~faulty' => gone = diffManifest(old(c), current(c)) /\ missed' = missed
  <2>1. old(c) \subseteq Categories \X Paths
    BY DEF TypeOK, filterManifestByCategory
  <2> HIDE DEF old, current
  <2> QED
    BY <1>1, <2>1, Removes
<1>2. ASSUME NEW c, NEW e \in diffManifest(old(c), current(c))
      PROVE  e \in prior \ uploaded /\ e[1] = c /\ e[2] \notin Named(current(c))
  BY <1>2 DEF diffManifest, filterManifestByCategory, Named
<1>3. ASSUME NEW c, NEW e \in prior, e[1] = c
      PROVE  e \in diffManifest(old(c), current(c)) \/ e[2] \in Named(current(c))
  BY <1>3 DEF diffManifest, filterManifestByCategory, Named
<1>4. CASE cleanStaleImages
  <2>1. removeStaleManifestEntries(old("image"), current("image")) /\ ~cleanStaleEngine
    BY <1>4 DEF cleanStaleImages, cleanStaleEngine, Running
  <2> QED
    BY <1>1, <1>2, <1>4, <2>1
<1>5. CASE cleanStaleEngine /\ engineUploaded
  <2>1. removeStaleManifestEntries(old("engine"), current("engine"))
    BY <1>5 DEF cleanStaleEngine, Prunes
  <2> QED
    BY <1>1, <1>2, <1>3, <1>5, <2>1
<1>6. CASE cleanStaleEngine /\ ~engineUploaded
  <2>1. UNCHANGED <<disk, manifest, missed, faulty, faults>> /\ disk = [p \in Paths |-> disk[p]]
    BY <1>6 DEF cleanStaleEngine, Prunes, TypeOK
  <2>2. Named({}) = {}
    BY DEF Named
  <2>3. disk' = [p \in Paths |-> IF p \in Named({}) THEN Absent ELSE disk[p]]
    BY <2>1, <2>2
  <2> QED
    BY <1>6, <2>1, <2>3 DEF TypeOK
<1> QED
  BY <1>4, <1>5, <1>6

\* What a reset does to the disk, the manifest and the packages.
LEMMA Uninstalls ==
    ASSUME uninstallNode
    PROVE  \E read, swept, dropped, ok \in BOOLEAN : \E gone \in SUBSET Named(readManifest(read)) :
              /\ disk' = [p \in Paths |-> IF p \in (IF swept THEN DataDirs ELSE {}) \union gone
                                          THEN Absent ELSE disk[p]]
              /\ manifest' = IF Named(readManifest(read)) # {} /\ dropped THEN {} ELSE manifest
              /\ Fails(ok /\ read /\ swept /\ dropped /\ gone = Named(readManifest(read)))
              /\ ok => installed' = 0 \/ (enginePackages = {} /\ installed' = installed)
<1> DEFINE Deletion(swept, gone) ==
             disk' = [p \in Paths |-> IF p \in (IF swept THEN DataDirs ELSE {}) \union gone
                                      THEN Absent ELSE disk[p]]
<1>1. PICK ok, read, swept, dropped \in BOOLEAN :
        /\ installed' = IF ok /\ enginePackages # {} THEN 0 ELSE installed
        /\ \E gone \in SUBSET cleanUploadManifest(read) :
              /\ Deletion(swept, gone)
              /\ manifest' = IF cleanUploadManifest(read) # {} /\ dropped THEN {} ELSE manifest
              /\ Fails(ok /\ read /\ swept /\ dropped /\ gone = cleanUploadManifest(read))
  BY DEF uninstallNode
<1>2. PICK gone \in SUBSET cleanUploadManifest(read) :
              /\ Deletion(swept, gone)
              /\ manifest' = IF cleanUploadManifest(read) # {} /\ dropped THEN {} ELSE manifest
              /\ Fails(ok /\ read /\ swept /\ dropped /\ gone = cleanUploadManifest(read))
  BY <1>1
<1>3. ok => installed' = 0 \/ (enginePackages = {} /\ installed' = installed)
  BY <1>1
<1>4. cleanUploadManifest(read) = Named(readManifest(read))
  BY DEF cleanUploadManifest
<1> QED
  BY <1>2, <1>3, <1>4

\* From the engine's uploads on it is known how the engine is installed.
LEMMA InstallKnown ==
    ASSUME TypeOK, RunInv, ResetRuns, status = "run", pc \in {"upload", "pruneE", "install"}
    PROVE  command = "apply" /\ install \in Methods
  BY DEF RunInv, ResetRuns, Chosen, TypeOK

LEMMA TypeStep ==
    ASSUME PathsApart, TypeOK, Queue, Staged, RunInv, ResetRuns, Next
    PROVE  TypeOK'
<1>1. ASSUME NEW v \in Packages, NEW c \in {"apply", "reset"}, NEW k \in BOOLEAN, StartRun(c, v, k)
      PROVE  TypeOK'
  <2>1. pc' \in {Stages[i] : i \in DOMAIN Stages} \union {"upload", "pruneE", "uninstall"}
    BY <1>1, StageIs DEF StartRun
  <2>2. tmp' \in [Paths -> Bytes \union {Absent}]
    BY <1>1 DEF StartRun
  <2>3. leftover' \subseteq Paths /\ had' \subseteq Paths /\ failed' \subseteq Paths /\ missed' \subseteq Paths
    BY <1>1 DEF StartRun, TypeOK
  <2>4. runs' \in Nat
    BY <1>1 DEF StartRun, TypeOK
  <2>5. /\ faulty' \in BOOLEAN /\ engineUploaded' \in BOOLEAN /\ known' \in BOOLEAN
        /\ family' \in {"rpm", "apt", "other"} /\ lockable' \in BOOLEAN /\ marker' \in BOOLEAN
    BY <1>1 DEF StartRun, TypeOK, HostConstants
  <2> QED
    BY <1>1, <2>1, <2>2, <2>3, <2>4, <2>5 DEF StartRun, TypeOK
<1>2. CASE cleanUpOldTmpFiles
  <2>1. PICK read, ok \in BOOLEAN :
          /\ prior' = readManifest(read)
          /\ leftover' \subseteq leftover
          /\ Fails(read /\ ok)
    BY <1>2 DEF cleanUpOldTmpFiles
  <2>2. faults' \in 0..MaxFaults /\ faulty' \in BOOLEAN
    <3>1. (read /\ ok) \in BOOLEAN
      OBVIOUS
    <3> QED
      BY <2>1, <3>1, FailsType
  <2>3. pc' \in {Stages[i] : i \in DOMAIN Stages}
    BY <1>2, StageIs DEF cleanUpOldTmpFiles, Goto, Running
  <2>4. prior' \subseteq Categories \X Paths /\ leftover' \subseteq Paths
    BY <2>1 DEF readManifest, TypeOK
  <2> QED
    BY <1>2, <2>2, <2>3, <2>4 DEF cleanUpOldTmpFiles, TypeOK, HostConstants, Goto
<1>3. ASSUME NEW x \in todo, Transfer(x) PROVE TypeOK'
  <2>1. x.path \in Paths /\ x.bytes \in Bytes
    BY <1>3, BatchFacts DEF Transfer, Queue
  <2>2. failed \union {x.path} \subseteq Paths
    BY <2>1 DEF TypeOK
  <2>3. CASE item' = x /\ UNCHANGED <<failed, faulty, faults>>
    <3>1. disk' \in [Paths -> Bytes \union {Absent, Foreign}] /\ tmp' \in [Paths -> Bytes \union {Absent}]
      <4>1. CASE disk' = disk /\ tmp' = [tmp EXCEPT ![x.path] = x.bytes]
        BY <2>1, <4>1 DEF TypeOK
      <4>2. CASE tmp' = tmp /\ disk' = [disk EXCEPT ![x.path] = x.bytes]
        BY <2>1, <4>2 DEF TypeOK
      <4> QED
        BY <1>3, <2>3, <4>1, <4>2 DEF Transfer, TypeOK
    <3> QED
      BY <1>3, <2>1, <2>3, <3>1 DEF Transfer, TypeOK, HostConstants, Continue
  <2>4. CASE failed' = failed \union {x.path} /\ Fails(FALSE) /\ UNCHANGED <<item, tmp, disk>>
    <3>1. faults' \in 0..MaxFaults /\ faulty' \in BOOLEAN
      BY <2>4, HostFilesAssumption DEF Fails, TypeOK
    <3> QED
      BY <1>3, <2>2, <2>4, <3>1 DEF Transfer, TypeOK, HostConstants, Continue
  <2> QED
    BY <1>3, <2>3, <2>4 DEF Transfer
<1>4. CASE recordManifestEntry
  <2>1. item.path \in Paths /\ item.category \in Categories
    BY <1>4, BatchFacts DEF recordManifestEntry, Queue
  <2>2. PICK read, write, chown \in BOOLEAN :
          /\ WriteManifest(mergeManifest(readManifest(read), item.category, item.path), write)
          /\ missed' = IF read /\ write THEN missed \ {item.path}
                       ELSE missed \union Unnamed(disk, manifest')
          /\ Fails(read /\ write /\ chown)
    BY <1>4 DEF recordManifestEntry
  <2>3. faults' \in 0..MaxFaults /\ faulty' \in BOOLEAN
    <3>1. (read /\ write /\ chown) \in BOOLEAN
      OBVIOUS
    <3> QED
      BY <2>2, <3>1, FailsType
  <2>4. manifest' \subseteq Categories \X Paths /\ uploaded' \subseteq Categories \X Paths
    BY <1>4, <2>1, <2>2 DEF recordManifestEntry, WriteManifest, mergeManifest, readManifest, TypeOK
  <2>5. missed' \subseteq Paths
    BY <2>2 DEF TypeOK, Unnamed
  <2> QED
    BY <1>4, <2>3, <2>4, <2>5 DEF recordManifestEntry, TypeOK, HostConstants, Continue
<1>5. CASE EndUploads
  <2>1. pc' \in {Stages[i] : i \in DOMAIN Stages}
    BY <1>5, StageIs, AfterIs DEF EndUploads, Goto, Uploads
  <2> QED
    BY <1>5, <2>1 DEF EndUploads, TypeOK, HostConstants, Continue
<1>6. CASE cleanStaleImages
  <2> DEFINE old == filterManifestByCategory(prior, "image")
             current == filterManifestByCategory(uploaded, "image")
  <2>1. old \subseteq Categories \X Paths /\ removeStaleManifestEntries(old, current)
    BY <1>6 DEF cleanStaleImages, filterManifestByCategory, TypeOK
  <2>2. PICK gone : disk' = [p \in Paths |-> IF p \in Named(gone) THEN Absent ELSE disk[p]]
              /\ manifest' \subseteq manifest /\ missed' \subseteq Paths
              /\ faults' \in 0..MaxFaults /\ faulty' \in BOOLEAN
    <3> HIDE DEF old, current
    <3> QED
      BY <2>1, Removes
  <2>3. disk' \in [Paths -> Bytes \union {Absent, Foreign}]
    BY <2>2 DEF TypeOK
  <2>4. pc' \in {Stages[i] : i \in DOMAIN Stages}
    BY <1>6, StageIs DEF cleanStaleImages, Goto
  <2> QED
    BY <1>6, <2>2, <2>3, <2>4 DEF cleanStaleImages, TypeOK, HostConstants, Continue
<1>7. CASE sweepUnmanagedImages
  <2>1. PICK gone : /\ disk' = [p \in Paths |-> IF p \in gone THEN Absent ELSE disk[p]]
                    /\ \E ok \in BOOLEAN : Fails(ok)
    BY <1>7 DEF sweepUnmanagedImages
  <2>2. disk' \in [Paths -> Bytes \union {Absent, Foreign}]
    BY <2>1 DEF TypeOK
  <2>3. pc' \in {Stages[i] : i \in DOMAIN Stages}
    BY <1>7, StageIs DEF sweepUnmanagedImages, Goto
  <2> QED
    BY <1>7, <2>1, <2>2, <2>3, FailsType DEF sweepUnmanagedImages, TypeOK, HostConstants, Continue
<1>8. CASE EnginePrepare
  <2>1. pc' \in {Stages[i] : i \in DOMAIN Stages} \union {"upload"}
    BY <1>8, StageIs, AfterIs DEF EnginePrepare, Goto, Methods
  <2>2. prior' \subseteq Categories \X Paths /\ install' \in {"none", "rpm", "apt", "bin"}
        /\ faults' \in 0..MaxFaults /\ faulty' \in BOOLEAN
    BY <1>8, FailsType DEF EnginePrepare, TypeOK, readManifest, Methods
  <2> QED
    BY <1>8, <2>1, <2>2 DEF EnginePrepare, TypeOK, HostConstants, Continue
<1>9. CASE blockOtherInstallsIfUploaded
  BY <1>9 DEF blockOtherInstallsIfUploaded, TypeOK, HostConstants, Continue, Goto
<1>10. CASE cleanStaleEngine
  <2> DEFINE old == filterManifestByCategory(prior, "engine")
             current == filterManifestByCategory(uploaded, "engine")
  <2>1. disk' \in [Paths -> Bytes \union {Absent, Foreign}]
        /\ manifest' \subseteq manifest /\ missed' \subseteq Paths
        /\ faults' \in 0..MaxFaults /\ faulty' \in BOOLEAN
    <3>1. CASE Prunes
      <4>1. old \subseteq Categories \X Paths /\ removeStaleManifestEntries(old, current)
        BY <1>10, <3>1 DEF cleanStaleEngine, filterManifestByCategory, TypeOK
      <4>2. PICK gone : disk' = [p \in Paths |-> IF p \in Named(gone) THEN Absent ELSE disk[p]]
              /\ manifest' \subseteq manifest /\ missed' \subseteq Paths
              /\ faults' \in 0..MaxFaults /\ faulty' \in BOOLEAN
        <5> HIDE DEF old, current
        <5> QED
          BY <4>1, Removes
      <4>3. disk' \in [Paths -> Bytes \union {Absent, Foreign}]
        BY <4>2 DEF TypeOK
      <4> QED
        BY <4>2, <4>3
    <3> QED
      BY <1>10, <3>1 DEF cleanStaleEngine, TypeOK
  <2>2. pc' \in {Stages[i] : i \in DOMAIN Stages} \union {"upload", "pruneE", "uninstall"}
    <3>1. install \in Methods
      BY <1>10, InstallKnown DEF cleanStaleEngine, Running
    <3> QED
      BY <1>10, <3>1, AfterIs, StageIs DEF cleanStaleEngine, Goto, Methods
  <2> QED
    BY <1>10, <2>1, <2>2 DEF cleanStaleEngine, TypeOK, HostConstants, Continue
<1>11. CASE installBinaries
  <2> DEFINE staged == {x.path : x \in {y \in profileFilesForArch("bin") : y.staged}}
  <2>1. PICK moved :
          /\ disk' = [p \in Paths |-> IF p \in moved THEN tmp[p] ELSE disk[p]]
          /\ tmp' = [p \in Paths |-> IF p \in moved THEN Absent ELSE tmp[p]]
          /\ Fails(moved = staged)
          /\ missed' = missed \union Unnamed(disk', manifest)
    BY <1>11 DEF installBinaries
  <2>2. disk' \in [Paths -> Bytes \union {Absent, Foreign}] /\ tmp' \in [Paths -> Bytes \union {Absent}]
    BY <2>1 DEF TypeOK
  <2>3. missed' \subseteq Paths
    BY <2>1 DEF TypeOK, Unnamed
  <2>4. faults' \in 0..MaxFaults /\ faulty' \in BOOLEAN
    <3>1. (moved = staged) \in BOOLEAN
      OBVIOUS
    <3> QED
      BY <2>1, <3>1, FailsType
  <2> QED
    BY <1>11, <2>2, <2>3, <2>4 DEF installBinaries, TypeOK, HostConstants, Finish
<1>12. CASE installAndPinPackagesFor
  <2>1. faults' \in 0..MaxFaults /\ faulty' \in BOOLEAN
    BY <1>12, FailsType DEF installAndPinPackagesFor, TypeOK
  <2>2. installed' \in Packages \union {0} /\ pinned' \in BOOLEAN
    BY <1>12 DEF installAndPinPackagesFor, TypeOK, RunInv, ResetRuns, Running, Queue
  <2>3. status' \in {"ok", "err"} /\ pc' = pc
    BY <1>12 DEF installAndPinPackagesFor, Reported, Finish
  <2> QED
    BY <1>12, <2>1, <2>2, <2>3 DEF installAndPinPackagesFor, TypeOK, HostConstants
<1>13. CASE uninstallNode
  <2>1. PICK read, swept, dropped, ok \in BOOLEAN : \E gone \in SUBSET Named(readManifest(read)) :
          /\ disk' = [p \in Paths |-> IF p \in (IF swept THEN DataDirs ELSE {}) \union gone
                                      THEN Absent ELSE disk[p]]
          /\ manifest' = IF Named(readManifest(read)) # {} /\ dropped THEN {} ELSE manifest
          /\ Fails(ok /\ read /\ swept /\ dropped /\ gone = Named(readManifest(read)))
          /\ ok => installed' = 0 \/ (enginePackages = {} /\ installed' = installed)
    BY <1>13, Uninstalls
  <2>2. disk' \in [Paths -> Bytes \union {Absent, Foreign}] /\ manifest' \subseteq Categories \X Paths
    BY <2>1 DEF TypeOK
  <2>3. missed' \subseteq Paths
    BY <1>13 DEF TypeOK, Unnamed, uninstallNode
  <2>4. \E all \in BOOLEAN : Fails(all)
    BY <2>1
  <2>5. faults' \in 0..MaxFaults /\ faulty' \in BOOLEAN
    BY <2>4, FailsType
  <2>6. installed' \in Packages \union {0} /\ pinned' \in BOOLEAN
    BY <1>13 DEF uninstallNode, TypeOK
  <2> QED
    BY <1>13, <2>2, <2>3, <2>5, <2>6 DEF uninstallNode, TypeOK, HostConstants, Finish
<1>14. CASE Cut
  <2>1. missed' \subseteq Paths /\ faults' \in 0..MaxFaults
    BY <1>14, HostFilesAssumption DEF TypeOK, Unnamed, Cut
  <2> QED
    BY <1>14, <2>1 DEF Cut, TypeOK, hostVars, metaVars
<1> QED
  BY <1>1, <1>2, <1>3, <1>4, <1>5, <1>6, <1>7, <1>8, <1>9, <1>10, <1>11, <1>12, <1>13, <1>14 DEF Next

-----------------------------------------------------------------------------
(* The queue.                                                              *)

\* Nothing is queued outside the uploads.
LEMMA Idle ==
    ASSUME Queue, pc \notin Uploads \union {"upload"}
    PROVE  todo = {} /\ item = NoItem /\ Batch = {}
  BY DEF Queue, Batch

LEMMA QueueStep ==
    ASSUME PathsApart, TypeOK, Queue, RunInv, ResetRuns, Next
    PROVE  Queue'
<1>1. ASSUME NEW v \in Packages, NEW c, NEW k, StartRun(c, v, k) PROVE Queue'
  BY <1>1 DEF StartRun, Queue
<1>2. CASE cleanUpOldTmpFiles
  <2>1. todo = {} /\ item = NoItem
    BY <1>2, Idle DEF cleanUpOldTmpFiles, Running, Uploads
  <2>2. CASE known
    BY <1>2, <2>1, <2>2, Frames DEF cleanUpOldTmpFiles, Running, Goto, Queue, Batch, Uploads
  <2>3. CASE ~known
    BY <1>2, <2>1, <2>3 DEF cleanUpOldTmpFiles, Running, Goto, Queue
  <2> QED
    BY <2>2, <2>3
<1>3. ASSUME NEW x \in todo, Transfer(x) PROVE Queue'
  <2>1. Batch' = Batch
    BY <1>3, Frames DEF Transfer, Continue, Batch
  <2> QED
    BY <1>3, <2>1 DEF Transfer, Continue, Queue
<1>4. CASE recordManifestEntry
  <2>1. Batch' = Batch
    BY <1>4, Frames DEF recordManifestEntry, Continue, Batch
  <2> QED
    BY <1>4, <2>1 DEF recordManifestEntry, Continue, Queue
<1>5. CASE EndUploads
  <2>1. pc' # "upload" /\ pkg' = pkg /\ status' = status /\ item' = NoItem
    BY <1>5, AfterIs DEF EndUploads, Goto, Uploads, Continue
  <2>2. todo' \subseteq Batch'
    BY <1>5, <2>1, Frames DEF EndUploads, Goto, Batch, Continue
  <2> QED
    BY <2>1, <2>2 DEF Queue
<1>6. CASE cleanStaleImages \/ sweepUnmanagedImages
  <2>1. todo = {} /\ item = NoItem
    BY <1>6, Idle DEF cleanStaleImages, sweepUnmanagedImages, Running, Uploads
  <2>2. todo' = {} /\ item' = NoItem /\ pkg' = pkg /\ status' = status
    BY <1>6, <2>1 DEF cleanStaleImages, sweepUnmanagedImages, Goto, Uploads, Continue
  <2> QED
    BY <2>2 DEF Queue
<1>7. CASE EnginePrepare
  <2>1. item = NoItem
    BY <1>7, Idle DEF EnginePrepare, Methods, Uploads
  <2>2. item' = NoItem /\ pkg' = pkg /\ status' = status
    BY <1>7, <2>1 DEF EnginePrepare, Continue
  <2>3. todo' \subseteq Batch'
    <3>1. CASE install' = pc /\ todo' = profileFilesForArch(pc) /\ pc' = "upload"
      BY <2>2, <3>1, Frames DEF Batch
    <3>2. CASE Goto(After(pc))
      BY <1>7, <3>2, AfterIs DEF Goto, EnginePrepare, Methods, Uploads
    <3> QED
      BY <1>7, <3>1, <3>2 DEF EnginePrepare
  <2> QED
    BY <2>2, <2>3 DEF Queue
<1>8. CASE blockOtherInstallsIfUploaded
  BY <1>8 DEF blockOtherInstallsIfUploaded, Goto, Uploads, Queue, Continue
<1>9. CASE cleanStaleEngine
  <2>1. todo = {} /\ item = NoItem
    BY <1>9, Idle DEF cleanStaleEngine, Running, Uploads
  <2>2. item' = NoItem /\ pkg' = pkg /\ status' = status
    BY <1>9, <2>1 DEF cleanStaleEngine, Continue
  <2>3. pc' # "upload"
    BY <1>9, InstallKnown, AfterIs DEF cleanStaleEngine, Goto, Running, Methods
  <2>4. todo' \subseteq Batch'
    BY <1>9, <2>2, <2>3, Frames DEF cleanStaleEngine, Goto, Batch
  <2> QED
    BY <2>2, <2>4 DEF Queue
<1>10. CASE installBinaries \/ installAndPinPackagesFor \/ uninstallNode
  <2>1. todo = {} /\ item = NoItem
    BY <1>10, Idle DEF installBinaries, installAndPinPackagesFor, uninstallNode, Running, Uploads
  <2>2. todo' = {} /\ item' = NoItem /\ pkg' = pkg
    BY <1>10, <2>1 DEF installBinaries, installAndPinPackagesFor, uninstallNode, Finish, Reported
  <2> QED
    BY <1>10, <2>2 DEF Queue, installBinaries, installAndPinPackagesFor, uninstallNode, Running
<1>11. CASE Cut
  <2>1. Batch' = Batch
    BY <1>11, Frames DEF Cut, Batch, metaVars
  <2> QED
    BY <1>11, <2>1 DEF Cut, Queue, metaVars
<1> QED
  BY <1>1, <1>2, <1>3, <1>4, <1>5, <1>6, <1>7, <1>8, <1>9, <1>10, <1>11 DEF Next

-----------------------------------------------------------------------------
(* The manifest and the disk.                                              *)

LEMMA StagedFits ==
    ASSUME PathsApart, Staged, Queue, status = "run", NEW p \in Paths, tmp[p] # Absent
    PROVE  tmp[p] \in Bytes /\ Fits(tmp[p][2], p)
  BY BytesForFits DEF Staged, Queue

LEMMA CategorisedStep ==
    ASSUME PathsApart, TypeOK, Queue, Categorised, Staged, Next
    PROVE  Categorised'
<1> USE DEF Ours
<1>1. ASSUME NEW v, NEW c, NEW k, StartRun(c, v, k) PROVE Categorised'
  BY <1>1 DEF StartRun, Categorised
<1>2. CASE cleanUpOldTmpFiles
  BY <1>2 DEF cleanUpOldTmpFiles, readManifest, Categorised
<1>3. ASSUME NEW x \in todo, Transfer(x) PROVE Categorised'
  <2>1. x.path \in Paths /\ Fits(x.bytes[2], x.path)
    BY <1>3, BatchFacts DEF Transfer, Queue
  <2>2. disk' = disk \/ disk' = [disk EXCEPT ![x.path] = x.bytes]
    BY <1>3 DEF Transfer
  <2>3. UNCHANGED <<manifest, prior, uploaded>>
    BY <1>3 DEF Transfer
  <2>4. \A p \in Paths : Ours(p)' => Fits(disk'[p][2], p)
    BY <2>1, <2>2 DEF Categorised, TypeOK
  <2> QED
    BY <2>3, <2>4 DEF Categorised
<1>4. CASE recordManifestEntry
  <2>1. Fits(item.category, item.path)
    BY <1>4, BatchFacts DEF recordManifestEntry, Queue
  <2>2. manifest' \subseteq manifest \union {<<item.category, item.path>>}
    BY <1>4 DEF recordManifestEntry, WriteManifest, mergeManifest, readManifest
  <2>3. uploaded' = uploaded \union {<<item.category, item.path>>} /\ UNCHANGED <<prior, disk>>
    BY <1>4 DEF recordManifestEntry
  <2> QED
    BY <2>1, <2>2, <2>3 DEF Categorised
<1>5. CASE EndUploads
  BY <1>5 DEF EndUploads, Categorised
<1>6. CASE cleanStaleImages \/ cleanStaleEngine
  <2>1. UNCHANGED <<prior, uploaded>>
    BY <1>6 DEF cleanStaleImages, cleanStaleEngine
  <2>2. manifest' \subseteq manifest /\ \A p \in Paths : disk'[p] \in {disk[p], Absent}
    BY <1>6, Prunings
  <2> QED
    BY <2>1, <2>2 DEF Categorised
<1>7. CASE sweepUnmanagedImages
  BY <1>7 DEF sweepUnmanagedImages, Categorised
<1>8. CASE EnginePrepare
  BY <1>8 DEF EnginePrepare, readManifest, Categorised
<1>9. CASE blockOtherInstallsIfUploaded \/ installAndPinPackagesFor \/ Cut
  BY <1>9 DEF blockOtherInstallsIfUploaded, installAndPinPackagesFor, Cut, Categorised, hostVars, metaVars
<1>10. CASE installBinaries
  <2>1. UNCHANGED <<manifest, prior, uploaded>>
    BY <1>10 DEF installBinaries
  <2>2. PICK moved \in SUBSET {p \in {x.path : x \in {y \in profileFilesForArch("bin") : y.staged}} : tmp[p] # Absent} :
          disk' = [p \in Paths |-> IF p \in moved THEN tmp[p] ELSE disk[p]]
    BY <1>10 DEF installBinaries
  <2>3. ASSUME NEW p \in Paths, Ours(p)' PROVE Fits(disk'[p][2], p)
    BY <1>10, <2>2, <2>3, StagedFits DEF installBinaries, Running, Categorised
  <2> QED
    BY <2>1, <2>3 DEF Categorised
<1>11. CASE uninstallNode
  <2>1. UNCHANGED <<prior, uploaded>>
    BY <1>11 DEF uninstallNode
  <2>2. manifest' \subseteq manifest /\ \A p \in Paths : disk'[p] \in {disk[p], Absent}
    BY <1>11 DEF uninstallNode
  <2> QED
    BY <2>1, <2>2 DEF Categorised
<1> QED
  BY <1>1, <1>2, <1>3, <1>4, <1>5, <1>6, <1>7, <1>8, <1>9, <1>10, <1>11 DEF Next

LEMMA AccountedStep ==
    ASSUME PathsApart, TypeOK, Queue, Accounted, Next
    PROVE  Accounted'
<1> USE DEF Ours
<1> DEFINE Told(p) == p \in Named(manifest) \union missed
<1>1. ASSUME NEW v, NEW c, NEW k, StartRun(c, v, k) PROVE Accounted'
  BY <1>1 DEF StartRun, Accounted, Named
<1>2. CASE cleanUpOldTmpFiles
  <2>1. item = NoItem
    BY <1>2, Idle DEF cleanUpOldTmpFiles, Running, Uploads
  <2> QED
    BY <1>2, <2>1 DEF cleanUpOldTmpFiles, Accounted, Named
<1>3. ASSUME NEW x \in todo, Transfer(x) PROVE Accounted'
  <2>1. x.path \in Paths /\ x # NoItem
    BY <1>3, BatchFacts DEF Transfer, Queue
  <2>2. item = NoItem /\ UNCHANGED <<manifest, missed, status>> /\ status = "run"
    BY <1>3 DEF Transfer, Continue
  <2>3. disk' = disk \/ (disk' = [disk EXCEPT ![x.path] = x.bytes] /\ item' = x)
    BY <1>3 DEF Transfer
  <2>4. ASSUME NEW p \in Paths, Ours(p)', p \notin Named(manifest') \union missed'
        PROVE  status' = "run" /\ item' # NoItem /\ item'.path = p
    BY <2>1, <2>2, <2>3, <2>4 DEF Accounted, TypeOK, Named
  <2> QED
    BY <2>4 DEF Accounted, Named
<1>4. CASE recordManifestEntry
  <2>1. PICK read, write \in BOOLEAN :
          /\ WriteManifest(mergeManifest(readManifest(read), item.category, item.path), write)
          /\ missed' = IF read /\ write THEN missed \ {item.path}
                       ELSE missed \union Unnamed(disk, manifest')
    BY <1>4 DEF recordManifestEntry
  <2>2. disk' = disk
    BY <1>4 DEF recordManifestEntry
  <2>3. CASE read /\ write
    <3>1. manifest' = {e \in manifest : e[2] # item.path} \union {<<item.category, item.path>>}
      BY <2>1, <2>3 DEF WriteManifest, mergeManifest, readManifest
    <3>2. \A p \in Named(manifest) \union {item.path} : p \in Named(manifest')
      <4>1. <<item.category, item.path>>[2] = item.path
        OBVIOUS
      <4>2. item.path \in Named(manifest')
        BY <3>1, <4>1 DEF Named
      <4>3. ASSUME NEW e \in manifest, e[2] # item.path PROVE e[2] \in Named(manifest')
        BY <3>1, <4>3 DEF Named
      <4> QED
        BY <4>2, <4>3 DEF Named
    <3> QED
      BY <2>1, <2>2, <2>3, <3>2 DEF Accounted, Named
  <2>4. CASE ~(read /\ write)
    <3>1. \A p \in Paths : Ours(p) => p \in Named(manifest') \union missed'
      BY <2>1, <2>4 DEF Unnamed
    <3> QED
      BY <2>2, <3>1 DEF Accounted, Named
  <2> QED
    BY <2>3, <2>4
<1>5. CASE EndUploads \/ EnginePrepare \/ blockOtherInstallsIfUploaded
  <2>1. UNCHANGED <<disk, manifest, missed, item, status>>
    BY <1>5 DEF EndUploads, EnginePrepare, blockOtherInstallsIfUploaded, Continue
  <2> QED
    BY <2>1 DEF Accounted, Named
<1>6. CASE cleanStaleImages \/ cleanStaleEngine
  <2>1. item = NoItem
    BY <1>6, Idle DEF cleanStaleImages, cleanStaleEngine, Running, Uploads
  <2>2. PICK gone :
           /\ disk' = [p \in Paths |-> IF p \in Named(gone) THEN Absent ELSE disk[p]]
           /\ missed \subseteq missed'
           /\ \A p \in Named(manifest) : p \in Named(manifest') \/ p \in Named(gone)
                                            \/ p \in missed' \/ disk'[p] \in {Absent, Foreign}
    BY <1>6, Prunings
  <2>3. ASSUME NEW p \in Paths, Ours(p)' PROVE p \in Named(manifest') \union missed'
    <3>1. Ours(p) /\ p \notin Named(gone)
      BY <2>2, <2>3
    <3>2. p \in Named(manifest) \union missed
      BY <2>1, <3>1 DEF Accounted
    <3> QED
      BY <2>2, <2>3, <3>1, <3>2
  <2> QED
    BY <2>3 DEF Accounted, Named
<1>7. CASE sweepUnmanagedImages
  <2>1. item = NoItem
    BY <1>7, Idle DEF sweepUnmanagedImages, Running, Uploads
  <2> QED
    BY <1>7, <2>1 DEF sweepUnmanagedImages, Accounted, Named
<1>8. CASE installBinaries
  <2>1. item = NoItem
    BY <1>8, Idle DEF installBinaries, Running, Uploads
  <2>2. manifest' = manifest /\ missed' = missed \union Unnamed(disk', manifest)
    BY <1>8 DEF installBinaries
  <2> QED
    BY <2>1, <2>2 DEF Accounted, Named, Unnamed
<1>9. CASE installAndPinPackagesFor
  <2>1. item = NoItem
    BY <1>9, Idle DEF installAndPinPackagesFor, Running, Uploads
  <2> QED
    BY <1>9, <2>1 DEF installAndPinPackagesFor, Accounted, Named
<1>10. CASE uninstallNode
  <2>1. missed' = missed \union Unnamed(disk', manifest')
    BY <1>10 DEF uninstallNode
  <2> QED
    BY <2>1 DEF Accounted, Named, Unnamed
<1>11. CASE Cut
  <2>1. missed' = missed \union Unnamed(disk, manifest) /\ UNCHANGED <<disk, manifest>>
    BY <1>11 DEF Cut, hostVars
  <2> QED
    BY <2>1 DEF Accounted, Named, Unnamed
<1> QED
  BY <1>1, <1>2, <1>3, <1>4, <1>5, <1>6, <1>7, <1>8, <1>9, <1>10, <1>11 DEF Next

LEMMA StagedStep ==
    ASSUME PathsApart, TypeOK, Queue, Staged, RunInv, ResetRuns, Next
    PROVE  Staged'
<1> DEFINE Executables == {x.path : x \in {y \in profileFilesForArch("bin") : y.staged}}
<1>1. ASSUME NEW v, NEW c, NEW k, StartRun(c, v, k) PROVE Staged'
  BY <1>1 DEF StartRun, Staged
<1>2. ASSUME pkg' = pkg,
             \A p \in Paths : tmp'[p] # Absent =>
                /\ tmp'[p] = tmp[p] \/ (tmp'[p] \in BytesFor(p) /\ p \in Executables)
                /\ status' = "run" => install' = "bin"
      PROVE  Staged'
  <2>1. Executables' = Executables
    BY <1>2, Frames
  <2>2. \A p \in Paths : tmp'[p] # Absent => tmp'[p] \in BytesFor(p) /\ p \in Executables
    BY <1>2 DEF Staged
  <2> QED
    BY <1>2, <2>1, <2>2, Frames DEF Staged
<1>3. ASSUME tmp' = tmp, pkg' = pkg, status' = "run" => status = "run" /\ install' = install
      PROVE  Staged'
  BY <1>2, <1>3 DEF Staged
<1>4. ASSUME NEW x \in todo, Transfer(x) PROVE Staged'
  <2>1. CASE tmp' = tmp
    BY <1>3, <1>4, <2>1 DEF Transfer, Continue
  <2>2. CASE x.staged /\ tmp' = [tmp EXCEPT ![x.path] = x.bytes]
    <3>1. x.path \in Executables /\ x.path \in Paths /\ x.bytes \in BytesFor(x.path) /\ install = "bin"
      BY <1>4, <2>2, BatchFacts DEF Transfer, Queue
    <3>2. UNCHANGED <<pkg, status, install>> /\ status = "run"
      BY <1>4 DEF Transfer, Continue
    <3> HIDE DEF Executables
    <3> QED
      BY <1>2, <2>2, <3>1, <3>2 DEF TypeOK
  <2> QED
    BY <1>4, <2>1, <2>2 DEF Transfer
<1>5. CASE cleanUpOldTmpFiles
  BY <1>3, <1>5 DEF cleanUpOldTmpFiles, Running
<1>6. CASE recordManifestEntry \/ EndUploads \/ cleanStaleImages \/ sweepUnmanagedImages
           \/ blockOtherInstallsIfUploaded \/ cleanStaleEngine
  BY <1>3, <1>6 DEF recordManifestEntry, EndUploads, cleanStaleImages, sweepUnmanagedImages,
                    blockOtherInstallsIfUploaded, cleanStaleEngine, Continue
<1>7. CASE EnginePrepare
  <2>1. \A p \in Paths : tmp[p] = Absent
    <3>1. install # "bin"
      BY <1>7 DEF EnginePrepare, Methods, RunInv, ResetRuns, Chosen, TypeOK
    <3> QED
      BY <1>7, <3>1 DEF EnginePrepare, Staged
  <2> QED
    BY <1>2, <1>7, <2>1 DEF EnginePrepare, Continue
<1>8. CASE installBinaries
  <2>1. \A p \in Paths : tmp'[p] # Absent => tmp'[p] = tmp[p]
    BY <1>8 DEF installBinaries
  <2> QED
    BY <1>2, <1>8, <2>1 DEF installBinaries, Finish
<1>9. CASE installAndPinPackagesFor \/ uninstallNode
  BY <1>3, <1>9 DEF installAndPinPackagesFor, uninstallNode, Finish, Reported
<1>10. CASE Cut
  BY <1>3, <1>10 DEF Cut, hostVars
<1> QED
  BY <1>1, <1>4, <1>5, <1>6, <1>7, <1>8, <1>9, <1>10 DEF Next

LEMMA ResetRunsStep ==
    ASSUME TypeOK, Queue, ResetRuns, Next
    PROVE  ResetRuns'
<1>1. ASSUME NEW v, NEW c, NEW k, StartRun(c, v, k) PROVE ResetRuns'
  BY <1>1 DEF StartRun, ResetRuns
<1>2. CASE command = "reset" /\ status = "run"
  <2>1. pc = "uninstall" /\ todo = {} /\ item = NoItem
    BY <1>2, Idle DEF ResetRuns, Uploads
  <2>2. (uninstallNode \/ Cut) \/ \E v, c, k : StartRun(c, v, k)
    BY <1>2, <2>1 DEF Next, cleanUpOldTmpFiles, Running, recordManifestEntry, EndUploads, Uploads,
       cleanStaleImages, sweepUnmanagedImages, EnginePrepare, Methods, blockOtherInstallsIfUploaded,
       cleanStaleEngine, installBinaries, installAndPinPackagesFor
  <2> QED
    BY <1>1, <2>1, <2>2 DEF uninstallNode, Cut, Finish, ResetRuns, hostVars, metaVars
<1>3. CASE status # "run" /\ ~\E v, c, k : StartRun(c, v, k)
  BY <1>3 DEF Next, cleanUpOldTmpFiles, Running, Transfer, recordManifestEntry, EndUploads,
       cleanStaleImages, sweepUnmanagedImages, EnginePrepare, blockOtherInstallsIfUploaded,
       cleanStaleEngine, installBinaries, installAndPinPackagesFor, uninstallNode, Cut
<1>4. CASE command # "reset" /\ ~\E v, c, k : StartRun(c, v, k)
  <2>1. command' = command
    BY <1>4 DEF Next, cleanUpOldTmpFiles, Transfer, recordManifestEntry, EndUploads,
       cleanStaleImages, sweepUnmanagedImages, EnginePrepare, blockOtherInstallsIfUploaded,
       cleanStaleEngine, installBinaries, installAndPinPackagesFor, uninstallNode, Cut, Continue
  <2> QED
    BY <1>4, <2>1 DEF ResetRuns
<1> QED
  BY <1>1, <1>2, <1>3, <1>4

-----------------------------------------------------------------------------
(* A run of apply.                                                         *)

\* The steps within a run of apply.
Advance ==
    \/ cleanUpOldTmpFiles \/ (\E x \in todo : Transfer(x)) \/ recordManifestEntry \/ EndUploads
    \/ cleanStaleImages \/ sweepUnmanagedImages \/ EnginePrepare
    \/ blockOtherInstallsIfUploaded \/ cleanStaleEngine

Within ==
    /\ Advance
    /\ status = "run" /\ command = "apply" /\ status' = "run"
    /\ UNCHANGED <<command, pkg, known, runs, had, family, lockable, marker>>

LEMMA StepsWithin ==
    ASSUME TypeOK, Next, status' = "run", command' = "apply", RunInv
    PROVE  (\E v \in Packages, k \in BOOLEAN : StartRun("apply", v, k)) \/ Within
<1>1. ASSUME NEW v, NEW k, StartRun("reset", v, k) PROVE FALSE
  BY <1>1 DEF StartRun
<1>2. CASE Advance
  <2>1. /\ status = "run" /\ command = command'
        /\ UNCHANGED <<pkg, known, runs, had, family, lockable, marker>>
    BY <1>2 DEF Advance, cleanUpOldTmpFiles, Running, Transfer, recordManifestEntry, EndUploads,
       cleanStaleImages, sweepUnmanagedImages, EnginePrepare, blockOtherInstallsIfUploaded,
       cleanStaleEngine, Continue, HostConstants
  <2> QED
    BY <1>2, <2>1 DEF Within
<1>3. CASE installBinaries \/ installAndPinPackagesFor \/ uninstallNode \/ Cut
  BY <1>3 DEF installBinaries, installAndPinPackagesFor, uninstallNode, Cut, Finish, Reported
<1> QED
  BY <1>1, <1>2, <1>3 DEF Next, Advance

\* What was sent or has failed stays so.
LEMMA SentStays ==
    ASSUME Within
    PROVE  failed \subseteq failed' /\ uploaded \subseteq uploaded' /\ \A x : Sent(x) => Sent(x)'
<1>1. failed \subseteq failed' /\ uploaded \subseteq uploaded'
  BY DEF Within, Advance, cleanUpOldTmpFiles, Transfer, recordManifestEntry, EndUploads,
       cleanStaleImages, sweepUnmanagedImages, EnginePrepare, blockOtherInstallsIfUploaded,
       cleanStaleEngine
<1> QED
  BY <1>1 DEF Sent

LEMMA DeliveredStep ==
    ASSUME PathsApart, TypeOK, Queue, RunInv, Within, ResetRuns
    PROVE  Delivered'
<1> USE SentStays
<1>1. /\ Delivered /\ Chosen /\ pkg \in Packages /\ status = "run" /\ command = "apply" /\ pkg' = pkg
      /\ dataFiles' = dataFiles /\ distroFilesFor' = distroFilesFor /\ imgFiles' = imgFiles
      /\ \A s : profileFilesForArch(s)' = profileFilesForArch(s)
  BY Frames DEF Within, RunInv, Queue
\* Steps that stay in their phase.
<1>2. ASSUME pc' = pc, install' = install, engineUploaded' = engineUploaded,
             \A y \in Batch : Pending(y) => Pending(y)'
      PROVE  Delivered'
  <2>1. Batch' = Batch
    BY <1>1, <1>2, Frames DEF Batch
  <2> QED
    BY <1>1, <1>2, <2>1 DEF Delivered
<1>3. CASE cleanUpOldTmpFiles
  <2>1. pc = "tmp" /\ pc' = "data" /\ todo' = dataFiles /\ install' = install /\ ~engineUploaded'
    BY <1>1, <1>3 DEF cleanUpOldTmpFiles, Goto, Within, Running, Uploads, ItemsOf, Chosen
  <2>2. Batch' = todo'
    BY <1>1, <2>1 DEF Batch, Uploads, ItemsOf
  <2> QED
    BY <2>1, <2>2 DEF Delivered, Pending, AfterData, AfterFiles, AfterImages
<1>4. ASSUME NEW x \in todo, Transfer(x) PROVE Delivered'
  <2>1. item = NoItem /\ todo' = todo \ {x} /\ (item' = x \/ x.path \in failed')
    BY <1>4 DEF Transfer
  <2>2. ASSUME NEW y \in Batch, Pending(y) PROVE Pending(y)'
    <3>1. y # NoItem
      BY <1>1, BatchFacts
    <3> QED
      BY <2>1, <2>2, <3>1 DEF Pending, Sent
  <2> QED
    BY <1>2, <1>4, <2>2 DEF Transfer
<1>5. CASE recordManifestEntry
  <2>1. ASSUME NEW y \in Batch, Pending(y) PROVE Pending(y)'
    <3>1. todo' = todo
      BY <1>5 DEF recordManifestEntry
    <3>2. y = item => Sent(y)'
      BY <1>5 DEF recordManifestEntry, Sent
    <3> QED
      BY <2>1, <3>1, <3>2 DEF Pending
  <2> QED
    BY <1>2, <1>5, <2>1 DEF recordManifestEntry, Continue
<1>6. CASE EndUploads
  <2>1. \A x \in Batch : Sent(x)
    <3>1. \A x \in Batch : x # NoItem
      BY <1>1, BatchFacts
    <3> QED
      BY <1>1, <1>6, <3>1 DEF EndUploads, Delivered, Pending
  <2>2. pc \in Uploads /\ pc' = After(pc) /\ install' = install /\ engineUploaded' = engineUploaded
        /\ todo' = IF pc' \in Uploads THEN ItemsOf(pc') ELSE {}
    BY <1>6 DEF EndUploads, Goto
  <2>3. Batch' = todo'
    BY <1>1, <2>2, AfterIs, Frames DEF Batch, Uploads
  <2>4. ~engineUploaded /\ pc' # "pruneE"
    BY <1>1, <2>2, AfterIs DEF Chosen, Uploads
  <2>5. CASE pc = "data"
    BY <1>1, <2>1, <2>2, <2>3, <2>4, <2>5, AfterIs
       DEF Delivered, Pending, AfterData, AfterFiles, AfterImages, Batch, Uploads, ItemsOf
  <2>6. CASE pc = "file"
    BY <1>1, <2>1, <2>2, <2>3, <2>4, <2>6, AfterIs
       DEF Delivered, Pending, AfterData, AfterFiles, AfterImages, Batch, Uploads, ItemsOf
  <2>7. CASE pc = "image"
    BY <1>1, <2>1, <2>2, <2>3, <2>4, <2>7, AfterIs
       DEF Delivered, Pending, AfterData, AfterFiles, AfterImages, Batch, Uploads, ItemsOf
  <2> QED
    BY <2>2, <2>5, <2>6, <2>7 DEF Uploads
<1>7. ASSUME pc \in AfterImages, pc' \in AfterImages, pc' \notin {"upload", "pruneE"}, install' = install,
             engineUploaded' = engineUploaded
      PROVE  Delivered'
  <2>1. Batch' = {}
    BY <1>7 DEF Batch, AfterImages, Uploads
  <2> QED
    BY <1>1, <1>7, <2>1 DEF Delivered, AfterData, AfterFiles
<1>8. CASE cleanStaleImages \/ sweepUnmanagedImages
  BY <1>7, <1>8 DEF cleanStaleImages, sweepUnmanagedImages, Running, Goto, AfterImages
<1>9. CASE EnginePrepare
  <2>1. CASE pc' = "upload" /\ ~engineUploaded
    <3>1. install' = pc /\ todo' = profileFilesForArch(pc)
      BY <1>9, <2>1, AfterIs DEF EnginePrepare, Goto, Methods
    <3>2. Batch' = todo'
      BY <1>1, <2>1, <3>1 DEF Batch
    <3>3. engineUploaded' = engineUploaded /\ pc \in AfterImages
      BY <1>9 DEF EnginePrepare, Methods, AfterImages
    <3> QED
      BY <1>1, <2>1, <3>2, <3>3 DEF Delivered, Pending, AfterData, AfterFiles, AfterImages
  <2>2. CASE Goto(After(pc)) /\ install' = install
    BY <1>7, <1>9, <2>2, AfterIs DEF EnginePrepare, Goto, AfterImages, Methods
  <2> QED
    BY <1>9, <2>1, <2>2 DEF EnginePrepare
<1>10. CASE blockOtherInstallsIfUploaded
  <2>1. pc = "upload" /\ pc' = "pruneE" /\ install' = install
    BY <1>10 DEF blockOtherInstallsIfUploaded, Running, Goto
  <2>2. \A x \in profileFilesForArch(install) : Sent(x)
    <3>1. \A x \in Batch : x # NoItem
      BY <1>1, BatchFacts
    <3> QED
      BY <1>1, <1>10, <2>1, <3>1 DEF blockOtherInstallsIfUploaded, Delivered, Pending, Batch
  <2>3. Batch' = {}
    BY <2>1 DEF Batch, Uploads
  <2> QED
    BY <1>1, <2>1, <2>2, <2>3 DEF Delivered, AfterData, AfterFiles, AfterImages
<1>11. CASE cleanStaleEngine
  <2>1. install \in Methods
    BY <1>1, <1>11, InstallKnown DEF cleanStaleEngine, Running
  <2> QED
    BY <1>7, <1>11, <2>1, AfterIs DEF cleanStaleEngine, Running, Goto, AfterImages, Methods
<1> QED
  BY <1>3, <1>4, <1>5, <1>6, <1>8, <1>9, <1>10, <1>11 DEF Within, Advance

LEMMA OwnUploadsStep ==
    ASSUME PathsApart, TypeOK, Queue, RunInv, Within, ResetRuns
    PROVE  OwnUploads'
<1>1. /\ OwnUploads /\ Chosen /\ pkg \in Packages /\ status = "run" /\ command = "apply" /\ pkg' = pkg
      /\ \A s : profileFilesForArch(s)' = profileFilesForArch(s)
  BY Frames DEF Within, RunInv, Queue
<1>2. ASSUME uploaded' = uploaded, pc' = pc, install' = install, engineUploaded' = engineUploaded
      PROVE  OwnUploads'
  BY <1>1, <1>2 DEF OwnUploads
<1>3. ASSUME uploaded' = uploaded, {pc, pc'} \intersect {"upload", "pruneE"} = {},
             engineUploaded' = engineUploaded
      PROVE  OwnUploads'
  BY <1>1, <1>3 DEF OwnUploads
<1>4. CASE cleanUpOldTmpFiles
  BY <1>1, <1>3, <1>4 DEF cleanUpOldTmpFiles, Running, Goto, Within
<1>5. CASE \E x \in todo : Transfer(x)
  BY <1>2, <1>5 DEF Transfer
<1>6. CASE recordManifestEntry
  <2>1. /\ uploaded' = uploaded \union {<<item.category, item.path>>} /\ pc' = pc /\ install' = install
        /\ engineUploaded' = engineUploaded
    BY <1>6 DEF recordManifestEntry, Continue
  <2>2. item \in Batch
    BY <1>6 DEF recordManifestEntry, Queue
  <2>3. item.category = "image" => item.path \in ImagesOf[pkg]
    BY <1>1, <2>2, BatchFacts, ImageFacts
  <2>4. item.category = "engine" =>
            pc = "upload" /\ item.path \in {x.path : x \in profileFilesForArch(install)}
    BY <1>1, <2>2, BatchFacts
  <2> QED
    BY <1>1, <2>1, <2>3, <2>4 DEF OwnUploads
<1>7. CASE EndUploads
  BY <1>3, <1>7, AfterIs DEF EndUploads, Goto, Uploads
<1>8. CASE cleanStaleImages \/ sweepUnmanagedImages
  BY <1>3, <1>8 DEF cleanStaleImages, sweepUnmanagedImages, Running, Goto
<1>9. CASE EnginePrepare
  <2>1. CASE pc' = "upload" /\ ~engineUploaded
    <3>1. \A e \in uploaded : e[1] # "engine"
      BY <1>1, <1>9, <2>1 DEF OwnUploads, EnginePrepare, Methods
    <3> QED
      BY <1>1, <1>9, <3>1 DEF OwnUploads, EnginePrepare
  <2>2. CASE Goto(After(pc))
    BY <1>3, <1>9, <2>2, AfterIs DEF EnginePrepare, Goto, Methods
  <2> QED
    BY <1>9, <2>1, <2>2 DEF EnginePrepare
<1>10. CASE blockOtherInstallsIfUploaded
  <2>1. pc = "upload" /\ pc' = "pruneE" /\ install' = install /\ uploaded' = uploaded
    BY <1>10 DEF blockOtherInstallsIfUploaded, Running, Goto
  <2> QED
    BY <1>1, <2>1 DEF OwnUploads
<1>11. CASE cleanStaleEngine
  <2>1. install \in Methods
    BY <1>1, <1>11, InstallKnown DEF cleanStaleEngine, Running
  <2>2. pc = "pruneE" /\ pc' \notin {"upload", "pruneE"} /\ uploaded' = uploaded
        /\ engineUploaded' = engineUploaded
    BY <1>11, <2>1, AfterIs DEF cleanStaleEngine, Running, Goto, Methods
  <2>3. \A e \in uploaded : e[1] = "engine" => engineUploaded
    BY <1>1, <2>2 DEF OwnUploads, Chosen, HasEngine
  <2> QED
    BY <1>1, <2>2, <2>3 DEF OwnUploads
<1> QED
  BY <1>4, <1>5, <1>6, <1>7, <1>8, <1>9, <1>10, <1>11 DEF Within, Advance

\* Which method installs the engine is decided by what the package has for the family.
LEMMA MethodIs ==
    ASSUME TypeOK, pkg \in Packages
    PROVE  /\ Method = IF family \in {"rpm", "apt"} /\ HasEngine(family) THEN family ELSE "bin"
           /\ Carried = Data \union {x.path : x \in distroFilesFor} \union ImagesOf[pkg] \union
                        {x.path : x \in profileFilesForArch(Method)}
<1>1. ASSUME NEW s
      PROVE  HasEngine(s) <=> \E i \in DOMAIN OSFilesOf[pkg] :
                                 OSFilesOf[pkg][i].selector = s /\ Applies(OSFilesOf[pkg][i])
  BY DEF HasEngine, profileFilesForArch
<1>2. \A i \in DOMAIN OSFilesOf[pkg] : OSFilesOf[pkg][i].selector # "other"
  <2>1. \A i \in DOMAIN OSFilesOf[pkg] : OSFilesOf[pkg][i] \in Entry
    BY HostFilesAssumption
  <2> QED
    BY <2>1 DEF Entry
<1> QED
  BY <1>1, <1>2 DEF Method, Carried, TypeOK

LEMMA ChosenStep ==
    ASSUME PathsApart, TypeOK, Queue, RunInv, Within, ResetRuns
    PROVE  Chosen'
<1>1. /\ Chosen /\ pkg \in Packages /\ status = "run" /\ command = "apply" /\ pkg' = pkg
      /\ \A s : HasEngine(s)' = HasEngine(s)
      /\ family' = family /\ Method' = Method
  BY Frames DEF Within, RunInv, Queue
<1>2. family \in {"rpm", "apt", "other"} /\ engineUploaded \in BOOLEAN
  BY DEF TypeOK
<1>3. CASE cleanUpOldTmpFiles
  BY <1>1, <1>3 DEF Chosen, cleanUpOldTmpFiles, Running, Goto, Within, Uploads
<1>4. CASE (\E x \in todo : Transfer(x)) \/ recordManifestEntry
  <2>1. UNCHANGED <<pc, install, engineUploaded>>
    BY <1>4 DEF Transfer, recordManifestEntry, Continue
  <2> QED
    BY <1>1, <2>1 DEF Chosen
<1>5. CASE EndUploads
  BY <1>1, <1>5, AfterIs DEF Chosen, EndUploads, Goto, Uploads, Continue
<1>6. CASE cleanStaleImages \/ sweepUnmanagedImages
  BY <1>1, <1>6 DEF Chosen, cleanStaleImages, sweepUnmanagedImages, Running, Goto, Continue, Uploads
<1>7. CASE EnginePrepare
  <2>1. CASE pc' = "upload"
    <3>1. ~engineUploaded /\ ~engineUploaded' /\ install' = pc /\ (EnterpriseLinux \/ DebianLike \/ pc = "bin")
      BY <1>7, <2>1, AfterIs DEF EnginePrepare, Goto, Methods
    <3>2. pc = "bin" => Method = "bin"
      BY <1>1, <1>2, <3>1, MethodIs DEF Chosen
    <3> QED
      BY <1>1, <1>7, <2>1, <3>1, <3>2 DEF Chosen, EnginePrepare, EnterpriseLinux, DebianLike, Methods
  <2>2. CASE Goto(After(pc)) /\ install' = install /\ engineUploaded' = engineUploaded
             /\ (engineUploaded \/ ~(EnterpriseLinux \/ DebianLike \/ pc = "bin"))
    <3>1. CASE pc = "bin"
      <4>1. engineUploaded /\ pc' = "install"
        BY <2>2, <3>1, AfterIs DEF Goto
      <4>2. Method \in Methods
        BY <1>1, <1>2, MethodIs DEF Methods
      <4> QED
        BY <1>1, <2>2, <3>1, <4>1, <4>2 DEF Chosen, Uploads
    <3>2. CASE pc = "rpm"
      <4>1. pc' = "apt" /\ ~engineUploaded /\ family # "rpm"
        BY <1>1, <2>2, <3>2, AfterIs DEF Goto, EnterpriseLinux, Chosen
      <4> QED
        BY <1>1, <2>2, <3>2, <4>1 DEF Chosen, Uploads
    <3>3. CASE pc = "apt"
      <4>1. pc' = "bin" /\ (engineUploaded \/ family # "apt")
        BY <1>1, <2>2, <3>3, AfterIs DEF Goto, DebianLike
      <4> QED
        BY <1>1, <2>2, <3>3, <4>1 DEF Chosen, Uploads
    <3> QED
      BY <1>7, <3>1, <3>2, <3>3 DEF EnginePrepare, Methods
  <2> QED
    BY <1>7, <2>1, <2>2 DEF EnginePrepare
<1>8. CASE blockOtherInstallsIfUploaded
  <2>1. pc = "upload" /\ pc' = "pruneE" /\ install' = install
        /\ (engineUploaded' <=> HasEngine(install))
    BY <1>8 DEF blockOtherInstallsIfUploaded, Running, Goto, HasEngine
  <2>2. install \in Methods /\ ~engineUploaded
    BY <1>1, <2>1 DEF Chosen
  <2>3. HasEngine(install) => install = Method
    BY <1>1, <1>2, <2>1, <2>2, MethodIs DEF Chosen, Methods
  <2> QED
    BY <1>1, <2>1, <2>2, <2>3 DEF Chosen, Uploads
<1>9. CASE cleanStaleEngine
  <2>1. pc = "pruneE" /\ pc' = After(install) /\ install' = install /\ engineUploaded' = engineUploaded
        /\ install \in Methods
    BY <1>1, <1>9 DEF cleanStaleEngine, Running, Goto, Chosen
  <2>2. CASE install = "rpm"
    BY <1>1, <2>1, <2>2, AfterIs DEF Chosen, Uploads
  <2>3. CASE install = "apt"
    BY <1>1, <2>1, <2>3, AfterIs DEF Chosen, Uploads
  <2>4. CASE install = "bin"
    BY <1>1, <2>1, <2>4, AfterIs DEF Chosen, Uploads
  <2> QED
    BY <2>1, <2>2, <2>3, <2>4 DEF Methods
<1> QED
  BY <1>3, <1>4, <1>5, <1>6, <1>7, <1>8, <1>9 DEF Within, Advance

-----------------------------------------------------------------------------
(* What a prune may delete.                                                *)

\* Within an apply nothing that the run has recorded is deleted, and what is deleted is
\* a tarball or an engine file.
LEMMA Deletes ==
    ASSUME PathsApart, TypeOK, Queue, Categorised, RunInv, Within, NEW p \in Paths,
           disk'[p] # disk[p], ~\E x \in todo : Transfer(x)
    PROVE  /\ disk'[p] = Absent /\ p \notin Named(uploaded)
           /\ \/ pc \in {"pruneI", "sweep"} /\ p \in ImageTars /\ (p \in AllImages \/ ~marker)
              \/ pc = "pruneE" /\ engineUploaded /\ p \in EnginePaths
<1>1. ASSUME NEW e \in manifest \union prior \union uploaded
      PROVE  Fits(e[1], e[2])
  BY DEF Categorised
<1>2. AllImages \subseteq ImageTars /\ EnginePaths \intersect ImageTars = {}
  BY HostFilesAssumption DEF AllImages, PathsApart
<1>3. \A c, q : q \in Named(filterManifestByCategory(uploaded, c)) <=>
                \E e \in uploaded : e[1] = c /\ e[2] = q
  BY DEF Named, filterManifestByCategory
<1>4. \A q : q \in Named(uploaded) <=> \E e \in uploaded : e[2] = q
  BY DEF Named
<1>5. CASE cleanStaleImages \/ cleanStaleEngine
  <2>1. PICK gone \in SUBSET (prior \ uploaded) :
              /\ disk' = [q \in Paths |-> IF q \in Named(gone) THEN Absent ELSE disk[q]]
              /\ \A e \in gone :
                    \/ cleanStaleImages /\ e[1] = "image"
                       /\ e[2] \notin Named(filterManifestByCategory(uploaded, "image"))
                    \/ cleanStaleEngine /\ e[1] = "engine" /\ engineUploaded
                       /\ e[2] \notin Named(filterManifestByCategory(uploaded, "engine"))
    BY <1>5, Prunings
  <2>2. PICK e \in gone : e[2] = p
    BY <2>1 DEF Named
  <2>3. disk'[p] = Absent
    BY <2>1
  <2>4. CASE cleanStaleImages /\ e[1] = "image" /\ p \notin Named(filterManifestByCategory(uploaded, "image"))
    <3>1. p \in AllImages /\ p \in ImageTars
      BY <1>1, <1>2, <2>1, <2>2, <2>4 DEF Fits
    <3>2. p \notin Named(uploaded)
      BY <1>1, <1>3, <1>4, <2>4, <3>1 DEF Fits
    <3> QED
      BY <2>3, <2>4, <3>1, <3>2 DEF cleanStaleImages, Running
  <2>5. CASE cleanStaleEngine /\ e[1] = "engine" /\ engineUploaded
             /\ p \notin Named(filterManifestByCategory(uploaded, "engine"))
    <3>1. p \in EnginePaths
      BY <1>1, <2>1, <2>2, <2>5 DEF Fits
    <3>2. p \notin Named(uploaded)
      BY <1>1, <1>3, <1>4, <2>5, <3>1 DEF Fits
    <3> QED
      BY <2>3, <2>5, <3>1, <3>2 DEF cleanStaleEngine, Running
  <2> QED
    BY <2>1, <2>2, <2>4, <2>5
<1>6. CASE sweepUnmanagedImages
  <2>1. p \in ImageTars \ Named(filterManifestByCategory(uploaded, "image")) /\ ~marker /\ disk'[p] = Absent
        /\ pc = "sweep"
    BY <1>6 DEF sweepUnmanagedImages, Running
  <2>2. p \notin Named(uploaded)
    BY <1>1, <1>3, <1>4, <2>1 DEF Fits
  <2> QED
    BY <2>1, <2>2
<1>7. CASE cleanUpOldTmpFiles \/ recordManifestEntry \/ EndUploads \/ EnginePrepare
           \/ blockOtherInstallsIfUploaded
  BY <1>7 DEF cleanUpOldTmpFiles, recordManifestEntry, EndUploads, EnginePrepare,
              blockOtherInstallsIfUploaded
<1> QED
  BY <1>5, <1>6, <1>7 DEF Within, Advance

\* An upload puts a file where there may have been none and deletes nothing.
LEMMA TransferPuts ==
    ASSUME PathsApart, TypeOK, Queue, NEW x \in todo, Transfer(x), NEW p \in Paths
    PROVE  /\ disk'[p] = disk[p] \/ (p = x.path /\ item' = x /\ ~x.staged /\ disk'[p] \in BytesFor(p))
           /\ disk'[p] = Absent => disk[p] = Absent
<1>1. x.path \in Paths /\ x.bytes \in BytesFor(x.path) /\ x.bytes \in Bytes
  BY BatchFacts DEF Transfer, Queue
<1>2. disk' = disk \/ (item' = x /\ ~x.staged /\ disk' = [disk EXCEPT ![x.path] = x.bytes])
  BY DEF Transfer
<1> QED
  BY <1>1, <1>2, BytesKnown DEF TypeOK

LEMMA SparedStep ==
    ASSUME PathsApart, TypeOK, Queue, Categorised, RunInv, Within
    PROVE  Spared'
<1>1. Spared /\ had' = had /\ marker' = marker
  BY DEF Within, RunInv
<1>2. EnginePaths \intersect ImageTars = {}
  BY DEF PathsApart
<1>3. ASSUME marker, NEW p \in (had \intersect ImageTars) \ AllImages, disk'[p] = Absent PROVE FALSE
  <2>1. p \in Paths /\ disk[p] # Absent
    BY <1>1, <1>3 DEF Spared, TypeOK
  <2>2. ~\E x \in todo : Transfer(x)
    BY <1>3, <2>1, TransferPuts
  <2> QED
    BY <1>2, <1>3, <2>1, <2>2, Deletes
<1> QED
  BY <1>1, <1>3 DEF Spared

\* Past the uploads of images, those of this package have arrived or failed; past those of
\* the engine so has everything.
LEMMA CarriedSent ==
    ASSUME PathsApart, TypeOK, Queue, RunInv, status = "run", command = "apply", NEW p \in Carried
    PROVE  /\ pc \in AfterImages /\ p \in ImageTars => p \in failed \union Named(uploaded)
           /\ pc = "pruneE" /\ engineUploaded /\ p \in EnginePaths => p \in failed \union Named(uploaded)
           /\ pc = "install" /\ engineUploaded => p \in failed \union Named(uploaded)
<1>1. Delivered /\ Chosen /\ pkg \in Packages
  BY DEF RunInv, Queue
<1>2. ASSUME NEW x, Sent(x), x.path = p PROVE p \in failed \union Named(uploaded)
  <2>1. <<x.category, x.path>>[2] = p
    BY <1>2
  <2> QED
    BY <1>2, <2>1 DEF Sent, Named
<1>3. CASE p \in Data
  <2> DEFINE y == [path |-> p, category |-> "data", bytes |-> <<pkg, "data", 0>>, staged |-> FALSE]
  <2>0. y \in dataFiles /\ y.path = p
    BY <1>3 DEF dataFiles
  <2>1. PICK x \in dataFiles : x.path = p
    BY <2>0
  <2>2. p \notin ImageTars /\ p \notin EnginePaths
    BY <1>3 DEF PathsApart
  <2> QED
    BY <1>1, <1>2, <2>1, <2>2 DEF Delivered, AfterData, AfterFiles, AfterImages
<1>4. ASSUME NEW x \in distroFilesFor, x.path = p 
      PROVE  /\ pc \in AfterImages /\ p \in ImageTars => p \in failed \union Named(uploaded)
             /\ pc = "pruneE" /\ engineUploaded /\ p \in EnginePaths => p \in failed \union Named(uploaded)
             /\ pc = "install" /\ engineUploaded => p \in failed \union Named(uploaded)
  <2>1. p \notin ImageTars /\ p \notin EnginePaths
    BY <1>1, <1>4, FileFacts DEF PathsApart
  <2> QED
    BY <1>1, <1>2, <1>4, <2>1 DEF Delivered, AfterFiles, AfterImages
<1>5. CASE p \in ImagesOf[pkg]
  <2> DEFINE y == [path |-> p, category |-> "image", bytes |-> <<pkg, "image", 0>>, staged |-> FALSE]
  <2>0. y \in imgFiles /\ y.path = p
    BY <1>5 DEF imgFiles
  <2>1. PICK x \in imgFiles : x.path = p
    BY <2>0
  <2>2. p \notin EnginePaths
    BY <1>1, <2>1, ImageFacts DEF PathsApart
  <2> QED
    BY <1>1, <1>2, <2>1, <2>2 DEF Delivered, AfterImages
<1>6. ASSUME NEW x \in profileFilesForArch(Method), x.path = p 
      PROVE  /\ pc \in AfterImages /\ p \in ImageTars => p \in failed \union Named(uploaded)
             /\ pc = "pruneE" /\ engineUploaded /\ p \in EnginePaths => p \in failed \union Named(uploaded)
             /\ pc = "install" /\ engineUploaded => p \in failed \union Named(uploaded)
  <2>1. p \notin ImageTars
    BY <1>1, <1>6, EngineFacts DEF PathsApart
  <2>2. engineUploaded => Sent(x)
    BY <1>1, <1>6 DEF Delivered, Chosen
  <2> QED
    BY <1>2, <1>6, <2>1, <2>2
<1> QED
  BY <1>1, <1>3, <1>4, <1>5, <1>6, MethodIs

LEMMA PruneStep ==
    ASSUME PathsApart, TypeOK, Queue, Categorised, RunInv, Next, command = "apply", status = "run",
           NEW p \in Carried, disk[p] # Absent, disk'[p] = Absent
    PROVE  p \in failed
<1>1. p \in Paths
  <2>1. pkg \in Packages
    BY DEF Queue
  <2>2. Data \union ImagesOf[pkg] \subseteq Paths
    BY <2>1, HostFilesAssumption
  <2>3. \A x \in distroFilesFor \union profileFilesForArch(Method) : x.path \in Paths
    BY <2>1, FileFacts, EngineFacts
  <2> QED
    BY <2>1, <2>2, <2>3, MethodIs
<1>2. CASE Within
  <2>1. ~\E x \in todo : Transfer(x)
    BY <1>1, TransferPuts
  <2>2. /\ p \notin Named(uploaded)
        /\ \/ pc \in AfterImages /\ p \in ImageTars
           \/ pc = "pruneE" /\ engineUploaded /\ p \in EnginePaths
    BY <1>1, <1>2, <2>1, Deletes DEF AfterImages
  <2> QED
    BY <2>2, CarriedSent
<1>3. CASE status' # "run"
  <2>1. installBinaries \/ disk' = disk
    BY <1>3 DEF Next, StartRun, cleanUpOldTmpFiles, Transfer, recordManifestEntry, EndUploads, Continue,
       cleanStaleImages, sweepUnmanagedImages, EnginePrepare, blockOtherInstallsIfUploaded,
       cleanStaleEngine, installAndPinPackagesFor, uninstallNode, Cut, hostVars, Running, RunInv
  <2> QED
    BY <1>1, <2>1 DEF installBinaries
<1>4. CASE status' = "run"
  <2>1. command' = "apply" \/ \E v, c, k : StartRun(c, v, k)
    BY <1>4 DEF Next, cleanUpOldTmpFiles, Transfer, recordManifestEntry, EndUploads, Continue,
       cleanStaleImages, sweepUnmanagedImages, EnginePrepare, blockOtherInstallsIfUploaded,
       cleanStaleEngine, installBinaries, installAndPinPackagesFor, uninstallNode, Cut
  <2>2. ~\E v, c, k : StartRun(c, v, k)
    BY DEF StartRun
  <2> QED
    BY <1>2, <1>4, <2>1, <2>2, StepsWithin
<1> QED
  BY <1>3, <1>4

LEMMA FaultyStays ==
    ASSUME TypeOK, Within
    PROVE  faulty => faulty'
<1> DEFINE Faults == \E ok \in BOOLEAN : Fails(ok)
<1>1. Faults => (faulty => faulty')
  BY FailsType
<1>2. CASE cleanStaleImages \/ cleanStaleEngine
  BY <1>2, Prunings
<1>3. CASE cleanUpOldTmpFiles \/ recordManifestEntry \/ sweepUnmanagedImages
  <2>1. Faults
    BY <1>3 DEF cleanUpOldTmpFiles, recordManifestEntry, sweepUnmanagedImages
  <2> QED
    BY <1>1, <2>1
<1>4. CASE (\E x \in todo : Transfer(x)) \/ EnginePrepare
  BY <1>4 DEF Transfer, EnginePrepare, Fails
<1>5. CASE EndUploads \/ blockOtherInstallsIfUploaded
  BY <1>5 DEF EndUploads, blockOtherInstallsIfUploaded
<1> QED
  BY <1>2, <1>3, <1>4, <1>5 DEF Within, Advance

LEMMA CleanStep ==
    ASSUME PathsApart, TypeOK, TypeOK', Queue, Queue', Categorised, Categorised', Accounted, RunInv,
           Within, ResetRuns, ~faulty'
    PROVE  Clean'
<1>1. /\ ~faulty /\ Clean /\ OwnUploads /\ Chosen /\ pkg \in Packages /\ pkg' = pkg /\ marker' = marker
      /\ status = "run" /\ command = "apply"
      /\ \A p : BytesFor(p)' = BytesFor(p)
      /\ Carried' = Carried /\ Method' = Method
  BY FaultyStays, Frames DEF Within, RunInv, Queue
<1>2. AllImages \subseteq ImageTars /\ EnginePaths \intersect ImageTars = {}
  BY HostFilesAssumption DEF AllImages, PathsApart
\* What is in place stays there.
<1>3. ASSUME NEW p \in Paths, InPlace(p), p \in Named(uploaded) \/ disk'[p] = disk[p] PROVE InPlace(p)'
  <2>1. CASE \E x \in todo : Transfer(x)
    <3>1. PICK x \in todo : Transfer(x)
      BY <2>1
    <3>2. x.path \in Paths /\ x.bytes \in BytesFor(x.path)
      BY <1>1, BatchFacts DEF Queue
    <3>3. tmp'[p] = tmp[p] \/ tmp'[p] \in BytesFor(p)
      BY <3>1, <3>2 DEF Transfer, TypeOK
    <3> QED
      BY <1>1, <1>3, <3>1, <3>3, TransferPuts DEF InPlace
  <2>2. CASE ~\E x \in todo : Transfer(x)
    <3>1. tmp' = tmp
      BY <2>2 DEF Within, Advance, cleanUpOldTmpFiles, recordManifestEntry, EndUploads,
         cleanStaleImages, sweepUnmanagedImages, EnginePrepare, blockOtherInstallsIfUploaded,
         cleanStaleEngine
    <3> QED
      BY <1>1, <1>3, <2>2, <3>1, Deletes DEF InPlace
  <2> QED
    BY <2>1, <2>2
<1>4. failed' = {}
  <2>1. CASE \E x \in todo : Transfer(x)
    BY <1>1, <2>1 DEF Transfer, Fails, Clean
  <2> QED
    BY <1>1, <2>1 DEF Clean, Within, Advance, cleanUpOldTmpFiles, recordManifestEntry, EndUploads,
         cleanStaleImages, sweepUnmanagedImages, EnginePrepare, blockOtherInstallsIfUploaded,
         cleanStaleEngine
<1>5. \A p \in Named(uploaded') : InPlace(p)'
  <2>1. Named(uploaded) \subseteq Paths
    BY DEF Named, TypeOK
  <2>2. CASE recordManifestEntry
    <3>1. uploaded' = uploaded \union {<<item.category, item.path>>} /\ disk' = disk /\ item # NoItem
      BY <2>2 DEF recordManifestEntry
    <3>2. item.path \in Paths
      BY <1>1, <3>1, BatchFacts DEF Queue
    <3>3. ASSUME NEW p, p = item.path PROVE InPlace(p)'
      BY <1>1, <1>3, <3>1, <3>2, <3>3 DEF Clean
    <3>4. \A p \in Named(uploaded') : p \in Named(uploaded) \/ p = item.path
      BY <3>1 DEF Named
    <3> QED
      BY <1>1, <1>3, <2>1, <3>3, <3>4 DEF Clean
  <2>3. CASE uploaded' = uploaded
    BY <1>1, <1>3, <2>1, <2>3 DEF Clean
  <2> QED
    BY <2>2, <2>3 DEF Within, Advance, cleanUpOldTmpFiles, Transfer, EndUploads,
         cleanStaleImages, sweepUnmanagedImages, EnginePrepare, blockOtherInstallsIfUploaded,
         cleanStaleEngine
<1>6. ASSUME item' # NoItem, NEW p, p = item'.path PROVE InPlace(p)'
  <2>1. ASSUME NEW x \in todo, Transfer(x) PROVE InPlace(p)'
    <3>1. x.path \in Paths /\ x.bytes \in BytesFor(x.path)
      BY <1>1, BatchFacts DEF Queue
    <3>2. item' = x /\ (disk'[x.path] = x.bytes \/ tmp'[x.path] = x.bytes)
      BY <1>6, <2>1, <3>1 DEF Transfer, TypeOK
    <3> QED
      BY <1>1, <1>6, <3>1, <3>2 DEF InPlace
  <2>2. CASE ~\E x \in todo : Transfer(x)
    <3>1. item' \in {item, NoItem}
      BY <2>2 DEF Within, Advance, cleanUpOldTmpFiles, recordManifestEntry, EndUploads,
         cleanStaleImages, sweepUnmanagedImages, EnginePrepare, blockOtherInstallsIfUploaded,
         cleanStaleEngine
    <3>2. item # NoItem => pc \in Uploads \union {"upload"} /\ item.path \in Paths
      BY <1>1, BatchFacts DEF Queue, Batch
    <3>3. item # NoItem => disk'[item.path] = disk[item.path]
      BY <1>1, <2>2, <3>2, Deletes DEF Uploads
    <3> QED
      BY <1>1, <1>3, <1>6, <3>1, <3>2, <3>3 DEF Clean
  <2> QED
    BY <2>1, <2>2
<1>7. pc' \in {"upload", "pruneE"} => Named(manifest') \subseteq Named(prior') \union Named(uploaded')
  <2>1. CASE EnginePrepare
    <3>1. pc' \in {"upload", "pruneE"} => prior' = manifest /\ manifest' = manifest
      BY <1>1, <2>1, AfterIs DEF EnginePrepare, Goto, Methods, Fails, readManifest
    <3> QED
      BY <3>1
  <2>2. CASE recordManifestEntry
    <3>1. pc' = pc /\ prior' = prior /\ uploaded' = uploaded \union {<<item.category, item.path>>}
      BY <2>2 DEF recordManifestEntry, Continue
    <3>2. manifest' \subseteq manifest \union {<<item.category, item.path>>}
      BY <2>2 DEF recordManifestEntry, WriteManifest, mergeManifest, readManifest
    <3>3. Named(manifest') \subseteq Named(manifest) \union {item.path}
      BY <3>2 DEF Named
    <3>4. Named(uploaded) \subseteq Named(uploaded')
      BY <3>1 DEF Named
    <3>5. <<item.category, item.path>>[2] = item.path
      OBVIOUS
    <3>6. item.path \in Named(uploaded')
      BY <3>1, <3>5 DEF Named
    <3> QED
      BY <1>1, <3>1, <3>3, <3>4, <3>6 DEF Clean
  <2>3. CASE (\E x \in todo : Transfer(x)) \/ blockOtherInstallsIfUploaded
    <3>1. UNCHANGED <<manifest, prior, uploaded>> /\ (pc' \in {"upload", "pruneE"} => pc \in {"upload", "pruneE"})
      BY <2>3 DEF Transfer, blockOtherInstallsIfUploaded, Continue, Running
    <3> QED
      BY <1>1, <3>1 DEF Clean
  <2>4. CASE cleanUpOldTmpFiles \/ EndUploads \/ cleanStaleImages \/ sweepUnmanagedImages \/ cleanStaleEngine
    <3>1. cleanStaleEngine => install \in Methods
      BY <1>1, InstallKnown DEF cleanStaleEngine, Running
    <3>2. pc' \notin {"upload", "pruneE"}
      BY <2>4, <3>1, AfterIs DEF cleanUpOldTmpFiles, EndUploads, cleanStaleImages, sweepUnmanagedImages,
           cleanStaleEngine, Goto, Methods, Uploads, Within, Running
    <3> QED
      BY <3>2
  <2> QED
    BY <2>1, <2>2, <2>3, <2>4 DEF Within, Advance
<1>8. ASSUME pc' \in AfterImages \ {"pruneI", "sweep"}, ~marker, NEW p \in ImageTars, disk'[p] # Absent
      PROVE  <<"image", p>> \in uploaded'
  <2>1. p \in Paths
    BY HostFilesAssumption
  <2>2. CASE sweepUnmanagedImages
    <3>1. disk' = [q \in Paths |-> IF q \in {r \in ImageTars : disk[r] # Absent} \
                        Named(filterManifestByCategory(uploaded, "image")) THEN Absent ELSE disk[q]]
      BY <1>1, <1>8, <2>2 DEF sweepUnmanagedImages, Fails
    <3>2. p \in Named(filterManifestByCategory(uploaded, "image"))
      BY <1>8, <2>1, <3>1
    <3>3. PICK e \in uploaded : e[1] = "image" /\ e[2] = p
      BY <3>2 DEF Named, filterManifestByCategory
    <3>4. e = <<"image", p>>
      BY <3>3 DEF TypeOK
    <3> QED
      BY <2>2, <3>4 DEF sweepUnmanagedImages
  <2>3. CASE ~sweepUnmanagedImages
    <3>1. pc \in AfterImages \ {"pruneI", "sweep"}
      <4>1. CASE cleanUpOldTmpFiles \/ EndUploads \/ cleanStaleImages
        BY <1>8, <4>1, AfterIs DEF cleanUpOldTmpFiles, EndUploads, cleanStaleImages, Goto, Uploads,
           Within, Running, AfterImages
      <4>2. CASE (\E x \in todo : Transfer(x)) \/ recordManifestEntry \/ EnginePrepare
                 \/ blockOtherInstallsIfUploaded \/ cleanStaleEngine
        BY <1>8, <4>2 DEF Transfer, recordManifestEntry, EnginePrepare, blockOtherInstallsIfUploaded,
           cleanStaleEngine, Continue, Methods, Running, AfterImages
      <4> QED
        BY <2>3, <4>1, <4>2 DEF Within, Advance
    <3>2. disk[p] # Absent
      <4>1. ASSUME NEW x \in todo, Transfer(x) PROVE disk'[p] = disk[p]
        <5>1. pc = "upload"
          BY <3>1, <4>1, Idle DEF AfterImages, Uploads
        <5>2. x.path \in EnginePaths
          BY <1>1, <4>1, <5>1, BatchFacts, EngineFacts DEF Queue
        <5> QED
          BY <1>2, <2>1, <4>1, <5>2, TransferPuts
      <4> QED
        BY <1>8, <2>1, <4>1, Deletes
    <3>3. <<"image", p>> \in uploaded
      BY <1>1, <1>8, <3>1, <3>2 DEF Clean
    <3> QED
      BY <3>3, SentStays
  <2> QED
    BY <2>2, <2>3
<1>9. ASSUME pc' \in {"apt", "bin", "install"}, engineUploaded', NEW p \in Paths, Ours(p)', disk'[p][2] = "engine"
      PROVE  p \in Carried \union missed'
  <2>1. CASE cleanStaleEngine
    <3>1. engineUploaded /\ pc = "pruneE" /\ item = NoItem /\ uploaded' = uploaded
      BY <1>9, <2>1, Idle DEF cleanStaleEngine, Running, Uploads
    <3>2. PICK gone \in SUBSET (prior \ uploaded) :
              /\ disk' = [q \in Paths |-> IF q \in Named(gone) THEN Absent ELSE disk[q]]
              /\ missed' = missed
              /\ \A e \in prior : e[1] = "engine" =>
                        e \in gone \/ e[2] \in Named(filterManifestByCategory(uploaded, "engine"))
      BY <2>1, <3>1, Prunings
    <3>3. Ours(p) /\ disk[p] = disk'[p] /\ p \notin Named(gone)
      BY <1>9, <3>2 DEF Ours
    <3>4. p \in EnginePaths
      BY <1>9, <3>3 DEF Categorised, Fits
    <3>5. p \in Named(manifest) \union missed
      BY <3>1, <3>3 DEF Accounted
    <3>6. \A e \in prior \union uploaded : e[2] = p => e[1] = "engine"
      BY <3>4 DEF Categorised, Fits
    <3>7. CASE p \in Named(manifest)
      <4>1. p \in Named(prior) \union Named(uploaded)
        BY <1>1, <3>1, <3>7 DEF Clean
      <4>2. ASSUME NEW e \in prior, e[2] = p PROVE \E d \in uploaded : d[2] = p
        <5>1. e \notin gone
          BY <3>3, <4>2 DEF Named
        <5> QED
          BY <3>2, <3>6, <4>2, <5>1 DEF Named, filterManifestByCategory
      <4>3. PICK e \in uploaded : e[2] = p
        BY <4>1, <4>2 DEF Named
      <4>4. p \in {x.path : x \in profileFilesForArch(install)} /\ install = Method
        BY <1>1, <3>1, <3>6, <4>3 DEF OwnUploads, Chosen
      <4> QED
        BY <1>1, <4>4, MethodIs
    <3> QED
      BY <3>2, <3>5, <3>7
  <2>2. CASE EnginePrepare
    <3>1. pc \in Methods /\ engineUploaded /\ UNCHANGED <<disk, missed>> /\ pc # "rpm"
      BY <1>1, <1>9, <2>2 DEF EnginePrepare, Chosen
    <3> QED
      BY <1>1, <1>9, <3>1, AfterIs DEF Clean, Ours, Methods
  <2>3. CASE ~cleanStaleEngine /\ ~EnginePrepare
    <3>1. cleanUpOldTmpFiles \/ EndUploads \/ cleanStaleImages \/ sweepUnmanagedImages \/ blockOtherInstallsIfUploaded
              => pc' \notin {"apt", "bin", "install"}
      BY AfterIs DEF cleanUpOldTmpFiles, EndUploads, cleanStaleImages, sweepUnmanagedImages,
           blockOtherInstallsIfUploaded, Goto, Uploads, Within, Running
    <3>2. (\E x \in todo : Transfer(x)) \/ recordManifestEntry => pc' = pc /\ pc \in Uploads \union {"upload"}
      BY Idle DEF Transfer, recordManifestEntry, Continue
    <3> QED
      BY <1>9, <2>3, <3>1, <3>2 DEF Within, Advance, Uploads
  <2> QED
    BY <2>1, <2>2, <2>3
<1> QED
  BY <1>1, <1>4, <1>5, <1>6, <1>7, <1>8, <1>9 DEF Clean

LEMMA RunStep ==
    ASSUME PathsApart, TypeOK, TypeOK', Queue, Queue', Categorised, Categorised', Accounted, RunInv,
           ResetRuns, Next
    PROVE  RunInv'
<1> SUFFICES ASSUME status' = "run", command' = "apply" PROVE RunInv'
  BY DEF RunInv
<1>1. ASSUME NEW v \in Packages, NEW k \in BOOLEAN, StartRun("apply", v, k) PROVE RunInv'
  <2>1. /\ pc' = "tmp" /\ todo' = {} /\ item' = NoItem /\ uploaded' = {} /\ failed' = {}
        /\ install' = "none" /\ ~engineUploaded' /\ disk' = disk /\ had' = {p \in Paths : disk[p] # Absent}
    BY <1>1 DEF StartRun
  <2>2. Delivered' /\ OwnUploads' /\ Spared'
    BY <2>1 DEF Delivered, OwnUploads, Spared, Batch, Uploads, AfterData, AfterFiles, AfterImages
  <2>3. Chosen'
    BY <2>1 DEF Chosen
  <2>4. Clean'
    BY <2>1 DEF Clean, Named, AfterImages
  <2> QED
    BY <2>1, <2>2, <2>3, <2>4 DEF RunInv
<1>2. CASE Within
  <2>1. pc' # "uninstall"
    <3>1. cleanStaleEngine => install \in Methods
      BY <1>2, InstallKnown DEF cleanStaleEngine, Running, Within
    <3> QED
      BY <1>2, <3>1, AfterIs DEF Within, Advance, RunInv, cleanUpOldTmpFiles, Transfer, recordManifestEntry,
         EndUploads, cleanStaleImages, sweepUnmanagedImages, EnginePrepare, blockOtherInstallsIfUploaded,
         cleanStaleEngine, Goto, Continue, Methods, Uploads
  <2> QED
    BY <1>2, <2>1, DeliveredStep, OwnUploadsStep, ChosenStep, SparedStep, CleanStep DEF RunInv
<1> QED
  BY <1>1, <1>2, StepsWithin

-----------------------------------------------------------------------------
(* What is reached in the end.                                             *)

\* At the install the engine's files have been uploaded by the one method for this host.
LEMMA AtInstall ==
    ASSUME PathsApart, EngineCarried, TypeOK, Queue, RunInv, ResetRuns, Running("install")
    PROVE  /\ command = "apply" /\ engineUploaded /\ install = Method /\ HasEngine(Method)
           /\ pkg \in Packages /\ item = NoItem
<1>1. command = "apply" /\ Chosen /\ pkg \in Packages /\ item = NoItem
  BY Idle DEF Running, RunInv, ResetRuns, TypeOK, Queue, Uploads
<1>2. ASSUME ~engineUploaded PROVE FALSE
  <2>1. ~HasEngine("bin") /\ Method = "bin"
    BY <1>1, <1>2 DEF Chosen, Running
  <2>2. PICK i \in DOMAIN OSFilesOf[pkg] :
            OSFilesOf[pkg][i].selector \in {family, "bin"} /\ Applies(OSFilesOf[pkg][i])
    BY <1>1 DEF EngineCarried, TypeOK
  <2>3. HasEngine(OSFilesOf[pkg][i].selector)
    BY <2>2 DEF HasEngine, profileFilesForArch
  <2>4. OSFilesOf[pkg][i].selector # "other"
    <3>1. OSFilesOf[pkg][i] \in Entry
      BY <1>1, HostFilesAssumption
    <3> QED
      BY <3>1 DEF Entry
  <2> QED
    BY <1>1, <2>1, <2>2, <2>3, <2>4, MethodIs DEF TypeOK
<1> QED
  BY <1>1, <1>2 DEF Chosen

LEMMA ConvergedStep ==
    ASSUME PathsApart, EngineCarried, TypeOK, TypeOK', Queue, Categorised, Staged, RunInv, ResetRuns,
           installBinaries \/ installAndPinPackagesFor, ~faulty'
    PROVE  Converged'
<1>1. Running("install")
  BY DEF installBinaries, installAndPinPackagesFor
<1>2. /\ command = "apply" /\ engineUploaded /\ install = Method /\ HasEngine(Method)
      /\ pkg \in Packages /\ pc = "install" /\ status = "run"
      /\ Delivered /\ OwnUploads /\ Chosen /\ Spared
  BY <1>1, AtInstall DEF Running, RunInv
<1>3. pkg' = pkg /\ UNCHANGED <<family, lockable, marker, had, command>>
  BY DEF installBinaries, installAndPinPackagesFor, HostConstants
<1>4. Carried' = Carried /\ Method' = Method /\ \A p : BytesFor(p)' = BytesFor(p)
  BY <1>3, Frames
<1>5. ~faulty /\ Clean
  <2>1. ~faulty
    BY DEF installBinaries, installAndPinPackagesFor, Fails
  <2> QED
    BY <1>2, <2>1 DEF RunInv
<1>6. /\ \A p \in Carried : p \in Paths /\ p \in Named(uploaded)
      /\ \A p \in ImageTars : p \in Paths /\ p \notin EnginePaths
  <2>1. \A p \in Carried : p \in Named(uploaded)
    BY <1>2, <1>5, CarriedSent DEF Clean
  <2>2. Named(uploaded) \subseteq Paths
    BY DEF Named, TypeOK
  <2> QED
    BY <2>1, <2>2, HostFilesAssumption DEF PathsApart
<1>7. \A p \in Paths : \A b \in BytesFor(p) : b # Absent /\ b # Foreign
  BY <1>2, BytesForFits, BytesKnown
\* The files after the install.
<1>8. /\ \A p \in Paths : IF tmp[p] # Absent THEN disk'[p] = tmp[p] ELSE disk'[p] = disk[p]
      /\ \A p \in Paths : tmp[p] # Absent => p \in EnginePaths /\ p \in Carried
      /\ missed \subseteq missed'
  <2>1. CASE installBinaries
    <3>1. PICK moved : /\ disk' = [p \in Paths |-> IF p \in moved THEN tmp[p] ELSE disk[p]]
                       /\ moved = {x.path : x \in {y \in profileFilesForArch("bin") : y.staged}}
                       /\ \A p \in moved : tmp[p] # Absent
      BY <2>1 DEF installBinaries, Fails
    <3>2. \A p \in Paths : tmp[p] # Absent => p \in moved
      BY <3>1 DEF Staged
    <3>3. \A p \in moved : p \in EnginePaths
      BY <1>2, <3>1, EngineFacts
    <3>4. install = "bin"
      BY <2>1 DEF installBinaries
    <3>5. \A p \in moved : p \in Carried
      BY <1>2, <3>1, <3>4, MethodIs
    <3> QED
      BY <2>1, <3>1, <3>2, <3>3, <3>5 DEF installBinaries
  <2>2. CASE installAndPinPackagesFor
    <3>1. \A p \in Paths : tmp[p] = Absent
      BY <1>2, <2>2 DEF installAndPinPackagesFor, Staged
    <3> QED
      BY <2>2, <3>1 DEF installAndPinPackagesFor
  <2> QED
    BY <2>1, <2>2
<1>9. \A p \in Carried : disk'[p] \in BytesFor(p)
  BY <1>5, <1>6, <1>7, <1>8 DEF Clean, InPlace, Staged
<1>10. ASSUME ~marker PROVE {p \in ImageTars : disk'[p] # Absent} = ImagesOf[pkg]
  <2>1. \A p \in ImagesOf[pkg] : p \in ImageTars /\ p \in Carried
    BY <1>2, HostFilesAssumption, MethodIs
  <2>2. \A p \in ImagesOf[pkg] : disk'[p] # Absent
    BY <1>6, <1>7, <1>9, <2>1
  <2>3. ASSUME NEW p \in ImageTars, disk'[p] # Absent PROVE p \in ImagesOf[pkg]
    <3>1. disk[p] # Absent
      BY <1>6, <1>8, <2>3
    <3>2. <<"image", p>> \in uploaded
      BY <1>2, <1>5, <1>10, <3>1 DEF Clean, AfterImages
    <3> QED
      BY <1>2, <3>2 DEF OwnUploads
  <2> QED
    BY <2>1, <2>2, <2>3
<1>11. marker => \A p \in had \intersect ImageTars : p \notin AllImages => disk'[p] # Absent
  BY <1>2, <1>6, <1>8 DEF Spared
<1>12. ASSUME NEW p \in Paths, Ours(p)', disk'[p][2] = "engine" PROVE p \in Carried \union missed'
  <2>1. CASE tmp[p] # Absent
    BY <1>8, <2>1
  <2>2. CASE tmp[p] = Absent
    <3>1. Ours(p) /\ disk[p][2] = "engine"
      BY <1>8, <1>12, <2>2 DEF Ours
    <3> QED
      BY <1>2, <1>5, <1>8, <3>1 DEF Clean
  <2> QED
    BY <2>1, <2>2
<1>13. Method # "bin" => installed' = pkg /\ pinned' = lockable
  BY <1>2 DEF installBinaries, installAndPinPackagesFor, Fails, HasEngine
<1> QED
  BY <1>3, <1>4, <1>9, <1>10, <1>11, <1>12, <1>13 DEF Converged, AllImages

LEMMA ResetStep ==
    ASSUME TypeOK, Queue, Accounted, uninstallNode, ~faulty'
    PROVE  ResetLeavesNothing'
<1>1. item = NoItem
  BY Idle DEF uninstallNode, Running, Uploads
<1>2. /\ disk' = [p \in Paths |-> IF p \in DataDirs \union Named(manifest) THEN Absent ELSE disk[p]]
      /\ installed' = 0 \/ (enginePackages = {} /\ installed' = installed)
  <2>1. PICK read, swept, dropped, ok \in BOOLEAN : \E gone \in SUBSET Named(readManifest(read)) :
          /\ disk' = [p \in Paths |-> IF p \in (IF swept THEN DataDirs ELSE {}) \union gone
                                      THEN Absent ELSE disk[p]]
          /\ manifest' = IF Named(readManifest(read)) # {} /\ dropped THEN {} ELSE manifest
          /\ Fails(ok /\ read /\ swept /\ dropped /\ gone = Named(readManifest(read)))
          /\ ok => installed' = 0 \/ (enginePackages = {} /\ installed' = installed)
    BY Uninstalls
  <2>2. PICK gone :
          /\ disk' = [p \in Paths |-> IF p \in (IF swept THEN DataDirs ELSE {}) \union gone
                                      THEN Absent ELSE disk[p]]
          /\ ok /\ read /\ swept /\ dropped /\ gone = Named(readManifest(read))
    BY <2>1 DEF Fails
  <2>3. readManifest(read) = manifest
    BY <2>2 DEF readManifest
  <2> QED
    BY <2>1, <2>2, <2>3
<1>3. installed' = 0
  BY <1>2 DEF enginePackages, detectInstalledEnginePackages
<1>4. missed \subseteq missed'
  BY DEF uninstallNode
<1>5. ASSUME NEW p \in Paths, Ours(p)' PROVE p \in missed'
  <2>1. Ours(p) /\ p \notin Named(manifest)
    BY <1>2, <1>5 DEF Ours
  <2> QED
    BY <1>1, <1>4, <2>1 DEF Accounted
<1> QED
  BY <1>3, <1>5 DEF ResetLeavesNothing

LEMMA InvStep ==
    ASSUME PathsApart, FilesInv, [Next]_vars
    PROVE  FilesInv'
<1>1. CASE UNCHANGED vars
  <2>1. pkg' = pkg /\ family' = family
    BY <1>1 DEF vars, hostVars
  <2> USE <1>1, <2>1, Frames DEF vars, hostVars, metaVars, histVars
  <2>2. TypeOK' /\ Categorised'
    BY DEF FilesInv, TypeOK, Categorised, Ours
  <2>3. Batch' = Batch
    BY DEF Batch
  <2>4. Queue' /\ Accounted' /\ ResetRuns'
    BY <2>3 DEF FilesInv, Queue, Accounted, Ours, Named, ResetRuns
  <2>5. Staged'
    BY DEF FilesInv, Staged
  <2>6. RunInv'
    <3>1. Delivered = Delivered'
      BY <2>3 DEF Delivered, Pending, Sent
    <3>2. OwnUploads = OwnUploads' /\ Spared = Spared'
      BY DEF OwnUploads, Spared
    <3>3. Chosen = Chosen'
      BY DEF Chosen
    <3>4. Clean = Clean'
      BY DEF Clean, InPlace, Ours, Named
    <3> QED
      BY <3>1, <3>2, <3>3, <3>4 DEF FilesInv, RunInv
  <2> QED
    BY <2>2, <2>4, <2>5, <2>6 DEF FilesInv
<1>2. CASE Next
  <2>1. TypeOK' /\ Queue' /\ Categorised' /\ Accounted' /\ Staged' /\ ResetRuns'
    BY <1>2, TypeStep, QueueStep, CategorisedStep, AccountedStep, StagedStep, ResetRunsStep DEF FilesInv
  <2>2. RunInv'
    BY <1>2, <2>1, RunStep DEF FilesInv
  <2> QED
    BY <2>1, <2>2 DEF FilesInv
<1> QED
  BY <1>1, <1>2

LEMMA OutcomeStep ==
    ASSUME PathsApart, EngineCarried, FilesInv, FilesInv', Converged, ResetLeavesNothing, [Next]_vars
    PROVE  Converged' /\ ResetLeavesNothing'
<1>1. CASE UNCHANGED vars
  <2>1. pkg' = pkg /\ family' = family
    BY <1>1 DEF vars, hostVars
  <2> QED
    BY <1>1, <2>1, Frames DEF vars, hostVars, metaVars, histVars, Converged, ResetLeavesNothing, Ours
<1>2. ASSUME Next, status' = "ok", ~faulty' PROVE Converged' /\ ResetLeavesNothing'
  <2>1. installBinaries \/ installAndPinPackagesFor \/ uninstallNode
    BY <1>2 DEF Next, StartRun, cleanUpOldTmpFiles, Running, Transfer, recordManifestEntry,
         EndUploads, cleanStaleImages, sweepUnmanagedImages, EnginePrepare, blockOtherInstallsIfUploaded,
         cleanStaleEngine, Cut, Continue
  <2>2. CASE installBinaries \/ installAndPinPackagesFor
    <3>1. Running("install")
      BY <2>2 DEF installBinaries, installAndPinPackagesFor
    <3>2. command' = "apply"
      BY <2>2, <3>1, AtInstall DEF FilesInv, installBinaries, installAndPinPackagesFor
    <3> QED
      BY <1>2, <2>2, <3>2, ConvergedStep DEF FilesInv, ResetLeavesNothing
  <2>3. CASE uninstallNode
    <3>1. command' = "reset"
      BY <2>3 DEF uninstallNode, Running, FilesInv, RunInv, TypeOK
    <3> QED
      BY <1>2, <2>3, <3>1, ResetStep DEF FilesInv, Converged
  <2> QED
    BY <2>1, <2>2, <2>3
<1> QED
  BY <1>1, <1>2 DEF Converged, ResetLeavesNothing

LEMMA InvInit ==
    ASSUME Init
    PROVE  FilesInv
<1>1. TypeOK
  <2>1. pc \in {Stages[k] : k \in DOMAIN Stages}
    BY StageIs DEF Init
  <2>2. disk \in [Paths -> Bytes \union {Absent, Foreign}] /\ tmp \in [Paths -> Bytes \union {Absent}]
    BY DEF Init
  <2>3. faults \in 0..MaxFaults
    BY HostFilesAssumption DEF Init
  <2> QED
    BY <2>1, <2>2, <2>3 DEF Init, TypeOK
<1>2. Categorised /\ Queue /\ Accounted /\ Staged /\ RunInv /\ ResetRuns
  BY DEF Init, Categorised, Queue, Accounted, Staged, RunInv, ResetRuns, Ours
<1> QED
  BY <1>1, <1>2 DEF FilesInv

\* No prune of an apply (cleanStaleImages, sweepUnmanagedImages, cleanStaleEngine) takes a
\* file that the package still has for the host, unless its own upload has failed.
THEOREM PrunesAreSafe == ASSUME PathsApart PROVE Spec => PruneOnlyDropped
<1> DEFINE Step == command = "apply" /\ status = "run" =>
                      \A p \in Carried : disk[p] # Absent /\ disk'[p] = Absent => p \in failed
<1>1. FilesInv /\ [Next]_vars => [Step]_vars
  BY PruneStep DEF FilesInv
<1> QED
  BY <1>1, InvInit, InvStep, PTL DEF Spec, PruneOnlyDropped

\* What runs without faults make of a host: an apply (UploadFiles to InstallStagedFiles)
\* converges it and a reset (uninstallNode) empties it, whatever the runs before it left.
THEOREM FilesAsPromised == ASSUME PathsApart, EngineCarried PROVE Spec => []FilesSound
<1> DEFINE Outcome == FilesInv /\ Converged /\ ResetLeavesNothing
<1>1. Init => Outcome
  BY InvInit DEF Init, Converged, ResetLeavesNothing
<1>2. Outcome /\ [Next]_vars => Outcome'
  BY InvStep, OutcomeStep
<1>3. Outcome => FilesSound
  BY DEF FilesInv, FilesSound
<1> QED
  BY <1>1, <1>2, <1>3, PTL DEF Spec
=============================================================================
