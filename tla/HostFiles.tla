------------------------------ MODULE HostFiles ------------------------------
(***************************************************************************)
(* The files cargoship keeps on one host, over several runs of `apply` and *)
(* `reset`: what the upload phases put there, the manifest that records    *)
(* it, the prunes of what a package no longer carries, the staged install  *)
(* and the uninstall.                                                      *)
(*                                                                         *)
(* Uploads replace a file atomically (rig writes a temporary file and      *)
(* renames it); the manifest is rewritten in place.  Every remote command  *)
(* may fail and a run may be cut at every point.                           *)
(***************************************************************************)
EXTENDS Naturals, Sequences, FiniteSets

CONSTANTS
    Paths,      \* the paths on the host that matter
    ImageTars,  \* those that are tarballs in the engine's image directory
    DataDirs,   \* those below the distro's CleanupPaths
    Data,       \* the host's own `files`, with inline data
    Packages,   \* package versions, numbered from 1
    FilesOf,    \* [Packages -> Seq(Entry)]: Spec.Config.Files
    OSFilesOf,  \* [Packages -> Seq(Entry)]: Spec.Config.OS.Files
    ImagesOf,   \* [Packages -> SUBSET ImageTars]: the tarballs of EnabledImages
    Arch,       \* the host's architecture
    Role,       \* the host's role, the profile a selector names
    MaxRuns,    \* bound on the number of runs
    MaxFaults   \* bound on the commands that fail and the runs that are cut

\* A file of a package with its selector; `when` is what the values hold at its path.
Entry == [path : Paths, arch : {"any", "amd64", "arm64"}, profile : {"any", "controller", "worker"},
          when : {"none", "absent", "malformed", "true", "false"},
          selector : {"any", "rpm", "apt", "bin"}, executable : BOOLEAN]

ASSUME HostFilesAssumption ==
    /\ ImageTars \subseteq Paths /\ DataDirs \subseteq Paths /\ Data \subseteq Paths
    /\ Packages \subseteq Nat \ {0}
    /\ FilesOf \in [Packages -> Seq(Entry)] /\ OSFilesOf \in [Packages -> Seq(Entry)]
    /\ ImagesOf \in [Packages -> SUBSET ImageTars]
    /\ MaxRuns \in Nat /\ MaxFaults \in Nat

Categories == {"data", "file", "image", "engine"}

\* What a file holds: bytes of a package's list, by position, and "other" for bytes
\* that cargoship did not put there.
Bytes == Packages \X {"data", "file", "image", "engine"} \X Nat
Absent == <<>>
Foreign == <<0>>

NoItem == [path |-> "", category |-> "", bytes |-> Absent, staged |-> FALSE]

VARIABLES
    \* The host.
    disk,       \* [Paths -> bytes, Foreign or Absent]
    tmp,        \* [Paths -> Bytes or Absent]: what this run staged as <path>.tmp.<nonce>
    leftover,   \* SUBSET Paths: paths with a staged file of an earlier run
    manifest,   \* SUBSET (Categories \X Paths): manifest.txt
    installed,  \* the package version the package manager holds, 0 for none
    pinned,     \* is it held at its version?
    family,     \* "rpm", "apt" or "other"
    lockable,   \* does the package manager offer version locks?
    marker,     \* is there a cargoship-keep-images file?
    \* The process.
    command, pkg, pc, status,
    known,      \* can the host's architecture be read?
    prior,      \* priorManifest of the phase
    uploaded,   \* SUBSET (Categories \X Paths): Metadata.UploadedFiles
    engineUploaded, \* Metadata.EngineUploaded
    install,    \* the closure in Metadata.Install: a selector, or "none"
    todo,       \* the items the phase has still to upload
    item,       \* the one that is uploaded and not yet recorded
    \* History.
    runs,
    had,        \* SUBSET Paths: what was there when the run started
    failed,     \* SUBSET Paths: uploads that failed in this run
    faulty,     \* has a command of this run failed?
    faults,     \* how many did, in all runs
    missed      \* SUBSET Paths: files of ours that the manifest has lost

hostVars == <<disk, tmp, leftover, manifest, installed, pinned, family, lockable, marker>>
metaVars == <<prior, uploaded, engineUploaded, install, todo, item>>
histVars == <<runs, had, failed, faulty, faults, missed>>
vars == <<hostVars, metaVars, histVars, command, pkg, pc, status, known>>

Stages == <<"tmp", "data", "file", "image", "pruneI", "sweep", "rpm", "apt", "bin", "install">>

TypeOK ==
    /\ disk \in [Paths -> Bytes \union {Absent, Foreign}]
    /\ tmp \in [Paths -> Bytes \union {Absent}]
    /\ leftover \subseteq Paths
    /\ manifest \subseteq Categories \X Paths
    /\ installed \in Packages \union {0} /\ pinned \in BOOLEAN
    /\ family \in {"rpm", "apt", "other"} /\ lockable \in BOOLEAN /\ marker \in BOOLEAN
    /\ command \in {"apply", "reset"} /\ pkg \in Packages \union {0}
    /\ pc \in {Stages[k] : k \in DOMAIN Stages} \union {"upload", "pruneE", "uninstall"}
    /\ status \in {"idle", "run", "ok", "err", "cut"} /\ known \in BOOLEAN
    /\ prior \subseteq Categories \X Paths /\ uploaded \subseteq Categories \X Paths
    /\ engineUploaded \in BOOLEAN /\ install \in {"none", "rpm", "apt", "bin"}
    /\ item = NoItem \/ item.path \in Paths
    /\ runs \in Nat /\ faults \in 0..MaxFaults /\ faulty \in BOOLEAN
    /\ {had, failed, missed} \subseteq SUBSET Paths

-----------------------------------------------------------------------------
(* Which files of a package a host takes, and from where.                  *)

whenEnabled(w) == w \in {"none", "true"}

Applies(e) ==
    /\ e.arch \in {"any", Arch}
    /\ e.profile \in {"any", Role}
    /\ whenEnabled(e.when)

\* Mutant of Assembled: the entries that apply are counted, not the list's.
AssembledRenumbered(list, i) == Cardinality({k \in 1..i : Applies(list[k])})

\* The directory a file was assembled into is its position in the whole list.
Assembled(list, i) == i

Item(e, category, list, i, staged) ==
    [path |-> e.path, category |-> category, bytes |-> <<pkg, category, Assembled(list, i)>>,
     staged |-> staged]

dataFiles == {[path |-> p, category |-> "data", bytes |-> <<pkg, "data", 0>>, staged |-> FALSE] :
              p \in Data}

distroFilesFor ==
    LET list == FilesOf[pkg] IN
    {Item(list[i], "file", list, i, FALSE) : i \in {k \in DOMAIN list : Applies(list[k])}}

imgFiles == {[path |-> p, category |-> "image", bytes |-> <<pkg, "image", 0>>, staged |-> FALSE] :
             p \in ImagesOf[pkg]}

\* Only a binary install stages, and only what is executable.
profileFilesForArch(selector) ==
    LET list == OSFilesOf[pkg] IN
    {Item(list[i], "engine", list, i, list[i].executable /\ selector = "bin") :
        i \in {k \in DOMAIN list : list[k].selector = selector /\ Applies(list[k])}}

-----------------------------------------------------------------------------
(* The manifest.                                                           *)

Named(m) == {e[2] : e \in m}

\* The last category of a path wins.
mergeManifest(m, category, p) == {e \in m : e[2] # p} \union {<<category, p>>}

diffManifest(old, current) == {e \in old : e[2] \notin Named(current)}

\* Mutant of filterManifestByCategory: the diff is not scoped.
filterManifestAll(m, category) == m

filterManifestByCategory(m, category) == {e \in m : e[1] = category}

\* What readManifest returns: nothing, too, when the file cannot be read.
readManifest(ok) == IF ok THEN manifest ELSE {}

\* A rewrite that fails has left the old lines or cut the file short.
WriteManifest(new, ok) == manifest' \in IF ok THEN {new} ELSE {manifest, {}}

-----------------------------------------------------------------------------
(* Steps of a run.                                                         *)

Running(stage) == status = "run" /\ pc = stage

After(stage) == Stages[1 + CHOOSE k \in DOMAIN Stages : Stages[k] = stage]

\* The phases that upload, and what they upload.
Uploads == {"data", "file", "image"}
ItemsOf(stage) ==
    CASE stage = "data" -> dataFiles
      [] stage = "file" -> distroFilesFor
      [] OTHER -> imgFiles

Goto(stage) ==
    /\ pc' = stage
    /\ todo' = IF stage \in Uploads THEN ItemsOf(stage) ELSE {}

Fails(ok) ==
    /\ ok \/ faults < MaxFaults
    /\ faulty' = (faulty \/ ~ok)
    /\ faults' = IF ok THEN faults ELSE faults + 1
Continue == UNCHANGED <<command, pkg, status, known, runs, had>>
HostConstants == UNCHANGED <<family, lockable, marker>>

\* UploadFiles.Prepare, and cleanUpOldTmpFiles for the files this package names.
cleanUpOldTmpFiles ==
    /\ Running("tmp")
    /\ \E read, ok \in BOOLEAN :
          /\ prior' = readManifest(read)
          /\ leftover' = IF ok THEN leftover \ ({FilesOf[pkg][i].path : i \in DOMAIN FilesOf[pkg]} \union
                                                {OSFilesOf[pkg][i].path : i \in DOMAIN OSFilesOf[pkg]})
                         ELSE leftover
          /\ Fails(read /\ ok)
    /\ IF known THEN Goto("data") /\ UNCHANGED status
       ELSE status' = "err" /\ UNCHANGED <<pc, todo>>
    /\ HostConstants
    /\ UNCHANGED <<disk, tmp, manifest, installed, pinned, command, pkg, known, uploaded,
                   engineUploaded, install, item, runs, had, failed, missed>>

\* uploadFile and uploadData up to the transfer.  A failed transfer changes nothing and is
\* only logged.
Transfer(x) ==
    /\ status = "run" /\ item = NoItem
    /\ \A y \in todo : x.bytes[3] <= y.bytes[3]
    /\ todo' = todo \ {x}
    /\ \/ /\ item' = x
          /\ IF x.staged
             THEN tmp' = [tmp EXCEPT ![x.path] = x.bytes] /\ UNCHANGED disk
             ELSE disk' = [disk EXCEPT ![x.path] = x.bytes] /\ UNCHANGED tmp
          /\ UNCHANGED <<failed, faulty, faults>>
       \/ /\ failed' = failed \union {x.path} /\ Fails(FALSE)
          /\ UNCHANGED <<item, tmp, disk>>
    /\ HostConstants /\ Continue
    /\ UNCHANGED <<leftover, manifest, installed, pinned, pc, prior, uploaded, engineUploaded,
                   install, missed>>

\* Files of ours that are on the disk and that m does not name.
Unnamed(D, m) == {p \in Paths : D[p] \notin {Absent, Foreign} /\ p \notin Named(m)}

\* recordManifestEntry, and applyFileMetadata after it, whose failure is logged too.
recordManifestEntry ==
    /\ item # NoItem /\ status = "run"
    /\ uploaded' = uploaded \union {<<item.category, item.path>>}
    /\ \E read, write, chown \in BOOLEAN :
          /\ WriteManifest(mergeManifest(readManifest(read), item.category, item.path), write)
          /\ missed' = IF read /\ write THEN missed \ {item.path}
                       ELSE missed \union Unnamed(disk, manifest')
          /\ Fails(read /\ write /\ chown)
    /\ item' = NoItem
    /\ HostConstants /\ Continue
    /\ UNCHANGED <<disk, tmp, leftover, installed, pinned, pc, prior, engineUploaded, install,
                   todo, failed>>

EndUploads ==
    /\ status = "run" /\ item = NoItem /\ todo = {} /\ pc \in Uploads
    /\ Goto(After(pc))
    /\ HostConstants /\ Continue
    /\ UNCHANGED <<disk, tmp, leftover, manifest, installed, pinned, prior, uploaded,
                   engineUploaded, install, item, failed, faulty, faults, missed>>

\* removeStaleManifestEntries: delete, then stop claiming what was deleted.
removeStaleManifestEntries(old, current) ==
    LET stale == diffManifest(old, current) IN
    \E gone \in SUBSET stale, read, write \in BOOLEAN :
        /\ disk' = [p \in Paths |-> IF p \in Named(gone) THEN Absent ELSE disk[p]]
        /\ IF gone = {} THEN UNCHANGED manifest
           ELSE WriteManifest(diffManifest(readManifest(read), gone), write)
        /\ missed' = missed \union IF read /\ write THEN {} ELSE Unnamed(disk', manifest')
        /\ Fails(gone = stale /\ read /\ write)

cleanStaleImages ==
    /\ Running("pruneI")
    /\ removeStaleManifestEntries(filterManifestByCategory(prior, "image"),
                                  filterManifestByCategory(uploaded, "image"))
    /\ Goto("sweep")
    /\ HostConstants /\ Continue
    /\ UNCHANGED <<tmp, leftover, installed, pinned, prior, uploaded, engineUploaded, install,
                   item, failed>>

\* The tarballs of the image directory that this run did not upload as images.
sweepUnmanagedImages ==
    /\ Running("sweep")
    /\ LET unmanaged == {p \in ImageTars : disk[p] # Absent} \
                        Named(filterManifestByCategory(uploaded, "image")) IN
       \E gone \in SUBSET (IF marker THEN {} ELSE unmanaged) :
          /\ disk' = [p \in Paths |-> IF p \in gone THEN Absent ELSE disk[p]]
          /\ Fails(marker \/ gone = unmanaged)
    /\ Goto("rpm")
    /\ HostConstants /\ Continue
    /\ UNCHANGED <<tmp, leftover, manifest, installed, pinned, prior, uploaded, engineUploaded,
                   install, item, failed, missed>>

-----------------------------------------------------------------------------
(* The engine's files: RPM, APT and binary uploads.                        *)

Methods == {"rpm", "apt", "bin"}

\* The hosts of the RPM and of the APT phase.
EnterpriseLinux == pc = "rpm" /\ family = "rpm"
DebianLike == pc = "apt" /\ family = "apt"

\* UploadFilesCommon.Prepare and the closures: a host whose engine files are there is left
\* out, and the package managers' phases take their own hosts only.
EnginePrepare ==
    /\ status = "run" /\ pc \in Methods
    /\ IF ~engineUploaded /\ (EnterpriseLinux \/ DebianLike \/ pc = "bin")
       THEN /\ \E read \in BOOLEAN : prior' = readManifest(read) /\ Fails(read)
            /\ install' = pc /\ todo' = profileFilesForArch(pc) /\ pc' = "upload"
       ELSE Goto(After(pc)) /\ UNCHANGED <<prior, install, faulty, faults>>
    /\ HostConstants /\ Continue
    /\ UNCHANGED <<disk, tmp, leftover, manifest, installed, pinned, uploaded, engineUploaded,
                   item, failed, missed>>

\* blockOtherInstallsIfUploaded: decided by what there was to upload, not by what arrived.
blockOtherInstallsIfUploaded ==
    /\ Running("upload") /\ item = NoItem /\ todo = {}
    /\ engineUploaded' = (profileFilesForArch(install) # {})
    /\ Goto("pruneE")
    /\ HostConstants /\ Continue
    /\ UNCHANGED <<disk, tmp, leftover, manifest, installed, pinned, prior, uploaded, install,
                   item, failed, faulty, faults, missed>>

Prunes == engineUploaded

cleanStaleEngine ==
    /\ Running("pruneE")
    /\ IF Prunes
       THEN removeStaleManifestEntries(filterManifestByCategory(prior, "engine"),
                                       filterManifestByCategory(uploaded, "engine"))
       ELSE UNCHANGED <<disk, manifest, missed, faulty, faults>>
    /\ Goto(After(install))
    /\ HostConstants /\ Continue
    /\ UNCHANGED <<tmp, leftover, installed, pinned, prior, uploaded, engineUploaded, install,
                   item, failed>>

Finish(s) == status' = s /\ UNCHANGED <<pc, todo>>

\* The phase that ran the closure reports its error (initialize, upgrade) or logs it
\* (InstallStagedFiles).
Reported(ok) == IF ok THEN Finish("ok") ELSE Finish("ok") \/ Finish("err")

\* The binary install moves what was staged; a mv that fails is logged.
installBinaries ==
    /\ Running("install") /\ install = "bin"
    /\ LET staged == {x.path : x \in {y \in profileFilesForArch("bin") : y.staged}} IN
       \E moved \in SUBSET {p \in staged : tmp[p] # Absent} :
          /\ disk' = [p \in Paths |-> IF p \in moved THEN tmp[p] ELSE disk[p]]
          /\ tmp' = [p \in Paths |-> IF p \in moved THEN Absent ELSE tmp[p]]
          /\ Fails(moved = staged)
          /\ missed' = missed \union Unnamed(disk', manifest)
    /\ Finish("ok")
    /\ install' = "none"
    /\ HostConstants
    /\ UNCHANGED <<leftover, manifest, installed, pinned, command, pkg, known, prior, uploaded,
                   engineUploaded, item, runs, had, failed>>

\* unhold, install, hold: the first that fails is the last.  A host whose package manager
\* has no version locks is installed and not pinned.
installAndPinPackagesFor ==
    /\ Running("install") /\ install \in {"rpm", "apt"}
    /\ IF profileFilesForArch(install) = {}
       THEN Finish("ok") /\ UNCHANGED <<installed, pinned, faulty, faults>>
       ELSE \E done \in {"nothing", "unhold", "install", "hold"} :
               /\ pinned' = CASE done = "nothing" -> pinned
                              [] done = "hold" -> lockable
                              [] OTHER -> FALSE
               /\ installed' = IF done \in {"install", "hold"} THEN pkg ELSE installed
               /\ Fails(done = "hold") /\ Reported(done = "hold")
    /\ install' = "none"
    /\ HostConstants
    /\ UNCHANGED <<disk, tmp, leftover, manifest, command, pkg, known, prior, uploaded,
                   engineUploaded, item, runs, had, failed, missed>>

-----------------------------------------------------------------------------
(* Reset.                                                                  *)

\* What cleanUploadManifest sets out to delete.
cleanUploadManifest(read) == Named(readManifest(read))

\* The package manager is asked when no package is staged any more.
detectInstalledEnginePackages == IF installed # 0 THEN {installed} ELSE {}

\* The packages to remove: those of the files that are staged, by name and so of any version.
enginePackages ==
    LET Packed(b) == b \notin {Absent, Foreign} /\ b[2] = "engine"
                     /\ OSFilesOf[b[1]][b[3]].selector \in {"rpm", "apt"}
        staged == {disk[p][1] : p \in {q \in Paths : Packed(disk[q])}}
    IN IF staged # {} THEN staged ELSE detectInstalledEnginePackages

\* uninstallNode: packages, CleanupPaths, then what the manifest names and the manifest.
\* Every error is logged.
uninstallNode ==
    /\ Running("uninstall")
    /\ \E ok, read, swept, dropped \in BOOLEAN :
          /\ LET removed == ok /\ enginePackages # {} IN
             /\ installed' = IF removed THEN 0 ELSE installed
             /\ pinned' = (pinned /\ ~removed)
          /\ LET below == IF swept THEN DataDirs ELSE {}
                 named == cleanUploadManifest(read) IN
             \E gone \in SUBSET named :
                /\ disk' = [p \in Paths |-> IF p \in below \union gone THEN Absent ELSE disk[p]]
                /\ manifest' = IF named # {} /\ dropped THEN {} ELSE manifest
                /\ Fails(ok /\ read /\ swept /\ dropped /\ gone = named)
          /\ missed' = missed \union Unnamed(disk', manifest')
    /\ Finish("ok")
    /\ HostConstants
    /\ UNCHANGED <<tmp, leftover, command, pkg, known, prior, uploaded, engineUploaded, install,
                   item, runs, had, failed>>

-----------------------------------------------------------------------------
Init ==
    /\ disk \in [Paths -> {Absent, Foreign}]
    /\ \A p \in Paths : disk[p] = Foreign => p \in ImageTars \ UNION {ImagesOf[v] : v \in Packages}
    /\ tmp = [p \in Paths |-> Absent] /\ leftover = {}
    /\ manifest = {} /\ installed = 0 /\ pinned = FALSE
    /\ family \in {"rpm", "apt", "other"} /\ lockable \in BOOLEAN /\ marker \in BOOLEAN
    /\ family = "other" => ~lockable
    /\ command = "apply" /\ pkg = 0 /\ pc = "tmp" /\ status = "idle" /\ known = TRUE
    /\ prior = {} /\ uploaded = {} /\ engineUploaded = FALSE /\ install = "none"
    /\ todo = {} /\ item = NoItem
    /\ runs = 0 /\ had = {} /\ failed = {} /\ faulty = FALSE /\ faults = 0 /\ missed = {}

\* A process starts with empty metadata.
StartRun(c, v, k) ==
    /\ status # "run" /\ runs < MaxRuns
    /\ command' = c /\ pkg' = v /\ known' = k /\ status' = "run"
    /\ pc' = IF c = "apply" THEN "tmp" ELSE "uninstall"
    /\ leftover' = leftover \union {p \in Paths : tmp[p] # Absent}
    /\ tmp' = [p \in Paths |-> Absent]
    /\ prior' = {} /\ uploaded' = {} /\ engineUploaded' = FALSE /\ install' = "none"
    /\ todo' = {} /\ item' = NoItem
    /\ runs' = runs + 1 /\ had' = {p \in Paths : disk[p] # Absent}
    /\ failed' = {} /\ faulty' = FALSE
    /\ HostConstants
    /\ UNCHANGED <<disk, manifest, installed, pinned, faults, missed>>

\* An interrupt, a lost connection or the death of the process.
Cut ==
    /\ status = "run" /\ faults < MaxFaults
    /\ status' = "cut" /\ faults' = faults + 1
    /\ missed' = missed \union Unnamed(disk, manifest)
    /\ HostConstants
    /\ UNCHANGED <<hostVars, metaVars, command, pkg, pc, known, runs, had, failed, faulty>>

Next ==
    \/ \E v \in Packages, k \in BOOLEAN : StartRun("apply", v, k)
    \/ \E v \in Packages : StartRun("reset", v, TRUE)
    \/ cleanUpOldTmpFiles
    \/ \E x \in todo : Transfer(x)
    \/ recordManifestEntry \/ EndUploads
    \/ cleanStaleImages \/ sweepUnmanagedImages
    \/ EnginePrepare \/ blockOtherInstallsIfUploaded \/ cleanStaleEngine
    \/ installBinaries \/ installAndPinPackagesFor
    \/ uninstallNode
    \/ Cut

Spec == Init /\ [][Next]_vars

-----------------------------------------------------------------------------
(* Properties.                                                             *)

Ours(p) == disk[p] \notin {Absent, Foreign}

\* The entry of a package's list that is meant for this host at a path.
BytesFor(p) ==
    {<<pkg, "data", 0>> : x \in Data \intersect {p}} \union
    {<<pkg, "image", 0>> : x \in ImagesOf[pkg] \intersect {p}} \union
    {<<pkg, "file", i>> : i \in {k \in DOMAIN FilesOf[pkg] :
                                   FilesOf[pkg][k].path = p /\ Applies(FilesOf[pkg][k])}} \union
    {<<pkg, "engine", i>> : i \in {k \in DOMAIN OSFilesOf[pkg] :
                                   OSFilesOf[pkg][k].path = p /\ Applies(OSFilesOf[pkg][k])}}

Method == IF \E x \in DOMAIN OSFilesOf[pkg] :
                OSFilesOf[pkg][x].selector = family /\ Applies(OSFilesOf[pkg][x])
          THEN family ELSE "bin"
Carried == Data \union {x.path : x \in distroFilesFor} \union ImagesOf[pkg] \union
           {x.path : x \in profileFilesForArch(Method)}

\* An apply whose commands all worked has converged the host, whatever the runs before
\* it left: the files the package has for this host are there with their own bytes, the
\* image directory holds nothing else (unless it carries the marker), an engine file of
\* another version is gone, and packages are installed and held.
Converged ==
    status = "ok" /\ command = "apply" /\ ~faulty =>
        /\ \A p \in Carried : disk[p] \in BytesFor(p)
        /\ ~marker => {p \in ImageTars : disk[p] # Absent} = ImagesOf[pkg]
        /\ marker => \A p \in had \intersect ImageTars :
                        p \notin UNION {ImagesOf[v] : v \in Packages} => disk[p] # Absent
        /\ \A p \in Paths : Ours(p) /\ disk[p][2] = "engine" => p \in Carried \union missed
        /\ Method # "bin" => installed = pkg /\ pinned = lockable

\* A prune takes what the package no longer carries and nothing else: a file the host had
\* and the package has for it is deleted only after its own upload has failed.
PruneOnlyDropped ==
    [][command = "apply" /\ status = "run" =>
          \A p \in Carried : disk[p] # Absent /\ disk'[p] = Absent => p \in failed]_vars

\* A reset whose commands all worked leaves no file of cargoship's behind, except one
\* whose record an earlier failure or cut has lost.
ResetLeavesNothing ==
    status = "ok" /\ command = "reset" /\ ~faulty =>
        installed = 0 /\ \A p \in Paths : Ours(p) => p \in missed

\* What a run whose commands all worked makes of the host, from whatever the runs before
\* it left: an apply converges it, a reset empties it.
FilesSound == TypeOK /\ Converged /\ ResetLeavesNothing
=============================================================================
