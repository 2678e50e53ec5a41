------------------------------- MODULE Downloads -------------------------------
(***************************************************************************)
(* The download cache shared by the processes of one user: the three ways  *)
(* a file gets into it, each with its own idea of a temporary file, and    *)
(* `misc clean-cache`, which removes entries by name under all of them.    *)
(*                                                                         *)
(* The file system is names and inodes.  A rename moves a name, an open    *)
(* with truncation empties the inode other processes may still be writing, *)
(* and an unlinked inode lives on for whoever holds it.                    *)
(***************************************************************************)
EXTENDS Naturals, FiniteSets

CONSTANTS
    Procs,      \* processes that download
    Chunks,     \* writes it takes to fill a file
    MaxTries,   \* attempts of a download that retries
    MaxStarts,  \* bound on the downloads started
    MaxCuts,    \* bound on the processes killed
    MaxPrunes   \* bound on the prunes

\* A process's own temporary name is no one else's (os.CreateTemp).
ASSUME DownloadsAssumption ==
    /\ Procs \intersect {"sum", "url", "named", "named.tmp", "none"} = {}
    /\ Procs # {} /\ IsFiniteSet(Procs) /\ Chunks \in Nat \ {0} /\ MaxTries \in Nat \ {0}
    /\ MaxStarts \in Nat /\ MaxCuts \in Nat /\ MaxPrunes \in Nat

Good == 1   \* what the checksum is of
Bad == 2    \* another version the server answers with
Versions == {Good, Bad}

(* The cache entries: keyed by checksum, by URL, and by the name a template chose, the last with *)
(* its temporary name. Every process has a temporary name of its own besides. *)
Entries == {"sum", "url", "named"}
Names == Entries \union {"named.tmp"} \union Procs
Inodes == 1..(5 + 2 * Cardinality(Procs))

VARIABLES
    kind,       \* the kind of the downloads: kinds share no name in the cache
    dir,        \* [Names -> inode, 0 for none]
    disk,       \* [Inodes -> [1..Chunks -> version, 0 for a hole]]
    proc,       \* [Procs -> the download under way]
    prune,      \* the prune under way
    overlapped, \* two downloads through named.tmp were open at the same time
    starts, cuts, prunes

vars == <<kind, dir, disk, proc, prune, overlapped, starts, cuts, prunes>>

Content == [1..Chunks -> Versions \union {0}]
Empty == [i \in 1..Chunks |-> 0]
Whole(v) == [i \in 1..Chunks |-> v]

(* A download: whether a checksum was given, the version the server answers with, *)
(* the next chunk, the file it writes, the attempts made and, in the end, what the caller was given. *)
Idle == [pc |-> "idle", sum |-> FALSE, v |-> Good, at |-> 1, fd |-> 0,
         tries |-> 0, got |-> Empty]
Kinds == {"file", "archive", "named"}
Steps == {"look", "unlink", "reopen", "get", "write", "check", "rename", "copy", "save"}
PCs == Steps \union {"idle", "done", "failed"}
NoPrune == [todo |-> {}, doomed |-> "none"]

TypeOK ==
    /\ kind \in Kinds
    /\ dir \in [Names -> Inodes \union {0}]
    /\ disk \in [Inodes -> Content]
    /\ proc \in [Procs -> [pc : PCs, sum : BOOLEAN, v : Versions,
                           at : 1..(Chunks + 1), fd : Inodes \union {0}, tries : 0..(MaxTries - 1),
                           got : Content]]
    /\ prune \in [todo : SUBSET Names, doomed : Names \union {"none"}]
    /\ overlapped \in BOOLEAN
    /\ starts \in 0..MaxStarts /\ cuts \in 0..MaxCuts /\ prunes \in 0..MaxPrunes

EntryOf(k) == CASE k = "archive" -> "url" [] k = "named" -> "named" [] k = "file" -> "sum"

(* The cache as earlier runs left it: an entry may be missing or, where a checksum is there to *)
(* notice, not what it should be. *)
Init ==
    /\ kind \in Kinds
    /\ \E x \in {"none"} \union (IF kind = "archive" THEN {} ELSE {EntryOf(kind)}),
          c \in {Whole(Good), Whole(Bad), Empty} :
        /\ dir = [y \in Names |-> IF y = x THEN 1 ELSE 0]
        /\ disk = [i \in Inodes |-> IF i = 1 /\ x # "none" THEN c ELSE Empty]
    /\ proc = [p \in Procs |-> Idle] /\ prune = NoPrune /\ overlapped = FALSE
    /\ starts = 0 /\ cuts = 0 /\ prunes = 0

At(p, step) == proc[p].pc = step
To(p, step) == proc' = [proc EXCEPT ![p].pc = step]
Failed(d) == [Idle EXCEPT !.pc = "failed", !.sum = d.sum]
Done(d, c) == [Failed(d) EXCEPT !.pc = "done", !.got = c]
Held == {dir[x] : x \in Names} \union {proc[p].fd : p \in Procs}
FreeInode == CHOOSE i \in Inodes \ {1} : i \notin Held
Created(i, c) == disk' = [j \in Inodes |-> IF j = i THEN c ELSE IF j \in Held THEN disk[j] ELSE Empty]
Unlink(x) == dir' = [dir EXCEPT ![x] = 0]

-----------------------------------------------------------------------------
(* A caller asks for a file: fileGrabber and DownloadToFile with or without a checksum, an *)
(* archive that one file is extracted from, a template's downloadToCache. *)
Start(p) ==
    /\ proc[p].pc \in {"idle", "done", "failed"} /\ starts < MaxStarts
    /\ \E s \in BOOLEAN :
        /\ kind = "archive" => ~s
        /\ proc' = [proc EXCEPT ![p] = [Idle EXCEPT !.pc = "look", !.sum = s]]
    /\ starts' = starts + 1
    /\ UNCHANGED <<kind, dir, disk, prune, overlapped, cuts, prunes>>

(* The file a kind of download is served from, "none" when it does not look: cacheFilePath. *)
MyEntry(p) == IF kind = "file" /\ ~proc[p].sum THEN "none" ELSE EntryOf(kind)
InCache(p) == MyEntry(p) # "none" /\ dir[MyEntry(p)] # 0

(* The checksum of an entry: verifyFileSHA256, GetSHA256OfFile. *)
Matches(c) == c = Whole(Good)

(* cachedFileUsable, tryServeFromCache and the stat of CachedArchive: an entry that does not *)
(* match is passed over; downloadToCache removes it as well. *)
Look(p) ==
    /\ At(p, "look")
    /\ LET c == disk[dir[MyEntry(p)]] IN
        \/ ~InCache(p) /\ To(p, "get")
        \/ /\ InCache(p) /\ (~proc[p].sum \/ (Matches(c) /\ kind = "named"))
           /\ proc' = [proc EXCEPT ![p] = Done(@, c)]
        \/ InCache(p) /\ proc[p].sum /\ Matches(c) /\ kind = "file" /\ To(p, "reopen")
        \/ InCache(p) /\ proc[p].sum /\ ~Matches(c) /\ To(p, IF kind = "named" THEN "unlink" ELSE "get")
    /\ UNCHANGED <<kind, dir, disk, prune, overlapped, starts, cuts, prunes>>

(* cachedFileUsable removes by name what it read a moment ago. *)
RemoveUnusable(p) ==
    /\ At(p, "unlink") /\ Unlink("named") /\ To(p, "get")
    /\ UNCHANGED <<kind, disk, prune, overlapped, starts, cuts, prunes>>

(* tryServeFromCache opens the entry again to copy it; one removed since is an error. *)
ServeFromCache(p) ==
    /\ At(p, "reopen")
    /\ proc' = [proc EXCEPT ![p] = IF dir["sum"] = 0 THEN Failed(@) ELSE Done(@, disk[dir["sum"]])]
    /\ UNCHANGED <<kind, dir, disk, prune, overlapped, starts, cuts, prunes>>

-----------------------------------------------------------------------------
Own(p) == proc' = [proc EXCEPT ![p] = Done(@, disk[@.fd])]

Downloading(p) == kind = "named" /\ proc[p].pc \in {"write", "check", "rename"}

(* Where a download writes: downloadToCache next to its entry under one fixed name, CachedArchive *)
(* under a name no other process knows, and a plain download to its caller's own file. *)
TempName(p) ==
    CASE kind = "named" -> "named.tmp" [] kind = "archive" -> p [] OTHER -> "none"

(* The server answers and the temporary file is opened, which empties one that is there. *)
Open(p) ==
    LET x == TempName(p) IN LET i == IF x = "none" \/ dir[x] = 0 THEN FreeInode ELSE dir[x]
    IN /\ At(p, "get")
       /\ \E v \in Versions : proc' = [proc EXCEPT ![p].pc = "write", ![p].v = v, ![p].at = 1, ![p].fd = i]
       /\ dir' = [y \in Names |-> IF y = x THEN i ELSE dir[y]]
       /\ Created(i, Empty)
       /\ overlapped' = (overlapped \/ (kind = "named" /\ \E q \in Procs \ {p} : Downloading(q)))
       /\ UNCHANGED <<kind, prune, starts, cuts, prunes>>

\* Mutant of Again: a failed attempt is not counted.
AgainForever(d) == IF kind = "named" THEN Failed(d) ELSE [d EXCEPT !.pc = "get", !.fd = 0]

(* A failed attempt: downloadToCache gives up, the others try again until MaxTries. *)
Again(d) ==
    IF kind # "named" /\ d.tries + 1 < MaxTries THEN [d EXCEPT !.pc = "get", !.fd = 0, !.tries = @ + 1]
    ELSE Failed(d)

(* httpGetFile: no connection, 429 and 5xx may pass; another status, or a Retry-After of more *)
(* than a minute, will not. *)
Refused(p) ==
    /\ At(p, "get")
    /\ \/ proc' = [proc EXCEPT ![p] = Again(@)]
       \/ proc' = [proc EXCEPT ![p] = Failed(@)]
    /\ UNCHANGED <<kind, dir, disk, prune, overlapped, starts, cuts, prunes>>

Write(p) ==
    /\ At(p, "write") /\ proc[p].at <= Chunks
    /\ disk' = [disk EXCEPT ![proc[p].fd][proc[p].at] = proc[p].v]
    /\ proc' = [proc EXCEPT ![p].at = @ + 1, ![p].pc = IF proc[p].at = Chunks THEN "check" ELSE "write"]
    /\ UNCHANGED <<kind, dir, prune, overlapped, starts, cuts, prunes>>

(* What a broken download leaves: downloadToCache removes the temporary name, whoever's file it *)
(* is by now; CachedArchive removes its own when the last attempt failed. *)
Abandon(p) ==
    /\ proc' = [proc EXCEPT ![p] = Again(@)]
    /\ IF kind = "named" \/ (kind = "archive" /\ Again(proc[p]).pc = "failed")
       THEN Unlink(TempName(p)) ELSE UNCHANGED dir

(* The connection breaks, or the disk is full. *)
WriteFails(p) ==
    /\ At(p, "write") /\ Abandon(p)
    /\ UNCHANGED <<kind, disk, prune, overlapped, starts, cuts, prunes>>

(* The comparison after the download: of the file written, or in downloadToCache of the stream *)
(* this process received. *)
Check(p) ==
    LET d == proc[p]
        right == ~d.sum \/ (IF kind = "named" THEN d.v = Good ELSE Matches(disk[d.fd]))
    IN /\ At(p, "check")
       /\ IF ~right THEN proc' = [proc EXCEPT ![p] = Failed(@)]
          ELSE IF kind = "file" /\ ~d.sum THEN Own(p)
          ELSE To(p, IF kind = "file" THEN "copy" ELSE "rename")
       /\ IF ~right /\ kind = "named" THEN Unlink("named.tmp") ELSE UNCHANGED dir

Verify(p) == Check(p) /\ UNCHANGED <<kind, disk, prune, overlapped, starts, cuts, prunes>>

(* The temporary name becomes the entry; one that is gone is an error. *)
Rename(p) ==
    LET x == TempName(p) IN
    /\ At(p, "rename")
    /\ IF dir[x] = 0 THEN proc' = [proc EXCEPT ![p] = Failed(@)] /\ UNCHANGED dir
       ELSE /\ dir' = [dir EXCEPT ![MyEntry(p)] = dir[x], ![x] = 0]
            /\ proc' = [proc EXCEPT ![p] = Done(@, disk[dir[x]])]
    /\ UNCHANGED <<kind, disk, prune, overlapped, starts, cuts, prunes>>

\* Mutant of CopyToCache: the entry itself is created and filled.
CopyToCacheInPlace(p) ==
    LET i == FreeInode IN
    /\ At(p, "copy")
    /\ dir' = [dir EXCEPT !["sum"] = i] /\ Created(i, Empty) /\ To(p, "save")

(* updateCache copies the checked file to a second temporary file and renames that; every failure *)
(* is only logged. (The first one is the caller's destination, outside the cache.) *)
CopyToCache(p) ==
    LET i == FreeInode IN
    /\ At(p, "copy")
    /\ \/ dir' = [dir EXCEPT ![p] = i] /\ Created(i, disk[proc[p].fd]) /\ To(p, "save")
       \/ Own(p) /\ UNCHANGED <<dir, disk>>

UpdateCache(p) == CopyToCache(p) /\ UNCHANGED <<kind, prune, overlapped, starts, cuts, prunes>>

SaveEntry(p) ==
    /\ At(p, "save") /\ Own(p)
    /\ \/ dir[p] # 0 /\ dir' = [dir EXCEPT !["sum"] = dir[p], ![p] = 0]
       \/ dir' = [dir EXCEPT ![p] = 0]
    /\ UNCHANGED <<kind, disk, prune, overlapped, starts, cuts, prunes>>

(* A process is killed; its temporary files stay. *)
Cut(p) ==
    /\ proc[p].pc \in Steps /\ cuts < MaxCuts
    /\ proc' = [proc EXCEPT ![p] = Idle] /\ cuts' = cuts + 1
    /\ UNCHANGED <<kind, dir, disk, prune, overlapped, starts, prunes>>

-----------------------------------------------------------------------------
(* PruneCache: pruneFlatDir lists the directory, then looks at each entry, keeps it when it was *)
(* written within the window, and removes it by name. *)
StartPrune ==
    /\ prune = NoPrune /\ prunes < MaxPrunes
    /\ prune' = [NoPrune EXCEPT !.todo = {x \in Names : dir[x] # 0}]
    /\ prunes' = prunes + 1
    /\ UNCHANGED <<kind, dir, disk, proc, overlapped, starts, cuts>>

PruneStat ==
    /\ prune.doomed = "none"
    /\ \E x \in prune.todo, within \in BOOLEAN :
        prune' = [todo |-> prune.todo \ {x}, doomed |-> IF within THEN "none" ELSE x]
    /\ UNCHANGED <<kind, dir, disk, proc, overlapped, starts, cuts, prunes>>

PruneRemove ==
    /\ prune.doomed # "none"
    /\ Unlink(prune.doomed)
    /\ prune' = [prune EXCEPT !.doomed = "none"]
    /\ UNCHANGED <<kind, disk, proc, overlapped, starts, cuts, prunes>>

-----------------------------------------------------------------------------
Step(p) ==
    \/ Look(p) \/ RemoveUnusable(p) \/ ServeFromCache(p) \/ Open(p) \/ Refused(p) \/ Write(p)
    \/ WriteFails(p) \/ Verify(p) \/ Rename(p) \/ UpdateCache(p) \/ SaveEntry(p)

Next == (\E p \in Procs : Start(p) \/ Step(p) \/ Cut(p)) \/ StartPrune \/ PruneStat \/ PruneRemove

(* A process that runs goes on: each request is answered or fails. *)
Spec == Init /\ [][Next]_vars /\ \A p \in Procs : WF_vars(Step(p))

(* No entry is ever a part of a file: the one under a checksum is the file of that checksum, *)
(* unless it was broken before any of these runs, and an archive is one whole answer of the *)
(* server, whoever is killed and whatever is pruned meanwhile. *)
EntriesWhole ==
    /\ dir["sum"] \notin {0, 1} => disk[dir["sum"]] = Whole(Good)
    /\ dir["url"] # 0 => \E v \in Versions : disk[dir["url"]] = Whole(v)

(* A caller that gave a checksum reads the file of that checksum, however stale the cache was. *)
(* downloadToCache promises it only while no two of its downloads were open at once: they write *)
(* one file, and each compares what it received, not what it leaves. *)
ServedAsAsked ==
    \A p \in Procs :
        (At(p, "done") /\ proc[p].sum /\ ~(kind = "named" /\ overlapped)) =>
            proc[p].got = Whole(Good)

(* The entries of downloadToCache are whole too, as long as no two downloads were open at once. *)
NamedEntryWhole ==
    (dir["named"] \notin {0, 1} /\ ~overlapped) => \E v \in Versions : disk[dir["named"]] = Whole(v)

(* A download comes to an end: the attempts are counted, and nothing waits for another process. *)
DownloadsEnd == \A p \in Procs : (proc[p].pc \in Steps) ~> (proc[p].pc \notin Steps)

(* The cache holds whole files under every scheme, whoever is killed and whatever is pruned *)
(* meanwhile, short of two open downloads of one name, and callers get what they asked for. *)
DownloadsSound == TypeOK /\ EntriesWhole /\ NamedEntryWhole /\ ServedAsAsked
=============================================================================
