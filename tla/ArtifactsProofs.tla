--------------------------- MODULE ArtifactsProofs ---------------------------
(* What cargoship downloads, and the packages it makes of that.  Downloads:   *)
(* whole files in the cache, and callers that get what they asked for, for    *)
(* every number of processes and chunks and every pattern of kills, failed    *)
(* connections and prunes.  Packages: what a package holds, from its build    *)
(* through tarballs and registries to the load, for all parts, architectures  *)
(* and keys, any number of processes, and every pattern of faults.  Mirror:   *)
(* what a registry holds that packages are mirrored to.                       *)
EXTENDS Downloads, Packages, Mirror, FiniteSetTheorems, WellFoundedInduction, TLAPS

-----------------------------------------------------------------------------
(* Downloads: the invariant.                                               *)

\* The processes that have a file open.
Opened(p) == proc[p].pc \in {"write", "check", "rename", "copy", "save"}

\* The names that downloads of another kind use are free.
OwnNames ==
    /\ \A x \in Entries : x # EntryOf(kind) => dir[x] = 0
    /\ kind # "named" => dir["named.tmp"] = 0
    /\ kind = "named" => \A p \in Procs : dir[p] = 0

\* What each step of a download is reached with.
StepsTaken(p) ==
    /\ proc[p].fd = 0 <=> ~Opened(p)
    /\ kind = "archive" => ~proc[p].sum
    /\ proc[p].pc \in {"copy", "save", "reopen"} => kind = "file" /\ proc[p].sum
    /\ proc[p].pc = "unlink" => kind = "named"
    /\ proc[p].pc = "rename" => kind # "file"
    /\ proc[p].pc \in {"check", "rename"} => proc[p].at = Chunks + 1
    /\ proc[p].pc = "rename" /\ proc[p].sum => proc[p].v = Good

\* A file that is being written is nobody else's, and has no name but its temporary one.
Private(p) ==
    Opened(p) =>
        /\ proc[p].fd # 1
        /\ \A x \in Names : dir[x] = proc[p].fd => x = TempName(p)
        /\ \A q \in Procs \ {p} : proc[q].fd # proc[p].fd
        /\ kind # "file" => dir[TempName(p)] \in {0, proc[p].fd}

\* No file has two names, and the one of before these runs only its entry's.
NoLinks ==
    /\ \A x, y \in Names : x # y /\ dir[x] = dir[y] => dir[x] = 0
    /\ \A x \in Names : dir[x] = 1 => x = EntryOf(kind)

\* What has been written so far, or copied, or found in the cache, or handed out.
Contents(p) ==
    /\ Opened(p) /\ kind # "file" => \A i \in 1..(proc[p].at - 1) : disk[proc[p].fd][i] = proc[p].v
    /\ proc[p].pc \in {"copy", "save"} => disk[proc[p].fd] = Whole(Good)
    /\ proc[p].pc = "reopen" /\ dir["sum"] = 1 => disk[1] = Whole(Good)
    /\ proc[p].pc = "done" /\ proc[p].sum => proc[p].got = Whole(Good)

\* What is found under the names.
EntryContents ==
    /\ kind = "file" => \A x \in Names : dir[x] \notin {0, 1} => disk[dir[x]] = Whole(Good)
    /\ kind # "file" /\ dir[EntryOf(kind)] # 0 =>
          (kind = "named" /\ dir["named"] = 1) \/ \E v \in Versions : disk[dir[EntryOf(kind)]] = Whole(v)

\* Two open downloads of one name spoil each other's file; otherwise all of this holds.
Tidy ==
    /\ \A p \in Procs : Private(p) /\ Contents(p)
    /\ NoLinks /\ EntryContents
    /\ kind = "named" => \A p, q \in Procs : Opened(p) /\ Opened(q) => p = q

CacheInv ==
    /\ TypeOK /\ OwnNames
    /\ \A p \in Procs : StepsTaken(p)
    /\ (kind = "named" => ~overlapped) => Tidy

-----------------------------------------------------------------------------
(* Names and inodes.                                                       *)

LEMMA NamesFinite ==
  /\ IsFiniteSet(Names) /\ Cardinality(Names) \in Nat
  /\ Cardinality(Procs) \in Nat /\ Cardinality(Names) <= 4 + Cardinality(Procs)
<1> DEFINE N0 == {} \union {"sum"}
<1> DEFINE N1 == N0 \union {"url"}
<1> DEFINE N2 == N1 \union {"named"}
<1> DEFINE N3 == N2 \union {"named.tmp"}
<1>1. IsFiniteSet({}) /\ Cardinality({}) = 0
  BY FS_EmptySet
<1>2. IsFiniteSet(N0) /\ Cardinality(N0) = 1
  BY <1>1, FS_AddElement
<1>3. IsFiniteSet(N1) /\ Cardinality(N1) = 2
  BY <1>2, FS_AddElement
<1>4. IsFiniteSet(N2) /\ Cardinality(N2) = 3
  BY <1>3, FS_AddElement
<1>5. IsFiniteSet(N3) /\ Cardinality(N3) = 4
  BY <1>4, FS_AddElement
<1>6. IsFiniteSet(Procs) /\ Cardinality(Procs) \in Nat
  BY DownloadsAssumption, FS_CardinalityType
<1>7. Names = N3 \union Procs
  BY DEF Names, Entries
<1> HIDE DEF N3
<1>8. /\ IsFiniteSet(N3 \union Procs)
      /\ Cardinality(N3 \union Procs) = Cardinality(N3) + Cardinality(Procs) - Cardinality(N3 \cap Procs)
  BY <1>5, <1>6, FS_Union
<1>9. Cardinality(N3 \cap Procs) \in Nat
  BY <1>5, FS_Intersection, FS_CardinalityType
<1>10. Cardinality(N3 \union Procs) \in Nat
  BY <1>8, FS_CardinalityType
<1> QED
  BY <1>5, <1>6, <1>7, <1>8, <1>9, <1>10

\* The values of a function over a finite set.
LEMMA ValuesFinite ==
  ASSUME NEW S, IsFiniteSet(S), NEW T, NEW f \in [S -> T], NEW R, R = {f[x] : x \in S}
  PROVE  /\ IsFiniteSet(R) /\ Cardinality(R) \in Nat
         /\ Cardinality(R) <= Cardinality(S) /\ Cardinality(S) \in Nat
<1>1. f \in Surjection(S, R)
  BY DEF Surjection
<1>2. IsFiniteSet(R) /\ Cardinality(R) <= Cardinality(S)
  BY <1>1, FS_Surjection
<1> QED
  BY <1>2, FS_CardinalityType

\* There is always an inode that is not held, and the file of before these runs is
\* not taken for one.
LEMMA FreeInodeFree ==
  ASSUME TypeOK, OwnNames
  PROVE  FreeInode \in Inodes \ {1} /\ FreeInode \notin Held
<1> DEFINE P == Cardinality(Procs)
<1> DEFINE D == {dir[x] : x \in Names}
<1> DEFINE fds == [p \in Procs |-> proc[p].fd]
<1> DEFINE F == {fds[p] : p \in Procs}
<1>1. IsFiniteSet(D) /\ Cardinality(D) \in Nat /\ Cardinality(D) <= 4 + P
  <2>1. dir \in [Names -> Inodes \union {0}] /\ IsFiniteSet(Names)
    BY NamesFinite DEF TypeOK
  <2>2. D = {dir[x] : x \in Names}
    OBVIOUS
  <2> HIDE DEF D
  <2>3. IsFiniteSet(D) /\ Cardinality(D) \in Nat /\ Cardinality(D) <= Cardinality(Names)
    BY <2>1, <2>2, ValuesFinite
  <2> QED
    BY <2>3, NamesFinite
<1>2. IsFiniteSet(F) /\ Cardinality(F) \in Nat /\ Cardinality(F) <= P
  <2>1. fds \in [Procs -> Inodes \union {0}] /\ IsFiniteSet(Procs)
    BY DownloadsAssumption DEF TypeOK
  <2> HIDE DEF fds
  <2> QED
    BY <2>1, ValuesFinite
<1>3. Held = D \union F
  BY DEF Held
<1>4. IsFiniteSet(Held) /\ Cardinality(Held) \in Nat /\ Cardinality(Held) <= 4 + 2 * P
  <2> HIDE DEF D, F, P
  <2>1. /\ IsFiniteSet(D \union F)
        /\ Cardinality(D \union F) = Cardinality(D) + Cardinality(F) - Cardinality(D \cap F)
    BY <1>1, <1>2, FS_Union
  <2>2. Cardinality(D \cap F) \in Nat /\ Cardinality(D \union F) \in Nat
    BY <1>1, <2>1, FS_Intersection, FS_CardinalityType
  <2>3. P \in Nat
    BY NamesFinite DEF P
  <2> QED
    BY <1>1, <1>2, <1>3, <2>1, <2>2, <2>3
<1>5. 0 \in Held
  <2>1. "url" \in Names /\ "sum" \in Names
    BY DEF Names, Entries
  <2>2. dir["url"] = 0 \/ dir["sum"] = 0
    BY DEF OwnNames, EntryOf, Entries
  <2> QED
    BY <2>1, <2>2 DEF Held
<1>6. \E i \in Inodes \ {1} : i \notin Held
  <2> SUFFICES ASSUME Inodes \ {1} \subseteq Held PROVE FALSE
    OBVIOUS
  <2> DEFINE I == 0..(5 + 2 * P)
  <2>1. P \in Nat /\ Inodes = 1..(5 + 2 * P)
    BY NamesFinite DEF Inodes
  <2> HIDE DEF P
  <2>2. IsFiniteSet(I) /\ Cardinality(I) = 6 + 2 * P
    BY <2>1, FS_Interval
  <2>3. 1 \in I /\ I \ {1} \subseteq Held
    BY <1>5, <2>1
  <2>4. Cardinality(I \ {1}) = 5 + 2 * P
    <3> HIDE DEF I
    <3>1. Cardinality(I \ {1}) = Cardinality(I) - 1
      BY <2>2, <2>3, FS_RemoveElement
    <3> QED
      BY <2>1, <2>2, <3>1
  <2>5. Cardinality(I \ {1}) <= Cardinality(Held)
    BY <1>4, <2>3, FS_Subset
  <2> QED
    BY <1>4, <2>1, <2>4, <2>5
<1> QED
  BY <1>6 DEF FreeInode

-----------------------------------------------------------------------------
(* Steps that open nothing.                                                *)

Download == [pc : PCs, sum : BOOLEAN, v : Versions, at : 1..(Chunks + 1), fd : Inodes \union {0},
             tries : 0..(MaxTries - 1), got : Content]
OpenSteps == {"write", "check", "rename", "copy", "save"}

Counts ==
    /\ prune \in [todo : SUBSET Names, doomed : Names \union {"none"}]
    /\ starts \in 0..MaxStarts /\ cuts \in 0..MaxCuts /\ prunes \in 0..MaxPrunes

LEMMA Typed ==
  TypeOK <=> /\ kind \in Kinds /\ dir \in [Names -> Inodes \union {0}] /\ disk \in [Inodes -> Content]
             /\ proc \in [Procs -> Download] /\ overlapped \in BOOLEAN /\ Counts
  BY DEF TypeOK, Download, Counts

\* How a download ends, fails or starts again.
LEMMA Records ==
  ASSUME NEW d \in Download, NEW c \in Content
  PROVE  /\ Idle \in Download /\ Idle.fd = 0 /\ Idle.pc = "idle" /\ Idle.sum = FALSE
         /\ Failed(d) \in Download /\ Failed(d).fd = 0 /\ Failed(d).pc = "failed" /\ Failed(d).sum = d.sum
         /\ Done(d, c) \in Download /\ Done(d, c).fd = 0 /\ Done(d, c).pc = "done"
         /\ Done(d, c).sum = d.sum /\ Done(d, c).got = c
         /\ Again(d) \in Download /\ Again(d).fd = 0 /\ Again(d).pc \in {"get", "failed"}
         /\ Again(d).sum = d.sum
<1>1. Empty \in Content /\ Good \in Versions /\ 1 \in 1..(Chunks + 1) /\ 0 \in 0..(MaxTries - 1)
  BY DownloadsAssumption DEF Empty, Content, Versions
<1>2. Idle \in Download /\ Idle.fd = 0 /\ Idle.pc = "idle" /\ Idle.sum = FALSE
  BY <1>1 DEF Idle, Download, PCs
<1>3. Failed(d) \in Download /\ Failed(d).fd = 0 /\ Failed(d).pc = "failed" /\ Failed(d).sum = d.sum
  BY <1>1 DEF Idle, Failed, Download, PCs
<1>4. /\ Done(d, c) \in Download /\ Done(d, c).fd = 0 /\ Done(d, c).pc = "done"
      /\ Done(d, c).sum = d.sum /\ Done(d, c).got = c
  BY <1>1 DEF Idle, Failed, Done, Download, PCs
<1>5. /\ Again(d) \in Download /\ Again(d).fd = 0 /\ Again(d).pc \in {"get", "failed"}
      /\ Again(d).sum = d.sum
  <2>1. CASE kind # "named" /\ d.tries + 1 < MaxTries
    <3>1. d.tries + 1 \in 0..(MaxTries - 1)
      BY <2>1, DownloadsAssumption DEF Download
    <3> QED
      BY <2>1, <3>1 DEF Again, Download, PCs, Steps
  <2>2. CASE ~(kind # "named" /\ d.tries + 1 < MaxTries)
    BY <1>3, <2>2 DEF Again
  <2> QED
    BY <2>1, <2>2
<1> QED
  BY <1>2, <1>3, <1>4, <1>5

LEMMA DoneRecord ==
  ASSUME NEW d \in Download, NEW c \in Content
  PROVE  /\ Done(d, c) \in Download /\ Done(d, c).fd = 0 /\ Done(d, c).pc = "done"
         /\ Done(d, c).sum = d.sum /\ Done(d, c).got = c
BY Records

\* A download without an open file, in a state that its kind and its caller allow.
Closed(d) ==
    /\ d.fd = 0 /\ d.pc \notin OpenSteps
    /\ kind = "archive" => ~d.sum
    /\ d.pc = "reopen" => kind = "file" /\ d.sum /\ (dir["sum"] = 1 => disk[1] = Whole(Good))
    /\ d.pc = "unlink" => kind = "named"
    /\ d.pc = "done" /\ d.sum /\ (kind = "named" => ~overlapped) => d.got = Whole(Good)

\* Names may go at any time.
Forgets == dir' \in [Names -> Inodes \union {0}] /\ \A x \in Names : dir'[x] \in {dir[x], 0}

\* A step that opens nothing and writes nothing keeps everything.
LEMMA Closes ==
  ASSUME CacheInv, Forgets, UNCHANGED <<kind, disk, overlapped>>, Counts',
         proc' \in [Procs -> Download],
         \A p \in Procs : proc'[p] = proc[p] \/ Closed(proc'[p])
  PROVE  CacheInv'
<1>1. TypeOK'
  BY Typed DEF CacheInv, Forgets, TypeOK, Counts, Download
<1>2. OwnNames'
  <2>1. Entries \subseteq Names /\ "named.tmp" \in Names /\ Procs \subseteq Names
    BY DEF Names
  <2> QED
    BY <2>1 DEF CacheInv, OwnNames, Forgets, EntryOf
<1>3. ASSUME NEW p \in Procs PROVE StepsTaken(p)' /\ (Opened(p)' => proc'[p] = proc[p])
  <2>1. CASE proc'[p] = proc[p]
    BY <2>1 DEF CacheInv, StepsTaken, Opened
  <2>2. CASE Closed(proc'[p])
    BY <2>2 DEF StepsTaken, Opened, Closed, OpenSteps
  <2> QED
    BY <2>1, <2>2
<1>4. ASSUME Tidy, kind = "named" => ~overlapped PROVE Tidy'
  <2>0. /\ "sum" \in Names /\ EntryOf(kind) \in Names /\ EntryOf(kind)' = EntryOf(kind)
        /\ \A p \in Procs : TempName(p)' = TempName(p) /\ (kind # "file" => TempName(p) \in Names)
    BY DEF Names, Entries, EntryOf, TempName, CacheInv, TypeOK, Kinds
  <2>1. ASSUME NEW p \in Procs PROVE Private(p)'
    <3> SUFFICES ASSUME Opened(p)' PROVE Private(p)'
      BY DEF Private
    <3>1. proc'[p] = proc[p] /\ Opened(p) /\ proc[p].fd # 0
      BY <1>3 DEF Opened, CacheInv, StepsTaken
    <3>2. Private(p)
      BY <1>4 DEF Tidy
    <3>3. \A q \in Procs \ {p} : proc'[q].fd # proc[p].fd
      BY <3>1, <3>2 DEF Private, Closed
    <3>4. \A x \in Names : dir'[x] = proc[p].fd => dir[x] = proc[p].fd
      BY <3>1 DEF Forgets
    <3> QED
      BY <2>0, <3>1, <3>2, <3>3, <3>4 DEF Private, Forgets
  <2>2. ASSUME NEW p \in Procs PROVE Contents(p)'
    <3>1. CASE proc'[p] = proc[p]
      BY <1>4, <2>0, <3>1 DEF Tidy, Contents, Opened, Forgets
    <3>2. CASE Closed(proc'[p])
      BY <1>4, <2>0, <3>2 DEF Contents, Closed, Opened, OpenSteps, Forgets
    <3> QED
      BY <3>1, <3>2
  <2>3. NoLinks'
    BY <1>4, <2>0 DEF Tidy, NoLinks, Forgets
  <2>4. EntryContents'
    BY <1>4, <2>0 DEF Tidy, EntryContents, Forgets, EntryOf
  <2>5. kind' = "named" => \A p, q \in Procs : Opened(p)' /\ Opened(q)' => p = q
    BY <1>3, <1>4 DEF Tidy, Opened
  <2> QED
    BY <2>1, <2>2, <2>3, <2>4, <2>5 DEF Tidy
<1> QED
  BY <1>1, <1>2, <1>3, <1>4 DEF CacheInv

\* One download's record is replaced.
LEMMA ClosesOne ==
  ASSUME CacheInv, NEW p \in Procs, NEW d \in Download, Closed(d), proc' = [proc EXCEPT ![p] = d],
         Forgets, UNCHANGED <<kind, disk, overlapped>>, Counts'
  PROVE  CacheInv'
<1>1. proc \in [Procs -> Download]
  BY Typed DEF CacheInv
<1>2. proc' \in [Procs -> Download] /\ \A q \in Procs : proc'[q] = proc[q] \/ Closed(proc'[q])
  BY <1>1
<1> QED
  BY <1>2, Closes

\* One download goes on to another step with the record it has.
LEMMA Goes ==
  ASSUME TypeOK, NEW p \in Procs, NEW step \in PCs, To(p, step)
  PROVE  /\ proc' = [proc EXCEPT ![p] = [proc[p] EXCEPT !.pc = step]]
         /\ [proc[p] EXCEPT !.pc = step] \in Download
<1>1. proc \in [Procs -> Download]
  BY Typed
<1> QED
  BY <1>1 DEF To, Download

LEMMA Keeps ==
  ASSUME CacheInv
  PROVE  /\ dir' = dir => Forgets
         /\ \A x \in Names : Unlink(x) => Forgets
         /\ UNCHANGED <<prune, starts, cuts, prunes>> => Counts'
         /\ \A p \in Procs : proc[p] \in Download /\ (proc[p].fd = 0 <=> ~Opened(p))
  BY Typed DEF CacheInv, Forgets, Unlink, Counts, StepsTaken

LEMMA StartStep ==
  ASSUME CacheInv, NEW p \in Procs, Start(p)
  PROVE  CacheInv'
<1>1. PICK s \in BOOLEAN : (kind = "archive" => ~s) /\ proc' = [proc EXCEPT ![p] = [Idle EXCEPT !.pc = "look", !.sum = s]]
  BY DEF Start
<1> DEFINE d == [Idle EXCEPT !.pc = "look", !.sum = s]
<1>2. d \in Download /\ d.fd = 0 /\ d.pc = "look" /\ d.sum = s
  <2>1. Idle \in Download /\ Idle.fd = 0
    <3>1. Empty \in Content
      BY DEF Empty, Content
    <3> QED
      BY <3>1, Keeps, Records
  <2> QED
    BY <2>1 DEF Download, PCs, Steps
<1>3. Closed(d)
  BY <1>1, <1>2 DEF Closed, OpenSteps
<1>4. starts' \in 0..MaxStarts
  <2>1. starts \in 0..MaxStarts /\ starts < MaxStarts /\ MaxStarts \in Nat /\ starts' = starts + 1
    BY DownloadsAssumption, Typed DEF CacheInv, Start, Counts
  <2> QED
    BY <2>1
<1>5. Forgets /\ Counts' /\ UNCHANGED <<kind, disk, overlapped>>
  BY <1>4, Keeps, Typed DEF CacheInv, Start, Counts
<1> HIDE DEF d
<1> QED
  BY <1>1, <1>2, <1>3, <1>5, ClosesOne DEF d

LEMMA LookStep ==
  ASSUME CacheInv, NEW p \in Procs, Look(p)
  PROVE  CacheInv'
<1> DEFINE d == proc[p]
<1> DEFINE x == MyEntry(p)
<1>1. d \in Download /\ d.pc = "look" /\ d.fd = 0
  BY Keeps DEF Look, At, Opened
<1>2. Forgets /\ Counts' /\ UNCHANGED <<kind, disk, overlapped>>
  BY Keeps DEF Look
<1>3. TypeOK /\ StepsTaken(p)
  BY DEF CacheInv
<1>4. ASSUME InCache(p) PROVE x \in Names /\ dir[x] \in Inodes /\ disk[dir[x]] \in Content
  <2>1. x \in Entries /\ dir[x] # 0
    BY <1>3, <1>4 DEF InCache, MyEntry, EntryOf, Entries, TypeOK, Kinds
  <2>2. x \in Names /\ dir[x] \in Inodes
    BY <1>3, <2>1 DEF Names, TypeOK
  <2> QED
    BY <1>3, <2>2 DEF TypeOK
<1>5. ASSUME NEW step \in {"get", "unlink", "reopen"}, To(p, step),
             step = "unlink" => kind = "named",
             step = "reopen" => kind = "file" /\ d.sum /\ disk[dir["sum"]] = Whole(Good)
      PROVE  CacheInv'
  <2> DEFINE e == [d EXCEPT !.pc = step]
  <2>1. proc' = [proc EXCEPT ![p] = e] /\ e \in Download
    BY <1>3, <1>5, Goes DEF PCs, Steps
  <2>2. e.fd = 0 /\ e.pc = step /\ e.sum = d.sum
    BY <1>1 DEF Download
  <2>3. Closed(e)
    BY <1>3, <1>5, <2>2 DEF Closed, OpenSteps, StepsTaken
  <2> HIDE DEF e
  <2> QED
    BY <1>2, <2>1, <2>3, ClosesOne
<1>6. CASE ~InCache(p) /\ To(p, "get")
  BY <1>5, <1>6
<1>7. CASE /\ InCache(p) /\ (~d.sum \/ (Matches(disk[dir[x]]) /\ kind = "named"))
           /\ proc' = [proc EXCEPT ![p] = Done(@, disk[dir[x]])]
  <2> DEFINE e == Done(d, disk[dir[x]])
  <2>1. /\ e \in Download /\ e.fd = 0 /\ e.pc = "done" /\ e.sum = d.sum
        /\ e.got = disk[dir[x]]
    BY <1>1, <1>4, <1>7, Records
  <2>2. Closed(e)
    BY <1>3, <1>7, <2>1 DEF Closed, OpenSteps, StepsTaken, Matches
  <2>3. proc' = [proc EXCEPT ![p] = e]
    BY <1>7
  <2> HIDE DEF e
  <2> QED
    BY <1>2, <2>1, <2>2, <2>3, ClosesOne
<1>8. CASE InCache(p) /\ d.sum /\ Matches(disk[dir[x]]) /\ kind = "file" /\ To(p, "reopen")
  <2>1. disk[dir["sum"]] = Whole(Good)
    BY <1>8 DEF Matches, MyEntry, EntryOf
  <2> QED
    BY <1>5, <1>8, <2>1
<1>9. CASE To(p, IF kind = "named" THEN "unlink" ELSE "get")
  BY <1>5, <1>9
<1> QED
  BY <1>6, <1>7, <1>8, <1>9 DEF Look

LEMMA RemoveUnusableStep ==
  ASSUME CacheInv, NEW p \in Procs, RemoveUnusable(p)
  PROVE  CacheInv'
<1> DEFINE d == [proc[p] EXCEPT !.pc = "get"]
<1>1. proc[p] \in Download /\ proc[p].pc = "unlink" /\ proc[p].fd = 0
  BY Keeps DEF RemoveUnusable, At, Opened
<1>2. Forgets /\ Counts' /\ UNCHANGED <<kind, disk, overlapped>>
  BY Keeps DEF RemoveUnusable, Names, Entries
<1>3. proc' = [proc EXCEPT ![p] = d] /\ d \in Download
  BY Goes DEF CacheInv, RemoveUnusable, PCs, Steps
<1>4. d.fd = 0 /\ d.pc = "get" /\ d.sum = proc[p].sum
  BY <1>1 DEF Download
<1>5. Closed(d)
  BY <1>4 DEF Closed, OpenSteps, StepsTaken, CacheInv
<1> HIDE DEF d
<1> QED
  BY <1>2, <1>3, <1>5, ClosesOne

LEMMA ServeFromCacheStep ==
  ASSUME CacheInv, NEW p \in Procs, ServeFromCache(p)
  PROVE  CacheInv'
<1>1. proc[p] \in Download /\ proc[p].pc = "reopen" /\ TypeOK /\ "sum" \in Names
  BY Keeps DEF ServeFromCache, At, CacheInv, Names, Entries
<1>2. kind = "file" /\ proc[p].sum
  BY <1>1 DEF CacheInv, StepsTaken
<1>3. Forgets /\ Counts' /\ UNCHANGED <<kind, disk, overlapped>>
  BY Keeps DEF ServeFromCache
<1>4. CASE dir["sum"] = 0
  <2>1. Failed(proc[p]) \in Download /\ Closed(Failed(proc[p]))
    <3>1. Empty \in Content
      BY DEF Empty, Content
    <3> QED
      BY <1>1, <1>2, <3>1, Records DEF Closed, OpenSteps
  <2> QED
    BY <1>3, <1>4, <2>1, ClosesOne DEF ServeFromCache
<1>5. CASE dir["sum"] # 0
  <2>1. disk[dir["sum"]] \in Content /\ disk[dir["sum"]] = Whole(Good)
    BY <1>1, <1>2, <1>5 DEF TypeOK, CacheInv, Tidy, Contents, EntryContents
  <2>2. Done(proc[p], disk[dir["sum"]]) \in Download /\ Closed(Done(proc[p], disk[dir["sum"]]))
    <3> DEFINE c == disk[dir["sum"]]
    <3> DEFINE d == Done(proc[p], c)
    <3>1. proc[p] \in Download /\ c \in Content /\ c = Whole(Good)
      BY <1>1, <2>1
    <3> HIDE DEF c
    <3>2. d \in Download /\ d.fd = 0 /\ d.pc = "done" /\ d.got = c
      BY <3>1, DoneRecord
    <3> HIDE DEF d
    <3>3. Closed(d)
      BY <1>2, <3>1, <3>2 DEF Closed, OpenSteps
    <3> QED
      BY <3>2, <3>3 DEF c, d
  <2> QED
    BY <1>3, <1>5, <2>2, ClosesOne DEF ServeFromCache
<1> QED
  BY <1>4, <1>5

\* A download that fails, or starts again, or is killed.
LEMMA GivesUp ==
  ASSUME CacheInv, NEW p \in Procs, NEW d \in {Idle, Failed(proc[p]), Again(proc[p])},
         proc' = [proc EXCEPT ![p] = d], Forgets, UNCHANGED <<kind, disk, overlapped>>, Counts'
  PROVE  CacheInv'
<1>1. Empty \in Content /\ proc[p] \in Download
  BY Keeps DEF Empty, Content
<1>2. d \in Download /\ d.fd = 0 /\ d.pc \in {"idle", "failed", "get"} /\ d.sum \in {FALSE, proc[p].sum}
  <2>1. CASE d = Idle
    BY <1>1, <2>1, Records
  <2>2. CASE d = Failed(proc[p])
    BY <1>1, <2>2, Records
  <2>3. CASE d = Again(proc[p])
    BY <1>1, <2>3, Records
  <2> QED
    BY <2>1, <2>2, <2>3
<1>3. Closed(d)
  BY <1>2 DEF Closed, OpenSteps, CacheInv, StepsTaken
<1> QED
  BY <1>2, <1>3, ClosesOne

LEMMA TempNames ==
  ASSUME NEW p \in Procs, kind \in Kinds
  PROVE  /\ kind = "named" => TempName(p) = "named.tmp" /\ EntryOf(kind) = "named" /\ MyEntry(p) = "named"
         /\ kind = "archive" => TempName(p) = p /\ EntryOf(kind) = "url" /\ MyEntry(p) = "url"
         /\ kind = "file" => TempName(p) = "none" /\ EntryOf(kind) = "sum"
         /\ kind # "file" => TempName(p) \in Names
         /\ p \in Names \ (Entries \union {"named.tmp"}) /\ "none" \notin Names
         /\ Entries \subseteq Names /\ "named.tmp" \in Names \ Entries
  BY DownloadsAssumption DEF Kinds, TempName, EntryOf, MyEntry, Names, Entries

LEMMA RefusedStep ==
  ASSUME CacheInv, NEW p \in Procs, Refused(p)
  PROVE  CacheInv'
  BY Keeps, GivesUp DEF Refused

LEMMA WriteFailsStep ==
  ASSUME CacheInv, NEW p \in Procs, WriteFails(p)
  PROVE  CacheInv'
<1>1. kind # "file" => TempName(p) \in Names
  BY TempNames DEF CacheInv, TypeOK
<1>2. Forgets
  BY <1>1, Keeps DEF WriteFails, Abandon
<1> QED
  BY <1>2, Keeps, GivesUp DEF WriteFails, Abandon

LEMMA CutStep ==
  ASSUME CacheInv, NEW p \in Procs, Cut(p)
  PROVE  CacheInv'
<1>1. cuts' \in 0..MaxCuts
  <2>1. cuts \in 0..MaxCuts /\ cuts < MaxCuts /\ MaxCuts \in Nat /\ cuts' = cuts + 1
    BY DownloadsAssumption, Typed DEF CacheInv, Cut, Counts
  <2> QED
    BY <2>1
<1>2. Counts'
  BY <1>1, Typed DEF CacheInv, Cut, Counts
<1> QED
  BY <1>2, Keeps, GivesUp DEF Cut

\* The steps of a prune, and no step.
LEMMA PruneStep ==
  ASSUME CacheInv, StartPrune \/ PruneStat \/ PruneRemove \/ UNCHANGED vars
  PROVE  CacheInv'
<1>1. proc' = proc /\ UNCHANGED <<kind, disk, overlapped>> /\ proc' \in [Procs -> Download]
  BY Typed DEF CacheInv, StartPrune, PruneStat, PruneRemove, vars
<1>2. Forgets
  <2>1. prune.doomed \in Names \union {"none"}
    BY DEF CacheInv, TypeOK
  <2> QED
    BY <2>1, Keeps DEF StartPrune, PruneStat, PruneRemove, vars
<1>3. prunes' \in 0..MaxPrunes
  <2>1. prunes \in 0..MaxPrunes /\ MaxPrunes \in Nat
    BY DownloadsAssumption, Typed DEF CacheInv, Counts
  <2>2. prunes' = prunes \/ (prunes < MaxPrunes /\ prunes' = prunes + 1)
    BY DEF StartPrune, PruneStat, PruneRemove, vars
  <2> QED
    BY <2>1, <2>2
<1>4. prune' \in [todo : SUBSET Names, doomed : Names \union {"none"}]
  <2>1. prune \in [todo : SUBSET Names, doomed : Names \union {"none"}]
    BY DEF CacheInv, TypeOK
  <2> QED
    BY <2>1 DEF StartPrune, PruneStat, PruneRemove, vars, NoPrune
<1>5. Counts'
  BY <1>3, <1>4, Typed DEF CacheInv, Counts, StartPrune, PruneStat, PruneRemove, vars
<1> QED
  BY <1>1, <1>2, <1>5, Closes

-----------------------------------------------------------------------------
(* Steps that open or write a file, or give it its name.                   *)

\* A new content leaves the held inodes as they were.
LEMMA CreatedLeaves ==
  ASSUME TypeOK, NEW i \in Inodes, NEW c \in Content, Created(i, c)
  PROVE  /\ disk' \in [Inodes -> Content] /\ disk'[i] = c
         /\ \A j \in Inodes : j # i /\ j \in Held => disk'[j] = disk[j]
<1>1. Empty \in Content
  BY DEF Empty, Content
<1> QED
  BY <1>1 DEF Created, TypeOK

LEMMA HeldThings ==
  /\ \A x \in Names : dir[x] \in Held
  /\ \A p \in Procs : proc[p].fd \in Held
  BY DEF Held

LEMMA OpenStep ==
  ASSUME CacheInv, NEW p \in Procs, Open(p)
  PROVE  CacheInv'
<1> DEFINE x == TempName(p)
<1> DEFINE i == IF x = "none" \/ dir[x] = 0 THEN FreeInode ELSE dir[x]
<1>1. PICK v \in Versions :
         proc' = [proc EXCEPT ![p].pc = "write", ![p].v = v, ![p].at = 1, ![p].fd = i]
  BY DEF Open
<1>2. /\ dir' = [y \in Names |-> IF y = x THEN i ELSE dir[y]] /\ Created(i, Empty)
      /\ overlapped' = (overlapped \/ (kind = "named" /\ \E q \in Procs \ {p} : Downloading(q)))
      /\ UNCHANGED <<kind, prune, starts, cuts, prunes>>
  BY DEF Open
<1>3. TypeOK /\ OwnNames /\ proc[p] \in Download /\ proc[p].pc = "get" /\ kind \in Kinds
      /\ proc[p].fd = 0 /\ StepsTaken(p) /\ proc \in [Procs -> Download]
  BY Keeps, Typed DEF CacheInv, Open, At, Opened
<1>4. /\ FreeInode \in Inodes \ {1} /\ FreeInode \notin Held
      /\ kind # "file" => x \in Names
      /\ kind = "file" => x = "none"
      /\ "none" \notin Names
      /\ x # EntryOf(kind) /\ EntryOf(kind) \in Names
  BY <1>3, FreeInodeFree, TempNames DEF EntryOf, Names, Entries, Kinds
<1>0. i = FreeInode \/ (kind # "file" /\ i = dir[x])
  BY <1>4
<1>5. i \in Inodes /\ (i \in Held => kind # "file" /\ dir[x] = i)
  BY <1>3, <1>4 DEF TypeOK
<1>6. /\ dir' \in [Names -> Inodes \union {0}]
      /\ \A y \in Names : y # x => dir'[y] = dir[y]
      /\ kind # "file" => dir'[x] = i
  BY <1>2, <1>3, <1>4, <1>5 DEF TypeOK
<1> HIDE DEF i
<1>7. /\ proc' \in [Procs -> Download] /\ proc'[p].pc = "write" /\ proc'[p].v = v /\ proc'[p].at = 1
      /\ proc'[p].fd = i /\ proc'[p].sum = proc[p].sum
      /\ \A q \in Procs \ {p} : proc'[q] = proc[q]
  <2>1. 1 \in 1..(Chunks + 1)
    BY DownloadsAssumption
  <2> QED
    BY <1>1, <1>3, <1>5, <2>1 DEF Download, PCs, Steps
<1>8. /\ disk' \in [Inodes -> Content] /\ \A j \in Inodes : j # i /\ j \in Held => disk'[j] = disk[j]
  <2>1. Empty \in Content
    BY DEF Empty, Content
  <2> QED
    BY <1>2, <1>3, <1>5, <2>1, CreatedLeaves
<1>9. TypeOK'
  BY <1>2, <1>3, <1>6, <1>7, <1>8, Typed DEF TypeOK, Counts, Download
<1>10. OwnNames'
  <2>1. CASE kind = "file"
    BY <1>2, <1>3, <1>4, <1>6, <2>1 DEF OwnNames, Names, EntryOf
  <2>2. CASE kind = "archive"
    <3>1. x = p /\ p \notin Entries \union {"named.tmp"}
      BY <1>3, <2>2, TempNames
    <3> QED
      BY <1>2, <1>3, <1>6, <2>2, <3>1 DEF OwnNames, Names, EntryOf
  <2>3. CASE kind = "named"
    <3>1. x = "named.tmp" /\ x \notin Entries /\ \A q \in Procs : q # x
      BY <1>3, <2>3, TempNames DEF Entries
    <3> QED
      BY <1>2, <1>3, <1>6, <2>3, <3>1 DEF OwnNames, Names, EntryOf
  <2> QED
    BY <1>3, <2>1, <2>2, <2>3 DEF Kinds
<1>11. ASSUME NEW q \in Procs PROVE StepsTaken(q)'
  <2>1. CASE q = p
    <3>1. i # 0
      BY <1>5 DEF Inodes
    <3> QED
      BY <1>2, <1>3, <1>7, <2>1, <3>1 DEF StepsTaken, Opened
  <2>2. CASE q # p
    BY <1>2, <1>7, <2>2 DEF CacheInv, StepsTaken, Opened
  <2> QED
    BY <2>1, <2>2
<1>12. ASSUME kind = "named" => ~overlapped' PROVE Tidy'
  <2>1. Tidy /\ (kind = "named" => \A q \in Procs \ {p} : ~Opened(q))
    <3>1. ASSUME kind = "named", NEW q \in Procs \ {p}, Opened(q) PROVE FALSE
      BY <1>2, <1>12, <3>1 DEF CacheInv, StepsTaken, Opened, Downloading
    <3> QED
      BY <1>2, <1>12, <3>1 DEF CacheInv
  <2>2. EntryOf(kind)' = EntryOf(kind) /\ \A q \in Procs : TempName(q)' = TempName(q)
    BY <1>2 DEF EntryOf, TempName
  <2>3. ASSUME NEW y \in Names, dir'[y] = i PROVE kind # "file" /\ y = x
    <3>1. CASE y # x
      <4>1. dir[y] = i /\ i \in Held
        BY <1>6, <2>3, <3>1, HeldThings
      <4>2. dir[x] = i /\ x \in Names /\ i # 0
        BY <1>4, <1>5, <4>1 DEF Inodes
      <4> QED
        BY <2>1, <3>1, <4>1, <4>2 DEF Tidy, NoLinks
    <3> QED
      BY <1>4, <3>1
  <2>4. i # 1
    <3>1. CASE i \in Held
      BY <1>4, <1>5, <2>1, <3>1 DEF Tidy, NoLinks
    <3>2. CASE i \notin Held
      BY <1>4, <1>0, <3>2, HeldThings
    <3> QED
      BY <3>1, <3>2
  <2>5. ASSUME NEW q \in Procs \ {p} PROVE proc[q].fd # i
    <3> SUFFICES ASSUME proc[q].fd = i PROVE FALSE
      OBVIOUS
    <3>1. kind # "file" /\ dir[x] = i /\ Opened(q) /\ i # 0
      BY <1>5, HeldThings, Keeps DEF Inodes
    <3>2. x = TempName(q) /\ kind # "named"
      BY <1>4, <2>1, <3>1 DEF Tidy, Private
    <3> QED
      BY <1>3, <3>1, <3>2, TempNames DEF Kinds
  <2>6. ASSUME NEW q \in Procs PROVE Private(q)'
    <3>1. CASE q = p
      BY <1>2, <1>6, <1>7, <2>2, <2>3, <2>4, <2>5, <3>1 DEF Private
    <3>2. CASE q # p
      <4> SUFFICES ASSUME Opened(q)' PROVE Private(q)'
        BY DEF Private
      <4>1. Opened(q) /\ proc'[q] = proc[q] /\ Private(q) /\ kind # "named"
        BY <1>7, <2>1, <3>2 DEF Opened, Tidy
      <4>2. kind = "archive" => TempName(q) # x /\ TempName(q) \in Names
        BY <1>3, <3>2, <4>1, TempNames
      <4>3. \A y \in Names : dir'[y] = proc[q].fd => dir[y] = proc[q].fd
        BY <1>4, <1>6, <1>7, <2>5, <3>2
      <4>4. \A r \in Procs \ {q} : proc'[r].fd # proc[q].fd
        BY <1>7, <2>5, <3>2, <4>1 DEF Private
      <4> QED
        BY <1>2, <1>3, <1>6, <2>2, <4>1, <4>2, <4>3, <4>4 DEF Private, Kinds
    <3> QED
      BY <3>1, <3>2
  <2>7. ASSUME NEW y \in Names, dir[y] \notin {0, i} PROVE disk'[dir[y]] = disk[dir[y]]
    BY <1>3, <1>8, <2>7, HeldThings DEF TypeOK
  <2>8. NoLinks'
    <3>1. ASSUME NEW y \in Names, NEW z \in Names, y # z, dir'[y] = dir'[z] PROVE dir'[y] = 0
      <4>1. dir'[y] # i
        BY <2>3, <3>1
      <4>2. dir'[y] = dir[y] /\ dir'[z] = dir[z]
        BY <1>4, <1>6, <3>1, <4>1
      <4> QED
        BY <2>1, <3>1, <4>2 DEF Tidy, NoLinks
    <3>2. ASSUME NEW y \in Names, dir'[y] = 1 PROVE y = EntryOf(kind)
      <4>1. dir'[y] = dir[y]
        BY <1>4, <1>6, <2>4, <3>2
      <4> QED
        BY <2>1, <3>2, <4>1 DEF Tidy, NoLinks
    <3> QED
      BY <2>2, <3>1, <3>2 DEF NoLinks
  <2>9. EntryContents'
    <3>1. kind = "file" => \A y \in Names : dir'[y] = dir[y] /\ dir[y] # i
      BY <1>4, <1>6, <2>3
    <3>2. dir'[EntryOf(kind)] = dir[EntryOf(kind)] /\ dir[EntryOf(kind)] # i
      BY <1>4, <1>6, <2>3
    <3>3. kind = "named" => EntryOf(kind) = "named"
      BY DEF EntryOf
    <3> QED
      BY <1>2, <1>4, <2>1, <2>2, <2>7, <3>1, <3>2, <3>3 DEF Tidy, EntryContents
  <2>10. ASSUME NEW q \in Procs PROVE Contents(q)'
    <3>1. CASE q = p
      <4>1. 1..(1 - 1) = {}
        OBVIOUS
      <4> QED
        BY <1>7, <3>1, <4>1 DEF Contents, Opened
    <3>2. CASE q # p
      <4>1. Contents(q) /\ proc'[q] = proc[q] /\ StepsTaken(q)
        BY <1>7, <2>1, <3>2 DEF Tidy, CacheInv
      <4>2. Opened(q) => disk'[proc[q].fd] = disk[proc[q].fd]
        <5>1. Opened(q) => proc[q].fd \in Inodes
          BY <1>3, <4>1 DEF StepsTaken, Download
        <5> QED
          BY <1>8, <2>5, <3>2, <5>1, HeldThings
      <4>3. proc[q].pc = "reopen" /\ dir'["sum"] = 1 => dir["sum"] = 1 /\ disk'[1] = disk[1]
        <5>1. proc[q].pc = "reopen" => kind = "file" /\ "sum" \in Names
          BY <4>1 DEF StepsTaken, Names, Entries
        <5>2. "sum" \in Names /\ kind = "file" => dir'["sum"] = dir["sum"]
          BY <1>4, <1>6
        <5> QED
          BY <2>4, <2>7, <5>1, <5>2
      <4> QED
        BY <1>2, <4>1, <4>2, <4>3 DEF Contents, Opened
    <3> QED
      BY <3>1, <3>2
  <2>11. kind' = "named" => \A q, r \in Procs : Opened(q)' /\ Opened(r)' => q = r
    BY <1>2, <1>7, <2>1 DEF Opened
  <2> QED
    BY <2>6, <2>8, <2>9, <2>10, <2>11 DEF Tidy
<1> QED
  BY <1>2, <1>9, <1>10, <1>11, <1>12 DEF CacheInv

LEMMA WriteStep ==
  ASSUME CacheInv, NEW p \in Procs, Write(p)
  PROVE  CacheInv'
<1> DEFINE i == proc[p].fd
<1> DEFINE a == proc[p].at
<1>1. /\ TypeOK /\ OwnNames /\ StepsTaken(p) /\ proc \in [Procs -> Download] /\ Opened(p)
      /\ proc[p].pc = "write" /\ a \in 1..Chunks /\ Chunks \in Nat \ {0}
      /\ proc[p].v \in Versions /\ i \in Inodes
  <2>1. TypeOK /\ OwnNames /\ StepsTaken(p) /\ proc \in [Procs -> Download] /\ Opened(p)
        /\ proc[p].pc = "write" /\ a <= Chunks /\ Chunks \in Nat \ {0}
    BY DownloadsAssumption, Typed DEF CacheInv, Write, At, Opened
  <2> QED
    BY <2>1 DEF Download, StepsTaken
<1>2. /\ UNCHANGED <<kind, dir, prune, overlapped, starts, cuts, prunes>>
      /\ disk' = [disk EXCEPT ![i][a] = proc[p].v]
      /\ proc' = [proc EXCEPT ![p].at = @ + 1, ![p].pc = IF a = Chunks THEN "check" ELSE "write"]
  BY DEF Write
<1>3. /\ proc' \in [Procs -> Download] /\ proc'[p].pc = (IF a = Chunks THEN "check" ELSE "write")
      /\ proc'[p].at = a + 1 /\ proc'[p].fd = i /\ proc'[p].v = proc[p].v /\ proc'[p].sum = proc[p].sum
      /\ \A q \in Procs \ {p} : proc'[q] = proc[q]
  <2>1. a + 1 \in 1..(Chunks + 1)
    BY <1>1
  <2> DEFINE d == [proc[p] EXCEPT !.at = a + 1, !.pc = IF a = Chunks THEN "check" ELSE "write"]
  <2>2. proc' = [proc EXCEPT ![p] = d]
    BY <1>2
  <2>3. /\ d.pc = (IF a = Chunks THEN "check" ELSE "write") /\ d.at = a + 1
        /\ d.fd = i /\ d.v = proc[p].v /\ d.sum = proc[p].sum /\ d \in Download
    <3>1. proc[p] \in Download /\ (IF a = Chunks THEN "check" ELSE "write") \in PCs
      BY <1>1 DEF PCs, Steps
    <3> QED
      BY <2>1, <3>1 DEF Download
  <2> HIDE DEF d
  <2> QED
    BY <1>1, <2>2, <2>3
<1>4. /\ disk' \in [Inodes -> Content] /\ disk'[i][a] = proc[p].v
      /\ \A k \in 1..Chunks : k # a => disk'[i][k] = disk[i][k]
      /\ \A j \in Inodes \ {i} : disk'[j] = disk[j]
  BY <1>1, <1>2 DEF TypeOK, Content
<1>5. TypeOK'
  BY <1>1, <1>2, <1>3, <1>4 DEF TypeOK, Download
<1>6. OwnNames'
  BY <1>1, <1>2 DEF OwnNames, EntryOf
<1>7. ASSUME NEW q \in Procs PROVE StepsTaken(q)' /\ (Opened(q)' <=> Opened(q)) /\ proc'[q].fd = proc[q].fd
  <2>1. CASE q = p
    BY <1>1, <1>2, <1>3, <2>1 DEF StepsTaken, Opened
  <2>2. CASE q # p
    BY <1>2, <1>3, <2>2 DEF CacheInv, StepsTaken, Opened
  <2> QED
    BY <2>1, <2>2
<1>8. ASSUME Tidy PROVE Tidy'
  <2>1. EntryOf(kind)' = EntryOf(kind) /\ \A q \in Procs : TempName(q)' = TempName(q)
    BY <1>2 DEF EntryOf, TempName
  <2>2. Private(p) /\ i # 1 /\ i # 0 /\ TempName(p) # EntryOf(kind) /\ EntryOf(kind) \in Names
        /\ (kind = "file" => TempName(p) \notin Names)
    BY <1>1, <1>8, TempNames DEF Tidy, Private, TypeOK, Kinds, StepsTaken, Names, Entries
  <2>3. ASSUME NEW q \in Procs PROVE Private(q)'
    <3>1. Private(q) /\ dir' = dir /\ kind' = kind /\ TempName(q)' = TempName(q)
      BY <1>2, <1>8, <2>1 DEF Tidy
    <3>2. /\ (Opened(q)' <=> Opened(q))
          /\ \A r \in Procs : proc'[r].fd = proc[r].fd
      BY <1>7
    <3> QED
      BY <3>1, <3>2 DEF Private
  <2>4. NoLinks'
    BY <1>2, <1>8, <2>1 DEF Tidy, NoLinks
  <2>5. EntryContents'
    <3>1. dir[EntryOf(kind)] # i /\ (kind = "file" => \A x \in Names : dir[x] # i)
      BY <1>1, <2>2 DEF Private
    <3>2. \A x \in Names : dir[x] \notin {0, i} => disk'[dir[x]] = disk[dir[x]]
      BY <1>1, <1>4 DEF TypeOK
    <3> QED
      BY <1>2, <1>8, <2>1, <2>2, <3>1, <3>2 DEF Tidy, EntryContents
  <2>6. ASSUME NEW q \in Procs PROVE Contents(q)'
    <3>1. CASE q = p
      <4>1. proc'[p].pc \notin {"copy", "save", "reopen", "done"}
        BY <1>3
      <4>2. ASSUME kind # "file" PROVE \A k \in 1..(proc'[p].at - 1) : disk'[i][k] = proc[p].v
        <5>1. proc'[p].at - 1 = a
          BY <1>1, <1>3
        <5>2. \A k \in 1..(a - 1) : disk[i][k] = proc[p].v
          BY <1>1, <1>8, <4>2 DEF Tidy, Contents
        <5>3. ASSUME NEW k \in 1..a PROVE disk'[i][k] = proc[p].v
          <6>1. CASE k = a
            BY <1>4, <6>1
          <6>2. CASE k # a
            <7>1. k \in 1..(a - 1) /\ k \in 1..Chunks
              BY <1>1, <6>2
            <7> QED
              BY <1>4, <5>2, <6>2, <7>1
          <6> QED
            BY <6>1, <6>2
        <5> QED
          BY <5>1, <5>3
      <4> QED
        BY <1>2, <1>3, <3>1, <4>1, <4>2 DEF Contents
    <3>2. CASE q # p
      <4>1. Contents(q) /\ proc'[q] = proc[q] /\ proc[q].fd # i
        BY <1>3, <1>8, <2>2, <3>2, <1>1 DEF Tidy, Private
      <4>2. Opened(q) => proc[q].fd \in Inodes
        BY <1>1, Keeps DEF Download
      <4>3. disk'[1] = disk[1]
        <5>1. 1 \in Inodes
          BY NamesFinite DEF Inodes
        <5> QED
          BY <1>4, <2>2, <5>1
      <4>4. Opened(q) => disk'[proc[q].fd] = disk[proc[q].fd]
        BY <1>4, <4>1, <4>2
      <4>5. kind' = kind /\ dir' = dir
        BY <1>2
      <4> QED
        BY <4>1, <4>3, <4>4, <4>5 DEF Contents, Opened
    <3> QED
      BY <3>1, <3>2
  <2>7. kind' = "named" => \A q, r \in Procs : Opened(q)' /\ Opened(r)' => q = r
    BY <1>2, <1>7, <1>8 DEF Tidy
  <2> QED
    BY <2>3, <2>4, <2>5, <2>6, <2>7 DEF Tidy
<1> QED
  BY <1>2, <1>5, <1>6, <1>7, <1>8 DEF CacheInv

\* A download whose file is written keeps it and goes on.
LEMMA Passes ==
  ASSUME CacheInv, NEW p \in Procs, NEW step \in {"rename", "copy"}, To(p, step),
         proc[p].pc = "check", UNCHANGED <<kind, dir, disk, prune, overlapped, starts, cuts, prunes>>,
         step = "rename" => kind # "file" /\ (proc[p].sum => proc[p].v = Good),
         step = "copy" => kind = "file" /\ proc[p].sum /\ disk[proc[p].fd] = Whole(Good)
  PROVE  CacheInv'
<1>1. /\ TypeOK /\ OwnNames /\ StepsTaken(p) /\ proc \in [Procs -> Download] /\ Opened(p)
  BY Typed DEF CacheInv, Opened
<1>2. /\ proc' \in [Procs -> Download] /\ proc'[p].pc = step
      /\ proc'[p].at = proc[p].at /\ proc'[p].fd = proc[p].fd /\ proc'[p].v = proc[p].v
      /\ proc'[p].sum = proc[p].sum
      /\ \A q \in Procs \ {p} : proc'[q] = proc[q]
  BY <1>1 DEF To, Download, PCs, Steps
<1>3. TypeOK' /\ OwnNames'
  BY <1>1, <1>2 DEF TypeOK, Download, OwnNames, EntryOf
<1>4. ASSUME NEW q \in Procs PROVE StepsTaken(q)' /\ (Opened(q)' <=> Opened(q)) /\ proc'[q].fd = proc[q].fd
  <2>1. CASE q = p
    BY <1>1, <1>2, <2>1 DEF StepsTaken, Opened
  <2>2. CASE q # p
    BY <1>2, <2>2 DEF CacheInv, StepsTaken, Opened
  <2> QED
    BY <2>1, <2>2
<1>5. ASSUME Tidy PROVE Tidy'
  <2>1. EntryOf(kind)' = EntryOf(kind) /\ \A q \in Procs : TempName(q)' = TempName(q)
    BY DEF EntryOf, TempName
  <2>2. \A q \in Procs : Private(q)'
    BY <1>4, <1>5, <2>1 DEF Tidy, Private
  <2>3. NoLinks' /\ EntryContents'
    BY <1>5, <2>1 DEF Tidy, NoLinks, EntryContents
  <2>4. ASSUME NEW q \in Procs PROVE Contents(q)'
    <3>1. CASE q = p
      BY <1>1, <1>2, <1>5, <3>1 DEF Tidy, Contents, Opened
    <3>2. CASE q # p
      BY <1>2, <1>5, <3>2 DEF Tidy, Contents, Opened
    <3> QED
      BY <3>1, <3>2
  <2>5. kind' = "named" => \A q, r \in Procs : Opened(q)' /\ Opened(r)' => q = r
    BY <1>4, <1>5 DEF Tidy
  <2> QED
    BY <2>2, <2>3, <2>4, <2>5 DEF Tidy
<1> QED
  BY <1>3, <1>4, <1>5 DEF CacheInv

\* A download ends with the file it has open.
LEMMA OwnEnds ==
  ASSUME CacheInv, NEW p \in Procs, Own(p), Opened(p), Forgets, UNCHANGED <<kind, disk, overlapped>>, Counts',
         proc[p].sum => kind # "named" /\ disk[proc[p].fd] = Whole(Good)
  PROVE  CacheInv'
<1>1. TypeOK /\ proc[p] \in Download /\ proc[p].fd \in Inodes
  BY Keeps DEF CacheInv, Download
<1> DEFINE d == Done(proc[p], disk[proc[p].fd])
<1>2. d \in Download /\ d.fd = 0 /\ d.pc = "done" /\ d.sum = proc[p].sum /\ d.got = disk[proc[p].fd]
  <2>1. disk[proc[p].fd] \in Content
    BY <1>1 DEF TypeOK
  <2> QED
    BY <1>1, <2>1, Records
<1>3. Closed(d)
  BY <1>2 DEF Closed, OpenSteps, CacheInv, StepsTaken
<1>4. proc' = [proc EXCEPT ![p] = d]
  BY DEF Own
<1> HIDE DEF d
<1> QED
  BY <1>2, <1>3, <1>4, ClosesOne

LEMMA VerifyStep ==
  ASSUME CacheInv, NEW p \in Procs, Verify(p)
  PROVE  CacheInv'
<1> DEFINE d == proc[p]
<1> DEFINE right == ~d.sum \/ (IF kind = "named" THEN d.v = Good ELSE Matches(disk[d.fd]))
<1>1. /\ UNCHANGED <<kind, disk, prune, overlapped, starts, cuts, prunes>> /\ Counts'
      /\ d.pc = "check" /\ Opened(p) /\ StepsTaken(p) /\ TypeOK
  BY Keeps DEF CacheInv, Verify, Check, At, Opened
<1>2. /\ IF ~right THEN proc' = [proc EXCEPT ![p] = Failed(@)]
         ELSE IF kind = "file" /\ ~d.sum THEN Own(p)
         ELSE To(p, IF kind = "file" THEN "copy" ELSE "rename")
      /\ IF ~right /\ kind = "named" THEN Unlink("named.tmp") ELSE UNCHANGED dir
  BY DEF Verify, Check
<1>3. Forgets /\ (right => dir' = dir)
  <2>1. "named.tmp" \in Names
    BY DEF Names
  <2> QED
    BY <1>2, <2>1, Keeps
<1>4. CASE ~right
  BY <1>1, <1>2, <1>3, <1>4, GivesUp
<1>5. CASE right /\ kind = "file" /\ ~d.sum
  BY <1>1, <1>2, <1>3, <1>5, OwnEnds
<1>6. CASE right /\ kind = "file" /\ d.sum
  <2>1. disk[d.fd] = Whole(Good) /\ To(p, "copy") /\ dir' = dir
    BY <1>2, <1>3, <1>6 DEF Matches
  <2> QED
    BY <1>1, <1>6, <2>1, Passes
<1>7. CASE right /\ kind # "file"
  <2>1. To(p, "rename") /\ dir' = dir /\ (d.sum => d.v = Good)
    BY <1>1, <1>2, <1>3, <1>7 DEF StepsTaken, TypeOK, Kinds
  <2> QED
    BY <1>1, <1>7, <2>1, Passes
<1> QED
  BY <1>4, <1>5, <1>6, <1>7

\* The temporary name t becomes the entry, and the download that did it ends.
LEMMA Renames ==
  ASSUME CacheInv, NEW p \in Procs, NEW t \in Names, t # EntryOf(kind), dir[t] # 0,
         NEW d \in Download, d.pc = "done", Closed(d), proc' = [proc EXCEPT ![p] = d],
         dir' = [dir EXCEPT ![EntryOf(kind)] = dir[t], ![t] = 0],
         UNCHANGED <<kind, disk, prune, overlapped, starts, cuts, prunes>>,
         Tidy /\ (kind = "named" => ~overlapped) =>
            /\ kind # "file" => \E v \in Versions : disk[dir[t]] = Whole(v)
            /\ \A q \in Procs \ {p} : Opened(q) => TempName(q) # t
  PROVE  CacheInv'
<1> DEFINE e == EntryOf(kind)
<1>1. TypeOK /\ OwnNames /\ proc \in [Procs -> Download] /\ e \in Entries /\ e \in Names /\ EntryOf(kind)' = e
  BY Typed DEF CacheInv, Names, Entries, EntryOf, TypeOK, Kinds
<1>2. /\ dir' \in [Names -> Inodes \union {0}] /\ dir'[e] = dir[t] /\ dir'[t] = 0
      /\ \A y \in Names \ {e, t} : dir'[y] = dir[y]
  BY <1>1 DEF TypeOK
<1>3. proc' \in [Procs -> Download] /\ proc'[p] = d /\ \A q \in Procs \ {p} : proc'[q] = proc[q]
  BY <1>1
<1>4. TypeOK'
  BY <1>1, <1>2, <1>3 DEF TypeOK, Download
<1>5. OwnNames'
  <2>1. Entries \subseteq Names /\ "named.tmp" \in Names /\ Procs \subseteq Names
    BY DEF Names
  <2>2. \A y \in Names : y # e => dir'[y] \in {dir[y], 0}
    BY <1>2
  <2>3. \A q \in Procs : kind = "named" => q # e
    BY DownloadsAssumption DEF EntryOf
  <2> QED
    BY <1>1, <2>1, <2>2, <2>3 DEF OwnNames, Entries, EntryOf
<1>6. ASSUME NEW q \in Procs PROVE StepsTaken(q)' /\ (Opened(q)' <=> q # p /\ Opened(q))
  <2>1. CASE q = p
    BY <1>3, <2>1 DEF StepsTaken, Opened, Closed, OpenSteps
  <2>2. CASE q # p
    BY <1>3, <2>2 DEF CacheInv, StepsTaken, Opened
  <2> QED
    BY <2>1, <2>2
<1>7. ASSUME Tidy, kind = "named" => ~overlapped PROVE Tidy'
  <2>1. \A q \in Procs : TempName(q)' = TempName(q)
    BY DEF TempName
  <2>2. dir[t] # 1
    BY <1>7 DEF Tidy, NoLinks
  <2>3. ASSUME NEW q \in Procs PROVE Private(q)'
    <3> SUFFICES ASSUME Opened(q)' PROVE Private(q)'
      BY DEF Private
    <3>1. q # p /\ Opened(q) /\ proc'[q] = proc[q] /\ Private(q) /\ TempName(q) # t /\ proc[q].fd # 0
      BY <1>3, <1>6, <1>7, Keeps DEF Tidy
    <3>2. TempName(q) # e /\ (kind # "file" => TempName(q) \in Names)
      BY <1>1, TempNames DEF TypeOK, Kinds, Entries
    <3>3. dir[t] # proc[q].fd
      BY <3>1 DEF Private
    <3>4. \A y \in Names : dir'[y] = proc[q].fd => y = TempName(q)
      BY <1>2, <3>1, <3>3 DEF Private
    <3>5. \A r \in Procs \ {q} : proc'[r].fd # proc[q].fd
      BY <1>3, <3>1 DEF Private, Closed
    <3>6. kind # "file" => dir'[TempName(q)] = dir[TempName(q)]
      BY <1>2, <3>1, <3>2
    <3> QED
      BY <2>1, <3>1, <3>4, <3>5, <3>6 DEF Private
  <2>4. NoLinks'
    <3>1. ASSUME NEW y \in Names, NEW z \in Names, y # z, dir'[y] = dir'[z] PROVE dir'[y] = 0
      <4>1. CASE y \in {e, t} \/ z \in {e, t}
        BY <1>1, <1>2, <1>7, <3>1, <4>1 DEF Tidy, NoLinks
      <4>2. CASE y \notin {e, t} /\ z \notin {e, t}
        BY <1>2, <1>7, <3>1, <4>2 DEF Tidy, NoLinks
      <4> QED
        BY <4>1, <4>2
    <3>2. ASSUME NEW y \in Names, dir'[y] = 1 PROVE y = e
      BY <1>2, <1>7, <3>2 DEF Tidy, NoLinks
    <3> QED
      BY <1>1, <3>1, <3>2 DEF NoLinks
  <2>5. EntryContents'
    <3>1. CASE kind = "file"
      <4>1. ASSUME NEW y \in Names, dir'[y] \notin {0, 1} PROVE disk[dir'[y]] = Whole(Good)
        BY <1>2, <1>7, <2>2, <3>1, <4>1 DEF Tidy, EntryContents
      <4> QED
        BY <3>1, <4>1 DEF EntryContents
    <3>2. CASE kind # "file"
      <4>1. \E v \in Versions : disk[dir[t]] = Whole(v)
        BY <1>7, <3>2
      <4>2. \E v \in Versions : disk[dir'[e]] = Whole(v)
        BY <1>2, <4>1
      <4> QED
        BY <1>1, <3>2, <4>2 DEF EntryContents
    <3> QED
      BY <3>1, <3>2
  <2>6. ASSUME NEW q \in Procs PROVE Contents(q)'
    <3>1. CASE q = p
      BY <1>3, <1>7, <3>1 DEF Contents, Opened, Closed
    <3>2. CASE q # p
      <4>1. Contents(q) /\ proc'[q] = proc[q] /\ StepsTaken(q)
        BY <1>3, <1>7, <3>2 DEF Tidy, CacheInv
      <4>2. ~(proc[q].pc = "reopen" /\ dir'["sum"] = 1)
        <5>1. proc[q].pc = "reopen" => e = "sum"
          BY <4>1 DEF StepsTaken, EntryOf
        <5> QED
          BY <1>2, <2>2, <5>1
      <4> QED
        BY <4>1, <4>2 DEF Contents, Opened
    <3> QED
      BY <3>1, <3>2
  <2>7. kind' = "named" => \A q, r \in Procs : Opened(q)' /\ Opened(r)' => q = r
    BY <1>6, <1>7 DEF Tidy
  <2> QED
    BY <2>3, <2>4, <2>5, <2>6, <2>7 DEF Tidy
<1> QED
  BY <1>4, <1>5, <1>6, <1>7 DEF CacheInv

LEMMA RenameStep ==
  ASSUME CacheInv, NEW p \in Procs, Rename(p)
  PROVE  CacheInv'
<1> DEFINE x == TempName(p)
<1> DEFINE d == proc[p]
<1>1. /\ UNCHANGED <<kind, disk, prune, overlapped, starts, cuts, prunes>> /\ Counts'
      /\ d \in Download /\ d.pc = "rename" /\ Opened(p) /\ StepsTaken(p) /\ TypeOK /\ d.fd \in Inodes
      /\ kind # "file" /\ Chunks \in Nat
  BY Keeps, DownloadsAssumption DEF CacheInv, Rename, At, Opened, Download, StepsTaken
<1>2. /\ x \in Names /\ x # EntryOf(kind) /\ MyEntry(p) = EntryOf(kind)
      /\ \A q \in Procs \ {p} : kind = "archive" => TempName(q) # x
  BY <1>1, TempNames DEF TypeOK, Kinds, Entries
<1>3. CASE dir[x] = 0
  <2>1. proc' = [proc EXCEPT ![p] = Failed(proc[p])] /\ dir' = dir
    BY <1>3 DEF Rename
  <2> QED
    BY <1>1, <2>1, Keeps, GivesUp
<1>4. CASE dir[x] # 0
  <2> DEFINE e == Done(d, disk[dir[x]])
  <2>1. dir' = [dir EXCEPT ![EntryOf(kind)] = dir[x], ![x] = 0] /\ proc' = [proc EXCEPT ![p] = e]
    BY <1>2, <1>4 DEF Rename
  <2>2. dir[x] \in Inodes /\ disk[dir[x]] \in Content
    BY <1>1, <1>2, <1>4 DEF TypeOK
  <2>3. e \in Download /\ e.fd = 0 /\ e.pc = "done" /\ e.sum = d.sum /\ e.got = disk[dir[x]]
    BY <1>1, <2>2, Records
  <2>4. ASSUME Tidy PROVE disk[dir[x]] = Whole(d.v)
    <3>1. dir[x] = d.fd
      BY <1>1, <1>4, <2>4 DEF Tidy, Private
    <3>2. d.at - 1 = Chunks
      BY <1>1 DEF StepsTaken
    <3>3. \A i \in 1..Chunks : disk[dir[x]][i] = d.v
      BY <1>1, <2>4, <3>1, <3>2 DEF Tidy, Contents
    <3> QED
      BY <2>2, <3>3 DEF Whole, Content
  <2>5. Closed(e)
    BY <1>1, <2>3, <2>4 DEF Closed, OpenSteps, StepsTaken, CacheInv
  <2>6. Tidy => \A q \in Procs \ {p} : Opened(q) => TempName(q) # x
    BY <1>1, <1>2 DEF Tidy, TypeOK, Kinds
  <2>7. d.v \in Versions
    BY <1>1 DEF Download
  <2> HIDE DEF e
  <2> QED
    BY <1>1, <1>2, <1>4, <2>1, <2>3, <2>4, <2>5, <2>6, <2>7, Renames
<1> QED
  BY <1>3, <1>4

LEMMA UpdateCacheStep ==
  ASSUME CacheInv, NEW p \in Procs, UpdateCache(p)
  PROVE  CacheInv'
<1> DEFINE i == FreeInode
<1>1. /\ UNCHANGED <<kind, prune, overlapped, starts, cuts, prunes>> /\ Counts'
      /\ proc \in [Procs -> Download] /\ proc[p].pc = "copy" /\ Opened(p) /\ TypeOK /\ OwnNames
      /\ proc[p].fd \in Inodes /\ kind = "file" /\ proc[p].sum
  BY Keeps, Typed DEF CacheInv, UpdateCache, CopyToCache, At, Opened, Download, StepsTaken
<1>2. Tidy /\ disk[proc[p].fd] = Whole(Good)
  BY <1>1 DEF CacheInv, Tidy, Contents
<1>3. CASE Own(p) /\ UNCHANGED <<dir, disk>>
  BY <1>1, <1>2, <1>3, Keeps, OwnEnds
<1>4. CASE dir' = [dir EXCEPT ![p] = i] /\ Created(i, disk[proc[p].fd]) /\ To(p, "save")
  <2>1. i \in Inodes \ {1} /\ i \notin Held /\ i # 0
    BY <1>1, FreeInodeFree DEF Inodes
  <2> HIDE DEF i
  <2>2. p \in Names /\ p \notin Entries \union {"named.tmp"} /\ "sum" \in Names /\ "none" \notin Names
        /\ EntryOf(kind) = "sum" /\ EntryOf(kind)' = "sum"
        /\ \A q \in Procs : TempName(q) = "none" /\ TempName(q)' = "none"
    BY <1>1, TempNames DEF Names, Entries, EntryOf, TempName, Kinds
  <2>3. dir' \in [Names -> Inodes \union {0}] /\ dir'[p] = i /\ \A y \in Names \ {p} : dir'[y] = dir[y]
    BY <1>1, <1>4, <2>1, <2>2 DEF TypeOK
  <2>4. disk[proc[p].fd] \in Content
    BY <1>1 DEF TypeOK
  <2>5. /\ disk' \in [Inodes -> Content] /\ disk'[i] = Whole(Good)
        /\ \A j \in Inodes : j # i /\ j \in Held => disk'[j] = disk[j]
    BY <1>1, <1>2, <1>4, <2>1, <2>4, CreatedLeaves
  <2>6. /\ proc' \in [Procs -> Download] /\ proc'[p].pc = "save"
        /\ proc'[p].at = proc[p].at /\ proc'[p].fd = proc[p].fd /\ proc'[p].v = proc[p].v
        /\ proc'[p].sum = proc[p].sum
        /\ \A q \in Procs \ {p} : proc'[q] = proc[q]
    <3> DEFINE e == [proc[p] EXCEPT !.pc = "save"]
    <3>1. proc' = [proc EXCEPT ![p] = e] /\ proc \in [Procs -> Download]
      BY <1>1, <1>4, Typed DEF To
    <3>2. /\ e.pc = "save" /\ e.at = proc[p].at /\ e.fd = proc[p].fd /\ e.v = proc[p].v
          /\ e.sum = proc[p].sum /\ e \in Download
      <4>1. proc[p] \in Download /\ "save" \in PCs
        BY <1>1 DEF PCs, Steps
      <4> QED
        BY <4>1 DEF Download
    <3> HIDE DEF e
    <3> QED
      BY <3>1, <3>2
  <2>7. TypeOK'
    BY <1>1, <2>3, <2>5, <2>6, Typed DEF TypeOK, Download, Counts
  <2>8. OwnNames'
    BY <1>1, <2>2, <2>3 DEF OwnNames, Names
  <2>9. ASSUME NEW q \in Procs PROVE StepsTaken(q)' /\ (Opened(q)' <=> Opened(q)) /\ proc'[q].fd = proc[q].fd
    <3>1. CASE q = p
      BY <1>1, <2>6, <3>1 DEF CacheInv, StepsTaken, Opened
    <3>2. CASE q # p
      BY <1>1, <2>6, <3>2 DEF CacheInv, StepsTaken, Opened
    <3> QED
      BY <3>1, <3>2
  <2>10. \A q \in Procs : Private(q)'
    BY <1>1, <1>2, <2>1, <2>2, <2>3, <2>9, HeldThings DEF Tidy, Private
  <2>11. NoLinks'
    <3>1. \A y \in Names \ {p} : dir'[y] # i
      BY <2>1, <2>3, HeldThings
    <3> QED
      BY <1>2, <2>1, <2>2, <2>3, <3>1 DEF Tidy, NoLinks
  <2>12. ASSUME NEW j \in Inodes, j \in Held PROVE disk'[j] = disk[j] /\ j # i
    BY <2>1, <2>5, <2>12
  <2>13. EntryContents'
    <3>1. ASSUME NEW y \in Names, dir'[y] \notin {0, 1} PROVE disk'[dir'[y]] = Whole(Good)
      <4>1. CASE y = p
        BY <2>3, <2>5, <4>1
      <4>2. CASE y # p
        <5>1. dir'[y] = dir[y] /\ dir[y] \in Inodes /\ dir[y] \in Held
          BY <1>1, <2>3, <3>1, <4>2, HeldThings DEF TypeOK
        <5> QED
          BY <1>1, <1>2, <2>12, <3>1, <5>1 DEF Tidy, EntryContents
      <4> QED
        BY <4>1, <4>2
    <3> QED
      BY <1>1, <3>1 DEF EntryContents
  <2>14. ASSUME NEW q \in Procs PROVE Contents(q)'
    <3>1. Opened(q) => disk'[proc[q].fd] = disk[proc[q].fd]
      <4>1. Opened(q) => proc[q].fd \in Inodes
        BY Keeps DEF Download
      <4> QED
        BY <2>12, <4>1, HeldThings
    <3>2. dir'["sum"] = 1 => dir["sum"] = 1 /\ disk'[1] = disk[1]
      <4>1. dir'["sum"] = dir["sum"] /\ (dir["sum"] = 1 => 1 \in Inodes)
        BY <1>1, <2>2, <2>3 DEF TypeOK, Entries
      <4> QED
        BY <2>2, <2>12, <4>1, HeldThings
    <3>3. CASE q = p
      BY <1>1, <1>2, <2>6, <3>1, <3>3 DEF Contents, Opened
    <3>4. CASE q # p
      BY <1>1, <1>2, <2>6, <3>1, <3>2, <3>4 DEF Tidy, Contents, Opened
    <3> QED
      BY <3>3, <3>4
  <2>15. Tidy'
    BY <1>1, <2>10, <2>11, <2>13, <2>14 DEF Tidy
  <2> QED
    BY <2>7, <2>8, <2>9, <2>15 DEF CacheInv
<1> QED
  BY <1>3, <1>4 DEF UpdateCache, CopyToCache

LEMMA SaveEntryStep ==
  ASSUME CacheInv, NEW p \in Procs, SaveEntry(p)
  PROVE  CacheInv'
<1> DEFINE d == Done(proc[p], disk[proc[p].fd])
<1>1. /\ UNCHANGED <<kind, disk, prune, overlapped, starts, cuts, prunes>> /\ Counts'
      /\ proc[p] \in Download /\ proc[p].pc = "save" /\ Opened(p) /\ TypeOK
      /\ proc[p].fd \in Inodes /\ kind = "file" /\ proc[p].sum /\ Own(p)
  BY Keeps DEF CacheInv, SaveEntry, At, Opened, Download, StepsTaken
<1>2. Tidy /\ disk[proc[p].fd] = Whole(Good)
  BY <1>1 DEF CacheInv, Tidy, Contents
<1>3. p \in Names /\ p # "sum" /\ EntryOf(kind) = "sum" /\ \A q \in Procs : TempName(q) # p
  BY <1>1, TempNames, DownloadsAssumption DEF TypeOK, Entries
<1>4. CASE dir' = [dir EXCEPT ![p] = 0]
  <2>1. Forgets
    BY <1>3, <1>4, Keeps DEF Unlink
  <2> QED
    BY <1>1, <1>2, <2>1, OwnEnds
<1>5. CASE dir[p] # 0 /\ dir' = [dir EXCEPT !["sum"] = dir[p], ![p] = 0]
  <2>1. disk[proc[p].fd] \in Content
    BY <1>1 DEF TypeOK
  <2>2. d \in Download /\ d.fd = 0 /\ d.pc = "done" /\ d.sum = proc[p].sum /\ d.got = disk[proc[p].fd]
    <3>1. proc[p] \in Download /\ disk[proc[p].fd] \in Content
      BY <1>1, <2>1
    <3> QED
      BY <3>1, DoneRecord
  <2>3. Closed(d)
    BY <1>1, <1>2, <2>2 DEF Closed, OpenSteps
  <2>4. proc' = [proc EXCEPT ![p] = d]
    BY <1>1 DEF Own
  <2> HIDE DEF d
  <2> QED
    BY <1>1, <1>3, <1>5, <2>2, <2>3, <2>4, Renames
<1> QED
  BY <1>4, <1>5 DEF SaveEntry

-----------------------------------------------------------------------------
(* The theorem.                                                            *)

LEMMA CacheInit == Init => CacheInv
<1> SUFFICES ASSUME Init PROVE CacheInv
  OBVIOUS
<1>1. PICK x \in {"none"} \union (IF kind = "archive" THEN {} ELSE {EntryOf(kind)}),
           c \in {Whole(Good), Whole(Bad), Empty} :
        /\ dir = [y \in Names |-> IF y = x THEN 1 ELSE 0]
        /\ disk = [i \in Inodes |-> IF i = 1 /\ x # "none" THEN c ELSE Empty]
  BY DEF Init
<1>2. Empty \in Content /\ c \in Content /\ 1 \in Inodes
  BY NamesFinite DEF Content, Empty, Whole, Versions, Inodes
<1>3. proc = [p \in Procs |-> Idle] /\ Idle \in Download /\ Idle.fd = 0 /\ Idle.pc = "idle" /\ Idle.sum = FALSE
  <2>1. Good \in Versions /\ 1 \in 1..(Chunks + 1) /\ 0 \in 0..(MaxTries - 1)
    BY DownloadsAssumption DEF Versions
  <2> QED
    BY <1>2, <2>1 DEF Init, Idle, Download, PCs
<1>4. Counts /\ kind \in Kinds /\ overlapped \in BOOLEAN
  <2>1. 0 \in 0..MaxStarts /\ 0 \in 0..MaxCuts /\ 0 \in 0..MaxPrunes
    BY DownloadsAssumption
  <2>2. NoPrune \in [todo : SUBSET Names, doomed : Names \union {"none"}]
    BY DEF NoPrune
  <2>3. /\ kind \in Kinds /\ prune = NoPrune /\ overlapped = FALSE
        /\ starts = 0 /\ cuts = 0 /\ prunes = 0
    BY DEF Init
  <2> QED
    BY <2>1, <2>2, <2>3 DEF Counts
<1>5. TypeOK
  BY <1>1, <1>2, <1>3, <1>4, Typed
<1>6. \A y \in Names : dir[y] # 0 => dir[y] = 1 /\ y = EntryOf(kind) /\ kind # "archive"
  BY <1>1, DownloadsAssumption DEF Names, Entries
<1>7. OwnNames
  <2>1. Entries \subseteq Names /\ "named.tmp" \in Names /\ Procs \subseteq Names
    BY DEF Names
  <2>2. EntryOf(kind) \in Entries /\ "named.tmp" \notin Entries /\ \A p \in Procs : p \notin Entries
    BY <1>4, DownloadsAssumption DEF EntryOf, Kinds, Entries
  <2> QED
    BY <1>6, <2>1, <2>2 DEF OwnNames
<1>8. \A p \in Procs : StepsTaken(p) /\ ~Opened(p) /\ Private(p) /\ Contents(p)
  BY <1>3 DEF StepsTaken, Opened, Private, Contents
<1>9. NoLinks
  BY <1>6 DEF NoLinks
<1>10. EntryContents
  <2>1. EntryOf(kind) \in Names /\ (kind = "named" => EntryOf(kind) = "named")
    BY <1>4 DEF EntryOf, Kinds, Names, Entries
  <2> QED
    BY <1>4, <1>6, <2>1 DEF EntryContents, Kinds
<1> QED
  BY <1>5, <1>7, <1>8, <1>9, <1>10 DEF CacheInv, Tidy

LEMMA CacheNext == CacheInv /\ [Next]_vars => CacheInv'
  BY StartStep, LookStep, RemoveUnusableStep, ServeFromCacheStep, OpenStep, RefusedStep, WriteStep,
     WriteFailsStep, VerifyStep, RenameStep, UpdateCacheStep, SaveEntryStep, CutStep, PruneStep
  DEF Next, Step

LEMMA CacheSound == CacheInv => DownloadsSound
<1> SUFFICES ASSUME CacheInv PROVE DownloadsSound
  OBVIOUS
<1>1. TypeOK /\ OwnNames /\ {"sum", "url", "named"} \subseteq Names
  BY DEF CacheInv, Names, Entries
<1>2. EntriesWhole
  <2>1. CASE kind = "file"
    BY <1>1, <2>1 DEF CacheInv, Tidy, EntryContents, EntriesWhole, OwnNames, EntryOf, Entries
  <2>2. CASE kind = "archive"
    BY <1>1, <2>2 DEF CacheInv, Tidy, EntryContents, EntriesWhole, OwnNames, EntryOf, Entries
  <2>3. CASE kind = "named"
    BY <1>1, <2>3 DEF EntriesWhole, OwnNames, EntryOf, Entries
  <2> QED
    BY <1>1, <2>1, <2>2, <2>3 DEF TypeOK, Kinds
<1>3. NamedEntryWhole
  <2>1. CASE kind = "named"
    BY <1>1, <2>1 DEF CacheInv, Tidy, EntryContents, NamedEntryWhole, EntryOf
  <2>2. CASE kind # "named"
    BY <1>1, <2>2 DEF NamedEntryWhole, OwnNames, EntryOf, Entries, TypeOK, Kinds
  <2> QED
    BY <2>1, <2>2
<1>4. ServedAsAsked
  BY DEF CacheInv, Tidy, Contents, ServedAsAsked, At
<1> QED
  BY <1>1, <1>2, <1>3, <1>4 DEF DownloadsSound

\* For every number of processes, chunks, attempts, kills and prunes: an entry under a
\* checksum is the file of that checksum, an archive one whole answer, an entry under a
\* template's name a whole file as long as no two downloads of it were open at once, and
\* a caller that gave a checksum reads the file of that checksum (updateCache,
\* CachedArchive, downloadToCache).
THEOREM CacheHolds == Spec => []DownloadsSound
  BY CacheInit, CacheNext, CacheSound, PTL DEF Spec

-----------------------------------------------------------------------------
(* Packages: types.                                                        *)

Digested == [Parts -> Digests \union {0}]
Yaml == [sums : Digested, arches : SUBSET Arches, signed : BOOLEAN]
SignBundle == [key : Keys \union {NoKey}, of : Yaml]
Package == [have : Digested, yaml : Yaml, bundle : SignBundle, via : SUBSET {"registry", "short"}]
Index == [Arches -> Package]
Work == [pc : Stages, pkg : Package, pushable : BOOLEAN, trust : Keys \union {NoKey}, read : Index]
Tar == [state : {"none", "whole", "short", "torn"}, pkg : Package]

-----------------------------------------------------------------------------
(* Packages: the invariant.  builds and signatures only grow; what is said of a      *)
(* package is said of it and of them.                                      *)

\* A digest of f that its declaration allows.
AsDeclaredIs(f, d) == Group[f] # "images" => d \in (IF Shasum[f] = 0 THEN Served[f] ELSE {Shasum[f]})

\* What stands for f in a registry: a file of the same digest that is a layer of its own.
StandsFor(pkg, f, g) ==
    g # f /\ Group[g] # "values" /\ pkg.have[g] # 0 /\ pkg.yaml.sums[g] = pkg.yaml.sums[f]
Excused(pkg, f) ==
    \/ "short" \in pkg.via
    \/ "registry" \in pkg.via /\ (Group[f] = "values" \/ \E g \in Parts : StandsFor(pkg, f, g))

\* A package whose distro.yaml a build wrote: what it records was declared, what it lacks has
\* an excuse, and if it says that it is signed it was.
Genuine(pkg, bs, ss) ==
    /\ pkg.yaml.arches # {}
    /\ [sums |-> pkg.yaml.sums, arches |-> pkg.yaml.arches] \in bs
    /\ \A f \in Parts : pkg.yaml.sums[f] # 0 /\ AsDeclaredIs(f, pkg.yaml.sums[f])
    /\ \A f \in Parts : pkg.have[f] = 0 => Excused(pkg, f)
    /\ pkg.yaml.signed => pkg.bundle.of = pkg.yaml /\ Signature(pkg) \in ss

\* One whose files are what it records, too.
Sound(pkg, bs, ss) == Genuine(pkg, bs, ss) /\ Intact(pkg)

IndexSound(ix, bs, ss) ==
    ix \in Index /\ \A a \in Arches : ix[a] # NoPackage => Sound(ix[a], bs, ss)

Trusted(x, ss) ==
    x.trust # NoKey => [key |-> x.trust, sums |-> x.pkg.yaml.sums, arches |-> x.pkg.yaml.arches] \in ss

WorkSound(x, bs, ss) ==
    /\ x \in Work
    /\ x.pc # "idle" => Sound(x.pkg, bs, ss)
    /\ IndexSound(x.read, bs, ss) /\ Trusted(x, ss)

\* What is under a tarball's name can be damaged, so that it is genuine only.
TarSound(t, bs, ss) == t \in Tar /\ (t.state \in {"whole", "short"} => Genuine(t.pkg, bs, ss))

ProcessesSound == work \in [Processes -> Work] /\ \A p \in Processes : WorkSound(work[p], builds, signatures)
TarsSound == tars \in [TarNames -> Tar] /\ \A n \in TarNames : TarSound(tars[n], builds, signatures)

PackagesInv ==
    /\ ProcessesSound /\ TarsSound /\ IndexSound(index, builds, signatures)
    /\ LatestResolves
    /\ latest \in Index /\ raced \in BOOLEAN /\ ops \in 0..MaxOps /\ faults \in 0..MaxFaults

-----------------------------------------------------------------------------
(* Parts and their positions.                                              *)

\* A part is at its position.
LEMMA PartAtPos ==
    ASSUME NEW f \in Parts
    PROVE  Pos(f) \in 1..Len(PartSeq) /\ PartSeq[Pos(f)] = f
<1>1. \E i \in 1..Len(PartSeq) : PartSeq[i] = f
  BY PackagesAssumption DEF Parts, Range
<1> QED
  BY <1>1 DEF Pos

\* Of the parts with a property one has the first position.
LEMMA FirstPart ==
    ASSUME NEW S, S \subseteq Parts, S # {}
    PROVE  \E f \in S : \A g \in S : Pos(f) <= Pos(g)
<1> DEFINE R == OpToRel(<, Nat)
           T == {Pos(f) : f \in S}
<1>1. T \subseteq Nat /\ T # {}
  BY PartAtPos, PackagesAssumption
<1>2. PICK i \in T : \A j \in T : ~(<<j, i>> \in R)
  <2> HIDE DEF R, T
  <2>1. IsWellFoundedOn(R, Nat)
    BY NatLessThanWellFounded DEF R
  <2> QED
    BY <1>1, <2>1, WFMin
<1>3. \A j \in T : i <= j
  <2> HIDE DEF T
  <2>1. \A j \in T : ~(j < i)
    BY <1>1, <1>2, Zenon DEF OpToRel
  <2> QED
    BY <1>1, <2>1
<1>4. PICK f \in S : i = Pos(f)
  BY <1>2
<1> QED
  BY <1>3, <1>4

-----------------------------------------------------------------------------
(* What the operations make of a package.                                  *)

LEMMA NoPackageType == NoPackage \in Package /\ NoIndex \in Index /\ NoWork \in Work /\ NoTar \in Tar
BY DEF NoPackage, NoYaml, NoBundle, NoIndex, NoWork, NoTar, Package, Yaml, SignBundle, Digested, Index, Work, Tar, Stages

\* A build that adds to what was built and signed leaves every package as sound as it was.
LEMMA Grows ==
    ASSUME NEW bs, NEW ss, NEW bt, NEW st, bs \subseteq bt, ss \subseteq st
    PROVE  /\ \A pkg : Sound(pkg, bs, ss) => Sound(pkg, bt, st)
           /\ \A x : WorkSound(x, bs, ss) => WorkSound(x, bt, st)
           /\ \A t : TarSound(t, bs, ss) => TarSound(t, bt, st)
           /\ \A ix : IndexSound(ix, bs, ss) => IndexSound(ix, bt, st)
BY DEF Sound, Genuine, WorkSound, TarSound, IndexSound, Trusted

LEMMA NoWorkSound == ASSUME NEW bs, NEW ss PROVE WorkSound(NoWork, bs, ss)
BY NoPackageType DEF NoWork, NoIndex, WorkSound, IndexSound, Trusted

\* SignPackage changes distro.yaml in nothing but that it is signed.
LEMMA SignKeeps ==
    ASSUME NEW pkg \in Package, NEW k \in Keys, NEW bs, NEW ss, Sound(pkg, bs, ss)
    PROVE  /\ SignPackage(pkg, k) \in Package
           /\ Sound(SignPackage(pkg, k), bs, ss \union {Signature(SignPackage(pkg, k))})
<1> DEFINE yaml == [pkg.yaml EXCEPT !.signed = TRUE]
           signed == SignPackage(pkg, k)
<1>1. yaml \in Yaml /\ yaml.sums = pkg.yaml.sums /\ yaml.arches = pkg.yaml.arches
  BY DEF Package, Yaml
<1>2. /\ signed \in Package /\ signed.have = pkg.have /\ signed.yaml = yaml
      /\ signed.via = pkg.via /\ signed.bundle = Bundle(k, yaml)
  BY <1>1 DEF SignPackage, Bundle, Package, SignBundle
<1>3. signed.bundle.of = signed.yaml
  BY <1>2 DEF Bundle
<1> HIDE DEF yaml, signed
<1> QED
  BY <1>1, <1>2, <1>3 DEF Sound, Genuine, Intact, Excused, StandsFor, signed

\* What is built is what was declared, and all of it.
LEMMA BuildSound ==
    ASSUME NEW h \in Stagings, NEW as \in Targets
    PROVE  LET bare == [NoPackage EXCEPT !.have = h, !.yaml = Recorded(h, as)]
           IN bare \in Package /\ \A ss : Sound(bare, {[sums |-> h, arches |-> as]}, ss)
<1> DEFINE bare == [NoPackage EXCEPT !.have = h, !.yaml = Recorded(h, as)]
<1>1. \A f \in Parts : h[f] \in Staged(f)
  BY DEF Stagings
<1>2. ASSUME NEW f \in Parts
      PROVE  h[f] \in Digests /\ h[f] # 0 /\ AsDeclaredIs(f, h[f])
  <2>1. h[f] \in Served[f] \union Mirrored[f]
    BY <1>1 DEF Staged, packageValues, ImagesPull, fileGrabber
  <2>2. h[f] \in Digests /\ h[f] # 0
    BY <2>1, PackagesAssumption DEF Digests
  <2>3. AsDeclaredIs(f, h[f])
    BY <1>1, PackagesAssumption DEF Staged, packageValues, fileGrabber, Accepts, AsDeclaredIs
  <2> QED
    BY <2>2, <2>3
<1>3. h \in Digested
  BY <1>2 DEF Stagings, Digested
<1>4. as \subseteq Arches /\ as # {}
  <2>1. as = Arches \/ \E a \in Arches : as = {a}
    BY DEF Targets
  <2> QED
    BY <2>1, PackagesAssumption
<1>5. /\ bare.have = h /\ bare.yaml.sums = h /\ bare.yaml.arches = as /\ ~bare.yaml.signed
      /\ bare \in Package
  BY <1>3, <1>4, NoPackageType DEF NoPackage, Recorded, Package, Yaml
<1> HIDE DEF bare
<1>6. \A ss : Sound(bare, {[sums |-> h, arches |-> as]}, ss)
  BY <1>2, <1>4, <1>5 DEF Sound, Genuine, Intact
<1> QED
  BY <1>5, <1>6 DEF bare

\* A manifest made of a package that is sound lists what the package holds.
LEMMA ManifestIsPackage ==
    ASSUME NEW pkg \in Package, Intact(pkg)
    PROVE  computeManifest(pkg) = pkg
<1>1. [f \in Parts |-> IF pkg.have[f] = 0 THEN 0 ELSE pkg.yaml.sums[f]] = pkg.have
  BY DEF Intact, Package, Digested
<1> QED
  BY <1>1 DEF computeManifest, Package

\* A part that is no layer of its own has one that stands for it.
LEMMA LayersStandFor ==
    ASSUME NEW m \in Package, Intact(m), NEW f \in Parts, Group[f] # "values", Layers(m)[f] = 0,
           \/ m.have[f] # 0
           \/ \E g \in Parts : StandsFor(m, f, g)
    PROVE  \E g \in Parts : /\ g # f /\ Group[g] # "values" /\ Layers(m)[g] # 0
                            /\ m.yaml.sums[g] = m.yaml.sums[f]
<1> DEFINE Same == {g \in Wanted(m) : m.have[g] = m.yaml.sums[f]}
<1>1. Same \subseteq Parts
  BY DEF Wanted
<1>2. \A g \in Parts : Group[g] # "values" /\ m.have[g] # 0 => g \in Wanted(m)
  BY PackagesAssumption DEF Wanted
<1>3. Same # {}
  <2>1. CASE m.have[f] # 0
    BY <2>1, <1>2 DEF Intact
  <2>2. CASE \E g \in Parts : StandsFor(m, f, g)
    BY <2>2, <1>2 DEF Intact, StandsFor
  <2> QED
    BY <2>1, <2>2
<1>4. PICK g \in Same : \A other \in Same : Pos(g) <= Pos(other)
  <2> HIDE DEF Same
  <2> QED
    BY <1>1, <1>3, FirstPart
<1>5. g \in Wanted(m) /\ g \in Parts /\ m.have[g] = m.yaml.sums[f] /\ m.have[g] # 0 /\ Group[g] # "values"
  BY <1>4 DEF Wanted
<1>6. ~Twin(m, g)
  BY <1>1, <1>4, <1>5, PartAtPos, PackagesAssumption DEF Twin
<1>7. Layers(m)[g] = m.have[g]
  BY <1>5, <1>6 DEF Layers
<1>8. m.yaml.sums[g] = m.yaml.sums[f]
  BY <1>5 DEF Intact
<1> QED
  BY <1>5, <1>7, <1>8

\* What is pulled or imported lacks only what another layer stands for, and the values.
LEMMA ExtractedSound ==
    ASSUME NEW m \in Package, NEW bs, NEW ss, Sound(m, bs, ss)
    PROVE  Extracted(m) \in Package /\ Genuine(Extracted(m), bs, ss)
<1> DEFINE got == Extracted(m)
<1>1. Layers(m) \in Digested
  BY DEF Layers, Digested, Package
<1>2. /\ got \in Package /\ got.have = Layers(m) /\ got.yaml = m.yaml /\ got.bundle = m.bundle
      /\ got.via = m.via \union {"registry"}
  BY <1>1 DEF Extracted, Package
<1>3. ASSUME NEW f \in Parts, got.have[f] = 0
      PROVE  Excused(got, f)
  <2>1. CASE "short" \in m.via \/ Group[f] = "values"
    BY <2>1, <1>2 DEF Excused
  <2>2. CASE "short" \notin m.via /\ Group[f] # "values"
    <3>1. m.have[f] # 0 \/ \E g \in Parts : StandsFor(m, f, g)
      BY <2>2 DEF Sound, Genuine, Excused
    <3>2. \E g \in Parts : /\ g # f /\ Group[g] # "values" /\ Layers(m)[g] # 0
                           /\ m.yaml.sums[g] = m.yaml.sums[f]
      BY <1>2, <1>3, <2>2, <3>1, LayersStandFor DEF Sound
    <3> QED
      BY <1>2, <3>2 DEF Excused, StandsFor
  <2> QED
    BY <2>1, <2>2
<1> HIDE DEF got
<1> QED
  BY <1>2, <1>3 DEF Sound, Genuine, Signature, got

-----------------------------------------------------------------------------
(* The steps.                                                              *)

LEMMA Counting ==
    /\ ops \in 0..MaxOps /\ Op => ops' \in 0..MaxOps
    /\ faults \in 0..MaxFaults /\ Fault => faults' \in 0..MaxFaults
BY PackagesAssumption DEF Op, Fault

\* A step of one process leaves the others as sound as they were.
LEMMA ProcessStep ==
    ASSUME PackagesInv, NEW p \in Processes, NEW x, work' = [work EXCEPT ![p] = x],
           builds \subseteq builds', signatures \subseteq signatures',
           WorkSound(x, builds', signatures')
    PROVE  ProcessesSound'
<1>1. work' \in [Processes -> Work] /\ \A o \in Processes : work'[o] = IF o = p THEN x ELSE work[o]
  BY DEF PackagesInv, ProcessesSound, WorkSound
<1>2. \A o \in Processes : WorkSound(work[o], builds', signatures')
  BY Grows DEF PackagesInv, ProcessesSound
<1>3. \A o \in Processes : WorkSound(work[o], builds, signatures)'
  BY <1>1, <1>2
<1> QED
  BY <1>1, <1>3 DEF ProcessesSound

\* What a process does with its own package leaves what is stored as it was.
LEMMA StoredKept ==
    ASSUME PackagesInv, ProcessesSound', UNCHANGED <<tars, index, latest, raced>>,
           builds \subseteq builds', signatures \subseteq signatures',
           ops' \in 0..MaxOps, faults' \in 0..MaxFaults
    PROVE  PackagesInv'
<1>1. \A n \in TarNames : TarSound(tars[n], builds', signatures')
  BY Grows DEF PackagesInv, TarsSound
<1>2. IndexSound(index, builds', signatures')
  BY Grows DEF PackagesInv
<1> QED
  BY <1>1, <1>2 DEF PackagesInv, TarsSound, LatestResolves

LEMMA StepBuild == ASSUME PackagesInv, NEW p \in Processes, Build(p) PROVE PackagesInv'
<1>1. PICK h \in Stagings : \E as \in Targets, k \in Keys \union {NoKey} :
        LET bare == [NoPackage EXCEPT !.have = h, !.yaml = Recorded(h, as)]
            pkg == IF k = NoKey THEN bare ELSE SignPackage(bare, k)
        IN /\ work' = [work EXCEPT ![p] = [NoWork EXCEPT !.pc = "loaded", !.pkg = pkg,
                                                       !.pushable = (k # NoKey)]]
           /\ builds' = builds \union {[sums |-> h, arches |-> as]}
           /\ signatures' = IF k = NoKey THEN signatures ELSE signatures \union {Signature(pkg)}
  BY DEF Build
<1>2. PICK as \in Targets, k \in Keys \union {NoKey} :
        LET bare == [NoPackage EXCEPT !.have = h, !.yaml = Recorded(h, as)]
            pkg == IF k = NoKey THEN bare ELSE SignPackage(bare, k)
        IN /\ work' = [work EXCEPT ![p] = [NoWork EXCEPT !.pc = "loaded", !.pkg = pkg,
                                                       !.pushable = (k # NoKey)]]
           /\ builds' = builds \union {[sums |-> h, arches |-> as]}
           /\ signatures' = IF k = NoKey THEN signatures ELSE signatures \union {Signature(pkg)}
  BY <1>1
<1> DEFINE bare == [NoPackage EXCEPT !.have = h, !.yaml = Recorded(h, as)]
           pkg == IF k = NoKey THEN bare ELSE SignPackage(bare, k)
           x == [NoWork EXCEPT !.pc = "loaded", !.pkg = pkg, !.pushable = (k # NoKey)]
           one == {[sums |-> h, arches |-> as]}
<1>3. /\ work' = [work EXCEPT ![p] = x] /\ builds' = builds \union one
      /\ signatures' = IF k = NoKey THEN signatures ELSE signatures \union {Signature(pkg)}
  BY <1>2
<1>4. bare \in Package /\ Sound(bare, one, signatures)
  BY BuildSound
<1> HIDE DEF bare, one
<1>5. pkg \in Package /\ Sound(pkg, one, signatures')
  BY <1>3, <1>4, SignKeeps
<1> HIDE DEF pkg
<1>6. Sound(pkg, builds', signatures')
  BY <1>3, <1>5, Grows
<1>7. /\ x \in Work /\ x.pkg = pkg /\ x.trust = NoKey /\ x.read = NoIndex
  BY <1>5, NoPackageType DEF Work, NoWork, Stages
<1> HIDE DEF x
<1>8. WorkSound(x, builds', signatures')
  BY <1>6, <1>7 DEF WorkSound, IndexSound, NoIndex, Trusted, Work
<1>9. ProcessesSound'
  BY <1>3, <1>8, ProcessStep
<1> QED
  BY <1>3, <1>9, StoredKept, Counting DEF Build, PackagesInv

\* A process that ends, or whose command is done, leaves nothing of its own.
LEMMA GoesIdle ==
    ASSUME PackagesInv, NEW p \in Processes, work' = [work EXCEPT ![p] = NoWork],
           UNCHANGED <<builds, signatures>>
    PROVE  ProcessesSound'
BY NoWorkSound, ProcessStep

\* One that goes on with the package it has.
LEMMA GoesOn ==
    ASSUME PackagesInv, NEW p \in Processes, NEW pc \in Stages, work' = [work EXCEPT ![p].pc = pc], ~Doing(p, "idle"),
           UNCHANGED <<builds, signatures>>
    PROVE  ProcessesSound'
<1> DEFINE x == [work[p] EXCEPT !.pc = pc]
<1>1. work' = [work EXCEPT ![p] = x]
  BY DEF PackagesInv, ProcessesSound
<1>2. WorkSound(x, builds, signatures)
  <2>1. work[p] \in Work /\ WorkSound(work[p], builds, signatures)
    BY DEF PackagesInv, ProcessesSound
  <2>2. /\ x \in Work /\ x.pkg = work[p].pkg /\ x.read = work[p].read /\ x.trust = work[p].trust
    BY <2>1 DEF Work
  <2> HIDE DEF x
  <2> QED
    BY <2>1, <2>2 DEF WorkSound, Trusted, Doing
<1> HIDE DEF x
<1> QED
  BY <1>1, <1>2, ProcessStep

\* A tarball is written, or damaged.
LEMMA TarStep ==
    ASSUME PackagesInv, ProcessesSound', NEW n, NEW t, tars' = [tars EXCEPT ![n] = t],
           TarSound(t, builds, signatures), UNCHANGED <<index, latest, raced, builds, signatures, ops>>,
           faults' \in 0..MaxFaults
    PROVE  PackagesInv'
<1>1. tars' \in [TarNames -> Tar] /\ \A m \in TarNames : tars'[m] = tars[m] \/ tars'[m] = t
  BY DEF PackagesInv, TarsSound, TarSound
<1>2. \A m \in TarNames : TarSound(tars[m], builds, signatures)'
  BY <1>1 DEF PackagesInv, TarsSound
<1> QED
  BY <1>1, <1>2 DEF PackagesInv, TarsSound, LatestResolves

LEMMA TornSound == TarSound([NoTar EXCEPT !.state = "torn"], builds, signatures)
<1>1. [NoTar EXCEPT !.state = "torn"] = [state |-> "torn", pkg |-> NoPackage]
  BY DEF NoTar
<1> QED
  BY <1>1, NoPackageType DEF TarSound, Tar

LEMMA StepArchive == ASSUME PackagesInv, NEW p \in Processes, Archive(p) \/ Archived(p) PROVE PackagesInv'
<1>1. CASE Archive(p)
  <2>1. ProcessesSound'
    BY <1>1, GoesOn DEF Archive, Doing, Stages
  <2> QED
    BY <1>1, <2>1, TarStep, TornSound DEF Archive, PackagesInv
<1>2. CASE Archived(p)
  <2>1. ProcessesSound'
    BY <1>2, GoesIdle DEF Archived
  <2>2. TarSound([state |-> "whole", pkg |-> work[p].pkg], builds, signatures)
    BY <1>2 DEF Archived, Doing, PackagesInv, ProcessesSound, WorkSound, Sound, TarSound, Tar, Work
  <2> QED
    BY <1>2, <2>1, <2>2, TarStep, TornSound DEF Archived, PackagesInv
<1> QED
  BY <1>1, <1>2

\* A tarball broken off is genuine: what it lacks it lacks for that.
LEMMA ShortSound ==
    ASSUME NEW pkg \in Package, NEW bs, NEW ss, Sound(pkg, bs, ss), NEW n
    PROVE  TarSound([state |-> "short", pkg |-> [pkg EXCEPT !.have = Prefix(pkg, n), !.via = @ \union {"short"}]],
                    bs, ss)
<1> DEFINE cut == [pkg EXCEPT !.have = Prefix(pkg, n), !.via = @ \union {"short"}]
<1>1. Prefix(pkg, n) \in Digested
  BY DEF Prefix, Digested, Package
<1>2. /\ cut \in Package /\ cut.yaml = pkg.yaml /\ cut.bundle = pkg.bundle /\ "short" \in cut.via
  BY <1>1 DEF Package
<1> HIDE DEF cut
<1>3. Genuine(cut, bs, ss)
  BY <1>2 DEF Sound, Genuine, Excused, Signature
<1>4. TarSound([state |-> "short", pkg |-> cut], bs, ss)
  BY <1>2, <1>3 DEF TarSound, Tar
<1> QED
  BY <1>4 DEF cut

LEMMA StepDies == ASSUME PackagesInv, NEW p \in Processes, Dies(p) PROVE PackagesInv'
<1>1. ProcessesSound' /\ faults' \in 0..MaxFaults
  BY GoesIdle, Counting DEF Dies, PackagesInv
<1>2. CASE Doing(p, "archiving")
  <2>1. PICK n \in 0..Len(PartSeq) :
            tars' = [tars EXCEPT ![MyTar(p)] =
                IF n = Len(PartSeq) THEN [NoTar EXCEPT !.state = "torn"]
                ELSE [state |-> "short", pkg |-> [work[p].pkg EXCEPT !.have = Prefix(work[p].pkg, n),
                                                                     !.via = @ \union {"short"}]]]
    BY <1>2 DEF Dies
  <2>2. TarSound([state |-> "short", pkg |-> [work[p].pkg EXCEPT !.have = Prefix(work[p].pkg, n),
                                                                 !.via = @ \union {"short"}]],
                 builds, signatures)
    BY <1>2, ShortSound DEF Doing, PackagesInv, ProcessesSound, WorkSound, Work
  <2> QED
    BY <1>1, <2>1, <2>2, TarStep, TornSound DEF Dies
<1>3. CASE ~Doing(p, "archiving")
  BY <1>1, <1>3, StoredKept DEF Dies, PackagesInv
<1> QED
  BY <1>2, <1>3

\* Damage changes a file and nothing that is said about it.
LEMMA StepDamage == ASSUME PackagesInv, Damage PROVE PackagesInv'
<1>1. PICK n \in TarNames : \E f \in Parts :
        /\ tars[n].state = "whole" /\ tars[n].pkg.have[f] # 0
        /\ tars' = [tars EXCEPT ![n].pkg.have[f] = Damaged]
  BY DEF Damage
<1>2. PICK f \in Parts :
        /\ tars[n].state = "whole" /\ tars[n].pkg.have[f] # 0
        /\ tars' = [tars EXCEPT ![n].pkg.have[f] = Damaged]
  BY <1>1
<1> DEFINE pkg == tars[n].pkg
           bad == [pkg EXCEPT !.have[f] = Damaged]
           t == [tars[n] EXCEPT !.pkg = bad]
<1>3. tars[n] \in Tar /\ Genuine(pkg, builds, signatures)
  BY <1>2 DEF PackagesInv, TarsSound, TarSound
<1>4. Damaged \in Digests /\ Damaged # 0
  <2>1. Damaged \in Digests
    BY DEF Digests
  <2>2. Damaged # 0
    BY DEF Damaged
  <2> QED
    BY <2>1, <2>2
<1>5. /\ bad \in Package /\ bad.yaml = pkg.yaml /\ bad.bundle = pkg.bundle /\ bad.via = pkg.via
      /\ \A g \in Parts : bad.have[g] = 0 <=> pkg.have[g] = 0
  BY <1>2, <1>3, <1>4 DEF Tar, Package, Digested
<1>6. tars' = [tars EXCEPT ![n] = t]
  BY <1>2, <1>3 DEF Tar, Package
<1>7. t \in Tar /\ t.pkg = bad /\ t.state = tars[n].state
  BY <1>3, <1>5 DEF Tar
<1> HIDE DEF t, bad
<1>8. Genuine(bad, builds, signatures)
  BY <1>3, <1>5 DEF Genuine, Excused, StandsFor, Signature
<1>9. TarSound(t, builds, signatures)
  BY <1>7, <1>8 DEF TarSound
<1>10. ProcessesSound' /\ faults' \in 0..MaxFaults
  BY Counting DEF Damage, PackagesInv, ProcessesSound
<1> QED
  BY <1>6, <1>9, <1>10, TarStep DEF Damage

\* What LoadFromDir lets through is sound, and signed with the key it was verified with.
LEMMA LoadStep ==
    ASSUME PackagesInv, NEW p \in Processes, NEW pkg \in Package, NEW fromRegistry \in BOOLEAN,
           Genuine(pkg, builds, signatures), LoadFromDir(p, pkg, fromRegistry), Op,
           UNCHANGED <<tars, index, latest, raced, builds, signatures, faults>>
    PROVE  PackagesInv'
<1>1. PICK k \in Keys \union {NoKey}, always \in BOOLEAN :
        LET layout == [NoWork EXCEPT !.pc = "loaded", !.pkg = pkg, !.pushable = TRUE,
                                   !.trust = IF always THEN k ELSE NoKey]
        IN /\ Intact(pkg) /\ Verified(pkg, k, always)
           /\ work' = [work EXCEPT ![p] = IF fromRegistry THEN SetRegistryDigest(layout) ELSE layout]
  BY DEF LoadFromDir
<1> DEFINE layout == [NoWork EXCEPT !.pc = "loaded", !.pkg = pkg, !.pushable = TRUE,
                                  !.trust = IF always THEN k ELSE NoKey]
           x == IF fromRegistry THEN SetRegistryDigest(layout) ELSE layout
<1>2. Intact(pkg) /\ Verified(pkg, k, always) /\ work' = [work EXCEPT ![p] = x]
  BY <1>1
<1>3. /\ x \in Work /\ x.pkg = pkg /\ x.read = NoIndex
      /\ x.trust = IF always THEN k ELSE NoKey
  BY NoPackageType DEF Work, NoWork, Stages, SetRegistryDigest
<1> HIDE DEF x
<1>4. x.trust # NoKey => [key |-> k, sums |-> pkg.yaml.sums, arches |-> pkg.yaml.arches] \in signatures
  <2> SUFFICES ASSUME always, k # NoKey
               PROVE  [key |-> k, sums |-> pkg.yaml.sums, arches |-> pkg.yaml.arches] \in signatures
    BY <1>3
  <2>1. pkg.yaml.signed /\ pkg.bundle = Bundle(k, pkg.yaml)
    BY <1>2 DEF Verified, BundleVerifies
  <2> QED
    BY <2>1 DEF Genuine, Signature, Bundle
<1>5. WorkSound(x, builds, signatures)
  BY <1>2, <1>3, <1>4 DEF WorkSound, Sound, IndexSound, NoIndex, Trusted, Work
<1>6. ProcessesSound'
  BY <1>2, <1>5, ProcessStep
<1> QED
  BY <1>6, StoredKept, Counting DEF PackagesInv

LEMMA StepLoad == ASSUME PackagesInv, NEW p \in Processes, LoadTar(p) \/ PullHTTP(p) PROVE PackagesInv'
<1>1. PICK n \in TarNames : tars[n].state \in {"whole", "short"} /\ LoadFromDir(p, tars[n].pkg, FALSE)
  BY DEF LoadTar, PullHTTP, pullHTTPFile, PackagesInv, TarsSound, Tar
<1>2. tars[n].pkg \in Package /\ Genuine(tars[n].pkg, builds, signatures)
  BY <1>1 DEF PackagesInv, TarsSound, TarSound, Tar
<1> QED
  BY <1>1, <1>2, LoadStep DEF LoadTar, PullHTTP

LEMMA StepPull == ASSUME PackagesInv, NEW p \in Processes, PullOCI(p) \/ Import(p) PROVE PackagesInv'
<1>1. PICK a \in Arches : \E m \in Resolved(a) \union selectManifest(a) : LoadFromDir(p, Extracted(m), TRUE)
  BY DEF PullOCI, Import
<1>2. PICK m \in Resolved(a) \union selectManifest(a) : LoadFromDir(p, Extracted(m), TRUE)
  BY <1>1
<1>3. \E b \in Arches : m = index[b] /\ m # NoPackage
  BY DEF Resolved, selectManifest, Listed
<1>4. m \in Package /\ Sound(m, builds, signatures)
  BY <1>3 DEF PackagesInv, IndexSound, Index
<1> QED
  BY <1>2, <1>4, ExtractedSound, LoadStep DEF PullOCI, Import

LEMMA StepSign == ASSUME PackagesInv, NEW p \in Processes, Sign(p) PROVE PackagesInv'
<1>1. PICK k \in Keys :
        LET pkg == SignPackage(work[p].pkg, k)
        IN /\ work' = [work EXCEPT ![p].pkg = pkg, ![p].pushable = TRUE, ![p].trust = NoKey]
           /\ signatures' = signatures \union {Signature(pkg)}
  BY DEF Sign
<1> DEFINE pkg == SignPackage(work[p].pkg, k)
           x == [work[p] EXCEPT !.pkg = pkg, !.pushable = TRUE, !.trust = NoKey]
<1>2. work[p] \in Work /\ Sound(work[p].pkg, builds, signatures) /\ IndexSound(work[p].read, builds, signatures)
  BY DEF Sign, Doing, PackagesInv, ProcessesSound, WorkSound
<1>3. pkg \in Package /\ Sound(pkg, builds, signatures')
  BY <1>1, <1>2, SignKeeps DEF Work
<1> HIDE DEF pkg
<1>4. x \in Work /\ x.pkg = pkg /\ x.read = work[p].read /\ x.trust = NoKey
  BY <1>2, <1>3 DEF Work
<1>5. work' = [work EXCEPT ![p] = x] /\ signatures \subseteq signatures' /\ UNCHANGED builds
  BY <1>1 DEF Sign, PackagesInv, ProcessesSound, pkg
<1> HIDE DEF x
<1>6. IndexSound(x.read, builds, signatures')
  BY <1>2, <1>4, <1>5, Grows
<1>7. ProcessesSound'
  BY <1>3, <1>4, <1>5, <1>6, ProcessStep DEF WorkSound, Trusted
<1> QED
  BY <1>5, <1>7, StoredKept, Counting DEF Sign, PackagesInv

LEMMA StepPush ==
    ASSUME PackagesInv, NEW p \in Processes, PushPackage(p) \/ PushFails(p) \/ Cleanup(p)
    PROVE  PackagesInv'
<1>1. CASE PushPackage(p)
  <2>1. ProcessesSound'
    BY <1>1, GoesOn DEF PushPackage, Doing, Stages
  <2> QED
    BY <1>1, <2>1, StoredKept, Counting DEF PushPackage, PackagesInv
<1>2. CASE Cleanup(p)
  <2>1. ProcessesSound'
    BY <1>2, GoesIdle DEF Cleanup
  <2> QED
    BY <1>2, <2>1, StoredKept DEF Cleanup, PackagesInv
<1>3. CASE PushFails(p)
  <2>1. ASSUME work' = [work EXCEPT ![p] = NoWork]
        PROVE  ProcessesSound'
    BY <1>3, <2>1, GoesIdle DEF PushFails
  <2>2. ASSUME work' = [work EXCEPT ![p].pc = "pushed", ![p].read = NoIndex]
        PROVE  ProcessesSound'
    <3> DEFINE x == [work[p] EXCEPT !.pc = "pushed", !.read = NoIndex]
    <3>1. work[p] \in Work /\ WorkSound(work[p], builds, signatures) /\ work[p].pc # "idle"
      BY <1>3 DEF PushFails, PackagesInv, ProcessesSound
    <3>2. /\ x \in Work /\ x.pkg = work[p].pkg /\ x.read = NoIndex /\ x.trust = work[p].trust
      BY <3>1, NoPackageType DEF Work, Stages
    <3>3. work' = [work EXCEPT ![p] = x]
      BY <2>2 DEF PackagesInv, ProcessesSound
    <3> HIDE DEF x
    <3>4. WorkSound(x, builds, signatures)
      BY <3>1, <3>2 DEF WorkSound, IndexSound, NoIndex, Trusted, Work
    <3> QED
      BY <1>3, <3>3, <3>4, ProcessStep DEF PushFails
  <2>3. ProcessesSound'
    BY <1>3, <2>1, <2>2 DEF PushFails
  <2> QED
    BY <1>3, <2>3, StoredKept, Counting DEF PushFails, PackagesInv
<1> QED
  BY <1>1, <1>2, <1>3

\* What a publisher read of the index is sound, and stays it however old it gets.
LEMMA StepFetchIndex == ASSUME PackagesInv, NEW p \in Processes, FetchIndex(p) PROVE PackagesInv'
<1> DEFINE x == [work[p] EXCEPT !.pc = "fetched", !.read = index]
<1>1. work[p] \in Work /\ WorkSound(work[p], builds, signatures) /\ work[p].pc # "idle"
  BY DEF FetchIndex, Doing, PackagesInv, ProcessesSound
<1>2. index \in Index /\ IndexSound(index, builds, signatures)
  BY DEF PackagesInv, IndexSound
<1>3. x \in Work /\ x.pkg = work[p].pkg /\ x.read = index /\ x.trust = work[p].trust
  BY <1>1, <1>2 DEF Work, Stages
<1>4. work' = [work EXCEPT ![p] = x]
  BY DEF FetchIndex, PackagesInv, ProcessesSound
<1> HIDE DEF x
<1>5. WorkSound(x, builds, signatures)
  BY <1>1, <1>2, <1>3 DEF WorkSound, Trusted
<1>6. ProcessesSound'
  BY <1>4, <1>5, ProcessStep DEF FetchIndex
<1> QED
  BY <1>6, StoredKept DEF FetchIndex, PackagesInv

\* The index that is written has this package for its architectures and, for the others, what
\* was read: what is there still, unless another publisher came between.
LEMMA StepPushIndex == ASSUME PackagesInv, NEW p \in Processes, PushIndex(p) PROVE PackagesInv'
<1> DEFINE pkg == work[p].pkg
           read == work[p].read
<1>1. pkg \in Package /\ Sound(pkg, builds, signatures) /\ IndexSound(read, builds, signatures)
  BY DEF PushIndex, Doing, PackagesInv, ProcessesSound, WorkSound, Work
<1>2. computeManifest(pkg) = pkg
  BY <1>1, ManifestIsPackage DEF Sound
<1> HIDE DEF pkg, read
<1>3. /\ index' = [a \in Arches |-> IF a \in pkg.yaml.arches THEN pkg ELSE read[a]]
      /\ latest' = [a \in Arches |-> IF a \in pkg.yaml.arches THEN pkg ELSE latest[a]]
      /\ raced' = (raced \/ index # read)
      /\ work' = [work EXCEPT ![p] = NoWork]
      /\ UNCHANGED <<tars, builds, signatures, ops, faults>>
  BY <1>2 DEF PushIndex, updateIndexForArches, pkg, read
<1>4. IndexSound(index, builds, signatures)'
  <2>1. index' \in Index
    BY <1>1, <1>3 DEF IndexSound, Index
  <2>2. \A a \in Arches : index'[a] # NoPackage => Sound(index'[a], builds, signatures)
    BY <1>1, <1>3 DEF IndexSound
  <2> QED
    BY <1>3, <2>1, <2>2 DEF IndexSound
<1>5. latest' \in Index
  BY <1>1, <1>3 DEF PackagesInv, Index
<1>6. LatestResolves'
  BY <1>3 DEF PackagesInv, LatestResolves
<1>7. raced' \in BOOLEAN
  BY <1>3 DEF PackagesInv
<1>8. ProcessesSound' /\ TarsSound'
  BY <1>3, GoesIdle DEF PackagesInv, TarsSound
<1> QED
  BY <1>3, <1>4, <1>5, <1>6, <1>7, <1>8 DEF PackagesInv

LEMMA PackagesStep == ASSUME PackagesInv, [PackagesNext]_packageVars PROVE PackagesInv'
<1>1. CASE UNCHANGED packageVars
  BY <1>1, StoredKept DEF packageVars, PackagesInv, ProcessesSound
<1>2. CASE Damage
  BY <1>2, StepDamage
<1>3. ASSUME NEW p \in Processes,
             \/ Build(p) \/ Archive(p) \/ Archived(p) \/ LoadTar(p) \/ PullHTTP(p) \/ PullOCI(p) \/ Import(p)
             \/ Sign(p) \/ PushPackage(p) \/ FetchIndex(p) \/ PushIndex(p) \/ PushFails(p)
             \/ Cleanup(p) \/ Dies(p)
      PROVE  PackagesInv'
  BY <1>3, StepBuild, StepArchive, StepLoad, StepPull, StepSign, StepPush, StepFetchIndex, StepPushIndex, StepDies
<1> QED
  BY <1>1, <1>2, <1>3 DEF PackagesNext

-----------------------------------------------------------------------------
(* The theorem.                                                            *)

LEMMA InitSound == PackagesInit => PackagesInv
<1> SUFFICES ASSUME PackagesInit PROVE PackagesInv
  OBVIOUS
<1>1. ProcessesSound
  BY NoWorkSound DEF PackagesInit, ProcessesSound, WorkSound
<1>2. TarsSound
  BY NoPackageType DEF PackagesInit, TarsSound, TarSound, NoTar
<1>3. IndexSound(index, builds, signatures) /\ LatestResolves /\ latest \in Index
  BY NoPackageType DEF PackagesInit, IndexSound, NoIndex, LatestResolves
<1>4. raced \in BOOLEAN
  BY DEF PackagesInit
<1>5. ops \in 0..MaxOps /\ faults \in 0..MaxFaults
  BY PackagesAssumption DEF PackagesInit
<1> QED
  BY <1>1, <1>2, <1>3, <1>4, <1>5 DEF PackagesInv

\* What is in hand is sound and what is on offer is genuine.
LEMMA InHandSound ==
    ASSUME PackagesInv
    PROVE  /\ \A pkg \in InHand : Sound(pkg, builds, signatures)
           /\ \A pkg \in OnOffer : Genuine(pkg, builds, signatures)
<1>1. \A pkg \in InHand : Sound(pkg, builds, signatures)
  BY DEF InHand, Doing, PackagesInv, ProcessesSound, WorkSound
<1>2. \A pkg \in OnOffer : Genuine(pkg, builds, signatures)
  BY DEF OnOffer, Listed, PackagesInv, IndexSound, Sound, TarsSound, TarSound
<1> QED
  BY <1>1, <1>2

LEMMA PackagesInvTypes == PackagesInv => PackagesTypeOK
<1> SUFFICES ASSUME PackagesInv PROVE PackagesTypeOK
  OBVIOUS
<1>1. ASSUME NEW p \in Processes
      PROVE  /\ work[p].pc \in Stages /\ work[p].pushable \in BOOLEAN /\ work[p].trust \in Keys \union {NoKey}
             /\ work[p].pkg.have \in [Parts -> Digests \union {0}]
             /\ work[p].pkg.via \subseteq {"registry", "short"}
             /\ work[p].pc # "idle" => work[p].pkg.yaml.arches # {}
  BY DEF PackagesInv, ProcessesSound, WorkSound, Sound, Genuine, Work, Package, Digested
<1>2. \A n \in TarNames : tars[n].state \in {"none", "whole", "short", "torn"}
  BY DEF PackagesInv, TarsSound, TarSound, Tar
<1>3. DOMAIN index = Arches
  BY DEF PackagesInv, IndexSound, Index
<1> QED
  BY <1>1, <1>2, <1>3 DEF PackagesTypeOK, PackagesInv

LEMMA PackagesInvSound == PackagesInv => PackagesSound
<1> SUFFICES ASSUME PackagesInv PROVE PackagesSound
  OBVIOUS
<1>1. LoadedAsBuilt
  BY InHandSound DEF LoadedAsBuilt, Sound, Genuine, Intact
<1>2. LoadedWhole
  <2> SUFFICES ASSUME NEW pkg \in InHand, NEW f \in Parts, pkg.have[f] = 0
               PROVE  \/ "short" \in pkg.via
                      \/ "registry" \in pkg.via /\ (Group[f] = "values"
                             \/ \E g \in Parts \ {f} : pkg.have[g] = pkg.yaml.sums[f])
    BY DEF LoadedWhole
  <2>1. Excused(pkg, f) /\ Intact(pkg)
    BY InHandSound DEF Sound, Genuine
  <2> QED
    BY <2>1 DEF Excused, StandsFor, Intact
<1>3. AsDeclared
  BY InHandSound DEF AsDeclared, Sound, Genuine, AsDeclaredIs
<1>4. TrustedWasSigned
  BY DEF TrustedWasSigned, PackagesInv, ProcessesSound, WorkSound, Trusted
<1>5. SignedVerifies
  BY InHandSound DEF SignedVerifies, Sound, Genuine
<1> QED
  BY <1>1, <1>2, <1>3, <1>4, <1>5, PackagesInvTypes DEF PackagesSound, PackagesInv

\* Whatever builds, signatures, publications, pulls, imports, loads, races and faults a package
\* went through: what is loaded is what a build recorded of what was declared, and lacks only
\* what a registry or a broken-off tarball leaves out; what was verified was signed so; what
\* says that it is signed can be verified; and a tag resolves to what was last published,
\* unless two publishers wrote its index at once.
THEOREM PackagesStaySound == PackagesSpec => []PackagesSound
<1>1. PackagesInit => PackagesInv
  BY InitSound
<1>2. PackagesInv /\ [PackagesNext]_packageVars => PackagesInv'
  BY PackagesStep
<1>3. PackagesInv => PackagesSound
  BY PackagesInvSound
<1> QED
  BY <1>1, <1>2, <1>3, PTL DEF PackagesSpec

--------------------------------------------------------------------------------
(* The mirror.                                                             *)
ProcFields == {"at", "dest", "halves", "target", "item", "part", "tries"}

\* Where an item is to be found is there, or the item has no such place.
Placed(i) == i.kind = "inline" \/ i.ref \in DOMAIN tags
Sent(i, n) == \A k \in 1..(n - 1) : <<i.ref[1], i.parts[k]>> \in blobs
Aimed(d, t) == IF d.config THEN \A i \in Proxied(d) : d.proxies[i].host = t ELSE t = d.arg

ProcInv(m) ==
    LET p == mirror[m] IN
    /\ DOMAIN p = ProcFields /\ p.item \in Nat \ {0} /\ p.part \in Nat \ {0}
    /\ p.at \in {"target", "connect"} => p.item = 1 /\ p.part = 1
    /\ p.at \notin {"target", "failed"} => Aimed(p.dest, p.target)
    /\ p.at = "push" => /\ p.item \in DOMAIN Items(m)
                        /\ \A j \in 1..(p.item - 1) : Placed(Items(m)[j])
                        /\ Sent(Item(m), p.part)
    /\ p.at = "done" => \A j \in DOMAIN Items(m) : Placed(Items(m)[j])

\* What a tag names is there, and is what somebody mirrors under it.
TagInv(r) ==
    /\ \A b \in tags[r].parts : <<r[1], b>> \in blobs
    /\ \/ \E n \in Mirrors : \E img \in Range(Carries[n].images) : r = ImageRef(img) /\ tags[r].of = <<img.host>> \o img.path
       \/ \E n \in Mirrors : \E f \in Files(n) : r = FileRef(f) /\ tags[r].of = <<"file", f.source>>

MirrorInv ==
    /\ DOMAIN mirror = Mirrors
    /\ \A m \in Mirrors : ProcInv(m)
    /\ \A r \in DOMAIN tags : TagInv(r)

LEMMA JoinedRange ==
    ASSUME NEW S, NEW T, NEW s \in Seq(S), NEW t \in Seq(T), NEW u, u = s \o t
    PROVE  \A v : v \in Range(u) <=> v \in Range(s) \/ v \in Range(t)
<1> SUFFICES Range(s \o t) = Range(s) \union Range(t)  OBVIOUS
<1>1. s \o t \in Seq(S \union T)  OBVIOUS
<1>2. Len(s \o t) = Len(s) + Len(t) /\ Len(s) \in Nat /\ Len(t) \in Nat /\ DOMAIN s = 1..Len(s) /\ DOMAIN t = 1..Len(t)  OBVIOUS
<1>3. DOMAIN (s \o t) = 1..(Len(s) + Len(t)) /\ \A i \in 1..(Len(s) + Len(t)) : (s \o t)[i] = IF i <= Len(s) THEN s[i] ELSE t[i - Len(s)]  OBVIOUS
<1>4. Range(s \o t) \subseteq Range(s) \union Range(t)
    <2> SUFFICES ASSUME NEW i \in 1..(Len(s) + Len(t)) PROVE (s \o t)[i] \in Range(s) \union Range(t)  BY <1>3 DEF Range
    <2>1. CASE i <= Len(s)  BY <1>2, <1>3, <2>1 DEF Range
    <2>2. CASE ~ i <= Len(s)
        <3>1. i - Len(s) \in DOMAIN t  BY <1>2, <2>2
        <3>2. QED  BY <1>3, <2>2, <3>1 DEF Range
    <2>3. QED  BY <2>1, <2>2
<1>5. Range(s) \subseteq Range(s \o t)
    <2> SUFFICES ASSUME NEW i \in DOMAIN s PROVE s[i] \in Range(s \o t)  BY DEF Range
    <2>1. i \in 1..(Len(s) + Len(t)) /\ i <= Len(s)  BY <1>2
    <2>2. QED  BY <1>3, <2>1 DEF Range
<1>6. Range(t) \subseteq Range(s \o t)
    <2> SUFFICES ASSUME NEW i \in DOMAIN t PROVE t[i] \in Range(s \o t)  BY DEF Range
    <2>1. i + Len(s) \in 1..(Len(s) + Len(t)) /\ ~ i + Len(s) <= Len(s) /\ (i + Len(s)) - Len(s) = i  BY <1>2
    <2>2. (s \o t)[i + Len(s)] = t[i]  BY <1>3, <2>1
    <2>3. QED  BY <1>3, <2>1, <2>2 DEF Range
<1>7. QED  BY <1>4, <1>5, <1>6

LEMMA JoinedDomain ==
    ASSUME NEW S, NEW T, NEW s \in Seq(S), NEW t \in Seq(T), NEW u, u = s \o t
    PROVE  Len(u) \in Nat /\ DOMAIN u = 1..Len(u) /\ (u = <<>> <=> Len(u) = 0)
OBVIOUS

(* The list of a mirror is the images and the files of its package, of the halves that were asked for. *)
LEMMA ItemFacts ==
    ASSUME NEW m \in Mirrors
    PROVE  /\ Len(Items(m)) \in Nat /\ DOMAIN Items(m) = 1..Len(Items(m)) /\ (Items(m) = <<>> <=> Len(Items(m)) = 0)
           /\ \A i \in DOMAIN Items(m) :
                \/ \E img \in Range(Carries[m].images) : Items(m)[i] = ImageItem(img)
                \/ \E f \in Files(m) : Items(m)[i] = FileItem(f)
           /\ "images" \in mirror[m].halves => \A img \in Range(Carries[m].images) : \E i \in DOMAIN Items(m) : Items(m)[i] = ImageItem(img)
           /\ "files" \in mirror[m].halves => \A f \in Files(m) : \E i \in DOMAIN Items(m) : Items(m)[i] = FileItem(f)
<1> DEFINE images == Carries[m].images
           files == Carries[m].files \o Carries[m].os
           I == {ImageItem(img) : img \in Range(images)}
           F == {FileItem(f) : f \in Files(m)}
           s == IF "images" \in mirror[m].halves THEN [i \in DOMAIN images |-> ImageItem(images[i])] ELSE <<>>
           t == IF "files" \in mirror[m].halves THEN [i \in DOMAIN files |-> FileItem(files[i])] ELSE <<>>
<1>1. images \in Seq(Range(images)) /\ Carries[m].files \in Seq(Range(Carries[m].files)) /\ Carries[m].os \in Seq(Range(Carries[m].os))  BY MirrorAssumption
<1>2. DOMAIN files = 1..Len(files) /\ Len(files) \in Nat /\ Range(files) = Files(m)
    <2> DEFINE x == Carries[m].files  y == Carries[m].os
    <2>1. x \in Seq(Range(x)) /\ y \in Seq(Range(y)) /\ files = x \o y  BY <1>1
    <2> HIDE DEF x, y, files
    <2>2. Range(files) = Range(x) \union Range(y)  BY <2>1, JoinedRange
    <2>3. Len(files) \in Nat  BY <2>1, JoinedDomain
    <2>4. DOMAIN files = 1..Len(files)  BY <2>1, JoinedDomain
    <2>5. QED  BY <2>2, <2>3, <2>4 DEF x, y, Files
<1>3. Items(m) = s \o t  BY DEF Items
<1>4. s \in Seq(I) /\ Range(s) \subseteq I /\ ("images" \in mirror[m].halves => Range(s) = I)
    <2>1. DOMAIN images = 1..Len(images) /\ Len(images) \in Nat  BY <1>1
    <2>2. CASE "images" \in mirror[m].halves
        <3>1. s = [i \in 1..Len(images) |-> ImageItem(images[i])]  BY <2>1, <2>2
        <3>2. \A i \in 1..Len(images) : ImageItem(images[i]) \in I  BY <2>1 DEF Range
        <3> HIDE DEF s
        <3>3. s \in [1..Len(images) -> I]  BY <3>1, <3>2
        <3>4. s \in Seq(I)  BY <2>1, <3>3
        <3>5. I \subseteq Range(s)
            <4> SUFFICES ASSUME NEW img \in Range(images) PROVE ImageItem(img) \in Range(s)  OBVIOUS
            <4>1. PICK i \in DOMAIN images : img = images[i]  BY DEF Range
            <4>2. QED  BY <2>1, <3>1, <4>1 DEF Range
        <3>6. Range(s) \subseteq I  BY <3>3 DEF Range
        <3>7. QED  BY <3>4, <3>5, <3>6
    <2>3. CASE "images" \notin mirror[m].halves  BY <2>3 DEF Range
    <2>4. QED  BY <2>2, <2>3
<1>5. t \in Seq(F) /\ Range(t) \subseteq F /\ ("files" \in mirror[m].halves => Range(t) = F)
    <2>1. CASE "files" \in mirror[m].halves
        <3>1. t = [i \in 1..Len(files) |-> FileItem(files[i])]  BY <1>2, <2>1
        <3> HIDE DEF t, files
        <3>2. \A i \in 1..Len(files) : FileItem(files[i]) \in F  BY <1>2 DEF Range
        <3>3. t \in [1..Len(files) -> F]  BY <3>1, <3>2
        <3>4. t \in Seq(F)  BY <1>2, <3>3
        <3>5. F \subseteq Range(t)
            <4> SUFFICES ASSUME NEW f \in Files(m) PROVE FileItem(f) \in Range(t)  OBVIOUS
            <4>1. PICK i \in DOMAIN files : f = files[i]  BY <1>2 DEF Range
            <4>2. QED  BY <1>2, <3>1, <4>1 DEF Range
        <3>6. Range(t) \subseteq F  BY <3>3 DEF Range
        <3>7. QED  BY <3>4, <3>5, <3>6
    <2>2. CASE "files" \notin mirror[m].halves  BY <2>2 DEF Range
    <2>3. QED  BY <2>1, <2>2
<1> HIDE DEF s, t, I, F
<1>6. Len(Items(m)) \in Nat /\ DOMAIN Items(m) = 1..Len(Items(m)) /\ (Items(m) = <<>> <=> Len(Items(m)) = 0) /\ Range(Items(m)) = Range(s) \union Range(t)
    <2> DEFINE L == Items(m)
    <2>1. s \in Seq(I) /\ t \in Seq(F) /\ L = s \o t  BY <1>3, <1>4, <1>5
    <2> HIDE DEF L
    <2>2. Range(L) = Range(s) \union Range(t)  BY <2>1, JoinedRange
    <2>3. Len(L) \in Nat  BY <2>1, JoinedDomain
    <2>4. DOMAIN L = 1..Len(L)  BY <2>1, JoinedDomain
    <2>5. L = <<>> <=> Len(L) = 0  BY <2>1, JoinedDomain
    <2>6. QED  BY <2>2, <2>3, <2>4, <2>5 DEF L
<1>7. Range(Items(m)) \subseteq I \union F  BY <1>4, <1>5, <1>6
<1>9. \A i \in DOMAIN Items(m) : Items(m)[i] \in I \union F  BY <1>7 DEF Range
<1>10. "images" \in mirror[m].halves => \A img \in Range(images) : \E i \in DOMAIN Items(m) : Items(m)[i] = ImageItem(img)  BY <1>4, <1>6 DEF Range, I
<1>11. "files" \in mirror[m].halves => \A f \in Files(m) : \E i \in DOMAIN Items(m) : Items(m)[i] = FileItem(f)
       <2> SUFFICES ASSUME "files" \in mirror[m].halves, NEW f \in Files(m) PROVE \E i \in DOMAIN Items(m) : Items(m)[i] = FileItem(f)  OBVIOUS
       <2>1. FileItem(f) \in Range(Items(m))  BY <1>5, <1>6 DEF F
       <2>2. QED  BY <2>1 DEF Range
<1>12. QED  BY <1>6, <1>9, <1>10, <1>11 DEF I, F

LEMMA ItemParts ==
    ASSUME NEW m \in Mirrors, NEW i \in DOMAIN Items(m)
    PROVE  Len(Items(m)[i].parts) \in Nat /\ \A b \in Range(Items(m)[i].parts) : \E k \in 1..Len(Items(m)[i].parts) : b = Items(m)[i].parts[k]
<1> DEFINE it == Items(m)[i]
<1>1. CASE \E img \in Range(Carries[m].images) : it = ImageItem(img)
    <2>1. PICK img \in Range(Carries[m].images) : it = ImageItem(img)  BY <1>1
    <2>2. it.parts = img.blobs  BY <2>1 DEF ImageItem
    <2> HIDE DEF it
    <2>3. img.blobs \in Seq(Range(img.blobs))  BY MirrorAssumption
    <2>4. QED  BY <2>2, <2>3 DEF Range, it
<1>2. CASE \E f \in Files(m) : it = FileItem(f)
    <2>1. PICK f \in Files(m) : it = FileItem(f)  BY <1>2
    <2>2. it.parts = <<EmptyConfig, f.content>>  BY <2>1 DEF FileItem
    <2> HIDE DEF it
    <2>3. Len(it.parts) = 2 /\ DOMAIN it.parts = 1..2  BY <2>2
    <2>4. QED  BY <2>3 DEF Range, it
<1> HIDE DEF it
<1>3. QED  BY <1>1, <1>2, ItemFacts DEF it

(* One process goes on; the blobs and the tags that are there stay. *)
LEMMA OneMirror ==
    ASSUME MirrorInv, NEW m \in Mirrors, DOMAIN mirror' = Mirrors, \A n \in Mirrors \ {m} : mirror'[n] = mirror[n],
           ProcInv(m)', blobs \subseteq blobs', DOMAIN tags \subseteq DOMAIN tags', \A r \in DOMAIN tags' : TagInv(r)'
    PROVE  MirrorInv'
<1>1. ASSUME NEW n \in Mirrors  PROVE ProcInv(n)'
    <2>1. CASE n = m  BY <2>1
    <2>2. CASE n # m
        <3>1. mirror'[n] = mirror[n] /\ ProcInv(n)  BY <2>2 DEF MirrorInv
        <3>2. Items(n)' = Items(n)  BY <3>1 DEF Items
        <3>3. Item(n)' = Item(n)  BY <3>1, <3>2 DEF Item
        <3>4. \A i : Placed(i) => Placed(i)'  BY DEF Placed
        <3>5. \A i, k : Sent(i, k) => Sent(i, k)'  BY DEF Sent
        <3>6. QED  BY <3>1, <3>2, <3>3, <3>4, <3>5 DEF ProcInv
    <2>3. QED  BY <2>1, <2>2
<1>2. QED  BY <1>1 DEF MirrorInv

LEMMA TagsStay ==
    ASSUME MirrorInv, blobs \subseteq blobs', tags' = tags
    PROVE  \A r \in DOMAIN tags' : TagInv(r)'
<1> SUFFICES ASSUME NEW r \in DOMAIN tags PROVE TagInv(r)'  OBVIOUS
<1>1. TagInv(r)  BY DEF MirrorInv
<1>2. QED  BY <1>1 DEF TagInv

LEMMA ProcFacts ==
    ASSUME MirrorInv, NEW m \in Mirrors
    PROVE  ProcInv(m) /\ DOMAIN mirror = Mirrors /\ DOMAIN mirror[m] = ProcFields
BY DEF MirrorInv, ProcInv

LEMMA ResolveTargetStep == ASSUME MirrorInv, NEW m \in Mirrors, ResolveTarget(m)  PROVE  MirrorInv'
<1> DEFINE d == mirror[m].dest  t == resolveTarget(d)
<1>1. ProcInv(m) /\ DOMAIN mirror = Mirrors /\ DOMAIN mirror[m] = ProcFields  BY ProcFacts
<1>2. blobs' = blobs /\ tags' = tags /\ mirror[m].at = "target"  BY DEF ResolveTarget
<1>3. mirror[m].item = 1 /\ mirror[m].part = 1  BY <1>1, <1>2 DEF ProcInv
<1>4. CASE t = "error"
    <2>1. mirror' = [mirror EXCEPT ![m].at = "failed"]  BY <1>4 DEF ResolveTarget
    <2>2. DOMAIN mirror' = Mirrors /\ (\A n \in Mirrors \ {m} : mirror'[n] = mirror[n])  BY <1>1, <2>1
    <2>3. DOMAIN mirror'[m] = ProcFields /\ mirror'[m].at = "failed" /\ mirror'[m].item = mirror[m].item /\ mirror'[m].part = mirror[m].part
          BY <1>1, <2>1 DEF ProcFields
    <2>4. ProcInv(m)'  BY <1>3, <2>3 DEF ProcInv
    <2>5. QED  BY <1>2, <2>2, <2>4, OneMirror, TagsStay
<1>5. CASE t # "error"
    <2>1. mirror' = [mirror EXCEPT ![m].at = "connect", ![m].target = t]  BY <1>5 DEF ResolveTarget
    <2>2. DOMAIN mirror' = Mirrors /\ (\A n \in Mirrors \ {m} : mirror'[n] = mirror[n])  BY <1>1, <2>1
    <2>3. DOMAIN mirror'[m] = ProcFields /\ mirror'[m].at = "connect" /\ mirror'[m].item = mirror[m].item /\ mirror'[m].part = mirror[m].part
          /\ mirror'[m].dest = d /\ mirror'[m].target = t
          BY <1>1, <2>1 DEF ProcFields
    <2>4. Aimed(d, t)
        <3>1. CASE d.arg # "none"  BY <1>5, <3>1 DEF resolveTarget, Aimed
        <3>2. CASE d.arg = "none"
            <4>1. d.config /\ (\E i \in Proxied(d) : Proxied(d) = {i}) /\ t = d.proxies[CHOOSE i \in Proxied(d) : TRUE].host
                  BY <1>5, <3>2 DEF resolveTarget
            <4>2. \A i \in Proxied(d) : i = (CHOOSE j \in Proxied(d) : TRUE)  BY <4>1
            <4>3. QED  BY <4>1, <4>2 DEF Aimed
        <3>3. QED  BY <3>1, <3>2
    <2>5. ProcInv(m)'
        <3> HIDE DEF d, t
        <3>1. QED  BY <1>3, <2>3, <2>4 DEF ProcInv
    <2>6. QED  BY <1>2, <2>2, <2>5, OneMirror, TagsStay
<1>6. QED  BY <1>4, <1>5

LEMMA ConnectStep == ASSUME MirrorInv, NEW m \in Mirrors, Connect(m)  PROVE  MirrorInv'
<1>1. ProcInv(m) /\ DOMAIN mirror = Mirrors /\ DOMAIN mirror[m] = ProcFields  BY ProcFacts
<1>2. blobs' = blobs /\ tags' = tags /\ mirror[m].at = "connect"  BY DEF Connect
<1>3. mirror[m].item = 1 /\ mirror[m].part = 1 /\ Aimed(mirror[m].dest, mirror[m].target)  BY <1>1, <1>2 DEF ProcInv
<1>4. PICK ok \in BOOLEAN : mirror' = [mirror EXCEPT ![m].at = IF ~ok THEN "failed" ELSE IF Items(m) = <<>> THEN "done" ELSE "push"]  BY DEF Connect
<1> DEFINE at == IF ~ok THEN "failed" ELSE IF Items(m) = <<>> THEN "done" ELSE "push"
<1>5. at \in {"failed", "done", "push"} /\ (at = "done" => Items(m) = <<>>) /\ (at = "push" => Items(m) # <<>>)  OBVIOUS
<1>6. mirror' = [mirror EXCEPT ![m].at = at]  BY <1>4
<1> HIDE DEF at
<1>7. DOMAIN mirror' = Mirrors /\ (\A n \in Mirrors \ {m} : mirror'[n] = mirror[n])  BY <1>1, <1>6
<1>8. DOMAIN mirror'[m] = ProcFields /\ mirror'[m].at = at /\ mirror'[m].item = 1 /\ mirror'[m].part = 1
      /\ mirror'[m].dest = mirror[m].dest /\ mirror'[m].target = mirror[m].target /\ mirror'[m].halves = mirror[m].halves
      BY <1>1, <1>3, <1>6 DEF ProcFields
<1>9. Items(m)' = Items(m)  BY <1>8 DEF Items
<1>10. Len(Items(m)) \in Nat /\ DOMAIN Items(m) = 1..Len(Items(m)) /\ (Items(m) = <<>> <=> Len(Items(m)) = 0)  BY ItemFacts
<1>11. at = "push" => 1 \in DOMAIN Items(m)  BY <1>5, <1>10
<1>12. at = "done" => DOMAIN Items(m) = {}  BY <1>5, <1>10
<1>13. \A i : Sent(i, 1)'  BY DEF Sent
<1>14. ProcInv(m)'  BY <1>3, <1>5, <1>8, <1>9, <1>11, <1>12, <1>13 DEF ProcInv
<1>15. QED  BY <1>2, <1>7, <1>14, OneMirror, TagsStay

(* The item is placed: the next one, or the end. *)
LEMMA NextProc ==
    ASSUME MirrorInv, NEW m \in Mirrors, mirror[m].at = "push", NextItem(m), DOMAIN tags \subseteq DOMAIN tags',
           NEW done, done = Item(m), Placed(done)'
    PROVE  ProcInv(m)' /\ DOMAIN mirror' = Mirrors /\ (\A n \in Mirrors \ {m} : mirror'[n] = mirror[n])
<1>1. ProcInv(m) /\ DOMAIN mirror = Mirrors /\ DOMAIN mirror[m] = ProcFields  BY ProcFacts
<1>2. mirror[m].item \in DOMAIN Items(m) /\ (\A j \in 1..(mirror[m].item - 1) : Placed(Items(m)[j])) /\ Aimed(mirror[m].dest, mirror[m].target)
      /\ mirror[m].item \in Nat \ {0}
      BY <1>1 DEF ProcInv
<1>3. Len(Items(m)) \in Nat /\ DOMAIN Items(m) = 1..Len(Items(m))  BY ItemFacts
<1> DEFINE at == IF mirror[m].item = Len(Items(m)) THEN "done" ELSE "push"  it == mirror[m].item
<1>4. mirror' = [mirror EXCEPT ![m].part = 1, ![m].tries = 0, ![m].item = @ + 1, ![m].at = at]  BY DEF NextItem
<1>5. at \in {"done", "push"} /\ (at = "done" => it = Len(Items(m))) /\ (at = "push" => it # Len(Items(m)))  OBVIOUS
<1> HIDE DEF at
<1>6. DOMAIN mirror' = Mirrors /\ (\A n \in Mirrors \ {m} : mirror'[n] = mirror[n])  BY <1>1, <1>4
<1>7. DOMAIN mirror'[m] = ProcFields /\ mirror'[m].at = at /\ mirror'[m].item = it + 1 /\ mirror'[m].part = 1
      /\ mirror'[m].dest = mirror[m].dest /\ mirror'[m].target = mirror[m].target /\ mirror'[m].halves = mirror[m].halves
      BY <1>1, <1>4 DEF ProcFields
<1>8. Items(m)' = Items(m)  BY <1>7 DEF Items
<1>9. \A i : Placed(i) => Placed(i)'  BY DEF Placed
<1>10. Item(m) = Items(m)[it]  BY DEF Item
<1>11. ASSUME NEW j \in 1..it  PROVE Placed(Items(m)[j])'
    <2>0. it \in Nat  BY <1>2
    <2>1. CASE j = it
        <3>1. Items(m)'[j] = done  BY <1>8, <1>10, <2>1
        <3>2. QED  BY <3>1
    <2>2. CASE j # it  BY <1>2, <1>8, <1>9, <2>0, <2>2
    <2>3. QED  BY <2>1, <2>2
<1>12. \A i : Sent(i, 1)'  BY DEF Sent
<1>13. at = "push" => it + 1 \in DOMAIN Items(m)  BY <1>2, <1>3, <1>5
<1>14. ProcInv(m)'  BY <1>2, <1>3, <1>5, <1>7, <1>8, <1>11, <1>12, <1>13 DEF ProcInv
<1>15. QED  BY <1>6, <1>14

LEMMA PassOverStep == ASSUME MirrorInv, NEW m \in Mirrors, PassOver(m)  PROVE  MirrorInv'
<1>1. blobs' = blobs /\ tags' = tags /\ mirror[m].at = "push" /\ Item(m).kind = "inline" /\ NextItem(m)  BY DEF PassOver
<1> DEFINE i == Item(m)
<1>2. ASSUME NEW done, done = i  PROVE Placed(done)'  BY <1>1, <1>2 DEF Placed
<1>3. ProcInv(m)' /\ DOMAIN mirror' = Mirrors /\ (\A n \in Mirrors \ {m} : mirror'[n] = mirror[n])
    <2>1. PICK done : done = i  OBVIOUS
    <2>2. Placed(done)'  BY <1>2, <2>1
    <2>3. QED  BY <1>1, <2>1, <2>2, NextProc
<1>4. QED  BY <1>1, <1>3, OneMirror, TagsStay

(* What is pushed last is the manifest: everything it names is there by then. *)
LEMMA TagStep ==
    ASSUME MirrorInv, NEW m \in Mirrors, mirror[m].at = "push", Tagging(m), NextItem(m), blobs' = blobs,
           NEW i, i = Item(m), tags' = [r \in DOMAIN tags \union {i.ref} |-> IF r = i.ref THEN Manifest(i) ELSE tags[r]]
    PROVE  MirrorInv'
<1>1. ProcInv(m)  BY ProcFacts
<1>2. mirror[m].item \in DOMAIN Items(m) /\ Sent(i, mirror[m].part) /\ mirror[m].part \in Nat \ {0} /\ i = Items(m)[mirror[m].item]
      BY <1>1 DEF ProcInv, Item
<1>3. DOMAIN tags' = DOMAIN tags \union {i.ref} /\ tags'[i.ref] = Manifest(i) /\ \A r \in DOMAIN tags \ {i.ref} : tags'[r] = tags[r]  OBVIOUS
<1>4. Placed(i)'  BY <1>3 DEF Placed
<1>5. ProcInv(m)' /\ DOMAIN mirror' = Mirrors /\ (\A n \in Mirrors \ {m} : mirror'[n] = mirror[n])  BY <1>3, <1>4, NextProc
<1>6. \A b \in Range(i.parts) : <<i.ref[1], b>> \in blobs
    <2>1. Len(i.parts) \in Nat /\ \A b \in Range(i.parts) : \E k \in 1..Len(i.parts) : b = i.parts[k]
        <3>1. PICK j \in DOMAIN Items(m) : i = Items(m)[j]  BY <1>2
        <3>2. Len(Items(m)[j].parts) \in Nat  BY ItemParts
        <3>3. \A b \in Range(Items(m)[j].parts) : \E k \in 1..Len(Items(m)[j].parts) : b = Items(m)[j].parts[k]  BY ItemParts
        <3>4. QED  BY <3>1, <3>2, <3>3
    <2>2. \A k \in 1..Len(i.parts) : k \in 1..(mirror[m].part - 1)  BY <1>2, <2>1 DEF Tagging
    <2>3. \A k \in 1..Len(i.parts) : <<i.ref[1], i.parts[k]>> \in blobs  BY <1>2, <2>2 DEF Sent
    <2>4. QED  BY <2>1, <2>3
<1>7. \/ \E img \in Range(Carries[m].images) : i = ImageItem(img)
      \/ \E f \in Files(m) : i = FileItem(f)
      BY <1>2, ItemFacts
<1>8. Manifest(i).parts = Range(i.parts) /\ Manifest(i).of = i.of  BY DEF Manifest
<1>9. ASSUME NEW r \in DOMAIN tags'  PROVE TagInv(r)'
    <2>1. CASE r # i.ref
        <3>1. r \in DOMAIN tags /\ tags'[r] = tags[r]  BY <1>3, <2>1
        <3>2. TagInv(r)  BY <3>1 DEF MirrorInv
        <3>3. QED  BY <3>1, <3>2 DEF TagInv
    <2>2. CASE r = i.ref
        <3>1. tags'[r].parts = Range(i.parts) /\ tags'[r].of = i.of  BY <1>3, <1>8, <2>2
        <3>2. \A b \in tags'[r].parts : <<r[1], b>> \in blobs'  BY <1>6, <2>2, <3>1
        <3>3. CASE \E img \in Range(Carries[m].images) : i = ImageItem(img)
            <4>1. PICK img \in Range(Carries[m].images) : i = ImageItem(img)  BY <3>3
            <4>2. i.ref = ImageRef(img) /\ i.of = <<img.host>> \o img.path  BY <4>1 DEF ImageItem
            <4>3. QED  BY <2>2, <3>1, <3>2, <4>2 DEF TagInv
        <3>4. CASE \E f \in Files(m) : i = FileItem(f)
            <4>1. PICK f \in Files(m) : i = FileItem(f)  BY <3>4
            <4>2. i.ref = FileRef(f) /\ i.of = <<"file", f.source>>  BY <4>1 DEF FileItem
            <4>3. QED  BY <2>2, <3>1, <3>2, <4>2 DEF TagInv
        <3>5. QED  BY <1>7, <3>3, <3>4
    <2>3. QED  BY <2>1, <2>2
<1>10. QED  BY <1>3, <1>5, <1>9, OneMirror

(* One more part of the item, or the same one again. *)
LEMMA SameItem ==
    ASSUME MirrorInv, NEW m \in Mirrors, mirror[m].at = "push", blobs \subseteq blobs', tags' = tags,
           DOMAIN mirror' = Mirrors, \A n \in Mirrors \ {m} : mirror'[n] = mirror[n],
           DOMAIN mirror'[m] = ProcFields, mirror'[m].at = "push", mirror'[m].item = mirror[m].item, mirror'[m].part \in Nat \ {0},
           mirror'[m].dest = mirror[m].dest, mirror'[m].target = mirror[m].target, mirror'[m].halves = mirror[m].halves,
           NEW i, i = Item(m), NEW k, k = mirror'[m].part, Sent(i, k)'
    PROVE  MirrorInv'
<1>1. ProcInv(m)  BY ProcFacts
<1>2. Items(m)' = Items(m)  BY DEF Items
<1>3. Item(m)' = i  BY <1>2 DEF Item
<1>4. \A j : Placed(j) => Placed(j)'  BY DEF Placed
<1>5. Sent(Item(m), mirror[m].part)'  BY <1>3 DEF Sent
<1>6. ProcInv(m)'  BY <1>1, <1>2, <1>4, <1>5 DEF ProcInv
<1>7. QED  BY <1>6, OneMirror, TagsStay

LEMMA PushStep == ASSUME MirrorInv, NEW m \in Mirrors, Push(m)  PROVE  MirrorInv'
<1>1. PICK i : i = Item(m)  OBVIOUS
<1>2. mirror[m].at = "push"  BY DEF Push
<1>3. CASE Tagging(m)
    <2>1. tags' = [r \in DOMAIN tags \union {i.ref} |-> IF r = i.ref THEN Manifest(i) ELSE tags[r]] /\ NextItem(m) /\ blobs' = blobs
          BY <1>1, <1>3 DEF Push
    <2>2. QED  BY <1>1, <1>2, <1>3, <2>1, TagStep
<1>4. CASE ~Tagging(m)
    <2> DEFINE tries == IF i.kind = "file" THEN 0 ELSE mirror[m].tries
    <2>1. blobs' = blobs \union {<<i.ref[1], i.parts[mirror[m].part]>>} /\ tags' = tags
          /\ mirror' = [mirror EXCEPT ![m].part = @ + 1, ![m].tries = tries]
          BY <1>1, <1>4 DEF Push
    <2> HIDE DEF tries
    <2>2. ProcInv(m) /\ DOMAIN mirror = Mirrors /\ DOMAIN mirror[m] = ProcFields  BY ProcFacts
    <2>3. mirror[m].part \in Nat \ {0} /\ Sent(i, mirror[m].part)  BY <1>1, <1>2, <2>2 DEF ProcInv
    <2>4. DOMAIN mirror' = Mirrors /\ (\A n \in Mirrors \ {m} : mirror'[n] = mirror[n])  BY <2>1, <2>2
    <2>5. DOMAIN mirror'[m] = ProcFields /\ mirror'[m].at = "push" /\ mirror'[m].item = mirror[m].item /\ mirror'[m].part = mirror[m].part + 1
          /\ mirror'[m].dest = mirror[m].dest /\ mirror'[m].target = mirror[m].target /\ mirror'[m].halves = mirror[m].halves
          BY <1>2, <2>1, <2>2 DEF ProcFields
    <2>6. ASSUME NEW n, n = mirror[m].part + 1  PROVE Sent(i, n)'
        <3> SUFFICES ASSUME NEW k \in 1..mirror[m].part PROVE <<i.ref[1], i.parts[k]>> \in blobs'  BY <2>3, <2>6 DEF Sent
        <3>1. CASE k = mirror[m].part  BY <2>1, <3>1
        <3>2. CASE k # mirror[m].part  BY <2>1, <2>3, <3>2 DEF Sent
        <3>3. QED  BY <3>1, <3>2
    <2>7. mirror'[m].part \in Nat \ {0}  BY <2>3, <2>5
    <2>8. PICK n : n = mirror[m].part + 1  OBVIOUS
    <2>9. n = mirror'[m].part /\ Sent(i, n)'  BY <2>5, <2>6, <2>8
    <2>10. QED  BY <1>1, <1>2, <2>1, <2>4, <2>5, <2>7, <2>9, SameItem
<1>5. QED  BY <1>3, <1>4

LEMMA MirrorFails ==
    ASSUME MirrorInv, NEW m \in Mirrors, mirror' = [mirror EXCEPT ![m].at = "failed"], blobs' = blobs, tags' = tags
    PROVE  MirrorInv'
<1>1. ProcInv(m) /\ DOMAIN mirror = Mirrors /\ DOMAIN mirror[m] = ProcFields  BY ProcFacts
<1>2. DOMAIN mirror' = Mirrors /\ (\A n \in Mirrors \ {m} : mirror'[n] = mirror[n])  BY <1>1
<1>3. DOMAIN mirror'[m] = ProcFields /\ mirror'[m].at = "failed" /\ mirror'[m].item = mirror[m].item /\ mirror'[m].part = mirror[m].part
      BY <1>1 DEF ProcFields
<1>4. ProcInv(m)'  BY <1>1, <1>3 DEF ProcInv
<1>5. QED  BY <1>2, <1>4, OneMirror, TagsStay

LEMMA PushRefusedStep == ASSUME MirrorInv, NEW m \in Mirrors, PushRefused(m)  PROVE  MirrorInv'
<1>1. PICK i : i = Item(m)  OBVIOUS
<1>2. mirror[m].at = "push" /\ blobs' = blobs /\ tags' = tags  BY DEF PushRefused
<1>3. CASE mirror' = [mirror EXCEPT ![m].at = "failed"]  BY <1>2, <1>3, MirrorFails
<1> DEFINE part == IF i.kind = "file" THEN mirror[m].part ELSE 1
<1>4. CASE mirror' = [mirror EXCEPT ![m].tries = @ + 1, ![m].part = part]
    <2>1. part = mirror[m].part \/ part = 1  OBVIOUS
    <2> HIDE DEF part
    <2>2. ProcInv(m) /\ DOMAIN mirror = Mirrors /\ DOMAIN mirror[m] = ProcFields  BY ProcFacts
    <2>3. mirror[m].part \in Nat \ {0} /\ Sent(i, mirror[m].part)  BY <1>1, <1>2, <2>2 DEF ProcInv
    <2>4. DOMAIN mirror' = Mirrors /\ (\A n \in Mirrors \ {m} : mirror'[n] = mirror[n])  BY <1>4, <2>2
    <2>5. DOMAIN mirror'[m] = ProcFields /\ mirror'[m].at = "push" /\ mirror'[m].item = mirror[m].item /\ mirror'[m].part = part
          /\ mirror'[m].dest = mirror[m].dest /\ mirror'[m].target = mirror[m].target /\ mirror'[m].halves = mirror[m].halves
          BY <1>2, <1>4, <2>2 DEF ProcFields
    <2>6. PICK n : n = part  OBVIOUS
    <2>7. Sent(i, n)'  BY <1>2, <2>1, <2>3, <2>6 DEF Sent
    <2>8. mirror'[m].part \in Nat \ {0} /\ n = mirror'[m].part  BY <2>1, <2>3, <2>5, <2>6
    <2>9. QED  BY <1>1, <1>2, <2>4, <2>5, <2>7, <2>8, SameItem
<1>5. QED  BY <1>1, <1>3, <1>4 DEF PushRefused

LEMMA MirrorInitially == MirrorInit => MirrorInv
<1> SUFFICES ASSUME MirrorInit PROVE MirrorInv  OBVIOUS
<1>1. PICK d \in Destinations, flags \in {{}, {"images"}, {"files"}} :
        mirror = [m \in Mirrors |-> [at |-> "target", dest |-> d, halves |-> Selected(flags),
                                     target |-> "none", item |-> 1, part |-> 1, tries |-> 0]]
      BY DEF MirrorInit
<1>2. ASSUME NEW m \in Mirrors  PROVE ProcInv(m)
    <2> DEFINE p == [at |-> "target", dest |-> d, halves |-> Selected(flags), target |-> "none", item |-> 1, part |-> 1, tries |-> 0]
    <2>1. mirror[m] = p  BY <1>1
    <2>2. DOMAIN p = ProcFields /\ p.at = "target" /\ p.item = 1 /\ p.part = 1  BY DEF ProcFields
    <2> HIDE DEF p
    <2>3. QED  BY <2>1, <2>2 DEF ProcInv
<1>3. DOMAIN tags = {}  BY DEF MirrorInit
<1>4. DOMAIN mirror = Mirrors  BY <1>1
<1>5. QED  BY <1>2, <1>3, <1>4 DEF MirrorInv

LEMMA MirrorAlways == MirrorInv /\ [MirrorNext]_mirrorVars => MirrorInv'
<1> SUFFICES ASSUME MirrorInv, [MirrorNext]_mirrorVars PROVE MirrorInv'  OBVIOUS
<1>1. CASE UNCHANGED mirrorVars
    <2>1. mirror' = mirror /\ blobs' = blobs /\ tags' = tags  BY <1>1 DEF mirrorVars
    <2>2. \A m \in Mirrors : ProcInv(m)' <=> ProcInv(m)  BY <2>1 DEF ProcInv, Items, Item, Placed, Sent
    <2>3. \A r \in DOMAIN tags' : TagInv(r)'  BY <2>1, TagsStay
    <2>4. QED  BY <2>1, <2>2, <2>3 DEF MirrorInv
<1>2. ASSUME NEW m \in Mirrors, MirrorStep(m) \/ MirrorKilled(m)  PROVE MirrorInv'
    <2>1. CASE MirrorKilled(m)  BY <2>1, MirrorFails DEF MirrorKilled
    <2>2. QED  BY <1>2, <2>1, ResolveTargetStep, ConnectStep, PassOverStep, PushStep, PushRefusedStep DEF MirrorStep
<1>3. QED  BY <1>1, <1>2 DEF MirrorNext

(* A file's reference is no image's. *)
LEMMA RefsApart ==
    ASSUME NEW m \in Mirrors, NEW n \in Mirrors, NEW img \in Range(Carries[m].images), NEW f \in Files(n)
    PROVE  ImageRef(img) # FileRef(f)
BY MirrorAssumption DEF ImageRef, FileRef

LEMMA TagsFromInv == MirrorInv => TagsPullable
<1> SUFFICES ASSUME MirrorInv, NEW r \in DOMAIN tags
             PROVE  /\ \A b \in tags[r].parts : <<r[1], b>> \in blobs
                    /\ \A m \in Mirrors : \A f \in Files(m) : (f.source # NoSource /\ r = FileRef(f)) => tags[r].of = <<"file", f.source>>
    BY DEF TagsPullable
<1>1. TagInv(r)  BY DEF MirrorInv
<1>2. ASSUME NEW m \in Mirrors, NEW f \in Files(m), r = FileRef(f)  PROVE tags[r].of = <<"file", f.source>>
    <2>1. PICK n \in Mirrors : \E g \in Files(n) : r = FileRef(g) /\ tags[r].of = <<"file", g.source>>  BY <1>1, <1>2, RefsApart DEF TagInv
    <2>2. PICK g \in Files(n) : r = FileRef(g) /\ tags[r].of = <<"file", g.source>>  BY <2>1
    <2>3. g.source = f.source  BY <1>2, <2>2 DEF FileRef
    <2>4. QED  BY <2>2, <2>3
<1>3. QED  BY <1>1, <1>2 DEF TagInv

LEMMA CompleteFromInv == MirrorInv => MirrorComplete
<1> SUFFICES ASSUME MirrorInv, NEW m \in Mirrors, mirror[m].at = "done"
             PROVE  /\ \A img \in Range(Carries[m].images) : "images" \in mirror[m].halves =>
                        LET r == ImageRef(img) IN
                        /\ r \in DOMAIN tags
                        /\ tags[r].of # <<img.host>> \o img.path =>
                            \E n \in Mirrors : \E x \in Range(Carries[n].images) :
                                x.host # img.host /\ x.path = img.path /\ tags[r].of = <<x.host>> \o x.path
                    /\ \A f \in Files(m) : ("files" \in mirror[m].halves /\ f.source # NoSource) =>
                        \E r \in DOMAIN tags : tags[r].of = <<"file", f.source>>
                    /\ LET d == mirror[m].dest IN
                        IF d.config THEN \A i \in Proxied(d) : d.proxies[i].host = mirror[m].target ELSE mirror[m].target = d.arg
    BY DEF MirrorComplete
<1>1. ProcInv(m)  BY ProcFacts
<1>2. Aimed(mirror[m].dest, mirror[m].target) /\ \A j \in DOMAIN Items(m) : Placed(Items(m)[j])  BY <1>1 DEF ProcInv
<1>3. ASSUME NEW img \in Range(Carries[m].images), "images" \in mirror[m].halves
      PROVE  /\ ImageRef(img) \in DOMAIN tags
             /\ tags[ImageRef(img)].of # <<img.host>> \o img.path =>
                    \E n \in Mirrors : \E x \in Range(Carries[n].images) :
                        x.host # img.host /\ x.path = img.path /\ tags[ImageRef(img)].of = <<x.host>> \o x.path
    <2> DEFINE r == ImageRef(img)
    <2>1. PICK j \in DOMAIN Items(m) : Items(m)[j] = ImageItem(img)  BY <1>3, ItemFacts
    <2>2. Placed(ImageItem(img))  BY <1>2, <2>1
    <2>3. ImageItem(img).kind = "image" /\ ImageItem(img).ref = r  BY DEF ImageItem
    <2>4. r \in DOMAIN tags  BY <2>2, <2>3 DEF Placed
    <2>5. TagInv(r)  BY <2>4 DEF MirrorInv
    <2>6. PICK n \in Mirrors : \E x \in Range(Carries[n].images) : r = ImageRef(x) /\ tags[r].of = <<x.host>> \o x.path
          BY <2>5, RefsApart DEF TagInv
    <2>7. PICK x \in Range(Carries[n].images) : r = ImageRef(x) /\ tags[r].of = <<x.host>> \o x.path  BY <2>6
    <2>8. x.path = img.path  BY <2>7 DEF ImageRef
    <2>9. x.host = img.host => tags[r].of = <<img.host>> \o img.path  BY <2>7, <2>8
    <2>10. QED  BY <2>4, <2>7, <2>8, <2>9
<1>4. ASSUME NEW f \in Files(m), "files" \in mirror[m].halves, f.source # NoSource
      PROVE  \E r \in DOMAIN tags : tags[r].of = <<"file", f.source>>
    <2>1. PICK j \in DOMAIN Items(m) : Items(m)[j] = FileItem(f)  BY <1>4, ItemFacts
    <2>2. Placed(FileItem(f))  BY <1>2, <2>1
    <2>3. FileItem(f).kind = "file" /\ FileItem(f).ref = FileRef(f)  BY <1>4 DEF FileItem
    <2>4. FileRef(f) \in DOMAIN tags  BY <2>2, <2>3 DEF Placed
    <2>5. tags[FileRef(f)].of = <<"file", f.source>>  BY <1>4, <2>4, TagsFromInv DEF TagsPullable
    <2>6. QED  BY <2>4, <2>5
<1>5. QED  BY <1>2, <1>3, <1>4 DEF Aimed

(* Whatever registry pushes fail and whichever processes are killed, what a tag of the mirror names  *)
(* is there, a file's tag holds that file, and a mirror that ended well placed all it was asked to   *)
(* where a node looks for it, in the registry that was meant (mirror.go, package_mirror.go).         *)
THEOREM MirrorStaysSound == MirrorSpec => []MirrorSound
<1>1. MirrorInit => MirrorInv  BY MirrorInitially
<1>2. MirrorInv /\ [MirrorNext]_mirrorVars => MirrorInv'  BY MirrorAlways
<1>3. MirrorInv => MirrorSound  BY TagsFromInv, CompleteFromInv DEF MirrorSound
<1>4. QED  BY <1>1, <1>2, <1>3, PTL DEF MirrorSpec
================================================================================
