--------------------------- MODULE Library_proofs ---------------------------
(* Theorems about Library, for every value of its constants.               *)
EXTENDS Library, SequenceTheorems, TLAPS

-----------------------------------------------------------------------------
(* The invariants.                                                         *)

Orphans == UNION {[S -> {None, Remote}] : S \in SUBSET Media}
Deleting == [at : {"idle", "row", "file"}, media : Media \cup {None},
             poster : File \cup {None, Remote}]
Drawing == [at : {"idle", "draw", "save", "remove", "release"}, media : Media \cup {None},
            file : Thumb \cup {None}]
Fetching == [at : {"idle", "fetch", "save"}, media : Media \cup {None},
             file : Poster \cup {None}]
Export == [at : {"idle", "marks", "media", "files"}, posters : BOOLEAN, archive : Archive]
Restore == [at : Restoring \cup {"idle", "failed"}, archive : Archive, left : Seq(Dir),
            done : SUBSET Dir, oldDirs : SUBSET Dir, old : SUBSET File, orphans : Orphans]

\* The rows and the files.
RowsInv == /\ media \in Table
           /\ marks \subseteq DOMAIN media
DiskInv == /\ dirs \subseteq Dir
           /\ files \subseteq InAny(dirs)
\* What a request or a worker has in hand, and the two queues.
HandsInv == /\ resolved \in Poster \cup {None}
            /\ deleting \in Deleting
            /\ drawing \in Drawing /\ (drawing.at = "idle" <=> drawing.media = None)
            /\ fetching \in Fetching
QueuesInv == /\ thumbs \in Seq(Media) /\ Len(thumbs) \leq QueueSize
             /\ posters \in Seq(Media) /\ Len(posters) \leq QueueSize
\* A restore that switches directories has one left to switch.
ToSwitch(s) == /\ s.at = "stage" => s.archive.files # {}
               /\ s.at \in {"aside", "promote"} => s.left # <<>>
BackupInv == /\ export \in Export
             /\ archives \subseteq Archive
             /\ restore \in [Request -> Restore]
             /\ \A r \in Request : ToSwitch(restore[r])
             /\ tainted \in BOOLEAN

TypeInv == RowsInv /\ DiskInv /\ HandsInv /\ QueuesInv /\ BackupInv

\* No two rows of a table name the same file.
Distinct(t) == \A m, n \in DOMAIN t : t[m].poster \in File /\ t[m].poster = t[n].poster => m = n
DistinctInv == Distinct(media) /\ Distinct(export.archive.media)
               /\ \A a \in archives : Distinct(a.media)

\* Files that were written for a row that does not name them yet.
Holds(f) == \/ resolved = f
            \/ drawing.at \in {"save", "remove"} /\ drawing.file = f
            \/ fetching.at = "save" /\ fetching.file = f
Named(f) == \E m \in DOMAIN media : media[m].poster = f
Ready == \A f \in File : Holds(f) => f \in files /\ ~Named(f)
HeldInv == /\ Ready
           /\ resolved # None /\ fetching.at = "save" => resolved # fetching.file

\* The file a deletion will remove is named by no other row, later by none.
DeleteInv == deleting.at # "idle" /\ deleting.poster \in File =>
             /\ ~Holds(deleting.poster)
             /\ \A m \in DOMAIN media : media[m].poster = deleting.poster
                    => deleting.at = "row" /\ m = deleting.media

\* The catalogue rests while a restore runs.
RestInv == InProgress # {} => Still

\* A restore that will still look at the row of m, or has found its file missing.
Mends(r, m) == \/ restore[r].at \in Restoring \ {"fix"}
               \/ restore[r].at = "fix" /\ m \in DOMAIN restore[r].orphans
MendedInv == tainted \/ \A m \in DOMAIN media : Missing(m) => \E r \in Request : Mends(r, m)

PosterInv == DistinctInv /\ HeldInv /\ DeleteInv /\ RestInv /\ MendedInv

-----------------------------------------------------------------------------
(* Sequences and tables.                                                   *)

\* A waiting medium that was not there joins a queue without repetitions.
LEMMA Joined ==
    ASSUME NEW s \in Seq(Media), NEW m \in Media, IsInjective(s), m \notin ToSet(s)
    PROVE  /\ IsInjective(Append(s, m))
           /\ ToSet(Append(s, m)) = ToSet(s) \cup {m}
<1>1. /\ Append(s, m) \in Seq(Media)
      /\ Len(Append(s, m)) = Len(s) + 1
      /\ DOMAIN s = 1..Len(s) /\ DOMAIN Append(s, m) = 1..(Len(s) + 1)
      /\ Len(s) \in Nat
      /\ \A i \in 1..Len(s) : Append(s, m)[i] = s[i]
      /\ Append(s, m)[Len(s) + 1] = m
  BY AppendProperties, LenProperties
<1>2. \A i \in 1..(Len(s) + 1) : i \in 1..Len(s) \/ i = Len(s) + 1
  BY <1>1
<1>3. \A i \in 1..Len(s) : s[i] # m
  BY <1>1 DEF ToSet
<1>4. IsInjective(Append(s, m))
  BY <1>1, <1>2, <1>3 DEF IsInjective
<1>5. ToSet(Append(s, m)) = ToSet(s) \cup {m}
  <2>1. ToSet(Append(s, m)) \subseteq ToSet(s) \cup {m}
    BY <1>1, <1>2 DEF ToSet
  <2>2. Len(s) + 1 \in 1..(Len(s) + 1) /\ \A i \in 1..Len(s) : i \in 1..(Len(s) + 1)
    BY <1>1
  <2>3. ToSet(s) \cup {m} \subseteq ToSet(Append(s, m))
    BY <1>1, <2>2 DEF ToSet
  <2>4. QED BY <2>1, <2>3
<1>6. QED BY <1>4, <1>5

\* The first leaves a queue without repetitions.
LEMMA Left ==
    ASSUME NEW s \in Seq(Media), s # <<>>, IsInjective(s)
    PROVE  /\ IsInjective(Tail(s))
           /\ Head(s) \notin ToSet(Tail(s))
           /\ ToSet(s) = ToSet(Tail(s)) \cup {Head(s)}
<1>1. /\ Tail(s) \in Seq(Media) /\ Len(s) \in Nat \ {0}
      /\ DOMAIN s = 1..Len(s) /\ DOMAIN Tail(s) = 1..(Len(s) - 1)
      /\ \A i \in 1..(Len(s) - 1) : Tail(s)[i] = s[i + 1]
      /\ Head(s) = s[1]
  BY HeadTailProperties, LenProperties, EmptySeq
<1>2. \A i \in 1..(Len(s) - 1) : i + 1 \in 1..Len(s) /\ i + 1 # 1
  BY <1>1
<1>3. /\ 1 \in 1..Len(s)
      /\ \A i \in 1..Len(s) : i = 1 \/ (i - 1 \in 1..(Len(s) - 1) /\ (i - 1) + 1 = i)
  BY <1>1
<1>4. \A i, j \in 1..(Len(s) - 1) : i + 1 = j + 1 => i = j
  BY <1>1
<1>5. IsInjective(Tail(s))
  BY <1>1, <1>2, <1>4 DEF IsInjective
<1>6. Head(s) \notin ToSet(Tail(s))
  BY <1>1, <1>2, <1>3 DEF IsInjective, ToSet
<1>7. ToSet(s) \subseteq ToSet(Tail(s)) \cup {Head(s)}
  <2>1. \A i \in 1..(Len(s) - 1) : s[i + 1] \in ToSet(Tail(s))
    BY <1>1 DEF ToSet
  <2>2. \A e \in ToSet(s) : \E i \in 1..Len(s) : e = s[i]
    BY <1>1 DEF ToSet
  <2>3. ASSUME NEW i \in 1..Len(s), i # 1 PROVE s[i] \in ToSet(Tail(s))
    <3>1. i - 1 \in 1..(Len(s) - 1) /\ (i - 1) + 1 = i
      BY <1>3, <2>3
    <3>2. s[(i - 1) + 1] \in ToSet(Tail(s))
      BY <2>1, <3>1
    <3>3. QED BY <3>1, <3>2
  <2>4. QED BY <1>1, <2>2, <2>3
<1>8. ToSet(Tail(s)) \cup {Head(s)} \subseteq ToSet(s)
  <2>1. \A i \in 1..Len(s) : s[i] \in ToSet(s)
    BY <1>1 DEF ToSet
  <2>2. \A e \in ToSet(Tail(s)) : \E i \in 1..(Len(s) - 1) : e = s[i + 1]
    BY <1>1 DEF ToSet
  <2>3. QED BY <1>1, <1>2, <1>3, <2>1, <2>2
<1>9. QED BY <1>5, <1>6, <1>7, <1>8

\* The head of a queue is a medium, and its tail is a shorter queue.
LEMMA Shorter ==
    ASSUME NEW S, NEW s \in Seq(S), s # <<>>
    PROVE  Head(s) \in S /\ Tail(s) \in Seq(S) /\ Len(Tail(s)) \leq Len(s)
BY HeadTailProperties, LenProperties

\* What a table is.
LEMMA Tables ==
    /\ \A t \in Table : DOMAIN t \subseteq Media /\ t \in [DOMAIN t -> Row]
    /\ \A S \in SUBSET Media : [S -> Row] \subseteq Table
BY DEF Table

\* The poster and the origin of a row of a table.
LEMMA Columns ==
    ASSUME NEW t \in Table, NEW m \in DOMAIN t
    PROVE  /\ m \in Media /\ t[m] \in Row
           /\ t[m].poster \in File \cup {None, Remote} /\ t[m].orig \in {None, Remote}
BY Tables DEF Row

\* Rows that are added, changed or deleted leave a table.
LEMMA NoRowsTable == NoRows \in Table
BY DEF NoRows, Table

LEMMA AddedRow ==
    ASSUME NEW t \in Table, NEW m \in Media, NEW row \in Row
    PROVE  [x \in DOMAIN t \cup {m} |-> IF x = m THEN row ELSE t[x]] \in Table
<1>1. DOMAIN t \subseteq Media /\ t \in [DOMAIN t -> Row] /\ \A x \in DOMAIN t : t[x] \in Row
  BY Tables
<1>2. [x \in DOMAIN t \cup {m} |-> IF x = m THEN row ELSE t[x]] \in [DOMAIN t \cup {m} -> Row]
  BY <1>1
<1>3. QED BY <1>1, <1>2, Tables

LEMMA ChangedRow ==
    ASSUME NEW t \in Table, NEW m, NEW row \in Row
    PROVE  [t EXCEPT ![m] = row] \in Table
BY Tables

LEMMA ChangedPoster ==
    ASSUME NEW t \in Table, NEW m, NEW p \in File \cup {None, Remote}
    PROVE  [t EXCEPT ![m].poster = p] \in Table
<1>1. DOMAIN t \subseteq Media /\ t \in [DOMAIN t -> Row] /\ \A x \in DOMAIN t : t[x] \in Row
  BY Tables
<1>2. \A row \in Row : [row EXCEPT !.poster = p] \in Row
  BY DEF Row
<1>3. [t EXCEPT ![m].poster = p] \in [DOMAIN t -> Row]
  BY <1>1, <1>2
<1>4. QED BY <1>1, <1>3, Tables

LEMMA DeletedRow ==
    ASSUME NEW t \in Table, NEW m
    PROVE  Restrict(t, DOMAIN t \ {m}) \in Table
<1>1. DOMAIN t \subseteq Media /\ t \in [DOMAIN t -> Row] /\ \A x \in DOMAIN t : t[x] \in Row
  BY Tables
<1>2. Restrict(t, DOMAIN t \ {m}) \in [DOMAIN t \ {m} -> Row]
  BY <1>1 DEF Restrict
<1>3. DOMAIN t \ {m} \subseteq Media
  BY <1>1
<1>4. QED BY <1>2, <1>3, Tables

-----------------------------------------------------------------------------
(* Type correctness.                                                       *)

Rebuild(r) == \/ \E a \in archives : ReplaceTables(r, a)
              \/ Stage(r) \/ StageFails(r)
              \/ SetAside(r) \/ SetAsideFails(r) \/ Promote(r) \/ PromoteFails(r)
              \/ FindOrphans(r) \/ FixOrphans(r)

\* The steps that write rows of the catalogue.
LEMMA RowsFrame ==
    ASSUME Next
    PROVE  \/ UNCHANGED rows
           \/ \E m \in Media : \/ \E row \in Row : Create(m, row)
                               \/ \E p \in Poster \cup {Remote} : Update(m, p)
                               \/ Execute(m) \/ Mark(m)
           \/ DeleteRow \/ SaveThumb \/ SavePoster
           \/ \E r \in Request : FixOrphans(r) \/ \E a \in archives : ReplaceTables(r, a)
<1>1. CASE Edit
  BY <1>1 DEF Edit, Resolve, Delete, DeleteFile, rows
<1>2. CASE Queues
  BY <1>2 DEF Queues, Redraw, Migrate, TakeThumb, Draw, DrawFails, RemoveThumb, Release,
              TakePoster, Fetch, FetchFails, rows
<1>3. CASE Backup
  BY <1>3 DEF Backup, BeginExport, ReadRest, Pack, Stage, StageFails, SetAside, SetAsideFails,
              Promote, PromoteFails, RollBack, FindOrphans, rows
<1>4. CASE Kill
  BY <1>4 DEF Kill, rows
<1>5. QED BY <1>1, <1>2, <1>3, <1>4 DEF Next

LEMMA RowsStep == ASSUME TypeInv, Next PROVE RowsInv'
<1> USE DEF TypeInv, RowsInv
<1>1. CASE UNCHANGED rows
  BY <1>1 DEF rows
<1>2. ASSUME NEW m \in Media, NEW row \in Row, Create(m, row) PROVE RowsInv'
  <2>1. media' = [x \in DOMAIN media \cup {m} |-> IF x = m THEN row ELSE media[x]]
        /\ marks' = marks
    BY <1>2 DEF Create
  <2>2. media' \in Table
    BY <2>1, AddedRow
  <2>3. QED BY <2>1, <2>2
<1>3. ASSUME NEW m \in Media, NEW p \in Poster \cup {Remote}, Update(m, p) PROVE RowsInv'
  <2> DEFINE row == [poster |-> p, orig |-> Remote]
  <2>1. /\ media' = [media EXCEPT ![m] = row] \/ media' = media
        /\ marks' = marks
    BY <1>3 DEF Update
  <2>2. row \in Row
    BY DEF Row, File
  <2> HIDE DEF row
  <2>3. media' \in Table
    BY <2>1, <2>2, ChangedRow
  <2>4. DOMAIN media' = DOMAIN media
    BY <2>1
  <2>5. QED BY <2>1, <2>3, <2>4
<1>4. ASSUME NEW m \in Media, Execute(m) PROVE RowsInv'
  <2>1. PICK row \in [poster : {None}, orig : {None, Remote}]
                \cup [poster : {Remote}, orig : {Remote}] :
            media' = [x \in DOMAIN media \cup {m} |-> IF x = m THEN row ELSE media[x]]
    BY <1>4 DEF Execute
  <2>2. row \in Row
    BY DEF Row
  <2>3. media' \in Table
    BY <2>1, <2>2, AddedRow
  <2>4. marks' = marks
    BY <1>4 DEF Execute
  <2>5. QED BY <2>1, <2>3, <2>4
<1>5. ASSUME NEW m \in Media, Mark(m) PROVE RowsInv'
  BY <1>5 DEF Mark
<1>6. CASE DeleteRow
  <2>1. media' \in Table
    BY <1>6, DeletedRow DEF DeleteRow
  <2>2. DOMAIN media' = DOMAIN media \ {deleting.media} /\ marks' = marks \ {deleting.media}
    BY <1>6 DEF DeleteRow, Restrict
  <2>3. QED BY <2>1, <2>2
<1>7. CASE SaveThumb
  <2> DEFINE m == drawing.media
             f == drawing.file
  <2>1. f \in File \cup {None, Remote}
    BY DEF HandsInv, Drawing, File
  <2>2. media' = [media EXCEPT ![m].poster = f] \/ media' = media
    BY <1>7 DEF SaveThumb
  <2> HIDE DEF m, f
  <2>3. media' \in Table
    <3>1. [media EXCEPT ![m].poster = f] \in Table
      BY <2>1, ChangedPoster
    <3>2. QED BY <2>2, <3>1
  <2>4. DOMAIN media' = DOMAIN media /\ marks' = marks
    BY <1>7, <2>2 DEF SaveThumb
  <2>5. QED BY <2>3, <2>4
<1>8. CASE SavePoster
  <2> DEFINE m == fetching.media
             row == [poster |-> fetching.file, orig |-> Remote]
  <2>1. row \in Row
    BY DEF HandsInv, Fetching, Row, File
  <2>2. media' = [media EXCEPT ![m] = row] \/ media' = media
    BY <1>8 DEF SavePoster
  <2> HIDE DEF m, row
  <2>3. media' \in Table
    <3>1. [media EXCEPT ![m] = row] \in Table
      BY <2>1, ChangedRow
    <3>2. QED BY <2>2, <3>1
  <2>4. DOMAIN media' = DOMAIN media /\ marks' = marks
    BY <1>8, <2>2 DEF SavePoster
  <2>5. QED BY <2>3, <2>4
<1>9. ASSUME NEW r \in Request, FixOrphans(r) PROVE RowsInv'
  <2> DEFINE orphans == restore[r].orphans
  <2>1. media' = [m \in DOMAIN media |-> IF m \in DOMAIN orphans
                       THEN [media[m] EXCEPT !.poster = orphans[m]] ELSE media[m]]
        /\ marks' = marks
    BY <1>9 DEF FixOrphans
  <2>2. \A m \in DOMAIN orphans : orphans[m] \in {None, Remote}
    BY DEF BackupInv, Restore, Orphans
  <2> HIDE DEF orphans
  <2>3. ASSUME NEW m \in DOMAIN media PROVE media'[m] \in Row
    <3>1. media[m] \in Row
      BY Columns
    <3>2. \A p \in {None, Remote} : [media[m] EXCEPT !.poster = p] \in Row
      BY <3>1 DEF Row
    <3>3. QED BY <2>1, <2>2, <3>1, <3>2
  <2>4. media' \in [DOMAIN media -> Row]
    BY <2>1, <2>3
  <2>5. QED BY <2>1, <2>4, Tables
<1>10. ASSUME NEW r \in Request, NEW a \in archives, ReplaceTables(r, a) PROVE RowsInv'
  <2>1. a.media \in Table
    BY DEF BackupInv, Archive
  <2>2. QED BY <1>10, <2>1 DEF ReplaceTables, Consistent, rows
<1>11. QED
  BY <1>1, <1>2, <1>3, <1>4, <1>5, <1>6, <1>7, <1>8, <1>9, <1>10, RowsFrame

\* A file of one of the two directories, and the directories in their order.
LEMMA Directories ==
    /\ Dir = {"posters", "thumbnails"}
    /\ Dirs[1] = "posters" /\ Dirs[2] = "thumbnails"
    /\ In("posters") = Poster /\ In("thumbnails") = Thumb
    /\ \A d \in Dir : In(d) \subseteq File
    /\ \A d, e \in Dir : d # e => In(d) \cap In(e) = {}
    /\ InAny(Dir) = File
<1>1. DOMAIN Dirs = 1..2 /\ Dirs[1] = "posters" /\ Dirs[2] = "thumbnails"
  BY DEF Dirs
<1>2. 1..2 = {1, 2}
  OBVIOUS
<1>3. Dir = {"posters", "thumbnails"}
  BY <1>1, <1>2 DEF Dir, ToSet
<1>4. In("posters") = Poster /\ In("thumbnails") = Thumb
  BY DEF In
<1>5. InAny(Dir) = File
  BY <1>3, <1>4 DEF InAny, File
<1>6. \A d, e \in Dir : d # e => In(d) \cap In(e) = {}
  BY <1>3, <1>4, LibraryAssumption
<1>7. \A d \in Dir : In(d) \subseteq File
  BY <1>3, <1>4 DEF File
<1>8. QED BY <1>1, <1>3, <1>4, <1>5, <1>6, <1>7

\* The files of some directories.
LEMMA InSome == \A ds, f : f \in InAny(ds) <=> \E d \in ds : f \in In(d)
BY DEF InAny

\* What is below uploads/ is a poster or a thumbnail.
LEMMA FilesTyped == ASSUME TypeInv PROVE files \subseteq File
<1>1. SUFFICES ASSUME NEW f \in files PROVE f \in File
  OBVIOUS
<1>2. PICK d \in dirs : f \in In(d)
  BY InSome DEF TypeInv, DiskInv
<1>3. d \in Dir
  BY DEF TypeInv, DiskInv
<1>4. QED BY <1>2, <1>3, Directories

\* The steps that write or remove files.
LEMMA DiskFrame ==
    ASSUME Next
    PROVE  \/ UNCHANGED disk
           \/ \E f \in Poster : Resolve(f) \/ Fetch(f)
           \/ \E f \in Thumb : Draw(f)
           \/ DeleteFile \/ RemoveThumb
           \/ \E r \in Request : SetAside(r) \/ SetAsideFails(r) \/ Promote(r) \/ PromoteFails(r)
<1>1. CASE Edit
  BY <1>1 DEF Edit, Create, Execute, Update, Mark, Delete, DeleteRow, disk
<1>2. CASE Queues
  BY <1>2 DEF Queues, Redraw, Migrate, TakeThumb, DrawFails, SaveThumb, Release,
              TakePoster, FetchFails, SavePoster, disk
<1>3. CASE Backup
  BY <1>3 DEF Backup, BeginExport, ReadRest, Pack, ReplaceTables, Stage, StageFails,
              FindOrphans, FixOrphans, disk
<1>4. CASE Kill
  BY <1>4 DEF Kill, disk
<1>5. QED BY <1>1, <1>2, <1>3, <1>4 DEF Next

\* What RollBack does to the disk leaves every file in a directory that is there.
LEMMA RollBackDisk ==
    ASSUME TypeInv, NEW r \in Request, NEW ds \in SUBSET Dir, RollBack(r, ds)
    PROVE  DiskInv'
<1>1. dirs \subseteq Dir /\ files \subseteq InAny(dirs) /\ restore[r].done \subseteq Dir
  BY DEF TypeInv, DiskInv, BackupInv, Restore
<1>2. Back(r, ds) \subseteq Dir
  BY <1>1 DEF Back
<1>3. /\ dirs' = dirs \cup Back(r, ds)
      /\ files' = files \cup (restore[r].old \cap InAny(Back(r, ds)))
  BY DEF RollBack
<1>4. files' \subseteq InAny(dirs')
  BY <1>1, <1>3, InSome
<1>5. QED BY <1>1, <1>2, <1>3, <1>4 DEF DiskInv

\* The first directory a restore has left to switch.
LEMMA ToSwitchFirst ==
    ASSUME TypeInv, NEW r \in Request, restore[r].at \in {"aside", "promote"}
    PROVE  Head(restore[r].left) \in Dir /\ Tail(restore[r].left) \in Seq(Dir)
<1>1. restore[r].left \in Seq(Dir) /\ restore[r].left # <<>>
  BY DEF TypeInv, BackupInv, Restore, ToSwitch
<1>2. QED BY <1>1, Shorter

LEMMA DiskStep == ASSUME TypeInv, Next PROVE DiskInv'
<1>0. dirs \subseteq Dir /\ files \subseteq InAny(dirs)
  BY DEF TypeInv, DiskInv
<1>1. CASE UNCHANGED disk
  BY <1>0, <1>1 DEF disk, DiskInv
<1>2. ASSUME NEW d \in Dir, NEW f \in In(d), Write(d, f) PROVE DiskInv'
  <2>1. dirs' = dirs \cup {d} /\ files' = files \cup {f}
    BY <1>2 DEF Write
  <2>2. files' \subseteq InAny(dirs')
    BY <1>0, <2>1, InSome
  <2>3. QED BY <1>0, <2>1, <2>2 DEF DiskInv
<1>3. ASSUME NEW f \in Poster, Resolve(f) \/ Fetch(f) PROVE DiskInv'
  BY <1>2, <1>3, Directories DEF Resolve, Fetch
<1>4. ASSUME NEW f \in Thumb, Draw(f) PROVE DiskInv'
  BY <1>2, <1>4, Directories DEF Draw
<1>5. CASE DeleteFile \/ RemoveThumb
  BY <1>0, <1>5 DEF DeleteFile, RemoveThumb, DiskInv
<1>6. ASSUME NEW r \in Request, SetAside(r) PROVE DiskInv'
  <2> DEFINE d == Head(restore[r].left)
  <2>1. d \in Dir
    BY <1>6, ToSwitchFirst DEF SetAside
  <2>2. dirs' = dirs \ {d} /\ files' = files \ In(d)
    BY <1>6 DEF SetAside
  <2> HIDE DEF d
  <2>3. files' \subseteq InAny(dirs')
    BY <1>0, <2>2, InSome
  <2>4. QED BY <1>0, <2>2, <2>3 DEF DiskInv
<1>7. ASSUME NEW r \in Request, SetAsideFails(r) PROVE DiskInv'
  BY <1>7, RollBackDisk DEF SetAsideFails
<1>8. ASSUME NEW r \in Request, Promote(r) PROVE DiskInv'
  <2> DEFINE d == Head(restore[r].left)
  <2>1. d \in Dir
    BY <1>8, ToSwitchFirst DEF Promote
  <2>2. CASE Vacant(d, files)
    <3>1. dirs' = dirs \cup {d} /\ files' = files \cup (restore[r].archive.files \cap In(d))
      BY <1>8, <2>2 DEF Promote
    <3> HIDE DEF d
    <3>2. files' \subseteq InAny(dirs')
      BY <1>0, <3>1, InSome
    <3>3. QED BY <1>0, <2>1, <3>1, <3>2 DEF DiskInv
  <2>3. CASE RollBack(r, {d})
    BY <2>1, <2>3, RollBackDisk
  <2>4. QED BY <1>8, <2>2, <2>3 DEF Promote
<1>9. ASSUME NEW r \in Request, PromoteFails(r) PROVE DiskInv'
  BY <1>9, ToSwitchFirst, RollBackDisk DEF PromoteFails
<1>10. QED
  BY <1>1, <1>3, <1>4, <1>5, <1>6, <1>7, <1>8, <1>9, DiskFrame

hands == <<resolved, deleting, drawing, fetching>>

\* The steps in which a request or a worker takes or gives up something.
LEMMA HandsFrame ==
    ASSUME Next
    PROVE  \/ UNCHANGED hands
           \/ \E f \in Poster : Resolve(f) \/ Fetch(f)
           \/ \E m \in Media : \/ \E row \in Row : Create(m, row)
                               \/ \E p \in Poster \cup {Remote} : Update(m, p)
                               \/ Delete(m)
           \/ DeleteRow \/ DeleteFile
           \/ \E f \in Thumb : Draw(f)
           \/ TakeThumb \/ DrawFails \/ SaveThumb \/ RemoveThumb \/ Release
           \/ TakePoster \/ FetchFails \/ SavePoster
           \/ Kill
<1>1. CASE Edit
  BY <1>1 DEF Edit, Execute, Mark, queues, hands
<1>2. CASE Queues
  BY <1>2 DEF Queues, Redraw, Migrate, hands
<1>3. CASE Backup
  BY <1>3 DEF Backup, BeginExport, ReadRest, Pack, ReplaceTables, Stage, StageFails,
              SetAside, SetAsideFails, Promote, PromoteFails, RollBack, Rest,
              FindOrphans, FixOrphans, queues, hands
<1>4. QED BY <1>1, <1>2, <1>3 DEF Next

LEMMA HandsStep == ASSUME TypeInv, Next PROVE HandsInv'
<1>0. HandsInv
  BY DEF TypeInv
<1>1. CASE UNCHANGED hands
  BY <1>0, <1>1 DEF hands, HandsInv
<1>2. ASSUME UNCHANGED <<deleting, drawing, fetching>>, resolved' \in Poster \cup {None}
      PROVE  HandsInv'
  BY <1>0, <1>2 DEF HandsInv
<1>3. ASSUME UNCHANGED <<resolved, drawing, fetching>>, deleting' \in Deleting
      PROVE  HandsInv'
  BY <1>0, <1>3 DEF HandsInv
<1>4. ASSUME UNCHANGED <<resolved, deleting, fetching>>, drawing' \in Drawing,
             drawing'.at = "idle" <=> drawing'.media = None
      PROVE  HandsInv'
  BY <1>0, <1>4 DEF HandsInv
<1>5. ASSUME UNCHANGED <<resolved, deleting, drawing>>, fetching' \in Fetching
      PROVE  HandsInv'
  BY <1>0, <1>5 DEF HandsInv
<1>6. ASSUME NEW f \in Poster, Resolve(f) PROVE HandsInv'
  BY <1>2, <1>6 DEF Resolve, queues
<1>7. ASSUME NEW m \in Media, NEW row \in Row, Create(m, row) PROVE HandsInv'
  <2>1. resolved' \in {None, resolved}
    BY <1>7 DEF Create, Used
  <2>2. QED BY <1>0, <1>2, <1>7, <2>1 DEF Create, HandsInv
<1>8. ASSUME NEW m \in Media, NEW p \in Poster \cup {Remote}, Update(m, p) PROVE HandsInv'
  <2>1. resolved' \in {None, resolved}
    BY <1>8 DEF Update, Used
  <2>2. QED BY <1>0, <1>2, <1>8, <2>1 DEF Update, HandsInv, queues
<1>9. ASSUME NEW m \in Media, Delete(m) PROVE HandsInv'
  <2>1. media[m].poster \in File \cup {None, Remote}
    BY <1>9, Columns DEF Delete, TypeInv, RowsInv
  <2>2. deleting' \in Deleting
    BY <1>9, <2>1 DEF Delete, Deleting
  <2>3. QED BY <1>3, <1>9, <2>2 DEF Delete, queues
<1>10. CASE DeleteRow
  <2>1. deleting' \in Deleting
    BY <1>0, <1>10 DEF DeleteRow, HandsInv, Deleting
  <2>2. QED BY <1>3, <1>10, <2>1 DEF DeleteRow, queues
<1>11. CASE DeleteFile
  <2>1. deleting' \in Deleting
    BY <1>11 DEF DeleteFile, NotDeleting, Deleting
  <2>2. QED BY <1>3, <1>11, <2>1 DEF DeleteFile, queues
<1>12. CASE TakeThumb
  <2>1. Head(thumbs) \in Media /\ Head(thumbs) # None
    BY <1>12, Shorter, LibraryAssumption DEF TakeThumb, TypeInv, QueuesInv
  <2>2. drawing' = [at |-> "draw", media |-> Head(thumbs), file |-> None]
    BY <1>12 DEF TakeThumb, Idle
  <2>3. drawing' \in Drawing /\ drawing'.at = "draw" /\ drawing'.media # None
    BY <2>1, <2>2 DEF Drawing
  <2>4. QED BY <1>4, <1>12, <2>3 DEF TakeThumb
<1>13. ASSUME NEW f \in Thumb, Draw(f) PROVE HandsInv'
  <2>1. drawing' \in Drawing /\ (drawing'.at = "idle" <=> drawing'.media = None)
    BY <1>0, <1>13 DEF Draw, HandsInv, Drawing
  <2>2. QED BY <1>4, <1>13, <2>1 DEF Draw
<1>14. CASE DrawFails \/ SaveThumb \/ RemoveThumb
  <2>1. drawing' \in Drawing /\ (drawing'.at = "idle" <=> drawing'.media = None)
    BY <1>0, <1>14 DEF DrawFails, SaveThumb, RemoveThumb, HandsInv, Drawing
  <2>2. QED BY <1>4, <1>14, <2>1 DEF DrawFails, SaveThumb, RemoveThumb
<1>15. CASE Release
  <2>1. drawing' \in Drawing /\ drawing'.at = "idle" /\ drawing'.media = None
    BY <1>15 DEF Release, Idle, Drawing
  <2>2. QED BY <1>4, <1>15, <2>1 DEF Release
<1>16. CASE TakePoster
  <2>1. Head(posters) \in Media
    BY <1>16, Shorter DEF TakePoster, TypeInv, QueuesInv
  <2>2. fetching' = [at |-> "fetch", media |-> Head(posters), file |-> None]
    BY <1>16 DEF TakePoster, Idle
  <2>3. fetching' \in Fetching
    BY <2>1, <2>2 DEF Fetching
  <2>4. QED BY <1>5, <1>16, <2>3 DEF TakePoster
<1>17. ASSUME NEW f \in Poster, Fetch(f) PROVE HandsInv'
  <2>1. fetching' \in Fetching
    BY <1>0, <1>17 DEF Fetch, HandsInv, Fetching
  <2>2. QED BY <1>5, <1>17, <2>1 DEF Fetch
<1>18. CASE FetchFails \/ SavePoster
  <2>1. fetching' \in Fetching
    BY <1>18 DEF FetchFails, SavePoster, Idle, Fetching
  <2>2. QED BY <1>5, <1>18, <2>1 DEF FetchFails, SavePoster
<1>19. CASE Kill
  <2>1. /\ resolved' = None /\ deleting' = NotDeleting
        /\ drawing' = Idle /\ fetching' = Idle
    BY <1>19 DEF Kill
  <2>2. NotDeleting \in Deleting
    BY DEF NotDeleting, Deleting
  <2>3. Idle \in Drawing /\ Idle \in Fetching /\ Idle.at = "idle" /\ Idle.media = None
    BY DEF Idle, Drawing, Fetching
  <2>4. QED BY <2>1, <2>2, <2>3 DEF HandsInv
<1>20. QED
  BY <1>1, <1>6, <1>7, <1>8, <1>9, <1>10, <1>11, <1>12, <1>13, <1>14, <1>15, <1>16, <1>17,
     <1>18, <1>19, HandsFrame

\* The steps that change a queue.
LEMMA QueuesFrame ==
    ASSUME Next
    PROVE  \/ UNCHANGED <<thumbs, posters>>
           \/ \E m \in Media : \/ EnqueueThumb(m) /\ UNCHANGED posters
                               \/ EnqueueMigrate(m) /\ UNCHANGED thumbs
           \/ TakeThumb \/ TakePoster \/ Kill
<1>1. CASE Edit
  BY <1>1 DEF Edit, Resolve, Create, Execute, Update, Mark, Delete, DeleteRow, DeleteFile, queues
<1>2. CASE Queues
  BY <1>2 DEF Queues, Redraw, Migrate, Draw, DrawFails, SaveThumb, RemoveThumb, Release,
              Fetch, FetchFails, SavePoster
<1>3. CASE Backup
  BY <1>3 DEF Backup, BeginExport, ReadRest, Pack, ReplaceTables, Stage, StageFails,
              SetAside, SetAsideFails, Promote, PromoteFails, RollBack, Rest,
              FindOrphans, FixOrphans, queues
<1>4. QED BY <1>1, <1>2, <1>3 DEF Next

LEMMA QueuesStep == ASSUME TypeInv, Next PROVE QueuesInv'
<1> USE DEF QueuesInv
<1>0. QueuesInv /\ QueueSize \in Nat
  BY LibraryAssumption DEF TypeInv
<1>1. CASE UNCHANGED <<thumbs, posters>>
  BY <1>0, <1>1
<1>2. ASSUME NEW m \in Media, EnqueueThumb(m), UNCHANGED posters PROVE QueuesInv'
  <2>1. CASE UNCHANGED thumbs
    BY <1>0, <1>2, <2>1
  <2>2. CASE thumbs' = Append(thumbs, m) /\ Len(thumbs) # QueueSize
    <3>1. thumbs' \in Seq(Media) /\ Len(thumbs') = Len(thumbs) + 1 /\ Len(thumbs) \in Nat
      BY <1>0, <2>2, AppendProperties, LenProperties
    <3>2. QED BY <1>0, <1>2, <2>2, <3>1
  <2>3. QED BY <1>2, <2>1, <2>2 DEF EnqueueThumb
<1>3. ASSUME NEW m \in Media, EnqueueMigrate(m), UNCHANGED thumbs PROVE QueuesInv'
  <2>1. CASE UNCHANGED posters
    BY <1>0, <1>3, <2>1
  <2>2. CASE posters' = Append(posters, m) /\ Len(posters) < QueueSize
    <3>1. posters' \in Seq(Media) /\ Len(posters') = Len(posters) + 1 /\ Len(posters) \in Nat
      BY <1>0, <2>2, AppendProperties, LenProperties
    <3>2. QED BY <1>0, <1>3, <2>2, <3>1
  <2>3. QED BY <1>3, <2>1, <2>2 DEF EnqueueMigrate
<1>4. CASE TakeThumb
  <2>1. Tail(thumbs) \in Seq(Media) /\ Len(Tail(thumbs)) \leq Len(thumbs)
        /\ Len(thumbs) \in Nat /\ Len(Tail(thumbs)) \in Nat
    BY <1>0, <1>4, Shorter, LenProperties DEF TakeThumb
  <2>2. QED BY <1>0, <1>4, <2>1 DEF TakeThumb
<1>5. CASE TakePoster
  <2>1. Tail(posters) \in Seq(Media) /\ Len(Tail(posters)) \leq Len(posters)
        /\ Len(posters) \in Nat /\ Len(Tail(posters)) \in Nat
    BY <1>0, <1>5, Shorter, LenProperties DEF TakePoster
  <2>2. QED BY <1>0, <1>5, <2>1 DEF TakePoster
<1>6. CASE Kill
  <2>1. thumbs' = <<>> /\ posters' = <<>>
    BY <1>6 DEF Kill
  <2>2. QED BY <1>0, <2>1, EmptySeq
<1>7. QED BY <1>1, <1>2, <1>3, <1>4, <1>5, <1>6, QueuesFrame

\* What an export, an archive and a restore begin with.
LEMMA Empties ==
    /\ NoArchive \in Archive /\ NoExport \in Export
    /\ NoRows \in Orphans
    /\ NoRestore \in Restore /\ ToSwitch(NoRestore)
<1>1. NoArchive \in Archive
  BY NoRowsTable DEF NoArchive, Archive
<1>2. NoExport \in Export
  BY <1>1 DEF NoExport, Export
<1>3. NoRows \in Orphans
  <2>1. NoRows \in [{} -> {None, Remote}] /\ {} \in SUBSET Media
    BY DEF NoRows
  <2>2. QED BY <2>1 DEF Orphans
<1>4. << >> \in Seq(Dir)
  BY EmptySeq
<1>5. NoRestore \in Restore /\ ToSwitch(NoRestore)
  BY <1>1, <1>3, <1>4 DEF NoRestore, Restore, ToSwitch, Restoring
<1>6. QED BY <1>1, <1>2, <1>3, <1>5

\* A step that moves one restore.
LEMMA OneMoves ==
    ASSUME BackupInv, NEW r \in Request, NEW next \in Restore, ToSwitch(next), To(r, next),
           UNCHANGED <<export, archives>>, tainted' \in BOOLEAN
    PROVE  BackupInv'
<1>1. restore' = [restore EXCEPT ![r] = next]
  BY DEF To
<1>2. restore' \in [Request -> Restore] /\ \A x \in Request : ToSwitch(restore'[x])
  BY <1>1 DEF BackupInv
<1>3. QED BY <1>2 DEF BackupInv

\* A step of a restore changes no export and no archive.
LEMMA RebuildBackup == ASSUME TypeInv, NEW r \in Request, Rebuild(r) PROVE BackupInv'
<1>0. /\ BackupInv /\ restore[r] \in Restore /\ ToSwitch(restore[r])
      /\ restore[r].archive \in Archive
      /\ tainted \in BOOLEAN /\ dirs \subseteq Dir /\ files \subseteq File
  <2>1. files \subseteq File
    BY FilesTyped
  <2>2. QED BY <2>1 DEF TypeInv, DiskInv, BackupInv, Restore
<1>1. ASSUME NEW next \in Restore, ToSwitch(next), To(r, next),
             UNCHANGED <<export, archives>>, tainted' \in BOOLEAN
      PROVE  BackupInv'
  BY <1>0, <1>1, OneMoves
<1>2. ASSUME Fail(r), UNCHANGED <<export, archives>> PROVE BackupInv'
  <2>1. [NoRestore EXCEPT !.at = "failed"] \in Restore
        /\ ToSwitch([NoRestore EXCEPT !.at = "failed"])
    BY Empties DEF NoRestore, Restore, ToSwitch
  <2>2. QED BY <1>1, <1>2, <2>1 DEF Fail
<1>3. ASSUME NEW a \in archives, ReplaceTables(r, a) PROVE BackupInv'
  <2>1. UNCHANGED <<export, archives>> /\ tainted' \in BOOLEAN
    BY <1>0, <1>3 DEF ReplaceTables, Rest
  <2>2. CASE Consistent(a)
    <3> DEFINE next == [NoRestore EXCEPT !.at = IF a.files = {} THEN "refs" ELSE "stage",
                                         !.archive = a]
    <3>1. a \in Archive
      BY <1>0 DEF BackupInv
    <3>2. next \in Restore /\ ToSwitch(next)
      BY <3>1, Empties DEF NoRestore, Restore, Restoring, ToSwitch
    <3>3. To(r, next)
      BY <1>3, <2>2 DEF ReplaceTables
    <3> HIDE DEF next
    <3>4. QED BY <1>1, <2>1, <3>2, <3>3
  <2>3. CASE ~Consistent(a)
    BY <1>1, <1>3, <2>1, <2>3, Empties DEF ReplaceTables
  <2>4. QED BY <2>2, <2>3
<1>4. CASE Stage(r)
  <2> DEFINE here(d) == IF restore[r].archive.files \cap In(d) = {} THEN <<>> ELSE <<d>>
             left == here(Dirs[1]) \o here(Dirs[2])
             next == [At(r, "aside") EXCEPT !.left = left]
  <2>1. restore[r].archive.files # {} /\ restore[r].archive.files \subseteq Poster \cup Thumb
    BY <1>0, <1>4 DEF Stage, ToSwitch, Archive, File
  <2>2. \A d \in Dir : here(d) \in Seq(Dir) /\ (here(d) = <<>> <=>
             restore[r].archive.files \cap In(d) = {})
    BY EmptySeq
  <2>3. here("posters") # <<>> \/ here("thumbnails") # <<>>
    BY <2>1, <2>2, Directories
  <2>4. here(Dirs[1]) \in Seq(Dir) /\ here(Dirs[2]) \in Seq(Dir)
        /\ (here(Dirs[1]) # <<>> \/ here(Dirs[2]) # <<>>)
    BY <2>2, <2>3, Directories
  <2> HIDE DEF here
  <2>5. left \in Seq(Dir) /\ left # <<>>
    BY <2>4, ConcatProperties, ConcatEqualIffEmpty
  <2> HIDE DEF left
  <2>6. next \in Restore /\ ToSwitch(next)
    BY <1>0, <2>5 DEF At, Restore, Restoring, ToSwitch
  <2>7. To(r, next) /\ UNCHANGED <<tainted, export, archives>>
    BY <1>4 DEF Stage, Rest, here, left
  <2> HIDE DEF next
  <2>8. QED BY <1>0, <1>1, <2>6, <2>7
<1>5. CASE StageFails(r)
  BY <1>2, <1>5 DEF StageFails, Rest
<1>6. CASE SetAside(r)
  <2> DEFINE d == Head(restore[r].left)
             next == IF d \in dirs THEN [At(r, "promote") EXCEPT !.oldDirs = @ \cup {d},
                                                     !.old = @ \cup (files \cap In(d))]
                     ELSE At(r, "promote")
  <2>1. d \in Dir /\ restore[r].left # <<>>
    BY <1>0, <1>6, ToSwitchFirst DEF SetAside, ToSwitch
  <2>2. To(r, next) /\ UNCHANGED <<tainted, export, archives>>
    BY <1>6 DEF SetAside, Rest
  <2> HIDE DEF d
  <2>3. next \in Restore /\ ToSwitch(next)
    BY <1>0, <2>1 DEF At, Restore, Restoring, ToSwitch
  <2> HIDE DEF next
  <2>4. QED BY <1>0, <1>1, <2>2, <2>3
<1>7. ASSUME NEW ds, RollBack(r, ds) PROVE BackupInv'
  BY <1>2, <1>7 DEF RollBack, Rest
<1>8. CASE Promote(r)
  <2> DEFINE d == Head(restore[r].left)
             left == Tail(restore[r].left)
  <2>1. d \in Dir /\ left \in Seq(Dir)
    BY <1>8, ToSwitchFirst DEF Promote
  <2>2. Promoted(r) \in Restore /\ ToSwitch(Promoted(r))
    <3>1. Promoted(r) =
              IF left = <<>> THEN [NoRestore EXCEPT !.at = "refs", !.archive = restore[r].archive]
              ELSE [At(r, "aside") EXCEPT !.left = left, !.done = @ \cup {d}]
      BY DEF Promoted
    <3> HIDE DEF d, left
    <3>2. CASE left = <<>>
      BY <1>0, <3>1, <3>2, Empties DEF NoRestore, Restore, Restoring, ToSwitch
    <3>3. CASE left # <<>>
      <4> DEFINE done == restore[r].done \cup {d}
      <4>1. done \subseteq Dir
        BY <1>0, <2>1 DEF Restore
      <4>2. Promoted(r) = [restore[r] EXCEPT !.at = "aside", !.left = left, !.done = done]
        BY <1>0, <3>1, <3>3 DEF At, Restore
      <4> HIDE DEF done
      <4>3. QED BY <1>0, <2>1, <3>3, <4>1, <4>2 DEF Restore, Restoring, ToSwitch
    <3>4. QED BY <3>2, <3>3
  <2>3. \/ To(r, Promoted(r)) /\ UNCHANGED <<tainted, export, archives>>
        \/ RollBack(r, {d})
    BY <1>8 DEF Promote, Rest
  <2>4. QED BY <1>0, <1>1, <1>7, <2>2, <2>3
<1>9. CASE SetAsideFails(r) \/ PromoteFails(r)
  BY <1>7, <1>9 DEF SetAsideFails, PromoteFails
<1>10. CASE FindOrphans(r)
  <2> DEFINE found == {m \in DOMAIN media : Missing(m)}
             orphans == [m \in found |-> media[m].orig]
             next == [At(r, "fix") EXCEPT !.orphans = orphans]
  <2>1. orphans \in Orphans
    <3>1. found \in SUBSET Media /\ \A m \in found : media[m].orig \in {None, Remote}
      BY Columns DEF TypeInv, RowsInv
    <3>2. orphans \in [found -> {None, Remote}]
      BY <3>1
    <3>3. QED BY <3>1, <3>2 DEF Orphans
  <2>2. To(r, next) /\ UNCHANGED <<tainted, export, archives>>
    BY <1>10 DEF FindOrphans, Rest
  <2> HIDE DEF orphans
  <2>3. next \in Restore /\ ToSwitch(next)
    BY <1>0, <2>1 DEF At, Restore, Restoring, ToSwitch
  <2> HIDE DEF next
  <2>4. QED BY <1>0, <1>1, <2>2, <2>3
<1>11. CASE FixOrphans(r)
  BY <1>0, <1>1, <1>11, Empties DEF FixOrphans, Rest
<1>12. QED
  BY <1>3, <1>4, <1>5, <1>6, <1>8, <1>9, <1>10, <1>11 DEF Rebuild

LEMMA BackupStep == ASSUME TypeInv, Next PROVE BackupInv'
<1>0. BackupInv /\ media \in Table /\ marks \subseteq Media /\ files \subseteq File
  <2>1. files \subseteq File
    BY FilesTyped
  <2>2. marks \subseteq Media
    BY Tables DEF TypeInv, RowsInv
  <2>3. QED BY <2>1, <2>2 DEF TypeInv, RowsInv
<1>1. CASE UNCHANGED backup
  BY <1>0, <1>1 DEF backup, BackupInv
<1>2. ASSUME export' \in Export, archives' \subseteq Archive, UNCHANGED <<restore, tainted>>
      PROVE  BackupInv'
  BY <1>0, <1>2 DEF BackupInv
<1>3. CASE Edit \/ Queues
  <2>1. UNCHANGED backup
    BY <1>3 DEF Edit, Resolve, Create, Execute, Update, Mark, Delete, DeleteRow, DeleteFile,
       Queues, Redraw, Migrate, TakeThumb, Draw, DrawFails, SaveThumb, RemoveThumb, Release,
       TakePoster, Fetch, FetchFails, SavePoster
  <2>2. QED BY <1>1, <2>1
<1>4. ASSUME NEW p \in BOOLEAN, BeginExport(p) PROVE BackupInv'
  <2>1. [NoArchive EXCEPT !.media = media] \in Archive
        /\ [NoArchive EXCEPT !.marks = marks] \in Archive
    BY <1>0, Empties DEF NoArchive, Archive
  <2>2. export' \in Export
    BY <1>4, <2>1 DEF BeginExport, Export
  <2>3. QED BY <1>0, <1>2, <1>4, <2>2 DEF BeginExport, BackupInv
<1>5. CASE ReadRest
  <2>1. export' \in Export
    <3>1. export \in Export /\ export.archive \in Archive
      BY <1>0 DEF BackupInv, Export
    <3>2. CASE export' = [export EXCEPT !.at = "files", !.archive.marks = marks]
      <4>1. [export.archive EXCEPT !.marks = marks] \in Archive
        BY <1>0, <3>1 DEF Archive
      <4>2. export' = [export EXCEPT !.at = "files",
                                     !.archive = [export.archive EXCEPT !.marks = marks]]
        BY <3>1, <3>2 DEF Export
      <4>3. QED BY <3>1, <4>1, <4>2 DEF Export
    <3>3. CASE export' = [export EXCEPT !.at = "files", !.archive.media = media]
      <4>1. [export.archive EXCEPT !.media = media] \in Archive
        BY <1>0, <3>1 DEF Archive
      <4>2. export' = [export EXCEPT !.at = "files",
                                     !.archive = [export.archive EXCEPT !.media = media]]
        BY <3>1, <3>3 DEF Export
      <4>3. QED BY <3>1, <4>1, <4>2 DEF Export
    <3>4. QED BY <1>5, <3>2, <3>3 DEF ReadRest
  <2>2. QED BY <1>0, <1>2, <1>5, <2>1 DEF ReadRest, BackupInv
<1>6. CASE Pack
  <2>1. Packed \subseteq File
    BY <1>0 DEF Packed
  <2>2. [export.archive EXCEPT !.files = Packed] \in Archive
    BY <1>0, <2>1 DEF BackupInv, Export, Archive
  <2>3. QED BY <1>0, <1>2, <1>6, <2>2, Empties DEF Pack, BackupInv
<1>7. ASSUME NEW r \in Request, Rebuild(r) PROVE BackupInv'
  BY <1>7, RebuildBackup
<1>8. CASE Kill
  <2>1. /\ export' = NoExport /\ restore' = [r \in Request |-> NoRestore]
        /\ archives' = archives /\ tainted' \in BOOLEAN
    BY <1>0, <1>8 DEF Kill, BackupInv
  <2>2. QED BY <1>0, <2>1, Empties DEF BackupInv
<1>9. QED
  BY <1>3, <1>4, <1>5, <1>6, <1>7, <1>8 DEF Next, Backup, Rebuild

LEMMA TypeStep == ASSUME TypeInv, [Next]_vars PROVE TypeInv'
<1>1. CASE Next
  BY <1>1, RowsStep, DiskStep, HandsStep, QueuesStep, BackupStep DEF TypeInv
<1>2. CASE UNCHANGED vars
  BY <1>2 DEF vars, rows, disk, queues, backup, TypeInv, RowsInv, DiskInv, HandsInv,
              QueuesInv, BackupInv
<1>3. QED BY <1>1, <1>2

LEMMA TypeInit == ASSUME Init PROVE TypeInv
<1>1. RowsInv /\ DiskInv
  BY NoRowsTable DEF Init, RowsInv, DiskInv
<1>2. HandsInv
  BY DEF Init, HandsInv, NotDeleting, Deleting, Idle, Drawing, Fetching
<1>3. QueuesInv
  BY EmptySeq, LibraryAssumption DEF Init, QueuesInv
<1>4. BackupInv
  BY Empties DEF Init, BackupInv
<1>5. QED BY <1>1, <1>2, <1>3, <1>4 DEF TypeInv

LEMMA Typed == Spec => []TypeInv
BY TypeInit, TypeStep, PTL DEF Spec

\* The catalogue, its files, its queues and its backups have their shape, however
\* edits, downloads, thumbnails, exports, restores and crashes interleave: no mark
\* without its row, no file outside a directory that is there, no queue that
\* exceeds its size.
THEOREM TypeCorrect == Spec => []TypeOK
<1>1. TypeInv => TypeOK
  <2> SUFFICES ASSUME TypeInv PROVE TypeOK
    OBVIOUS
  <2>1. DOMAIN media \subseteq Media /\ Range(media) \subseteq Row
    BY Tables DEF TypeInv, RowsInv, Range
  <2>2. \A a \in archives : a.files \subseteq File /\ DOMAIN a.media \subseteq Media
    BY Tables DEF TypeInv, BackupInv, Archive
  <2>3. \A r \in Request : restore[r].at \in Restoring \cup {"idle", "failed"}
    BY DEF TypeInv, BackupInv, Restore
  <2>4. export.at \in {"idle", "marks", "media", "files"}
    BY DEF TypeInv, BackupInv, Export
  <2>5. /\ deleting.at \in {"idle", "row", "file"}
        /\ drawing.at \in {"idle", "draw", "save", "remove", "release"}
        /\ fetching.at \in {"idle", "fetch", "save"}
    BY DEF TypeInv, HandsInv, Deleting, Drawing, Fetching
  <2>6. QED
    BY <2>1, <2>2, <2>3, <2>4, <2>5 DEF TypeInv, RowsInv, DiskInv, HandsInv, QueuesInv, TypeOK
<1>2. QED BY <1>1, Typed, PTL


-----------------------------------------------------------------------------
(* The thumbnail queue: MarkedWhileWaiting and ThumbnailsYield.            *)

\* The steps that change the queue, its marks or the medium being drawn.
LEMMA MarksFrame ==
    ASSUME TypeInv, Next
    PROVE  \/ UNCHANGED <<thumbs, enqueuedIDs>> /\ drawing'.media = drawing.media
           \/ \E m \in Media : EnqueueThumb(m) /\ UNCHANGED drawing
           \/ TakeThumb \/ Release \/ Kill
<1>1. CASE Edit
  BY <1>1 DEF Edit, Resolve, Create, Execute, Update, Mark, Delete, DeleteRow, DeleteFile, queues
<1>2. CASE Queues
  <2>1. CASE (\E f \in Thumb : Draw(f)) \/ DrawFails \/ SaveThumb \/ RemoveThumb
    <3>1. UNCHANGED <<thumbs, enqueuedIDs>>
      BY <2>1 DEF Draw, DrawFails, SaveThumb, RemoveThumb
    <3>2. drawing'.media = drawing.media
      BY <2>1 DEF Draw, DrawFails, SaveThumb, RemoveThumb, TypeInv, HandsInv, Drawing
    <3>3. QED BY <3>1, <3>2
  <2>2. CASE \E m \in Media : Redraw(m) \/ Migrate(m)
    BY <2>2 DEF Redraw, Migrate
  <2>3. CASE TakePoster \/ (\E f \in Poster : Fetch(f)) \/ FetchFails \/ SavePoster
    BY <2>3 DEF TakePoster, Fetch, FetchFails, SavePoster
  <2>4. QED BY <1>2, <2>1, <2>2, <2>3 DEF Queues
<1>3. CASE Backup
  BY <1>3 DEF Backup, BeginExport, ReadRest, Pack, ReplaceTables, Stage, StageFails,
              SetAside, SetAsideFails, Promote, PromoteFails, RollBack, Rest,
              FindOrphans, FixOrphans, queues
<1>4. QED BY <1>1, <1>2, <1>3 DEF Next

LEMMA MarkedStep ==
    ASSUME TypeInv, MarkedWhileWaiting, [Next]_vars
    PROVE  MarkedWhileWaiting'
<1>0. /\ thumbs \in Seq(Media) /\ None \notin Media
      /\ IsInjective(thumbs) /\ drawing.media \notin ToSet(thumbs)
      /\ enqueuedIDs = ToSet(thumbs) \cup ({drawing.media} \ {None})
  BY LibraryAssumption DEF TypeInv, QueuesInv, MarkedWhileWaiting
<1>1. CASE UNCHANGED <<thumbs, enqueuedIDs>> /\ drawing'.media = drawing.media
  BY <1>0, <1>1 DEF MarkedWhileWaiting
<1>2. ASSUME NEW m \in Media, EnqueueThumb(m), UNCHANGED drawing
      PROVE  MarkedWhileWaiting'
  <2>1. CASE UNCHANGED <<thumbs, enqueuedIDs>>
    BY <1>0, <1>2, <2>1 DEF MarkedWhileWaiting
  <2>2. CASE m \notin enqueuedIDs /\ thumbs' = Append(thumbs, m)
             /\ enqueuedIDs' = enqueuedIDs \cup {m}
    <3>1. m \notin ToSet(thumbs) /\ m # drawing.media
      BY <1>0, <2>2
    <3>2. IsInjective(thumbs') /\ ToSet(thumbs') = ToSet(thumbs) \cup {m}
      BY <1>0, <2>2, <3>1, Joined
    <3>3. drawing'.media \notin ToSet(thumbs')
      BY <1>0, <1>2, <3>1, <3>2
    <3>4. enqueuedIDs' = ToSet(thumbs') \cup ({drawing'.media} \ {None})
      BY <1>0, <1>2, <2>2, <3>2
    <3>5. QED BY <3>2, <3>3, <3>4 DEF MarkedWhileWaiting
  <2>3. QED BY <1>2, <2>1, <2>2 DEF EnqueueThumb
<1>3. CASE TakeThumb
  <2>1. /\ thumbs # <<>> /\ thumbs' = Tail(thumbs) /\ enqueuedIDs' = enqueuedIDs
        /\ drawing'.media = Head(thumbs) /\ drawing.media = None
    BY <1>3 DEF TakeThumb, Idle, TypeInv, HandsInv
  <2>2. /\ IsInjective(Tail(thumbs)) /\ Head(thumbs) \notin ToSet(Tail(thumbs))
        /\ ToSet(thumbs) = ToSet(Tail(thumbs)) \cup {Head(thumbs)}
    BY <1>0, <2>1, Left
  <2>3. Head(thumbs) # None
    BY <1>0, <2>1, Shorter
  <2>4. enqueuedIDs' = ToSet(thumbs') \cup ({drawing'.media} \ {None})
    BY <1>0, <2>1, <2>2, <2>3
  <2>5. QED BY <2>1, <2>2, <2>4 DEF MarkedWhileWaiting
<1>4. CASE Release
  <2>1. /\ thumbs' = thumbs /\ enqueuedIDs' = enqueuedIDs \ {drawing.media}
        /\ drawing'.media = None
    BY <1>4 DEF Release, Idle
  <2>2. None \notin ToSet(thumbs)
    <3>1. \A i \in DOMAIN thumbs : thumbs[i] \in Media
      BY <1>0, ElementOfSeq, LenProperties
    <3>2. QED BY <1>0, <3>1 DEF ToSet
  <2>3. enqueuedIDs' = ToSet(thumbs') \cup ({drawing'.media} \ {None})
    BY <1>0, <2>1
  <2>4. QED BY <1>0, <2>1, <2>2, <2>3 DEF MarkedWhileWaiting
<1>5. CASE Kill
  <2>1. thumbs' = <<>> /\ enqueuedIDs' = {} /\ drawing'.media = None
    BY <1>5 DEF Kill, Idle
  <2>2. ToSet(<<>>) = {} /\ IsInjective(<<>>)
    BY DEF ToSet, IsInjective
  <2>3. QED BY <2>1, <2>2 DEF MarkedWhileWaiting
<1>6. CASE UNCHANGED vars
  BY <1>1, <1>6 DEF vars, queues
<1>7. QED BY <1>1, <1>2, <1>3, <1>4, <1>5, <1>6, MarksFrame

\* A medium is marked exactly while one task of it waits or is being drawn, in
\* whatever order requests, the worker and crashes come: no mark is left behind,
\* none goes early, and no medium waits twice.
THEOREM Marked == Spec => []MarkedWhileWaiting
<1>1. Init => MarkedWhileWaiting
  <2>1. ToSet(<<>>) = {} /\ IsInjective(<<>>)
    BY DEF ToSet, IsInjective
  <2>2. QED BY <2>1 DEF Init, Idle, MarkedWhileWaiting
<1>2. TypeInv /\ MarkedWhileWaiting /\ [Next]_vars => MarkedWhileWaiting'
  BY MarkedStep
<1>3. QED BY <1>1, <1>2, Typed, PTL DEF Spec

\* A row comes to name a thumbnail it did not name only by SaveThumb, or by a
\* restore.
YieldStep ==
    \A m \in DOMAIN media \cap DOMAIN media' :
        media'[m].poster \in Thumb /\ restore' = restore
        => media[m].poster \in {None, media'[m].poster}

\* A restore that writes rows also moves on.
LEMMA RestoreMoves ==
    ASSUME TypeInv, NEW r \in Request,
           FixOrphans(r) \/ \E a \in archives : ReplaceTables(r, a)
    PROVE  restore' # restore \/ UNCHANGED rows
<1>1. restore \in [Request -> Restore]
  BY DEF TypeInv, BackupInv
<1>2. CASE FixOrphans(r)
  <2>1. restore[r].at = "fix" /\ restore'[r] = NoRestore
    BY <1>1, <1>2 DEF FixOrphans, To
  <2>2. NoRestore.at = "idle"
    BY DEF NoRestore
  <2>3. QED BY <2>1, <2>2
<1>3. ASSUME NEW a \in archives, ReplaceTables(r, a), ~UNCHANGED rows
      PROVE  restore' # restore
  <2>1. restore[r].at \in {"idle", "failed"}
    BY <1>3 DEF ReplaceTables
  <2>2. restore'[r] = [NoRestore EXCEPT !.at = IF a.files = {} THEN "refs" ELSE "stage",
                                        !.archive = a]
    BY <1>1, <1>3 DEF ReplaceTables, To, rows
  <2>3. restore'[r].at \in {"refs", "stage"}
    BY <2>2 DEF NoRestore
  <2>4. QED BY <2>1, <2>3
<1>4. QED BY <1>2, <1>3

LEMMA Yields == ASSUME TypeInv, [Next]_vars PROVE YieldStep
<1> USE DEF YieldStep
<1>0. /\ Poster \cap Thumb = {} /\ None \notin Thumb /\ Remote \notin Thumb
      /\ resolved \in Poster \cup {None} /\ fetching.file \in Poster \cup {None}
      /\ media \in [DOMAIN media -> Row]
  BY LibraryAssumption, Tables DEF TypeInv, RowsInv, HandsInv, Fetching
<1>1. CASE UNCHANGED rows
  BY <1>1 DEF rows
<1>2. ASSUME NEW m \in Media, NEW row,
             m \notin DOMAIN media,
             media' = [x \in DOMAIN media \cup {m} |-> IF x = m THEN row ELSE media[x]]
      PROVE  YieldStep
  BY <1>2
<1>3. ASSUME NEW m \in Media, (\E row \in Row : Create(m, row)) \/ Execute(m) PROVE YieldStep
  BY <1>2, <1>3 DEF Create, Execute
<1>4. ASSUME NEW m \in Media, NEW p \in Poster \cup {Remote}, Update(m, p) PROVE YieldStep
  BY <1>0, <1>4 DEF Update
<1>5. ASSUME NEW m \in Media, Mark(m) PROVE YieldStep
  BY <1>5 DEF Mark
<1>6. CASE DeleteRow
  BY <1>6 DEF DeleteRow, Restrict
<1>7. CASE SaveThumb
  <2>1. CASE media' = media
    BY <2>1
  <2>2. CASE Unillustrated(drawing.media) /\ \A m \in DOMAIN media :
                 m # drawing.media => media'[m] = media[m]
    BY <2>2 DEF Unillustrated
  <2>3. QED BY <1>7, <2>1, <2>2 DEF SaveThumb
<1>8. CASE SavePoster
  BY <1>0, <1>8 DEF SavePoster
<1>9. ASSUME NEW r \in Request, FixOrphans(r) \/ \E a \in archives : ReplaceTables(r, a)
      PROVE  YieldStep
  BY <1>1, <1>9, RestoreMoves
<1>10. CASE UNCHANGED vars
  BY <1>10 DEF vars, rows
<1>11. QED BY <1>1, <1>3, <1>4, <1>5, <1>6, <1>7, <1>8, <1>9, <1>10, RowsFrame

\* However long the processor works on what it was told of a row, the thumbnail it
\* made never replaces a poster the row has got since.
THEOREM ThumbnailsGiveWay == Spec => ThumbnailsYield
<1>1. TypeInv /\ [Next]_vars => YieldStep \/ UNCHANGED vars
  BY Yields
<1>2. QED BY <1>1, Typed, PTL DEF Spec, ThumbnailsYield, YieldStep


-----------------------------------------------------------------------------
(* PostersExist, while the catalogue rests during restores: Overlap is     *)
(* FALSE.  Outside a restore, a file passes from the hand that wrote it to *)
(* at most one row, and is removed only when no row names it.              *)

\* What a step outside the restores does to the posters: a row gets one that no row
\* has, from a hand that gives it up,
RowGets(m, p) ==
    /\ \A x \in DOMAIN media' : \/ x = m /\ media'[x].poster = p
                                \/ x \in DOMAIN media /\ media'[x].poster = media[x].poster
    /\ p \in File => Holds(p)
Gives(m, p) == /\ RowGets(m, p) /\ p \in File \cup {None, Remote}
               /\ files' = files /\ deleting' = deleting
               /\ \A f \in File : Holds(f)' => Holds(f) /\ f # p
\* a hand takes a new file,
Takes(f) == /\ f \in File /\ ~Named(f) /\ f # deleting.poster
            /\ files' = files \cup {f} /\ media' = media /\ deleting' = deleting
            /\ \A g \in File : Holds(g)' => Holds(g) \/ g = f
\* a file is removed that nobody has,
Drops(f) == /\ f \in File => ~Named(f) /\ ~Holds(f)'
            /\ files' = files \ {f} /\ media' = media
            /\ deleting'.at = "idle" \/ deleting' = deleting
            /\ \A g \in File : Holds(g)' => Holds(g)
\* or hands give up what they have.
Loses == /\ files' = files /\ media' = media
         /\ deleting' = deleting
         /\ \A g \in File : Holds(g)' => Holds(g)
\* A deletion begins with a row, or deletes it.
Deletes == /\ files' = files
           /\ UNCHANGED <<resolved, drawing, fetching>>
           /\ \/ /\ deleting.at = "idle" /\ media' = media
                 /\ \E m \in DOMAIN media : deleting' = [at |-> "row", media |-> m,
                                                         poster |-> media[m].poster]
              \/ /\ deleting.at = "row" /\ media' = Restrict(media, DOMAIN media \ {deleting.media})
                 /\ deleting' = [deleting EXCEPT !.at = "file"]

Handled == \/ \E m, p : Gives(m, p)
           \/ \E f : Takes(f) \/ Drops(f)
           \/ Loses \/ Deletes

\* What a hand holds, and what it may hold, by its type.
LEMMA Hands ==
    ASSUME TypeInv
    PROVE  /\ resolved \in Poster \cup {None}
           /\ drawing.file \in Thumb \cup {None} /\ fetching.file \in Poster \cup {None}
           /\ deleting.poster \in File \cup {None, Remote}
           /\ None \notin File /\ Remote \notin File /\ None # Remote
           /\ Poster \cap Thumb = {} /\ File = Poster \cup Thumb
BY LibraryAssumption DEF TypeInv, HandsInv, Deleting, Drawing, Fetching, File

\* A new name is nobody's.
LEMMA FreshName ==
    ASSUME NEW f, Fresh(f)
    PROVE  /\ f \notin files /\ f # resolved /\ f # drawing.file /\ f # fetching.file
           /\ f # deleting.poster /\ ~Named(f)
BY DEF Fresh, Named

LEMMA EditHandled == ASSUME TypeInv, HeldInv, DeleteInv, Edit PROVE Handled
<1>0. /\ resolved \in Poster \cup {None}
      /\ drawing.file \in Thumb \cup {None} /\ fetching.file \in Poster \cup {None}
      /\ deleting.poster \in File \cup {None, Remote}
      /\ None \notin File /\ Remote \notin File /\ None # Remote
      /\ Poster \cap Thumb = {} /\ File = Poster \cup Thumb
  BY Hands
<1>1. ASSUME NEW f \in Poster, Resolve(f) PROVE Takes(f)
  <2>1. /\ files' = files \cup {f} /\ resolved' = f
        /\ UNCHANGED <<media, deleting, drawing, fetching>> /\ Fresh(f)
    BY <1>1 DEF Resolve, Write, rows, queues
  <2>2. QED BY <1>0, <2>1, FreshName DEF Takes, Holds
<1>2. ASSUME NEW m, NEW p \in {None, Remote, resolved}, RowGets(m, p),
             files' = files, UNCHANGED <<deleting, drawing, fetching>>,
             resolved' = Used(p)
      PROVE  Gives(m, p)
  <2>1. ASSUME NEW f \in File, Holds(f)' PROVE Holds(f) /\ f # p
    BY <1>0, <1>2, <2>1 DEF Holds, Used, HeldInv
  <2>2. QED BY <1>0, <1>2, <2>1 DEF Gives
<1>3. ASSUME NEW m \in Media, NEW row \in Row, Create(m, row) PROVE Gives(m, row.poster)
  <2>1. /\ media' = [x \in DOMAIN media \cup {m} |-> IF x = m THEN row ELSE media[x]]
        /\ UNCHANGED <<files, deleting, drawing, fetching>> /\ resolved' = Used(row.poster)
        /\ row.poster \in {None, Remote, resolved}
    BY <1>3 DEF Create, Chosen, disk
  <2>2. RowGets(m, row.poster)
    BY <1>0, <2>1 DEF RowGets, Holds
  <2>3. QED BY <1>2, <2>1, <2>2
<1>4. ASSUME NEW m \in Media, Execute(m) PROVE Handled
  <2>1. PICK row \in [poster : {None}, orig : {None, Remote}]
                \cup [poster : {Remote}, orig : {Remote}] :
            media' = [x \in DOMAIN media \cup {m} |-> IF x = m THEN row ELSE media[x]]
    BY <1>4 DEF Execute
  <2>2. UNCHANGED <<files, resolved, deleting, drawing, fetching>>
    BY <1>4 DEF Execute, disk
  <2>3. row.poster \in {None, Remote}
    OBVIOUS
  <2>4. RowGets(m, row.poster)
    BY <1>0, <2>1, <2>3 DEF RowGets
  <2>5. Gives(m, row.poster)
    BY <1>0, <2>2, <2>3, <2>4 DEF Gives, Holds
  <2>6. QED BY <2>5 DEF Handled
<1>5. ASSUME NEW m \in Media, NEW p \in Poster \cup {Remote}, Update(m, p) PROVE Handled
  <2>1. /\ UNCHANGED <<files, deleting, drawing, fetching>> /\ resolved' = Used(p)
        /\ p \in {Remote, resolved}
    BY <1>5 DEF Update, disk, queues
  <2>2. CASE m \in DOMAIN media
    <3>1. media' = [media EXCEPT ![m] = [poster |-> p, orig |-> Remote]]
      BY <1>5, <2>2 DEF Update
    <3>2. RowGets(m, p)
      BY <1>0, <2>1, <3>1 DEF RowGets, Holds
    <3>3. QED BY <1>2, <2>1, <3>2 DEF Handled
  <2>3. CASE m \notin DOMAIN media
    <3>1. media' = media
      BY <1>5, <2>3 DEF Update
    <3>2. Loses
      BY <1>0, <2>1, <3>1 DEF Loses, Holds, Used
    <3>3. QED BY <3>2 DEF Handled
  <2>4. QED BY <2>2, <2>3
<1>6. ASSUME NEW m \in Media, Mark(m) PROVE Loses
  BY <1>6 DEF Mark, Loses, Holds, disk, queues
<1>7. ASSUME NEW m \in Media, Delete(m) PROVE Deletes
  BY <1>7 DEF Delete, Deletes, rows, disk, queues
<1>8. CASE DeleteRow
  <2>1. /\ deleting.at = "row" /\ media' = Restrict(media, DOMAIN media \ {deleting.media})
        /\ deleting' = [deleting EXCEPT !.at = "file"]
        /\ UNCHANGED <<files, resolved, drawing, fetching>>
    BY <1>8 DEF DeleteRow, disk, queues
  <2>2. Deletes
    BY <2>1 DEF Deletes
  <2>3. QED BY <2>2 DEF Handled
<1>9. CASE DeleteFile
  <2>0. PICK f : f = deleting.poster
    OBVIOUS
  <2>1. /\ deleting.at = "file" /\ files' = files \ {f} /\ deleting'.at = "idle"
        /\ UNCHANGED <<media, resolved, drawing, fetching>>
    BY <1>9, <2>0 DEF DeleteFile, NotDeleting, rows, queues
  <2>2. f \in File => ~Named(f) /\ ~Holds(f)
    BY <2>0, <2>1 DEF DeleteInv, Named
  <2>3. \A g : Holds(g)' <=> Holds(g)
    BY <2>1 DEF Holds
  <2>4. Drops(f)
    BY <2>1, <2>2, <2>3 DEF Drops
  <2>5. QED BY <2>4 DEF Handled
<1>10. QED
  BY <1>1, <1>3, <1>4, <1>5, <1>6, <1>7, <1>8, <1>9 DEF Edit, Handled

LEMMA QueuesHandled == ASSUME TypeInv, HeldInv, DeleteInv, Queues PROVE Handled
<1>0. /\ resolved \in Poster \cup {None}
      /\ drawing.file \in Thumb \cup {None} /\ fetching.file \in Poster \cup {None}
      /\ deleting.poster \in File \cup {None, Remote}
      /\ None \notin File /\ Remote \notin File /\ None # Remote
      /\ Poster \cap Thumb = {} /\ File = Poster \cup Thumb
      /\ drawing \in Drawing /\ fetching \in Fetching
  BY Hands DEF TypeInv, HandsInv
<1>1. ASSUME UNCHANGED <<media, files, resolved, deleting, fetching>>,
             drawing'.at \notin {"save", "remove"} \/ drawing' = drawing
      PROVE  Handled
  <2>1. Loses
    BY <1>1 DEF Loses, Holds
  <2>2. QED BY <2>1 DEF Handled
<1>2. ASSUME UNCHANGED <<media, files, resolved, deleting, drawing>>, fetching'.at # "save"
      PROVE  Handled
  <2>1. Loses
    BY <1>2 DEF Loses, Holds
  <2>2. QED BY <2>1 DEF Handled
<1>3. ASSUME NEW m \in Media, Redraw(m) \/ Migrate(m) PROVE Handled
  BY <1>1, <1>3 DEF Redraw, Migrate, rows, disk
<1>4. CASE TakeThumb \/ DrawFails \/ Release
  <2>1. drawing'.at \notin {"save", "remove"}
    <3>1. CASE TakeThumb
      BY <3>1 DEF TakeThumb, Idle
    <3>2. CASE DrawFails
      BY <1>0, <3>2 DEF DrawFails, Drawing
    <3>3. CASE Release
      BY <3>3 DEF Release, Idle
    <3>4. QED BY <1>4, <3>1, <3>2, <3>3
  <2>2. UNCHANGED <<media, files, resolved, deleting, fetching>>
    BY <1>4 DEF TakeThumb, DrawFails, Release, rows, disk
  <2>3. QED BY <1>1, <2>1, <2>2
<1>5. CASE TakePoster \/ FetchFails
  <2>1. fetching'.at # "save"
    <3>1. CASE TakePoster
      BY <3>1 DEF TakePoster, Idle
    <3>2. CASE FetchFails
      BY <3>2 DEF FetchFails, Idle
    <3>3. QED BY <1>5, <3>1, <3>2
  <2>2. QED BY <1>2, <1>5, <2>1 DEF TakePoster, FetchFails, rows, disk
<1>6. ASSUME NEW f \in Thumb, Draw(f) PROVE Takes(f)
  <2>1. /\ files' = files \cup {f} /\ drawing'.at = "save" /\ drawing'.file = f
        /\ UNCHANGED <<media, deleting, resolved, fetching>> /\ Fresh(f)
    BY <1>0, <1>6 DEF Draw, Write, rows, Drawing
  <2>2. QED BY <1>0, <2>1, FreshName DEF Takes, Holds
<1>7. ASSUME NEW f \in Poster, Fetch(f) PROVE Takes(f)
  <2>1. /\ files' = files \cup {f} /\ fetching'.at = "save" /\ fetching'.file = f
        /\ UNCHANGED <<media, deleting, resolved, drawing>> /\ Fresh(f)
    BY <1>0, <1>7 DEF Fetch, Write, rows, Fetching
  <2>2. QED BY <1>0, <2>1, FreshName DEF Takes, Holds
<1>8. CASE SaveThumb
  <2>0. PICK m, f : m = drawing.media /\ f = drawing.file
    OBVIOUS
  <2>1. UNCHANGED <<files, resolved, deleting, fetching>> /\ drawing.at = "save"
    BY <1>8 DEF SaveThumb, disk
  <2>2. CASE Unillustrated(m)
    <3>1. /\ media' = [media EXCEPT ![m].poster = f] /\ drawing'.at = "release"
      BY <1>0, <1>8, <2>0, <2>2 DEF SaveThumb, Drawing
    <3>2. media[m] \in Row
      BY <2>2, Columns DEF Unillustrated, TypeInv, RowsInv
    <3>3. \A x \in DOMAIN media' :
              /\ x \in DOMAIN media
              /\ x # m => media'[x] = media[x]
              /\ x = m => media'[x].poster = f
      BY <3>1, <3>2 DEF Row
    <3>4. RowGets(m, f)
      <4>1. Holds(f)
        BY <2>0, <2>1 DEF Holds
      <4>2. \A x \in DOMAIN media' : \/ x = m /\ media'[x].poster = f
                                     \/ x \in DOMAIN media /\ media'[x].poster = media[x].poster
        BY <3>3, Zenon
      <4>3. QED BY <4>1, <4>2 DEF RowGets
    <3>5. Gives(m, f)
      BY <1>0, <2>0, <2>1, <3>1, <3>4 DEF Gives, Holds
    <3>6. QED BY <3>5 DEF Handled
  <2>3. CASE ~Unillustrated(m)
    <3>1. media' = media /\ drawing'.file = f
      BY <1>0, <1>8, <2>0, <2>3 DEF SaveThumb, Drawing
    <3>2. Loses
      BY <2>0, <2>1, <3>1 DEF Loses, Holds
    <3>3. QED BY <3>2 DEF Handled
  <2>4. QED BY <2>2, <2>3
<1>9. CASE RemoveThumb
  <2>0. PICK f : f = drawing.file
    OBVIOUS
  <2>1. /\ drawing.at = "remove" /\ files' = files \ {f} /\ drawing'.at = "release"
        /\ UNCHANGED <<media, resolved, deleting, fetching>>
    BY <1>0, <1>9, <2>0 DEF RemoveThumb, rows, Drawing
  <2>2. f \in File => ~Named(f)
    BY <2>0, <2>1 DEF HeldInv, Ready, Holds
  <2>3. f \in File => ~Holds(f)'
    BY <1>0, <2>0, <2>1 DEF Holds
  <2>4. \A g \in File : Holds(g)' => Holds(g)
    BY <2>1 DEF Holds
  <2>5. Drops(f)
    BY <2>1, <2>2, <2>3, <2>4 DEF Drops
  <2>6. QED BY <2>5 DEF Handled
<1>10. CASE SavePoster
  <2>0. PICK m, f : m = fetching.media /\ f = fetching.file
    OBVIOUS
  <2>1. /\ UNCHANGED <<files, resolved, deleting, drawing>>
        /\ fetching.at = "save" /\ fetching'.at = "idle"
    BY <1>10 DEF SavePoster, disk, Idle
  <2>2. CASE m \in DOMAIN media
    <3>1. media' = [media EXCEPT ![m] = [poster |-> f, orig |-> Remote]]
      BY <1>10, <2>0, <2>2 DEF SavePoster
    <3>2. RowGets(m, f)
      BY <2>0, <2>1, <3>1 DEF RowGets, Holds
    <3>3. ASSUME NEW g \in File, Holds(g)' PROVE Holds(g) /\ g # f
      BY <1>0, <2>0, <2>1, <3>3 DEF HeldInv, Ready, Holds
    <3>4. Gives(m, f)
      BY <1>0, <2>0, <2>1, <3>2, <3>3 DEF Gives
    <3>5. QED BY <3>4 DEF Handled
  <2>3. CASE m \notin DOMAIN media
    BY <1>2, <1>10, <2>0, <2>1, <2>3 DEF SavePoster
  <2>4. QED BY <2>2, <2>3
<1>11. QED
  BY <1>3, <1>4, <1>5, <1>6, <1>7, <1>8, <1>9, <1>10 DEF Queues, Handled


Whole == \A m \in DOMAIN media : ~Missing(m)

\* A step outside the restores keeps posters apart, ready and in place.
LEMMA HandledKeeps ==
    ASSUME TypeInv, Distinct(media), HeldInv, DeleteInv, Handled
    PROVE  /\ Distinct(media)' /\ Ready' /\ DeleteInv'
           /\ Whole => Whole'
<1>0. /\ Ready /\ None \notin File /\ Remote \notin File
      /\ deleting.poster \in File \cup {None, Remote} /\ deleting \in Deleting
      /\ media \in [DOMAIN media -> Row]
      /\ \A m \in DOMAIN media : media[m].poster \in File \cup {None, Remote}
  BY Hands, Tables, Columns DEF HeldInv, TypeInv, HandsInv, RowsInv
<1>1. ASSUME NEW m, NEW p, Gives(m, p)
      PROVE  Distinct(media)' /\ Ready' /\ DeleteInv' /\ (Whole => Whole')
  <2>1. /\ \A x \in DOMAIN media' :
              \/ x = m /\ media'[x].poster = p
              \/ x \in DOMAIN media /\ media'[x].poster = media[x].poster
        /\ p \in File => Holds(p) /\ p \in files /\ \A x \in DOMAIN media : media[x].poster # p
        /\ p \in File \cup {None, Remote} /\ files' = files /\ deleting' = deleting
        /\ \A f \in File : Holds(f)' => Holds(f) /\ f # p
    BY <1>0, <1>1 DEF Gives, RowGets, Ready, Named
  <2>2. Distinct(media)'
    BY <2>1 DEF Distinct
  <2>3. Ready'
    BY <1>0, <2>1 DEF Ready, Named
  <2>4. DeleteInv'
    BY <1>0, <2>1 DEF DeleteInv
  <2>5. Whole => Whole'
    BY <1>0, <2>1 DEF Whole, Missing
  <2>6. QED BY <2>2, <2>3, <2>4, <2>5
<1>2. ASSUME NEW f, Takes(f)
      PROVE  Distinct(media)' /\ Ready' /\ DeleteInv' /\ (Whole => Whole')
  BY <1>0, <1>2 DEF Takes, Distinct, Ready, Named, DeleteInv, Whole, Missing
<1>3. ASSUME NEW f, Drops(f)
      PROVE  Distinct(media)' /\ Ready' /\ DeleteInv' /\ (Whole => Whole')
  <2>1. Distinct(media)'
    BY <1>3 DEF Drops, Distinct
  <2>2. Ready'
    BY <1>0, <1>3 DEF Drops, Ready, Named
  <2>3. DeleteInv'
    BY <1>0, <1>3 DEF Drops, DeleteInv
  <2>4. Whole => Whole'
    BY <1>0, <1>3 DEF Drops, Whole, Missing, Named
  <2>5. QED BY <2>1, <2>2, <2>3, <2>4
<1>4. ASSUME Loses
      PROVE  Distinct(media)' /\ Ready' /\ DeleteInv' /\ (Whole => Whole')
  BY <1>0, <1>4 DEF Loses, Distinct, Ready, Named, DeleteInv, Whole, Missing
<1>5. ASSUME Deletes
      PROVE  Distinct(media)' /\ Ready' /\ DeleteInv' /\ (Whole => Whole')
  <2>1. files' = files /\ \A f : Holds(f)' <=> Holds(f)
    BY <1>5 DEF Deletes, Holds
  <2>2. ASSUME NEW m \in DOMAIN media, media' = media,
               deleting' = [at |-> "row", media |-> m, poster |-> media[m].poster]
        PROVE  Distinct(media)' /\ Ready' /\ DeleteInv' /\ (Whole => Whole')
    <3>1. DeleteInv'
      BY <1>0, <2>1, <2>2 DEF DeleteInv, Distinct, Ready, Named
    <3>2. QED BY <1>0, <2>1, <2>2, <3>1 DEF Distinct, Ready, Named, Whole, Missing
  <2>3. ASSUME deleting.at = "row", media' = Restrict(media, DOMAIN media \ {deleting.media}),
               deleting' = [deleting EXCEPT !.at = "file"]
        PROVE  Distinct(media)' /\ Ready' /\ DeleteInv' /\ (Whole => Whole')
    <3>1. /\ DOMAIN media' = DOMAIN media \ {deleting.media}
          /\ \A m \in DOMAIN media' : media'[m] = media[m]
      BY <2>3 DEF Restrict
    <3>2. /\ deleting'.poster = deleting.poster /\ deleting'.media = deleting.media
          /\ deleting'.at = "file"
      BY <1>0, <2>3 DEF Deleting
    <3>3. DeleteInv'
      BY <1>0, <2>1, <2>3, <3>1, <3>2 DEF DeleteInv
    <3>4. QED BY <1>0, <2>1, <3>1, <3>3 DEF Distinct, Ready, Named, Whole, Missing
  <2>4. QED BY <1>5, <2>2, <2>3 DEF Deletes
<1>6. QED BY <1>1, <1>2, <1>3, <1>4, <1>5 DEF Handled

\* A request and the poster worker never hold the same file.
LEMMA HeldStep ==
    ASSUME TypeInv, HeldInv, Next, Ready'
    PROVE  HeldInv'
<1>0. resolved # None /\ fetching.at = "save" => resolved # fetching.file
  BY DEF HeldInv
<1>1. CASE UNCHANGED <<resolved, fetching>>
  BY <1>0, <1>1 DEF HeldInv
<1>2. CASE resolved' \in {None, resolved} /\ UNCHANGED fetching
  BY <1>0, <1>2 DEF HeldInv
<1>3. ASSUME NEW f \in Poster, Resolve(f) PROVE HeldInv'
  BY <1>3, FreshName DEF HeldInv, Resolve, queues
<1>4. ASSUME NEW f \in Poster, Fetch(f) PROVE HeldInv'
  BY <1>4, FreshName DEF HeldInv, Fetch, TypeInv, HandsInv, Fetching
<1>5. CASE fetching'.at # "save"
  BY <1>5 DEF HeldInv
<1>6. QED
  <2>1. CASE UNCHANGED hands
    BY <1>1, <2>1 DEF hands
  <2>2. ASSUME NEW m \in Media, (\E row \in Row : Create(m, row))
                                \/ \E p \in Poster \cup {Remote} : Update(m, p)
        PROVE  HeldInv'
    BY <1>2, <2>2 DEF Create, Update, Used, queues
  <2>3. ASSUME NEW m \in Media, Delete(m) PROVE HeldInv'
    BY <1>1, <2>3 DEF Delete, queues
  <2>4. CASE DeleteRow \/ DeleteFile \/ (\E f \in Thumb : Draw(f)) \/ TakeThumb \/ DrawFails
             \/ SaveThumb \/ RemoveThumb \/ Release
    BY <1>1, <2>4 DEF DeleteRow, DeleteFile, Draw, TakeThumb, DrawFails, SaveThumb, RemoveThumb,
                      Release, queues
  <2>5. CASE TakePoster
    BY <1>5, <2>5 DEF TakePoster, Idle
  <2>6. CASE FetchFails \/ SavePoster \/ Kill
    BY <1>5, <2>6 DEF FetchFails, SavePoster, Kill, Idle
  <2>7. QED BY <1>3, <1>4, <2>1, <2>2, <2>3, <2>4, <2>5, <2>6, HandsFrame

-----------------------------------------------------------------------------
(* Restores.                                                               *)

\* The steps outside the restores; each leaves the restores alone.
Working == Edit \/ Queues \/ (\E p \in BOOLEAN : BeginExport(p)) \/ ReadRest \/ Pack

LEMMA WorkingFrame == ASSUME Working PROVE UNCHANGED <<restore, tainted>>
BY DEF Working, Edit, Resolve, Create, Execute, Update, Mark, Delete, DeleteRow, DeleteFile,
       Queues, Redraw, Migrate, TakeThumb, Draw, DrawFails, SaveThumb, RemoveThumb, Release,
       TakePoster, Fetch, FetchFails, SavePoster, BeginExport, ReadRest, Pack, backup

\* A step of a restore leaves everything else at rest.
LEMMA RebuildFrame ==
    ASSUME NEW r \in Request, Rebuild(r)
    PROVE  UNCHANGED <<resolved, deleting, queues, export, archives>>
BY DEF Rebuild, ReplaceTables, Stage, StageFails, SetAside, SetAsideFails, Promote, PromoteFails,
       RollBack, FindOrphans, FixOrphans, Rest

LEMMA StillHands ==
    ASSUME Still
    PROVE  /\ resolved = None /\ thumbs = <<>> /\ posters = <<>>
           /\ deleting.at = "idle" /\ drawing.at = "idle" /\ fetching.at = "idle"
           /\ export.at = "idle"
BY DEF Still

\* Nothing is edited, drawn, downloaded or packed while a restore runs.
LEMMA WorkingWaits ==
    ASSUME ~Overlap, RestInv, Working
    PROVE  InProgress = {}
<1>1. SUFFICES ASSUME ~MayEdit, Still PROVE FALSE
  BY DEF RestInv, MayEdit
<1>2. /\ resolved = None /\ thumbs = <<>> /\ posters = <<>>
      /\ deleting.at = "idle" /\ drawing.at = "idle" /\ fetching.at = "idle"
      /\ export.at = "idle"
  BY <1>1, StillHands
<1>3. ~Edit
  BY <1>1, <1>2 DEF Edit, Resolve, Create, Execute, Update, Mark, Delete, DeleteRow, DeleteFile
<1>4. ~Queues
  BY <1>1, <1>2 DEF Queues, Redraw, Migrate, TakeThumb, Draw, DrawFails, SaveThumb, RemoveThumb,
                    Release, TakePoster, Fetch, FetchFails, SavePoster
<1>5. ~((\E p \in BOOLEAN : BeginExport(p)) \/ ReadRest \/ Pack)
  BY <1>1, <1>2 DEF BeginExport, ReadRest, Pack
<1>6. QED BY <1>3, <1>4, <1>5 DEF Working

\* While a restore takes a step, everything else is at rest.
LEMMA RebuildAlone ==
    ASSUME ~Overlap, RestInv, NEW r \in Request, Rebuild(r)
    PROVE  Still
<1>1. CASE \E a \in archives : ReplaceTables(r, a)
  BY <1>1 DEF ReplaceTables
<1>2. CASE restore[r].at \in Restoring
  BY <1>2 DEF RestInv, InProgress
<1>3. QED
  BY <1>1, <1>2 DEF Rebuild, Stage, StageFails, SetAside, SetAsideFails, Promote, PromoteFails,
                    FindOrphans, FixOrphans, Restoring

LEMMA Steps == Next <=> Working \/ (\E r \in Request : Rebuild(r)) \/ Kill
BY DEF Next, Backup, Working, Rebuild

LEMMA RestStep == ASSUME ~Overlap, RestInv, Next PROVE RestInv'
<1>1. CASE Working
  <2>1. InProgress = {} /\ InProgress' = InProgress
    BY <1>1, WorkingWaits, WorkingFrame DEF InProgress
  <2>2. QED BY <2>1 DEF RestInv
<1>2. ASSUME NEW r \in Request, Rebuild(r) PROVE RestInv'
  <2>1. Still
    BY <1>2, RebuildAlone
  <2>2. Still'
    BY <1>2, <2>1, RebuildFrame DEF Still, queues
  <2>3. QED BY <2>2 DEF RestInv
<1>3. CASE Kill
  <2>1. \A r \in Request : restore'[r] = NoRestore
    BY <1>3 DEF Kill
  <2>2. InProgress' = {}
    BY <2>1 DEF InProgress, NoRestore, Restoring
  <2>3. QED BY <2>2 DEF RestInv
<1>4. QED BY <1>1, <1>2, <1>3, Steps


\* What a step outside the restores does to the rows, the files and the hands.
LEMMA WorkingKeeps ==
    ASSUME TypeInv, Distinct(media), HeldInv, DeleteInv, Working
    PROVE  /\ Distinct(media)' /\ Ready' /\ DeleteInv'
           /\ Whole => Whole'
<1>1. CASE Edit \/ Queues
  BY <1>1, EditHandled, QueuesHandled, HandledKeeps
<1>2. CASE (\E p \in BOOLEAN : BeginExport(p)) \/ ReadRest \/ Pack
  <2>1. UNCHANGED <<media, files, resolved, deleting, drawing, fetching>>
    BY <1>2 DEF BeginExport, ReadRest, Pack, rows, disk, queues
  <2>2. Loses
    BY <2>1 DEF Loses, Holds
  <2>3. QED BY <2>2, HandledKeeps DEF Handled
<1>3. QED BY <1>1, <1>2 DEF Working

\* The tables an export reads and an archive keeps are tables the catalogue had.
LEMMA CopiesDistinct ==
    ASSUME TypeInv, DistinctInv, Working, Distinct(media)'
    PROVE  DistinctInv'
<1>0. export \in Export /\ export.archive \in Archive
  BY DEF TypeInv, BackupInv, Export
<1>1. CASE Edit \/ Queues
  <2>1. UNCHANGED <<export, archives>>
    BY <1>1 DEF Edit, Resolve, Create, Execute, Update, Mark, Delete, DeleteRow, DeleteFile,
       Queues, Redraw, Migrate, TakeThumb, Draw, DrawFails, SaveThumb, RemoveThumb, Release,
       TakePoster, Fetch, FetchFails, SavePoster, backup
  <2>2. QED BY <2>1 DEF DistinctInv
<1>2. ASSUME NEW p \in BOOLEAN, BeginExport(p) PROVE DistinctInv'
  <2>1. export'.archive.media = media \/ export'.archive.media = NoRows
    BY <1>2 DEF BeginExport, NoArchive
  <2>2. Distinct(NoRows)
    BY DEF Distinct, NoRows
  <2>3. Distinct(export'.archive.media)
    BY <2>1, <2>2 DEF DistinctInv
  <2>4. UNCHANGED archives
    BY <1>2 DEF BeginExport
  <2>5. QED BY <2>3, <2>4 DEF DistinctInv
<1>3. CASE ReadRest
  <2>1. \/ export' = [export EXCEPT !.at = "files", !.archive.marks = marks]
        \/ export' = [export EXCEPT !.at = "files", !.archive.media = media]
    BY <1>3 DEF ReadRest
  <2>2. export'.archive.media = export.archive.media \/ export'.archive.media = media
    <3>1. CASE export' = [export EXCEPT !.at = "files", !.archive.marks = marks]
      <4>1. export'.archive = [export.archive EXCEPT !.marks = marks]
        BY <1>0, <3>1 DEF Export
      <4>2. QED BY <1>0, <4>1 DEF Archive
    <3>2. CASE export' = [export EXCEPT !.at = "files", !.archive.media = media]
      <4>1. export'.archive = [export.archive EXCEPT !.media = media]
        BY <1>0, <3>2 DEF Export
      <4>2. QED BY <1>0, <4>1 DEF Archive
    <3>3. QED BY <2>1, <3>1, <3>2
  <2>3. UNCHANGED archives
    BY <1>3 DEF ReadRest
  <2>4. QED BY <2>2, <2>3 DEF DistinctInv
<1>4. CASE Pack
  <2> DEFINE new == [export.archive EXCEPT !.files = Packed]
  <2>1. new.media = export.archive.media
    BY <1>0 DEF Archive
  <2>2. archives' = archives \cup {new} /\ export' = NoExport
    BY <1>4 DEF Pack
  <2> HIDE DEF new
  <2>3. Distinct(NoExport.archive.media)
    BY DEF Distinct, NoExport, NoArchive, NoRows
  <2>4. \A a \in archives' : Distinct(a.media)
    BY <2>1, <2>2 DEF DistinctInv
  <2>5. QED BY <2>2, <2>3, <2>4 DEF DistinctInv
<1>5. QED BY <1>1, <1>2, <1>3, <1>4 DEF Working

\* What the step FixOrphans of restore r makes of the rows.
LEMMA FixedRows ==
    ASSUME TypeInv, NEW r \in Request, FixOrphans(r)
    PROVE  /\ DOMAIN media' = DOMAIN media
           /\ \A m \in DOMAIN media' :
                 IF m \in DOMAIN restore[r].orphans THEN media'[m].poster \in {None, Remote}
                                                    ELSE media'[m] = media[m]
<1> DEFINE orphans == restore[r].orphans
<1>1. media' = [m \in DOMAIN media |-> IF m \in DOMAIN orphans
                     THEN [media[m] EXCEPT !.poster = orphans[m]] ELSE media[m]]
  BY DEF FixOrphans
<1>2. \A m \in DOMAIN orphans : orphans[m] \in {None, Remote}
  BY DEF TypeInv, BackupInv, Restore, Orphans
<1>3. \A m \in DOMAIN media : media[m] \in Row
  BY Columns DEF TypeInv, RowsInv
<1> HIDE DEF orphans
<1>4. \A m \in DOMAIN media : m \in DOMAIN orphans => media'[m].poster = orphans[m]
  BY <1>1, <1>3 DEF Row
<1>5. \A m \in DOMAIN media : m \notin DOMAIN orphans => media'[m] = media[m]
  BY <1>1
<1>6. DOMAIN media' = DOMAIN media
  BY <1>1
<1>7. QED BY <1>2, <1>4, <1>5, <1>6 DEF orphans

LEMMA RebuildDistinct ==
    ASSUME TypeInv, DistinctInv, NEW r \in Request, Rebuild(r)
    PROVE  DistinctInv'
<1>1. UNCHANGED <<export, archives>>
  BY RebuildFrame
<1>2. SUFFICES Distinct(media')
  BY <1>1 DEF DistinctInv
<1>3. CASE UNCHANGED media
  BY <1>3 DEF DistinctInv
<1>4. ASSUME NEW a \in archives, ReplaceTables(r, a) PROVE Distinct(media')
  BY <1>4 DEF ReplaceTables, DistinctInv, rows
<1>5. CASE FixOrphans(r)
  BY <1>5, FixedRows, Hands DEF DistinctInv, Distinct
<1>6. QED
  BY <1>3, <1>4, <1>5 DEF Rebuild, Stage, StageFails, SetAside, SetAsideFails, Promote,
                          PromoteFails, RollBack, FindOrphans, rows

\* A restore that goes on will look at every row; one that fails leaves the taint.
LEMMA RebuildMends ==
    ASSUME TypeInv, MendedInv, NEW r \in Request, Rebuild(r)
    PROVE  MendedInv'
<1>0. restore \in [Request -> Restore] /\ tainted \in BOOLEAN
  BY DEF TypeInv, BackupInv
<1>1. CASE tainted'
  BY <1>1 DEF MendedInv
<1>2. CASE restore'[r].at \in Restoring \ {"fix"}
  BY <1>2 DEF MendedInv, Mends
<1>3. ASSUME NEW next, To(r, next) PROVE restore'[r] = next
  BY <1>0, <1>3 DEF To
<1>4. ASSUME Fail(r) PROVE tainted'
  BY <1>4 DEF Fail
<1>5. ASSUME NEW a \in archives, ReplaceTables(r, a) PROVE MendedInv'
  <2>1. CASE Consistent(a)
    <3>1. restore'[r] = [NoRestore EXCEPT !.at = IF a.files = {} THEN "refs" ELSE "stage",
                                          !.archive = a]
      BY <1>3, <1>5, <2>1 DEF ReplaceTables
    <3>2. restore'[r].at \in Restoring \ {"fix"}
      BY <3>1 DEF NoRestore, Restoring
    <3>3. QED BY <1>2, <3>2
  <2>2. CASE ~Consistent(a)
    <3>1. /\ restore' = [restore EXCEPT ![r] = NoRestore]
          /\ UNCHANGED <<media, files, tainted>> /\ restore[r].at \in {"idle", "failed"}
      BY <1>5, <2>2 DEF ReplaceTables, To, rows, disk
    <3>2. \A m : ~Mends(r, m)
      BY <3>1 DEF Mends, Restoring
    <3>3. \A x \in Request : \A m : Mends(x, m) => Mends(x, m)'
      BY <1>0, <3>1, <3>2 DEF Mends
    <3>4. QED BY <3>1, <3>3 DEF MendedInv, Missing
  <2>3. QED BY <2>1, <2>2
<1>6. CASE Stage(r)
  <2>1. restore'[r].at = "aside"
    BY <1>0, <1>6 DEF Stage, To, At, Restore
  <2>2. QED BY <1>2, <2>1 DEF Restoring
<1>7. CASE SetAside(r)
  <2>1. restore'[r].at = "promote"
    BY <1>0, <1>7 DEF SetAside, To, At, Restore
  <2>2. QED BY <1>2, <2>1 DEF Restoring
<1>8. CASE Promote(r)
  <2>1. CASE To(r, Promoted(r))
    <3>1. restore'[r] = Promoted(r)
      BY <1>0, <2>1 DEF To
    <3>2. Promoted(r).at \in {"refs", "aside"}
      BY <1>0 DEF Promoted, At, NoRestore, Restore
    <3>3. QED BY <1>2, <3>1, <3>2 DEF Restoring
  <2>2. CASE Fail(r)
    BY <1>1, <1>4, <2>2
  <2>3. QED BY <1>8, <2>1, <2>2 DEF Promote, RollBack
<1>9. CASE StageFails(r) \/ SetAsideFails(r) \/ PromoteFails(r)
  BY <1>1, <1>4, <1>9 DEF StageFails, SetAsideFails, PromoteFails, RollBack
<1>10. CASE FindOrphans(r)
  <2> DEFINE found == {m \in DOMAIN media : Missing(m)}
             orphans == [m \in found |-> media[m].orig]
  <2>1. UNCHANGED <<media, files, tainted>> /\ To(r, [At(r, "fix") EXCEPT !.orphans = orphans])
    BY <1>10 DEF FindOrphans, rows, disk
  <2>2. DOMAIN orphans = found
    OBVIOUS
  <2> HIDE DEF orphans
  <2>3. restore'[r].at = "fix" /\ DOMAIN restore'[r].orphans = found
    BY <1>0, <2>1, <2>2 DEF To, At, Restore
  <2>4. \A m \in DOMAIN media : Missing(m) => Mends(r, m)'
    BY <2>3 DEF Mends
  <2>5. QED BY <2>1, <2>4 DEF MendedInv, Missing
<1>11. CASE FixOrphans(r)
  <2>1. /\ restore' = [restore EXCEPT ![r] = NoRestore] /\ UNCHANGED <<files, tainted>>
        /\ restore[r].at = "fix"
    BY <1>11 DEF FixOrphans, To, disk
  <2>2. SUFFICES ASSUME ~tainted, NEW m \in DOMAIN media', Missing(m)'
                 PROVE  \E x \in Request : Mends(x, m)'
    BY <2>1 DEF MendedInv
  <2>3. /\ m \in DOMAIN media /\ media'[m].poster \notin {None, Remote}
        /\ m \notin DOMAIN restore[r].orphans /\ media'[m] = media[m]
    BY <1>11, <2>2, FixedRows DEF Missing
  <2>4. Missing(m)
    BY <2>1, <2>2, <2>3 DEF Missing
  <2>5. PICK x \in Request : Mends(x, m)
    BY <2>2, <2>3, <2>4 DEF MendedInv
  <2>6. x # r
    BY <2>1, <2>3, <2>5 DEF Mends
  <2>7. Mends(x, m)'
    BY <1>0, <2>1, <2>5, <2>6 DEF Mends
  <2>8. QED BY <2>7
<1>12. QED
  BY <1>5, <1>6, <1>7, <1>8, <1>9, <1>10, <1>11 DEF Rebuild

LEMMA NoneIsNoFile == None \notin File
BY LibraryAssumption DEF File

LEMMA PosterStep ==
    ASSUME ~Overlap, TypeInv, PosterInv, [Next]_vars
    PROVE  PosterInv'
<1> USE DEF PosterInv
<1>1. CASE Working
  <2>1. /\ Distinct(media)' /\ Ready' /\ DeleteInv' /\ (Whole => Whole')
    BY <1>1, WorkingKeeps DEF DistinctInv
  <2>2. DistinctInv'
    BY <1>1, <2>1, CopiesDistinct
  <2>3. HeldInv' /\ RestInv'
    BY <1>1, <2>1, Steps, HeldStep, RestStep
  <2>4. InProgress = {} /\ UNCHANGED tainted
    BY <1>1, WorkingWaits, WorkingFrame
  <2>5. \A r \in Request : \A m : ~Mends(r, m)
    BY <2>4 DEF InProgress, Mends, Restoring
  <2>6. tainted \/ Whole
    BY <2>5 DEF MendedInv, Whole
  <2>7. MendedInv'
    BY <2>1, <2>4, <2>6 DEF MendedInv, Whole
  <2>8. QED BY <2>1, <2>2, <2>3, <2>7
<1>2. ASSUME NEW r \in Request, Rebuild(r) PROVE PosterInv'
  <2>1. DistinctInv' /\ MendedInv' /\ RestInv'
    BY <1>2, RebuildDistinct, RebuildMends, RestStep, Steps
  <2>2. /\ resolved = None /\ drawing.at = "idle" /\ fetching.at = "idle" /\ deleting.at = "idle"
    BY <1>2, RebuildAlone, StillHands
  <2>3. UNCHANGED <<resolved, drawing, fetching, deleting>>
    BY <1>2, RebuildFrame DEF queues
  <2>4. HeldInv' /\ DeleteInv'
    BY <2>2, <2>3, NoneIsNoFile DEF HeldInv, Ready, DeleteInv, Holds
  <2>5. QED BY <2>1, <2>4
<1>3. CASE Kill
  <2>1. /\ resolved' = None /\ drawing'.at = "idle" /\ fetching'.at = "idle"
        /\ deleting'.at = "idle"
    BY <1>3 DEF Kill, Idle, NotDeleting
  <2>2. HeldInv' /\ DeleteInv'
    BY <2>1, NoneIsNoFile DEF HeldInv, Ready, DeleteInv, Holds
  <2>3. DistinctInv'
    <3>1. UNCHANGED <<media, archives>> /\ export' = NoExport
      BY <1>3 DEF Kill, rows
    <3>2. Distinct(NoExport.archive.media)
      BY DEF Distinct, NoExport, NoArchive, NoRows
    <3>3. QED BY <3>1, <3>2 DEF DistinctInv
  <2>4. MendedInv'
    <3>1. UNCHANGED <<media, files>> /\ tainted' = (tainted \/ InProgress # {})
      BY <1>3 DEF Kill, rows, disk
    <3>2. CASE InProgress = {}
      <4>1. \A r \in Request : \A m : ~Mends(r, m)
        BY <3>2 DEF InProgress, Mends, Restoring
      <4>2. tainted \/ \A m \in DOMAIN media : ~Missing(m)
        BY <4>1 DEF MendedInv
      <4>3. QED BY <3>1, <4>2 DEF MendedInv, Missing
    <3>3. CASE InProgress # {}
      BY <3>1, <3>3 DEF MendedInv
    <3>4. QED BY <3>2, <3>3
  <2>5. QED BY <1>3, <2>2, <2>3, <2>4, RestStep, Steps
<1>4. CASE UNCHANGED vars
  <2>1. UNCHANGED <<media, files, resolved, deleting, thumbs, posters, drawing, fetching,
                    export, archives, restore, tainted>>
    BY <1>4 DEF vars, rows, disk, queues, backup
  <2>2. QED
    BY <2>1 DEF DistinctInv, Distinct, HeldInv, Ready, Holds, Named, DeleteInv, RestInv, Still,
               InProgress, MendedInv, Mends, Missing
<1>5. QED BY <1>1, <1>2, <1>3, <1>4, Steps

\* The catalogue names no file that is not there, whatever was edited, drawn,
\* downloaded or deleted, and after every restore of whatever archive, any number of
\* them at a time: outside a restore, and unless one failed or was killed and none has
\* begun alone since.  The catalogue is taken to rest while a restore runs.
THEOREM NothingMissing ==
    ASSUME ~Overlap
    PROVE  Spec => []PostersExist
<1>1. Init => PosterInv
  <2> SUFFICES ASSUME Init PROVE PosterInv
    OBVIOUS
  <2>1. DistinctInv
    BY DEF Init, DistinctInv, Distinct, NoExport, NoArchive, NoRows
  <2>2. HeldInv /\ DeleteInv
    BY NoneIsNoFile DEF Init, Idle, NotDeleting, HeldInv, Ready, DeleteInv, Holds
  <2>3. RestInv
    BY DEF Init, RestInv, InProgress, NoRestore, Restoring
  <2>4. MendedInv
    BY DEF Init, MendedInv, NoRows
  <2>5. QED BY <2>1, <2>2, <2>3, <2>4 DEF PosterInv
<1>2. TypeInv /\ PosterInv /\ [Next]_vars => PosterInv'
  BY PosterStep
<1>3. PosterInv => PostersExist
  <2>1. ASSUME PosterInv, InProgress = {} PROVE \A r \in Request : \A m : ~Mends(r, m)
    BY <2>1 DEF InProgress, Mends, Restoring
  <2>2. QED BY <2>1 DEF PosterInv, MendedInv, PostersExist
<1>4. QED BY <1>1, <1>2, <1>3, Typed, PTL DEF Spec

=============================================================================
