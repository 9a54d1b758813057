------------------------------ MODULE Library ------------------------------
(* The catalogue's artwork and its backups: service/media.go, poster.go,      *)
(* thumbnail.go, import.go and backup.go.  A row of media names its poster: a  *)
(* remote URL or a file of uploads/posters or uploads/thumbnails.  The         *)
(* database has one connection, so a statement and a transaction are atomic;   *)
(* nothing makes the database and the files change together.                   *)
EXTENDS Integers, Sequences, FiniteSets, SequencesExt, Functions

CONSTANTS
    Media, Poster, Thumb, \* ids, and file names of posters/ and thumbnails/ (uuids)
    Request,              \* requests that restore an archive
    QueueSize,            \* of the thumbnail queue and of the poster queue
    MaxArchives,          \* bound of the model: archives that are made
    Overlap,              \* whether the catalogue may be edited during a restore
    Faults,               \* whether writing or renaming in uploads/ may fail
    None, Remote

ASSUME LibraryAssumption ==
    /\ QueueSize \in Nat \ {0} /\ MaxArchives \in Nat
    /\ {Overlap, Faults} \subseteq BOOLEAN
    /\ Poster \cap Thumb = {} /\ {None, Remote} \cap (Poster \cup Thumb) = {}
    /\ None \notin Media /\ None # Remote

VARIABLES
    media, marks,       \* rows of media; media that a row (favourite, item, ...) refers to
    dirs, files,        \* directories and files below uploads/
    resolved,           \* a poster that a create or an update has downloaded
    deleting,           \* MediaService.Delete
    thumbs, enqueuedIDs, drawing, \* ThumbnailQueue and its worker
    posters, fetching,  \* PosterDownloader and its worker
    export, archives,   \* a backup being made, and those that were
    restore,            \* the restores
    tainted             \* history: one failed since the last that began alone

disk == <<dirs, files>>
rows == <<media, marks>>
queues == <<thumbs, enqueuedIDs, drawing, posters, fetching>>
backup == <<export, archives, restore, tainted>>
vars == <<rows, disk, resolved, deleting, queues, backup>>

File == Poster \cup Thumb
\* In the order of os.ReadDir and filepath.Walk.
Dirs == <<"posters", "thumbnails">>
Dir == ToSet(Dirs)
In(d) == IF d = "posters" THEN Poster ELSE Thumb
InAny(ds) == UNION {In(d) : d \in ds}

Row == [poster : File \cup {None, Remote}, orig : {None, Remote}]
Table == UNION {[S -> Row] : S \in SUBSET Media}
NoRows == [m \in {} |-> None]
Archive == [media : Table, marks : SUBSET Media, files : SUBSET File]
NoArchive == [media |-> NoRows, marks |-> {}, files |-> {}]

Idle == [at |-> "idle", media |-> None, file |-> None]
NotDeleting == [at |-> "idle", media |-> None, poster |-> None]
NoExport == [at |-> "idle", posters |-> TRUE, archive |-> NoArchive]
\* A restore: the archive, the directories still to be switched and those that are,
\* what lies in .staging-old, and the references cleanOrphanPosterRefs found.
NoRestore == [at |-> "idle", archive |-> NoArchive, left |-> <<>>, done |-> {},
              oldDirs |-> {}, old |-> {}, orphans |-> NoRows]
Restoring == {"stage", "aside", "promote", "refs", "fix"}

Init == /\ media = NoRows /\ marks = {}
        /\ dirs = {} /\ files = {}
        /\ resolved = None /\ deleting = NotDeleting
        /\ thumbs = <<>> /\ enqueuedIDs = {} /\ drawing = Idle
        /\ posters = <<>> /\ fetching = Idle
        /\ export = NoExport /\ archives = {}
        /\ restore = [r \in Request |-> NoRestore]
        /\ tainted = FALSE

InProgress == {r \in Request : restore[r].at \in Restoring}
MayEdit == Overlap \/ InProgress = {}
Still == /\ resolved = None /\ thumbs = <<>> /\ posters = <<>>
         /\ {deleting.at, drawing.at, fetching.at, export.at} = {"idle"}

\* Every download and every thumbnail has a new name.
Fresh(f) == /\ f \notin files \cup {resolved, drawing.file, fetching.file, deleting.poster}
            /\ \A m \in DOMAIN media : media[m].poster # f
            /\ \A a \in archives \cup {restore[r].archive : r \in Request} \cup {export.archive} :
                   f \notin a.files /\ \A m \in DOMAIN a.media : a.media[m].poster # f
            /\ \A r \in Request : f \notin restore[r].old
Write(d, f) == dirs' = dirs \cup {d} /\ files' = files \cup {f}

-----------------------------------------------------------------------------
(* The catalogue.                                                             *)

\* ThumbnailQueue.Enqueue: a medium that is waiting, or being drawn, is not added.
EnqueueThumb(m) ==
    IF m \in enqueuedIDs \/ Len(thumbs) = QueueSize
    THEN UNCHANGED <<thumbs, enqueuedIDs>>
    ELSE thumbs' = Append(thumbs, m) /\ enqueuedIDs' = enqueuedIDs \cup {m}

\* PosterDownloader.EnqueueMigrate: dropped when the queue is full.
EnqueueMigrate(m) ==
    posters' = IF Len(posters) < QueueSize THEN Append(posters, m) ELSE posters

\* PosterDownloader.Resolve, when downloadExternalPosters is on: the create or update
\* downloads the poster before it writes.
Resolve(f) ==
    /\ MayEdit /\ resolved = None /\ Fresh(f)
    /\ Write("posters", f)
    /\ resolved' = f
    /\ UNCHANGED <<rows, deleting, queues, backup>>

\* What a new row may name: nothing, a URL that stays remote, one that was downloaded.
Chosen == [poster : {Remote, resolved} \ {None}, orig : {Remote}]
              \cup {[poster |-> None, orig |-> None]}
Used(poster) == IF poster = resolved THEN None ELSE resolved

\* MediaService.Create.
Create(m, row) ==
    /\ MayEdit /\ m \notin DOMAIN media /\ row \in Chosen
    /\ media' = [x \in DOMAIN media \cup {m} |-> IF x = m THEN row ELSE media[x]]
    /\ resolved' = Used(row.poster)
    /\ IF row.poster = None THEN EnqueueThumb(m) ELSE UNCHANGED <<thumbs, enqueuedIDs>>
    /\ UNCHANGED <<marks, disk, deleting, drawing, posters, fetching, backup>>

\* A row of ImportService.Execute: its poster is not downloaded before the insert, but
\* left out, and drawn from the video, or left to the poster queue.
Execute(m) ==
    /\ MayEdit /\ m \notin DOMAIN media
    /\ \E row \in [poster : {None}, orig : {None, Remote}]
                \cup [poster : {Remote}, orig : {Remote}] :
         /\ media' = [x \in DOMAIN media \cup {m} |-> IF x = m THEN row ELSE media[x]]
         /\ IF row.poster = None THEN EnqueueThumb(m) /\ UNCHANGED posters
                                 ELSE EnqueueMigrate(m) /\ UNCHANGED <<thumbs, enqueuedIDs>>
    /\ UNCHANGED <<marks, disk, resolved, deleting, drawing, fetching, backup>>

\* MediaService.Update: the file that was the poster stays on the disk, and so does
\* a download for a medium that has gone.
Update(m, poster) ==
    /\ MayEdit /\ poster \in {Remote, resolved} \ {None}
    /\ media' = IF m \in DOMAIN media
                THEN [media EXCEPT ![m] = [poster |-> poster, orig |-> Remote]]
                ELSE media
    /\ resolved' = Used(poster)
    /\ UNCHANGED <<marks, disk, deleting, queues, backup>>

\* FavoriteService.Toggle; PlaylistService and WatchHistoryService refer to media alike.
Mark(m) ==
    /\ MayEdit /\ m \in DOMAIN media
    /\ marks' = (marks \ {m}) \cup ({m} \ marks)
    /\ UNCHANGED <<media, disk, resolved, deleting, queues, backup>>

\* MediaService.Delete: it reads the row, deletes it with all that refers to it, then
\* removes the file the row named when it was read.
Delete(m) ==
    /\ MayEdit /\ deleting.at = "idle" /\ m \in DOMAIN media
    /\ deleting' = [at |-> "row", media |-> m, poster |-> media[m].poster]
    /\ UNCHANGED <<rows, disk, resolved, queues, backup>>

\* Mutant of DeleteRow: rows that refer to the medium stay.
DeleteRowAlone ==
    /\ deleting.at = "row"
    /\ media' = Restrict(media, DOMAIN media \ {deleting.media})
    /\ deleting' = [deleting EXCEPT !.at = "file"]
    /\ UNCHANGED <<marks, disk, resolved, queues, backup>>
DeleteRow ==
    /\ deleting.at = "row"
    /\ media' = Restrict(media, DOMAIN media \ {deleting.media})
    /\ marks' = marks \ {deleting.media}
    /\ deleting' = [deleting EXCEPT !.at = "file"]
    /\ UNCHANGED <<disk, resolved, queues, backup>>

DeleteFile ==
    /\ deleting.at = "file"
    /\ files' = files \ {deleting.poster}
    /\ deleting' = NotDeleting
    /\ UNCHANGED <<rows, dirs, resolved, queues, backup>>

-----------------------------------------------------------------------------
(* The two queues.                                                            *)

\* generateThumbnails asks for media without a poster, regenerateThumbnail for any.
Redraw(m) ==
    /\ MayEdit /\ m \in DOMAIN media
    /\ EnqueueThumb(m)
    /\ UNCHANGED <<rows, disk, resolved, deleting, drawing, posters, fetching, backup>>

\* Mutant of TakeThumb: the mark goes when the task is taken.
TakeThumbUnmarks ==
    /\ MayEdit /\ drawing.at = "idle" /\ thumbs # <<>>
    /\ drawing' = [Idle EXCEPT !.at = "draw", !.media = Head(thumbs)]
    /\ thumbs' = Tail(thumbs) /\ enqueuedIDs' = enqueuedIDs \ {Head(thumbs)}
    /\ UNCHANGED <<rows, disk, resolved, deleting, posters, fetching, backup>>
TakeThumb ==
    /\ MayEdit /\ drawing.at = "idle" /\ thumbs # <<>>
    /\ drawing' = [Idle EXCEPT !.at = "draw", !.media = Head(thumbs)]
    /\ thumbs' = Tail(thumbs)
    /\ UNCHANGED <<rows, disk, resolved, deleting, enqueuedIDs, posters, fetching, backup>>

\* The ffmpeg processor: a file, or a failure.
Draw(f) ==
    /\ drawing.at = "draw" /\ Fresh(f)
    /\ Write("thumbnails", f)
    /\ drawing' = [drawing EXCEPT !.at = "save", !.file = f]
    /\ UNCHANGED <<rows, resolved, deleting, thumbs, enqueuedIDs, posters, fetching, backup>>

DrawFails ==
    /\ drawing.at = "draw"
    /\ drawing' = [drawing EXCEPT !.at = "release"]
    /\ UNCHANGED <<rows, disk, resolved, deleting, thumbs, enqueuedIDs, posters, fetching, backup>>

\* Mutant of Unillustrated: by id alone.
Present(m) == m \in DOMAIN media
\* The rows the UPDATE of the processor finds.
Unillustrated(m) == m \in DOMAIN media /\ media[m].poster = None

SaveThumb ==
    /\ drawing.at = "save"
    /\ IF Unillustrated(drawing.media)
       THEN /\ media' = [media EXCEPT ![drawing.media].poster = drawing.file]
            /\ drawing' = [drawing EXCEPT !.at = "release"]
       ELSE /\ drawing' = [drawing EXCEPT !.at = "remove"]
            /\ UNCHANGED media
    /\ UNCHANGED <<marks, disk, resolved, deleting, thumbs, enqueuedIDs, posters, fetching, backup>>

RemoveThumb ==
    /\ drawing.at = "remove"
    /\ files' = files \ {drawing.file}
    /\ drawing' = [drawing EXCEPT !.at = "release"]
    /\ UNCHANGED <<rows, dirs, resolved, deleting, thumbs, enqueuedIDs, posters, fetching, backup>>

Release ==
    /\ drawing.at = "release"
    /\ enqueuedIDs' = enqueuedIDs \ {drawing.media}
    /\ drawing' = Idle
    /\ UNCHANGED <<rows, disk, resolved, deleting, thumbs, posters, fetching, backup>>

\* migratePosters, retryPosters, and an import that downloads its posters.
Migrate(m) ==
    /\ MayEdit /\ m \in DOMAIN media /\ media[m].poster = Remote
    /\ EnqueueMigrate(m)
    /\ UNCHANGED <<rows, disk, resolved, deleting, thumbs, enqueuedIDs, drawing, fetching, backup>>

TakePoster ==
    /\ MayEdit /\ fetching.at = "idle" /\ posters # <<>>
    /\ fetching' = [Idle EXCEPT !.at = "fetch", !.media = Head(posters)]
    /\ posters' = Tail(posters)
    /\ UNCHANGED <<rows, disk, resolved, deleting, thumbs, enqueuedIDs, drawing, backup>>

Fetch(f) ==
    /\ fetching.at = "fetch" /\ Fresh(f)
    /\ Write("posters", f)
    /\ fetching' = [fetching EXCEPT !.at = "save", !.file = f]
    /\ UNCHANGED <<rows, resolved, deleting, thumbs, enqueuedIDs, drawing, posters, backup>>

FetchFails ==
    /\ fetching.at = "fetch"
    /\ fetching' = Idle
    /\ UNCHANGED <<rows, disk, resolved, deleting, thumbs, enqueuedIDs, drawing, posters, backup>>

\* onDownloaded: whatever the row names by now.
SavePoster ==
    /\ fetching.at = "save"
    /\ media' = IF fetching.media \in DOMAIN media
                THEN [media EXCEPT ![fetching.media] = [poster |-> fetching.file, orig |-> Remote]]
                ELSE media
    /\ fetching' = Idle
    /\ UNCHANGED <<marks, disk, resolved, deleting, thumbs, enqueuedIDs, drawing, posters, backup>>

-----------------------------------------------------------------------------
(* Backups.                                                                   *)

\* buildBackupJSON: every table is read by a query of its own, in any order.
BeginExport(withPosters) ==
    /\ MayEdit /\ export.at = "idle" /\ Cardinality(archives) < MaxArchives
    /\ \/ export' = [at |-> "marks", posters |-> withPosters,
                     archive |-> [NoArchive EXCEPT !.media = media]]
       \/ export' = [at |-> "media", posters |-> withPosters,
                     archive |-> [NoArchive EXCEPT !.marks = marks]]
    /\ UNCHANGED <<rows, disk, resolved, deleting, queues, archives, restore, tainted>>

ReadRest ==
    /\ \/ /\ export.at = "marks"
          /\ export' = [export EXCEPT !.at = "files", !.archive.marks = marks]
       \/ /\ export.at = "media"
          /\ export' = [export EXCEPT !.at = "files", !.archive.media = media]
    /\ UNCHANGED <<rows, disk, resolved, deleting, queues, archives, restore, tainted>>

\* writeUploadsDir
Packed == IF export.posters THEN files ELSE files \ Poster

\* ExportToFile and ExportToStream, from the files to the finished archive.
Pack ==
    /\ export.at = "files"
    /\ archives' = archives \cup {[export.archive EXCEPT !.files = Packed]}
    /\ export' = NoExport
    /\ UNCHANGED <<rows, disk, resolved, deleting, queues, restore, tainted>>

To(r, next) == restore' = [restore EXCEPT ![r] = next]
At(r, step) == [restore[r] EXCEPT !.at = step]
Rest == UNCHANGED <<resolved, deleting, queues, export, archives>>

\* Rows of the archive whose medium is not in it break a foreign key.
Consistent(a) == a.marks \subseteq DOMAIN a.media

\* SaveUploadedBackup, ConsumeRestore, which hands the upload to one restore, and
\* ImportFromFile with its transaction: all tables are emptied and written again.
ReplaceTables(r, a) ==
    /\ restore[r].at \in {"idle", "failed"} /\ a \in archives
    /\ Overlap \/ Still
    /\ IF Consistent(a)
       THEN /\ media' = a.media /\ marks' = a.marks
            /\ To(r, [NoRestore EXCEPT !.at = IF a.files = {} THEN "refs" ELSE "stage",
                                       !.archive = a])
            /\ tainted' = (tainted /\ InProgress # {})
       ELSE /\ To(r, NoRestore)
            /\ UNCHANGED <<rows, tainted>>
    /\ UNCHANGED disk /\ Rest

Fail(r) == To(r, [NoRestore EXCEPT !.at = "failed"]) /\ tainted' = TRUE

\* restoreUploads unpacks below .staging-new, on the file system of uploads/; a
\* directory of which the archive has no file is left alone.
Stage(r) ==
    /\ restore[r].at = "stage"
    /\ LET here(d) == IF restore[r].archive.files \cap In(d) = {} THEN <<>> ELSE <<d>>
       IN To(r, [At(r, "aside") EXCEPT !.left = here(Dirs[1]) \o here(Dirs[2])])
    /\ UNCHANGED <<rows, disk, tainted>> /\ Rest

StageFails(r) ==
    /\ Faults /\ restore[r].at = "stage"
    /\ Fail(r)
    /\ UNCHANGED <<rows, disk>> /\ Rest

\* rename(2) onto a directory works when that is missing or empty.
Vacant(d, fs) == In(d) \cap fs = {}

\* The directories, and their files, that the roll back moves out of .staging-old
\* again: the ones that were switched, and "current" when its new files did not go in.
\* (Those that were switched have the new files in place, so the rename fails.)
Back(r, current) ==
    {d \in (restore[r].done \cup current) \cap restore[r].oldDirs : Vacant(d, files)}

\* The deferred function then removes .staging-old.
RollBack(r, current) ==
    /\ dirs' = dirs \cup Back(r, current)
    /\ files' = files \cup (restore[r].old \cap InAny(Back(r, current)))
    /\ Fail(r)
    /\ UNCHANGED rows /\ Rest

\* The directory in place goes to .staging-old,
SetAside(r) ==
    /\ restore[r].at = "aside"
    /\ LET d == Head(restore[r].left)
       IN /\ To(r, IF d \in dirs
                   THEN [At(r, "promote") EXCEPT !.oldDirs = @ \cup {d},
                                                 !.old = @ \cup (files \cap In(d))]
                   ELSE At(r, "promote"))
          /\ dirs' = dirs \ {d} /\ files' = files \ In(d)
    /\ UNCHANGED <<rows, tainted>> /\ Rest

SetAsideFails(r) ==
    /\ Faults /\ restore[r].at = "aside" /\ Head(restore[r].left) \in dirs
    /\ RollBack(r, {})

\* ... and the new one to its place.
\* Mutant of Promoted: the references are not looked at.
PromotedUnchecked(r) ==
    IF Tail(restore[r].left) = <<>> THEN NoRestore
    ELSE [At(r, "aside") EXCEPT !.left = Tail(@), !.done = @ \cup {Head(restore[r].left)}]
Promoted(r) ==
    LET d == Head(restore[r].left)
        left == Tail(restore[r].left)
    IN IF left = <<>> THEN [NoRestore EXCEPT !.at = "refs", !.archive = restore[r].archive]
       ELSE [At(r, "aside") EXCEPT !.left = left, !.done = @ \cup {d}]

Promote(r) ==
    /\ restore[r].at = "promote"
    /\ LET d == Head(restore[r].left)
       IN IF Vacant(d, files)
          THEN /\ dirs' = dirs \cup {d}
               /\ files' = files \cup (restore[r].archive.files \cap In(d))
               /\ To(r, Promoted(r))
               /\ UNCHANGED <<rows, tainted>> /\ Rest
          ELSE RollBack(r, {d})

PromoteFails(r) ==
    /\ Faults /\ restore[r].at = "promote"
    /\ RollBack(r, {Head(restore[r].left)})

\* cleanOrphanPosterRefs: the rows whose file is not there ...
Missing(m) == media[m].poster \notin files \cup {None, Remote}
FindOrphans(r) ==
    /\ restore[r].at = "refs"
    /\ LET found == {m \in DOMAIN media : Missing(m)}
       IN To(r, [At(r, "fix") EXCEPT !.orphans = [m \in found |-> media[m].orig]])
    /\ UNCHANGED <<rows, disk, tainted>> /\ Rest

\* ... go back to the URL their poster came from.
FixOrphans(r) ==
    /\ restore[r].at = "fix"
    /\ media' = [m \in DOMAIN media |->
                    IF m \in DOMAIN restore[r].orphans
                    THEN [media[m] EXCEPT !.poster = restore[r].orphans[m]] ELSE media[m]]
    /\ To(r, NoRestore)
    /\ UNCHANGED <<marks, disk, tainted>> /\ Rest

\* The server stops: what is in memory is gone, .staging-old is never looked at again.
Kill ==
    /\ resolved' = None /\ deleting' = NotDeleting
    /\ thumbs' = <<>> /\ enqueuedIDs' = {} /\ drawing' = Idle
    /\ posters' = <<>> /\ fetching' = Idle
    /\ export' = NoExport
    /\ restore' = [r \in Request |-> NoRestore]
    /\ tainted' = (tainted \/ InProgress # {})
    /\ UNCHANGED <<rows, disk, archives>>

-----------------------------------------------------------------------------
Edit == \/ \E f \in Poster : Resolve(f)
        \/ \E m \in Media : \/ \E row \in Row : Create(m, row)
                            \/ \E p \in Poster \cup {Remote} : Update(m, p)
                            \/ Execute(m) \/ Mark(m) \/ Delete(m)
        \/ DeleteRow \/ DeleteFile

Queues == \/ \E m \in Media : Redraw(m) \/ Migrate(m)
          \/ TakeThumb \/ (\E f \in Thumb : Draw(f)) \/ DrawFails
          \/ SaveThumb \/ RemoveThumb \/ Release
          \/ TakePoster \/ (\E f \in Poster : Fetch(f)) \/ FetchFails \/ SavePoster

Backup == \/ (\E p \in BOOLEAN : BeginExport(p)) \/ ReadRest \/ Pack
          \/ \E r \in Request :
                \/ \E a \in archives : ReplaceTables(r, a)
                \/ Stage(r) \/ StageFails(r)
                \/ SetAside(r) \/ SetAsideFails(r) \/ Promote(r) \/ PromoteFails(r)
                \/ FindOrphans(r) \/ FixOrphans(r)

Next == Edit \/ Queues \/ Backup \/ Kill

Spec == Init /\ [][Next]_vars

-----------------------------------------------------------------------------
\* The state has its shape.  A switched directory is vacant or holds files of one
\* origin, and what lies in .staging-old has left uploads/.
TypeOK ==
    /\ DOMAIN media \subseteq Media /\ Range(media) \subseteq Row
    /\ marks \subseteq DOMAIN media
    /\ dirs \subseteq Dir /\ files \subseteq InAny(dirs)
    /\ resolved \in Poster \cup {None}
    /\ deleting.at \in {"idle", "row", "file"}
    /\ Len(thumbs) \leq QueueSize /\ Len(posters) \leq QueueSize
    /\ drawing.at \in {"idle", "draw", "save", "remove", "release"}
    /\ fetching.at \in {"idle", "fetch", "save"}
    /\ export.at \in {"idle", "marks", "media", "files"}
    /\ \A a \in archives : a.files \subseteq File /\ DOMAIN a.media \subseteq Media
    /\ \A r \in Request : restore[r].at \in
           Restoring \cup {"idle", "failed"}

\* A local poster of the catalogue is a file that exists, whatever was edited, drawn,
\* downloaded or deleted, and after every restore of whatever archive, two at a time
\* included: cleanOrphanPosterRefs comes after the files, and every restore runs it
\* (backup.go:517-518).  Not while a restore runs, nor after one that failed or was
\* killed until another has begun alone.
PostersExist ==
    tainted \/ InProgress # {} \/ \A m \in DOMAIN media : ~Missing(m)

\* A medium is marked as waiting exactly while a task of it waits or is being drawn
\* (thumbnail.go:73-91, 108-130): a mark that is left behind would keep the medium
\* from ever being drawn again, one that goes early would have it drawn twice.
MarkedWhileWaiting ==
    /\ IsInjective(thumbs)
    /\ drawing.media \notin ToSet(thumbs)
    /\ enqueuedIDs = ToSet(thumbs) \cup ({drawing.media} \ {None})

\* A thumbnail takes the place of no poster, though the processor works for minutes
\* on what it was told of the row (thumbnail.go:133-134).
ThumbnailsYield ==
    [][\A m \in DOMAIN media \cap DOMAIN media' :
          media'[m].poster \in Thumb /\ restore' = restore
          => media[m].poster \in {None, media'[m].poster}]_vars

\* A restore that fails takes no file from the disk that the catalogue names
\* (backup.go:880-891).
OnDisk(f) == f \in files \/ \E r \in Request : f \in restore[r].old
FailureLosesNothing ==
    [][\A r \in Request, m \in DOMAIN media :
          restore[r].at # "failed" /\ restore'[r].at = "failed" /\ OnDisk(media[m].poster)
          => OnDisk(media[m].poster)']_vars

=============================================================================
