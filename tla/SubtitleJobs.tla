---------------------------- MODULE SubtitleJobs ----------------------------
(***************************************************************************)
(* The subtitle job table and every handler that writes it, for the        *)
(* distributed deployment (LocalWorkerEnabled = false): the /worker/*      *)
(* endpoints of internal/service/subtitle_worker.go, the stale recovery    *)
(* loop, and the admin operations of internal/service/subtitle.go.         *)
(*                                                                         *)
(* A job is named by its media (media_id is unique).  A handler that reads *)
(* a row and later writes it by id holds what it computed from the read in *)
(* call[h] until its UPDATE is executed, so other handlers run in between. *)
(* A handler that is one conditional UPDATE (compare-and-set) is one step. *)
(***************************************************************************)
EXTENDS Integers, FiniteSets

CONSTANTS
    Worker, NoWorker,      \* subtitle_workers.id; the empty worker id
    Job, NoJob,            \* media ids that can have a job row
    CanAudio, CanSubtitle, \* workers with audio_extract / asr_subtitle
    ReportedStage,         \* the stages heartbeats carry
    MaxAttempts,           \* max_attempts of every row
    GlobalMaxConcurrency,  \* cfg.GlobalMaxConcurrency, 0 = no limit
    NoToken, TokenOf,      \* token_id of each registered worker
    Limit,                 \* the concurrency limits of each token, 0 = none
    Handler, Ticker,       \* goroutines; Ticker is runStaleRecoveryLoop
    Isolated,              \* TRUE: a handler's steps are not interleaved
    AdminOps,              \* the admin operations that are used
    Faults,                \* the faults that occur
    Keep                   \* "column not in the UPDATE"

AudioStages    == {"downloading", "extracting", "encoding_intermediate"}
SubtitleStages == {"asr", "translate", "writing"}
Stage  == {"queued", "audio_uploaded", "done"} \cup AudioStages \cup SubtitleStages
\* MISSING: the media has no row (the code's own name for it in admin lists).
Status == {"PENDING", "RUNNING", "DONE", "FAILED", "DISABLED", "MISSING"}
\* A timestamp: NULL, younger than its threshold, older than it.
Stamp  == {"null", "recent", "stale"}
Backoff == {"due", "future"}    \* next_retry_at: NULL or past; future
Line   == {"audio", "subtitle"}

ASSUME WorkerAssumption ==
    /\ NoWorker \notin Worker
    /\ NoJob \notin Job
    /\ CanAudio \subseteq Worker
    /\ CanSubtitle \subseteq Worker
ASSUME BoundAssumption ==
    /\ MaxAttempts \in Nat \ {0}
    /\ GlobalMaxConcurrency \in Nat
    /\ ReportedStage \subseteq Stage
    /\ Isolated \in BOOLEAN
    /\ Ticker \in Handler
ASSUME KeepAssumption ==
    Keep \notin Status \cup Stage \cup Stamp \cup Backoff \cup Worker \cup {NoWorker} \cup Nat

VARIABLES
    job,      \* the subtitle_jobs table
    vtt,      \* jobs whose body is in the subtitle_vtts table
    flac,     \* <<w, j>>: w has the FLAC of j on its disk (outside src/)
    cleanup,  \* <<w, j>>: a cleanup task for j waits in w's broker channel
    call      \* what each handler has read and not yet written

vars == <<job, vtt, flac, cleanup, call>>

-----------------------------------------------------------------------------
(* Rows, partial updates and handlers.                                     *)

WorkerId == Worker \cup {NoWorker}
\* audio_uploaded_at stands for all the audio_artifact_* columns: every
\* UPDATE that sets or clears one sets or clears them all.
Row == [status : Status, stage : Stage,
        claimed_by : WorkerId, audio_worker_id : WorkerId, subtitle_worker_id : WorkerId,
        attempt : 0..MaxAttempts,
        last_heartbeat_at : Stamp, audio_uploaded_at : Stamp, next_retry_at : Backoff]
Column == {"status", "stage", "claimed_by", "audio_worker_id", "subtitle_worker_id",
           "attempt", "last_heartbeat_at", "audio_uploaded_at", "next_retry_at"}

\* The argument of gorm's Updates: a value or Keep for each column.
Update == [status : Status \cup {Keep}, stage : Stage \cup {Keep},
           claimed_by : WorkerId \cup {Keep}, audio_worker_id : WorkerId \cup {Keep},
           subtitle_worker_id : WorkerId \cup {Keep},
           attempt : 0..MaxAttempts \cup {Keep},
           last_heartbeat_at : Stamp \cup {Keep}, audio_uploaded_at : Stamp \cup {Keep},
           next_retry_at : Backoff \cup {Keep}]

NoChange == [status |-> Keep, stage |-> Keep,
             claimed_by |-> Keep, audio_worker_id |-> Keep, subtitle_worker_id |-> Keep,
             attempt |-> Keep,
             last_heartbeat_at |-> Keep, audio_uploaded_at |-> Keep, next_retry_at |-> Keep]

Apply(row, u) == [c \in Column |-> IF u[c] = Keep THEN row[c] ELSE u[c]]

NewRow(status) ==
    [status |-> status, stage |-> "queued",
     claimed_by |-> NoWorker, audio_worker_id |-> NoWorker, subtitle_worker_id |-> NoWorker,
     attempt |-> 0,
     last_heartbeat_at |-> "null", audio_uploaded_at |-> "null", next_retry_at |-> "due"]
Absent == NewRow("MISSING")
Exists(j) == job[j].status # "MISSING"
Running   == {j \in Job : job[j].status = "RUNNING"}

\* claim    : lines still to try          cas   : job selected, CAS not run
\* complete : checked, VTT not stored     write : update not run
\* delete   : VTT dropped, row not deleted  leave : audio-lost not called
Op == {"idle", "claim", "cas", "complete", "write", "delete", "leave"}
Call == [op : Op, worker : WorkerId, job : Job \cup {NoJob}, lines : SUBSET Line,
         update : Update,
         owner : WorkerId,   \* the worker told to clean up when update runs
         live : BOOLEAN]     \* the row with the id that was read still exists
Idle == [op |-> "idle", worker |-> NoWorker, job |-> NoJob, lines |-> {},
         update |-> NoChange, owner |-> NoWorker, live |-> TRUE]

\* A handler may start its first step / a one-step handler may run.
CanStart(h) == /\ call[h] = Idle
               /\ Isolated => \A g \in Handler : call[g] = Idle
CanStep     == Isolated => \A g \in Handler : call[g] = Idle

Init == /\ job = [j \in Job |-> Absent]
        /\ vtt = {}
        /\ flac = {}
        /\ cleanup = {}
        /\ call = [h \in Handler |-> Idle]

\* UPDATE subtitle_jobs SET u WHERE media_id = j, and nothing else.
Set(j, u) == /\ job' = [job EXCEPT ![j] = Apply(@, u)]
             /\ UNCHANGED <<vtt, flac, cleanup, call>>

\* Handler h has computed u from the row of j and will write it by id.
Defer(h, w, j, u, owner) ==
    /\ call' = [call EXCEPT ![h] = [Idle EXCEPT !.op = "write", !.worker = w, !.job = j,
                                                !.update = u, !.owner = owner]]
    /\ UNCHANGED <<job, vtt, flac, cleanup>>

-----------------------------------------------------------------------------
(* Claim.                                                                  *)

Capability(w) == (IF w \in CanAudio THEN {"audio"} ELSE {})
                   \cup (IF w \in CanSubtitle THEN {"subtitle"} ELSE {})
Siblings(w)   == {v \in Worker : TokenOf[v] = TokenOf[w]}
\* Mutant of Within: off by one.
WithinInclusive(limit, jobs) == limit = 0 \/ Cardinality(jobs) <= limit

Within(limit, jobs) == limit = 0 \/ Cardinality(jobs) < limit

Extracting(ws)  == {j \in Running : job[j].stage \in AudioStages /\ job[j].audio_worker_id \in ws}
Subtitling(ws)  == {j \in Running : job[j].stage \in SubtitleStages
                                    /\ job[j].subtitle_worker_id \in ws}
Held(ws)        == {j \in Running : job[j].claimed_by \in ws}

\* The lines on which w may take one more job.  The old total limit of a
\* token counts only when it has neither of the per-line limits.
AllowedLines(w) ==
    IF ~Within(GlobalMaxConcurrency, Running) THEN {}
    ELSE IF TokenOf[w] = NoToken THEN Capability(w)
    ELSE LET lim == Limit[TokenOf[w]] IN
         IF lim.audio = 0 /\ lim.subtitle = 0 /\ ~Within(lim.total, Held(Siblings(w))) THEN {}
         ELSE {l \in Capability(w) :
                 \/ /\ l = "audio"
                    /\ Within(lim.audio, Extracting(Siblings(w)))
                    /\ Within(lim.perWorkerAudio, Extracting({w}))
                 \/ /\ l = "subtitle"
                    /\ Within(lim.subtitle, Subtitling(Siblings(w)))
                    /\ Within(lim.perWorkerSubtitle, Subtitling({w}))}

checkClaimCapacity(h, w) ==
    /\ h # Ticker
    /\ CanStart(h)
    /\ AllowedLines(w) # {}
    /\ call' = [call EXCEPT ![h] = [Idle EXCEPT !.op = "claim", !.worker = w,
                                                !.lines = AllowedLines(w)]]
    /\ UNCHANGED <<job, vtt, flac, cleanup>>

\* The status and stage a row needs to be claimed on a line.
Claimable(line, j) ==
    IF line = "audio" THEN job[j].status = "PENDING" /\ job[j].stage = "queued"
                      ELSE job[j].status = "RUNNING" /\ job[j].stage = "audio_uploaded"
Eligible(line) == {j \in Job : Claimable(line, j) /\ job[j].next_retry_at = "due"}

\* Mutant of ClaimUpdate: subtitle_worker_id is not written.
ClaimUpdateNoSubtitler(line, w) ==
    IF line = "audio"
    THEN [NoChange EXCEPT !.status = "RUNNING", !.stage = "downloading", !.claimed_by = w,
                          !.audio_worker_id = w, !.last_heartbeat_at = "recent"]
    ELSE [NoChange EXCEPT !.stage = "asr", !.claimed_by = w, !.last_heartbeat_at = "recent"]

ClaimUpdate(line, w) ==
    IF line = "audio"
    THEN [NoChange EXCEPT !.status = "RUNNING", !.stage = "downloading", !.claimed_by = w,
                          !.audio_worker_id = w, !.last_heartbeat_at = "recent"]
    ELSE [NoChange EXCEPT !.stage = "asr", !.claimed_by = w,
                          !.subtitle_worker_id = w, !.last_heartbeat_at = "recent"]

\* The line of the SELECT: subtitle work first.
TriedLine(c) == IF "subtitle" \in c.lines THEN "subtitle" ELSE "audio"

\* SELECT ... LIMIT 1 on the line found j (the ORDER BY is left open).
claimSelect(h, j) ==
    /\ call[h].op = "claim"
    /\ call[h].lines # {}
    /\ j \in Eligible(TriedLine(call[h]))
    /\ call' = [call EXCEPT ![h].op = "cas", ![h].job = j]
    /\ UNCHANGED <<job, vtt, flac, cleanup>>

\* Handler h goes on claiming on the given lines, or answers "no job".
Reselect(h, lines) ==
    call' = [call EXCEPT ![h] = IF lines = {} THEN Idle
                                ELSE [Idle EXCEPT !.op = "claim", !.worker = call[h].worker,
                                                  !.lines = lines]]

\* SELECT found nothing: try the next line.
claimNothing(h) ==
    /\ call[h].op = "claim"
    /\ Eligible(TriedLine(call[h])) = {}
    /\ Reselect(h, call[h].lines \ {TriedLine(call[h])})
    /\ UNCHANGED <<job, vtt, flac, cleanup>>

\* Mutant of CasMatches: the UPDATE is by id alone.
CasMatchesById(h) == call[h].live

\* UPDATE ... WHERE id, status and stage are still those of the line.
CasMatches(h) == call[h].live /\ Claimable(TriedLine(call[h]), call[h].job)

tryClaim(h) ==
    /\ call[h].op = "cas"
    /\ CasMatches(h)
    /\ job' = [job EXCEPT ![call[h].job] =
                 Apply(@, ClaimUpdate(TriedLine(call[h]), call[h].worker))]
    /\ call' = [call EXCEPT ![h] = Idle]
    /\ UNCHANGED <<vtt, flac, cleanup>>

\* The CAS matched no row: select again or, after three tries, give up the line.
claimContention(h) ==
    /\ call[h].op = "cas"
    /\ ~CasMatches(h)
    /\ \/ Reselect(h, call[h].lines)
       \/ Reselect(h, call[h].lines \ {TriedLine(call[h])})
    /\ UNCHANGED <<job, vtt, flac, cleanup>>

-----------------------------------------------------------------------------
(* Reports of a worker on a job it holds.  Any worker may send any report  *)
(* at any time: late, repeated and misdirected requests are all possible.  *)

\* The stages a client of w's capabilities reports.
Reports(w) == {s \in ReportedStage : /\ s \in AudioStages => w \in CanAudio
                                     /\ s \in SubtitleStages => w \in CanSubtitle}

WorkerHeartbeat(w, j, stage) ==
    /\ CanStep
    /\ job[j].claimed_by = w
    /\ job[j].status = "RUNNING"
    /\ Set(j, [NoChange EXCEPT !.stage = stage, !.last_heartbeat_at = "recent"])

AudioReadyMatches(w, j) == Exists(j) /\ job[j].claimed_by = w /\ job[j].stage \in AudioStages
\* Mutants of AudioReadyUpdate: the stage name of protocol v2; no metadata.
AudioReadyUpdateV2 ==
    [NoChange EXCEPT !.stage = "audio_complete", !.audio_uploaded_at = "recent",
                     !.claimed_by = NoWorker, !.last_heartbeat_at = "recent"]
AudioReadyUpdateNoMeta ==
    [NoChange EXCEPT !.stage = "audio_uploaded", !.claimed_by = NoWorker,
                     !.last_heartbeat_at = "recent"]

AudioReadyUpdate ==
    [NoChange EXCEPT !.stage = "audio_uploaded", !.audio_uploaded_at = "recent",
                     !.claimed_by = NoWorker, !.last_heartbeat_at = "recent"]

\* The audio worker has written the FLAC to its disk and registers it.  (The
\* server does not check capabilities here; only an audio worker has a FLAC.)
WorkerAudioReady(w, j) ==
    /\ CanStep
    /\ w \in CanAudio
    /\ AudioReadyMatches(w, j)
    /\ job' = [job EXCEPT ![j] = Apply(@, AudioReadyUpdate)]
    /\ flac' = flac \cup {<<w, j>>}
    /\ UNCHANGED <<vtt, cleanup, call>>

LostStages == {"audio_uploaded"} \cup SubtitleStages
\* Mutant of BackToQueue: the stage is not reset.
BackToQueueKeepingStage == [NoChange EXCEPT !.status = "PENDING",
                                !.audio_worker_id = NoWorker, !.subtitle_worker_id = NoWorker,
                                !.audio_uploaded_at = "null"]

\* The columns of a job whose FLAC is given up.
BackToQueue == [NoChange EXCEPT !.status = "PENDING", !.stage = "queued",
                                !.audio_worker_id = NoWorker, !.subtitle_worker_id = NoWorker,
                                !.audio_uploaded_at = "null"]
\* No condition on status.
AudioLostMatches(w, j) == /\ Exists(j)
                          /\ job[j].audio_worker_id = w
                          /\ job[j].stage \in LostStages
ResetUpdate == [BackToQueue EXCEPT !.claimed_by = NoWorker, !.last_heartbeat_at = "null"]

\* The owner, asked for a FLAC, finds that its disk does not hold it.
WorkerAudioLost(w, j) ==
    /\ CanStep
    /\ <<w, j>> \notin flac
    /\ AudioLostMatches(w, j)
    /\ Set(j, ResetUpdate)

\* The second loop of WorkerDeregister, for one of the jobs w only owns the
\* FLAC of: the list is read first, audio-lost is called later.  (The first
\* loop calls WorkerFailWithKind with a neutral kind, like any client.)
WorkerDeregister(h, w, j) ==
    /\ h # Ticker
    /\ CanStart(h)
    /\ job[j].status = "RUNNING"
    /\ job[j].claimed_by # w
    /\ AudioLostMatches(w, j)
    /\ call' = [call EXCEPT ![h] = [Idle EXCEPT !.op = "leave", !.worker = w, !.job = j]]
    /\ UNCHANGED <<job, vtt, flac, cleanup>>

deregisterAudioLost(h) ==
    /\ call[h].op = "leave"
    /\ job' = IF call[h].live /\ AudioLostMatches(call[h].worker, call[h].job)
              THEN [job EXCEPT ![call[h].job] = Apply(@, ResetUpdate)]
              ELSE job
    /\ call' = [call EXCEPT ![h] = Idle]
    /\ UNCHANGED <<vtt, flac, cleanup>>

-----------------------------------------------------------------------------
(* Complete and fail: read and check, then UPDATE ... WHERE id only.       *)

\* claimed_by is left as it is.
DoneUpdate == [NoChange EXCEPT !.status = "DONE", !.stage = "done",
                               !.last_heartbeat_at = "recent"]

\* Only a subtitle worker has a VTT to send; the server does not check that.
WorkerComplete(h, w, j) ==
    /\ h # Ticker
    /\ CanStart(h)
    /\ w \in CanSubtitle
    /\ job[j].claimed_by = w
    /\ job[j].status = "RUNNING"
    /\ call' = [call EXCEPT ![h] = [Idle EXCEPT !.op = "complete", !.worker = w, !.job = j,
                                                !.update = DoneUpdate,
                                                !.owner = job[j].audio_worker_id]]
    /\ UNCHANGED <<job, vtt, flac, cleanup>>

\* The body is stored before the row is marked DONE.
storeVTT(h) ==
    /\ call[h].op = "complete"
    /\ vtt' = vtt \cup {call[h].job}
    /\ call' = [call EXCEPT ![h].op = "write"]
    /\ UNCHANGED <<job, flac, cleanup>>

ErrorKindClass == {"permanent", "neutral", "retriable"}

\* Mutant of applyStageRollback: the audio branch, like the subtitle branch,
\* leaves status alone.
applyStageRollbackKeepingStatus(row) ==
    IF row.stage \in AudioStages
    THEN [NoChange EXCEPT !.stage = "queued", !.audio_worker_id = NoWorker]
    ELSE IF row.stage \in SubtitleStages
    THEN IF row.audio_worker_id # NoWorker
         THEN [NoChange EXCEPT !.stage = "audio_uploaded", !.subtitle_worker_id = NoWorker]
         ELSE BackToQueue
    ELSE [NoChange EXCEPT !.status = "FAILED", !.stage = row.stage]

\* Where a job that did not fail for good goes, by the stage that was read.
applyStageRollback(row) ==
    IF row.stage \in AudioStages
    THEN [NoChange EXCEPT !.status = "PENDING", !.stage = "queued", !.audio_worker_id = NoWorker]
    ELSE IF row.stage \in SubtitleStages
    THEN IF row.audio_worker_id # NoWorker
         THEN [NoChange EXCEPT !.stage = "audio_uploaded", !.subtitle_worker_id = NoWorker]
         ELSE BackToQueue
    ELSE [NoChange EXCEPT !.status = "FAILED", !.stage = row.stage]

\* attempt + 1; past MaxAttempts all values behave alike.
NextAttempt(row) == IF row.attempt < MaxAttempts THEN row.attempt + 1 ELSE MaxAttempts

\* Apart from claimed_by and last_heartbeat_at, which every failure writes.
FailOutcome(row, class) ==
    IF class = "permanent" \/ (class = "retriable" /\ row.attempt + 1 >= MaxAttempts)
    THEN [NoChange EXCEPT !.status = "FAILED", !.attempt = NextAttempt(row)]
    ELSE IF class = "neutral"
    THEN applyStageRollback(row)
    ELSE [applyStageRollback(row) EXCEPT !.attempt = NextAttempt(row),
                                         !.next_retry_at = "future"]
FailUpdate(row, class) == [FailOutcome(row, class) EXCEPT !.claimed_by = NoWorker,
                                                          !.last_heartbeat_at = "recent"]

WorkerFailWithKind(h, w, j, class) ==
    /\ h # Ticker
    /\ CanStart(h)
    /\ Exists(j)
    /\ job[j].claimed_by = w
    /\ Defer(h, w, j, FailUpdate(job[j], class), NoWorker)

\* The deferred UPDATE ... WHERE id of any handler.  It matches nothing when
\* the row that was read is gone; the cleanup task is enqueued all the same.
Write(h) ==
    /\ call[h].op = "write"
    /\ job' = IF call[h].live
              THEN [job EXCEPT ![call[h].job] = Apply(@, call[h].update)]
              ELSE job
    /\ cleanup' = IF call[h].owner = NoWorker THEN cleanup
                  ELSE cleanup \cup {<<call[h].owner, call[h].job>>}
    /\ call' = [call EXCEPT ![h] = Idle]
    /\ UNCHANGED <<vtt, flac>>

-----------------------------------------------------------------------------
(* Stale recovery (recoverStaleJobsOnce), run by the ticker goroutine and  *)
(* at the start of every claim, hence by several goroutines in any order.  *)

Overdue(stamp) == stamp \in {"null", "stale"}

\* Mutant of OverdueAudio: the v2 list of audio stages.
OverdueAudioV2 == {j \in Running : /\ job[j].stage \in {"extracting", "encoding_intermediate"}
                                   /\ Overdue(job[j].last_heartbeat_at)}

\* Step 1: one UPDATE over all overdue audio-stage rows.
OverdueAudio == {j \in Running : /\ job[j].stage \in AudioStages
                                 /\ Overdue(job[j].last_heartbeat_at)}
recoverAudioStages ==
    /\ CanStep
    /\ OverdueAudio # {}
    /\ job' = [j \in Job |->
                 IF j \in OverdueAudio
                 THEN Apply(job[j], [NoChange EXCEPT !.status = "PENDING", !.stage = "queued",
                                                     !.claimed_by = NoWorker,
                                                     !.audio_worker_id = NoWorker,
                                                     !.last_heartbeat_at = "null"])
                 ELSE job[j]]
    /\ UNCHANGED <<vtt, flac, cleanup, call>>

\* Step 2: a FLAC nobody fetched within AudioUploadedTTL; one row of the scan.
recoverAudioUploaded(h, j) ==
    /\ CanStart(h)
    /\ job[j].status = "RUNNING"
    /\ job[j].stage = "audio_uploaded"
    /\ Overdue(job[j].audio_uploaded_at)
    /\ Defer(h, NoWorker, j, ResetUpdate, job[j].audio_worker_id)

\* Step 3: an overdue subtitle-stage row of the scan.
recoverSubtitleStages(h, j) ==
    /\ CanStart(h)
    /\ job[j].status = "RUNNING"
    /\ job[j].stage \in SubtitleStages
    /\ Overdue(job[j].last_heartbeat_at)
    /\ LET target == IF job[j].audio_worker_id # NoWorker
                     THEN [NoChange EXCEPT !.stage = "audio_uploaded",
                                           !.subtitle_worker_id = NoWorker]
                     ELSE BackToQueue
       IN Defer(h, NoWorker, j, [target EXCEPT !.claimed_by = NoWorker,
                                               !.last_heartbeat_at = "null"], NoWorker)

\* Step 4: one UPDATE over the overdue rows of any other stage; here NULL
\* does not count as overdue.
OverdueOther == {j \in Running : /\ job[j].stage \in {"queued", "done"}
                                 /\ job[j].last_heartbeat_at = "stale"}
recoverOtherStages ==
    /\ CanStep
    /\ OverdueOther # {}
    /\ job' = [j \in Job |->
                 IF j \in OverdueOther
                 THEN Apply(job[j], [NoChange EXCEPT !.status = "PENDING", !.stage = "queued",
                                                     !.claimed_by = NoWorker,
                                                     !.audio_worker_id = NoWorker,
                                                     !.subtitle_worker_id = NoWorker,
                                                     !.last_heartbeat_at = "null"])
                 ELSE job[j]]
    /\ UNCHANGED <<vtt, flac, cleanup, call>>

-----------------------------------------------------------------------------
(* Admin operations.                                                       *)

Create(j, status) == /\ job' = [job EXCEPT ![j] = NewRow(status)]
                     /\ UNCHANGED <<vtt, flac, cleanup, call>>

EnsureJobCreate(j) ==
    /\ CanStep
    /\ "ensure" \in AdminOps
    /\ ~Exists(j)
    /\ Create(j, "PENDING")

\* Rows that are not FAILED are left alone.
EnsureJobReset(h, j) ==
    /\ "ensure" \in AdminOps
    /\ h # Ticker
    /\ CanStart(h)
    /\ job[j].status = "FAILED"
    /\ Defer(h, NoWorker, j, [NoChange EXCEPT !.status = "PENDING", !.stage = "queued",
                                              !.attempt = 0, !.next_retry_at = "due"], NoWorker)

\* Retry, BatchRegenerate and /worker/media/:id/retry: whatever the status.
Retry(j) ==
    /\ CanStep
    /\ "retry" \in AdminOps
    /\ IF Exists(j)
       THEN Set(j, [NoChange EXCEPT !.status = "PENDING", !.stage = "queued"])
       ELSE Create(j, "PENDING")

\* SetDisabled and BatchSetDisabled: status is the only column written.
SetDisabled(j, disabled) ==
    /\ CanStep
    /\ (IF disabled THEN "disable" ELSE "enable") \in AdminOps
    /\ LET target == IF disabled THEN "DISABLED" ELSE "PENDING" IN
       IF Exists(j) THEN Set(j, [NoChange EXCEPT !.status = target]) ELSE Create(j, target)

BatchCancel(h, j) ==
    /\ "cancel" \in AdminOps
    /\ h # Ticker
    /\ CanStart(h)
    /\ job[j].status \in {"PENDING", "RUNNING", "FAILED"}
    /\ Defer(h, NoWorker, j, [NoChange EXCEPT !.status = "DISABLED"], NoWorker)

\* The handlers that still hold the id of the row of j write nothing.
RowGone(j, calls) == [h \in Handler |-> IF calls[h].job = j
                                        THEN [calls[h] EXCEPT !.live = FALSE]
                                        ELSE calls[h]]

\* Delete and BatchDelete drop the body, then delete the row by id.
Delete(h, j) ==
    /\ "delete" \in AdminOps
    /\ h # Ticker
    /\ CanStart(h)
    /\ Exists(j)
    /\ vtt' = vtt \ {j}
    /\ call' = [call EXCEPT ![h] = [Idle EXCEPT !.op = "delete", !.job = j]]
    /\ UNCHANGED <<job, flac, cleanup>>

\* Mutant of DeleteRow: the row survives a failed DELETE, as if it were done.
DeleteRowIgnoringErrors(h) ==
    /\ call[h].op = "delete"
    /\ call' = [call EXCEPT ![h] = Idle]
    /\ UNCHANGED <<job, vtt, flac, cleanup>>

DeleteRow(h) ==
    /\ call[h].op = "delete"
    /\ IF call[h].live
       THEN /\ job' = [job EXCEPT ![call[h].job] = Absent]
            /\ call' = RowGone(call[h].job, [call EXCEPT ![h] = Idle])
       ELSE /\ call' = [call EXCEPT ![h] = Idle]
            /\ UNCHANGED job
    /\ UNCHANGED <<vtt, flac, cleanup>>

-----------------------------------------------------------------------------
(* The environment: time, disks, broker tasks, crashes.                    *)

\* last_heartbeat_at passes WorkerStaleThreshold.
HeartbeatAges(j) ==
    /\ job[j].status = "RUNNING"
    /\ job[j].last_heartbeat_at = "recent"
    /\ Set(j, [NoChange EXCEPT !.last_heartbeat_at = "stale"])

\* audio_uploaded_at passes AudioUploadedTTL.
UploadAges(j) ==
    /\ job[j].status = "RUNNING"
    /\ job[j].audio_uploaded_at = "recent"
    /\ Set(j, [NoChange EXCEPT !.audio_uploaded_at = "stale"])

\* next_retry_at passes.
BackoffEnds(j) ==
    /\ job[j].next_retry_at = "future"
    /\ Set(j, [NoChange EXCEPT !.next_retry_at = "due"])

\* The audio worker polls a cleanup task and deletes its FLAC.
AudioCleanup(w, j) ==
    /\ <<w, j>> \in cleanup
    /\ cleanup' = cleanup \ {<<w, j>>}
    /\ flac' = flac \ {<<w, j>>}
    /\ UNCHANGED <<job, vtt, call>>

\* An audio worker restarts and repeats audio-ready for a FLAC on its disk;
\* refused, it deletes the FLAC.
AudioRescan(w, j) ==
    /\ "rescan" \in Faults
    /\ CanStep
    /\ <<w, j>> \in flac
    /\ IF AudioReadyMatches(w, j)
       THEN /\ job' = [job EXCEPT ![j] = Apply(@, AudioReadyUpdate)]
            /\ UNCHANGED flac
       ELSE /\ flac' = flac \ {<<w, j>>}
            /\ UNCHANGED job
    /\ UNCHANGED <<vtt, cleanup, call>>

\* A FLAC disappears from the disk of its owner.
FlacVanishes(w, j) ==
    /\ "flac" \in Faults
    /\ <<w, j>> \in flac
    /\ flac' = flac \ {<<w, j>>}
    /\ UNCHANGED <<job, vtt, cleanup, call>>

\* The server process dies: handlers and broker channels are lost.
Restart ==
    /\ "restart" \in Faults
    /\ call' = [h \in Handler |-> Idle]
    /\ cleanup' = {}
    /\ UNCHANGED <<job, vtt, flac>>

-----------------------------------------------------------------------------

WorkerStep(w, j) ==
    \/ \E stage \in Reports(w) : WorkerHeartbeat(w, j, stage)
    \/ WorkerAudioReady(w, j)
    \/ WorkerAudioLost(w, j)
    \/ AudioCleanup(w, j)
    \/ AudioRescan(w, j)
    \/ FlacVanishes(w, j)

HandlerStep(h) ==
    \/ \E w \in Worker : checkClaimCapacity(h, w)
    \/ \E j \in Job : claimSelect(h, j)
    \/ claimNothing(h)
    \/ tryClaim(h)
    \/ claimContention(h)
    \/ \E w \in Worker, j \in Job : WorkerDeregister(h, w, j) \/ WorkerComplete(h, w, j)
    \/ deregisterAudioLost(h)
    \/ storeVTT(h)
    \/ \E w \in Worker, j \in Job, class \in ErrorKindClass : WorkerFailWithKind(h, w, j, class)
    \/ Write(h)
    \/ \E j \in Job : recoverAudioUploaded(h, j) \/ recoverSubtitleStages(h, j)
    \/ \E j \in Job : EnsureJobReset(h, j) \/ BatchCancel(h, j) \/ Delete(h, j)
    \/ DeleteRow(h)

JobStep(j) ==
    \/ EnsureJobCreate(j)
    \/ Retry(j)
    \/ \E disabled \in BOOLEAN : SetDisabled(j, disabled)
    \/ HeartbeatAges(j)
    \/ UploadAges(j)
    \/ BackoffEnds(j)

Next == \/ \E w \in Worker, j \in Job : WorkerStep(w, j)
        \/ \E h \in Handler : HandlerStep(h)
        \/ \E j \in Job : JobStep(j)
        \/ recoverAudioStages
        \/ recoverOtherStages
        \/ Restart

Spec == Init /\ [][Next]_vars

-----------------------------------------------------------------------------
(* Properties.                                                             *)

\* Every row, deferred update and handler has the shape the columns allow.
TypeOK ==
    /\ job \in [Job -> Row]
    /\ vtt \subseteq Job
    /\ flac \subseteq Worker \X Job
    /\ cleanup \subseteq Worker \X Job
    /\ call \in [Handler -> Call]

\* No job is orphaned: a RUNNING row names the worker that extracts or keeps
\* its audio, and has a claimant unless it waits at audio_uploaded, where a
\* subtitle worker or recovery step 2 can pick it up.  No order of stale
\* UPDATEs by id (fail, complete, recovery, cancel) leaves a RUNNING row that
\* neither a claim nor the recovery looks at.
RunningHasWorker ==
    \A j \in Running : /\ job[j].audio_worker_id # NoWorker
                       /\ job[j].claimed_by = NoWorker => job[j].stage = "audio_uploaded"

\* Claims are exclusive: the table implements JobLease.  A job in progress
\* never passes from one claimant directly to another, and never starts but by
\* a claim: a CAS or a deferred UPDATE, however late, finds a row it cannot
\* take, release twice, or bring back to work.
Phase(row)  == IF row.status # "RUNNING" THEN "off"
               ELSE IF row.claimed_by = NoWorker THEN "waiting" ELSE "held"
Holder(row) == IF row.status = "RUNNING" THEN row.claimed_by ELSE NoWorker
Lease == INSTANCE JobLease WITH phase  <- [j \in Job |-> Phase(job[j])],
                                holder <- [j \in Job |-> Holder(job[j])]
LeaseImplemented == Lease!Spec

\* A DONE job has a body to serve, unless a delete of its row is under way:
\* WorkerComplete stores before it marks, Delete drops before it deletes.
DoneHasBody ==
    \A j \in Job : job[j].status = "DONE" =>
        \/ j \in vtt
        \/ \E h \in Handler : call[h].op = "delete" /\ call[h].job = j /\ call[h].live

\* Without overlapping handlers: a job that waits for a subtitle worker has
\* its artifact registered, so the claim DTO carries size and SHA256.
WaitingHasArtifact ==
    \A j \in Running : job[j].stage = "audio_uploaded" => job[j].audio_uploaded_at # "null"

\* Without overlapping handlers: the per-line columns name the claimant, so
\* the capacity check counts a job against the worker that runs it.
ClaimantIsCounted ==
    \A j \in Running : job[j].claimed_by # NoWorker =>
        /\ job[j].stage \in AudioStages => job[j].audio_worker_id = job[j].claimed_by
        /\ job[j].stage \in SubtitleStages => job[j].subtitle_worker_id = job[j].claimed_by

\* Without overlapping handlers: no token and no worker of a token holds more
\* jobs on a line than its limits say.
LimitsHold ==
    \A w \in Worker : TokenOf[w] # NoToken =>
        LET lim == Limit[TokenOf[w]] IN
        /\ lim.audio = 0 \/ Cardinality(Extracting(Siblings(w))) <= lim.audio
        /\ lim.subtitle = 0 \/ Cardinality(Subtitling(Siblings(w))) <= lim.subtitle
        /\ lim.perWorkerAudio = 0 \/ Cardinality(Extracting({w})) <= lim.perWorkerAudio
        /\ lim.perWorkerSubtitle = 0 \/ Cardinality(Subtitling({w})) <= lim.perWorkerSubtitle

\* What model/enum.go says of permanent failures (line 104): straight to
\* FAILED, and not put back in the queue.  Checked without the admin
\* operations that put a FAILED job back.
FailedIsNotRequeued ==
    [][\A j \in Job : job[j].status = "FAILED" => job'[j].status = "FAILED"]_vars

-----------------------------------------------------------------------------
(* Fairness.                                                               *)

\* The ticker goroutine runs a pass every StaleRecoveryInterval, and a pass
\* visits every row its scans find.
RecoveryFairness ==
    /\ WF_vars(recoverAudioStages)
    /\ WF_vars(recoverOtherStages)
    /\ \A j \in Job : /\ SF_vars(recoverAudioUploaded(Ticker, j))
                      /\ SF_vars(recoverSubtitleStages(Ticker, j))
    /\ WF_vars(Write(Ticker))
RecoverySpec == Spec /\ RecoveryFairness

\* A handler that has started ends.
Resume(h) == \/ \E j \in Job : claimSelect(h, j)
             \/ claimNothing(h)
             \/ tryClaim(h)
             \/ claimContention(h)
             \/ deregisterAudioLost(h)
             \/ storeVTT(h)
             \/ Write(h)
             \/ DeleteRow(h)

\* w polls while there is a job it may take.
PollsForWork(w) == \E h \in Handler : /\ checkClaimCapacity(h, w)
                                      /\ \E line \in AllowedLines(w) : Eligible(line) # {}

\* Moreover time passes, clients poll often enough to meet the work there is,
\* and one that gets work again and again carries one piece of it through.
CooperativeSpec ==
    /\ RecoverySpec
    /\ \A h \in Handler : WF_vars(Resume(h))
    /\ \A j \in Job : WF_vars(BackoffEnds(j)) /\ WF_vars(UploadAges(j))
    /\ \A w \in Worker : SF_vars(PollsForWork(w))
    /\ \A w \in Worker, j \in Job :
         /\ SF_vars(WorkerAudioReady(w, j))
         /\ SF_vars(\E h \in Handler : WorkerComplete(h, w, j))

\* A job whose claimant has been silent for WorkerStaleThreshold is taken
\* from it (or heard of again), wherever in its stages it stands.
SilentClaimantIsReplaced ==
    \A j \in Job :
        LET silent == /\ job[j].status = "RUNNING"
                      /\ job[j].claimed_by # NoWorker
                      /\ job[j].last_heartbeat_at = "stale"
        IN silent ~> ~silent

\* A queued job is eventually done, or leaves the queue by a decision: it has
\* failed, or an admin disabled or deleted it.
EveryJobSettles ==
    \A j \in Job : job[j].status = "PENDING" ~> job[j].status \notin {"PENDING", "RUNNING"}

=============================================================================
