------------------------ MODULE SubtitleJobs_proofs ------------------------
(* Theorems about SubtitleJobs, for every value of its constants.          *)
EXTENDS SubtitleJobs, FiniteSetTheorems, TLAPS

-----------------------------------------------------------------------------
(* Rows and updates.                                                       *)

\* An UPDATE with values of the right types leaves a row a row.
LEMMA ApplyType ==
    ASSUME NEW r \in Row, NEW u \in Update
    PROVE  Apply(r, u) \in Row
BY DEF Apply, Column, Row, Update

\* The UPDATE that changes nothing is an UPDATE.
LEMMA NoChangeType == NoChange \in Update
BY DEF NoChange, Update

\* A row as EnsureJob, Retry and SetDisabled create it is a row.
LEMMA NewRowType == ASSUME NEW s \in Status PROVE NewRow(s) \in Row
BY BoundAssumption DEF NewRow, Row, WorkerId, Stage, Stamp, Backoff

\* The UPDATEs of audio-ready, audio-lost and complete set columns to values
\* they can have.
LEMMA ConstantUpdates ==
    /\ AudioReadyUpdate \in Update
    /\ BackToQueue \in Update
    /\ ResetUpdate \in Update
    /\ DoneUpdate \in Update
<1>1. AudioReadyUpdate \in Update
  BY NoChangeType DEF AudioReadyUpdate, Update, WorkerId, Stage, Stamp
<1>2. BackToQueue \in Update
  BY NoChangeType DEF BackToQueue, Update, WorkerId, Status, Stage, Stamp
<1>3. ResetUpdate \in Update
  BY <1>2 DEF ResetUpdate, Update, WorkerId, Stamp
<1>4. DoneUpdate \in Update
  BY NoChangeType DEF DoneUpdate, Update, Status, Stage, Stamp
<1>5. QED BY <1>1, <1>2, <1>3, <1>4

\* So do the two CAS UPDATEs of a claim.
LEMMA ClaimUpdateType ==
    ASSUME NEW line, NEW w \in WorkerId
    PROVE  ClaimUpdate(line, w) \in Update
BY NoChangeType
DEF ClaimUpdate, Update, WorkerId, Status, Stage, Stamp, AudioStages, SubtitleStages

\* So does the rollback of a failed stage, whatever row it was computed from.
LEMMA RollbackType ==
    ASSUME NEW r \in Row
    PROVE  applyStageRollback(r) \in Update
<1>1. [NoChange EXCEPT !.status = "PENDING", !.stage = "queued", !.audio_worker_id = NoWorker]
        \in Update
  BY NoChangeType DEF Update, WorkerId, Status, Stage
<1>2. [NoChange EXCEPT !.stage = "audio_uploaded", !.subtitle_worker_id = NoWorker] \in Update
  BY NoChangeType DEF Update, WorkerId, Stage
<1>3. [NoChange EXCEPT !.status = "FAILED", !.stage = r.stage] \in Update
  BY NoChangeType DEF Update, Row, Status
<1>4. QED BY <1>1, <1>2, <1>3, ConstantUpdates DEF applyStageRollback

\* The attempt counter stays within max_attempts.
LEMMA NextAttemptType ==
    ASSUME NEW r \in Row
    PROVE  NextAttempt(r) \in 0..MaxAttempts
BY BoundAssumption DEF NextAttempt, Row

\* So the UPDATE of WorkerFailWithKind is one, for every kind of error.
LEMMA FailUpdateType ==
    ASSUME NEW r \in Row, NEW class
    PROVE  FailUpdate(r, class) \in Update
<1>1. FailOutcome(r, class) \in Update
  <2>1. CASE class = "permanent" \/ (class = "retriable" /\ r.attempt + 1 >= MaxAttempts)
    BY <2>1, NoChangeType, NextAttemptType DEF FailOutcome, Update, Status
  <2>2. CASE ~(class = "permanent" \/ (class = "retriable" /\ r.attempt + 1 >= MaxAttempts))
    BY <2>2, RollbackType, NextAttemptType DEF FailOutcome, Update, Backoff
  <2>3. QED BY <2>1, <2>2
<1>2. QED BY <1>1 DEF FailUpdate, Update, WorkerId, Stamp


-----------------------------------------------------------------------------
(* The inductive invariant behind RunningHasWorker.  The property alone is *)
(* not inductive: a deferred UPDATE is executed on a row that other        *)
(* handlers have changed since, so the UPDATEs that wait must be such that *)
(* they are harmless on any row (SafeUpdate).                              *)

\* The server accepts any stage in a heartbeat; workers do not report the one
\* that only the server sets.
HonestStages == "audio_uploaded" \notin ReportedStage

\* RunningHasWorker, for one row, and its converse for honest workers.
RowInv(r) == r.status = "RUNNING" =>
                /\ r.audio_worker_id # NoWorker
                /\ r.claimed_by = NoWorker => r.stage = "audio_uploaded"
                /\ HonestStages /\ r.stage = "audio_uploaded" => r.claimed_by = NoWorker

\* A step of JobLease, for one row and its next value.
LeaseStep(r, s) ==
    \/ Phase(s) = "off"
    \/ Phase(s) = Phase(r) /\ Holder(s) = Holder(r)
    \/ Phase(r) = "held" /\ Phase(s) = "waiting"
    \/ Phase(r) # "held" /\ Phase(s) = "held" /\ Holder(s) \in Worker
Leases == HonestStages => \A j \in Job : LeaseStep(job[j], job'[j])

\* An UPDATE that does not make a row RUNNING, and that, where it leaves
\* status as it is, keeps the owner of the FLAC and either keeps the claim and
\* the stage or releases the claim into audio_uploaded.
SafeUpdate(u) ==
    /\ u.status # "RUNNING"
    /\ u.status = Keep =>
         /\ u.audio_worker_id = Keep
         /\ \/ u.claimed_by = Keep /\ u.stage = Keep
            \/ u.claimed_by = NoWorker /\ u.stage = "audio_uploaded"

\* What a handler holds between two of its steps.
SafeCall(c) ==
    /\ c.op \in {"claim", "cas"} => c.worker \in Worker
    /\ c.op \in {"cas", "complete", "write", "delete", "leave"} => c.job \in Job
    /\ c.op \in {"complete", "write"} => SafeUpdate(c.update)

RowsSafe  == \A j \in Job : RowInv(job[j])
CallsSafe == \A h \in Handler : SafeCall(call[h])
IInv      == TypeOK /\ RowsSafe /\ CallsSafe

\* Keep is none of the values the columns have.
LEMMA KeepIsNoValue ==
    /\ Keep # "RUNNING" /\ Keep # "PENDING" /\ Keep # "DONE" /\ Keep # "FAILED"
    /\ Keep # "DISABLED" /\ Keep # "audio_uploaded" /\ Keep # "asr" /\ Keep # "downloading"
    /\ Keep # NoWorker
    /\ \A w \in Worker : w # Keep /\ w # NoWorker
BY KeepAssumption, WorkerAssumption DEF Status, Stage, AudioStages, SubtitleStages

\* A safe UPDATE, executed on any row however late, orphans nothing.
LEMMA SafeApply ==
    ASSUME NEW r \in Row, NEW u \in Update, RowInv(r), SafeUpdate(u)
    PROVE  RowInv(Apply(r, u))
BY KeepIsNoValue DEF RowInv, SafeUpdate, Apply, Column

\* Nor does it move the lease in a way JobLease forbids.
LEMMA SafeLease ==
    ASSUME NEW r \in Row, NEW u \in Update, SafeUpdate(u)
    PROVE  LeaseStep(r, Apply(r, u))
BY KeepIsNoValue DEF LeaseStep, Phase, Holder, SafeUpdate, Apply, Column

\* A row that does not change keeps its lease.
LEMMA SameRow == \A r : LeaseStep(r, r)
BY DEF LeaseStep

\* The UPDATEs of audio-ready, audio-lost and complete are safe.
LEMMA SafeUpdates ==
    /\ SafeUpdate(AudioReadyUpdate)
    /\ SafeUpdate(ResetUpdate)
    /\ SafeUpdate(DoneUpdate)
BY KeepIsNoValue
DEF SafeUpdate, AudioReadyUpdate, ResetUpdate, BackToQueue, DoneUpdate, NoChange

\* A failure's UPDATE is safe, whatever row and kind it was computed from.
LEMMA SafeFailUpdate ==
    ASSUME NEW r \in Row, NEW class
    PROVE  SafeUpdate(FailUpdate(r, class))
BY KeepIsNoValue, RollbackType
DEF SafeUpdate, FailUpdate, FailOutcome, applyStageRollback, BackToQueue, NoChange, Update
-----------------------------------------------------------------------------
(* The shapes a step can have.                                             *)

\* The lease of one row moves, or none does.
LEMMA LeaseOfRow ==
    ASSUME NEW j \in Job, NEW r, job \in [Job -> Row], LeaseStep(job[j], r),
           job' = [job EXCEPT ![j] = r]
    PROVE  Leases
BY SameRow DEF Leases

\* A step that leaves the table alone moves no lease.
LEMMA LeaseUnchanged ==
    ASSUME UNCHANGED job
    PROVE  Leases
BY SameRow DEF Leases

\* One safe UPDATE of one row.
LEMMA SetStep ==
    ASSUME IInv, NEW j \in Job, NEW u \in Update, SafeUpdate(u), Set(j, u)
    PROVE  IInv' /\ Leases
<1>1. job[j] \in Row /\ RowInv(job[j])
  BY DEF IInv, TypeOK, RowsSafe
<1>2. Apply(job[j], u) \in Row /\ RowInv(Apply(job[j], u))
  BY <1>1, ApplyType, SafeApply
<1>3. IInv'
  BY <1>2 DEF IInv, TypeOK, RowsSafe, CallsSafe, Set
<1>4. LeaseStep(job[j], Apply(job[j], u)) /\ job \in [Job -> Row]
  BY <1>1, SafeLease DEF IInv, TypeOK
<1>5. job' = [job EXCEPT ![j] = Apply(job[j], u)]
  BY DEF Set
<1>6. QED BY <1>3, <1>4, <1>5, LeaseOfRow

\* The rows, the disks and the broker stay; the tables of bodies and one handler change.
LEMMA CallStep ==
    ASSUME IInv, NEW h \in Handler, NEW c \in Call, SafeCall(c), vtt' \subseteq Job,
           call' = [call EXCEPT ![h] = c], UNCHANGED <<job, flac, cleanup>>
    PROVE  IInv' /\ Leases
<1>1. IInv'
  BY DEF IInv, TypeOK, RowsSafe, CallsSafe
<1>2. QED BY <1>1, LeaseUnchanged

\* A handler that has nothing under way holds nothing unsafe.
LEMMA IdleType ==
    /\ Idle \in Call
    /\ SafeCall(Idle)
BY NoChangeType DEF Idle, Call, Op, WorkerId, SafeCall

\* One handler has read the row of j and defers a safe UPDATE.
LEMMA DeferStep ==
    ASSUME IInv, NEW h \in Handler, NEW w \in WorkerId, NEW j \in Job, NEW u \in Update,
           NEW owner \in WorkerId, SafeUpdate(u), Defer(h, w, j, u, owner)
    PROVE  IInv' /\ Leases
<1> DEFINE c == [Idle EXCEPT !.op = "write", !.worker = w, !.job = j, !.update = u,
                             !.owner = owner]
<1>1. c \in Call /\ SafeCall(c)
  BY IdleType DEF Call, Op, SafeCall
<1>2. vtt' \subseteq Job /\ call' = [call EXCEPT ![h] = c] /\ UNCHANGED <<job, flac, cleanup>>
  BY DEF Defer, IInv, TypeOK
<1> HIDE DEF c
<1>3. QED BY <1>1, <1>2, CallStep

\* A row is created with a status other than RUNNING.
LEMMA CreateStep ==
    ASSUME IInv, NEW j \in Job, NEW s \in Status, s # "RUNNING", Create(j, s)
    PROVE  IInv' /\ Leases
<1>1. NewRow(s) \in Row /\ RowInv(NewRow(s)) /\ Phase(NewRow(s)) = "off"
  BY NewRowType DEF NewRow, RowInv, Phase
<1>2. IInv'
  BY <1>1 DEF IInv, TypeOK, RowsSafe, CallsSafe, Create
<1>3. LeaseStep(job[j], NewRow(s)) /\ job \in [Job -> Row]
  BY <1>1 DEF LeaseStep, IInv, TypeOK
<1>4. QED BY <1>2, <1>3, LeaseOfRow DEF Create

\* A scan resets some running rows and gives up their claims.
LEMMA ScanStep ==
    ASSUME IInv, NEW S \in SUBSET Job, NEW u \in Update, SafeUpdate(u),
           job' = [j \in Job |-> IF j \in S THEN Apply(job[j], u) ELSE job[j]],
           UNCHANGED <<vtt, flac, cleanup, call>>
    PROVE  IInv' /\ Leases
<1>1. ASSUME NEW j \in Job
      PROVE  /\ job[j] \in Row /\ RowInv(job[j])
             /\ Apply(job[j], u) \in Row /\ RowInv(Apply(job[j], u))
             /\ LeaseStep(job[j], Apply(job[j], u)) /\ LeaseStep(job[j], job[j])
  BY ApplyType, SafeApply, SafeLease, SameRow DEF IInv, TypeOK, RowsSafe
<1>2. IInv'
  BY <1>1 DEF IInv, TypeOK, RowsSafe, CallsSafe
<1>3. QED BY <1>1, <1>2 DEF Leases

-----------------------------------------------------------------------------
(* The steps.                                                              *)

\* The empty table satisfies the invariant.
LEMMA InitIInv == Init => IInv
<1>1. Init => TypeOK
  BY NewRowType, IdleType DEF Init, TypeOK, Absent, Status
<1>2. Init => RowsSafe
  BY DEF Init, RowsSafe, RowInv, Absent, NewRow
<1>3. Init => CallsSafe
  BY IdleType DEF Init, CallsSafe
<1>4. QED BY <1>1, <1>2, <1>3 DEF IInv

\* What IInv says of one row and one handler.
LEMMA IInvElim ==
    ASSUME IInv
    PROVE  /\ \A j \in Job : job[j] \in Row /\ RowInv(job[j])
           /\ \A h \in Handler : call[h] \in Call /\ SafeCall(call[h])
           /\ vtt \subseteq Job
BY DEF IInv, TypeOK, RowsSafe, CallsSafe

\* The steps of a claim: check, SELECT, CAS, contention.
LEMMA ClaimSteps ==
    ASSUME IInv, NEW h \in Handler,
           \/ \E w \in Worker : checkClaimCapacity(h, w)
           \/ \E j \in Job : claimSelect(h, j)
           \/ claimNothing(h)
           \/ tryClaim(h)
           \/ claimContention(h)
    PROVE  IInv' /\ Leases
<1> USE IInvElim
<1>1. ASSUME NEW w \in Worker, checkClaimCapacity(h, w) PROVE IInv' /\ Leases
  <2> DEFINE c == [Idle EXCEPT !.op = "claim", !.worker = w, !.lines = AllowedLines(w)]
  <2>1. AllowedLines(w) \subseteq Line
    BY DEF AllowedLines, Capability, Line
  <2>2. c \in Call /\ SafeCall(c)
    BY <2>1, IdleType DEF Call, Op, WorkerId, SafeCall
  <2>3. /\ call' = [call EXCEPT ![h] = c]
        /\ UNCHANGED <<job, vtt, flac, cleanup>>
    BY <1>1 DEF checkClaimCapacity
  <2> HIDE DEF c
  <2>4. QED BY <2>2, <2>3, CallStep
<1>2. ASSUME NEW j \in Job, claimSelect(h, j) PROVE IInv' /\ Leases
  <2> DEFINE c == [call[h] EXCEPT !.op = "cas", !.job = j]
  <2>1. c \in Call /\ SafeCall(c)
    BY <1>2 DEF claimSelect, Call, Op, SafeCall
  <2>2. /\ call' = [call EXCEPT ![h] = c]
        /\ UNCHANGED <<job, vtt, flac, cleanup>>
    BY <1>2 DEF claimSelect
  <2> HIDE DEF c
  <2>3. QED BY <2>1, <2>2, CallStep
<1>3. ASSUME NEW lines \in SUBSET Line, call[h].op \in {"claim", "cas"}, Reselect(h, lines),
             UNCHANGED <<job, vtt, flac, cleanup>>
      PROVE  IInv' /\ Leases
  <2> DEFINE c == IF lines = {} THEN Idle
                  ELSE [Idle EXCEPT !.op = "claim", !.worker = call[h].worker, !.lines = lines]
  <2>1. c \in Call /\ SafeCall(c)
    BY <1>3, IdleType DEF Call, Op, WorkerId, SafeCall
  <2>2. call' = [call EXCEPT ![h] = c]
    BY <1>3 DEF Reselect
  <2> HIDE DEF c
  <2>3. QED BY <1>3, <2>1, <2>2, CallStep
<1>4. call[h].lines \in SUBSET Line
  BY DEF Call
<1>5. CASE claimNothing(h)
  BY <1>3, <1>4, <1>5 DEF claimNothing
<1>6. CASE claimContention(h)
  BY <1>3, <1>4, <1>6 DEF claimContention
<1>7. ASSUME tryClaim(h) PROVE IInv' /\ Leases
  <2> DEFINE j == call[h].job
             w == call[h].worker
             u == ClaimUpdate(TriedLine(call[h]), w)
  <2>1. j \in Job /\ w \in Worker
    BY <1>7 DEF tryClaim, SafeCall
  <2>2. u \in Update
    BY <2>1, ClaimUpdateType DEF WorkerId
  <2>3. Apply(job[j], u) \in Row
    BY <2>1, <2>2, ApplyType
  <2>4. Claimable(TriedLine(call[h]), j)
    BY <1>7 DEF tryClaim, CasMatches
  <2>5. RowInv(Apply(job[j], u))
    BY <2>1, <2>4, KeepIsNoValue
    DEF RowInv, Apply, Column, ClaimUpdate, NoChange, Claimable
  <2>6. HonestStages => LeaseStep(job[j], Apply(job[j], u))
    BY <2>1, <2>4, KeepIsNoValue
    DEF LeaseStep, Phase, Holder, RowInv, Apply, Column, ClaimUpdate, NoChange, Claimable
  <2> HIDE DEF u
  <2>7. /\ job' = [job EXCEPT ![j] = Apply(job[j], u)]
        /\ call' = [call EXCEPT ![h] = Idle]
        /\ UNCHANGED <<vtt, flac, cleanup>>
    BY <1>7 DEF tryClaim, u
  <2>8. IInv'
    BY <2>1, <2>3, <2>5, <2>7, IdleType DEF IInv, TypeOK, RowsSafe, CallsSafe
  <2>9. job \in [Job -> Row]
    BY DEF IInv, TypeOK
  <2>10. CASE HonestStages
    BY <2>1, <2>6, <2>7, <2>8, <2>9, <2>10, LeaseOfRow
  <2>11. QED BY <2>8, <2>10 DEF Leases
<1>8. QED BY <1>1, <1>2, <1>5, <1>6, <1>7

\* The reports that are one conditional UPDATE, and what happens on the disks.
LEMMA WorkerSteps ==
    ASSUME IInv, NEW w \in Worker, NEW j \in Job, WorkerStep(w, j)
    PROVE  IInv' /\ Leases
<1> USE IInvElim
<1>1. ASSUME NEW stage \in Reports(w), WorkerHeartbeat(w, j, stage) PROVE IInv' /\ Leases
  <2> DEFINE u == [NoChange EXCEPT !.stage = stage, !.last_heartbeat_at = "recent"]
  <2>1. u \in Update
    BY NoChangeType, BoundAssumption DEF Reports, Update, Stamp
  <2>2. Apply(job[j], u) \in Row
    BY <2>1, ApplyType
  <2>3. RowInv(Apply(job[j], u))
    BY <1>1, KeepIsNoValue
    DEF WorkerHeartbeat, RowInv, Apply, Column, NoChange, HonestStages, Reports
  <2>4. LeaseStep(job[j], Apply(job[j], u)) /\ job \in [Job -> Row]
    <3>1. u.status = Keep /\ u.claimed_by = Keep
      BY DEF NoChange
    <3> HIDE DEF u
    <3>2. /\ Apply(job[j], u).status = job[j].status
          /\ Apply(job[j], u).claimed_by = job[j].claimed_by
      BY <3>1 DEF Apply, Column
    <3>3. QED BY <3>2 DEF LeaseStep, Phase, Holder, IInv, TypeOK
  <2> HIDE DEF u
  <2>5. /\ job' = [job EXCEPT ![j] = Apply(job[j], u)]
        /\ UNCHANGED <<vtt, flac, cleanup, call>>
    BY <1>1 DEF WorkerHeartbeat, Set, u
  <2>6. IInv'
    BY <2>2, <2>3, <2>5 DEF IInv, TypeOK, RowsSafe, CallsSafe
  <2>7. QED BY <2>4, <2>5, <2>6, LeaseOfRow
<1>2. ASSUME job' = [job EXCEPT ![j] = Apply(@, AudioReadyUpdate)],
             flac' \subseteq Worker \X Job, UNCHANGED <<vtt, cleanup, call>>
      PROVE  IInv' /\ Leases
  <2>1. /\ Apply(job[j], AudioReadyUpdate) \in Row
        /\ RowInv(Apply(job[j], AudioReadyUpdate))
        /\ LeaseStep(job[j], Apply(job[j], AudioReadyUpdate))
    BY ConstantUpdates, SafeUpdates, ApplyType, SafeApply, SafeLease
  <2>2. job \in [Job -> Row]
    BY DEF IInv, TypeOK
  <2>3. IInv'
    BY <1>2, <2>1 DEF IInv, TypeOK, RowsSafe, CallsSafe
  <2>4. QED BY <1>2, <2>1, <2>2, <2>3, LeaseOfRow
<1>3. ASSUME flac' \subseteq Worker \X Job, cleanup' \subseteq Worker \X Job,
             UNCHANGED <<job, vtt, call>>
      PROVE  IInv' /\ Leases
  <2>1. IInv'
    BY <1>3 DEF IInv, TypeOK, RowsSafe, CallsSafe
  <2>2. QED BY <1>3, <2>1, LeaseUnchanged
<1>4. flac \subseteq Worker \X Job /\ cleanup \subseteq Worker \X Job
  BY DEF IInv, TypeOK
<1>5. CASE WorkerAudioReady(w, j)
  BY <1>2, <1>4, <1>5 DEF WorkerAudioReady
<1>6. CASE WorkerAudioLost(w, j)
  BY <1>6, SetStep, ConstantUpdates, SafeUpdates DEF WorkerAudioLost
<1>7. CASE AudioCleanup(w, j)
  BY <1>3, <1>4, <1>7 DEF AudioCleanup
<1>8. CASE AudioRescan(w, j)
  BY <1>2, <1>3, <1>4, <1>8 DEF AudioRescan
<1>9. CASE FlacVanishes(w, j)
  BY <1>3, <1>4, <1>9 DEF FlacVanishes
<1>10. QED BY <1>1, <1>5, <1>6, <1>7, <1>8, <1>9 DEF WorkerStep

\* Deregistration, completion and failure, up to their UPDATE.
LEMMA ReportSteps ==
    ASSUME IInv, NEW h \in Handler,
           \/ \E w \in Worker, j \in Job : WorkerDeregister(h, w, j) \/ WorkerComplete(h, w, j)
           \/ deregisterAudioLost(h)
           \/ storeVTT(h)
           \/ \E w \in Worker, j \in Job, class \in ErrorKindClass :
                 WorkerFailWithKind(h, w, j, class)
    PROVE  IInv' /\ Leases
<1> USE IInvElim
<1>1. ASSUME NEW w \in Worker, NEW j \in Job, WorkerDeregister(h, w, j) PROVE IInv' /\ Leases
  <2> DEFINE c == [Idle EXCEPT !.op = "leave", !.worker = w, !.job = j]
  <2>1. c \in Call /\ SafeCall(c)
    BY IdleType DEF Call, Op, WorkerId, SafeCall
  <2>2. /\ call' = [call EXCEPT ![h] = c]
        /\ UNCHANGED <<job, vtt, flac, cleanup>>
    BY <1>1 DEF WorkerDeregister
  <2> HIDE DEF c
  <2>3. QED BY <2>1, <2>2, CallStep
<1>2. ASSUME NEW w \in Worker, NEW j \in Job, WorkerComplete(h, w, j) PROVE IInv' /\ Leases
  <2> DEFINE c == [Idle EXCEPT !.op = "complete", !.worker = w, !.job = j,
                               !.update = DoneUpdate, !.owner = job[j].audio_worker_id]
  <2>1. job[j].audio_worker_id \in WorkerId
    BY DEF Row
  <2>2. c \in Call /\ SafeCall(c)
    BY <2>1, IdleType, ConstantUpdates, SafeUpdates DEF Call, Op, WorkerId, SafeCall
  <2>3. /\ call' = [call EXCEPT ![h] = c]
        /\ UNCHANGED <<job, vtt, flac, cleanup>>
    BY <1>2 DEF WorkerComplete
  <2> HIDE DEF c
  <2>4. QED BY <2>2, <2>3, CallStep
<1>3. ASSUME deregisterAudioLost(h) PROVE IInv' /\ Leases
  <2>1. call[h].job \in Job
    BY <1>3 DEF deregisterAudioLost, SafeCall
  <2>2. /\ Apply(job[call[h].job], ResetUpdate) \in Row
        /\ RowInv(Apply(job[call[h].job], ResetUpdate))
        /\ LeaseStep(job[call[h].job], Apply(job[call[h].job], ResetUpdate))
    BY <2>1, ConstantUpdates, SafeUpdates, ApplyType, SafeApply, SafeLease
  <2>3. /\ \/ UNCHANGED job
           \/ job' = [job EXCEPT ![call[h].job] = Apply(job[call[h].job], ResetUpdate)]
        /\ job \in [Job -> Row]
    BY <1>3 DEF deregisterAudioLost, IInv, TypeOK
  <2>4. IInv'
    BY <1>3, <2>1, <2>2, <2>3, IdleType
    DEF deregisterAudioLost, IInv, TypeOK, RowsSafe, CallsSafe
  <2>5. QED BY <2>1, <2>2, <2>3, <2>4, LeaseOfRow, LeaseUnchanged
<1>4. ASSUME storeVTT(h) PROVE IInv' /\ Leases
  <2> DEFINE c == [call[h] EXCEPT !.op = "write"]
  <2>1. c \in Call /\ SafeCall(c) /\ call[h].job \in Job
    BY <1>4 DEF storeVTT, Call, Op, SafeCall
  <2>2. /\ call' = [call EXCEPT ![h] = c]
        /\ vtt' \subseteq Job
        /\ UNCHANGED <<job, flac, cleanup>>
    BY <1>4, <2>1 DEF storeVTT
  <2> HIDE DEF c
  <2>3. QED BY <2>1, <2>2, CallStep
<1>5. ASSUME NEW w \in Worker, NEW j \in Job, NEW class \in ErrorKindClass,
             WorkerFailWithKind(h, w, j, class)
      PROVE  IInv' /\ Leases
  <2>1. FailUpdate(job[j], class) \in Update /\ SafeUpdate(FailUpdate(job[j], class))
    BY FailUpdateType, SafeFailUpdate
  <2>2. QED BY <1>5, <2>1, DeferStep DEF WorkerFailWithKind, WorkerId
<1>6. QED BY <1>1, <1>2, <1>3, <1>4, <1>5

\* The deferred UPDATE: safe on whatever the row has become.
LEMMA WriteStep ==
    ASSUME IInv, NEW h \in Handler, Write(h)
    PROVE  IInv' /\ Leases
<1> USE IInvElim
<1> DEFINE j == call[h].job
           u == call[h].update
           owner == call[h].owner
<1>1. j \in Job /\ u \in Update /\ SafeUpdate(u) /\ owner \in WorkerId
  BY DEF Write, SafeCall, Call
<1>2. /\ Apply(job[j], u) \in Row /\ RowInv(Apply(job[j], u))
      /\ LeaseStep(job[j], Apply(job[j], u))
  BY <1>1, ApplyType, SafeApply, SafeLease
<1>3. cleanup' \subseteq Worker \X Job
  BY <1>1 DEF Write, IInv, TypeOK, WorkerId
<1>4. /\ UNCHANGED job \/ job' = [job EXCEPT ![j] = Apply(job[j], u)]
      /\ job \in [Job -> Row]
  BY DEF Write, IInv, TypeOK
<1>5. IInv'
  BY <1>1, <1>2, <1>3, <1>4, IdleType DEF Write, IInv, TypeOK, RowsSafe, CallsSafe
<1>6. QED BY <1>1, <1>2, <1>4, <1>5, LeaseOfRow, LeaseUnchanged

\* The four steps of a stale recovery pass.
LEMMA RecoverySteps ==
    ASSUME IInv, NEW h \in Handler,
           \/ recoverAudioStages
           \/ recoverOtherStages
           \/ \E j \in Job : recoverAudioUploaded(h, j) \/ recoverSubtitleStages(h, j)
    PROVE  IInv' /\ Leases
<1> USE IInvElim
<1>1. ASSUME recoverAudioStages PROVE IInv' /\ Leases
  <2> DEFINE u == [NoChange EXCEPT !.status = "PENDING", !.stage = "queued",
                                   !.claimed_by = NoWorker, !.audio_worker_id = NoWorker,
                                   !.last_heartbeat_at = "null"]
  <2>1. u \in Update
    BY NoChangeType DEF Update, WorkerId, Status, Stage, Stamp
  <2>2. SafeUpdate(u)
    BY KeepIsNoValue DEF SafeUpdate, NoChange
  <2>3. OverdueAudio \in SUBSET Job
    BY DEF OverdueAudio, Running
  <2>4. /\ job' = [j \in Job |-> IF j \in OverdueAudio THEN Apply(job[j], u) ELSE job[j]]
        /\ UNCHANGED <<vtt, flac, cleanup, call>>
    BY <1>1 DEF recoverAudioStages
  <2> HIDE DEF u
  <2>5. QED BY <2>1, <2>2, <2>3, <2>4, ScanStep
<1>2. ASSUME recoverOtherStages PROVE IInv' /\ Leases
  <2> DEFINE u == [NoChange EXCEPT !.status = "PENDING", !.stage = "queued",
                                   !.claimed_by = NoWorker, !.audio_worker_id = NoWorker,
                                   !.subtitle_worker_id = NoWorker,
                                   !.last_heartbeat_at = "null"]
  <2>1. u \in Update
    BY NoChangeType DEF Update, WorkerId, Status, Stage, Stamp
  <2>2. SafeUpdate(u)
    BY KeepIsNoValue DEF SafeUpdate, NoChange
  <2>3. OverdueOther \in SUBSET Job
    BY DEF OverdueOther, Running
  <2>4. /\ job' = [j \in Job |-> IF j \in OverdueOther THEN Apply(job[j], u) ELSE job[j]]
        /\ UNCHANGED <<vtt, flac, cleanup, call>>
    BY <1>2 DEF recoverOtherStages
  <2> HIDE DEF u
  <2>5. QED BY <2>1, <2>2, <2>3, <2>4, ScanStep
<1>3. ASSUME NEW j \in Job, recoverAudioUploaded(h, j) PROVE IInv' /\ Leases
  <2>1. job[j].audio_worker_id \in WorkerId /\ NoWorker \in WorkerId
    BY DEF Row, WorkerId
  <2>2. QED BY <1>3, <2>1, ConstantUpdates, SafeUpdates, DeferStep DEF recoverAudioUploaded
<1>4. ASSUME NEW j \in Job, recoverSubtitleStages(h, j) PROVE IInv' /\ Leases
  <2> DEFINE target == IF job[j].audio_worker_id # NoWorker
                       THEN [NoChange EXCEPT !.stage = "audio_uploaded",
                                             !.subtitle_worker_id = NoWorker]
                       ELSE BackToQueue
             u == [target EXCEPT !.claimed_by = NoWorker, !.last_heartbeat_at = "null"]
  <2>1. u \in Update
    <3>1. [NoChange EXCEPT !.stage = "audio_uploaded", !.subtitle_worker_id = NoWorker]
             \in Update
      BY NoChangeType DEF Update, WorkerId, Stage
    <3>2. target \in Update
      BY <3>1, ConstantUpdates
    <3> HIDE DEF target
    <3>3. QED BY <3>2 DEF Update, WorkerId, Stamp
  <2>2. SafeUpdate(u)
    BY KeepIsNoValue DEF SafeUpdate, NoChange, BackToQueue
  <2>3. Defer(h, NoWorker, j, u, NoWorker) /\ NoWorker \in WorkerId
    BY <1>4 DEF recoverSubtitleStages, WorkerId
  <2> HIDE DEF u
  <2>4. QED BY <2>1, <2>2, <2>3, DeferStep
<1>5. QED BY <1>1, <1>2, <1>3, <1>4

\* Updates of the columns an admin operation or the clock writes.
LEMMA AdminUpdates ==
    ASSUME NEW s \in {"PENDING", "DISABLED"}
    PROVE  /\ [NoChange EXCEPT !.status = s] \in Update
           /\ SafeUpdate([NoChange EXCEPT !.status = s])
           /\ [NoChange EXCEPT !.status = s, !.stage = "queued"] \in Update
           /\ SafeUpdate([NoChange EXCEPT !.status = s, !.stage = "queued"])
           /\ [NoChange EXCEPT !.status = s, !.stage = "queued", !.attempt = 0,
                               !.next_retry_at = "due"] \in Update
           /\ SafeUpdate([NoChange EXCEPT !.status = s, !.stage = "queued", !.attempt = 0,
                                          !.next_retry_at = "due"])
<1>1. [NoChange EXCEPT !.status = s] \in Update
  BY NoChangeType DEF Update, Status
<1>2. [NoChange EXCEPT !.status = s, !.stage = "queued"] \in Update
  BY NoChangeType DEF Update, Status, Stage
<1>3. [NoChange EXCEPT !.status = s, !.stage = "queued", !.attempt = 0,
                       !.next_retry_at = "due"] \in Update
  <2>1. 0 \in 0..MaxAttempts
    BY BoundAssumption
  <2>2. QED BY <2>1, NoChangeType DEF Update, Status, Stage, Backoff
<1>4. s # "RUNNING" /\ s # Keep
  BY KeepIsNoValue
<1>5. SafeUpdate([NoChange EXCEPT !.status = s])
  BY <1>4 DEF SafeUpdate, NoChange
<1>6. SafeUpdate([NoChange EXCEPT !.status = s, !.stage = "queued"])
  BY <1>4 DEF SafeUpdate, NoChange
<1>7. SafeUpdate([NoChange EXCEPT !.status = s, !.stage = "queued", !.attempt = 0,
                                  !.next_retry_at = "due"])
  BY <1>4 DEF SafeUpdate, NoChange
<1>8. QED BY <1>1, <1>2, <1>3, <1>5, <1>6, <1>7

\* The passage of time is a safe UPDATE.
LEMMA AgeUpdates ==
    /\ [NoChange EXCEPT !.last_heartbeat_at = "stale"] \in Update
    /\ SafeUpdate([NoChange EXCEPT !.last_heartbeat_at = "stale"])
    /\ [NoChange EXCEPT !.audio_uploaded_at = "stale"] \in Update
    /\ SafeUpdate([NoChange EXCEPT !.audio_uploaded_at = "stale"])
    /\ [NoChange EXCEPT !.next_retry_at = "due"] \in Update
    /\ SafeUpdate([NoChange EXCEPT !.next_retry_at = "due"])
<1>1. [NoChange EXCEPT !.last_heartbeat_at = "stale"] \in Update
  BY NoChangeType DEF Update, Stamp
<1>2. [NoChange EXCEPT !.audio_uploaded_at = "stale"] \in Update
  BY NoChangeType DEF Update, Stamp
<1>3. [NoChange EXCEPT !.next_retry_at = "due"] \in Update
  BY NoChangeType DEF Update, Backoff
<1>4. SafeUpdate([NoChange EXCEPT !.last_heartbeat_at = "stale"])
  BY KeepIsNoValue DEF SafeUpdate, NoChange
<1>5. SafeUpdate([NoChange EXCEPT !.audio_uploaded_at = "stale"])
  BY KeepIsNoValue DEF SafeUpdate, NoChange
<1>6. SafeUpdate([NoChange EXCEPT !.next_retry_at = "due"])
  BY KeepIsNoValue DEF SafeUpdate, NoChange
<1>7. QED BY <1>1, <1>2, <1>3, <1>4, <1>5, <1>6

\* One-step admin operations, and time.
LEMMA JobSteps ==
    ASSUME IInv, NEW j \in Job, JobStep(j)
    PROVE  IInv' /\ Leases
<1>1. {"PENDING", "DISABLED"} \subseteq Status
  BY DEF Status
<1>2. CASE EnsureJobCreate(j)
  BY <1>1, <1>2, CreateStep DEF EnsureJobCreate
<1>3. CASE Retry(j)
  BY <1>1, <1>3, CreateStep, SetStep, AdminUpdates DEF Retry
<1>4. ASSUME NEW disabled \in BOOLEAN, SetDisabled(j, disabled) PROVE IInv' /\ Leases
  <2> DEFINE s == IF disabled THEN "DISABLED" ELSE "PENDING"
  <2>1. s \in {"PENDING", "DISABLED"}
    OBVIOUS
  <2>2. Set(j, [NoChange EXCEPT !.status = s]) \/ Create(j, s)
    BY <1>4 DEF SetDisabled
  <2> HIDE DEF s
  <2>3. QED BY <1>1, <2>1, <2>2, CreateStep, SetStep, AdminUpdates
<1>5. CASE HeartbeatAges(j)
  BY <1>5, SetStep, AgeUpdates DEF HeartbeatAges
<1>6. CASE UploadAges(j)
  BY <1>6, SetStep, AgeUpdates DEF UploadAges
<1>7. CASE BackoffEnds(j)
  BY <1>7, SetStep, AgeUpdates DEF BackoffEnds
<1>8. QED BY <1>2, <1>3, <1>4, <1>5, <1>6, <1>7 DEF JobStep

\* The admin operations that read a row and write it later.
LEMMA AdminSteps ==
    ASSUME IInv, NEW h \in Handler,
           \/ \E j \in Job : EnsureJobReset(h, j) \/ BatchCancel(h, j) \/ Delete(h, j)
           \/ DeleteRow(h)
    PROVE  IInv' /\ Leases
<1> USE IInvElim
<1>1. NoWorker \in WorkerId
  BY DEF WorkerId
<1>2. ASSUME NEW j \in Job, EnsureJobReset(h, j) PROVE IInv' /\ Leases
  BY <1>1, <1>2, DeferStep, AdminUpdates DEF EnsureJobReset
<1>3. ASSUME NEW j \in Job, BatchCancel(h, j) PROVE IInv' /\ Leases
  BY <1>1, <1>3, DeferStep, AdminUpdates DEF BatchCancel
<1>4. ASSUME NEW j \in Job, Delete(h, j) PROVE IInv' /\ Leases
  <2> DEFINE c == [Idle EXCEPT !.op = "delete", !.job = j]
  <2>1. c \in Call /\ SafeCall(c)
    BY IdleType DEF Call, Op, SafeCall
  <2>2. /\ call' = [call EXCEPT ![h] = c]
        /\ vtt' \subseteq Job
        /\ UNCHANGED <<job, flac, cleanup>>
    BY <1>4 DEF Delete
  <2> HIDE DEF c
  <2>3. QED BY <2>1, <2>2, CallStep
<1>5. ASSUME DeleteRow(h) PROVE IInv' /\ Leases
  <2> DEFINE j == call[h].job
             rest == [call EXCEPT ![h] = Idle]
  <2>1. j \in Job
    BY <1>5 DEF DeleteRow, SafeCall
  <2>2. Absent \in Row /\ RowInv(Absent) /\ LeaseStep(job[j], Absent)
    BY NewRowType DEF Absent, NewRow, RowInv, LeaseStep, Phase, Status
  <2>3. \A g \in Handler : rest[g] \in Call /\ SafeCall(rest[g])
    BY IdleType DEF IInv, TypeOK
  <2>4. \A g \in Handler : RowGone(j, rest)[g] \in Call /\ SafeCall(RowGone(j, rest)[g])
    BY <2>3 DEF RowGone, Call, SafeCall
  <2>5. rest \in [Handler -> Call] /\ RowGone(j, rest) \in [Handler -> Call]
    BY <2>3, <2>4, IdleType DEF RowGone, IInv, TypeOK
  <2>6. call' = rest \/ call' = RowGone(j, rest)
    BY <1>5 DEF DeleteRow
  <2>7. /\ job' = job \/ job' = [job EXCEPT ![j] = Absent]
        /\ UNCHANGED <<vtt, flac, cleanup>>
    BY <1>5 DEF DeleteRow
  <2>8. TypeOK'
    BY <2>2, <2>5, <2>6, <2>7 DEF IInv, TypeOK
  <2>9. RowsSafe'
    BY <2>1, <2>2, <2>7 DEF IInv, TypeOK, RowsSafe
  <2>10. CallsSafe'
    BY <2>3, <2>4, <2>6 DEF CallsSafe
  <2>11. Leases
    BY <2>1, <2>2, <2>7, LeaseOfRow, LeaseUnchanged DEF IInv, TypeOK
  <2>12. QED BY <2>8, <2>9, <2>10, <2>11 DEF IInv
<1>6. QED BY <1>2, <1>3, <1>4, <1>5

\* Every step of the server, its clients and its environment preserves the
\* invariant, and moves each lease as JobLease allows.
LEMMA Inductive ==
    ASSUME IInv, [Next]_vars
    PROVE  IInv' /\ Leases
<1>1. CASE UNCHANGED vars
  <2>1. IInv'
    BY <1>1 DEF vars, IInv, TypeOK, RowsSafe, CallsSafe
  <2>2. QED BY <1>1, <2>1, LeaseUnchanged DEF vars
<1>2. ASSUME NEW w \in Worker, NEW j \in Job, WorkerStep(w, j) PROVE IInv' /\ Leases
  BY <1>2, WorkerSteps
<1>3. ASSUME NEW h \in Handler, HandlerStep(h) PROVE IInv' /\ Leases
  BY <1>3, ClaimSteps, ReportSteps, WriteStep, RecoverySteps, AdminSteps DEF HandlerStep
<1>4. ASSUME NEW j \in Job, JobStep(j) PROVE IInv' /\ Leases
  BY <1>4, JobSteps
<1>5. CASE recoverAudioStages \/ recoverOtherStages
  BY <1>5, RecoverySteps, BoundAssumption
<1>6. CASE Restart
  <2>1. IInv'
    BY <1>6, IdleType DEF Restart, IInv, TypeOK, RowsSafe, CallsSafe
  <2>2. QED BY <1>6, <2>1, LeaseUnchanged DEF Restart
<1>7. QED BY <1>1, <1>2, <1>3, <1>4, <1>5, <1>6 DEF Next

-----------------------------------------------------------------------------
(* The theorems.                                                           *)

\* In every reachable state no row is orphaned and no handler waits to execute
\* an UPDATE that could orphan one (IInv).
THEOREM Invariance == Spec => []IInv
<1>1. Init => IInv
  BY InitIInv
<1>2. IInv /\ [Next]_vars => IInv'
  BY Inductive
<1>3. QED BY <1>1, <1>2, PTL DEF Spec

\* Every row and every handler keeps its type, however handlers interleave.
THEOREM TypeCorrect == Spec => []TypeOK
<1>1. IInv => TypeOK
  BY DEF IInv
<1>2. QED BY <1>1, Invariance, PTL

\* No interleaving of claims, reports, recovery passes, admin operations and
\* crashes orphans a running job, whatever the number of workers and handlers.
THEOREM NoOrphans == Spec => []RunningHasWorker
<1>1. IInv => RunningHasWorker
  BY DEF IInv, RowsSafe, RowInv, RunningHasWorker, Running
<1>2. QED BY <1>1, Invariance, PTL

\* The jobs, their handlers and their recovery implement JobLease, as long as
\* no worker reports the stage that marks a job as waiting.
THEOREM LeaseRefinement ==
    ASSUME HonestStages
    PROVE  Spec => LeaseImplemented
<1>1. Init => Lease!Init
  BY DEF Init, Lease!Init, Absent, NewRow, Phase, Holder
<1>2. IInv /\ [Next]_vars => [Lease!Next]_(Lease!vars)
  <2>1. SUFFICES ASSUME IInv, [Next]_vars PROVE [Lease!Next]_(Lease!vars)
    OBVIOUS
  <2>2. \A j \in Job : LeaseStep(job[j], job'[j])
    BY <2>1, Inductive DEF Leases
  <2>3. \A j \in Job : job[j].claimed_by \in WorkerId
    BY <2>1 DEF IInv, TypeOK, Row
  <2>4. \A r : /\ Phase(r) = "off" => Holder(r) = NoWorker
               /\ Phase(r) = "waiting" => Holder(r) = NoWorker
    BY DEF Phase, Holder
  <2>5. Lease!Next
    BY <2>2, <2>4
    DEF LeaseStep, Lease!Next, Lease!Take, Lease!HandIn, Lease!Drop, Lease!Stay
  <2>6. QED BY <2>5
<1>3. QED BY <1>1, <1>2, Invariance, PTL DEF Spec, LeaseImplemented, Lease!Spec

-----------------------------------------------------------------------------
(* DoneHasBody: a DONE job has a body.  The property is not inductive: a   *)
(* handler that has stored a body and not yet written DONE must still have *)
(* that body when it does.  The invariant is therefore about the jobs that *)
(* are DONE or about to be.                                                *)

\* Handler state c is about to mark job j DONE.
Marking(c, j) == c.op = "write" /\ c.update.status = "DONE" /\ c.live /\ c.job = j
\* Handler state c has dropped the body of j and will delete its row.
Deleting(c, j) == c.op = "delete" /\ c.live /\ c.job = j

NeedsBody(j) == job[j].status = "DONE" \/ \E h \in Handler : Marking(call[h], j)
HasBody(j)   == j \in vtt \/ \E h \in Handler : Deleting(call[h], j)

NoDeletes == \A h \in Handler : call[h].op # "delete"
BodyInv == /\ \A j \in Job : NeedsBody(j) => HasBody(j)
           /\ "delete" \notin AdminOps => NoDeletes

\* The server does not die between dropping a body and deleting its row.
DeletesFinish == "restart" \notin Faults \/ "delete" \notin AdminOps

-----------------------------------------------------------------------------
(* Steps that need no care: they mark nothing DONE and end no deletion.    *)

\* An UPDATE that does not write DONE leaves a row DONE only if it was.
LEMMA NotDoneApply ==
    ASSUME NEW r, NEW u, u.status # "DONE", Apply(r, u).status = "DONE"
    PROVE  r.status = "DONE"
BY DEF Apply, Column

\* No row becomes DONE in this step.
NoneDone == \A j \in Job : job'[j].status = "DONE" => job[j].status = "DONE"

\* A step that makes no row DONE and touches neither bodies nor handlers.
LEMMA QuietRow ==
    ASSUME IInv, BodyInv, NoneDone, UNCHANGED <<vtt, call>>
    PROVE  BodyInv'
BY DEF BodyInv, NoneDone, NeedsBody, HasBody, NoDeletes

\* A step of one handler that makes no row DONE, stores what it likes, and
\* neither is nor becomes a deletion or a completion.
LEMMA QuietCall ==
    ASSUME IInv, BodyInv, NoneDone, vtt \subseteq vtt', NEW h \in Handler, NEW c,
           call' = [call EXCEPT ![h] = c], call[h].op # "delete", c.op # "delete",
           c.op = "write" => c.update.status # "DONE"
    PROVE  BodyInv'
<1>1. \A g \in Handler : call'[g] = IF g = h THEN c ELSE call[g]
  BY DEF IInv, TypeOK
<1>2. \A j \in Job : NeedsBody(j)' => NeedsBody(j)
  BY <1>1 DEF NoneDone, NeedsBody, Marking
<1>3. \A j \in Job : HasBody(j) => HasBody(j)'
  BY <1>1 DEF HasBody, Deleting
<1>4. NoDeletes => NoDeletes'
  BY <1>1 DEF NoDeletes
<1>5. QED BY <1>2, <1>3, <1>4 DEF BodyInv

\* A step that leaves the table alone makes no row DONE.
LEMMA SameRowsNoneDone ==
    ASSUME UNCHANGED job
    PROVE  NoneDone
BY DEF NoneDone

\* One row is updated, with anything but DONE.
LEMMA UpdateNoneDone ==
    ASSUME IInv, NEW j \in Job, NEW u, u.status # "DONE",
           job' = [job EXCEPT ![j] = Apply(@, u)]
    PROVE  NoneDone
BY NotDoneApply DEF NoneDone, IInv, TypeOK

\* Nor does the creation of a row that is not DONE.
LEMMA CreateNoneDone ==
    ASSUME IInv, NEW j \in Job, NEW s, s # "DONE", Create(j, s)
    PROVE  NoneDone
BY DEF NoneDone, IInv, TypeOK, Create, NewRow

\* Updates that do not say DONE.
LEMMA FailNotDone ==
    ASSUME NEW r \in Row, NEW class
    PROVE  FailUpdate(r, class).status # "DONE"
BY KeepIsNoValue, RollbackType
DEF FailUpdate, FailOutcome, applyStageRollback, BackToQueue, NoChange, Update

\* Neither do these UPDATEs write DONE.
LEMMA NotDoneUpdates ==
    /\ AudioReadyUpdate.status # "DONE"
    /\ ResetUpdate.status # "DONE"
    /\ BackToQueue.status # "DONE"
    /\ NoChange.status # "DONE"
BY KeepIsNoValue DEF AudioReadyUpdate, ResetUpdate, BackToQueue, NoChange

-----------------------------------------------------------------------------
(* The steps.                                                              *)

\* Worker reports and disk events update one row, never with DONE.
LEMMA WorkerStepsBody ==
    ASSUME IInv, BodyInv, NEW w \in Worker, NEW j \in Job, WorkerStep(w, j)
    PROVE  BodyInv'
<1> DEFINE Report(stage) == [NoChange EXCEPT !.stage = stage, !.last_heartbeat_at = "recent"]
<1>1. ASSUME NEW u, u.status # "DONE", job' = [job EXCEPT ![j] = Apply(@, u)],
             UNCHANGED <<vtt, call>>
      PROVE  BodyInv'
  BY <1>1, UpdateNoneDone, QuietRow
<1>2. ASSUME UNCHANGED <<job, vtt, call>> PROVE BodyInv'
  BY <1>2, SameRowsNoneDone, QuietRow
<1>3. ASSUME NEW stage, WorkerHeartbeat(w, j, stage) PROVE BodyInv'
  <2>1. Report(stage).status # "DONE"
    BY NotDoneUpdates DEF NoChange
  <2>2. Set(j, Report(stage))
    BY <1>3 DEF WorkerHeartbeat
  <2> HIDE DEF Report
  <2>3. QED BY <1>1, <2>1, <2>2 DEF Set
<1>4. CASE WorkerAudioReady(w, j)
  BY <1>1, <1>4, NotDoneUpdates DEF WorkerAudioReady
<1>5. CASE WorkerAudioLost(w, j)
  BY <1>1, <1>5, NotDoneUpdates DEF WorkerAudioLost, Set
<1>6. CASE AudioCleanup(w, j)
  BY <1>2, <1>6 DEF AudioCleanup
<1>7. CASE AudioRescan(w, j)
  BY <1>1, <1>2, <1>7, NotDoneUpdates DEF AudioRescan
<1>8. CASE FlacVanishes(w, j)
  BY <1>2, <1>8 DEF FlacVanishes
<1>9. QED BY <1>3, <1>4, <1>5, <1>6, <1>7, <1>8 DEF WorkerStep

\* So do the one-step admin operations and the clock.
LEMMA JobStepsBody ==
    ASSUME IInv, BodyInv, NEW j \in Job, JobStep(j)
    PROVE  BodyInv'
<1> DEFINE Updates == {[NoChange EXCEPT !.status = "PENDING", !.stage = "queued"],
                       [NoChange EXCEPT !.status = "PENDING"],
                       [NoChange EXCEPT !.status = "DISABLED"],
                       [NoChange EXCEPT !.last_heartbeat_at = "stale"],
                       [NoChange EXCEPT !.audio_uploaded_at = "stale"],
                       [NoChange EXCEPT !.next_retry_at = "due"]}
<1>1. (\E u \in Updates : Set(j, u)) \/ (\E s \in {"PENDING", "DISABLED"} : Create(j, s))
  <2>1. CASE EnsureJobCreate(j)
    BY <2>1 DEF EnsureJobCreate
  <2>2. CASE Retry(j)
    BY <2>2 DEF Retry
  <2>3. CASE \E disabled \in BOOLEAN : SetDisabled(j, disabled)
    BY <2>3 DEF SetDisabled
  <2>4. CASE HeartbeatAges(j) \/ UploadAges(j) \/ BackoffEnds(j)
    BY <2>4 DEF HeartbeatAges, UploadAges, BackoffEnds
  <2>5. QED BY <2>1, <2>2, <2>3, <2>4 DEF JobStep
<1>2. \A u \in Updates : u.status # "DONE"
  BY NotDoneUpdates DEF NoChange
<1> HIDE DEF Updates
<1>3. ASSUME NEW u \in Updates, Set(j, u) PROVE BodyInv'
  BY <1>2, <1>3, UpdateNoneDone, QuietRow DEF Set
<1>4. ASSUME NEW s \in {"PENDING", "DISABLED"}, Create(j, s) PROVE BodyInv'
  BY <1>4, CreateNoneDone, QuietRow DEF Create
<1>5. QED BY <1>1, <1>3, <1>4

\* The scans of the recovery that are one UPDATE.
LEMMA ScansBody ==
    ASSUME IInv, BodyInv, recoverAudioStages \/ recoverOtherStages
    PROVE  BodyInv'
<1>1. UNCHANGED <<vtt, call>>
  BY DEF recoverAudioStages, recoverOtherStages
<1>2. ASSUME NEW S, NEW u, u.status # "DONE",
             job' = [j \in Job |-> IF j \in S THEN Apply(job[j], u) ELSE job[j]]
      PROVE  NoneDone
  BY <1>2, NotDoneApply DEF NoneDone
<1>3. CASE recoverAudioStages
  <2> DEFINE u == [NoChange EXCEPT !.status = "PENDING", !.stage = "queued",
                                   !.claimed_by = NoWorker, !.audio_worker_id = NoWorker,
                                   !.last_heartbeat_at = "null"]
  <2>1. u.status # "DONE"
    BY DEF NoChange
  <2>2. job' = [j \in Job |-> IF j \in OverdueAudio THEN Apply(job[j], u) ELSE job[j]]
    BY <1>3 DEF recoverAudioStages
  <2> HIDE DEF u
  <2>3. QED BY <1>1, <1>2, <2>1, <2>2, QuietRow
<1>4. CASE recoverOtherStages
  <2> DEFINE u == [NoChange EXCEPT !.status = "PENDING", !.stage = "queued",
                                   !.claimed_by = NoWorker, !.audio_worker_id = NoWorker,
                                   !.subtitle_worker_id = NoWorker,
                                   !.last_heartbeat_at = "null"]
  <2>1. u.status # "DONE"
    BY DEF NoChange
  <2>2. job' = [j \in Job |-> IF j \in OverdueOther THEN Apply(job[j], u) ELSE job[j]]
    BY <1>4 DEF recoverOtherStages
  <2> HIDE DEF u
  <2>3. QED BY <1>1, <1>2, <2>1, <2>2, QuietRow
<1>5. QED BY <1>3, <1>4

\* A claim writes PENDING or RUNNING rows and ends.
LEMMA ClaimStepsBody ==
    ASSUME IInv, BodyInv, NEW h \in Handler,
           \/ \E w \in Worker : checkClaimCapacity(h, w)
           \/ \E j \in Job : claimSelect(h, j)
           \/ claimNothing(h)
           \/ tryClaim(h)
           \/ claimContention(h)
    PROVE  BodyInv'
<1>1. Idle.op = "idle" /\ call \in [Handler -> Call]
  BY DEF Idle, IInv, TypeOK
<1>2. ASSUME NEW w \in Worker, checkClaimCapacity(h, w) PROVE BodyInv'
  <2> DEFINE c == [Idle EXCEPT !.op = "claim", !.worker = w, !.lines = AllowedLines(w)]
  <2>1. c.op = "claim"
    BY DEF Idle
  <2>2. /\ call' = [call EXCEPT ![h] = c] /\ call[h].op = "idle"
        /\ UNCHANGED <<job, vtt>>
    BY <1>1, <1>2 DEF checkClaimCapacity, CanStart
  <2> HIDE DEF c
  <2>3. QED BY <2>1, <2>2, QuietCall, SameRowsNoneDone
<1>3. ASSUME NEW j \in Job, claimSelect(h, j) PROVE BodyInv'
  <2> DEFINE c == [call[h] EXCEPT !.op = "cas", !.job = j]
  <2>1. c.op = "cas"
    BY <1>1 DEF Call
  <2>2. /\ call' = [call EXCEPT ![h] = c] /\ call[h].op = "claim"
        /\ UNCHANGED <<job, vtt>>
    BY <1>3 DEF claimSelect
  <2> HIDE DEF c
  <2>3. QED BY <2>1, <2>2, QuietCall, SameRowsNoneDone
<1>4. ASSUME NEW lines, Reselect(h, lines), call[h].op \in {"claim", "cas"},
             UNCHANGED <<job, vtt>>
      PROVE  BodyInv'
  <2> DEFINE c == IF lines = {} THEN Idle
                  ELSE [Idle EXCEPT !.op = "claim", !.worker = call[h].worker, !.lines = lines]
  <2>1. c.op \in {"idle", "claim"}
    BY DEF Idle
  <2>2. call' = [call EXCEPT ![h] = c]
    BY <1>4 DEF Reselect
  <2> HIDE DEF c
  <2>3. QED BY <1>4, <2>1, <2>2, QuietCall, SameRowsNoneDone
<1>5. CASE claimNothing(h)
  BY <1>4, <1>5 DEF claimNothing
<1>6. CASE claimContention(h)
  BY <1>4, <1>6 DEF claimContention
<1>7. ASSUME tryClaim(h) PROVE BodyInv'
  <2> DEFINE u == ClaimUpdate(TriedLine(call[h]), call[h].worker)
  <2>1. u.status # "DONE"
    BY KeepIsNoValue DEF ClaimUpdate, NoChange
  <2>2. call[h].job \in Job /\ call[h].op = "cas"
    BY <1>7, IInvElim DEF tryClaim, SafeCall
  <2> HIDE DEF u
  <2>3. /\ job' = [job EXCEPT ![call[h].job] = Apply(@, u)]
        /\ call' = [call EXCEPT ![h] = Idle] /\ UNCHANGED vtt
    BY <1>7 DEF tryClaim, u
  <2>4. NoneDone
    BY <2>1, <2>2, <2>3, UpdateNoneDone
  <2>5. QED BY <1>1, <2>2, <2>3, <2>4, QuietCall
<1>8. QED BY <1>2, <1>3, <1>5, <1>6, <1>7

\* A handler that only reads and defers an UPDATE which does not say DONE.
LEMMA DeferBody ==
    ASSUME IInv, BodyInv, NEW h \in Handler, NEW w, NEW j, NEW u \in Update, NEW owner,
           u.status # "DONE", CanStart(h), Defer(h, w, j, u, owner)
    PROVE  BodyInv'
<1> DEFINE c == [Idle EXCEPT !.op = "write", !.worker = w, !.job = j, !.update = u,
                             !.owner = owner]
<1>1. c.op = "write" /\ c.update = u
  BY DEF Idle
<1>2. call' = [call EXCEPT ![h] = c] /\ UNCHANGED <<job, vtt>>
  BY DEF Defer
<1>3. call[h].op = "idle"
  BY DEF CanStart, Idle
<1> HIDE DEF c
<1>4. QED BY <1>1, <1>2, <1>3, QuietCall, SameRowsNoneDone

\* Completion stores the body before it says DONE; failures never say DONE.
LEMMA ReportStepsBody ==
    ASSUME IInv, BodyInv, NEW h \in Handler,
           \/ \E w \in Worker, j \in Job : WorkerDeregister(h, w, j) \/ WorkerComplete(h, w, j)
           \/ deregisterAudioLost(h)
           \/ storeVTT(h)
           \/ \E w \in Worker, j \in Job, class \in ErrorKindClass :
                 WorkerFailWithKind(h, w, j, class)
    PROVE  BodyInv'
<1>1. Idle.op = "idle" /\ call \in [Handler -> Call]
  BY DEF Idle, IInv, TypeOK
<1>2. ASSUME NEW w \in Worker, NEW j \in Job, WorkerDeregister(h, w, j) PROVE BodyInv'
  <2> DEFINE c == [Idle EXCEPT !.op = "leave", !.worker = w, !.job = j]
  <2>1. c.op = "leave"
    BY DEF Idle
  <2>2. /\ call' = [call EXCEPT ![h] = c] /\ call[h].op = "idle"
        /\ UNCHANGED <<job, vtt>>
    BY <1>1, <1>2 DEF WorkerDeregister, CanStart
  <2> HIDE DEF c
  <2>3. QED BY <2>1, <2>2, QuietCall, SameRowsNoneDone
<1>3. ASSUME NEW w \in Worker, NEW j \in Job, WorkerComplete(h, w, j) PROVE BodyInv'
  <2> DEFINE c == [Idle EXCEPT !.op = "complete", !.worker = w, !.job = j,
                               !.update = DoneUpdate, !.owner = job[j].audio_worker_id]
  <2>1. c.op = "complete"
    BY DEF Idle
  <2>2. /\ call' = [call EXCEPT ![h] = c] /\ call[h].op = "idle"
        /\ UNCHANGED <<job, vtt>>
    BY <1>1, <1>3 DEF WorkerComplete, CanStart
  <2> HIDE DEF c
  <2>3. QED BY <2>1, <2>2, QuietCall, SameRowsNoneDone
<1>4. ASSUME deregisterAudioLost(h) PROVE BodyInv'
  <2>1. call[h].job \in Job /\ call[h].op = "leave"
    BY <1>4, IInvElim DEF deregisterAudioLost, SafeCall
  <2>2. /\ UNCHANGED job \/ job' = [job EXCEPT ![call[h].job] = Apply(@, ResetUpdate)]
        /\ call' = [call EXCEPT ![h] = Idle] /\ UNCHANGED vtt
    BY <1>4 DEF deregisterAudioLost
  <2>3. NoneDone
    BY <2>1, <2>2, NotDoneUpdates, UpdateNoneDone, SameRowsNoneDone
  <2>4. QED BY <1>1, <2>1, <2>2, <2>3, QuietCall
<1>5. ASSUME storeVTT(h) PROVE BodyInv'
  <2>1. /\ \A g \in Handler : g # h => call'[g] = call[g]
        /\ call'[h].op = "write" /\ call'[h].job = call[h].job /\ call[h].op = "complete"
        /\ vtt' = vtt \cup {call[h].job}
        /\ UNCHANGED job
    BY <1>1, <1>5 DEF storeVTT, Call
  <2>2. \A j \in Job : NeedsBody(j)' => NeedsBody(j) \/ j = call[h].job
    BY <2>1 DEF NeedsBody, Marking
  <2>3. \A j \in Job : HasBody(j) \/ j = call[h].job => HasBody(j)'
    BY <2>1 DEF HasBody, Deleting
  <2>4. NoDeletes => NoDeletes'
    BY <2>1 DEF NoDeletes
  <2>5. QED BY <2>2, <2>3, <2>4 DEF BodyInv
<1>6. ASSUME NEW w \in Worker, NEW j \in Job, NEW class \in ErrorKindClass,
             WorkerFailWithKind(h, w, j, class)
      PROVE  BodyInv'
  <2>1. job[j] \in Row
    BY DEF IInv, TypeOK
  <2>2. FailUpdate(job[j], class) \in Update /\ FailUpdate(job[j], class).status # "DONE"
    BY <2>1, FailUpdateType, FailNotDone
  <2>3. QED BY <1>6, <2>2, DeferBody DEF WorkerFailWithKind
<1>7. QED BY <1>2, <1>3, <1>4, <1>5, <1>6

\* The deferred UPDATE says DONE only for a job whose body is there.
LEMMA WriteBody ==
    ASSUME IInv, BodyInv, NEW h \in Handler, Write(h)
    PROVE  BodyInv'
<1> DEFINE j == call[h].job
<1>1. /\ call' = [call EXCEPT ![h] = Idle] /\ UNCHANGED vtt /\ call[h].op = "write"
      /\ \/ UNCHANGED job
         \/ call[h].live /\ job' = [job EXCEPT ![j] = Apply(@, call[h].update)]
  BY DEF Write
<1>2. Idle.op = "idle" /\ call \in [Handler -> Call] /\ job \in [Job -> Row]
  BY DEF Idle, IInv, TypeOK
<1>3. \A g \in Handler : call'[g] = IF g = h THEN Idle ELSE call[g]
  BY <1>1, <1>2
<1>4. ASSUME NEW i \in Job, job'[i].status = "DONE" PROVE NeedsBody(i)
  <2>1. CASE job'[i] = job[i]
    BY <1>4, <2>1 DEF NeedsBody
  <2>2. CASE job'[i] # job[i]
    <3>1. i = j /\ call[h].live /\ job'[i] = Apply(job[i], call[h].update)
      BY <1>1, <1>2, <2>2
    <3>2. call[h].update.status = "DONE" \/ job[i].status = "DONE"
      BY <1>4, <3>1, NotDoneApply
    <3>3. QED BY <1>1, <3>1, <3>2 DEF NeedsBody, Marking
  <2>3. QED BY <2>1, <2>2
<1>5. \A i \in Job : NeedsBody(i)' => NeedsBody(i)
  BY <1>2, <1>3, <1>4 DEF NeedsBody, Marking
<1>6. \A i \in Job : HasBody(i) => HasBody(i)'
  BY <1>1, <1>3 DEF HasBody, Deleting
<1>7. NoDeletes => NoDeletes'
  BY <1>2, <1>3 DEF NoDeletes
<1>8. QED BY <1>5, <1>6, <1>7 DEF BodyInv

\* Recovery defers UPDATEs that do not say DONE.
LEMMA RecoveryBody ==
    ASSUME IInv, BodyInv, NEW h \in Handler, NEW j \in Job,
           recoverAudioUploaded(h, j) \/ recoverSubtitleStages(h, j)
    PROVE  BodyInv'
<1>1. CASE recoverAudioUploaded(h, j)
  BY <1>1, ConstantUpdates, NotDoneUpdates, DeferBody DEF recoverAudioUploaded
<1>2. ASSUME recoverSubtitleStages(h, j) PROVE BodyInv'
  <2> DEFINE target == IF job[j].audio_worker_id # NoWorker
                       THEN [NoChange EXCEPT !.stage = "audio_uploaded",
                                             !.subtitle_worker_id = NoWorker]
                       ELSE BackToQueue
             u == [target EXCEPT !.claimed_by = NoWorker, !.last_heartbeat_at = "null"]
  <2>1. target \in Update
    <3>1. [NoChange EXCEPT !.stage = "audio_uploaded", !.subtitle_worker_id = NoWorker]
             \in Update
      BY NoChangeType DEF Update, WorkerId, Stage
    <3>2. QED BY <3>1, ConstantUpdates
  <2>2. target.status # "DONE"
    BY NotDoneUpdates DEF NoChange
  <2>3. CanStart(h) /\ Defer(h, NoWorker, j, u, NoWorker)
    BY <1>2 DEF recoverSubtitleStages
  <2> HIDE DEF target
  <2>4. u \in Update /\ u.status # "DONE"
    BY <2>1, <2>2 DEF Update, WorkerId, Stamp
  <2> HIDE DEF u
  <2>5. QED BY <2>3, <2>4, DeferBody
<1>3. QED BY <1>1, <1>2

\* Admin handlers; a deletion covers the job from dropping its body to
\* deleting its row, and then nothing about that row is written any more.
LEMMA AdminBody ==
    ASSUME IInv, BodyInv, NEW h \in Handler,
           \/ \E j \in Job : EnsureJobReset(h, j) \/ BatchCancel(h, j) \/ Delete(h, j)
           \/ DeleteRow(h)
    PROVE  BodyInv'
<1>1. Idle.op = "idle" /\ Idle.live /\ call \in [Handler -> Call] /\ job \in [Job -> Row]
  BY DEF Idle, IInv, TypeOK
<1>2. ASSUME NEW j \in Job, EnsureJobReset(h, j) PROVE BodyInv'
  <2> DEFINE u == [NoChange EXCEPT !.status = "PENDING", !.stage = "queued",
                                   !.attempt = 0, !.next_retry_at = "due"]
  <2>1. u \in Update /\ u.status # "DONE"
    BY AdminUpdates DEF NoChange
  <2>2. CanStart(h) /\ Defer(h, NoWorker, j, u, NoWorker)
    BY <1>2 DEF EnsureJobReset
  <2> HIDE DEF u
  <2>3. QED BY <2>1, <2>2, DeferBody
<1>3. ASSUME NEW j \in Job, BatchCancel(h, j) PROVE BodyInv'
  <2> DEFINE u == [NoChange EXCEPT !.status = "DISABLED"]
  <2>1. u \in Update /\ u.status # "DONE"
    BY AdminUpdates DEF NoChange
  <2>2. CanStart(h) /\ Defer(h, NoWorker, j, u, NoWorker)
    BY <1>3 DEF BatchCancel
  <2> HIDE DEF u
  <2>3. QED BY <2>1, <2>2, DeferBody
<1>4. ASSUME NEW j \in Job, Delete(h, j) PROVE BodyInv'
  <2>1. /\ \A g \in Handler : g # h => call'[g] = call[g]
        /\ Deleting(call'[h], j) /\ call[h].op = "idle"
        /\ vtt' = vtt \ {j} /\ UNCHANGED job /\ "delete" \in AdminOps
    BY <1>1, <1>4 DEF Delete, CanStart, Deleting, Idle
  <2>2. \A i \in Job : NeedsBody(i)' => NeedsBody(i)
    BY <2>1 DEF NeedsBody, Marking, Deleting
  <2>3. \A i \in Job : HasBody(i) => HasBody(i)'
    BY <2>1 DEF HasBody, Deleting
  <2>4. QED BY <2>1, <2>2, <2>3 DEF BodyInv
<1>5. ASSUME NEW j \in Job, j = call[h].job, DeleteRow(h) PROVE BodyInv'
  <2> DEFINE rest == [call EXCEPT ![h] = Idle]
  <2>1. call[h].op = "delete" /\ UNCHANGED vtt
    BY <1>5 DEF DeleteRow
  <2>2. "delete" \in AdminOps
    BY <2>1 DEF BodyInv, NoDeletes
  <2>3. \A g \in Handler : rest[g] = IF g = h THEN Idle ELSE call[g]
    BY <1>1
  <2>4. ASSUME call[h].live PROVE BodyInv'
    <3>1. job' = [job EXCEPT ![j] = Absent] /\ call' = RowGone(j, rest)
      BY <1>5, <2>4 DEF DeleteRow
    <3>2. ASSUME NEW g \in Handler
          PROVE  /\ rest[g].job = j => ~call'[g].live
                 /\ rest[g].job # j => call'[g] = rest[g]
      <4>1. rest[g] \in Call
        BY <1>1, <2>3, IdleType
      <4> HIDE DEF rest
      <4>2. call'[g] = IF rest[g].job = j THEN [rest[g] EXCEPT !.live = FALSE] ELSE rest[g]
        BY <3>1 DEF RowGone
      <4>3. QED BY <4>1, <4>2 DEF Call
    <3>3. ASSUME NEW i \in Job, i # j PROVE NeedsBody(i)' => NeedsBody(i)
      <4>1. job'[i] = job[i]
        BY <1>1, <3>1, <3>3
      <4>2. \A g \in Handler : Marking(call'[g], i) => Marking(call[g], i)
        <5> SUFFICES ASSUME NEW g \in Handler, Marking(call'[g], i) PROVE Marking(call[g], i)
          OBVIOUS
        <5>1. call'[g].job = i /\ call'[g].live /\ call'[g].op = "write"
          BY DEF Marking
        <5>2. call'[g] = rest[g]
          BY <3>2, <5>1
        <5>3. QED BY <1>1, <2>3, <5>1, <5>2 DEF Marking
      <4>3. QED BY <4>1, <4>2 DEF NeedsBody
    <3>4. ~NeedsBody(j)'
      <4>1. job'[j].status = "MISSING"
        BY <1>1, <2>1, <3>1 DEF Absent, NewRow
      <4>2. \A g \in Handler : ~Marking(call'[g], j)
        BY <3>2 DEF Marking
      <4>3. QED BY <4>1, <4>2 DEF NeedsBody
    <3>5. ASSUME NEW i \in Job, i # j PROVE HasBody(i) => HasBody(i)'
      <4>1. \A g \in Handler : Deleting(call[g], i) => Deleting(call'[g], i)
        <5> SUFFICES ASSUME NEW g \in Handler, Deleting(call[g], i) PROVE Deleting(call'[g], i)
          OBVIOUS
        <5>1. g # h
          BY <1>5, <3>5 DEF Deleting
        <5>2. rest[g] = call[g] /\ rest[g].job # j
          BY <2>3, <3>5, <5>1 DEF Deleting
        <5>3. call'[g] = call[g]
          BY <3>2, <5>2
        <5>4. QED BY <5>3
      <4>2. QED BY <2>1, <4>1 DEF HasBody
    <3>6. QED BY <2>2, <3>3, <3>4, <3>5 DEF BodyInv
  <2>5. ASSUME ~call[h].live PROVE BodyInv'
    <3>1. UNCHANGED <<job, vtt>> /\ call' = rest
      BY <1>5, <2>1, <2>5 DEF DeleteRow
    <3>2. \A i \in Job : NeedsBody(i)' => NeedsBody(i)
      BY <1>1, <2>3, <3>1 DEF NeedsBody, Marking
    <3>3. \A i \in Job : HasBody(i) => HasBody(i)'
      BY <2>3, <2>5, <3>1 DEF HasBody, Deleting
    <3>4. QED BY <2>2, <3>2, <3>3 DEF BodyInv
  <2>6. QED BY <2>4, <2>5
<1>6. DeleteRow(h) => call[h].job \in Job
  BY IInvElim DEF DeleteRow, SafeCall
<1>7. QED BY <1>2, <1>3, <1>4, <1>5, <1>6

\* A crash loses the handlers: none is about to mark a job any more, and by
\* assumption none was deleting.
LEMMA RestartBody ==
    ASSUME DeletesFinish, IInv, BodyInv, Restart
    PROVE  BodyInv'
<1>1. NoDeletes
  BY DEF DeletesFinish, Restart, BodyInv
<1>2. \A h \in Handler : call'[h].op = "idle"
  BY DEF Restart, Idle
<1>3. UNCHANGED <<job, vtt>>
  BY DEF Restart
<1>4. QED BY <1>1, <1>2, <1>3 DEF BodyInv, NeedsBody, HasBody, NoDeletes, Marking, Deleting

\* All the steps.
LEMMA BodyInductive ==
    ASSUME DeletesFinish, IInv, BodyInv, [Next]_vars
    PROVE  BodyInv'
<1>1. CASE UNCHANGED vars
  BY <1>1, SameRowsNoneDone, QuietRow DEF vars
<1>2. ASSUME NEW w \in Worker, NEW j \in Job, WorkerStep(w, j) PROVE BodyInv'
  BY <1>2, WorkerStepsBody
<1>3. ASSUME NEW h \in Handler, HandlerStep(h) PROVE BodyInv'
  BY <1>3, ClaimStepsBody, ReportStepsBody, WriteBody, RecoveryBody, AdminBody
  DEF HandlerStep
<1>4. ASSUME NEW j \in Job, JobStep(j) PROVE BodyInv'
  BY <1>4, JobStepsBody
<1>5. CASE recoverAudioStages \/ recoverOtherStages
  BY <1>5, ScansBody
<1>6. CASE Restart
  BY <1>6, RestartBody
<1>7. QED BY <1>1, <1>2, <1>3, <1>4, <1>5, <1>6 DEF Next

\* Every DONE job has a body to serve, unless a delete of its row is under
\* way, in every interleaving of completions, late failures, deletions and
\* re-creations of any number of jobs; a crash may not fall into a deletion.
THEOREM ServedBodies ==
    ASSUME DeletesFinish
    PROVE  Spec => []DoneHasBody
<1>1. Init => BodyInv
  BY DEF Init, BodyInv, NeedsBody, Marking, NoDeletes, Absent, NewRow, Idle
<1>2. IInv /\ BodyInv /\ [Next]_vars => BodyInv'
  BY BodyInductive
<1>3. BodyInv => DoneHasBody
  BY DEF BodyInv, NeedsBody, HasBody, Deleting, DoneHasBody
<1>4. QED BY <1>1, <1>2, <1>3, Invariance, PTL DEF Spec

-----------------------------------------------------------------------------
(* One handler at a time.  What waits for its UPDATE was computed from the *)
(* row as it still is, up to its age, and what a claim was allowed still   *)
(* is allowed.                                                             *)

\* A heartbeat names a stage of the line on which its sender holds the job.  The
\* server does not ask for that: a worker with both capabilities whose heartbeat is
\* late, from a line it has left, is believed.
OnLine ==
    \A w \in Worker, j \in Job : \A stage \in Reports(w) : WorkerHeartbeat(w, j, stage) =>
        \/ stage \in AudioStages /\ job[j].stage \in AudioStages
        \/ stage \in SubtitleStages /\ job[j].stage \in SubtitleStages

\* A running job waits with its artifact, or its claimant is the one that the
\* column of the line counts.
RowGood(r) == r.status = "RUNNING" =>
    \/ r.stage = "audio_uploaded" /\ r.audio_uploaded_at # "null"
    \/ r.stage \in AudioStages /\ r.claimed_by \in Worker /\ r.audio_worker_id = r.claimed_by
    \/ /\ r.stage \in SubtitleStages /\ r.claimed_by \in Worker
       /\ r.subtitle_worker_id = r.claimed_by /\ r.audio_uploaded_at # "null"

\* An UPDATE that ends a run, or gives the job back to wait for a subtitle worker.
Retires(u) == /\ u.status # "RUNNING"
              /\ u.status = Keep => /\ u.stage = "audio_uploaded" /\ u.claimed_by = NoWorker
                                    /\ u.audio_uploaded_at = Keep

\* A handler that claims has lines that are still allowed; one that will write a row
\* back into waiting has found its artifact.
CallGood(c) ==
    /\ c.op \in {"claim", "cas"} => c.lines # {} /\ c.lines \subseteq AllowedLines(c.worker)
    /\ c.op \in {"complete", "write"} =>
         /\ Retires(c.update)
         /\ c.update.status = Keep /\ job[c.job].status = "RUNNING"
            => job[c.job].audio_uploaded_at # "null"

Alone == \A g, h \in Handler : call[g] # Idle /\ call[h] # Idle => g = h
IsoInv == /\ \A j \in Job : RowGood(job[j])
          /\ \A h \in Handler : CallGood(call[h])
          /\ Alone

\* A step that starts no job on a line counts no row that was not counted.
NoGain(r, s) == /\ s.status = "RUNNING" /\ s.stage \in AudioStages
                   => /\ r.status = "RUNNING" /\ r.stage \in AudioStages
                      /\ r.audio_worker_id = s.audio_worker_id
                /\ s.status = "RUNNING" /\ s.stage \in SubtitleStages
                   => /\ r.status = "RUNNING" /\ r.stage \in SubtitleStages
                      /\ r.subtitle_worker_id = s.subtitle_worker_id
Calm == \A j \in Job : NoGain(job[j], job'[j])

\* A row as it was but for its age.
Aged(r, s) == /\ s.status = r.status /\ s.stage = r.stage /\ s.claimed_by = r.claimed_by
              /\ s.audio_worker_id = r.audio_worker_id
              /\ s.subtitle_worker_id = r.subtitle_worker_id
              /\ r.audio_uploaded_at # "null" => s.audio_uploaded_at # "null"

AllIdle == \A h \in Handler : call[h] = Idle

LEMMA StagesApart ==
    /\ "audio_uploaded" \notin AudioStages /\ "audio_uploaded" \notin SubtitleStages
    /\ "downloading" \in AudioStages /\ "asr" \in SubtitleStages
    /\ "downloading" \notin SubtitleStages /\ "asr" \notin AudioStages
    /\ AudioStages \cap SubtitleStages = {}
BY DEF AudioStages, SubtitleStages

LEMMA IdleGood == CallGood(Idle) /\ Idle.op = "idle"
BY DEF CallGood, Idle

\* A UPDATE that retires, on a row whose artifact is there if it goes on waiting.
LEMMA RetiredRow ==
    ASSUME NEW r \in Row, NEW u \in Update, Retires(u),
           u.status = Keep /\ r.status = "RUNNING" => r.audio_uploaded_at # "null"
    PROVE  RowGood(Apply(r, u)) /\ NoGain(r, Apply(r, u))
BY KeepIsNoValue, StagesApart DEF Retires, RowGood, NoGain, Apply, Column

\* What is allowed depends on what ages do not touch.
LEMMA SameLines ==
    ASSUME \A j \in Job : Aged(job[j], job'[j])
    PROVE  \A w : AllowedLines(w)' = AllowedLines(w)
<1>1. Running' = Running
  BY DEF Running, Aged
<1>2. ASSUME NEW ws PROVE Extracting(ws)' = Extracting(ws)
  BY <1>1 DEF Extracting, Running, Aged
<1>3. ASSUME NEW ws PROVE Subtitling(ws)' = Subtitling(ws)
  BY <1>1 DEF Subtitling, Running, Aged
<1>4. ASSUME NEW ws PROVE Held(ws)' = Held(ws)
  BY <1>1 DEF Held, Running, Aged
<1> QED BY <1>1, <1>2, <1>3, <1>4 DEF AllowedLines

\* Nothing happens but time, and at most the death of the handlers.
LEMMA AgeStep ==
    ASSUME IInv, IsoInv, \A j \in Job : Aged(job[j], job'[j]), UNCHANGED call \/ AllIdle'
    PROVE  IsoInv' /\ Calm
<1>1. \A j \in Job : RowGood(job'[j]) /\ NoGain(job[j], job'[j])
  BY DEF IsoInv, RowGood, Aged, NoGain
<1>2. ASSUME NEW h \in Handler, call' = call PROVE CallGood(call[h])'
  <2>1. CallGood(call[h]) /\ SafeCall(call[h])
    BY IInvElim DEF IsoInv
  <2>2. AllowedLines(call[h].worker)' = AllowedLines(call[h].worker)
    BY <1>2, SameLines
  <2>3. call[h].op \in {"complete", "write"} => call[h].job \in Job
    BY <2>1 DEF SafeCall
  <2> QED BY <1>2, <2>1, <2>2, <2>3 DEF CallGood, Aged
<1>3. ASSUME NEW h \in Handler, AllIdle' PROVE CallGood(call[h])'
  BY <1>3 DEF AllIdle, CallGood, Idle
<1>4. Alone'
  BY DEF IsoInv, Alone, AllIdle
<1> QED BY <1>1, <1>2, <1>3, <1>4 DEF IsoInv, Calm

\* A handler ends, or takes its only step, and leaves good rows.
LEMMA EndStep ==
    ASSUME AllIdle', \A j \in Job : RowGood(job'[j])
    PROVE  IsoInv'
<1>1. \A h \in Handler : call'[h] = Idle
  BY DEF AllIdle
<1>2. ASSUME NEW h \in Handler PROVE CallGood(call[h])'
  BY <1>1 DEF CallGood, Idle
<1> QED BY <1>1, <1>2 DEF IsoInv, Alone

\* One handler reads, and knows c.
LEMMA ReadStep ==
    ASSUME IInv, IsoInv, NEW h \in Handler, NEW c, CallGood(c), job' = job,
           call' = [call EXCEPT ![h] = c], \A g \in Handler : g # h => call[g] = Idle
    PROVE  IsoInv' /\ Calm
<1>1. \A j \in Job : RowGood(job'[j]) /\ NoGain(job[j], job'[j])
  BY DEF IsoInv, NoGain
<1>2. \A w : AllowedLines(w)' = AllowedLines(w)
  BY SameLines DEF Aged
<1>3. call'[h] = c /\ \A g \in Handler : g # h => call'[g] = Idle
  BY DEF IInv, TypeOK
<1>4. \A g \in Handler : CallGood(call[g])'
  <2>1. CallGood(call[h])'
    BY <1>2, <1>3 DEF CallGood
  <2>2. ASSUME NEW g \in Handler, g # h PROVE CallGood(call[g])'
    BY <1>3, <2>2 DEF CallGood, Idle
  <2> QED BY <2>1, <2>2
<1>5. Alone'
  BY <1>3 DEF Alone
<1> QED BY <1>1, <1>4, <1>5 DEF IsoInv, Calm

\* What a handler that has begun, or may begin, says of the others.
LEMMA OthersIdle ==
    ASSUME IsoInv, NEW h \in Handler, call[h] # Idle
    PROVE  \A g \in Handler : g # h => call[g] = Idle
BY DEF IsoInv, Alone

\* A handler alone defers an UPDATE that retires the row it has read.
LEMMA DeferIso ==
    ASSUME IInv, IsoInv, NEW h \in Handler, NEW w, NEW j \in Job, NEW u, NEW owner, Retires(u),
           u.status = Keep /\ job[j].status = "RUNNING" => job[j].audio_uploaded_at # "null",
           Defer(h, w, j, u, owner), AllIdle
    PROVE  IsoInv' /\ Calm
<1> DEFINE c == [Idle EXCEPT !.op = "write", !.worker = w, !.job = j, !.update = u,
                             !.owner = owner]
<1>1. CallGood(c)
  BY DEF CallGood, Idle
<1>2. call' = [call EXCEPT ![h] = c] /\ job' = job
  BY DEF Defer
<1> HIDE DEF c
<1> QED BY <1>1, <1>2, ReadStep DEF AllIdle

\* One row is written while no handler is busy.
LEMMA SetIso ==
    ASSUME IInv, IsoInv, NEW j \in Job, NEW r, job' = [job EXCEPT ![j] = r],
           RowGood(r), NoGain(job[j], r), AllIdle'
    PROVE  IsoInv' /\ Calm
<1>1. \A i \in Job : job'[i] = job[i] \/ (i = j /\ job'[i] = r)
  BY DEF IInv, TypeOK
<1>2. \A i \in Job : RowGood(job'[i]) /\ NoGain(job[i], job'[i])
  BY <1>1 DEF IsoInv, NoGain
<1> QED BY <1>2, EndStep DEF Calm

\* The UPDATEs that end a run are good on any row.
LEMMA Off ==
    /\ \A r, s : s.status # "RUNNING" => RowGood(s) /\ NoGain(r, s)
    /\ \A r \in Row, u \in Update : u.status \notin {Keep, "RUNNING"}
         => Apply(r, u).status # "RUNNING"
    /\ \A u : u.status \notin {Keep, "RUNNING"} => Retires(u)
BY DEF RowGood, NoGain, Apply, Column, Retires

LEMMA AudioReadyRow ==
    ASSUME NEW r \in Row
    PROVE  RowGood(Apply(r, AudioReadyUpdate)) /\ NoGain(r, Apply(r, AudioReadyUpdate))
<1> DEFINE s == Apply(r, AudioReadyUpdate)
<1>1. s.stage = "audio_uploaded" /\ s.audio_uploaded_at = "recent"
  BY KeepAssumption DEF Apply, Column, AudioReadyUpdate, NoChange, Stage, Stamp
<1> HIDE DEF s
<1>2. RowGood(s) /\ NoGain(r, s)
  BY <1>1, StagesApart DEF RowGood, NoGain
<1> QED BY <1>2 DEF s

\* A failure keeps a job running only from a subtitle stage.
LEMMA FailRetires ==
    ASSUME NEW r \in Row, NEW class
    PROVE  /\ Retires(FailUpdate(r, class))
           /\ FailUpdate(r, class).status = Keep => r.stage \in SubtitleStages
<1> DEFINE o == FailOutcome(r, class)
<1>1. /\ o.status # "RUNNING"
      /\ o.status = Keep => /\ o.stage = "audio_uploaded" /\ o.audio_uploaded_at = Keep
                            /\ r.stage \in SubtitleStages
  BY KeepIsNoValue DEF FailOutcome, applyStageRollback, BackToQueue, NoChange
<1>2. o \in Update
  <2>1. CASE class = "permanent" \/ (class = "retriable" /\ r.attempt + 1 >= MaxAttempts)
    BY <2>1, NoChangeType, NextAttemptType DEF FailOutcome, Update, Status
  <2>2. CASE ~(class = "permanent" \/ (class = "retriable" /\ r.attempt + 1 >= MaxAttempts))
    BY <2>2, RollbackType, NextAttemptType DEF FailOutcome, Update, Backoff
  <2> QED BY <2>1, <2>2
<1>3. FailUpdate(r, class) = [o EXCEPT !.claimed_by = NoWorker, !.last_heartbeat_at = "recent"]
  BY DEF FailUpdate
<1> HIDE DEF o
<1> QED BY <1>1, <1>2, <1>3 DEF Retires, Update

\* The claim: what was allowed still is, and the row is claimed for its line.
LEMMA ClaimIso ==
    ASSUME Isolated, IInv, IsoInv, NEW h \in Handler,
           \/ \E w \in Worker : checkClaimCapacity(h, w)
           \/ \E j \in Job : claimSelect(h, j)
           \/ claimNothing(h)
           \/ claimContention(h)
    PROVE  IsoInv' /\ Calm
<1>1. ASSUME NEW w \in Worker, checkClaimCapacity(h, w) PROVE IsoInv' /\ Calm
  <2> DEFINE c == [Idle EXCEPT !.op = "claim", !.worker = w, !.lines = AllowedLines(w)]
  <2>1. CallGood(c) /\ call' = [call EXCEPT ![h] = c] /\ job' = job /\ AllIdle
    BY <1>1 DEF checkClaimCapacity, CanStart, CallGood, Idle, AllIdle
  <2> HIDE DEF c
  <2> QED BY <2>1, ReadStep DEF AllIdle
<1>2. ASSUME NEW j \in Job, claimSelect(h, j) PROVE IsoInv' /\ Calm
  <2> DEFINE c == [call[h] EXCEPT !.op = "cas", !.job = j]
  <2>1. call[h] \in Call /\ CallGood(call[h]) /\ call[h].op = "claim"
    BY <1>2, IInvElim DEF claimSelect, IsoInv
  <2>2. CallGood(c) /\ call[h] # Idle
    BY <2>1 DEF CallGood, Call, Idle
  <2>3. call' = [call EXCEPT ![h] = c] /\ job' = job
    BY <1>2 DEF claimSelect
  <2> HIDE DEF c
  <2> QED BY <2>2, <2>3, ReadStep, OthersIdle
<1>3. ASSUME NEW lines \in SUBSET call[h].lines, call[h].op \in {"claim", "cas"},
             Reselect(h, lines), UNCHANGED job
      PROVE  IsoInv' /\ Calm
  <2> DEFINE c == IF lines = {} THEN Idle
                  ELSE [Idle EXCEPT !.op = "claim", !.worker = call[h].worker, !.lines = lines]
  <2>1. CallGood(call[h]) /\ call[h] # Idle
    BY <1>3 DEF IsoInv, Idle
  <2>2. CallGood(c)
    BY <1>3, <2>1 DEF CallGood, Idle
  <2>3. call' = [call EXCEPT ![h] = c]
    BY <1>3 DEF Reselect
  <2> HIDE DEF c
  <2> QED BY <1>3, <2>1, <2>2, <2>3, ReadStep, OthersIdle
<1>4. CASE claimNothing(h)
  BY <1>3, <1>4 DEF claimNothing
<1>5. CASE claimContention(h)
  BY <1>3, <1>5 DEF claimContention
<1> QED BY <1>1, <1>2, <1>4, <1>5

\* The line of a claim is one that is allowed, and of the worker.
LEMMA ClaimedLine ==
    ASSUME IInv, IsoInv, NEW h \in Handler, tryClaim(h)
    PROVE  /\ call[h].worker \in Worker
           /\ TriedLine(call[h]) \in {"audio", "subtitle"}
           /\ TriedLine(call[h]) \in AllowedLines(call[h].worker)
<1>1. /\ call[h].op = "cas" /\ call[h].worker \in Worker /\ call[h].lines # {}
      /\ call[h].lines \subseteq AllowedLines(call[h].worker)
  BY IInvElim DEF tryClaim, SafeCall, IsoInv, CallGood
<1>2. AllowedLines(call[h].worker) \subseteq {"audio", "subtitle"}
  BY DEF AllowedLines, Capability
<1> QED BY <1>1, <1>2 DEF TriedLine

\* A claim puts a good row in the hand of a worker of the line.
LEMMA TakeIso ==
    ASSUME IInv, IsoInv, NEW h \in Handler, tryClaim(h)
    PROVE  IsoInv'
<1> DEFINE j == call[h].job
           w == call[h].worker
           line == TriedLine(call[h])
           r == Apply(job[j], ClaimUpdate(line, w))
<1>1. /\ call[h].op = "cas" /\ j \in Job /\ w \in Worker /\ Claimable(line, j)
      /\ job[j] \in Row /\ RowGood(job[j]) /\ CallGood(call[h])
  BY IInvElim DEF tryClaim, CasMatches, SafeCall, IsoInv
<1>2. line \in {"audio", "subtitle"}
  BY ClaimedLine
<1>3. job' = [job EXCEPT ![j] = r] /\ call' = [call EXCEPT ![h] = Idle] /\ call[h] # Idle
  BY <1>1 DEF tryClaim, Idle
<1>4. RowGood(r)
  <2> HIDE DEF j, w, line
  <2>1. CASE line = "audio"
    BY <1>1, <2>1, KeepIsNoValue, StagesApart
    DEF RowGood, Apply, Column, ClaimUpdate, NoChange
  <2>2. CASE line = "subtitle"
    BY <1>1, <2>2, KeepIsNoValue, StagesApart
    DEF RowGood, Apply, Column, ClaimUpdate, NoChange, Claimable
  <2> QED BY <1>2, <2>1, <2>2
<1> HIDE DEF r, line
<1>5. \A i \in Job : RowGood(job'[i])
  BY <1>3, <1>4 DEF IsoInv, IInv, TypeOK
<1>6. AllIdle'
  BY <1>3, OthersIdle DEF AllIdle, IInv, TypeOK
<1> QED BY <1>5, <1>6, EndStep

\* A heartbeat stays on the line of its claimant; the other reports end the line.
LEMMA WorkerIso ==
    ASSUME Isolated, IInv, IsoInv, NEW w \in Worker, NEW j \in Job, WorkerStep(w, j), OnLine
    PROVE  IsoInv' /\ Calm
<1> USE IInvElim
<1>1. ASSUME NEW stage \in Reports(w), WorkerHeartbeat(w, j, stage) PROVE IsoInv' /\ Calm
  <2> DEFINE r == Apply(job[j], [NoChange EXCEPT !.stage = stage,
                                                 !.last_heartbeat_at = "recent"])
  <2>1. /\ r.stage = stage /\ r.status = "RUNNING" /\ r.claimed_by = w
        /\ r.audio_worker_id = job[j].audio_worker_id
        /\ r.subtitle_worker_id = job[j].subtitle_worker_id
        /\ r.audio_uploaded_at = job[j].audio_uploaded_at
    <3>1. stage # Keep
      BY KeepAssumption, BoundAssumption DEF Reports
    <3> QED BY <1>1, <3>1 DEF WorkerHeartbeat, Apply, Column, NoChange
  <2>2. \/ stage \in AudioStages /\ job[j].stage \in AudioStages
        \/ stage \in SubtitleStages /\ job[j].stage \in SubtitleStages
    BY <1>1 DEF OnLine
  <2>3. job[j].status = "RUNNING" /\ job[j].claimed_by = w /\ RowGood(job[j])
    BY <1>1 DEF WorkerHeartbeat, IsoInv
  <2>4. job' = [job EXCEPT ![j] = r] /\ AllIdle'
    BY <1>1 DEF WorkerHeartbeat, Set, CanStep, AllIdle
  <2> HIDE DEF r
  <2>5. RowGood(r) /\ NoGain(job[j], r)
    BY <2>1, <2>2, <2>3, StagesApart DEF RowGood, NoGain
  <2> QED BY <2>4, <2>5, SetIso
<1>2. ASSUME job' = [job EXCEPT ![j] = Apply(@, AudioReadyUpdate)], AllIdle'
      PROVE  IsoInv' /\ Calm
  <2> DEFINE r == Apply(job[j], AudioReadyUpdate)
  <2>1. RowGood(r) /\ NoGain(job[j], r)
    BY AudioReadyRow
  <2>2. job' = [job EXCEPT ![j] = r]
    BY <1>2
  <2> HIDE DEF r
  <2> QED BY <1>2, <2>1, <2>2, SetIso
<1>3. ASSUME UNCHANGED <<job, call>> PROVE IsoInv' /\ Calm
  BY <1>3, AgeStep DEF Aged
<1>4. CASE WorkerAudioReady(w, j)
  BY <1>2, <1>4 DEF WorkerAudioReady, CanStep, AllIdle
<1>5. CASE WorkerAudioLost(w, j)
  <2> DEFINE r == Apply(job[j], ResetUpdate)
  <2>1. ResetUpdate \in Update /\ ResetUpdate.status \notin {Keep, "RUNNING"}
    BY ConstantUpdates, KeepIsNoValue DEF ResetUpdate, BackToQueue, NoChange
  <2>2. RowGood(r) /\ NoGain(job[j], r)
    BY <2>1, Off
  <2>3. job' = [job EXCEPT ![j] = r] /\ AllIdle'
    BY <1>5 DEF WorkerAudioLost, Set, CanStep, AllIdle
  <2> HIDE DEF r
  <2> QED BY <2>2, <2>3, SetIso
<1>6. CASE AudioCleanup(w, j) \/ FlacVanishes(w, j)
  BY <1>3, <1>6 DEF AudioCleanup, FlacVanishes
<1>7. CASE AudioRescan(w, j)
  <2>1. UNCHANGED call /\ AllIdle'
    BY <1>7 DEF AudioRescan, CanStep, AllIdle
  <2> QED BY <1>2, <1>3, <1>7, <2>1 DEF AudioRescan
<1> QED BY <1>1, <1>4, <1>5, <1>6, <1>7 DEF WorkerStep

\* The reports and admin operations that read a row, alone.
LEMMA ReadIso ==
    ASSUME Isolated, IInv, IsoInv, NEW h \in Handler, NEW j \in Job,
           \/ \E w \in Worker : WorkerDeregister(h, w, j) \/ WorkerComplete(h, w, j)
           \/ \E w \in Worker, class \in ErrorKindClass : WorkerFailWithKind(h, w, j, class)
           \/ recoverAudioUploaded(h, j) \/ recoverSubtitleStages(h, j)
           \/ EnsureJobReset(h, j) \/ BatchCancel(h, j) \/ Delete(h, j)
    PROVE  IsoInv' /\ Calm
<1> USE IInvElim
<1>1. job[j] \in Row /\ RowGood(job[j])
  BY DEF IsoInv
<1>2. AllIdle
  BY DEF WorkerDeregister, WorkerComplete, WorkerFailWithKind, recoverAudioUploaded,
         recoverSubtitleStages, EnsureJobReset, BatchCancel, Delete, CanStart, AllIdle
<1>3. ASSUME NEW w \in Worker, WorkerDeregister(h, w, j) PROVE IsoInv' /\ Calm
  <2> DEFINE c == [Idle EXCEPT !.op = "leave", !.worker = w, !.job = j]
  <2>1. CallGood(c) /\ call' = [call EXCEPT ![h] = c] /\ job' = job
    BY <1>3 DEF WorkerDeregister, CallGood, Idle
  <2> HIDE DEF c
  <2> QED BY <1>2, <2>1, ReadStep DEF AllIdle
<1>4. ASSUME NEW w \in Worker, WorkerComplete(h, w, j) PROVE IsoInv' /\ Calm
  <2> DEFINE c == [Idle EXCEPT !.op = "complete", !.worker = w, !.job = j,
                               !.update = DoneUpdate, !.owner = job[j].audio_worker_id]
  <2>1. Retires(DoneUpdate) /\ DoneUpdate.status # Keep
    BY KeepIsNoValue DEF Retires, DoneUpdate, NoChange
  <2>2. CallGood(c)
    BY <2>1 DEF CallGood, Idle
  <2>3. call' = [call EXCEPT ![h] = c] /\ job' = job
    BY <1>4 DEF WorkerComplete
  <2> HIDE DEF c
  <2> QED BY <1>2, <2>2, <2>3, ReadStep DEF AllIdle
<1>5. ASSUME NEW w \in Worker, NEW class, WorkerFailWithKind(h, w, j, class)
      PROVE  IsoInv' /\ Calm
  <2>1. /\ Retires(FailUpdate(job[j], class))
        /\ FailUpdate(job[j], class).status = Keep /\ job[j].status = "RUNNING"
           => job[j].audio_uploaded_at # "null"
    BY <1>1, FailRetires, StagesApart DEF RowGood
  <2>2. Defer(h, w, j, FailUpdate(job[j], class), NoWorker)
    BY <1>5 DEF WorkerFailWithKind
  <2> QED BY <1>2, <2>1, <2>2, DeferIso
<1>6. CASE recoverAudioUploaded(h, j)
  <2>1. Retires(ResetUpdate) /\ ResetUpdate.status # Keep
    BY KeepIsNoValue DEF Retires, ResetUpdate, BackToQueue, NoChange
  <2>2. Defer(h, NoWorker, j, ResetUpdate, job[j].audio_worker_id)
    BY <1>6 DEF recoverAudioUploaded
  <2> QED BY <1>2, <2>1, <2>2, DeferIso
<1>7. CASE recoverSubtitleStages(h, j)
  <2> DEFINE target == IF job[j].audio_worker_id # NoWorker
                       THEN [NoChange EXCEPT !.stage = "audio_uploaded",
                                             !.subtitle_worker_id = NoWorker]
                       ELSE BackToQueue
             u == [target EXCEPT !.claimed_by = NoWorker, !.last_heartbeat_at = "null"]
  <2>1. Retires(u)
    BY KeepIsNoValue DEF Retires, BackToQueue, NoChange
  <2>2. job[j].audio_uploaded_at # "null"
    BY <1>1, <1>7, StagesApart DEF recoverSubtitleStages, RowGood
  <2>3. Defer(h, NoWorker, j, u, NoWorker)
    BY <1>7 DEF recoverSubtitleStages
  <2> HIDE DEF u
  <2> QED BY <1>2, <2>1, <2>2, <2>3, DeferIso
<1>8. CASE EnsureJobReset(h, j)
  <2> DEFINE u == [NoChange EXCEPT !.status = "PENDING", !.stage = "queued",
                                   !.attempt = 0, !.next_retry_at = "due"]
  <2>1. u.status \notin {Keep, "RUNNING"}
    BY KeepIsNoValue DEF NoChange
  <2>2. Defer(h, NoWorker, j, u, NoWorker)
    BY <1>8 DEF EnsureJobReset
  <2> HIDE DEF u
  <2> QED BY <1>2, <2>1, <2>2, Off, DeferIso
<1>9. CASE BatchCancel(h, j)
  <2> DEFINE u == [NoChange EXCEPT !.status = "DISABLED"]
  <2>1. u.status \notin {Keep, "RUNNING"}
    BY KeepIsNoValue DEF NoChange
  <2>2. Defer(h, NoWorker, j, u, NoWorker)
    BY <1>9 DEF BatchCancel
  <2> HIDE DEF u
  <2> QED BY <1>2, <2>1, <2>2, Off, DeferIso
<1>10. CASE Delete(h, j)
  <2> DEFINE c == [Idle EXCEPT !.op = "delete", !.job = j]
  <2>1. CallGood(c) /\ call' = [call EXCEPT ![h] = c] /\ job' = job
    BY <1>10 DEF Delete, CallGood, Idle
  <2> HIDE DEF c
  <2> QED BY <1>2, <2>1, ReadStep DEF AllIdle
<1> QED BY <1>3, <1>4, <1>5, <1>6, <1>7, <1>8, <1>9, <1>10

\* A handler that has begun is the only one: its end leaves none.
LEMMA EndsIdle ==
    ASSUME IInv, IsoInv, NEW h \in Handler, call[h] # Idle,
           call' = [call EXCEPT ![h] = Idle]
    PROVE  AllIdle'
BY OthersIdle DEF AllIdle, IInv, TypeOK

\* The second halves: the body, the UPDATE by id, audio-lost, the DELETE.
LEMMA FinishIso ==
    ASSUME IInv, IsoInv, NEW h \in Handler,
           storeVTT(h) \/ Write(h) \/ deregisterAudioLost(h) \/ DeleteRow(h)
    PROVE  IsoInv' /\ Calm
<1> DEFINE j == call[h].job
<1>1. /\ call[h] \in Call /\ SafeCall(call[h]) /\ CallGood(call[h]) /\ call[h] # Idle
      /\ j \in Job /\ job[j] \in Row
  <2>1. call[h] \in Call /\ SafeCall(call[h]) /\ CallGood(call[h])
    BY IInvElim DEF IsoInv
  <2>2. call[h].op \in {"complete", "write", "leave", "delete"}
    BY DEF storeVTT, Write, deregisterAudioLost, DeleteRow
  <2> QED BY <2>1, <2>2, IInvElim DEF SafeCall, Idle
<1>2. ASSUME job' = job, AllIdle' PROVE IsoInv' /\ Calm
  BY <1>2, AgeStep DEF Aged
<1>3. CASE storeVTT(h)
  <2> DEFINE c == [call[h] EXCEPT !.op = "write"]
  <2>1. CallGood(c)
    BY <1>1, <1>3 DEF storeVTT, CallGood, Call
  <2>2. call' = [call EXCEPT ![h] = c] /\ job' = job
    BY <1>3 DEF storeVTT
  <2> HIDE DEF c
  <2> QED BY <1>1, <2>1, <2>2, ReadStep, OthersIdle
<1>4. CASE Write(h)
  <2> DEFINE r == Apply(job[j], call[h].update)
  <2>1. AllIdle'
    BY <1>1, <1>4, EndsIdle DEF Write
  <2>2. /\ Retires(call[h].update) /\ call[h].update \in Update
        /\ call[h].update.status = Keep /\ job[j].status = "RUNNING"
           => job[j].audio_uploaded_at # "null"
    BY <1>1, <1>4 DEF Write, CallGood, Call
  <2>3. RowGood(r) /\ NoGain(job[j], r)
    BY <1>1, <2>2, RetiredRow
  <2>4. job' = job \/ job' = [job EXCEPT ![j] = r]
    BY <1>4 DEF Write
  <2> HIDE DEF r, j
  <2> QED BY <1>1, <1>2, <2>1, <2>3, <2>4, SetIso
<1>5. CASE deregisterAudioLost(h)
  <2> DEFINE r == Apply(job[j], ResetUpdate)
  <2>1. AllIdle'
    BY <1>1, <1>5, EndsIdle DEF deregisterAudioLost
  <2>2. ResetUpdate \in Update /\ ResetUpdate.status \notin {Keep, "RUNNING"}
    BY ConstantUpdates, KeepIsNoValue DEF ResetUpdate, BackToQueue, NoChange
  <2>3. RowGood(r) /\ NoGain(job[j], r)
    BY <1>1, <2>2, Off
  <2>4. job' = job \/ job' = [job EXCEPT ![j] = r]
    BY <1>5 DEF deregisterAudioLost
  <2> HIDE DEF r, j
  <2> QED BY <1>1, <1>2, <2>1, <2>3, <2>4, SetIso
<1>6. CASE DeleteRow(h)
  <2>1. \A g \in Handler : g # h => call[g] = Idle
    BY <1>1, OthersIdle
  <2>2. CASE ~call[h].live
    <3>1. AllIdle' /\ job' = job
      BY <1>1, <1>6, <2>2, EndsIdle DEF DeleteRow
    <3> QED BY <1>2, <3>1
  <2>3. CASE call[h].live
    <3>1. /\ job' = [job EXCEPT ![j] = Absent]
          /\ call' = RowGone(j, [call EXCEPT ![h] = Idle])
      BY <1>6, <2>3 DEF DeleteRow
    <3>2. j # Idle.job
      BY <1>1, WorkerAssumption DEF Idle
    <3>3. \A g \in Handler : [call EXCEPT ![h] = Idle][g] = Idle
      BY <2>1 DEF IInv, TypeOK
    <3>4. AllIdle'
      BY <3>1, <3>2, <3>3 DEF AllIdle, RowGone
    <3>5. RowGood(Absent) /\ NoGain(job[j], Absent)
      BY Off DEF Absent, NewRow
    <3> HIDE DEF j
    <3> QED BY <1>1, <3>1, <3>4, <3>5, SetIso
  <2> QED BY <2>2, <2>3
<1> QED BY <1>3, <1>4, <1>5, <1>6

\* The two scans of the recovery, alone, end the runs they find.
LEMMA ScanIso ==
    ASSUME IInv, IsoInv, NEW S, NEW u \in Update, u.status \notin {Keep, "RUNNING"},
           job' = [j \in Job |-> IF j \in S THEN Apply(job[j], u) ELSE job[j]], AllIdle'
    PROVE  IsoInv' /\ Calm
<1>1. ASSUME NEW j \in Job PROVE RowGood(job'[j]) /\ NoGain(job[j], job'[j])
  <2>1. job[j] \in Row /\ RowGood(job[j])
    BY IInvElim DEF IsoInv
  <2>2. CASE j \in S
    BY <2>1, <2>2, Off
  <2>3. CASE j \notin S
    BY <2>1, <2>3 DEF NoGain
  <2> QED BY <2>2, <2>3
<1> QED BY <1>1, EndStep DEF Calm

\* A row is created, or loses its run, while no handler is busy; time passes any time.
LEMMA JobIso ==
    ASSUME Isolated, IInv, IsoInv, NEW j \in Job, JobStep(j)
    PROVE  IsoInv' /\ Calm
<1>1. ASSUME NEW u \in Update, u.status \notin {Keep, "RUNNING"}, Set(j, u), CanStep
      PROVE  IsoInv' /\ Calm
  <2> DEFINE r == Apply(job[j], u)
  <2>1. RowGood(r) /\ NoGain(job[j], r)
    BY <1>1, IInvElim, Off
  <2>2. job' = [job EXCEPT ![j] = r] /\ AllIdle'
    BY <1>1 DEF Set, CanStep, AllIdle
  <2> HIDE DEF r
  <2> QED BY <2>1, <2>2, SetIso
<1>2. ASSUME NEW s, s # "RUNNING", Create(j, s), CanStep PROVE IsoInv' /\ Calm
  <2>1. RowGood(NewRow(s)) /\ NoGain(job[j], NewRow(s))
    BY <1>2, Off DEF NewRow
  <2>2. job' = [job EXCEPT ![j] = NewRow(s)] /\ AllIdle'
    BY <1>2 DEF Create, CanStep, AllIdle
  <2> QED BY <2>1, <2>2, SetIso
<1>3. ASSUME NEW u \in Update, Set(j, u), Aged(job[j], Apply(job[j], u))
      PROVE  IsoInv' /\ Calm
  <2>1. \A i \in Job : job'[i] = job[i] \/ (i = j /\ job'[i] = Apply(job[j], u))
    BY <1>3 DEF Set, IInv, TypeOK
  <2>2. \A i \in Job : Aged(job[i], job'[i])
    BY <1>3, <2>1 DEF Aged
  <2>3. UNCHANGED call
    BY <1>3 DEF Set
  <2> QED BY <2>2, <2>3, AgeStep
<1>4. CASE EnsureJobCreate(j)
  BY <1>2, <1>4 DEF EnsureJobCreate
<1>5. CASE Retry(j)
  <2> DEFINE u == [NoChange EXCEPT !.status = "PENDING", !.stage = "queued"]
  <2>1. u \in Update /\ u.status \notin {Keep, "RUNNING"}
    BY AdminUpdates, KeepIsNoValue, NoChangeType DEF NoChange, Update, Status, Stage
  <2>2. Set(j, u) \/ Create(j, "PENDING")
    BY <1>5 DEF Retry
  <2>3. CanStep
    BY <1>5 DEF Retry
  <2> HIDE DEF u
  <2> QED BY <1>1, <1>2, <2>1, <2>2, <2>3
<1>6. ASSUME NEW disabled \in BOOLEAN, SetDisabled(j, disabled) PROVE IsoInv' /\ Calm
  <2> DEFINE target == IF disabled THEN "DISABLED" ELSE "PENDING"
             u == [NoChange EXCEPT !.status = target]
  <2>1. target \in {"DISABLED", "PENDING"}
    OBVIOUS
  <2>2. Set(j, u) \/ Create(j, target)
    BY <1>6 DEF SetDisabled
  <2>3. CanStep
    BY <1>6 DEF SetDisabled
  <2> HIDE DEF target
  <2>4. u \in Update /\ u.status \notin {Keep, "RUNNING"}
    BY <2>1, KeepIsNoValue, NoChangeType DEF NoChange, Update, Status
  <2> HIDE DEF u
  <2> QED BY <1>1, <1>2, <2>1, <2>2, <2>3, <2>4
<1>7. CASE HeartbeatAges(j)
  <2> DEFINE u == [NoChange EXCEPT !.last_heartbeat_at = "stale"]
  <2>1. u \in Update /\ Aged(job[j], Apply(job[j], u))
    BY NoChangeType DEF Aged, Apply, Column, NoChange, Update, Stamp
  <2>2. Set(j, u)
    BY <1>7 DEF HeartbeatAges
  <2> HIDE DEF u
  <2> QED BY <1>3, <2>1, <2>2
<1>8. CASE UploadAges(j)
  <2> DEFINE u == [NoChange EXCEPT !.audio_uploaded_at = "stale"]
  <2>1. u \in Update /\ Aged(job[j], Apply(job[j], u))
    BY NoChangeType, KeepAssumption DEF Aged, Apply, Column, NoChange, Update, Stamp
  <2>2. Set(j, u)
    BY <1>8 DEF UploadAges
  <2> HIDE DEF u
  <2> QED BY <1>3, <2>1, <2>2
<1>9. CASE BackoffEnds(j)
  <2> DEFINE u == [NoChange EXCEPT !.next_retry_at = "due"]
  <2>1. u \in Update /\ Aged(job[j], Apply(job[j], u))
    BY NoChangeType DEF Aged, Apply, Column, NoChange, Update, Backoff
  <2>2. Set(j, u)
    BY <1>9 DEF BackoffEnds
  <2> HIDE DEF u
  <2> QED BY <1>3, <2>1, <2>2
<1> QED BY <1>4, <1>5, <1>6, <1>7, <1>8, <1>9 DEF JobStep

\* The empty table and handlers that have not begun are good.
LEMMA InitIso == Init => IsoInv
BY DEF Init, IsoInv, RowGood, CallGood, Alone, Absent, NewRow, Idle

\* A step made alone keeps the rows good, and only a claim makes a line count one more.
LEMMA IsoStep ==
    ASSUME Isolated, IInv, IsoInv, [Next]_vars, [OnLine]_vars
    PROVE  IsoInv' /\ (Calm \/ \E h \in Handler : tryClaim(h))
<1>1. ASSUME NEW w \in Worker, NEW j \in Job, WorkerStep(w, j), OnLine PROVE IsoInv' /\ Calm
  BY <1>1, WorkerIso
<1>2. ASSUME NEW h \in Handler, HandlerStep(h) PROVE IsoInv' /\ (Calm \/ tryClaim(h))
  <2>1. CASE \/ \E w \in Worker : checkClaimCapacity(h, w)
             \/ \E j \in Job : claimSelect(h, j)
             \/ claimNothing(h)
             \/ claimContention(h)
    BY <2>1, ClaimIso
  <2>2. CASE tryClaim(h)
    BY <2>2, TakeIso
  <2>3. CASE storeVTT(h) \/ Write(h) \/ deregisterAudioLost(h) \/ DeleteRow(h)
    BY <2>3, FinishIso
  <2>4. ASSUME NEW j \in Job,
               \/ \E w \in Worker : WorkerDeregister(h, w, j) \/ WorkerComplete(h, w, j)
               \/ \E w \in Worker, class \in ErrorKindClass : WorkerFailWithKind(h, w, j, class)
               \/ recoverAudioUploaded(h, j) \/ recoverSubtitleStages(h, j)
               \/ EnsureJobReset(h, j) \/ BatchCancel(h, j) \/ Delete(h, j)
        PROVE  IsoInv' /\ Calm
    BY <2>4, ReadIso
  <2> QED BY <1>2, <2>1, <2>2, <2>3, <2>4 DEF HandlerStep
<1>3. ASSUME NEW j \in Job, JobStep(j) PROVE IsoInv' /\ Calm
  BY <1>3, JobIso
<1>4. CASE recoverAudioStages
  <2> DEFINE u == [NoChange EXCEPT !.status = "PENDING", !.stage = "queued",
                                   !.claimed_by = NoWorker, !.audio_worker_id = NoWorker,
                                   !.last_heartbeat_at = "null"]
  <2>1. u \in Update /\ u.status \notin {Keep, "RUNNING"}
    BY NoChangeType, KeepIsNoValue DEF NoChange, Update, Status, Stage, Stamp, WorkerId
  <2>2. /\ job' = [j \in Job |-> IF j \in OverdueAudio THEN Apply(job[j], u) ELSE job[j]]
        /\ AllIdle'
    BY <1>4 DEF recoverAudioStages, CanStep, AllIdle
  <2> HIDE DEF u
  <2> QED BY <2>1, <2>2, ScanIso
<1>5. CASE recoverOtherStages
  <2> DEFINE u == [NoChange EXCEPT !.status = "PENDING", !.stage = "queued",
                                   !.claimed_by = NoWorker, !.audio_worker_id = NoWorker,
                                   !.subtitle_worker_id = NoWorker,
                                   !.last_heartbeat_at = "null"]
  <2>1. u \in Update /\ u.status \notin {Keep, "RUNNING"}
    BY NoChangeType, KeepIsNoValue DEF NoChange, Update, Status, Stage, Stamp, WorkerId
  <2>2. /\ job' = [j \in Job |-> IF j \in OverdueOther THEN Apply(job[j], u) ELSE job[j]]
        /\ AllIdle'
    BY <1>5 DEF recoverOtherStages, CanStep, AllIdle
  <2> HIDE DEF u
  <2> QED BY <2>1, <2>2, ScanIso
<1>6. CASE Restart
  BY <1>6, AgeStep DEF Restart, Aged, AllIdle
<1>7. CASE UNCHANGED vars
  BY <1>7, AgeStep DEF vars, Aged
<1> QED BY <1>1, <1>2, <1>3, <1>4, <1>5, <1>6, <1>7 DEF Next

\* The invariant of handlers that run one at a time.
LEMMA AloneInvariance ==
    ASSUME Isolated
    PROVE  Spec /\ [][OnLine]_vars => [](IInv /\ IsoInv)
<1>1. Init => IInv /\ IsoInv
  BY InitIInv, InitIso
<1>2. IInv /\ IsoInv /\ [Next]_vars /\ [OnLine]_vars => (IInv /\ IsoInv)'
  BY Inductive, IsoStep
<1> QED BY <1>1, <1>2, PTL DEF Spec

\* While handlers do not overlap, a job that waits for a subtitle worker has its
\* artifact registered: every UPDATE that sends it back into waiting was computed
\* from a row that had it, whatever admins, time and late reports do.
THEOREM ArtifactsRegistered ==
    ASSUME Isolated
    PROVE  Spec /\ [][OnLine]_vars => []WaitingHasArtifact
<1>1. IsoInv => WaitingHasArtifact
  BY StagesApart DEF IsoInv, RowGood, WaitingHasArtifact, Running
<1> QED BY <1>1, AloneInvariance, PTL

\* While handlers do not overlap, the column of the line names the claimant: the
\* capacity check counts every running job, against the worker that runs it.
THEOREM ClaimantsCounted ==
    ASSUME Isolated
    PROVE  Spec /\ [][OnLine]_vars => []ClaimantIsCounted
<1>1. IsoInv => ClaimantIsCounted
  BY StagesApart DEF IsoInv, RowGood, ClaimantIsCounted, Running
<1> QED BY <1>1, AloneInvariance, PTL

-----------------------------------------------------------------------------
(* The limits of a token.                                                  *)

\* A counted set loses elements, or gains one while there is room.
Room(S, T, j, limit) == T \subseteq S \/ (T \subseteq S \cup {j} /\ Within(limit, S))

\* Such a set stays within its limit.
LEMMA StillWithin ==
    ASSUME NEW S, NEW T, NEW j, NEW limit \in Nat, IsFiniteSet(S),
           limit = 0 \/ Cardinality(S) <= limit,
           Room(S, T, j, limit)
    PROVE  limit = 0 \/ Cardinality(T) <= limit
<1>1. Cardinality(S) \in Nat
  BY FS_CardinalityType
<1>2. CASE T \subseteq S
  <2>1. Cardinality(T) \in Nat /\ Cardinality(T) <= Cardinality(S)
    BY <1>2, FS_Subset, FS_CardinalityType
  <2> QED BY <1>1, <2>1
<1>3. CASE T \subseteq S \cup {j} /\ Within(limit, S)
  <2>1. /\ IsFiniteSet(S \cup {j})
        /\ Cardinality(S \cup {j}) \in Nat
        /\ Cardinality(S \cup {j}) <= Cardinality(S) + 1
    <3>1. IsFiniteSet(S \cup {j}) /\ (Cardinality(S \cup {j}) = Cardinality(S) + 1
                                      \/ Cardinality(S \cup {j}) = Cardinality(S))
      BY FS_AddElement
    <3> QED BY <1>1, <3>1
  <2>2. Cardinality(T) \in Nat /\ Cardinality(T) <= Cardinality(S \cup {j})
    BY <1>3, <2>1, FS_Subset, FS_CardinalityType
  <2>3. limit = 0 \/ Cardinality(S) < limit
    BY <1>3 DEF Within
  <2> QED BY <1>1, <2>1, <2>2, <2>3
<1> QED BY <1>2, <1>3 DEF Room

\* The jobs counted on a line are jobs.
LEMMA CountedFinite ==
    ASSUME IsFiniteSet(Job), NEW ws
    PROVE  IsFiniteSet(Extracting(ws)) /\ IsFiniteSet(Subtitling(ws))
<1>1. Extracting(ws) \subseteq Job /\ Subtitling(ws) \subseteq Job
  BY DEF Extracting, Subtitling, Running
<1> QED BY <1>1, FS_Subset

\* A calm step counts no job that was not counted.
LEMMA CalmCounts ==
    ASSUME Calm, NEW ws
    PROVE  Extracting(ws)' \subseteq Extracting(ws) /\ Subtitling(ws)' \subseteq Subtitling(ws)
BY DEF Calm, NoGain, Extracting, Subtitling, Running

\* A claim counts one more job, on its line and for its worker.
LEMMA TakeCounts ==
    ASSUME IInv, NEW h \in Handler, tryClaim(h), NEW ws
    PROVE  /\ \/ Extracting(ws)' \subseteq Extracting(ws)
              \/ /\ Extracting(ws)' \subseteq Extracting(ws) \cup {call[h].job}
                 /\ TriedLine(call[h]) = "audio" /\ call[h].worker \in ws
           /\ \/ Subtitling(ws)' \subseteq Subtitling(ws)
              \/ /\ Subtitling(ws)' \subseteq Subtitling(ws) \cup {call[h].job}
                 /\ TriedLine(call[h]) = "subtitle" /\ call[h].worker \in ws
<1> DEFINE j == call[h].job
           w == call[h].worker
           line == TriedLine(call[h])
           r == Apply(job[j], ClaimUpdate(line, w))
<1>1. j \in Job /\ w \in Worker /\ line \in {"audio", "subtitle"} /\ job[j] \in Row
  BY IInvElim DEF tryClaim, SafeCall, TriedLine
<1>2. job' = [job EXCEPT ![j] = r]
  BY DEF tryClaim
<1>3. line = "audio" => r.stage = "downloading" /\ r.audio_worker_id = w
  BY <1>1, KeepIsNoValue DEF Apply, Column, ClaimUpdate, NoChange
<1>4. line = "subtitle" => r.stage = "asr" /\ r.subtitle_worker_id = w
  BY <1>1, KeepIsNoValue DEF Apply, Column, ClaimUpdate, NoChange
<1> HIDE DEF j, w, line, r
<1>5. \A i \in Job : job'[i] = IF i = j THEN r ELSE job[i]
  BY <1>1, <1>2 DEF IInv, TypeOK
<1>6. CASE line = "audio"
  <2>1. Subtitling(ws)' \subseteq Subtitling(ws)
    BY <1>3, <1>5, <1>6, StagesApart DEF Subtitling, Running
  <2>2. Extracting(ws)' \subseteq Extracting(ws) \cup {j}
    BY <1>5 DEF Extracting, Running
  <2>3. w \notin ws => Extracting(ws)' \subseteq Extracting(ws)
    BY <1>3, <1>5, <1>6 DEF Extracting, Running
  <2> QED BY <1>6, <2>1, <2>2, <2>3 DEF j, w, line
<1>7. CASE line = "subtitle"
  <2>1. Extracting(ws)' \subseteq Extracting(ws)
    BY <1>4, <1>5, <1>7, StagesApart DEF Extracting, Running
  <2>2. Subtitling(ws)' \subseteq Subtitling(ws) \cup {j}
    BY <1>5 DEF Subtitling, Running
  <2>3. w \notin ws => Subtitling(ws)' \subseteq Subtitling(ws)
    BY <1>4, <1>5, <1>7 DEF Subtitling, Running
  <2> QED BY <1>7, <2>1, <2>2, <2>3 DEF j, w, line
<1> QED BY <1>1, <1>6, <1>7

\* What a claim may still do, for the token and the worker it is made for.
LEMMA AllowedRoom ==
    ASSUME NEW v \in Worker, NEW w \in Worker, v \in Siblings(w), TokenOf[w] # NoToken,
           NEW lim, lim = Limit[TokenOf[w]]
    PROVE  /\ "audio" \in AllowedLines(v)
              => /\ Within(lim.audio, Extracting(Siblings(w)))
                 /\ v = w => Within(lim.perWorkerAudio, Extracting({w}))
           /\ "subtitle" \in AllowedLines(v)
              => /\ Within(lim.subtitle, Subtitling(Siblings(w)))
                 /\ v = w => Within(lim.perWorkerSubtitle, Subtitling({w}))
<1>1. TokenOf[v] = TokenOf[w] /\ Siblings(v) = Siblings(w)
  BY DEF Siblings
<1> QED BY <1>1 DEF AllowedLines

\* The limits of a token are numbers.
LimitsAreNumbers ==
    \A w \in Worker : TokenOf[w] # NoToken =>
        LET lim == Limit[TokenOf[w]] IN
        /\ lim.audio \in Nat /\ lim.perWorkerAudio \in Nat
        /\ lim.subtitle \in Nat /\ lim.perWorkerSubtitle \in Nat

\* While handlers do not overlap, no token and no worker of a token holds more jobs
\* on a line than its limits say: the check that precedes a claim is still true
\* when the claim is made, and nothing but a claim counts one job more.
THEOREM LimitsRespected ==
    ASSUME Isolated, IsFiniteSet(Job), LimitsAreNumbers
    PROVE  Spec /\ [][OnLine]_vars => []LimitsHold
<1> DEFINE LInv == IInv /\ IsoInv /\ LimitsHold
<1>1. Init => LimitsHold
  <2> SUFFICES ASSUME Init PROVE LimitsHold
    OBVIOUS
  <2>1. \A ws : Extracting(ws) = {} /\ Subtitling(ws) = {}
    BY DEF Init, Absent, NewRow, Extracting, Subtitling, Running
  <2>2. Cardinality({}) = 0
    BY FS_EmptySet
  <2> QED BY <2>1, <2>2 DEF LimitsHold, LimitsAreNumbers
<1>2. LInv /\ [Next]_vars /\ [OnLine]_vars => LimitsHold'
  <2> SUFFICES ASSUME LInv, [Next]_vars, [OnLine]_vars, NEW w \in Worker, TokenOf[w] # NoToken,
                      NEW lim, lim = Limit[TokenOf[w]]
               PROVE  /\ lim.audio = 0 \/ Cardinality(Extracting(Siblings(w))') <= lim.audio
                      /\ \/ lim.subtitle = 0
                         \/ Cardinality(Subtitling(Siblings(w))') <= lim.subtitle
                      /\ \/ lim.perWorkerAudio = 0
                         \/ Cardinality(Extracting({w})') <= lim.perWorkerAudio
                      /\ \/ lim.perWorkerSubtitle = 0
                         \/ Cardinality(Subtitling({w})') <= lim.perWorkerSubtitle
    BY DEF LimitsHold
  <2>1. /\ lim.audio = 0 \/ Cardinality(Extracting(Siblings(w))) <= lim.audio
        /\ lim.subtitle = 0 \/ Cardinality(Subtitling(Siblings(w))) <= lim.subtitle
        /\ lim.perWorkerAudio = 0 \/ Cardinality(Extracting({w})) <= lim.perWorkerAudio
        /\ \/ lim.perWorkerSubtitle = 0
           \/ Cardinality(Subtitling({w})) <= lim.perWorkerSubtitle
    BY DEF LimitsHold
  <2>2. /\ lim.audio \in Nat /\ lim.perWorkerAudio \in Nat
        /\ lim.subtitle \in Nat /\ lim.perWorkerSubtitle \in Nat
    BY DEF LimitsAreNumbers
  <2>3. \A ws : IsFiniteSet(Extracting(ws)) /\ IsFiniteSet(Subtitling(ws))
    BY CountedFinite
  <2>4. \E j : /\ Room(Extracting(Siblings(w)), Extracting(Siblings(w))', j, lim.audio)
               /\ Room(Subtitling(Siblings(w)), Subtitling(Siblings(w))', j, lim.subtitle)
               /\ Room(Extracting({w}), Extracting({w})', j, lim.perWorkerAudio)
               /\ Room(Subtitling({w}), Subtitling({w})', j, lim.perWorkerSubtitle)
    <3>1. CASE Calm
      BY <3>1, CalmCounts DEF Room
    <3>2. ASSUME NEW h \in Handler, tryClaim(h)
          PROVE  /\ Room(Extracting(Siblings(w)), Extracting(Siblings(w))', call[h].job,
                         lim.audio)
                 /\ Room(Subtitling(Siblings(w)), Subtitling(Siblings(w))', call[h].job,
                         lim.subtitle)
                 /\ Room(Extracting({w}), Extracting({w})', call[h].job, lim.perWorkerAudio)
                 /\ Room(Subtitling({w}), Subtitling({w})', call[h].job,
                         lim.perWorkerSubtitle)
      <4>1. call[h].worker \in Worker /\ TriedLine(call[h]) \in AllowedLines(call[h].worker)
        BY <3>2, ClaimedLine
      <4>2. w \in Siblings(w)
        BY DEF Siblings
      <4> QED BY <3>2, <4>1, <4>2, TakeCounts, AllowedRoom DEF Room
    <3> QED BY <3>1, <3>2, IsoStep
  <2> QED BY <2>1, <2>2, <2>3, <2>4, StillWithin
<1>3. IInv /\ IsoInv /\ [Next]_vars /\ [OnLine]_vars => (IInv /\ IsoInv)'
  BY Inductive, IsoStep
<1>4. Init => IInv /\ IsoInv
  BY InitIInv, InitIso
<1> QED BY <1>1, <1>2, <1>3, <1>4, PTL DEF Spec

=============================================================================
