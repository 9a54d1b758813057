------------------------------ MODULE Dispatch ------------------------------
(* How a queued subtitle job finds somebody to do it.  Remote workers hold  *)
(* their claim open (a long-poll: try, register a waiter, wait for a wakeup *)
(* or the timeout); the in-process worker reads media ids from a channel.   *)
(* Whoever makes a job claimable first writes the row, then enqueues, then  *)
(* wakes the waiters: other goroutines run between any two of these.        *)
(* service/subtitle.go, service/subtitle_worker.go.                         *)
(*                                                                          *)
(* A remote worker's two lines are one here (a claim, a report): the stages *)
(* and their races are SubtitleJobs'.  Limits are 0 (unlimited).            *)
EXTENDS Naturals, Sequences, FiniteSets

CONSTANTS
  Media,        \* media with a subtitle job, or without one yet
  Poll,         \* remote workers: each has one claim open at a time
  Caller,       \* goroutines of the server: HTTP handlers and the recovery ticker
  QueueSize,    \* capacity of the channel
  MaxChanges,   \* bound on operations, failures and deaths
  None

ASSUME DispatchAssumption ==
  /\ None \notin Media \cup Poll
  /\ QueueSize \in Nat \ {0} /\ MaxChanges \in Nat

VARIABLES
  job,           \* the rows of subtitle_jobs
  jobs,          \* the channel of the in-process worker
  enqueuedIDs,   \* media ids marked as in the channel or in hand
  local,         \* the in-process worker
  call,          \* what each goroutine still has to do after its UPDATE
  poll,          \* the remote workers
  claimWaiters,  \* the registered waiters
  wakeup,        \* waiters with a signal in their channel
  known,         \* history: jobs a waiter needs no wakeup for, see Known
  changes        \* operations, failures and deaths so far

server == <<jobs, enqueuedIDs, local, call>>
waiting == <<poll, claimWaiters, wakeup>>
vars == <<job, server, waiting, known, changes>>

Status == {"missing", "pending", "running", "done", "failed", "disabled"}

\* queued: the stage is "queued"; due: next_retry_at has passed or is empty
Row == [status : Status, queued : BOOLEAN, due : BOOLEAN, claimed_by : Poll \cup {None}]
Missing == [status |-> "missing", queued |-> TRUE, due |-> TRUE, claimed_by |-> None]
Exists(m) == job[m].status # "missing"

Rest == [at |-> "rest", media |-> None]
Quiet == [at |-> "rest", media |-> None, tell |-> FALSE]

Init ==
  /\ job = [m \in Media |-> Missing]
  /\ jobs = <<>>
  /\ enqueuedIDs = {}
  /\ local = Rest
  /\ call = [c \in Caller |-> Quiet]
  /\ poll = [p \in Poll |-> Rest]
  /\ claimWaiters = {}
  /\ wakeup = {}
  /\ known = [p \in Poll |-> {}]
  /\ changes = 0

-----------------------------------------------------------------------------
(* What the audio line's claim selects.                                     *)
Claimable(rows) ==
  {m \in Media : rows[m].status = "pending" /\ rows[m].queued /\ rows[m].due}

\* A waiter needs no wakeup for what was claimable when it registered, and cannot
\* expect one for a job that some path makes claimable without a word.
Known(silent) ==
  known' = [p \in Poll |-> (known[p] \cup silent) \cap Claimable(job')]

Change(m, row) ==
  /\ changes < MaxChanges
  /\ changes' = changes + 1
  /\ job' = [job EXCEPT ![m] = row]

\* The goroutine goes on with step at of its operation.
Goes(c, at, m, tell) == call' = [call EXCEPT ![c] = [at |-> at, media |-> m, tell |-> tell]]
Ends(c) == call' = [call EXCEPT ![c] = Quiet]
Pending(row) == [row EXCEPT !.status = "pending", !.queued = TRUE]

-----------------------------------------------------------------------------
(* Operations of the admin.                                                 *)

\* Anew, or a failed job from the start; any other job is left alone.
EnsureJob(c, m) ==
  /\ call[c].at = "rest" /\ job[m].status \in {"missing", "failed"}
  /\ Change(m, [Pending(job[m]) EXCEPT !.due = TRUE])
  /\ Known({})
  /\ Goes(c, "enqueue", m, TRUE)
  /\ UNCHANGED <<jobs, enqueuedIDs, local, waiting>>

\* Back to the queue whatever its status; next_retry_at and claimed_by stay.
Retry(c, m) ==
  /\ call[c].at = "rest" /\ Exists(m)
  /\ Change(m, Pending(job[m]))
  /\ Known({m})
  /\ Goes(c, "enqueue", m, FALSE)
  /\ UNCHANGED <<jobs, enqueuedIDs, local, waiting>>

\* Back to PENDING in whatever stage it was.
Enable(c, m) ==
  /\ call[c].at = "rest" /\ Exists(m)
  /\ Change(m, [job[m] EXCEPT !.status = "pending"])
  /\ Known({m})
  /\ Goes(c, "enqueue", m, FALSE)
  /\ UNCHANGED <<jobs, enqueuedIDs, local, waiting>>

\* A placeholder if there is no row.
Disable(c, m) ==
  /\ call[c].at = "rest" /\ job[m].status # "disabled"
  /\ Change(m, [job[m] EXCEPT !.status = "disabled"])
  /\ Known({})
  /\ UNCHANGED <<server, waiting>>

\* What is queued, running or failed; the mark goes after the UPDATE.
BatchCancel(c, m) ==
  /\ call[c].at = "rest" /\ job[m].status \in {"pending", "running", "failed"}
  /\ Change(m, [job[m] EXCEPT !.status = "disabled"])
  /\ Known({})
  /\ Goes(c, "unmark", m, FALSE)
  /\ UNCHANGED <<jobs, enqueuedIDs, local, waiting>>

BatchDelete(c, m) ==
  /\ call[c].at = "rest" /\ Exists(m)
  /\ Change(m, Missing)
  /\ Known({})
  /\ Goes(c, "unmark", m, FALSE)
  /\ UNCHANGED <<jobs, enqueuedIDs, local, waiting>>

Unmark(c) ==
  /\ call[c].at = "unmark"
  /\ enqueuedIDs' = enqueuedIDs \ {call[c].media}
  /\ Ends(c)
  /\ UNCHANGED <<job, jobs, local, waiting, known, changes>>

-----------------------------------------------------------------------------
(* enqueue: LoadOrStore of the mark, then the send, which never blocks.     *)
Told(c) == IF call[c].tell THEN Goes(c, "notify", call[c].media, TRUE) ELSE Ends(c)

EnqueueMark(c) ==
  /\ call[c].at = "enqueue"
  /\ enqueuedIDs' = enqueuedIDs \cup {call[c].media}
  /\ IF call[c].media \in enqueuedIDs THEN Told(c)
                                      ELSE call' = [call EXCEPT ![c].at = "send"]
  /\ UNCHANGED <<job, jobs, local, waiting, known, changes>>

\* Mutant of EnqueueFull: the mark of a dropped media id stays.
EnqueueFullKeepsMark(c) ==
  Len(jobs) = QueueSize /\ UNCHANGED <<jobs, enqueuedIDs>>

EnqueueFull(c) ==
  /\ Len(jobs) = QueueSize
  /\ enqueuedIDs' = enqueuedIDs \ {call[c].media}
  /\ UNCHANGED jobs

EnqueueSend(c) ==
  /\ call[c].at = "send"
  /\ \/ /\ Len(jobs) < QueueSize
        /\ jobs' = Append(jobs, call[c].media)
        /\ UNCHANGED enqueuedIDs
     \/ EnqueueFull(c)
  /\ Told(c)
  /\ UNCHANGED <<job, local, waiting, known, changes>>

\* Mutant of Signalled: one waiter is woken, not all.
SignalledOne ==
  IF claimWaiters \subseteq wakeup
    THEN wakeup
    ELSE wakeup \cup {CHOOSE p \in claimWaiters : p \notin wakeup}

\* A full channel is skipped: it holds a signal already.
Signalled == wakeup \cup claimWaiters

notifyClaimWaiters(c) ==
  /\ call[c].at = "notify"
  /\ wakeup' = Signalled
  /\ Ends(c)
  /\ UNCHANGED <<job, jobs, enqueuedIDs, local, poll, claimWaiters, known, changes>>

-----------------------------------------------------------------------------
(* The recovery and the ageing of the ticker; recovery is also started by   *)
(* every long-poll that begins to hold.                                     *)

\* The claimant works on it and heartbeats.
Attended(m) == \E p \in Poll : job[m].claimed_by = p /\ poll[p] = [at |-> "works", media |-> m]

\* Mutant of Stale: a row that no remote worker ever claimed is not stale.
StaleIfClaimed(m) ==
  job[m].status = "running" /\ job[m].claimed_by # None /\ ~Attended(m)

\* last_heartbeat_at is empty or old: always so when the in-process worker runs it.
Stale(m) == job[m].status = "running" /\ ~Attended(m)

recoverStaleJobsOnce(c, m) ==
  /\ call[c].at = "rest" /\ Stale(m)
  /\ job' = [job EXCEPT ![m] = [Pending(job[m]) EXCEPT !.claimed_by = None]]
  /\ Known(IF job[m].due THEN {} ELSE {m})
  /\ Goes(c, "notify", m, TRUE)
  /\ UNCHANGED <<jobs, enqueuedIDs, local, waiting, changes>>

agePendingPriority(c, m) ==
  /\ call[c].at = "rest"
  /\ job[m].status = "pending" /\ job[m].queued
  /\ Change(m, job[m])
  /\ Goes(c, "notify", m, TRUE)
  /\ UNCHANGED <<jobs, enqueuedIDs, local, waiting, known>>

\* next_retry_at passes: no code runs.
Elapse(m) ==
  /\ ~job[m].due
  /\ job' = [job EXCEPT ![m].due = TRUE]
  /\ Known({m})
  /\ UNCHANGED <<server, waiting, changes>>

-----------------------------------------------------------------------------
(* The claims of the remote workers.                                        *)

\* A compare-and-set on a PENDING row in stage queued.
Claims(p, m) ==
  /\ job' = [job EXCEPT ![m].status = "running", ![m].queued = FALSE, ![m].claimed_by = p]
  /\ poll' = [poll EXCEPT ![p] = [at |-> "works", media |-> m]]
  /\ Known({})

FindsNothing(p, at) ==
  /\ Claimable(job) = {}
  /\ poll' = [poll EXCEPT ![p] = [at |-> at, media |-> None]]
  /\ UNCHANGED <<job, known>>

\* The first try of a long-poll.
ClaimNextJobLongPoll(p) ==
  /\ poll[p].at = "rest"
  /\ (\E m \in Claimable(job) : Claims(p, m)) \/ FindsNothing(p, "tried")
  /\ UNCHANGED <<server, claimWaiters, wakeup, changes>>

\* A new channel; what became claimable since the first try is not looked at.
registerClaimWaiter(p) ==
  /\ poll[p].at = "tried"
  /\ poll' = [poll EXCEPT ![p].at = "holds"]
  /\ claimWaiters' = claimWaiters \cup {p}
  /\ known' = [known EXCEPT ![p] = Claimable(job)]
  /\ UNCHANGED <<job, server, wakeup, changes>>

\* Mutant of unregisterClaimWaiter: the waiter stays in the list.
unregisterNothing(p) == UNCHANGED <<claimWaiters, wakeup>>

unregisterClaimWaiter(p) ==
  /\ claimWaiters' = claimWaiters \ {p}
  /\ wakeup' = wakeup \ {p}

\* One more try, whatever it finds.
Wake(p) ==
  /\ poll[p].at = "holds" /\ p \in wakeup
  /\ (\E m \in Claimable(job) : Claims(p, m)) \/ FindsNothing(p, "rest")
  /\ unregisterClaimWaiter(p)
  /\ UNCHANGED <<server, changes>>

\* Mutant of TimeOut: a poll holds until it is woken.
TimeOutNever(p) == FALSE /\ UNCHANGED vars

TimeOut(p) ==
  /\ poll[p].at = "holds"
  /\ poll' = [poll EXCEPT ![p] = Rest]
  /\ unregisterClaimWaiter(p)
  /\ UNCHANGED <<job, server, known, changes>>

(* What they report, and that they die.  A report counts for the claimant.  *)
Owns(p) == poll[p].at = "works" /\ job[poll[p].media].claimed_by = p

WorkerComplete(p) ==
  /\ Owns(p) /\ job[poll[p].media].status = "running"
  /\ job' = [job EXCEPT ![poll[p].media].status = "done"]
  /\ poll' = [poll EXCEPT ![p] = Rest]
  /\ Known({})
  /\ UNCHANGED <<server, claimWaiters, wakeup, changes>>

\* Finally; the status of the row is not looked at.
WorkerFail(p) ==
  /\ Owns(p)
  /\ Change(poll[p].media,
            [job[poll[p].media] EXCEPT !.status = "failed", !.claimed_by = None])
  /\ poll' = [poll EXCEPT ![p] = Rest]
  /\ Known({})
  /\ UNCHANGED <<server, claimWaiters, wakeup>>

\* To be tried again after a backoff (retriable) or at once (shutdown).
WorkerFailBack(p, c) ==
  /\ Owns(p) /\ call[c].at = "rest"
  /\ \E due \in BOOLEAN :
       Change(poll[p].media, [Pending(job[poll[p].media]) EXCEPT
         !.due = due /\ job[poll[p].media].due, !.claimed_by = None])
  /\ poll' = [poll EXCEPT ![p] = Rest]
  /\ Known({})
  /\ Goes(c, "notify", poll[p].media, TRUE)
  /\ UNCHANGED <<jobs, enqueuedIDs, local, claimWaiters, wakeup>>

\* A report that is refused, a death without one, or an answer nobody read.
Leave(p) ==
  /\ poll[p].at = "works"
  /\ ~Owns(p) \/ job[poll[p].media].status # "running" \/ changes < MaxChanges
  /\ changes' = IF changes < MaxChanges THEN changes + 1 ELSE changes
  /\ poll' = [poll EXCEPT ![p] = Rest]
  /\ UNCHANGED <<job, server, claimWaiters, wakeup, known>>

-----------------------------------------------------------------------------
(* The in-process worker: one media id at a time.                           *)
At(at) == local' = [local EXCEPT !.at = at]

\* A deleted or disabled job is skipped.
TakeLocal ==
  /\ local.at = "rest" /\ jobs # <<>>
  /\ local' = [media |-> Head(jobs),
               at |-> IF job[Head(jobs)].status \in {"missing", "disabled"} THEN "unmark"
                                                                           ELSE "start"]
  /\ jobs' = Tail(jobs)
  /\ UNCHANGED <<job, enqueuedIDs, call, waiting, known, changes>>

\* UPDATE ... WHERE media_id = ?: no effect without a row, and no other condition.
Write(status, queued) ==
  /\ job' = IF Exists(local.media)
              THEN [job EXCEPT ![local.media].status = status, ![local.media].queued = queued]
              ELSE job
  /\ Known({})

processOne ==
  /\ local.at = "start"
  /\ Write("running", FALSE)
  /\ At("run")
  /\ UNCHANGED <<jobs, enqueuedIDs, call, waiting, changes>>

updateProgress ==
  /\ local.at = "run"
  /\ Write(job[local.media].status, FALSE)
  /\ At("end")
  /\ UNCHANGED <<jobs, enqueuedIDs, call, waiting, changes>>

\* The job is done, or has failed at any step of it, or the last UPDATE fails.
EndLocal ==
  /\ \/ local.at = "end" /\ Write("done", FALSE)
     \/ local.at \in {"start", "run", "end"} /\ Write("failed", TRUE)
     \/ local.at \in {"start", "end"} /\ UNCHANGED <<job, known>>
  /\ At("unmark")
  /\ UNCHANGED <<jobs, enqueuedIDs, call, waiting, changes>>

UnmarkLocal ==
  /\ local.at = "unmark"
  /\ enqueuedIDs' = enqueuedIDs \ {local.media}
  /\ local' = Rest
  /\ UNCHANGED <<job, jobs, call, waiting, known, changes>>

\* The process ends and starts anew: nothing is put in the channel; a poll that
\* was held is asked again, a remote worker goes on with its job.
Restart ==
  /\ changes < MaxChanges
  /\ changes' = changes + 1
  /\ jobs' = <<>> /\ enqueuedIDs' = {} /\ local' = Rest
  /\ call' = [c \in Caller |-> Quiet]
  /\ poll' = [p \in Poll |-> IF poll[p].at = "works" THEN poll[p] ELSE Rest]
  /\ claimWaiters' = {} /\ wakeup' = {}
  /\ UNCHANGED <<job, known>>

-----------------------------------------------------------------------------
Operate(c) ==
  \E m \in Media :
    \/ EnsureJob(c, m) \/ Retry(c, m) \/ Enable(c, m) \/ Disable(c, m)
    \/ BatchCancel(c, m) \/ BatchDelete(c, m) \/ agePendingPriority(c, m)

Proceed(c) == Unmark(c) \/ EnqueueMark(c) \/ EnqueueSend(c) \/ notifyClaimWaiters(c)

RemoteStep(p) ==
  \/ ClaimNextJobLongPoll(p) \/ registerClaimWaiter(p) \/ Wake(p) \/ TimeOut(p)
  \/ WorkerComplete(p) \/ WorkerFail(p) \/ (\E c \in Caller : WorkerFailBack(p, c)) \/ Leave(p)

LocalStep == TakeLocal \/ processOne \/ updateProgress \/ EndLocal \/ UnmarkLocal

Next ==
  \/ \E c \in Caller : Operate(c) \/ Proceed(c)
  \/ \E c \in Caller, m \in Media : recoverStaleJobsOnce(c, m)
  \/ \E m \in Media : Elapse(m)
  \/ \E p \in Poll : RemoteStep(p)
  \/ LocalStep
  \/ Restart

\* The server goes on with what it has begun; the ticker runs; the remote workers
\* poll again and again, and a job in hand is not worked on for ever.
Fairness ==
  /\ \A c \in Caller : WF_vars(Proceed(c))
  /\ \A m \in Media : WF_vars(\E c \in Caller : recoverStaleJobsOnce(c, m)) /\ WF_vars(Elapse(m))
  /\ \A p \in Poll : WF_vars(RemoteStep(p))
  /\ WF_vars(LocalStep)

Spec == Init /\ [][Next]_vars /\ Fairness

-----------------------------------------------------------------------------
(* Every variable has its type, and the claim waiters are exactly the polls *)
(* that hold: a channel that stayed registered would be signalled for ever, *)
(* one that is missing never (subtitle_worker.go:313-332).                  *)
TypeOK ==
  /\ job \in [Media -> Row]
  /\ jobs \in Seq(Media) /\ Len(jobs) <= QueueSize
  /\ enqueuedIDs \subseteq Media
  /\ local.at \in {"rest", "start", "run", "end", "unmark"}
  /\ local.media \in Media \cup {None}
  /\ call \in [Caller -> [at : {"rest", "enqueue", "send", "unmark", "notify"},
                          media : Media \cup {None}, tell : BOOLEAN]]
  /\ poll \in [Poll -> [at : {"rest", "tried", "holds", "works"}, media : Media \cup {None}]]
  /\ claimWaiters = {p \in Poll : poll[p].at = "holds"}
  /\ wakeup \subseteq claimWaiters
  /\ changes \in 0..MaxChanges

(* A poll that holds without a signal has missed no announced job: what it  *)
(* could claim was claimable when it registered, became so without a word   *)
(* (Retry, Enable, the end of a backoff), or is about to be announced by    *)
(* the goroutine that wrote the row (subtitle_worker.go:344-355 wakes all   *)
(* waiters, since one might be unable or too late).                         *)
Announcing(m) == \E c \in Caller : call[c].tell /\ call[c].media = m

NewsIsHeard ==
  \A p \in claimWaiters \ wakeup :
    \A m \in Claimable(job) : m \in known[p] \/ Announcing(m)

(* A mark stands for a media id in the channel, in the worker's hand or on  *)
(* its way there: a mark that outlived it would keep the media from ever    *)
(* being enqueued again (subtitle.go:357-370, 427-430).                     *)
InChannel(m) == \E i \in DOMAIN jobs : jobs[i] = m

MarkHasEntry ==
  \A m \in enqueuedIDs :
    InChannel(m) \/ local.media = m \/ \E c \in Caller : call[c].at = "send" /\ call[c].media = m

(* What can be claimed is claimed or withdrawn, although a wakeup is lost   *)
(* between the first try and the registration, and what runs ends although  *)
(* its worker dies (subtitle_worker.go:236-255, 1580-1600); with a bounded  *)
(* number of changes no job is handed round for ever.                       *)
Active(m) == m \in Claimable(job) \/ job[m].status = "running"

JobsMove == \A m \in Media : Active(m) ~> ~Active(m)
=============================================================================
