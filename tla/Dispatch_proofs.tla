--------------------------- MODULE Dispatch_proofs --------------------------
(***************************************************************************)
(* Type correctness, NewsIsHeard and MarkHasEntry, for any number of media, *)
(* remote workers and goroutines and any size of the channel.              *)
(***************************************************************************)
EXTENDS Dispatch, TLAPS

CallSteps == {"rest", "enqueue", "send", "unmark", "notify"}
Calls == [at : CallSteps, media : Media \cup {None}, tell : BOOLEAN]
Locals == [at : {"rest", "start", "run", "end", "unmark"}, media : Media \cup {None}]
Polls == [at : {"rest", "tried", "holds", "works"}, media : Media \cup {None}]

JobType == job \in [Media -> Row]
QueueType == jobs \in Seq(Media) /\ Len(jobs) <= QueueSize
MarkType == enqueuedIDs \subseteq Media
LocalType == /\ local \in Locals
             /\ IF local.at = "rest" THEN local = Rest ELSE local.media \in Media
CallType == /\ call \in [Caller -> Calls]
            /\ \A c \in Caller : IF call[c].at = "rest" THEN call[c] = Quiet
                                                        ELSE call[c].media \in Media
            /\ \A c \in Caller : call[c].at = "unmark" => ~call[c].tell
PollType == /\ poll \in [Poll -> Polls]
            /\ \A p \in Poll : poll[p].at = "works" => poll[p].media \in Media
WaiterType == /\ claimWaiters = {p \in Poll : poll[p].at = "holds"}
              /\ wakeup \subseteq claimWaiters
KnownType == known \in [Poll -> SUBSET Media]
ChangesType == changes \in 0..MaxChanges

\* TypeOK, and that whoever is at work on a job names it.
TypeInv == /\ JobType /\ QueueType /\ MarkType /\ LocalType /\ CallType
           /\ PollType /\ WaiterType /\ KnownType /\ ChangesType

-----------------------------------------------------------------------------
(* The types.                                                              *)

LEMMA RestTypes == /\ Rest \in Locals /\ Rest \in Polls /\ Rest.at = "rest"
                   /\ Quiet \in Calls /\ Quiet.at = "rest" /\ ~Quiet.tell
                   /\ Missing \in Row
BY DEF Rest, Quiet, Locals, Polls, Calls, CallSteps, Missing, Row, Status

LEMMA TypeInit == Init => TypeInv
<1> SUFFICES ASSUME Init PROVE TypeInv
  OBVIOUS
<1>1. JobType /\ CallType /\ PollType /\ LocalType
  BY RestTypes DEF Init, JobType, CallType, PollType, LocalType
<1>2. QueueType /\ MarkType /\ KnownType /\ ChangesType
  BY DispatchAssumption DEF Init, QueueType, MarkType, KnownType, ChangesType
<1>3. WaiterType
  BY RestTypes DEF Init, WaiterType
<1>4. QED BY <1>1, <1>2, <1>3 DEF TypeInv

\* The parts of the state that an UPDATE and what follows it touch.
LEMMA ChangeType ==
  ASSUME JobType, ChangesType, NEW m \in Media, NEW row \in Row, Change(m, row)
  PROVE  JobType' /\ ChangesType'
BY DispatchAssumption DEF JobType, ChangesType, Change

LEMMA PendingRow ==
  ASSUME NEW row \in Row
  PROVE  Pending(row) \in Row
BY DEF Pending, Row, Status

LEMMA KnownStep ==
  ASSUME JobType, NEW silent, Known(silent)
  PROVE  KnownType'
BY DEF Known, KnownType, Claimable

LEMMA GoesType ==
  ASSUME CallType, NEW c \in Caller, NEW at \in CallSteps \ {"rest"}, NEW m \in Media,
         NEW tell \in BOOLEAN, at = "unmark" => ~tell, Goes(c, at, m, tell)
  PROVE  CallType'
BY DEF Goes, CallType, Calls

LEMMA EndsType ==
  ASSUME CallType, NEW c \in Caller, Ends(c)
  PROVE  CallType'
BY RestTypes DEF Ends, CallType, Calls

LEMMA ToldType ==
  ASSUME CallType, NEW c \in Caller, call[c].at # "rest", Told(c)
  PROVE  CallType'
BY GoesType, EndsType DEF Told, CallType, Calls, CallSteps

LEMMA OperateType ==
  ASSUME TypeInv, NEW c \in Caller, Operate(c)
  PROVE  TypeInv'
<1>1. PICK m \in Media :
        \/ EnsureJob(c, m) \/ Retry(c, m) \/ Enable(c, m) \/ Disable(c, m)
        \/ BatchCancel(c, m) \/ BatchDelete(c, m) \/ agePendingPriority(c, m)
  BY DEF Operate
<1>2. PICK row : Change(m, row) /\ row \in Row
  <2>1. job[m] \in Row /\ Pending(job[m]) \in Row
    BY PendingRow DEF TypeInv, JobType
  <2>2. /\ [Pending(job[m]) EXCEPT !.due = TRUE] \in Row
        /\ [job[m] EXCEPT !.status = "pending"] \in Row
        /\ [job[m] EXCEPT !.status = "disabled"] \in Row
    BY <2>1 DEF Row, Status
  <2>3. QED
    BY <1>1, <2>1, <2>2, RestTypes
    DEF EnsureJob, Retry, Enable, Disable, BatchCancel, BatchDelete, agePendingPriority
<1>3. /\ UNCHANGED <<jobs, enqueuedIDs, local, waiting>>
      /\ known' = known \/ \E silent : Known(silent)
  BY <1>1
  DEF EnsureJob, Retry, Enable, Disable, BatchCancel, BatchDelete, agePendingPriority, server
<1>4. \/ UNCHANGED call
      \/ \E at \in CallSteps \ {"rest"}, tell \in BOOLEAN :
            (at = "unmark" => ~tell) /\ Goes(c, at, m, tell)
  BY <1>1
  DEF EnsureJob, Retry, Enable, Disable, BatchCancel, BatchDelete, agePendingPriority, server,
      CallSteps
<1>5. JobType' /\ ChangesType'
  BY <1>2, ChangeType DEF TypeInv
<1>6. KnownType'
  BY <1>3, KnownStep DEF TypeInv, KnownType
<1>7. CallType'
  BY <1>4, GoesType DEF TypeInv, CallType
<1>8. QED
  BY <1>3, <1>5, <1>6, <1>7
  DEF TypeInv, QueueType, MarkType, LocalType, PollType, WaiterType, waiting

LEMMA ProceedType ==
  ASSUME TypeInv, NEW c \in Caller, Proceed(c)
  PROVE  TypeInv'
<1>1. UNCHANGED <<job, local, poll, claimWaiters, known, changes>>
  BY DEF Proceed, Unmark, EnqueueMark, EnqueueSend, notifyClaimWaiters, waiting
<1>2. call[c].at # "rest" /\ call[c].media \in Media /\ call[c] \in Calls
  BY DEF Proceed, Unmark, EnqueueMark, EnqueueSend, notifyClaimWaiters, TypeInv, CallType
<1>3. CallType'
  <2>1. Ends(c) \/ Told(c) \/ call' = [call EXCEPT ![c].at = "send"]
    BY DEF Proceed, Unmark, EnqueueMark, EnqueueSend, notifyClaimWaiters
  <2>2. CASE call' = [call EXCEPT ![c].at = "send"]
    BY <1>2, <2>2 DEF TypeInv, CallType, Calls, CallSteps
  <2>3. QED BY <1>2, <2>1, <2>2, EndsType, ToldType DEF TypeInv
<1>4. QueueType' /\ MarkType'
  <2>1. CASE Unmark(c) \/ EnqueueMark(c) \/ notifyClaimWaiters(c)
    BY <1>2, <2>1 DEF Unmark, EnqueueMark, notifyClaimWaiters, TypeInv, QueueType, MarkType
  <2>2. CASE EnqueueSend(c)
    BY <1>2, <2>2, DispatchAssumption
    DEF EnqueueSend, EnqueueFull, TypeInv, QueueType, MarkType
  <2>3. QED BY <2>1, <2>2 DEF Proceed
<1>5. WaiterType'
  BY <1>1
  DEF Proceed, Unmark, EnqueueMark, EnqueueSend, notifyClaimWaiters, Signalled, TypeInv, WaiterType,
      waiting
<1>6. QED
  BY <1>1, <1>3, <1>4, <1>5
  DEF TypeInv, JobType, LocalType, PollType, KnownType, ChangesType

LEMMA TickerType ==
  ASSUME TypeInv, NEW m \in Media, (\E c \in Caller : recoverStaleJobsOnce(c, m)) \/ Elapse(m)
  PROVE  TypeInv'
<1>1. JobType'
  <2>1. job[m] \in Row /\ Pending(job[m]) \in Row
    BY PendingRow DEF TypeInv, JobType
  <2>2. /\ [Pending(job[m]) EXCEPT !.claimed_by = None] \in Row
        /\ [job[m] EXCEPT !.due = TRUE] \in Row
    BY <2>1 DEF Row
  <2>3. QED BY <2>2 DEF recoverStaleJobsOnce, Elapse, TypeInv, JobType
<1>2. KnownType'
  BY KnownStep DEF recoverStaleJobsOnce, Elapse, TypeInv
<1>3. CallType'
  BY GoesType DEF recoverStaleJobsOnce, Elapse, TypeInv, CallType, server, CallSteps
<1>4. UNCHANGED <<jobs, enqueuedIDs, local, waiting, changes>>
  BY DEF recoverStaleJobsOnce, Elapse, server
<1>5. QED
  BY <1>1, <1>2, <1>3, <1>4
  DEF TypeInv, QueueType, MarkType, LocalType, PollType, WaiterType, ChangesType, waiting

\* A poll moves on: to another step, with a job in hand or none.
LEMMA MovesType ==
  ASSUME PollType, NEW p \in Poll, NEW r \in Polls, r.at = "works" => r.media \in Media,
         poll' = [poll EXCEPT ![p] = r]
  PROVE  PollType' /\ \A q \in Poll : poll'[q] = IF q = p THEN r ELSE poll[q]
BY DEF PollType

\* The waiters follow a poll that neither held nor holds, that begins to hold, that ends to.
LEMMA WaitersFollow ==
  ASSUME WaiterType, NEW p \in Poll, NEW r,
         \A q \in Poll : poll'[q] = IF q = p THEN r ELSE poll[q],
         \/ poll[p].at # "holds" /\ r.at # "holds" /\ UNCHANGED <<claimWaiters, wakeup>>
         \/ r.at = "holds" /\ claimWaiters' = claimWaiters \cup {p} /\ UNCHANGED wakeup
         \/ r.at # "holds" /\ unregisterClaimWaiter(p)
  PROVE  WaiterType'
BY DEF WaiterType, unregisterClaimWaiter

LEMMA ClaimsType ==
  ASSUME JobType, PollType, NEW p \in Poll, NEW m \in Claimable(job), Claims(p, m)
  PROVE  /\ JobType' /\ PollType' /\ KnownType'
         /\ \E r : r.at = "works" /\ \A q \in Poll : poll'[q] = IF q = p THEN r ELSE poll[q]
<1>1. m \in Media /\ job[m] \in Row
  BY DEF Claimable, JobType
<1>2. JobType'
  BY <1>1 DEF Claims, JobType, Row, Status
<1>3. [at |-> "works", media |-> m] \in Polls
  BY <1>1 DEF Polls
<1>4. QED BY <1>1, <1>2, <1>3, MovesType, KnownStep DEF Claims

LEMMA FindsNothingType ==
  ASSUME JobType, PollType, KnownType, NEW p \in Poll, NEW at \in {"tried", "rest"},
         FindsNothing(p, at)
  PROVE  /\ JobType' /\ PollType' /\ KnownType'
         /\ \E r : r.at = at /\ \A q \in Poll : poll'[q] = IF q = p THEN r ELSE poll[q]
<1>1. [at |-> at, media |-> None] \in Polls
  BY DEF Polls
<1>2. QED BY <1>1, MovesType DEF FindsNothing, JobType, KnownType

\* A poll ends with nothing in hand.
LEMMA RestsType ==
  ASSUME PollType, NEW p \in Poll, poll' = [poll EXCEPT ![p] = Rest]
  PROVE  PollType' /\ \A q \in Poll : poll'[q] = IF q = p THEN Rest ELSE poll[q]
BY RestTypes, MovesType

LEMMA RemoteType ==
  ASSUME TypeInv, NEW p \in Poll, RemoteStep(p)
  PROVE  TypeInv'
<1> USE DEF TypeInv
<1>1. UNCHANGED <<jobs, enqueuedIDs, local>>
  BY DEF RemoteStep, ClaimNextJobLongPoll, registerClaimWaiter, Wake, TimeOut, WorkerComplete,
         WorkerFail, WorkerFailBack, Leave, server
<1>2. QueueType' /\ MarkType' /\ LocalType'
  BY <1>1 DEF QueueType, MarkType, LocalType
<1>3. CASE ClaimNextJobLongPoll(p)
  <2>1. /\ JobType' /\ PollType' /\ KnownType'
        /\ \E r : r.at \in {"works", "tried"}
                /\ \A q \in Poll : poll'[q] = IF q = p THEN r ELSE poll[q]
    BY <1>3, ClaimsType, FindsNothingType DEF ClaimNextJobLongPoll
  <2>2. WaiterType'
    BY <1>3, <2>1, WaitersFollow DEF ClaimNextJobLongPoll
  <2>3. QED BY <1>2, <1>3, <2>1, <2>2 DEF ClaimNextJobLongPoll, CallType, ChangesType, server
<1>4. CASE registerClaimWaiter(p)
  <2>1. poll[p] \in Polls /\ [poll[p] EXCEPT !.at = "holds"] \in Polls
    BY DEF PollType, Polls
  <2>2. /\ PollType'
        /\ \A q \in Poll : poll'[q] = IF q = p THEN [poll[p] EXCEPT !.at = "holds"] ELSE poll[q]
    BY <1>4, <2>1, MovesType DEF registerClaimWaiter, Polls
  <2>3. WaiterType'
    BY <1>4, <2>1, <2>2, WaitersFollow DEF registerClaimWaiter, Polls
  <2>4. KnownType'
    BY <1>4 DEF registerClaimWaiter, KnownType, Claimable
  <2>5. QED
    BY <1>2, <1>4, <2>2, <2>3, <2>4 DEF registerClaimWaiter, JobType, CallType, ChangesType, server
<1>5. CASE Wake(p)
  <2>1. /\ JobType' /\ PollType' /\ KnownType'
        /\ \E r : r.at \in {"works", "rest"}
                /\ \A q \in Poll : poll'[q] = IF q = p THEN r ELSE poll[q]
    BY <1>5, ClaimsType, FindsNothingType DEF Wake
  <2>2. WaiterType'
    BY <1>5, <2>1, WaitersFollow DEF Wake
  <2>3. QED BY <1>2, <1>5, <2>1, <2>2 DEF Wake, CallType, ChangesType, server
<1>6. CASE TimeOut(p)
  <2>1. PollType' /\ \A q \in Poll : poll'[q] = IF q = p THEN Rest ELSE poll[q]
    BY <1>6, RestsType DEF TimeOut
  <2>2. WaiterType'
    BY <1>6, <2>1, RestTypes, WaitersFollow DEF TimeOut
  <2>3. QED
    BY <1>2, <1>6, <2>1, <2>2 DEF TimeOut, JobType, CallType, KnownType, ChangesType, server
<1>7. ASSUME poll[p].at = "works", poll' = [poll EXCEPT ![p] = Rest],
             UNCHANGED <<claimWaiters, wakeup>>
      PROVE  PollType' /\ WaiterType'
  <2>1. PollType' /\ \A q \in Poll : poll'[q] = IF q = p THEN Rest ELSE poll[q]
    BY <1>7, RestsType
  <2>2. QED BY <1>7, <2>1, RestTypes, WaitersFollow
<1>8. ASSUME Owns(p)
      PROVE  poll[p].media \in Media /\ job[poll[p].media] \in Row
  BY <1>8 DEF Owns, PollType, JobType
<1>9. CASE WorkerComplete(p)
  <2>1. JobType'
    BY <1>8, <1>9 DEF WorkerComplete, JobType, Row, Status
  <2>2. KnownType' /\ PollType' /\ WaiterType'
    BY <1>7, <1>9, KnownStep DEF WorkerComplete, Owns
  <2>3. QED BY <1>2, <1>9, <2>1, <2>2 DEF WorkerComplete, CallType, ChangesType, server
<1>10. CASE WorkerFail(p)
  <2>1. [job[poll[p].media] EXCEPT !.status = "failed", !.claimed_by = None] \in Row
    BY <1>8, <1>10 DEF WorkerFail, Row, Status
  <2>2. JobType' /\ ChangesType'
    BY <1>8, <1>10, <2>1, ChangeType DEF WorkerFail
  <2>3. KnownType' /\ PollType' /\ WaiterType'
    BY <1>7, <1>10, KnownStep DEF WorkerFail, Owns
  <2>4. QED BY <1>2, <1>10, <2>2, <2>3 DEF WorkerFail, CallType, server
<1>11. ASSUME NEW c \in Caller, WorkerFailBack(p, c) PROVE TypeInv'
  <2>1. PICK due \in BOOLEAN :
          Change(poll[p].media, [Pending(job[poll[p].media]) EXCEPT
                   !.due = due /\ job[poll[p].media].due, !.claimed_by = None])
    BY <1>11 DEF WorkerFailBack
  <2>2. Pending(job[poll[p].media]) \in Row /\ job[poll[p].media].due \in BOOLEAN
    BY <1>8, <1>11, PendingRow DEF WorkerFailBack, Row
  <2>3. [Pending(job[poll[p].media]) EXCEPT
           !.due = due /\ job[poll[p].media].due, !.claimed_by = None] \in Row
    BY <2>2 DEF Row
  <2>4. JobType' /\ ChangesType'
    BY <1>8, <1>11, <2>1, <2>3, ChangeType DEF WorkerFailBack
  <2>5. KnownType' /\ PollType' /\ WaiterType'
    BY <1>7, <1>11, KnownStep DEF WorkerFailBack, Owns
  <2>6. CallType'
    BY <1>8, <1>11, GoesType DEF WorkerFailBack, CallSteps
  <2>7. QED BY <1>2, <2>4, <2>5, <2>6
<1>12. CASE Leave(p)
  <2>1. PollType' /\ WaiterType'
    BY <1>7, <1>12 DEF Leave
  <2>2. ChangesType'
    BY <1>12, DispatchAssumption DEF Leave, ChangesType
  <2>3. QED BY <1>2, <1>12, <2>1, <2>2 DEF Leave, JobType, CallType, KnownType, server
<1>13. QED
  BY <1>3, <1>4, <1>5, <1>6, <1>9, <1>10, <1>11, <1>12 DEF RemoteStep

LEMMA WriteType ==
  ASSUME JobType, KnownType, NEW status \in Status, NEW queued \in BOOLEAN, Write(status, queued),
         local.media \in Media
  PROVE  JobType' /\ KnownType'
BY KnownStep DEF Write, JobType, Row

LEMMA LocalStepType ==
  ASSUME TypeInv, LocalStep
  PROVE  TypeInv'
<1> USE DEF TypeInv
<1>1. UNCHANGED <<call, waiting, changes>>
  BY DEF LocalStep, TakeLocal, processOne, updateProgress, EndLocal, UnmarkLocal
<1>2. CallType' /\ PollType' /\ WaiterType' /\ ChangesType'
  BY <1>1 DEF CallType, PollType, WaiterType, ChangesType, waiting
<1>3. CASE TakeLocal
  <2>1. Head(jobs) \in Media /\ QueueType'
    <3>1. jobs \in Seq(Media) /\ jobs # <<>>
      BY <1>3 DEF TakeLocal, QueueType
    <3>2. Head(jobs) \in Media /\ Tail(jobs) \in Seq(Media) /\ Len(Tail(jobs)) = Len(jobs) - 1
      BY <3>1
    <3>3. Len(jobs) \in Nat /\ Len(jobs) <= QueueSize
      BY <3>1 DEF QueueType
    <3>4. QED BY <1>3, <3>2, <3>3, DispatchAssumption DEF TakeLocal, QueueType
  <2>2. LocalType'
    BY <1>3, <2>1 DEF TakeLocal, LocalType, Locals
  <2>3. QED BY <1>2, <1>3, <2>1, <2>2 DEF TakeLocal, JobType, MarkType, KnownType
<1>4. CASE processOne \/ updateProgress \/ EndLocal
  <2>1. local.media \in Media /\ local \in Locals
    BY <1>4 DEF processOne, updateProgress, EndLocal, LocalType
  <2>2. LocalType'
    BY <1>4, <2>1 DEF processOne, updateProgress, EndLocal, At, LocalType, Locals
  <2>3. JobType' /\ KnownType'
    <3>1. job[local.media].status \in Status
      BY <2>1 DEF JobType, Row
    <3>2. \/ \E status \in Status, queued \in BOOLEAN : Write(status, queued)
          \/ UNCHANGED <<job, known>>
      BY <1>4, <3>1 DEF processOne, updateProgress, EndLocal, Status
    <3>3. QED BY <2>1, <3>2, WriteType DEF JobType, KnownType
  <2>4. QED BY <1>2, <1>4, <2>2, <2>3 DEF processOne, updateProgress, EndLocal, QueueType, MarkType
<1>5. CASE UnmarkLocal
  BY <1>2, <1>5, RestTypes DEF UnmarkLocal, JobType, QueueType, MarkType, LocalType, KnownType
<1>6. QED BY <1>3, <1>4, <1>5 DEF LocalStep

LEMMA RestartType ==
  ASSUME TypeInv, Restart
  PROVE  TypeInv'
<1>1. JobType' /\ KnownType' /\ ChangesType'
  BY DispatchAssumption DEF Restart, TypeInv, JobType, KnownType, ChangesType
<1>2. QueueType' /\ MarkType' /\ LocalType'
  BY DispatchAssumption, RestTypes DEF Restart, QueueType, MarkType, LocalType
<1>3. CallType'
  BY RestTypes DEF Restart, CallType
<1>4. PollType'
  BY RestTypes DEF Restart, TypeInv, PollType
<1>5. WaiterType'
  BY RestTypes DEF Restart, WaiterType
<1>6. QED BY <1>1, <1>2, <1>3, <1>4, <1>5 DEF TypeInv

LEMMA TypeStep == TypeInv /\ [Next]_vars => TypeInv'
<1> SUFFICES ASSUME TypeInv, [Next]_vars PROVE TypeInv'
  OBVIOUS
<1>1. CASE UNCHANGED vars
  BY <1>1
  DEF vars, server, waiting, TypeInv, JobType, QueueType, MarkType, LocalType, CallType, PollType,
      WaiterType, KnownType, ChangesType
<1>2. QED
  BY <1>1, OperateType, ProceedType, TickerType, RemoteType, LocalStepType, RestartType DEF Next

\* Every variable has its type, and the waiters are the polls that hold.
THEOREM TypeCorrect == Spec => []TypeOK
<1>1. TypeInv => TypeOK
  BY DEF TypeInv, TypeOK, JobType, QueueType, MarkType, LocalType, CallType, PollType, WaiterType,
         ChangesType, Locals, Calls, CallSteps, Polls
<1>2. QED BY <1>1, TypeInit, TypeStep, PTL DEF Spec

-----------------------------------------------------------------------------
(* News.                                                                    *)

\* A step that makes claimable only what it announces or passes over in silence.
NoSecrets ==
  /\ claimWaiters' \ wakeup' \subseteq claimWaiters \ wakeup
  /\ \A p \in claimWaiters' \ wakeup', m \in Claimable(job') :
        (m \in Claimable(job) => m \in known[p] \/ Announcing(m))
        => m \in known'[p] \/ Announcing(m)'

LEMMA NewsFollows == NewsIsHeard /\ NoSecrets => NewsIsHeard'
BY DEF NewsIsHeard, NoSecrets

\* Goroutines that have something to announce still do, unless they have done it.
LEMMA StillAnnouncing ==
  ASSUME CallType, NEW c \in Caller, call[c].at = "rest",
         UNCHANGED call \/ \E at, m, tell : Goes(c, at, m, tell)
  PROVE  \A m \in Media : Announcing(m) => Announcing(m)'
<1>1. ~call[c].tell
  BY RestTypes DEF CallType
<1>2. \A d \in Caller : d # c => call'[d] = call[d]
  BY DEF Goes, CallType
<1>3. QED BY <1>1, <1>2 DEF Announcing

LEMMA WillAnnounce ==
  ASSUME CallType, NEW c \in Caller, NEW at, NEW m, Goes(c, at, m, TRUE)
  PROVE  Announcing(m)'
BY DEF Goes, CallType, Announcing

\* The UPDATE of row m, said or passed over, by a goroutine at rest.
LEMMA ChangeIsNews ==
  ASSUME TypeInv, NEW c \in Caller, call[c].at = "rest", NEW m \in Media, NEW row,
         job' = [job EXCEPT ![m] = row], UNCHANGED waiting, NEW silent, Known(silent),
         UNCHANGED call \/ \E at, tell : Goes(c, at, m, tell),
         m \in Claimable(job') => m \in silent \/ (\E at : Goes(c, at, m, TRUE))
  PROVE  NoSecrets
<1>1. \A i \in Media : i # m => (i \in Claimable(job') <=> i \in Claimable(job))
  BY DEF Claimable, TypeInv, JobType
<1>2. \A i \in Media : Announcing(i) => Announcing(i)'
  BY StillAnnouncing DEF TypeInv
<1>3. m \in Claimable(job') => m \in silent \/ Announcing(m)'
  BY WillAnnounce DEF TypeInv
<1>4. \A p \in Poll, i \in Claimable(job') : i \in known[p] \/ i \in silent => i \in known'[p]
  BY DEF Known
<1>5. claimWaiters' = claimWaiters /\ wakeup' = wakeup /\ claimWaiters \subseteq Poll
  BY DEF waiting, TypeInv, WaiterType
<1>6. Claimable(job') \subseteq Media
  BY DEF Claimable
<1>7. QED BY <1>1, <1>2, <1>3, <1>4, <1>5, <1>6 DEF NoSecrets

LEMMA OperateNews ==
  ASSUME TypeInv, NEW c \in Caller, Operate(c)
  PROVE  NoSecrets
<1>1. PICK m \in Media :
        \/ EnsureJob(c, m) \/ Retry(c, m) \/ Enable(c, m) \/ Disable(c, m)
        \/ BatchCancel(c, m) \/ BatchDelete(c, m) \/ agePendingPriority(c, m)
  BY DEF Operate
<1>2. CASE EnsureJob(c, m)
  BY <1>2, ChangeIsNews DEF EnsureJob, Change
<1>3. CASE Retry(c, m) \/ Enable(c, m)
  BY <1>3, ChangeIsNews DEF Retry, Enable, Change
<1>4. CASE Disable(c, m) \/ BatchCancel(c, m) \/ BatchDelete(c, m)
  <2>1. PICK row : /\ Change(m, row) /\ row.status # "pending"
                   /\ Known({}) /\ UNCHANGED waiting /\ call[c].at = "rest"
                   /\ UNCHANGED call \/ Goes(c, "unmark", m, FALSE)
    <3>1. job[m] \in Row
      BY DEF TypeInv, JobType
    <3>2. [job[m] EXCEPT !.status = "disabled"].status # "pending" /\ Missing.status # "pending"
      BY <3>1 DEF Row, Missing
    <3>3. QED BY <1>4, <3>2 DEF Disable, BatchCancel, BatchDelete, server
  <2>2. m \notin Claimable(job')
    BY <2>1 DEF Change, Claimable, TypeInv, JobType
  <2>3. QED BY <2>1, <2>2, ChangeIsNews DEF Change
<1>5. CASE agePendingPriority(c, m)
  <2>1. job' = job /\ UNCHANGED known /\ UNCHANGED waiting
    BY <1>5 DEF agePendingPriority, Change, TypeInv, JobType
  <2>2. \A i \in Media : Announcing(i) => Announcing(i)'
    BY <1>5, StillAnnouncing DEF agePendingPriority, TypeInv
  <2>3. QED BY <2>1, <2>2 DEF NoSecrets, waiting, Claimable
<1>6. QED BY <1>1, <1>2, <1>3, <1>4, <1>5

\* The steps of an operation hand the announcement on, or make it.
LEMMA ProceedNews ==
  ASSUME TypeInv, NEW c \in Caller, Proceed(c)
  PROVE  NoSecrets
<1>1. UNCHANGED <<job, claimWaiters, known>> /\ wakeup \subseteq wakeup'
  BY DEF Proceed, Unmark, EnqueueMark, EnqueueSend, notifyClaimWaiters, Signalled, waiting
<1>2. CASE notifyClaimWaiters(c)
  BY <1>1, <1>2 DEF notifyClaimWaiters, Signalled, NoSecrets
<1>3. CASE Unmark(c) \/ EnqueueMark(c) \/ EnqueueSend(c)
  <2>1. call[c] \in Calls
    BY DEF TypeInv, CallType
  <2>2. \A d \in Caller : d # c => call'[d] = call[d]
    BY <1>3 DEF Unmark, EnqueueMark, EnqueueSend, Told, Goes, Ends, TypeInv, CallType
  <2>3. CASE EnqueueMark(c) \/ EnqueueSend(c)
    <3>1. call[c].tell => call'[c].tell /\ call'[c].media = call[c].media
      BY <2>1, <2>3 DEF EnqueueMark, EnqueueSend, Told, Goes, Ends, TypeInv, CallType, Calls
    <3>2. \A m : Announcing(m) => Announcing(m)'
      BY <2>2, <3>1 DEF Announcing
    <3>3. QED BY <1>1, <3>2 DEF NoSecrets
  <2>4. CASE Unmark(c)
    <3>1. ~call[c].tell
      BY <2>4 DEF TypeInv, CallType, Unmark
    <3>2. \A m : Announcing(m) => Announcing(m)'
      BY <2>2, <3>1 DEF Announcing
    <3>3. QED BY <1>1, <3>2 DEF NoSecrets
  <2>5. QED BY <1>3, <2>3, <2>4
<1>4. QED BY <1>2, <1>3 DEF Proceed

\* A recovered job is announced; a backoff ends in silence.
LEMMA TickerNews ==
  ASSUME TypeInv, NEW m \in Media, (\E c \in Caller : recoverStaleJobsOnce(c, m)) \/ Elapse(m)
  PROVE  NoSecrets
<1>1. ASSUME NEW c \in Caller, recoverStaleJobsOnce(c, m) PROVE NoSecrets
  <2>1. PICK row, silent : job' = [job EXCEPT ![m] = row] /\ Known(silent)
    BY <1>1 DEF recoverStaleJobsOnce
  <2>2. call[c].at = "rest" /\ Goes(c, "notify", m, TRUE) /\ UNCHANGED waiting
    BY <1>1 DEF recoverStaleJobsOnce
  <2>3. QED BY <2>1, <2>2, ChangeIsNews
<1>2. CASE Elapse(m)
  <2>1. \A i \in Media : i # m => (i \in Claimable(job') <=> i \in Claimable(job))
    BY <1>2 DEF Elapse, Claimable, TypeInv, JobType
  <2>2. \A i : Announcing(i)' <=> Announcing(i)
    BY <1>2 DEF Elapse, server, Announcing
  <2>3. \A p \in Poll, i \in Claimable(job') : i \in known[p] \/ i = m => i \in known'[p]
    BY <1>2 DEF Elapse, Known
  <2>4. claimWaiters' = claimWaiters /\ wakeup' = wakeup /\ claimWaiters \subseteq Poll
    BY <1>2 DEF Elapse, waiting, TypeInv, WaiterType
  <2>5. Claimable(job') \subseteq Media
    BY DEF Claimable
  <2>6. QED BY <2>1, <2>2, <2>3, <2>4, <2>5 DEF NoSecrets
<1>3. QED BY <1>1, <1>2

\* A step after which no more can be claimed than before, nobody has begun to hold
\* and what was to be announced still is.
LEMMA NothingNew ==
  ASSUME TypeInv,
         Claimable(job') \subseteq Claimable(job),
         Known({}) \/ UNCHANGED known,
         claimWaiters' \ wakeup' \subseteq claimWaiters \ wakeup,
         \A m \in Media : Announcing(m) => Announcing(m)'
  PROVE  NoSecrets
<1>1. claimWaiters \subseteq Poll /\ Claimable(job') \subseteq Media
  BY DEF TypeInv, WaiterType, Claimable
<1>2. \A p \in Poll, m \in Claimable(job') : m \in known[p] => m \in known'[p]
  BY DEF Known
<1>3. QED BY <1>1, <1>2 DEF NoSecrets

LEMMA SameCallers ==
  ASSUME UNCHANGED call
  PROVE  \A m \in Media : Announcing(m) => Announcing(m)'
BY DEF Announcing

\* A row that stops being PENDING, and the others as they are.
LEMMA FewerClaimable ==
  ASSUME JobType, NEW m \in Media, NEW row, row.status # "pending",
         job' = [job EXCEPT ![m] = row]
  PROVE  Claimable(job') \subseteq Claimable(job)
BY DEF Claimable, JobType

\* What a remote worker's steps other than a registration do.
LEMMA RemoteNews ==
  ASSUME TypeInv, NEW p \in Poll, RemoteStep(p), ~registerClaimWaiter(p)
  PROVE  NoSecrets
<1>1. ASSUME NEW m \in Claimable(job), Claims(p, m)
      PROVE  Claimable(job') \subseteq Claimable(job) /\ Known({})
  <2>1. m \in Media /\ job[m] \in Row
    BY DEF Claimable, TypeInv, JobType
  <2>2. m \notin Claimable(job') /\ \A i \in Media : i # m => job'[i] = job[i]
    BY <1>1, <2>1 DEF Claims, Claimable, TypeInv, JobType, Row
  <2>3. QED BY <1>1, <2>2 DEF Claims, Claimable
<1>2. CASE ClaimNextJobLongPoll(p) \/ Wake(p)
  <2>1. Claimable(job') \subseteq Claimable(job) /\ (Known({}) \/ UNCHANGED known)
    BY <1>1, <1>2 DEF ClaimNextJobLongPoll, Wake, FindsNothing, Claimable
  <2>2. UNCHANGED call
    BY <1>2 DEF ClaimNextJobLongPoll, Wake, server
  <2>3. claimWaiters' \ wakeup' \subseteq claimWaiters \ wakeup
    BY <1>2 DEF ClaimNextJobLongPoll, Wake, unregisterClaimWaiter
  <2>4. QED BY <2>1, <2>2, <2>3, SameCallers, NothingNew
<1>3. CASE TimeOut(p) \/ Leave(p)
  <2>1. UNCHANGED <<job, call, known>> /\ claimWaiters' \ wakeup' \subseteq claimWaiters \ wakeup
    BY <1>3 DEF TimeOut, Leave, server, unregisterClaimWaiter
  <2>2. QED BY <2>1, SameCallers, NothingNew DEF Claimable
<1>4. CASE WorkerComplete(p)
  <2>1. poll[p].media \in Media /\ job[poll[p].media] \in Row
    BY <1>4 DEF WorkerComplete, Owns, TypeInv, PollType, JobType
  <2>2. Claimable(job') \subseteq Claimable(job)
    BY <1>4, <2>1 DEF WorkerComplete, Claimable, TypeInv, JobType, Row
  <2>3. Known({}) /\ UNCHANGED <<call, claimWaiters, wakeup>>
    BY <1>4 DEF WorkerComplete, server
  <2>4. QED BY <2>2, <2>3, SameCallers, NothingNew
<1>5. CASE WorkerFail(p)
  <2>1. poll[p].media \in Media /\ job[poll[p].media] \in Row
    BY <1>5 DEF WorkerFail, Owns, TypeInv, PollType, JobType
  <2>2. [job[poll[p].media] EXCEPT !.status = "failed", !.claimed_by = None].status = "failed"
    BY <2>1 DEF Row
  <2>3. Claimable(job') \subseteq Claimable(job)
    BY <1>5, <2>1, <2>2, FewerClaimable DEF WorkerFail, Change, TypeInv
  <2>4. Known({}) /\ UNCHANGED <<call, claimWaiters, wakeup>>
    BY <1>5 DEF WorkerFail, server
  <2>5. QED BY <2>3, <2>4, SameCallers, NothingNew
<1>6. ASSUME NEW c \in Caller, WorkerFailBack(p, c) PROVE NoSecrets
  <2>1. PICK m \in Media :
          m = poll[p].media /\ call[c].at = "rest" /\ Goes(c, "notify", m, TRUE)
    BY <1>6 DEF WorkerFailBack, Owns, TypeInv, PollType
  <2>2. PICK row : job' = [job EXCEPT ![m] = row]
    BY <1>6, <2>1 DEF WorkerFailBack, Change
  <2>3. Known({}) /\ UNCHANGED <<claimWaiters, wakeup>>
    BY <1>6 DEF WorkerFailBack
  <2>4. \A i \in Media : Announcing(i) => Announcing(i)'
    BY <2>1, StillAnnouncing DEF TypeInv
  <2>5. Announcing(m)'
    BY <2>1, WillAnnounce DEF TypeInv
  <2>6. \A i \in Media : i # m => (i \in Claimable(job') <=> i \in Claimable(job))
    BY <2>1, <2>2 DEF Claimable, TypeInv, JobType
  <2>7. \A q \in Poll, i \in Claimable(job') : i \in known[q] => i \in known'[q]
    BY <2>3 DEF Known
  <2>8. claimWaiters \subseteq Poll /\ Claimable(job') \subseteq Media
    BY DEF TypeInv, WaiterType, Claimable
  <2>9. QED BY <2>3, <2>4, <2>5, <2>6, <2>7, <2>8 DEF NoSecrets
<1>7. QED BY <1>2, <1>3, <1>4, <1>5, <1>6 DEF RemoteStep

\* What is claimable at the registration, the new waiter knows.
LEMMA RegistrationNews ==
  ASSUME TypeInv, NewsIsHeard, NEW p \in Poll, registerClaimWaiter(p)
  PROVE  NewsIsHeard'
<1>1. UNCHANGED <<job, call, wakeup>>
  BY DEF registerClaimWaiter, server
<1>2. \A m : Announcing(m)' <=> Announcing(m)
  BY <1>1 DEF Announcing
<1>3. known'[p] = Claimable(job) /\ \A q \in Poll : q # p => known'[q] = known[q]
  BY DEF registerClaimWaiter, TypeInv, KnownType
<1>4. claimWaiters' = claimWaiters \cup {p} /\ claimWaiters \subseteq Poll
  BY DEF registerClaimWaiter, TypeInv, WaiterType
<1>5. QED BY <1>1, <1>2, <1>3, <1>4 DEF NewsIsHeard, Claimable

\* The in-process worker never leaves a row that can be claimed.
LEMMA LocalNews ==
  ASSUME TypeInv, LocalStep
  PROVE  NoSecrets
<1>1. UNCHANGED <<call, claimWaiters, wakeup>>
  BY DEF LocalStep, TakeLocal, processOne, updateProgress, EndLocal, UnmarkLocal, waiting
<1>2. Claimable(job') \subseteq Claimable(job) /\ (Known({}) \/ UNCHANGED known)
  <2>1. CASE TakeLocal \/ UnmarkLocal
    BY <2>1 DEF TakeLocal, UnmarkLocal, Claimable
  <2>2. ASSUME NEW status, NEW queued, Write(status, queued), ~queued \/ status # "pending",
               local.media \in Media
        PROVE  Claimable(job') \subseteq Claimable(job) /\ Known({})
    <3>1. CASE ~Exists(local.media)
      BY <2>2, <3>1 DEF Write, Claimable
    <3>2. CASE Exists(local.media)
      <4>1. job[local.media] \in Row
        BY <2>2 DEF TypeInv, JobType
      <4>2. job'[local.media] = [job[local.media] EXCEPT !.status = status, !.queued = queued]
        BY <2>2, <3>2 DEF Write, TypeInv, JobType
      <4>3. job'[local.media].status = status /\ job'[local.media].queued = queued
        BY <4>1, <4>2 DEF Row
      <4>4. \A m \in Media : m # local.media => job'[m] = job[m]
        BY <2>2, <3>2 DEF Write, TypeInv, JobType
      <4>5. QED BY <2>2, <4>3, <4>4 DEF Write, Claimable
    <3>3. QED BY <3>1, <3>2
  <2>3. CASE processOne \/ updateProgress \/ EndLocal
    <3>1. local.media \in Media
      BY <2>3 DEF processOne, updateProgress, EndLocal, TypeInv, LocalType
    <3>2. \/ UNCHANGED <<job, known>>
          \/ \E status, queued : Write(status, queued) /\ (~queued \/ status # "pending")
      <4>1. processOne => Write("running", FALSE)
        BY DEF processOne
      <4>2. updateProgress => Write(job[local.media].status, FALSE)
        BY DEF updateProgress
      <4>3. EndLocal => Write("done", FALSE) \/ Write("failed", TRUE) \/ UNCHANGED <<job, known>>
        BY DEF EndLocal
      <4>4. QED BY <2>3, <4>1, <4>2, <4>3
    <3>3. CASE UNCHANGED <<job, known>>
      BY <3>3 DEF Claimable
    <3>4. QED BY <2>2, <3>1, <3>2, <3>3
  <2>4. QED BY <2>1, <2>3 DEF LocalStep
<1>3. QED BY <1>1, <1>2, SameCallers, NothingNew

LEMMA NewsStep == TypeInv /\ NewsIsHeard /\ [Next]_vars => NewsIsHeard'
<1> SUFFICES ASSUME TypeInv, NewsIsHeard, [Next]_vars PROVE NewsIsHeard'
  OBVIOUS
<1>1. CASE UNCHANGED vars
  BY <1>1 DEF vars, server, waiting, NewsIsHeard, Announcing, Claimable
<1>2. ASSUME NEW c \in Caller, Operate(c) \/ Proceed(c) PROVE NewsIsHeard'
  BY <1>2, OperateNews, ProceedNews, NewsFollows
<1>3. ASSUME NEW m \in Media, (\E c \in Caller : recoverStaleJobsOnce(c, m)) \/ Elapse(m)
      PROVE  NewsIsHeard'
  BY <1>3, TickerNews, NewsFollows
<1>4. ASSUME NEW p \in Poll, RemoteStep(p) PROVE NewsIsHeard'
  BY <1>4, RemoteNews, RegistrationNews, NewsFollows
<1>5. CASE LocalStep
  BY <1>5, LocalNews, NewsFollows
<1>6. CASE Restart
  BY <1>6 DEF Restart, NewsIsHeard
<1>7. QED BY <1>1, <1>2, <1>3, <1>4, <1>5, <1>6 DEF Next

\* A poll that holds unsignalled has missed no announced job: nothing is lost between
\* a registration and the wakeup of the goroutine that wrote the row.
THEOREM NewsHeard == Spec => []NewsIsHeard
<1>1. Init => NewsIsHeard
  BY DEF Init, NewsIsHeard
<1>2. QED BY <1>1, TypeInit, TypeStep, NewsStep, PTL DEF Spec

-----------------------------------------------------------------------------
(* Marks.                                                                   *)

Sending(m) == \E c \in Caller : call[c].at = "send" /\ call[c].media = m
HasEntry(m) == InChannel(m) \/ local.media = m \/ Sending(m)

\* A mark that is there after a step was there before, and what it stood for still is.
LEMMA MarksFollow ==
  ASSUME TypeInv, MarkHasEntry,
         \A m \in enqueuedIDs' : m \in enqueuedIDs /\ (HasEntry(m) => HasEntry(m)')
  PROVE  MarkHasEntry'
BY DEF MarkHasEntry, HasEntry, Sending

\* A goroutine that is not at the send does something else.
LEMMA StillSending ==
  ASSUME CallType, NEW c \in Caller, call[c].at # "send",
         \/ UNCHANGED call
         \/ \E at, m, tell : Goes(c, at, m, tell)
         \/ Ends(c)
  PROVE  \A m : Sending(m) => Sending(m)'
BY DEF CallType, Goes, Ends, Sending

LEMMA CallersMarks ==
  ASSUME TypeInv, MarkHasEntry, NEW c \in Caller, call[c].at # "send",
         UNCHANGED <<jobs, local>>, enqueuedIDs' \subseteq enqueuedIDs,
         \/ UNCHANGED call
         \/ \E at, m, tell : Goes(c, at, m, tell)
         \/ Ends(c)
  PROVE  MarkHasEntry'
<1>1. \A m : Sending(m) => Sending(m)'
  BY StillSending DEF TypeInv
<1>2. \A m : HasEntry(m) => HasEntry(m)'
  BY <1>1 DEF HasEntry, InChannel
<1>3. QED BY <1>2, MarksFollow

LEMMA OperateMarks ==
  ASSUME TypeInv, MarkHasEntry, NEW c \in Caller, Operate(c)
  PROVE  MarkHasEntry'
<1>1. PICK m \in Media :
        \/ EnsureJob(c, m) \/ Retry(c, m) \/ Enable(c, m) \/ Disable(c, m)
        \/ BatchCancel(c, m) \/ BatchDelete(c, m) \/ agePendingPriority(c, m)
  BY DEF Operate
<1>2. /\ call[c].at = "rest" /\ UNCHANGED <<jobs, local, enqueuedIDs>>
      /\ UNCHANGED call \/ \E at, tell : Goes(c, at, m, tell)
  BY <1>1
  DEF EnsureJob, Retry, Enable, Disable, BatchCancel, BatchDelete, agePendingPriority, server
<1>3. QED BY <1>2, CallersMarks

LEMMA EnqueueMarks ==
  ASSUME TypeInv, MarkHasEntry, NEW c \in Caller, EnqueueMark(c) \/ EnqueueSend(c)
  PROVE  MarkHasEntry'
<1>1. PICK n \in Media : n = call[c].media /\ call \in [Caller -> Calls]
  BY DEF EnqueueMark, EnqueueSend, TypeInv, CallType
<1>2. \A d \in Caller : d # c => call'[d] = call[d]
  BY DEF EnqueueMark, EnqueueSend, Told, Goes, Ends, TypeInv, CallType
<1>3. \A m : m # n /\ Sending(m) => Sending(m)'
  BY <1>1, <1>2 DEF Sending
<1>4. CASE EnqueueMark(c) /\ n \in enqueuedIDs
  <2>1. call[c].at = "enqueue" /\ UNCHANGED <<jobs, local>>
    BY <1>1, <1>4 DEF EnqueueMark
  <2>2. enqueuedIDs' = enqueuedIDs
    BY <1>1, <1>4 DEF EnqueueMark
  <2>3. Ends(c) \/ \E at, m, tell : Goes(c, at, m, tell)
    BY <1>1, <1>4 DEF EnqueueMark, Told
  <2>4. QED BY <2>1, <2>2, <2>3, CallersMarks
<1>5. CASE EnqueueMark(c) /\ n \notin enqueuedIDs
  <2>1. Sending(n)'
    <3>1. call' = [call EXCEPT ![c].at = "send"]
      BY <1>1, <1>5 DEF EnqueueMark
    <3>2. call'[c].at = "send" /\ call'[c].media = n
      BY <1>1, <3>1 DEF Calls
    <3>3. QED BY <3>2 DEF Sending
  <2>2. enqueuedIDs' = enqueuedIDs \cup {n} /\ UNCHANGED <<jobs, local>>
    BY <1>1, <1>5 DEF EnqueueMark
  <2>3. \A m \in enqueuedIDs : m # n => HasEntry(m)'
    BY <1>3, <2>2 DEF MarkHasEntry, HasEntry, Sending, InChannel
  <2>4. QED BY <2>1, <2>2, <2>3 DEF MarkHasEntry, HasEntry, Sending
<1>6. CASE EnqueueSend(c) /\ jobs' = Append(jobs, n) /\ UNCHANGED enqueuedIDs
  <2>1. \A m : InChannel(m) => InChannel(m)'
    BY <1>1, <1>6 DEF InChannel, TypeInv, QueueType
  <2>2. InChannel(n)'
    <3>1. Len(jobs) + 1 \in DOMAIN jobs' /\ jobs'[Len(jobs) + 1] = n
      BY <1>1, <1>6 DEF TypeInv, QueueType
    <3>2. QED BY <3>1 DEF InChannel
  <2>3. UNCHANGED local
    BY <1>6 DEF EnqueueSend
  <2>4. \A m \in enqueuedIDs : HasEntry(m)'
    BY <1>3, <2>1, <2>2, <2>3 DEF MarkHasEntry, HasEntry, Sending
  <2>5. QED BY <1>6, <2>4 DEF MarkHasEntry, HasEntry, Sending
<1>7. CASE EnqueueSend(c) /\ enqueuedIDs' = enqueuedIDs \ {n} /\ UNCHANGED jobs
  <2>1. UNCHANGED local
    BY <1>7 DEF EnqueueSend
  <2>2. \A m \in enqueuedIDs : m # n => HasEntry(m)'
    BY <1>3, <1>7, <2>1 DEF MarkHasEntry, HasEntry, Sending, InChannel
  <2>3. QED BY <1>7, <2>2 DEF MarkHasEntry, HasEntry, Sending
<1>8. QED BY <1>1, <1>4, <1>5, <1>6, <1>7 DEF EnqueueMark, EnqueueSend, EnqueueFull

LEMMA LocalMarks ==
  ASSUME TypeInv, MarkHasEntry, LocalStep
  PROVE  MarkHasEntry'
<1>1. \A m : Sending(m) => Sending(m)'
  BY DEF LocalStep, TakeLocal, processOne, updateProgress, EndLocal, UnmarkLocal, Sending
<1>2. CASE TakeLocal
  <2>1. jobs \in Seq(Media) /\ jobs # <<>> /\ local.media \notin Media
    BY <1>2, DispatchAssumption DEF TakeLocal, TypeInv, QueueType, LocalType, Rest
  <2>2. local'.media = Head(jobs) /\ jobs' = Tail(jobs) /\ UNCHANGED enqueuedIDs
    BY <1>2 DEF TakeLocal
  <2>3. \A m : InChannel(m) => InChannel(m)' \/ m = Head(jobs)
    <3>1. SUFFICES ASSUME NEW m, NEW i \in DOMAIN jobs, jobs[i] = m, m # Head(jobs)
                   PROVE  InChannel(m)'
      BY DEF InChannel
    <3>2. i \in 1..Len(jobs) /\ i # 1
      BY <2>1, <3>1
    <3>3. i - 1 \in DOMAIN Tail(jobs) /\ Tail(jobs)[i - 1] = m
      BY <2>1, <3>1, <3>2
    <3>4. QED BY <2>2, <3>3 DEF InChannel
  <2>4. \A m \in enqueuedIDs : HasEntry(m)'
    BY <1>1, <2>1, <2>2, <2>3 DEF MarkHasEntry, HasEntry, Sending, TypeInv, MarkType
  <2>5. QED BY <2>2, <2>4 DEF MarkHasEntry, HasEntry, Sending
<1>3. CASE processOne \/ updateProgress \/ EndLocal
  <2>1. UNCHANGED <<jobs, enqueuedIDs>> /\ local'.media = local.media
    BY <1>3 DEF processOne, updateProgress, EndLocal, At, TypeInv, LocalType, Locals
  <2>2. QED BY <1>1, <2>1, MarksFollow DEF HasEntry, InChannel
<1>4. CASE UnmarkLocal
  <2>1. UNCHANGED jobs /\ enqueuedIDs' = enqueuedIDs \ {local.media}
    BY <1>4 DEF UnmarkLocal
  <2>2. QED BY <1>1, <2>1, MarksFollow DEF HasEntry, InChannel
<1>5. QED BY <1>2, <1>3, <1>4 DEF LocalStep

LEMMA MarkStep == TypeInv /\ MarkHasEntry /\ [Next]_vars => MarkHasEntry'
<1> SUFFICES ASSUME TypeInv, MarkHasEntry, [Next]_vars PROVE MarkHasEntry'
  OBVIOUS
<1>1. CASE UNCHANGED vars
  BY <1>1 DEF vars, server, MarkHasEntry, InChannel
<1>2. ASSUME NEW c \in Caller, Operate(c) PROVE MarkHasEntry'
  BY <1>2, OperateMarks
<1>3. ASSUME NEW c \in Caller, Unmark(c) \/ notifyClaimWaiters(c) PROVE MarkHasEntry'
  <2>1. /\ call[c].at # "send" /\ Ends(c) /\ UNCHANGED <<jobs, local>>
        /\ enqueuedIDs' \subseteq enqueuedIDs
    BY <1>3 DEF Unmark, notifyClaimWaiters
  <2>2. QED BY <2>1, CallersMarks
<1>4. ASSUME NEW c \in Caller, EnqueueMark(c) \/ EnqueueSend(c) PROVE MarkHasEntry'
  BY <1>4, EnqueueMarks
<1>5. ASSUME NEW c \in Caller, NEW m \in Media, recoverStaleJobsOnce(c, m) PROVE MarkHasEntry'
  <2>1. /\ call[c].at = "rest" /\ UNCHANGED <<jobs, local, enqueuedIDs>>
        /\ Goes(c, "notify", m, TRUE)
    BY <1>5 DEF recoverStaleJobsOnce
  <2>2. QED BY <2>1, CallersMarks
<1>6. ASSUME NEW m \in Media, Elapse(m) PROVE MarkHasEntry'
  BY <1>6 DEF Elapse, server, MarkHasEntry, InChannel
<1>7. ASSUME NEW p \in Poll, RemoteStep(p) PROVE MarkHasEntry'
  <2>1. ASSUME NEW c \in Caller, WorkerFailBack(p, c) PROVE MarkHasEntry'
    <3>1. /\ call[c].at = "rest" /\ UNCHANGED <<jobs, local, enqueuedIDs>>
          /\ Goes(c, "notify", poll[p].media, TRUE)
      BY <2>1 DEF WorkerFailBack
    <3>2. QED BY <3>1, CallersMarks
  <2>2. CASE UNCHANGED server
    BY <2>2 DEF server, MarkHasEntry, InChannel
  <2>3. QED
    BY <1>7, <2>1, <2>2
    DEF RemoteStep, ClaimNextJobLongPoll, registerClaimWaiter, Wake, TimeOut, WorkerComplete,
        WorkerFail, Leave
<1>8. CASE LocalStep
  BY <1>8, LocalMarks
<1>9. CASE Restart
  BY <1>9 DEF Restart, MarkHasEntry
<1>10. QED
  BY <1>1, <1>2, <1>3, <1>4, <1>5, <1>6, <1>7, <1>8, <1>9 DEF Next, Proceed

\* No media stays marked as enqueued once it is out of the channel, out of the worker's
\* hand and on nobody's way there.
THEOREM MarksHaveEntries == Spec => []MarkHasEntry
<1>1. Init => MarkHasEntry
  BY DEF Init, MarkHasEntry
<1>2. QED BY <1>1, TypeInit, TypeStep, MarkStep, PTL DEF Spec

=============================================================================
