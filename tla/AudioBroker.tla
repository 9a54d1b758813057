----------------------------- MODULE AudioBroker -----------------------------
(* The broker of audio_broker.go: a subtitle worker's GET waits for the POSTs *)
(* of the audio worker that has the FLAC on its disk, and a pipe in memory    *)
(* joins the two.  An audio worker learns of the GET by long polling a        *)
(* bounded channel.  Nothing here is persistent.                              *)
EXTENDS Integers, Sequences

CONSTANTS
    Job, AudioWorker,
    Fetcher,            \* handlers of GET /worker/jobs/:jobId/audio
    Upload,             \* handlers of POST audio-stream and audio-stream-chunk
    None, Stale,        \* no coupling; a coupling whose GET has ended
    Owner,              \* audio_worker_id of each job
    Parts,              \* parts of a FLAC: the chunks of a chunked upload
    Buffer,             \* pollChannelBuffer
    MaxRetries,         \* audioFetchMaxRetries
    Orphans             \* modes in which a POST may outlive its client's attempt

ASSUME BrokerAssumption ==
    /\ None \notin Job \cup Fetcher \cup Upload
    /\ Stale \notin Fetcher /\ Stale # None
    /\ Owner \in [Job -> AudioWorker]
    /\ Orphans \subseteq {"stream", "chunk"}
    /\ Parts \in Nat \ {0} /\ Buffer \in Nat \ {0} /\ MaxRetries \in Nat

VARIABLES
    channel,            \* pollChannels: the tasks for each audio worker
    pending,            \* pendingFetches: the GET that waits for a job's audio
    fetch,              \* the GET handlers, each with its current coupling
    upload,             \* the POST handlers
    client,             \* what each audio worker is doing (external)
    mode                \* how it uploads: "stream" or "chunk", by deployment

vars == <<channel, pending, fetch, upload, client, mode>>

Task == [action : {"fetch", "cleanup"}, job : Job]

\* A coupling is part of the GET that made it: both end together, and a POST that
\* still holds an ended one finds its pipe closed, whatever else is in it.
NewCoupling(r) == [r EXCEPT !.started = FALSE, !.next = 0, !.writer = "open"]

NoFetch  == [at |-> "idle", job |-> None, attempt |-> 0, outcome |-> "none", got |-> <<>>,
             started |-> FALSE, next |-> 0, writer |-> "open"]
NoUpload == [at |-> "idle", job |-> None, by |-> None, index |-> 0, target |-> None, lost |-> FALSE]
NoWork   == [job |-> None, index |-> 0, post |-> None]

FetchSteps  == {"idle", "register", "wait", "copy", "unregister"}
UploadSteps == {"idle", "take", "peek", "check", "copy", "last", "abort"}

Init == /\ channel = [w \in AudioWorker |-> <<>>]
        /\ pending = [j \in Job |-> None]
        /\ fetch = [f \in Fetcher |-> NoFetch]
        /\ upload = [u \in Upload |-> NoUpload]
        /\ client = [w \in AudioWorker |-> NoWork]
        /\ mode \in [AudioWorker -> {"stream", "chunk"}]

-----------------------------------------------------------------------------
(* The channels.                                                           *)

\* A full channel loses its oldest task; if another task is queued between the
\* two steps of this, the new one is lost as well.
\* Mutant of Enqueued: the channel is not bounded.
EnqueuedAlways(ch, task) == {Append(ch, task)}
Enqueued(ch, task) == IF Len(ch) < Buffer THEN {Append(ch, task)}
                                          ELSE {Append(Tail(ch), task), ch}

EnqueueFetch(w, task) ==
    \E ch \in Enqueued(channel[w], task) : channel' = [channel EXCEPT ![w] = ch]

\* A job is done, or its audio has waited too long.
EnqueueCleanup(j) ==
    /\ EnqueueFetch(Owner[j], [action |-> "cleanup", job |-> j])
    /\ UNCHANGED <<pending, fetch, upload, client, mode>>

\* The audio worker takes a task; the answer may not reach it.
Poll(w) ==
    /\ client[w] = NoWork
    /\ channel[w] # <<>>
    /\ channel' = [channel EXCEPT ![w] = Tail(@)]
    /\ \/ UNCHANGED client
       \/ /\ Head(channel[w]).action = "fetch"
          /\ client' = [client EXCEPT ![w].job = Head(channel[w]).job]
    /\ UNCHANGED <<pending, fetch, upload, mode>>

-----------------------------------------------------------------------------
(* GET: RequestFetch and doOneFetchAttempt.                                *)

SetFetch(f, r) == fetch' = [fetch EXCEPT ![f] = r]

WorkerAudioFetchBroker(f, j) ==
    /\ fetch[f].at = "idle"
    /\ SetFetch(f, [NoFetch EXCEPT !.at = "register", !.job = j])
    /\ UNCHANGED <<channel, pending, upload, client, mode>>

\* One GET waits for a job at a time.  It is in the map before the audio worker
\* is told.
registerCoupling(f) ==
    /\ fetch[f].at = "register"
    /\ LET j == fetch[f].job IN
       IF pending[j] # None
         THEN /\ SetFetch(f, NoFetch)
              /\ UNCHANGED <<channel, pending>>
         ELSE /\ SetFetch(f, [NewCoupling(fetch[f]) EXCEPT !.at = "wait"])
              /\ pending' = [pending EXCEPT ![j] = f]
              /\ EnqueueFetch(Owner[j], [action |-> "fetch", job |-> j])
    /\ UNCHANGED <<upload, client, mode>>

StreamStarts(f) ==
    /\ fetch[f].at = "wait" /\ fetch[f].started
    /\ SetFetch(f, [fetch[f] EXCEPT !.at = "copy"])
    /\ UNCHANGED <<channel, pending, upload, client, mode>>

\* The attempt is over; its deferred calls close the reader and then take the
\* coupling out of the map.
Closed(r, outcome) == [r EXCEPT !.at = "unregister", !.outcome = outcome,
                                !.writer = IF @ = "open" THEN "error" ELSE @]

FirstByteTimeout(f) ==
    /\ fetch[f].at = "wait"
    /\ SetFetch(f, Closed(fetch[f], "offline"))
    /\ UNCHANGED <<channel, pending, upload, client, mode>>

CopyEnds(f) ==
    /\ fetch[f].at = "copy" /\ fetch[f].writer # "open"
    /\ SetFetch(f, Closed(fetch[f], IF fetch[f].writer = "eof" THEN "ok" ELSE "failed"))
    /\ UNCHANGED <<channel, pending, upload, client, mode>>

\* Its holdTimeout, or the subtitle worker has gone away.
CopyCutShort(f) ==
    /\ fetch[f].at = "copy"
    /\ SetFetch(f, Closed(fetch[f], "failed"))
    /\ UNCHANGED <<channel, pending, upload, client, mode>>

\* Mutant of Forget: the entry stays when the attempt has timed out.
ForgetUnlessOffline(f) ==
    IF pending[fetch[f].job] = f /\ fetch[f].outcome # "offline"
      THEN [pending EXCEPT ![fetch[f].job] = None] ELSE pending
Forget(f) == IF pending[fetch[f].job] = f THEN [pending EXCEPT ![fetch[f].job] = None] ELSE pending

\* The attempt that timed out is followed by another one until they are spent;
\* the audio worker is told now, and again when that registers.
Retries(r) == r.outcome = "offline" /\ r.attempt < MaxRetries

unregisterCoupling(f) ==
    /\ fetch[f].at = "unregister"
    /\ pending' = Forget(f)
    /\ upload' = [u \in Upload |-> IF upload[u].target = f
                                     THEN [upload[u] EXCEPT !.target = Stale] ELSE upload[u]]
    /\ LET r == fetch[f] IN
       IF Retries(r)
         THEN /\ SetFetch(f, [NewCoupling(r) EXCEPT !.at = "register", !.outcome = "none",
                                                     !.attempt = @ + 1])
              /\ EnqueueFetch(Owner[r.job], [action |-> "fetch", job |-> r.job])
         ELSE SetFetch(f, NoFetch) /\ UNCHANGED channel
    /\ UNCHANGED <<client, mode>>

-----------------------------------------------------------------------------
(* POST: ReceiveStream takes the coupling and writes the whole body.         *)

SetUpload(u, r) == upload' = [upload EXCEPT ![u] = r]
Go(u, at)       == SetUpload(u, [upload[u] EXCEPT !.at = at])
Live(u)         == upload[u].target \in Fetcher
\* A write to the pipe is a read of the GET: it waits until that copies.
Readable(u)     == Live(u) /\ fetch[upload[u].target].at = "copy"
                           /\ fetch[upload[u].target].writer = "open"
\* Mutant of Broken: the end of a GET leaves its reader open.
BrokenByWriter(u) == Live(u) /\ fetch[upload[u].target].writer # "open"
Broken(u)       == Live(u) => \/ fetch[upload[u].target].at = "unregister"
                              \/ fetch[upload[u].target].writer # "open"

\* CloseWithError and Close keep the first of several endings.
WriterClosed(f, how) == [fetch EXCEPT ![f].writer = IF @ = "open" THEN how ELSE @]

\* The POST is answered; a client that still waits for it goes on with the next
\* chunk, or with the next task.
Answer(u, ok) ==
    LET r == upload[u]
        c == client[r.by]
    IN /\ SetUpload(u, NoUpload)
       /\ client' = IF c.post # u THEN client
                    ELSE [client EXCEPT ![r.by] =
                            IF ok /\ ~r.lost /\ mode[r.by] = "chunk" /\ c.index + 1 < Parts
                              THEN [c EXCEPT !.index = @ + 1, !.post = None]
                              ELSE NoWork]

\* Mutant of takeCoupling: the coupling stays in the map.
takeCouplingNot(j) == pending
takeCoupling(j) == [pending EXCEPT ![j] = None]

Take(u) ==
    /\ upload[u].at = "take"
    /\ LET j == upload[u].job IN
       IF pending[j] = None
         THEN Answer(u, FALSE) /\ UNCHANGED <<pending, fetch>>
         ELSE /\ SetUpload(u, [upload[u] EXCEPT !.at = "copy", !.target = pending[j]])
              /\ fetch' = [fetch EXCEPT ![pending[j]].started = TRUE]
              /\ pending' = takeCoupling(j)
              /\ UNCHANGED client
    /\ UNCHANGED <<channel, mode>>

\* Another part of the body goes through the pipe; the last one of a stream
\* closes it, the one of a chunk ends the copy.
CopyPart(u) ==
    /\ upload[u].at = "copy" /\ Readable(u)
    /\ LET r == upload[u]
           f == r.target
           got == Append(fetch[f].got, r.index)
       IN IF mode[r.by] = "chunk"
            THEN /\ SetFetch(f, [fetch[f] EXCEPT !.got = got])
                 /\ IF r.index + 1 = Parts THEN Go(u, "last") /\ UNCHANGED client
                                           ELSE Answer(u, TRUE)
          ELSE IF r.index + 1 < Parts
            THEN /\ SetFetch(f, [fetch[f] EXCEPT !.got = got])
                 /\ SetUpload(u, [r EXCEPT !.index = @ + 1])
                 /\ UNCHANGED client
          ELSE /\ SetFetch(f, [fetch[f] EXCEPT !.got = got, !.writer = "eof"])
               /\ Answer(u, TRUE)
    /\ UNCHANGED <<channel, pending, mode>>

\* The body cannot be read, or the pipe not be written to.
CopyFails(u) ==
    /\ upload[u].at = "copy"
    /\ upload[u].lost \/ Broken(u)
    /\ IF mode[upload[u].by] = "chunk"
         THEN Go(u, "abort") /\ UNCHANGED <<fetch, client>>
         ELSE /\ fetch' = IF Live(u) THEN WriterClosed(upload[u].target, "error") ELSE fetch
              /\ Answer(u, FALSE)
    /\ UNCHANGED <<channel, pending, mode>>

-----------------------------------------------------------------------------
(* POST: ReceiveChunk writes one chunk and leaves the coupling in the map.   *)

peekCoupling(u) ==
    /\ upload[u].at = "peek"
    /\ LET c == pending[upload[u].job] IN
       IF c = None THEN Answer(u, FALSE)
       ELSE SetUpload(u, [upload[u] EXCEPT !.at = "check", !.target = c]) /\ UNCHANGED client
    /\ UNCHANGED <<channel, pending, fetch, mode>>

\* The numbers are compared and advanced under chunkMu, before the copy.  A
\* coupling that has ended either differs or fails in the copy.
InOrder(u) == Live(u) /\ upload[u].index = fetch[upload[u].target].next

CheckChunk(u) ==
    /\ upload[u].at = "check"
    /\ IF InOrder(u)
         THEN /\ fetch' = [fetch EXCEPT ![upload[u].target].started = TRUE,
                                        ![upload[u].target].next = @ + 1]
              /\ Go(u, "copy")
         ELSE UNCHANGED fetch /\ Go(u, "abort")
    /\ UNCHANGED <<channel, pending, client, mode>>

\* Whatever coupling the job has by now is ended.
abortCoupling(u) ==
    /\ upload[u].at = "abort"
    /\ LET j == upload[u].job IN
       /\ pending' = takeCoupling(j)
       /\ fetch' = IF pending[j] # None THEN WriterClosed(pending[j], "error") ELSE fetch
    /\ Answer(u, FALSE)
    /\ UNCHANGED <<channel, mode>>

\* The last chunk takes the job's coupling out of the map, its own or another,
\* and closes its own.
LastChunk(u) ==
    /\ upload[u].at = "last"
    /\ LET j == upload[u].job IN
       /\ pending' = takeCoupling(j)
       /\ fetch' = IF pending[j] # None /\ pending[j] = upload[u].target
                     THEN WriterClosed(pending[j], "eof") ELSE fetch
    /\ Answer(u, TRUE)
    /\ UNCHANGED <<channel, mode>>

-----------------------------------------------------------------------------
(* The audio worker (external): one task at a time, its chunks one by one.   *)

Post(w, u) ==
    /\ client[w].job # None /\ client[w].post = None
    /\ upload[u].at = "idle"
    /\ client' = [client EXCEPT ![w].post = u]
    /\ SetUpload(u, [NoUpload EXCEPT !.at = IF mode[w] = "chunk" THEN "peek" ELSE "take",
                                     !.job = client[w].job, !.by = w, !.index = client[w].index])
    /\ UNCHANGED <<channel, pending, fetch, mode>>

\* It loses the connection and gives the task up; the server's handler goes on,
\* and may still do so when the next task is taken.
ConnectionLost(w) ==
    /\ client[w].post # None
    /\ ~upload[client[w].post].lost
    /\ SetUpload(client[w].post, [upload[client[w].post] EXCEPT !.lost = TRUE])
    /\ client' = IF mode[w] \in Orphans THEN [client EXCEPT ![w] = NoWork] ELSE client
    /\ UNCHANGED <<channel, pending, fetch, mode>>

-----------------------------------------------------------------------------

FetchStep(f) == \/ registerCoupling(f) \/ StreamStarts(f) \/ FirstByteTimeout(f)
                \/ CopyEnds(f) \/ CopyCutShort(f) \/ unregisterCoupling(f)

UploadStep(u) == \/ Take(u) \/ CopyPart(u) \/ CopyFails(u)
                 \/ peekCoupling(u) \/ CheckChunk(u) \/ abortCoupling(u) \/ LastChunk(u)

Next == \/ \E f \in Fetcher : FetchStep(f) \/ \E j \in Job : WorkerAudioFetchBroker(f, j)
        \/ \E u \in Upload : UploadStep(u)
        \/ \E w \in AudioWorker : Poll(w) \/ ConnectionLost(w) \/ \E u \in Upload : Post(w, u)
        \/ \E j \in Job : EnqueueCleanup(j)

Spec == Init /\ [][Next]_vars

\* Handlers run, and timers fire.  No audio worker need ever poll.
FairSpec == /\ Spec
            /\ \A f \in Fetcher : WF_vars(FetchStep(f))
            /\ \A u \in Upload : WF_vars(UploadStep(u))

-----------------------------------------------------------------------------
(* Properties.                                                             *)

TypeOK == /\ channel \in [AudioWorker -> Seq(Task)]
          /\ \A w \in AudioWorker : Len(channel[w]) <= Buffer
          /\ pending \in [Job -> Fetcher \cup {None}]
          /\ fetch \in [Fetcher ->
                [at : FetchSteps, job : Job \cup {None}, attempt : 0..MaxRetries,
                 outcome : {"none", "ok", "failed", "offline"},
                 got : Seq(0..(Parts - 1)),
                 started : BOOLEAN, next : 0..Parts, writer : {"open", "eof", "error"}]]
          /\ upload \in [Upload ->
                [at : UploadSteps, job : Job \cup {None}, by : AudioWorker \cup {None},
                 index : 0..(Parts - 1), target : Fetcher \cup {None, Stale}, lost : BOOLEAN]]
          /\ client \in [AudioWorker ->
                [job : Job \cup {None}, index : 0..(Parts - 1), post : Upload \cup {None}]]
          /\ mode \in [AudioWorker -> {"stream", "chunk"}]

\* An entry of pendingFetches belongs to a GET that is still waiting or copying:
\* one left behind would have every later GET of that job refused with 409.
PendingIsLive ==
    \A j \in Job : pending[j] # None =>
        /\ fetch[pending[j]].job = j
        /\ fetch[pending[j]].at \in {"wait", "copy", "unregister"}

\* Whatever uploads, aborts, time-outs and retries overlap, a subtitle worker that
\* is answered 200 has got all parts of the FLAC in order.
Phase(r) == IF r.at = "idle" THEN "idle" ELSE IF r.outcome = "ok" THEN "ok" ELSE "open"
Fetches == INSTANCE AudioFetch
             WITH phase <- [f \in Fetcher |-> Phase(fetch[f])],
                  received <- [f \in Fetcher |-> fetch[f].got]
FetchImplemented == Fetches!Spec

\* No handler waits for ever, whether or not its counterpart comes.
RequestsEnd == /\ \A f \in Fetcher : fetch[f].at # "idle" ~> fetch[f].at = "idle"
               /\ \A u \in Upload : upload[u].at # "idle" ~> upload[u].at = "idle"

\* PendingFetches, which a hand-over waits for (agent.go), counts every transfer.
BusyIsCounted == \A f \in Fetcher : fetch[f].at = "copy" => pending[fetch[f].job] = f

=============================================================================
