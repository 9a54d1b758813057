------------------------ MODULE AudioBroker_proofs -------------------------
(***************************************************************************)
(* Type correctness of the broker, that registered fetches are live, and   *)
(* that it implements AudioFetch, for any numbers of jobs, audio workers,  *)
(* handlers and parts.                                                     *)
(***************************************************************************)
EXTENDS AudioBroker, TLAPS

GetStates ==
    [at : FetchSteps, job : Job \cup {None}, attempt : 0..MaxRetries,
     outcome : {"none", "ok", "failed", "offline"}, got : Seq(0..(Parts - 1)),
     started : BOOLEAN, next : 0..Parts, writer : {"open", "eof", "error"}]
PostStates ==
    [at : UploadSteps, job : Job \cup {None}, by : AudioWorker \cup {None},
     index : 0..(Parts - 1), target : Fetcher \cup {None, Stale}, lost : BOOLEAN]
WorkStates == [job : Job \cup {None}, index : 0..(Parts - 1), post : Upload \cup {None}]

ChannelType == /\ channel \in [AudioWorker -> Seq(Task)]
               /\ \A w \in AudioWorker : Len(channel[w]) <= Buffer
FetchType  == /\ fetch \in [Fetcher -> GetStates]
              /\ \A f \in Fetcher : fetch[f].at # "idle" => fetch[f].job \in Job
UploadType == /\ upload \in [Upload -> PostStates]
              /\ \A u \in Upload : IF upload[u].at = "idle" THEN upload[u] = NoUpload
                                   ELSE upload[u].job \in Job /\ upload[u].by \in AudioWorker
ClientType == /\ client \in [AudioWorker -> WorkStates]
              /\ \A w \in AudioWorker, u \in Upload :
                    client[w].post = u => upload[u].at # "idle" /\ upload[u].by = w

\* TypeOK, and that a handler at work has a job.
TypeInv == /\ ChannelType /\ FetchType /\ UploadType /\ ClientType
           /\ pending \in [Job -> Fetcher \cup {None}]
           /\ mode \in [AudioWorker -> {"stream", "chunk"}]

-----------------------------------------------------------------------------
(* The invariant behind the refinement.                                    *)

\* A job's tasks and its POSTs are those of the worker that has its FLAC.
Mine == /\ \A w \in AudioWorker : \A i \in DOMAIN channel[w] : Owner[channel[w][i].job] = w
        /\ \A w \in AudioWorker : client[w].job # None => Owner[client[w].job] = w
        /\ \A u \in Upload : upload[u].at # "idle" => Owner[upload[u].job] = upload[u].by

\* A worker that uploads in chunks waits for each answer; one that streams starts over.
OneByOne ==
    /\ \A u \in Upload : upload[u].at # "idle" /\ mode[upload[u].by] = "chunk"
                          => client[upload[u].by].post = u
    /\ \A w \in AudioWorker : mode[w] = "stream" => client[w].index = 0

\* Each mode has its own steps.
Tracks ==
    \A u \in Upload : upload[u].at # "idle" =>
        IF mode[upload[u].by] = "stream"
          THEN \/ upload[u].at = "take" /\ upload[u].index = 0 /\ upload[u].target = None
               \/ upload[u].at = "copy"
          ELSE \/ upload[u].at = "peek" /\ upload[u].target = None
               \/ upload[u].at \in {"check", "copy", "last", "abort"}

\* What a GET has got, and what became of it.
Got(f) == fetch[f].got
Outcomes ==
    \A f \in Fetcher :
        /\ fetch[f].at = "idle" => fetch[f] = NoFetch
        /\ fetch[f].at \in {"register", "wait"} => Got(f) = <<>>
        /\ fetch[f].at # "unregister" => fetch[f].outcome = "none"
        /\ fetch[f].outcome = "offline" => Got(f) = <<>>
        /\ fetch[f].outcome = "ok" => fetch[f].writer = "eof"
        /\ fetch[f].writer = "eof" => Len(Got(f)) = Parts

Aims(u, f) == upload[u].target = f
Chunked(j) == mode[Owner[j]] = "chunk"

\* A POST that holds a coupling: the part it writes is the next, and no other holds it.
Aimed ==
    \A u \in Upload, f \in Fetcher : Aims(u, f) =>
        /\ fetch[f].at \in {"wait", "copy", "unregister"} /\ fetch[f].job = upload[u].job
        /\ upload[u].at = "copy" => upload[u].index = Len(Got(f))
        /\ upload[u].at = "last" => Len(Got(f)) = Parts
        /\ Chunked(fetch[f].job) =>
              /\ pending[fetch[f].job] = f
              /\ upload[u].at = "check" => fetch[f].next = Len(Got(f))
              /\ upload[u].at = "copy" => fetch[f].next = Len(Got(f)) + 1

Alone == \A u, v \in Upload, f \in Fetcher : Aims(u, f) /\ Aims(v, f) => u = v

\* A registered GET is fed by nobody yet (stream), or by chunks that follow each other.
Registered ==
    \A j \in Job : pending[j] # None =>
        LET f == pending[j] IN
        IF Chunked(j)
          THEN (\A u \in Upload : ~Aims(u, f)) => fetch[f].next = Len(Got(f))
          ELSE Got(f) = <<>> /\ \A u \in Upload : ~Aims(u, f)

\* Threads: who works on what.  Transfers: what each GET has got, and from whom.
Threads   == Mine /\ OneByOne /\ Tracks
Transfers == PendingIsLive /\ Outcomes /\ Aimed /\ Alone /\ Registered

-----------------------------------------------------------------------------
(* The types.                                                              *)

LEMMA IdleTypes ==
  /\ NoFetch \in GetStates /\ NoFetch.at = "idle"
  /\ NoUpload \in PostStates /\ NoUpload.at = "idle"
  /\ NoWork \in WorkStates
BY BrokerAssumption DEF NoFetch, NoUpload, NoWork, GetStates, PostStates, WorkStates, FetchSteps,
   UploadSteps

LEMMA TypeInit == Init => TypeInv
<1> SUFFICES ASSUME Init PROVE TypeInv
  OBVIOUS
<1>1. ChannelType
  BY BrokerAssumption DEF Init, ChannelType
<1>2. FetchType /\ UploadType /\ ClientType
  BY IdleTypes, BrokerAssumption DEF Init, FetchType, UploadType, ClientType, NoWork
<1>3. QED BY <1>1, <1>2 DEF Init, TypeInv

LEMMA EnqueueType ==
  ASSUME ChannelType, NEW w \in AudioWorker, NEW task \in Task, EnqueueFetch(w, task)
  PROVE  ChannelType'
<1>1. PICK ch \in Enqueued(channel[w], task) : channel' = [channel EXCEPT ![w] = ch]
  BY DEF EnqueueFetch
<1>2. channel[w] \in Seq(Task) /\ Len(channel[w]) \in Nat /\ Len(channel[w]) <= Buffer
  BY DEF ChannelType
<1>3. CASE Len(channel[w]) < Buffer
  <2>1. ch = Append(channel[w], task)
    BY <1>1, <1>3 DEF Enqueued
  <2>2. ch \in Seq(Task) /\ Len(ch) = Len(channel[w]) + 1
    BY <1>2, <2>1
  <2>3. QED BY <1>1, <1>2, <1>3, <2>2, BrokerAssumption DEF ChannelType
<1>4. CASE ~(Len(channel[w]) < Buffer)
  <2>1. channel[w] # <<>>
    BY <1>2, <1>4, BrokerAssumption
  <2>2. Tail(channel[w]) \in Seq(Task) /\ Len(Tail(channel[w])) = Len(channel[w]) - 1
    BY <1>2, <2>1
  <2>3. /\ Append(Tail(channel[w]), task) \in Seq(Task)
        /\ Len(Append(Tail(channel[w]), task)) = Len(channel[w])
    BY <1>2, <2>2
  <2>4. ch \in Seq(Task) /\ Len(ch) = Len(channel[w])
    BY <1>1, <1>2, <1>4, <2>3 DEF Enqueued
  <2>5. QED BY <1>1, <1>2, <2>4 DEF ChannelType
<1>5. QED BY <1>3, <1>4

LEMMA FetchStepType ==
  ASSUME FetchType, NEW f \in Fetcher, NEW r \in GetStates,
         r.at # "idle" => r.job \in Job,
         SetFetch(f, r)
  PROVE  FetchType'
BY DEF FetchType, SetFetch

\* What a POST does to the coupling that it holds.
LEMMA WriterType ==
  ASSUME FetchType, NEW f \in Fetcher, NEW how \in {"eof", "error"},
         fetch' = WriterClosed(f, how)
  PROVE  FetchType'
<1>1. fetch[f] \in GetStates
  BY DEF FetchType
<1>2. [fetch[f] EXCEPT !.writer = IF @ = "open" THEN how ELSE @] \in GetStates
  BY <1>1 DEF GetStates
<1>3. QED BY <1>1, <1>2 DEF WriterClosed, FetchType, GetStates

LEMMA UploadStepType ==
  ASSUME UploadType, NEW u \in Upload, NEW r \in PostStates,
         IF r.at = "idle" THEN r = NoUpload ELSE r.job \in Job /\ r.by \in AudioWorker,
         SetUpload(u, r)
  PROVE  /\ UploadType'
         /\ (ClientType /\ UNCHANGED client /\ r.at # "idle" /\ r.by = upload[u].by => ClientType')
<1>1. \A v \in Upload : upload'[v] = IF v = u THEN r ELSE upload[v]
  BY DEF UploadType, SetUpload
<1>2. UploadType'
  BY <1>1 DEF UploadType, SetUpload
<1>3. QED BY <1>1, <1>2 DEF ClientType

LEMMA GoType ==
  ASSUME UploadType, NEW u \in Upload, upload[u].at # "idle", NEW at \in UploadSteps \ {"idle"},
         Go(u, at)
  PROVE  UploadType' /\ (ClientType /\ UNCHANGED client => ClientType')
<1>1. upload[u] \in PostStates /\ upload[u].job \in Job /\ upload[u].by \in AudioWorker
  BY DEF UploadType
<1>2. [upload[u] EXCEPT !.at = at] \in PostStates
  BY <1>1 DEF PostStates
<1>3. QED BY <1>1, <1>2, UploadStepType DEF Go, PostStates

LEMMA AnswerType ==
  ASSUME UploadType, ClientType, NEW u \in Upload, upload[u].at # "idle",
         NEW ok \in BOOLEAN, Answer(u, ok)
  PROVE  UploadType' /\ ClientType'
<1>1. upload[u] \in PostStates /\ upload[u].by \in AudioWorker
  BY DEF UploadType
<1>2. UploadType'
  BY IdleTypes, UploadStepType DEF Answer
<1>3. PICK d \in WorkStates :
        /\ client' = IF client[upload[u].by].post # u THEN client
                                                      ELSE [client EXCEPT ![upload[u].by] = d]
        /\ d.post = None
  <2> DEFINE c == client[upload[u].by]
             onward == ok /\ ~upload[u].lost /\ mode[upload[u].by] = "chunk" /\ c.index + 1 < Parts
  <2>1. c \in WorkStates
    BY <1>1 DEF ClientType
  <2>2. CASE onward
    <3>1. c.index + 1 \in 0..(Parts - 1)
      BY <2>1, <2>2, BrokerAssumption DEF WorkStates
    <3>2. /\ [c EXCEPT !.index = @ + 1, !.post = None] \in WorkStates
          /\ [c EXCEPT !.index = @ + 1, !.post = None].post = None
      BY <2>1, <3>1 DEF WorkStates
    <3>3. QED BY <1>1, <2>2, <3>2 DEF Answer
  <2>3. CASE ~onward
    BY <1>1, <2>3, IdleTypes DEF Answer, NoWork
  <2>4. QED BY <2>2, <2>3
<1>4. client' \in [AudioWorker -> WorkStates]
  BY <1>1, <1>3 DEF ClientType
<1>5. \A w \in AudioWorker, v \in Upload : client'[w].post = v => client[w].post = v /\ v # u
  BY <1>1, <1>3, BrokerAssumption DEF ClientType
<1>6. \A v \in Upload : v # u => upload'[v] = upload[v]
  BY DEF Answer, SetUpload, UploadType
<1>7. ClientType'
  BY <1>4, <1>5, <1>6 DEF ClientType
<1>8. QED BY <1>2, <1>7

LEMMA NewCouplingType ==
  ASSUME NEW r \in GetStates
  PROVE  /\ NewCoupling(r) \in GetStates
         /\ NewCoupling(r).at = r.at /\ NewCoupling(r).job = r.job /\ NewCoupling(r).got = r.got
         /\ NewCoupling(r).outcome = r.outcome /\ NewCoupling(r).attempt = r.attempt
         /\ NewCoupling(r).next = 0 /\ NewCoupling(r).writer = "open"
<1>1. 0 \in 0..Parts
  BY BrokerAssumption
<1>2. QED BY <1>1 DEF NewCoupling, GetStates

LEMMA GetType ==
  ASSUME TypeInv, NEW f \in Fetcher,
         FetchStep(f) \/ \E j \in Job : WorkerAudioFetchBroker(f, j)
  PROVE  TypeInv'
<1> USE DEF TypeInv
<1>1. fetch[f] \in GetStates /\ (fetch[f].at # "idle" => fetch[f].job \in Job)
  BY DEF FetchType
<1>2. ASSUME NEW j \in Job, WorkerAudioFetchBroker(f, j) PROVE TypeInv'
  <2>1. [NoFetch EXCEPT !.at = "register", !.job = j] \in GetStates
    BY IdleTypes DEF GetStates, FetchSteps
  <2>2. FetchType'
    BY <1>2, <2>1, FetchStepType DEF WorkerAudioFetchBroker, GetStates
  <2>3. QED BY <1>2, <2>2 DEF WorkerAudioFetchBroker, ChannelType, UploadType, ClientType
<1>3. CASE registerCoupling(f)
  <2>1. fetch[f].job \in Job /\ Owner[fetch[f].job] \in AudioWorker
    BY <1>1, <1>3, BrokerAssumption DEF registerCoupling
  <2>2. [NewCoupling(fetch[f]) EXCEPT !.at = "wait"] \in GetStates
    BY <1>1, NewCouplingType DEF GetStates, FetchSteps
  <2>3. /\ [NewCoupling(fetch[f]) EXCEPT !.at = "wait"].job = fetch[f].job
        /\ [NewCoupling(fetch[f]) EXCEPT !.at = "wait"].at = "wait"
    BY <1>1, NewCouplingType DEF GetStates
  <2>4. FetchType'
    BY <1>3, <2>1, <2>2, <2>3, IdleTypes, FetchStepType DEF registerCoupling
  <2>5. [action |-> "fetch", job |-> fetch[f].job] \in Task
    BY <2>1 DEF Task
  <2>6. ChannelType'
    BY <1>3, <2>1, <2>5, EnqueueType DEF registerCoupling, ChannelType
  <2>7. pending' \in [Job -> Fetcher \cup {None}]
    BY <1>3, <2>1 DEF registerCoupling
  <2>8. QED BY <1>3, <2>4, <2>6, <2>7 DEF registerCoupling, UploadType, ClientType
<1>4. ASSUME NEW at \in FetchSteps \ {"idle"}, NEW outcome \in {"none", "ok", "failed", "offline"},
             NEW writer \in {"open", "eof", "error"}, fetch[f].at # "idle",
             SetFetch(f, [fetch[f] EXCEPT !.at = at, !.outcome = outcome, !.writer = writer])
      PROVE  FetchType'
  <2>1. [fetch[f] EXCEPT !.at = at, !.outcome = outcome, !.writer = writer] \in GetStates
    BY <1>1 DEF GetStates
  <2>2. QED BY <1>1, <1>4, <2>1, FetchStepType DEF GetStates
<1>5. CASE StreamStarts(f)
  <2>1. [fetch[f] EXCEPT !.at = "copy"] \in GetStates
    BY <1>1 DEF GetStates, FetchSteps
  <2>2. FetchType'
    BY <1>1, <1>5, <2>1, FetchStepType DEF StreamStarts, GetStates
  <2>3. QED BY <1>5, <2>2 DEF StreamStarts, ChannelType, UploadType, ClientType
<1>6. CASE FirstByteTimeout(f) \/ CopyEnds(f) \/ CopyCutShort(f)
  <2>1. /\ fetch[f].at # "idle"
        /\ \E outcome \in {"ok", "failed", "offline"} : SetFetch(f, Closed(fetch[f], outcome))
        /\ UNCHANGED <<channel, pending, upload, client, mode>>
    BY <1>6 DEF FirstByteTimeout, CopyEnds, CopyCutShort
  <2>2. FetchType'
    BY <1>1, <1>4, <2>1 DEF Closed, GetStates, FetchSteps
  <2>3. QED BY <2>1, <2>2 DEF ChannelType, UploadType, ClientType
<1>7. CASE unregisterCoupling(f)
  <2>1. fetch[f].job \in Job /\ Owner[fetch[f].job] \in AudioWorker
    BY <1>1, <1>7, BrokerAssumption DEF unregisterCoupling
  <2> DEFINE again == [NewCoupling(fetch[f]) EXCEPT !.at = "register", !.outcome = "none",
                                                    !.attempt = @ + 1]
  <2>2. Retries(fetch[f]) =>
          again \in GetStates /\ again.at = "register" /\ again.job = fetch[f].job
    <3>1. Retries(fetch[f]) => fetch[f].attempt + 1 \in 0..MaxRetries
      BY <1>1, BrokerAssumption DEF Retries, GetStates
    <3>2. QED BY <1>1, <3>1, NewCouplingType DEF GetStates, FetchSteps
  <2>3. FetchType'
    BY <1>7, <2>1, <2>2, IdleTypes, FetchStepType DEF unregisterCoupling
  <2>4. [action |-> "fetch", job |-> fetch[f].job] \in Task
    BY <2>1 DEF Task
  <2>5. ChannelType'
    BY <1>7, <2>1, <2>4, EnqueueType DEF unregisterCoupling, ChannelType
  <2>6. pending' \in [Job -> Fetcher \cup {None}]
    BY <1>7 DEF unregisterCoupling, Forget
  <2>7. UploadType'
    <3>1. \A u \in Upload : upload'[u] = IF upload[u].target = f
                                          THEN [upload[u] EXCEPT !.target = Stale] ELSE upload[u]
      BY <1>7 DEF unregisterCoupling
    <3>2. \A u \in Upload : [upload[u] EXCEPT !.target = Stale] \in PostStates
      BY DEF UploadType, PostStates
    <3>3. \A u \in Upload : upload[u].at = "idle" => upload[u].target # f
      BY BrokerAssumption DEF UploadType, NoUpload
    <3>4. upload' \in [Upload -> PostStates]
      BY <1>7, <3>2 DEF unregisterCoupling, UploadType
    <3>5. QED BY <3>1, <3>3, <3>4 DEF UploadType, PostStates
  <2>8. ClientType'
    <3>1. \A u \in Upload : upload'[u].at = upload[u].at /\ upload'[u].by = upload[u].by
      BY <1>7 DEF unregisterCoupling, UploadType, PostStates
    <3>2. QED BY <1>7, <3>1 DEF unregisterCoupling, ClientType
  <2>9. QED BY <1>7, <2>3, <2>5, <2>6, <2>7, <2>8 DEF unregisterCoupling
<1>8. QED BY <1>2, <1>3, <1>5, <1>6, <1>7 DEF FetchStep

LEMMA PostType ==
  ASSUME TypeInv, NEW u \in Upload, UploadStep(u)
  PROVE  TypeInv'
<1> USE DEF TypeInv
<1>1. UNCHANGED <<channel, mode>> /\ ChannelType'
  BY DEF UploadStep, Take, CopyPart, CopyFails, peekCoupling, CheckChunk, abortCoupling, LastChunk,
         ChannelType
<1>2. /\ upload[u] \in PostStates /\ upload[u].at # "idle"
      /\ upload[u].job \in Job /\ upload[u].by \in AudioWorker
      /\ upload[u].target \in Fetcher \cup {None, Stale} /\ upload[u].index \in 0..(Parts - 1)
  BY DEF UploadStep, Take, CopyPart, CopyFails, peekCoupling, CheckChunk, abortCoupling, LastChunk,
         UploadType, PostStates
<1>3. \A f \in Fetcher : fetch[f] \in GetStates /\ (fetch[f].at # "idle" => fetch[f].job \in Job)
  BY DEF FetchType
<1>4. pending[upload[u].job] \in Fetcher \cup {None}
  BY <1>2
<1>5. CASE Take(u)
  <2> DEFINE f == pending[upload[u].job]
  <2>1. CASE f = None
    BY <1>1, <1>2, <1>5, <2>1, AnswerType DEF Take, FetchType
  <2>2. CASE f # None
    <3>1. f \in Fetcher
      BY <1>4, <2>2
    <3>2. [upload[u] EXCEPT !.at = "copy", !.target = f] \in PostStates
      BY <1>2, <3>1 DEF PostStates, UploadSteps
    <3>3. UploadType'
      BY <1>2, <1>5, <2>2, <3>2, UploadStepType DEF Take, PostStates
    <3>8. ClientType'
      BY <1>2, <1>5, <2>2, <3>2, UploadStepType DEF Take, PostStates
    <3>4. [fetch[f] EXCEPT !.started = TRUE] \in GetStates
      BY <1>3, <3>1 DEF GetStates
    <3>5. FetchType'
      BY <1>3, <1>5, <2>2, <3>1, <3>4, FetchStepType DEF Take, SetFetch, GetStates
    <3>6. pending' \in [Job -> Fetcher \cup {None}]
      BY <1>2, <1>5, <2>2 DEF Take, takeCoupling
    <3>7. QED BY <1>1, <1>5, <2>2, <3>3, <3>5, <3>6, <3>8 DEF Take
  <2>3. QED BY <2>1, <2>2
<1>6. CASE CopyPart(u)
  <2>1. PICK f \in Fetcher : f = upload[u].target
    BY <1>6 DEF CopyPart, Readable, Live
  <2>2. Append(fetch[f].got, upload[u].index) \in Seq(0..(Parts - 1))
    BY <1>2, <1>3 DEF GetStates
  <2>3. /\ [fetch[f] EXCEPT !.got = Append(fetch[f].got, upload[u].index)] \in GetStates
        /\ [fetch[f] EXCEPT !.got = Append(fetch[f].got, upload[u].index),
                            !.writer = "eof"] \in GetStates
    BY <1>3, <2>2 DEF GetStates
  <2>4. FetchType'
    BY <1>3, <1>6, <2>1, <2>3, FetchStepType DEF CopyPart, GetStates
  <2>5. upload[u].index + 1 < Parts => [upload[u] EXCEPT !.index = @ + 1] \in PostStates
    <3>1. upload[u].index + 1 < Parts => upload[u].index + 1 \in 0..(Parts - 1)
      BY <1>2, BrokerAssumption
    <3>2. QED BY <1>2, <3>1 DEF PostStates
  <2>6. UploadType' /\ ClientType'
    <3>1. \/ Answer(u, TRUE)
          \/ Go(u, "last") /\ UNCHANGED client
          \/ /\ upload[u].index + 1 < Parts /\ SetUpload(u, [upload[u] EXCEPT !.index = @ + 1])
             /\ UNCHANGED client
      BY <1>6 DEF CopyPart
    <3>2. QED
      BY <1>2, <2>5, <3>1, AnswerType, GoType, UploadStepType
      DEF PostStates, UploadSteps
  <2>7. QED BY <1>1, <1>6, <2>4, <2>6 DEF CopyPart
<1>7. ASSUME NEW at \in UploadSteps \ {"idle"}, Go(u, at), UNCHANGED client
      PROVE  UploadType' /\ ClientType'
  BY <1>2, <1>7, GoType
<1>8. CASE CopyFails(u)
  <2>1. FetchType'
    BY <1>8, WriterType DEF CopyFails, Live, FetchType
  <2>2. UploadType' /\ ClientType'
    BY <1>2, <1>7, <1>8, AnswerType DEF CopyFails, UploadSteps
  <2>3. QED BY <1>1, <1>8, <2>1, <2>2 DEF CopyFails
<1>9. CASE peekCoupling(u)
  <2>1. pending[upload[u].job] # None =>
          [upload[u] EXCEPT !.at = "check", !.target = pending[upload[u].job]] \in PostStates
    BY <1>2, <1>4 DEF PostStates, UploadSteps
  <2>2. UploadType' /\ ClientType'
    BY <1>2, <1>9, <2>1, AnswerType, UploadStepType DEF peekCoupling, PostStates
  <2>3. QED BY <1>1, <1>9, <2>2 DEF peekCoupling, FetchType
<1>10. CASE CheckChunk(u)
  <2>1. UploadType' /\ ClientType'
    BY <1>7, <1>10 DEF CheckChunk, UploadSteps
  <2>2. CASE InOrder(u)
    <3>1. PICK f \in Fetcher : f = upload[u].target /\ fetch[f].next = upload[u].index
      BY <2>2 DEF InOrder, Live
    <3>2. fetch[f].next + 1 \in 0..Parts
      BY <1>2, <3>1, BrokerAssumption
    <3>3. [fetch[f] EXCEPT !.started = TRUE, !.next = @ + 1] \in GetStates
      BY <1>3, <3>2 DEF GetStates
    <3>4. SetFetch(f, [fetch[f] EXCEPT !.started = TRUE, !.next = @ + 1])
      BY <1>3, <1>10, <2>2, <3>1 DEF CheckChunk, SetFetch, FetchType
    <3>5. FetchType'
      BY <1>3, <3>3, <3>4, FetchStepType DEF GetStates
    <3>6. QED BY <1>1, <1>10, <2>1, <3>5 DEF CheckChunk
  <2>3. CASE ~InOrder(u)
    BY <1>1, <1>10, <2>1, <2>3 DEF CheckChunk, FetchType
  <2>4. QED BY <2>2, <2>3
<1>11. CASE abortCoupling(u) \/ LastChunk(u)
  <2>1. UploadType' /\ ClientType'
    BY <1>2, <1>11, AnswerType DEF abortCoupling, LastChunk
  <2>2. FetchType'
    BY <1>4, <1>11, WriterType DEF abortCoupling, LastChunk, FetchType
  <2>3. pending' \in [Job -> Fetcher \cup {None}]
    BY <1>11 DEF abortCoupling, LastChunk, takeCoupling
  <2>4. QED BY <1>1, <2>1, <2>2, <2>3
<1>12. QED BY <1>5, <1>6, <1>8, <1>9, <1>10, <1>11 DEF UploadStep

LEMMA WorkerType ==
  ASSUME TypeInv, NEW w \in AudioWorker,
         Poll(w) \/ ConnectionLost(w) \/ \E u \in Upload : Post(w, u)
  PROVE  TypeInv'
<1> USE DEF TypeInv
<1>1. client[w] \in WorkStates /\ channel[w] \in Seq(Task)
  BY DEF ClientType, ChannelType
<1>2. CASE Poll(w)
  <2>1. Head(channel[w]) \in Task /\ Tail(channel[w]) \in Seq(Task)
    BY <1>1, <1>2 DEF Poll
  <2>2. Len(Tail(channel[w])) <= Buffer
    BY <1>1, <1>2, BrokerAssumption DEF Poll, ChannelType
  <2>3. ChannelType'
    BY <1>2, <2>1, <2>2 DEF Poll, ChannelType
  <2>4. /\ [client[w] EXCEPT !.job = Head(channel[w]).job] \in WorkStates
        /\ [client[w] EXCEPT !.job = Head(channel[w]).job].post = client[w].post
    BY <1>1, <2>1 DEF WorkStates, Task
  <2>5. /\ client' \in [AudioWorker -> WorkStates]
        /\ \A v \in AudioWorker : client'[v].post = client[v].post
    <3>1. CASE UNCHANGED client
      BY <3>1 DEF ClientType
    <3>2. CASE client' = [client EXCEPT ![w].job = Head(channel[w]).job]
      BY <2>4, <3>2 DEF ClientType
    <3>3. QED BY <1>2, <3>1, <3>2 DEF Poll
  <2>6. ClientType'
    BY <1>2, <2>5 DEF Poll, ClientType
  <2>7. QED BY <1>2, <2>3, <2>6 DEF Poll, FetchType, UploadType
<1>3. CASE ConnectionLost(w)
  <2>1. PICK u \in Upload : u = client[w].post
    BY <1>1, <1>3 DEF ConnectionLost, WorkStates
  <2>2. /\ upload[u] \in PostStates /\ upload[u].at # "idle"
        /\ upload[u].job \in Job /\ upload[u].by \in AudioWorker
    BY <2>1 DEF UploadType, ClientType
  <2> DEFINE r == [upload[u] EXCEPT !.lost = TRUE]
  <2>3. /\ r \in PostStates /\ r.at # "idle" /\ r.by = upload[u].by
        /\ r.job \in Job /\ r.by \in AudioWorker
    BY <2>2 DEF PostStates
  <2>4. SetUpload(u, r)
    BY <1>3, <2>1 DEF ConnectionLost
  <2> HIDE DEF r
  <2>5. UploadType' /\ \A v \in Upload : upload'[v] = IF v = u THEN r ELSE upload[v]
    BY <2>3, <2>4, UploadStepType DEF SetUpload, UploadType
  <2>6. client' \in [AudioWorker -> WorkStates]
    BY <1>3, IdleTypes DEF ConnectionLost, ClientType
  <2>7. \A v \in AudioWorker, q \in Upload : client'[v].post = q => client[v].post = q
    BY <1>3, BrokerAssumption DEF ConnectionLost, ClientType, NoWork
  <2>8. ClientType'
    BY <2>3, <2>5, <2>6, <2>7 DEF ClientType
  <2>9. QED BY <1>3, <2>5, <2>8 DEF ConnectionLost, ChannelType, FetchType
<1>4. ASSUME NEW u \in Upload, Post(w, u) PROVE TypeInv'
  <2> DEFINE r == [NoUpload EXCEPT !.at = IF mode[w] = "chunk" THEN "peek" ELSE "take",
                     !.job = client[w].job, !.by = w, !.index = client[w].index]
  <2>1. r \in PostStates /\ r.at # "idle" /\ r.job \in Job /\ r.by = w
    BY <1>1, <1>4, IdleTypes DEF Post, PostStates, UploadSteps, WorkStates
  <2>2. SetUpload(u, r)
    BY <1>4 DEF Post
  <2> HIDE DEF r
  <2>3. UploadType' /\ \A v \in Upload : upload'[v] = IF v = u THEN r ELSE upload[v]
    BY <2>1, <2>2, UploadStepType DEF SetUpload, UploadType
  <2>4. [client[w] EXCEPT !.post = u] \in WorkStates /\ [client[w] EXCEPT !.post = u].post = u
    BY <1>1 DEF WorkStates
  <2>5. /\ client' \in [AudioWorker -> WorkStates]
        /\ \A v \in AudioWorker : client'[v] = IF v = w THEN [client[w] EXCEPT !.post = u]
                                                        ELSE client[v]
    BY <1>4, <2>4 DEF Post, ClientType
  <2>6. ClientType'
    BY <1>4, <2>1, <2>3, <2>4, <2>5 DEF Post, ClientType
  <2>7. QED BY <1>4, <2>3, <2>6 DEF Post, ChannelType, FetchType
<1>5. QED BY <1>2, <1>3, <1>4

LEMMA TypeStep == TypeInv /\ [Next]_vars => TypeInv'
<1> SUFFICES ASSUME TypeInv, [Next]_vars PROVE TypeInv'
  OBVIOUS
<1>1. CASE UNCHANGED vars
  BY <1>1 DEF vars, TypeInv, ChannelType, FetchType, UploadType, ClientType
<1>2. ASSUME NEW j \in Job, EnqueueCleanup(j) PROVE TypeInv'
  <2>1. [action |-> "cleanup", job |-> j] \in Task /\ Owner[j] \in AudioWorker
    BY BrokerAssumption DEF Task
  <2>2. ChannelType'
    BY <1>2, <2>1, EnqueueType DEF EnqueueCleanup, TypeInv
  <2>3. QED BY <1>2, <2>2 DEF EnqueueCleanup, TypeInv, FetchType, UploadType, ClientType
<1>3. QED BY <1>1, <1>2, GetType, PostType, WorkerType DEF Next

\* Channels never outgrow their buffer, and every handler carries what its step needs.
THEOREM TypeCorrect == Spec => []TypeOK
<1>1. TypeInv => TypeOK
  BY DEF TypeInv, TypeOK, ChannelType, FetchType, UploadType, ClientType, GetStates, PostStates,
         WorkStates
<1>2. QED BY <1>1, TypeInit, TypeStep, PTL DEF Spec

-----------------------------------------------------------------------------
(* Registered fetches are live.                                            *)

\* A GET that is registered goes on as the one of its job until it is taken out.
LEMMA LiveStep == TypeInv /\ PendingIsLive /\ [Next]_vars => PendingIsLive'
<1> SUFFICES ASSUME TypeInv, PendingIsLive, [Next]_vars PROVE PendingIsLive'
  OBVIOUS
<1>1. ASSUME pending' \in [Job -> Fetcher \cup {None}],
             \A j \in Job : pending'[j] # None => pending'[j] = pending[j],
             \A f \in Fetcher : fetch[f].at \in {"wait", "copy", "unregister"} =>
                /\ fetch'[f].job = fetch[f].job
                /\ fetch'[f].at \in {"wait", "copy", "unregister"}
      PROVE  PendingIsLive'
  BY <1>1, BrokerAssumption DEF PendingIsLive, TypeInv
<1>2. CASE UNCHANGED <<pending, fetch>>
  BY <1>2 DEF PendingIsLive
<1>3. ASSUME NEW u \in Upload, UploadStep(u) PROVE PendingIsLive'
  <2>1. \A f \in Fetcher : fetch'[f].job = fetch[f].job /\ fetch'[f].at = fetch[f].at
    <3>1. fetch \in [Fetcher -> GetStates] /\ \A f \in Fetcher : fetch[f] \in GetStates
      BY DEF TypeInv, FetchType
    <3>2. ASSUME NEW f \in Fetcher, NEW r, fetch' = [fetch EXCEPT ![f] = r],
                 r.job = fetch[f].job, r.at = fetch[f].at
          PROVE  \A g \in Fetcher : fetch'[g].job = fetch[g].job /\ fetch'[g].at = fetch[g].at
      BY <3>1, <3>2
    <3>3. upload[u].at # "idle" /\ upload[u].job \in Job
      <4>1. upload[u].at # "idle"
        BY <1>3 DEF UploadStep, Take, CopyPart, CopyFails, peekCoupling, CheckChunk,
                    abortCoupling, LastChunk
      <4>2. QED BY <4>1 DEF TypeInv, UploadType
    <3>4. CASE UNCHANGED fetch
      BY <3>4
    <3>5. CASE Take(u) /\ ~UNCHANGED fetch
      <4> DEFINE f == pending[upload[u].job]
                 r == [fetch[f] EXCEPT !.started = TRUE]
      <4>1. f \in Fetcher /\ fetch' = [fetch EXCEPT ![f] = r]
        BY <3>3, <3>5 DEF Take, TypeInv
      <4>2. r.job = fetch[f].job /\ r.at = fetch[f].at
        BY <3>1, <4>1 DEF GetStates
      <4> HIDE DEF f, r
      <4>3. QED BY <3>2, <4>1, <4>2
    <3>6. CASE CopyPart(u)
      <4> DEFINE f == upload[u].target
                 q == Append(fetch[f].got, upload[u].index)
                 r == [fetch[f] EXCEPT !.got = q]
                 e == [fetch[f] EXCEPT !.got = q, !.writer = "eof"]
      <4>1. f \in Fetcher /\ (SetFetch(f, r) \/ SetFetch(f, e))
        BY <3>6 DEF CopyPart, Readable, Live
      <4>2. fetch[f] \in GetStates
        BY <3>1, <4>1
      <4>3. /\ r.job = fetch[f].job /\ r.at = fetch[f].at
            /\ e.job = fetch[f].job /\ e.at = fetch[f].at
        BY <4>2 DEF GetStates
      <4> HIDE DEF f, r, e
      <4>4. QED BY <3>2, <4>1, <4>3 DEF SetFetch
    <3>7. CASE CheckChunk(u) /\ ~UNCHANGED fetch
      <4> DEFINE f == upload[u].target
                 r == [fetch[f] EXCEPT !.started = TRUE, !.next = @ + 1]
      <4>1. f \in Fetcher /\ fetch' = [fetch EXCEPT ![f] = r]
        BY <3>7 DEF CheckChunk, InOrder, Live
      <4>2. r.job = fetch[f].job /\ r.at = fetch[f].at
        BY <3>1, <4>1 DEF GetStates
      <4> HIDE DEF f, r
      <4>3. QED BY <3>2, <4>1, <4>2
    <3>8. ASSUME NEW f \in Fetcher, NEW how, fetch' = WriterClosed(f, how)
          PROVE  \A g \in Fetcher : fetch'[g].job = fetch[g].job /\ fetch'[g].at = fetch[g].at
      <4> DEFINE r == [fetch[f] EXCEPT !.writer = IF @ = "open" THEN how ELSE @]
      <4>1. fetch' = [fetch EXCEPT ![f] = r]
        BY <3>8 DEF WriterClosed
      <4>2. r.job = fetch[f].job /\ r.at = fetch[f].at
        BY <3>1 DEF GetStates
      <4> HIDE DEF r
      <4>3. QED BY <3>2, <4>1, <4>2
    <3>9. CASE ~UNCHANGED fetch /\ (CopyFails(u) \/ abortCoupling(u) \/ LastChunk(u))
      <4>1. pending[upload[u].job] # None => pending[upload[u].job] \in Fetcher
        BY <3>3 DEF TypeInv
      <4>2. \E f \in Fetcher, how \in {"eof", "error"} : fetch' = WriterClosed(f, how)
        BY <3>9, <4>1 DEF CopyFails, Live, abortCoupling, LastChunk
      <4>3. QED BY <3>8, <4>2
    <3>10. CASE peekCoupling(u)
      BY <3>4, <3>10 DEF peekCoupling
    <3>11. QED BY <1>3, <3>4, <3>5, <3>6, <3>7, <3>9, <3>10 DEF UploadStep
  <2>2. pending' = pending \/ pending' = takeCoupling(upload[u].job)
    BY <1>3
    DEF UploadStep, Take, CopyPart, CopyFails, peekCoupling, CheckChunk, abortCoupling, LastChunk
  <2>3. QED BY <1>1, <2>1, <2>2 DEF takeCoupling, TypeInv
<1>4. ASSUME NEW f \in Fetcher, FetchStep(f) \/ \E j \in Job : WorkerAudioFetchBroker(f, j)
      PROVE  PendingIsLive'
  <2>1. fetch[f] \in GetStates
    BY DEF TypeInv, FetchType
  <2>2. CASE registerCoupling(f)
    <3> DEFINE j == fetch[f].job
    <3>1. j \in Job /\ ~(fetch[f].at \in {"wait", "copy", "unregister"})
      BY <2>2 DEF registerCoupling, TypeInv, FetchType
    <3>2. CASE pending[j] # None
      BY <1>1, <2>2, <3>1, <3>2 DEF registerCoupling, SetFetch, TypeInv, FetchType
    <3>3. CASE pending[j] = None
      <4>1. \A i \in Job : pending'[i] = IF i = j THEN f ELSE pending[i]
        BY <2>2, <3>1, <3>3 DEF registerCoupling, TypeInv
      <4>2. /\ fetch'[f].at = "wait" /\ fetch'[f].job = j
            /\ \A g \in Fetcher : g # f => fetch'[g] = fetch[g]
        BY <2>1, <2>2, <3>3, NewCouplingType
        DEF registerCoupling, SetFetch, TypeInv, FetchType, GetStates
      <4>3. QED BY <3>1, <4>1, <4>2 DEF PendingIsLive, TypeInv
    <3>4. QED BY <3>2, <3>3
  <2>3. CASE unregisterCoupling(f)
    <3>1. \A g \in Fetcher : g # f => fetch'[g] = fetch[g]
      BY <2>3 DEF unregisterCoupling, SetFetch, TypeInv, FetchType
    <3>2. \A j \in Job : pending'[j] # None => pending'[j] = pending[j] /\ pending[j] # f
      BY <2>3, BrokerAssumption DEF unregisterCoupling, Forget, PendingIsLive, TypeInv, FetchType
    <3>3. QED BY <3>1, <3>2 DEF PendingIsLive, TypeInv
  <2>4. CASE ~registerCoupling(f) /\ ~unregisterCoupling(f)
    <3>1. PICK r : SetFetch(f, r) /\ UNCHANGED pending
                   /\ \/ fetch[f].at = "idle"
                      \/ r.job = fetch[f].job /\ r.at \in {"copy", "unregister"}
      <4>1. CASE \E j \in Job : WorkerAudioFetchBroker(f, j)
        BY <4>1 DEF WorkerAudioFetchBroker
      <4>2. CASE StreamStarts(f)
        BY <2>1, <4>2 DEF StreamStarts, GetStates
      <4>3. ASSUME NEW outcome
            PROVE  /\ Closed(fetch[f], outcome).job = fetch[f].job
                   /\ Closed(fetch[f], outcome).at = "unregister"
        BY <2>1 DEF Closed, GetStates
      <4>4. CASE FirstByteTimeout(f) \/ CopyEnds(f) \/ CopyCutShort(f)
        BY <4>3, <4>4 DEF FirstByteTimeout, CopyEnds, CopyCutShort
      <4>5. QED BY <1>4, <2>4, <4>1, <4>2, <4>4 DEF FetchStep
    <3>2. \A g \in Fetcher : fetch'[g] = IF g = f THEN r ELSE fetch[g]
      BY <3>1 DEF SetFetch, TypeInv, FetchType
    <3>3. QED BY <1>1, <3>1, <3>2 DEF TypeInv
  <2>5. QED BY <2>2, <2>3, <2>4
<1>5. QED
  BY <1>2, <1>3, <1>4 DEF Next, vars, Poll, ConnectionLost, Post, EnqueueCleanup

\* No entry of pendingFetches outlives its GET.
THEOREM PendingLive == Spec => []PendingIsLive
<1>1. Init => PendingIsLive
  BY DEF Init, PendingIsLive
<1>2. QED BY <1>1, TypeInit, TypeStep, LiveStep, PTL DEF Spec

-----------------------------------------------------------------------------
(* Who works on what: Mine, OneByOne and Tracks.                           *)

LEMMA GoFacts ==
  ASSUME UploadType, NEW u \in Upload, NEW at, Go(u, at)
  PROVE  /\ \A v \in Upload : v # u => upload'[v] = upload[v]
         /\ upload'[u].at = at /\ upload'[u].job = upload[u].job /\ upload'[u].by = upload[u].by
         /\ upload'[u].index = upload[u].index /\ upload'[u].target = upload[u].target
BY DEF Go, SetUpload, UploadType, PostStates

LEMMA AnswerFacts ==
  ASSUME TypeInv, NEW u \in Upload, upload[u].at # "idle", NEW ok \in BOOLEAN, Answer(u, ok)
  PROVE  /\ \A v \in Upload : v # u => upload'[v] = upload[v]
         /\ upload'[u] = NoUpload
         /\ \A w \in AudioWorker :
              \/ client'[w] = client[w] /\ client[w].post # u
              \/ /\ w = upload[u].by /\ client[w].post = u
                 /\ client'[w].post = None /\ client'[w].job \in {client[w].job, None}
                 /\ mode[w] = "stream" => client'[w].index = 0
<1> DEFINE b == upload[u].by
           next == [client[b] EXCEPT !.index = @ + 1, !.post = None]
<1>1. b \in AudioWorker /\ client[b] \in WorkStates
  BY DEF TypeInv, UploadType, ClientType
<1>2. \A w \in AudioWorker : client[w].post = u => w = b
  BY DEF TypeInv, ClientType
<1>3. CASE client[b].post # u
  BY <1>2, <1>3 DEF Answer, SetUpload, TypeInv, UploadType
<1>4. CASE client[b].post = u
  <2>1. \A w \in AudioWorker : w # b => client'[w] = client[w]
    BY <1>1, <1>4 DEF Answer, TypeInv, ClientType
  <2>2. \/ client'[b] = NoWork
        \/ client'[b] = next /\ mode[b] = "chunk"
    BY <1>1, <1>4 DEF Answer, TypeInv, ClientType
  <2>3. next.post = None /\ next.job = client[b].job
    BY <1>1 DEF WorkStates
  <2>4. \/ client'[b] = NoWork
        \/ /\ client'[b].post = None /\ client'[b].job = client[b].job
           /\ mode[b] = "chunk"
    BY <2>2, <2>3
  <2>5. QED BY <1>2, <1>4, <2>1, <2>4 DEF Answer, SetUpload, TypeInv, UploadType, NoWork
<1>5. QED BY <1>3, <1>4

\* A POST goes on to a later step of its own mode.
LEMMA GoingOn ==
  ASSUME TypeInv, Threads, NEW u \in Upload, upload[u].at # "idle",
         UNCHANGED <<channel, client, mode>>,
         \A v \in Upload : v # u => upload'[v] = upload[v],
         upload'[u].job = upload[u].job, upload'[u].by = upload[u].by,
         IF mode[upload[u].by] = "stream" THEN upload'[u].at = "copy"
                                          ELSE upload'[u].at \in {"check", "copy", "last", "abort"}
  PROVE  Threads'
<1>1. \A v \in Upload : /\ upload'[v].job = upload[v].job /\ upload'[v].by = upload[v].by
                        /\ upload'[v].at # "idle" => upload[v].at # "idle"
  OBVIOUS
<1>2. Mine' /\ OneByOne'
  BY <1>1 DEF Threads, Mine, OneByOne
<1>3. Tracks'
  BY <1>1 DEF Threads, Tracks
<1>4. QED BY <1>2, <1>3 DEF Threads

LEMMA Answering ==
  ASSUME TypeInv, Threads, NEW u \in Upload, upload[u].at # "idle", NEW ok \in BOOLEAN,
         Answer(u, ok), UNCHANGED <<channel, mode>>
  PROVE  Threads'
<1>1. \A v \in Upload : upload'[v].at # "idle" => v # u /\ upload'[v] = upload[v]
  BY AnswerFacts DEF NoUpload
<1>2. Mine'
  BY <1>1, AnswerFacts DEF Threads, Mine
<1>3. OneByOne'
  <2>1. ASSUME NEW v \in Upload, upload'[v].at # "idle", mode[upload'[v].by] = "chunk"
        PROVE  client'[upload'[v].by].post = v
    <3>1. v # u /\ upload'[v] = upload[v] /\ upload[v].by \in AudioWorker
      BY <1>1, <2>1 DEF TypeInv, UploadType
    <3>2. client[upload[v].by].post = v
      BY <2>1, <3>1 DEF Threads, OneByOne
    <3>3. QED BY <3>1, <3>2, AnswerFacts
  <2>2. \A w \in AudioWorker : mode[w] = "stream" => client'[w].index = 0
    BY AnswerFacts DEF Threads, OneByOne
  <2>3. QED BY <2>1, <2>2 DEF OneByOne
<1>4. Tracks'
  BY <1>1 DEF Threads, Tracks
<1>5. QED BY <1>2, <1>3, <1>4 DEF Threads

LEMMA PostThreads ==
  ASSUME TypeInv, Threads, NEW u \in Upload, UploadStep(u)
  PROVE  Threads'
<1>1. UNCHANGED <<channel, mode>> /\ upload[u].at # "idle" /\ upload[u] \in PostStates
  BY DEF UploadStep, Take, CopyPart, CopyFails, peekCoupling, CheckChunk, abortCoupling, LastChunk,
         TypeInv, UploadType
<1>2. CASE \E ok \in BOOLEAN : Answer(u, ok)
  BY <1>1, <1>2, Answering
<1>3. /\ upload[u].by \in AudioWorker /\ mode[upload[u].by] \in {"stream", "chunk"}
      /\ mode[upload[u].by] = "stream" => upload[u].at \in {"take", "copy"}
      /\ mode[upload[u].by] = "chunk" => upload[u].at \notin {"take"}
  BY <1>1 DEF Threads, Tracks, TypeInv, UploadType
<1>4. ASSUME NEW at, Go(u, at), UNCHANGED client,
             at \in {"check", "copy", "last", "abort"}, mode[upload[u].by] = "chunk"
      PROVE  Threads'
  BY <1>1, <1>4, GoFacts, GoingOn DEF TypeInv
<1>5. CASE Take(u) /\ ~\E ok \in BOOLEAN : Answer(u, ok)
  <2> DEFINE r == [upload[u] EXCEPT !.at = "copy", !.target = pending[upload[u].job]]
  <2>1. r.at = "copy" /\ r.job = upload[u].job /\ r.by = upload[u].by
    BY <1>1 DEF PostStates
  <2>2. upload' = [upload EXCEPT ![u] = r] /\ UNCHANGED client /\ upload[u].at = "take"
    BY <1>5 DEF Take, SetUpload
  <2> HIDE DEF r
  <2>3. upload'[u] = r /\ \A v \in Upload : v # u => upload'[v] = upload[v]
    BY <2>2 DEF TypeInv, UploadType
  <2>4. mode[upload[u].by] = "stream"
    BY <1>3, <2>2
  <2>5. QED BY <1>1, <2>1, <2>2, <2>3, <2>4, GoingOn
<1>6. CASE CopyPart(u) /\ ~\E ok \in BOOLEAN : Answer(u, ok)
  <2>1. CASE mode[upload[u].by] = "chunk"
    BY <1>4, <1>6, <2>1 DEF CopyPart
  <2>2. CASE mode[upload[u].by] = "stream"
    <3> DEFINE r == [upload[u] EXCEPT !.index = @ + 1]
    <3>1. r.at = upload[u].at /\ r.job = upload[u].job /\ r.by = upload[u].by
      BY <1>1 DEF PostStates
    <3>2. upload' = [upload EXCEPT ![u] = r] /\ UNCHANGED client /\ upload[u].at = "copy"
      BY <1>6, <2>2 DEF CopyPart, SetUpload
    <3> HIDE DEF r
    <3>3. upload'[u] = r /\ \A v \in Upload : v # u => upload'[v] = upload[v]
      BY <3>2 DEF TypeInv, UploadType
    <3>4. QED BY <1>1, <2>2, <3>1, <3>2, <3>3, GoingOn
  <2>3. QED BY <1>3, <2>1, <2>2
<1>7. CASE CopyFails(u) /\ ~\E ok \in BOOLEAN : Answer(u, ok)
  BY <1>4, <1>7 DEF CopyFails
<1>8. CASE peekCoupling(u) /\ ~\E ok \in BOOLEAN : Answer(u, ok)
  <2> DEFINE r == [upload[u] EXCEPT !.at = "check", !.target = pending[upload[u].job]]
  <2>1. r.at = "check" /\ r.job = upload[u].job /\ r.by = upload[u].by
    BY <1>1 DEF PostStates
  <2>2. upload' = [upload EXCEPT ![u] = r] /\ UNCHANGED client /\ upload[u].at = "peek"
    BY <1>8 DEF peekCoupling, SetUpload
  <2> HIDE DEF r
  <2>3. upload'[u] = r /\ \A v \in Upload : v # u => upload'[v] = upload[v]
    BY <2>2 DEF TypeInv, UploadType
  <2>4. mode[upload[u].by] # "stream"
    BY <1>3, <2>2
  <2>5. QED BY <1>1, <2>1, <2>2, <2>3, <2>4, GoingOn
<1>9. CASE CheckChunk(u)
  <2>1. mode[upload[u].by] = "chunk"
    BY <1>3, <1>9 DEF CheckChunk
  <2>2. QED BY <1>4, <1>9, <2>1 DEF CheckChunk
<1>10. CASE abortCoupling(u) \/ LastChunk(u)
  BY <1>2, <1>10 DEF abortCoupling, LastChunk
<1>11. QED BY <1>2, <1>5, <1>6, <1>7, <1>8, <1>9, <1>10 DEF UploadStep

\* A task is queued for the worker that has the FLAC.
LEMMA EnqueueMine ==
  ASSUME ChannelType, Mine, NEW w \in AudioWorker, NEW task \in Task, Owner[task.job] = w,
         EnqueueFetch(w, task)
  PROVE  \A v \in AudioWorker : \A i \in DOMAIN channel'[v] : Owner[channel'[v][i].job] = v
<1>1. PICK ch \in Enqueued(channel[w], task) : channel' = [channel EXCEPT ![w] = ch]
  BY DEF EnqueueFetch
<1>2. channel[w] \in Seq(Task) /\ \A i \in DOMAIN channel[w] : Owner[channel[w][i].job] = w
  BY DEF ChannelType, Mine
<1>3. \A i \in DOMAIN ch : Owner[ch[i].job] = w
  <2>1. CASE ch = Append(channel[w], task)
    BY <1>2, <2>1
  <2>2. CASE ch = channel[w]
    BY <1>2, <2>2
  <2>3. CASE ch = Append(Tail(channel[w]), task) /\ ~(Len(channel[w]) < Buffer)
    <3>1. channel[w] # <<>>
      BY <1>2, <2>3, BrokerAssumption
    <3>2. /\ Tail(channel[w]) \in Seq(Task) /\ Len(Tail(channel[w])) = Len(channel[w]) - 1
          /\ \A i \in 1..Len(Tail(channel[w])) : Tail(channel[w])[i] = channel[w][i + 1]
      BY <1>2, <3>1
    <3>3. \A i \in 1..Len(Tail(channel[w])) : Owner[Tail(channel[w])[i].job] = w
      BY <1>2, <3>2
    <3>4. QED BY <2>3, <3>2, <3>3
  <2>4. QED BY <1>1, <2>1, <2>2, <2>3 DEF Enqueued
<1>4. QED BY <1>1, <1>3 DEF Mine, ChannelType

LEMMA OtherThreads ==
  ASSUME TypeInv, Threads, "chunk" \notin Orphans, [Next]_vars, ~\E u \in Upload : UploadStep(u)
  PROVE  Threads'
<1>1. CASE UNCHANGED vars
  BY <1>1 DEF vars, Threads, Mine, OneByOne, Tracks
<1>2. ASSUME \A v \in AudioWorker : \A i \in DOMAIN channel'[v] : Owner[channel'[v][i].job] = v,
             UNCHANGED <<client, mode>>,
             \A u \in Upload :
                \/ upload'[u] = upload[u]
                \/ /\ upload'[u].at = upload[u].at /\ upload'[u].by = upload[u].by
                   /\ upload'[u].job = upload[u].job /\ upload'[u].index = upload[u].index
                   /\ upload[u].target # None
      PROVE  Threads'
  <2>1. \A u \in Upload : /\ upload'[u].at = upload[u].at /\ upload'[u].by = upload[u].by
                          /\ upload'[u].job = upload[u].job /\ upload'[u].index = upload[u].index
                          /\ upload[u].target = None => upload'[u].target = None
    BY <1>2
  <2>2. Mine'
    BY <1>2, <2>1 DEF Threads, Mine
  <2>3. OneByOne'
    BY <1>2, <2>1 DEF Threads, OneByOne
  <2>4. Tracks'
    BY <1>2, <2>1 DEF Threads, Tracks
  <2>5. QED BY <2>2, <2>3, <2>4 DEF Threads
<1>3. \A v \in AudioWorker : \A i \in DOMAIN channel[v] : Owner[channel[v][i].job] = v
  BY DEF Threads, Mine
<1>4. ASSUME NEW f \in Fetcher, FetchStep(f) \/ \E j \in Job : WorkerAudioFetchBroker(f, j)
      PROVE  Threads'
  <2> DEFINE task == [action |-> "fetch", job |-> fetch[f].job]
  <2>1. fetch[f].at # "idle" => /\ task \in Task /\ task.job = fetch[f].job
                                /\ Owner[fetch[f].job] \in AudioWorker
    BY BrokerAssumption DEF Task, TypeInv, FetchType
  <2>2. \/ UNCHANGED channel
        \/ fetch[f].at # "idle" /\ EnqueueFetch(Owner[fetch[f].job], task)
    BY <1>4 DEF FetchStep, WorkerAudioFetchBroker, registerCoupling, StreamStarts, FirstByteTimeout,
                CopyEnds, CopyCutShort, unregisterCoupling
  <2>3. \A v \in AudioWorker : \A i \in DOMAIN channel'[v] : Owner[channel'[v][i].job] = v
    <3> HIDE DEF task
    <3>1. QED BY <1>3, <2>1, <2>2, EnqueueMine DEF TypeInv, Threads
  <2>4. CASE unregisterCoupling(f)
    <3>1. \A u \in Upload :
            \/ upload'[u] = upload[u]
            \/ /\ upload'[u].at = upload[u].at /\ upload'[u].by = upload[u].by
               /\ upload'[u].job = upload[u].job /\ upload'[u].index = upload[u].index
               /\ upload[u].target = f
      BY <2>4 DEF unregisterCoupling, TypeInv, UploadType, PostStates
    <3>2. QED BY <1>2, <2>3, <2>4, <3>1, BrokerAssumption DEF unregisterCoupling
  <2>5. CASE ~unregisterCoupling(f)
    <3>1. UNCHANGED <<upload, client, mode>>
      BY <1>4, <2>5 DEF FetchStep, WorkerAudioFetchBroker, registerCoupling, StreamStarts,
                        FirstByteTimeout, CopyEnds, CopyCutShort
    <3>2. QED BY <1>2, <2>3, <3>1
  <2>6. QED BY <2>4, <2>5
<1>5. ASSUME NEW j \in Job, EnqueueCleanup(j) PROVE Threads'
  <2>1. /\ [action |-> "cleanup", job |-> j] \in Task /\ Owner[j] \in AudioWorker
        /\ [action |-> "cleanup", job |-> j].job = j
    BY BrokerAssumption DEF Task
  <2>2. \A v \in AudioWorker : \A i \in DOMAIN channel'[v] : Owner[channel'[v][i].job] = v
    BY <1>5, <2>1, EnqueueMine DEF EnqueueCleanup, TypeInv, Threads
  <2>3. QED BY <1>2, <1>5, <2>2 DEF EnqueueCleanup
<1>6. ASSUME NEW w \in AudioWorker, Poll(w) PROVE Threads'
  <2>1. channel[w] \in Seq(Task) /\ channel[w] # <<>> /\ client[w] = NoWork
    BY <1>6 DEF Poll, TypeInv, ChannelType
  <2>2. /\ Head(channel[w]) = channel[w][1] /\ 1 \in DOMAIN channel[w]
        /\ DOMAIN Tail(channel[w]) = 1..(Len(channel[w]) - 1)
        /\ \A i \in DOMAIN Tail(channel[w]) :
              Tail(channel[w])[i] = channel[w][i + 1] /\ i + 1 \in DOMAIN channel[w]
    BY <2>1
  <2>3. \A v \in AudioWorker : \A i \in DOMAIN channel'[v] : Owner[channel'[v][i].job] = v
    BY <1>3, <1>6, <2>2 DEF Poll, TypeInv, ChannelType
  <2>4. client[w] \in WorkStates
    BY DEF TypeInv, ClientType
  <2> DEFINE c == [client[w] EXCEPT !.job = Head(channel[w]).job]
  <2>5. c.job = Head(channel[w]).job /\ c.post = client[w].post /\ c.index = client[w].index
    BY <2>4 DEF WorkStates
  <2>6. UNCHANGED client \/ client' = [client EXCEPT ![w] = c]
    BY <1>6 DEF Poll
  <2> HIDE DEF c
  <2>7. \A v \in AudioWorker : /\ client'[v].post = client[v].post
                               /\ client'[v].index = client[v].index
                               /\ \/ client'[v].job = client[v].job
                                  \/ v = w /\ client'[v].job = channel[w][1].job
    BY <2>2, <2>5, <2>6 DEF TypeInv, ClientType
  <2>8. Mine'
    BY <1>3, <1>6, <2>2, <2>3, <2>7 DEF Threads, Mine, Poll
  <2>9. OneByOne' /\ Tracks'
    BY <1>6, <2>7 DEF Threads, OneByOne, Tracks, Poll, TypeInv, UploadType
  <2>10. QED BY <2>8, <2>9 DEF Threads
<1>7. ASSUME NEW w \in AudioWorker, ConnectionLost(w) PROVE Threads'
  <2> DEFINE u == client[w].post
             r == [upload[u] EXCEPT !.lost = TRUE]
  <2>1. u \in Upload /\ upload' = [upload EXCEPT ![u] = r]
    BY <1>7 DEF ConnectionLost, SetUpload, TypeInv, ClientType, WorkStates
  <2>2. /\ upload[u].by = w
        /\ r.at = upload[u].at /\ r.by = upload[u].by /\ r.job = upload[u].job
        /\ r.index = upload[u].index /\ r.target = upload[u].target
    BY <2>1 DEF TypeInv, UploadType, PostStates, ClientType
  <2> HIDE DEF r, u
  <2>3. \A v \in Upload : /\ upload'[v].at = upload[v].at /\ upload'[v].by = upload[v].by
                          /\ upload'[v].job = upload[v].job /\ upload'[v].index = upload[v].index
                          /\ upload'[v].target = upload[v].target
    BY <2>1, <2>2 DEF TypeInv, UploadType
  <2>4. CASE UNCHANGED client
    <3>1. UNCHANGED <<channel, mode>>
      BY <1>7 DEF ConnectionLost
    <3>2. Mine'
      BY <2>3, <2>4, <3>1 DEF Threads, Mine
    <3>3. OneByOne'
      BY <2>3, <2>4, <3>1 DEF Threads, OneByOne
    <3>4. Tracks'
      BY <2>3, <2>4, <3>1 DEF Threads, Tracks
    <3>5. QED BY <3>2, <3>3, <3>4 DEF Threads
  <2>5. CASE mode[w] \in Orphans /\ client' = [client EXCEPT ![w] = NoWork]
    <3>1. mode[w] = "stream" /\ UNCHANGED <<channel, mode>>
      BY <1>7, <2>5 DEF ConnectionLost, TypeInv
    <3>2. \A v \in AudioWorker : client'[v] = IF v = w THEN NoWork ELSE client[v]
      BY <2>5 DEF TypeInv, ClientType
    <3>3. Mine'
      BY <2>3, <3>1, <3>2 DEF Threads, Mine, NoWork
    <3>4. OneByOne'
      <4>1. ASSUME NEW v \in Upload, upload'[v].at # "idle", mode'[upload'[v].by] = "chunk"
            PROVE  client'[upload'[v].by].post = v
        <5>1. /\ upload[v].at # "idle" /\ mode[upload[v].by] = "chunk"
              /\ upload[v].by # w /\ upload[v].by \in AudioWorker
          BY <2>3, <3>1, <4>1 DEF TypeInv, UploadType
        <5>2. QED BY <2>3, <3>2, <5>1 DEF Threads, OneByOne
      <4>2. \A v \in AudioWorker : mode'[v] = "stream" => client'[v].index = 0
        BY <3>1, <3>2 DEF Threads, OneByOne, NoWork
      <4>3. QED BY <4>1, <4>2 DEF OneByOne
    <3>5. Tracks'
      BY <2>3, <3>1 DEF Threads, Tracks
    <3>6. QED BY <3>3, <3>4, <3>5 DEF Threads
  <2>6. QED BY <1>7, <2>4, <2>5 DEF ConnectionLost
<1>8. ASSUME NEW w \in AudioWorker, NEW u \in Upload, Post(w, u) PROVE Threads'
  <2> DEFINE c == [client[w] EXCEPT !.post = u]
             r == [NoUpload EXCEPT !.at = IF mode[w] = "chunk" THEN "peek" ELSE "take",
                     !.job = client[w].job, !.by = w, !.index = client[w].index]
  <2>1. /\ r.at = IF mode[w] = "chunk" THEN "peek" ELSE "take"
        /\ r.job = client[w].job /\ r.by = w /\ r.index = client[w].index /\ r.target = None
        /\ c.post = u /\ c.job = client[w].job /\ c.index = client[w].index
    BY DEF NoUpload, TypeInv, ClientType, WorkStates
  <2>2. /\ upload' = [upload EXCEPT ![u] = r] /\ client' = [client EXCEPT ![w] = c]
        /\ UNCHANGED <<channel, mode>> /\ client[w].job # None /\ client[w].post = None
        /\ upload[u].at = "idle"
    BY <1>8 DEF Post, SetUpload
  <2> HIDE DEF c, r
  <2>3. /\ \A v \in Upload : upload'[v] = IF v = u THEN r ELSE upload[v]
        /\ \A v \in AudioWorker : client'[v] = IF v = w THEN c ELSE client[v]
    BY <2>2 DEF TypeInv, UploadType, ClientType
  <2>4. Mine'
    BY <2>1, <2>2, <2>3 DEF Threads, Mine
  <2>5. OneByOne'
    BY <2>1, <2>2, <2>3, BrokerAssumption DEF Threads, OneByOne
  <2>6. Tracks'
    BY <2>1, <2>2, <2>3 DEF Threads, Tracks, OneByOne, TypeInv
  <2>7. QED BY <2>4, <2>5, <2>6 DEF Threads
<1>9. QED BY <1>1, <1>4, <1>5, <1>6, <1>7, <1>8 DEF Next

LEMMA ThreadsStep ==
  ASSUME TypeInv, Threads, "chunk" \notin Orphans, [Next]_vars
  PROVE  Threads'
BY PostThreads, OtherThreads

-----------------------------------------------------------------------------
(* What a GET gets, and from whom.                                         *)

LEMMA PostFacts ==
  ASSUME TypeInv, Threads, NEW u \in Upload, upload[u].at # "idle"
  PROVE  /\ upload[u] \in PostStates /\ upload[u].job \in Job
         /\ Chunked(upload[u].job) <=> mode[upload[u].by] = "chunk"
         /\ ~Chunked(upload[u].job) <=> mode[upload[u].by] = "stream"
BY BrokerAssumption DEF TypeInv, UploadType, Threads, Mine, Chunked

LEMMA AimerWorks ==
  ASSUME TypeInv, NEW u \in Upload, NEW f \in Fetcher, Aims(u, f)
  PROVE  upload[u].at # "idle"
BY BrokerAssumption DEF TypeInv, UploadType, Aims, NoUpload

\* The chunks of a job come one at a time.
LEMMA SameThread ==
  ASSUME TypeInv, Threads, NEW u \in Upload, NEW v \in Upload,
         upload[u].at # "idle", upload[v].at # "idle",
         upload[u].job = upload[v].job, Chunked(upload[u].job)
  PROVE  u = v
BY DEF Threads, Mine, OneByOne, Chunked

\* Steps that leave the couplings alone.
LEMMA NothingAimed ==
  ASSUME TypeInv, Transfers, UNCHANGED <<fetch, pending, mode>>,
         \A u \in Upload :
            \/ /\ upload'[u].at = upload[u].at /\ upload'[u].job = upload[u].job
               /\ upload'[u].index = upload[u].index /\ upload'[u].target = upload[u].target
            \/ upload'[u].target \notin Fetcher /\ upload[u].target \notin Fetcher
  PROVE  Transfers'
<1>1. \A u \in Upload, f \in Fetcher : Aims(u, f)' <=> Aims(u, f)
  BY DEF Aims
<1>2. PendingIsLive' /\ Outcomes'
  BY DEF Transfers, PendingIsLive, Outcomes, Got
<1>3. Aimed'
  BY <1>1 DEF Transfers, Aimed, Got, Aims, Chunked
<1>4. Alone'
  BY <1>1 DEF Transfers, Alone
<1>5. Registered'
  <2>1. ASSUME NEW j \in Job, pending[j] # None
        PROVE  LET f == pending[j] IN
               IF Chunked(j)
                 THEN (\A u \in Upload : upload'[u].target # f) => fetch[f].next = Len(Got(f))
                 ELSE Got(f) = <<>> /\ \A u \in Upload : upload'[u].target # f
    <3>1. \A u \in Upload : upload[u].target = pending[j] \/ upload'[u].target = pending[j]
                            => upload'[u].target = upload[u].target
      BY <2>1 DEF TypeInv
    <3>2. QED BY <2>1, <3>1 DEF Transfers, Registered, Aims
  <2>2. QED BY <2>1 DEF Registered, Got, Aims, Chunked
<1>6. QED BY <1>2, <1>3, <1>4, <1>5 DEF Transfers

\* Steps of a GET that neither begin nor end an attempt.
LEMMA GetGoesOn ==
  ASSUME TypeInv, Transfers, NEW f \in Fetcher, NEW r, SetFetch(f, r),
         UNCHANGED <<pending, upload, mode>>,
         fetch[f].at \in {"wait", "copy"}, r.at \in {"copy", "unregister"},
         r.job = fetch[f].job, r.got = fetch[f].got, r.next = fetch[f].next,
         r.at # "unregister" => r.outcome = "none",
         r.outcome = "offline" => r.got = <<>>,
         r.outcome = "ok" => r.writer = "eof",
         r.writer = "eof" => fetch[f].writer = "eof"
  PROVE  Transfers'
<1>1. \A g \in Fetcher : fetch'[g] = IF g = f THEN r ELSE fetch[g]
  BY DEF SetFetch, TypeInv, FetchType
<1>2. \A g \in Fetcher : /\ fetch'[g].job = fetch[g].job /\ fetch'[g].got = fetch[g].got
                         /\ fetch'[g].next = fetch[g].next
                         /\ fetch[g].at \in {"wait", "copy", "unregister"}
                              => fetch'[g].at \in {"wait", "copy", "unregister"}
  BY <1>1
<1>3. PendingIsLive'
  BY <1>2 DEF Transfers, PendingIsLive, TypeInv
<1>4. Outcomes'
  BY <1>1 DEF Transfers, Outcomes, Got
<1>5. Aimed' /\ Alone'
  BY <1>2 DEF Transfers, Aimed, Alone, Aims, Got, Chunked
<1>6. Registered'
  BY <1>2 DEF Transfers, Registered, Aims, Got, Chunked, TypeInv
<1>7. QED BY <1>3, <1>4, <1>5, <1>6 DEF Transfers

LEMMA NoFetchFacts ==
  /\ NoFetch.at = "idle" /\ NoFetch.outcome = "none" /\ NoFetch.got = <<>>
  /\ NoFetch.writer = "open"
BY DEF NoFetch

LEMMA GetTransfers ==
  ASSUME TypeInv, Transfers, NEW f \in Fetcher,
         FetchStep(f) \/ \E j \in Job : WorkerAudioFetchBroker(f, j)
  PROVE  Transfers'
<1>1. fetch[f] \in GetStates
  BY DEF TypeInv, FetchType
<1>2. CASE StreamStarts(f)
  BY <1>1, <1>2, GetGoesOn DEF StreamStarts, GetStates, Transfers, Outcomes
<1>3. ASSUME NEW outcome
      PROVE  /\ Closed(fetch[f], outcome).at = "unregister"
             /\ Closed(fetch[f], outcome).outcome = outcome
             /\ Closed(fetch[f], outcome).job = fetch[f].job
             /\ Closed(fetch[f], outcome).got = fetch[f].got
             /\ Closed(fetch[f], outcome).next = fetch[f].next
             /\ Closed(fetch[f], outcome).writer = IF fetch[f].writer = "open" THEN "error"
                                                   ELSE fetch[f].writer
  BY <1>1 DEF Closed, GetStates
<1>4. CASE FirstByteTimeout(f)
  BY <1>3, <1>4, GetGoesOn DEF FirstByteTimeout, Transfers, Outcomes, Got
<1>5. CASE CopyEnds(f) \/ CopyCutShort(f)
  BY <1>3, <1>5, GetGoesOn DEF CopyEnds, CopyCutShort
<1>6. ASSUME NEW j \in Job, WorkerAudioFetchBroker(f, j) PROVE Transfers'
  <2> DEFINE r == [NoFetch EXCEPT !.at = "register", !.job = j]
  <2>1. /\ r.at = "register" /\ r.job = j /\ r.got = <<>> /\ r.outcome = "none"
        /\ r.writer = "open" /\ r.next = 0
    BY DEF NoFetch
  <2>2. fetch[f].at = "idle" /\ SetFetch(f, r) /\ UNCHANGED <<pending, upload, mode>>
    BY <1>6 DEF WorkerAudioFetchBroker
  <2> HIDE DEF r
  <2>3. \A g \in Fetcher : fetch'[g] = IF g = f THEN r ELSE fetch[g]
    BY <2>2 DEF SetFetch, TypeInv, FetchType
  <2>4. PendingIsLive'
    BY <2>2, <2>3 DEF Transfers, PendingIsLive, TypeInv
  <2>5. Outcomes'
    BY <2>1, <2>3 DEF Transfers, Outcomes, Got
  <2>6. Aimed' /\ Alone'
    BY <2>2, <2>3 DEF Transfers, Aimed, Alone, Aims, Got, Chunked
  <2>7. Registered'
    BY <2>2, <2>3 DEF Transfers, Registered, PendingIsLive, Aims, Got, Chunked, TypeInv
  <2>8. QED BY <2>4, <2>5, <2>6, <2>7 DEF Transfers
<1>7. CASE registerCoupling(f)
  <2> DEFINE j == fetch[f].job
             r == [NewCoupling(fetch[f]) EXCEPT !.at = "wait"]
  <2>1. /\ j \in Job /\ fetch[f].at = "register" /\ UNCHANGED <<upload, mode>>
        /\ fetch[f].got = <<>> /\ fetch[f].outcome = "none"
        /\ \A u \in Upload : ~Aims(u, f)
        /\ \A i \in Job : pending[i] # f
    BY <1>7, BrokerAssumption
    DEF registerCoupling, Transfers, Outcomes, Got, Aimed, PendingIsLive, TypeInv, FetchType
  <2>2. CASE pending[j] # None
    <3>1. SetFetch(f, NoFetch) /\ UNCHANGED pending
      BY <1>7, <2>2 DEF registerCoupling
    <3>2. \A g \in Fetcher : fetch'[g] = IF g = f THEN NoFetch ELSE fetch[g]
      BY <3>1 DEF SetFetch, TypeInv, FetchType
    <3>3. PendingIsLive'
      BY <2>1, <3>1, <3>2 DEF Transfers, PendingIsLive, TypeInv
    <3>4. Outcomes'
      BY <3>2, NoFetchFacts DEF Transfers, Outcomes, Got
    <3>5. Aimed' /\ Alone'
      BY <2>1, <3>1, <3>2 DEF Transfers, Aimed, Alone, Aims, Got, Chunked
    <3>6. Registered'
      BY <2>1, <3>1, <3>2 DEF Transfers, Registered, Aims, Got, Chunked, TypeInv
    <3>7. QED BY <3>3, <3>4, <3>5, <3>6 DEF Transfers
  <2>3. CASE pending[j] = None
    <3>1. /\ r.at = "wait" /\ r.job = j /\ r.got = <<>> /\ r.outcome = "none" /\ r.next = 0
          /\ r.writer = "open"
      BY <1>1, <2>1, NewCouplingType DEF GetStates
    <3>2. SetFetch(f, r) /\ pending' = [pending EXCEPT ![j] = f]
      BY <1>7, <2>3 DEF registerCoupling
    <3> HIDE DEF r
    <3>3. /\ \A g \in Fetcher : fetch'[g] = IF g = f THEN r ELSE fetch[g]
          /\ \A i \in Job : pending'[i] = IF i = j THEN f ELSE pending[i]
      BY <3>2 DEF SetFetch, TypeInv, FetchType
    <3> HIDE DEF j
    <3>4. PendingIsLive'
      BY <2>1, <3>1, <3>3 DEF Transfers, PendingIsLive, TypeInv
    <3>5. Outcomes'
      BY <3>1, <3>3 DEF Transfers, Outcomes, Got
    <3>6. Alone'
      BY <2>1 DEF Transfers, Alone, Aims
    <3>7. Aimed'
      <4>1. ASSUME NEW u \in Upload, NEW g \in Fetcher, Aims(u, g)
            PROVE  g # f /\ fetch'[g] = fetch[g] /\ fetch[g].job \in Job
                   /\ (Chunked(fetch[g].job) => pending'[fetch[g].job] = g)
        BY <2>1, <2>3, <3>3, <4>1, BrokerAssumption DEF Transfers, Aimed, TypeInv, FetchType
      <4>2. ASSUME NEW u \in Upload, NEW g \in Fetcher, Aims(u, g)
            PROVE  /\ fetch[g].at \in {"wait", "copy", "unregister"}
                   /\ fetch[g].job = upload[u].job
                   /\ upload[u].at = "copy" => upload[u].index = Len(Got(g))
                   /\ upload[u].at = "last" => Len(Got(g)) = Parts
                   /\ Chunked(fetch[g].job) =>
                        /\ upload[u].at = "check" => fetch[g].next = Len(Got(g))
                        /\ upload[u].at = "copy" => fetch[g].next = Len(Got(g)) + 1
        BY <4>2 DEF Transfers, Aimed
      <4>3. QED BY <2>1, <4>1, <4>2 DEF Aimed, Aims, Got, Chunked
    <3>8. Registered'
      <4>1. ASSUME NEW i \in Job, pending'[i] # None, pending'[i] # f
            PROVE  pending'[i] = pending[i] /\ fetch'[pending[i]] = fetch[pending[i]]
        BY <3>3, <4>1 DEF TypeInv
      <4>2. fetch'[f].next = 0 /\ fetch'[f].got = <<>>
        BY <3>1, <3>3
      <4>3. QED BY <2>1, <4>1, <4>2 DEF Transfers, Registered, Aims, Got, Chunked
    <3>9. QED BY <3>4, <3>5, <3>6, <3>7, <3>8 DEF Transfers
  <2>4. QED BY <2>2, <2>3
<1>8. CASE unregisterCoupling(f)
  <2> DEFINE r == IF Retries(fetch[f])
                    THEN [NewCoupling(fetch[f]) EXCEPT !.at = "register", !.outcome = "none",
                                                       !.attempt = @ + 1]
                    ELSE NoFetch
  <2>1. SetFetch(f, r) /\ pending' = Forget(f) /\ UNCHANGED mode /\ fetch[f].at = "unregister"
    BY <1>8 DEF unregisterCoupling
  <2>2. \/ r = NoFetch
        \/ r.at = "register" /\ r.outcome = "none" /\ r.writer = "open" /\ r.got = <<>>
    <3>1. Retries(fetch[f]) => fetch[f].got = <<>>
      BY DEF Retries, Transfers, Outcomes, Got
    <3>2. QED BY <1>1, <3>1, NewCouplingType DEF GetStates
  <2> HIDE DEF r
  <2>3. /\ \A g \in Fetcher : fetch'[g] = IF g = f THEN r ELSE fetch[g]
        /\ \A i \in Job : pending'[i] = IF pending[i] = f THEN None ELSE pending[i]
    <3>1. \A i \in Job : pending[i] = f => i = fetch[f].job
      BY BrokerAssumption DEF Transfers, PendingIsLive
    <3>2. QED BY <2>1, <3>1 DEF SetFetch, Forget, TypeInv, FetchType
  <2>4. \A u \in Upload :
          IF upload[u].target = f
            THEN upload'[u].target = Stale
            ELSE upload'[u] = upload[u]
    BY <1>8 DEF unregisterCoupling, TypeInv, UploadType, PostStates
  <2>5. \A u \in Upload, g \in Fetcher : Aims(u, g)' <=> Aims(u, g) /\ g # f
    BY <2>4, BrokerAssumption DEF Aims
  <2>6. PendingIsLive'
    BY <2>3 DEF Transfers, PendingIsLive, TypeInv
  <2>7. Outcomes'
    BY <2>2, <2>3, NoFetchFacts DEF Transfers, Outcomes, Got
  <2>8. Alone'
    BY <2>5 DEF Transfers, Alone
  <2>9. Aimed'
    <3>1. ASSUME NEW u \in Upload, NEW g \in Fetcher, Aims(u, g)'
          PROVE  /\ Aims(u, g) /\ fetch'[g] = fetch[g] /\ upload'[u] = upload[u]
                 /\ fetch[g].job \in Job
                 /\ pending[fetch[g].job] = g => pending'[fetch[g].job] = g
      BY <2>3, <2>4, <2>5, <3>1 DEF Aims, Transfers, Aimed, TypeInv, FetchType
    <3>2. QED BY <2>1, <3>1 DEF Transfers, Aimed, Got, Chunked
  <2>10. Registered'
    <3>1. ASSUME NEW i \in Job, pending'[i] # None
          PROVE  LET g == pending[i] IN
                 /\ pending'[i] = g /\ fetch'[g] = fetch[g]
                 /\ \A u \in Upload : upload'[u].target = g <=> upload[u].target = g
      BY <2>3, <2>4, <3>1, BrokerAssumption DEF TypeInv
    <3>2. QED BY <2>1, <3>1 DEF Transfers, Registered, Aims, Got, Chunked
  <2>11. QED BY <2>6, <2>7, <2>8, <2>9, <2>10 DEF Transfers
<1>9. QED BY <1>2, <1>4, <1>5, <1>6, <1>7, <1>8 DEF FetchStep

\* A step that at most ends a transfer: what each GET has got stays.
Untouched == \A g \in Fetcher :
    /\ fetch'[g].at = fetch[g].at /\ fetch'[g].job = fetch[g].job
    /\ fetch'[g].outcome = fetch[g].outcome
    /\ fetch'[g].got = fetch[g].got /\ fetch'[g].next = fetch[g].next
    /\ fetch[g].at = "idle" => fetch'[g] = fetch[g]
    /\ \/ fetch'[g].writer = fetch[g].writer
       \/ fetch[g].writer = "open" /\ (fetch'[g].writer = "eof" => Len(Got(g)) = Parts)

LEMMA WriterFacts ==
  ASSUME TypeInv, NEW f \in Fetcher, NEW how, fetch' = WriterClosed(f, how),
         fetch[f].at # "idle", how = "eof" => Len(Got(f)) = Parts
  PROVE  Untouched
<1> DEFINE r == [fetch[f] EXCEPT !.writer = IF @ = "open" THEN how ELSE @]
<1>1. fetch' = [fetch EXCEPT ![f] = r]
  BY DEF WriterClosed
<1>2. /\ r.at = fetch[f].at /\ r.job = fetch[f].job /\ r.outcome = fetch[f].outcome
      /\ r.got = fetch[f].got /\ r.next = fetch[f].next
      /\ r.writer = IF fetch[f].writer = "open" THEN how ELSE fetch[f].writer
  BY DEF TypeInv, FetchType, GetStates
<1> HIDE DEF r
<1>3. \A g \in Fetcher : fetch'[g] = IF g = f THEN r ELSE fetch[g]
  BY <1>1 DEF TypeInv, FetchType
<1>4. QED BY <1>2, <1>3 DEF Untouched, Got

LEMMA UntouchedOutcomes == Untouched /\ Outcomes => Outcomes'
<1> SUFFICES ASSUME Untouched, Outcomes PROVE Outcomes'
  OBVIOUS
<1> SUFFICES ASSUME NEW f \in Fetcher
             PROVE  /\ fetch'[f].at = "idle" => fetch'[f] = NoFetch
                    /\ fetch'[f].at \in {"register", "wait"} => fetch'[f].got = <<>>
                    /\ fetch'[f].at # "unregister" => fetch'[f].outcome = "none"
                    /\ fetch'[f].outcome = "offline" => fetch'[f].got = <<>>
                    /\ fetch'[f].outcome = "ok" => fetch'[f].writer = "eof"
                    /\ fetch'[f].writer = "eof" => Len(fetch'[f].got) = Parts
  BY DEF Outcomes, Got
<1>1. QED BY DEF Untouched, Outcomes, Got

\* A POST that loses its coupling, or a last or a failed chunk that ends the job's.
LEMMA PostLeaves ==
  ASSUME TypeInv, Threads, Transfers, PendingIsLive', Untouched, UNCHANGED mode,
         NEW u \in Upload, upload[u].at # "idle", upload'[u] = NoUpload,
         \A v \in Upload : v # u => upload'[v] = upload[v],
         IF Chunked(upload[u].job) THEN pending' = takeCoupling(upload[u].job)
                                   ELSE UNCHANGED pending
  PROVE  Transfers'
<1> DEFINE j == upload[u].job
<1>1. j \in Job
  BY PostFacts
<1>2. Outcomes'
  BY UntouchedOutcomes DEF Transfers
<1>3. \A v \in Upload, f \in Fetcher :
        upload'[v].target = f <=> upload[v].target = f /\ v # u
  BY BrokerAssumption DEF NoUpload
<1>4. Alone'
  BY <1>3 DEF Transfers, Alone, Aims
<1>5. \A i \in Job : \/ pending'[i] = pending[i]
                     \/ i = j /\ Chunked(j) /\ pending'[i] = None
  BY <1>1 DEF takeCoupling, TypeInv
<1>6. Aimed'
  <2>1. ASSUME NEW v \in Upload, NEW f \in Fetcher, Aims(v, f), v # u, Chunked(fetch[f].job)
        PROVE  pending'[fetch[f].job] = f
    <3>1. fetch[f].job = upload[v].job /\ pending[fetch[f].job] = f /\ upload[v].at # "idle"
      BY <2>1, AimerWorks DEF Transfers, Aimed
    <3>2. fetch[f].job # j
      BY <2>1, <3>1, SameThread
    <3>3. fetch[f].job \in Job
      BY <3>1 DEF TypeInv, UploadType
    <3>4. QED BY <1>5, <3>1, <3>2, <3>3
  <2>2. ASSUME NEW v \in Upload, NEW f \in Fetcher, upload'[v].target = f
        PROVE  /\ v # u /\ Aims(v, f) /\ upload'[v] = upload[v]
               /\ fetch'[f].at = fetch[f].at /\ fetch'[f].job = fetch[f].job
               /\ fetch'[f].got = fetch[f].got /\ fetch'[f].next = fetch[f].next
    BY <1>3, <2>2 DEF Untouched, Aims
  <2>3. ASSUME NEW v \in Upload, NEW f \in Fetcher, upload'[v].target = f
        PROVE  /\ fetch'[f].at \in {"wait", "copy", "unregister"}
               /\ fetch'[f].job = upload'[v].job
               /\ upload'[v].at = "copy" => upload'[v].index = Len(fetch'[f].got)
               /\ upload'[v].at = "last" => Len(fetch'[f].got) = Parts
               /\ Chunked(fetch'[f].job) =>
                    /\ pending'[fetch'[f].job] = f
                    /\ upload'[v].at = "check" => fetch'[f].next = Len(fetch'[f].got)
                    /\ upload'[v].at = "copy" => fetch'[f].next = Len(fetch'[f].got) + 1
    <3>1. /\ fetch[f].at \in {"wait", "copy", "unregister"}
          /\ fetch[f].job = upload[v].job
          /\ upload[v].at = "copy" => upload[v].index = Len(fetch[f].got)
          /\ upload[v].at = "last" => Len(fetch[f].got) = Parts
          /\ Chunked(fetch[f].job) =>
               /\ upload[v].at = "check" => fetch[f].next = Len(fetch[f].got)
               /\ upload[v].at = "copy" => fetch[f].next = Len(fetch[f].got) + 1
      BY <2>2, <2>3 DEF Transfers, Aimed, Got
    <3>2. Chunked(fetch[f].job) => pending'[fetch[f].job] = f
      BY <2>1, <2>2, <2>3
    <3>3. QED BY <2>2, <2>3, <3>1, <3>2
  <2>4. QED BY <2>3 DEF Aimed, Aims, Got, Chunked
<1>7. Registered'
  <2>1. ASSUME NEW i \in Job, pending'[i] # None
        PROVE  LET f == pending[i] IN
               /\ pending'[i] = f /\ f \in Fetcher
               /\ fetch'[f].got = fetch[f].got /\ fetch'[f].next = fetch[f].next
               /\ upload[u].target # f
    <3>1. pending'[i] = pending[i] /\ pending[i] \in Fetcher
      BY <1>5, <2>1 DEF TypeInv
    <3>2. upload[u].target # pending[i]
      <4>1. SUFFICES ASSUME upload[u].target = pending[i] PROVE FALSE
        OBVIOUS
      <4>2. i = j
        BY <2>1, <3>1, <4>1 DEF Transfers, Aimed, Aims, PendingIsLive
      <4>3. ~Chunked(j)
        BY <1>1, <2>1, <4>2 DEF takeCoupling, TypeInv
      <4>4. QED BY <2>1, <3>1, <4>1, <4>2, <4>3 DEF Transfers, Registered, Aims
    <3>3. QED BY <3>1, <3>2 DEF Untouched
  <2>2. ASSUME NEW i \in Job, pending'[i] # None
        PROVE  LET f == pending'[i] IN
               IF Chunked(i)
                 THEN (\A v \in Upload : upload'[v].target # f)
                        => fetch'[f].next = Len(fetch'[f].got)
                 ELSE fetch'[f].got = <<>> /\ \A v \in Upload : upload'[v].target # f
    BY <1>3, <2>1, <2>2 DEF Transfers, Registered, Aims, Got
  <2>3. QED BY <2>2 DEF Registered, Aims, Got, Chunked
<1>8. QED BY <1>2, <1>4, <1>6, <1>7 DEF Transfers

LEMMA TakeTransfers ==
  ASSUME TypeInv, Threads, Transfers, PendingIsLive', NEW u \in Upload, Take(u),
         pending[upload[u].job] # None
  PROVE  Transfers'
<1> DEFINE j == upload[u].job
           f == pending[j]
           r == [fetch[f] EXCEPT !.started = TRUE]
           q == [upload[u] EXCEPT !.at = "copy", !.target = f]
<1>1. /\ upload[u].at = "take" /\ j \in Job /\ upload[u] \in PostStates
      /\ f \in Fetcher /\ fetch[f] \in GetStates
  BY DEF Take, TypeInv, UploadType, FetchType
<1>2. /\ fetch' = [fetch EXCEPT ![f] = r] /\ upload' = [upload EXCEPT ![u] = q]
      /\ pending' = takeCoupling(j) /\ UNCHANGED mode
  BY DEF Take, SetUpload
<1>3. /\ r.at = fetch[f].at /\ r.job = fetch[f].job /\ r.outcome = fetch[f].outcome
      /\ r.got = fetch[f].got /\ r.next = fetch[f].next /\ r.writer = fetch[f].writer
      /\ q.at = "copy" /\ q.job = j /\ q.target = f /\ q.index = upload[u].index
  BY <1>1 DEF GetStates, PostStates
<1>4. /\ ~Chunked(j) /\ upload[u].index = 0
      /\ Got(f) = <<>> /\ \A v \in Upload : ~Aims(v, f)
      /\ fetch[f].job = j /\ fetch[f].at \in {"wait", "copy", "unregister"}
  BY <1>1, PostFacts DEF Threads, Tracks, Transfers, Registered, PendingIsLive
<1> HIDE DEF r, q, f, j
<1>5. /\ \A g \in Fetcher : fetch'[g] = IF g = f THEN r ELSE fetch[g]
      /\ \A v \in Upload : upload'[v] = IF v = u THEN q ELSE upload[v]
      /\ \A i \in Job : pending'[i] = IF i = j THEN None ELSE pending[i]
  BY <1>2 DEF takeCoupling, TypeInv, FetchType, UploadType
<1>6. Outcomes'
  <2>1. fetch[f].at # "idle"
    BY <1>4
  <2>2. Untouched
    BY <1>3, <1>5, <2>1 DEF Untouched
  <2>3. QED BY <2>2, UntouchedOutcomes DEF Transfers
<1>7. Alone'
  <2>1. ASSUME NEW v \in Upload, NEW g \in Fetcher, upload'[v].target = g
        PROVE  \/ v = u /\ g = f
               \/ Aims(v, g) /\ g # f /\ v # u
    BY <1>3, <1>4, <1>5, <2>1 DEF Aims
  <2>2. ASSUME NEW v \in Upload, NEW w \in Upload, NEW g \in Fetcher,
               upload'[v].target = g, upload'[w].target = g
        PROVE  v = w
    BY <2>1, <2>2 DEF Transfers, Alone
  <2>3. QED BY <2>2 DEF Alone, Aims
<1>8. Aimed'
  <2>1. ASSUME NEW v \in Upload, NEW g \in Fetcher, upload'[v].target = g
        PROVE  /\ fetch'[g].at \in {"wait", "copy", "unregister"}
               /\ fetch'[g].job = upload'[v].job
               /\ upload'[v].at = "copy" => upload'[v].index = Len(fetch'[g].got)
               /\ upload'[v].at = "last" => Len(fetch'[g].got) = Parts
               /\ Chunked(fetch'[g].job) =>
                    /\ pending'[fetch'[g].job] = g
                    /\ upload'[v].at = "check" => fetch'[g].next = Len(fetch'[g].got)
                    /\ upload'[v].at = "copy" => fetch'[g].next = Len(fetch'[g].got) + 1
    <3>1. CASE v = u
      BY <1>3, <1>4, <1>5, <2>1, <3>1 DEF Got
    <3>2. CASE v # u
      <4>1. Aims(v, g) /\ fetch'[g] = fetch[g] /\ upload'[v] = upload[v]
        BY <1>4, <1>5, <2>1, <3>2 DEF Aims
      <4>2. fetch[g].job \in Job
        BY <4>1 DEF Transfers, Aimed, TypeInv, FetchType
      <4>3. Chunked(fetch[g].job) => pending'[fetch[g].job] = pending[fetch[g].job]
        BY <1>4, <1>5, <4>2
      <4>4. QED BY <4>1, <4>3 DEF Transfers, Aimed, Got
    <3>3. QED BY <3>1, <3>2
  <2>2. QED BY <1>2, <2>1 DEF Aimed, Aims, Got, Chunked
<1>9. Registered'
  <2>1. ASSUME NEW i \in Job, pending'[i] # None
        PROVE  LET g == pending[i] IN
               /\ pending'[i] = g /\ g # f /\ fetch'[g] = fetch[g]
               /\ \A v \in Upload : upload'[v].target = g <=> Aims(v, g)
    <3>1. pending'[i] = pending[i] /\ i # j /\ pending[i] \in Fetcher
      BY <1>5, <2>1 DEF TypeInv
    <3>2. pending[i] # f
      BY <1>4, <2>1, <3>1 DEF Transfers, PendingIsLive
    <3>3. upload[u].target \notin Fetcher
      BY <1>1, BrokerAssumption DEF Threads, Tracks
    <3>4. QED BY <1>3, <1>5, <3>1, <3>2, <3>3 DEF Aims
  <2>2. QED BY <1>2, <2>1 DEF Transfers, Registered, Aims, Got, Chunked
<1>10. QED BY <1>6, <1>7, <1>8, <1>9 DEF Transfers

\* A POST and the one GET that it feeds go on together.
LEMMA PairGoesOn ==
  ASSUME TypeInv, Transfers, PendingIsLive', UNCHANGED <<pending, mode>>,
         NEW u \in Upload, NEW f \in Fetcher,
         \A g \in Fetcher : g # f => fetch'[g] = fetch[g],
         \A v \in Upload : v # u => upload'[v] = upload[v],
         upload[u].target \in {f, None}, \A v \in Upload : Aims(v, f) => v = u,
         fetch[f].at \in {"wait", "copy", "unregister"},
         fetch'[f].at = fetch[f].at, fetch'[f].job = fetch[f].job,
         fetch'[f].outcome = fetch[f].outcome,
         fetch'[f].at = "copy" \/ fetch'[f].got = fetch[f].got,
         fetch'[f].writer = "eof" => Len(fetch'[f].got) = Parts,
         fetch'[f].writer = fetch[f].writer \/ fetch[f].writer = "open",
         Chunked(fetch'[f].job) => pending[fetch'[f].job] = f,
         ~Chunked(fetch'[f].job) => pending[fetch'[f].job] # f,
         \/ /\ upload'[u].target = f /\ upload'[u].job = fetch'[f].job
            /\ upload'[u].at = "copy" => upload'[u].index = Len(fetch'[f].got)
            /\ upload'[u].at = "last" => Len(fetch'[f].got) = Parts
            /\ Chunked(fetch'[f].job) =>
                 /\ upload'[u].at = "check" => fetch'[f].next = Len(fetch'[f].got)
                 /\ upload'[u].at = "copy" => fetch'[f].next = Len(fetch'[f].got) + 1
         \/ /\ upload'[u].target = None
            /\ Chunked(fetch'[f].job) => fetch'[f].next = Len(fetch'[f].got)
  PROVE  Transfers'
<1> DEFINE r == fetch'[f]
           q == upload'[u]
<1>1. Outcomes'
  <2>1. ASSUME NEW g \in Fetcher
        PROVE  /\ fetch'[g].at = "idle" => fetch'[g] = NoFetch
               /\ fetch'[g].at \in {"register", "wait"} => fetch'[g].got = <<>>
               /\ fetch'[g].at # "unregister" => fetch'[g].outcome = "none"
               /\ fetch'[g].outcome = "offline" => fetch'[g].got = <<>>
               /\ fetch'[g].outcome = "ok" => fetch'[g].writer = "eof"
               /\ fetch'[g].writer = "eof" => Len(fetch'[g].got) = Parts
    BY DEF Transfers, Outcomes, Got
  <2>2. QED BY <2>1 DEF Outcomes, Got
<1>2. ASSUME NEW v \in Upload, NEW g \in Fetcher, upload'[v].target = g
      PROVE  \/ v = u /\ g = f /\ q.target = f
             \/ Aims(v, g) /\ g # f /\ v # u
  BY <1>2, BrokerAssumption DEF Aims
<1>3. Alone'
  <2>1. ASSUME NEW v \in Upload, NEW w \in Upload, NEW g \in Fetcher,
               upload'[v].target = g, upload'[w].target = g
        PROVE  v = w
    BY <1>2, <2>1 DEF Transfers, Alone
  <2>2. QED BY <2>1 DEF Alone, Aims
<1>4. Aimed'
  <2>1. ASSUME NEW v \in Upload, NEW g \in Fetcher, upload'[v].target = g
        PROVE  /\ fetch'[g].at \in {"wait", "copy", "unregister"}
               /\ fetch'[g].job = upload'[v].job
               /\ upload'[v].at = "copy" => upload'[v].index = Len(fetch'[g].got)
               /\ upload'[v].at = "last" => Len(fetch'[g].got) = Parts
               /\ Chunked(fetch'[g].job) =>
                    /\ pending[fetch'[g].job] = g
                    /\ upload'[v].at = "check" => fetch'[g].next = Len(fetch'[g].got)
                    /\ upload'[v].at = "copy" => fetch'[g].next = Len(fetch'[g].got) + 1
    <3>1. CASE v = u /\ g = f /\ q.target = f
      <4>1. f # None
        BY BrokerAssumption
      <4>2. /\ r.at \in {"wait", "copy", "unregister"} /\ r.job = q.job
            /\ q.at = "copy" => q.index = Len(r.got)
            /\ q.at = "last" => Len(r.got) = Parts
            /\ Chunked(r.job) => /\ pending[r.job] = f
                                 /\ q.at = "check" => r.next = Len(r.got)
                                 /\ q.at = "copy" => r.next = Len(r.got) + 1
        BY <3>1, <4>1
      <4> HIDE DEF r, q
      <4>3. r = fetch'[g] /\ q = upload'[v]
        BY <3>1 DEF r, q
      <4>4. QED BY <3>1, <4>2, <4>3
    <3>2. CASE Aims(v, g) /\ g # f /\ v # u
      <4>1. fetch'[g] = fetch[g] /\ upload'[v] = upload[v]
        BY <3>2
      <4>2. QED BY <3>2, <4>1 DEF Transfers, Aimed, Got
    <3>3. QED BY <1>2, <2>1, <3>1, <3>2
  <2>2. QED BY <2>1 DEF Aimed, Aims, Got, Chunked
<1>5. Registered'
  <2>1. ASSUME NEW i \in Job, pending[i] # None
        PROVE  LET g == pending[i] IN
               IF Chunked(i)
                 THEN (\A v \in Upload : upload'[v].target # g)
                        => fetch'[g].next = Len(fetch'[g].got)
                 ELSE fetch'[g].got = <<>> /\ \A v \in Upload : upload'[v].target # g
    <3>1. pending[i] \in Fetcher /\ fetch[pending[i]].job = i
      BY <2>1 DEF TypeInv, Transfers, PendingIsLive
    <3>2. CASE pending[i] = f
      <4>1. Chunked(i) /\ r.job = i
        BY <3>1, <3>2
      <4>2. (\A v \in Upload : upload'[v].target # f) => r.next = Len(r.got)
        BY <4>1
      <4>3. QED BY <3>2, <4>1, <4>2
    <3>3. CASE pending[i] # f
      <4>1. fetch'[pending[i]] = fetch[pending[i]]
        BY <3>1, <3>3
      <4>2. \A v \in Upload : upload'[v].target = pending[i] <=> Aims(v, pending[i])
        BY <3>1, <3>3, BrokerAssumption DEF Aims
      <4>3. QED BY <2>1, <4>1, <4>2 DEF Transfers, Registered, Got
    <3>4. QED BY <3>2, <3>3
  <2>2. QED BY <2>1 DEF Registered, Aims, Got, Chunked
<1>6. QED BY <1>1, <1>3, <1>4, <1>5 DEF Transfers

LEMMA AnswerNoUpload ==
  ASSUME TypeInv, NEW u \in Upload, NEW ok, Answer(u, ok)
  PROVE  upload'[u] = NoUpload /\ \A v \in Upload : v # u => upload'[v] = upload[v]
BY DEF Answer, SetUpload, TypeInv, UploadType

\* The POST that holds the coupling of f, and what it knows.
LEMMA AimFacts ==
  ASSUME TypeInv, Threads, Transfers, NEW u \in Upload, NEW f \in Fetcher, upload[u].target = f
  PROVE  /\ fetch[f].at \in {"wait", "copy", "unregister"} /\ fetch[f].job = upload[u].job
         /\ fetch[f] \in GetStates /\ upload[u] \in PostStates
         /\ \A v \in Upload : Aims(v, f) => v = u
         /\ Chunked(fetch[f].job) => pending[fetch[f].job] = f
         /\ ~Chunked(fetch[f].job) => pending[fetch[f].job] # f
<1>1. Aims(u, f)
  BY DEF Aims
<1>2. fetch[f].at \in {"wait", "copy", "unregister"} /\ fetch[f].job = upload[u].job
  BY <1>1 DEF Transfers, Aimed
<1>3. fetch[f].job \in Job
  BY <1>2 DEF TypeInv, FetchType
<1>4. ~Chunked(fetch[f].job) => pending[fetch[f].job] # f
  BY <1>1, <1>3, BrokerAssumption DEF Transfers, Registered
<1>5. QED BY <1>1, <1>2, <1>4 DEF Transfers, Aimed, Alone, TypeInv, FetchType, UploadType

\* A chunk goes on with its coupling unchanged.
LEMMA GoTransfers ==
  ASSUME TypeInv, Threads, Transfers, PendingIsLive', NEW u \in Upload, NEW at, Go(u, at),
         UNCHANGED <<fetch, pending, mode>>, at = "abort", Chunked(upload[u].job)
  PROVE  Transfers'
<1>1. /\ \A v \in Upload : v # u => upload'[v] = upload[v]
      /\ upload'[u].at = "abort" /\ upload'[u].job = upload[u].job
      /\ upload'[u].target = upload[u].target
  BY GoFacts DEF TypeInv
<1>2. CASE upload[u].target \notin Fetcher
  BY <1>1, <1>2, NothingAimed
<1>3. CASE upload[u].target \in Fetcher
  <2> DEFINE f == upload[u].target
             r == fetch[f]
             q == upload'[u]
  <2>1. r.writer = "eof" => Len(r.got) = Parts
    BY <1>3 DEF Transfers, Outcomes, Got
  <2>2. /\ \A g \in Fetcher : fetch'[g] = IF g = f THEN r ELSE fetch[g]
        /\ \A v \in Upload : upload'[v] = IF v = u THEN q ELSE upload[v]
    BY <1>1
  <2>3. QED
    <3>1. /\ r.at \in {"wait", "copy", "unregister"} /\ r.job = upload[u].job
          /\ \A v \in Upload : Aims(v, f) => v = u
          /\ Chunked(r.job) => pending[r.job] = f
      BY <1>3, AimFacts
    <3>2. /\ q.target = f /\ q.job = r.job /\ q.at = "abort" /\ Chunked(r.job)
          /\ r = fetch[f] /\ f = upload[u].target /\ f \in Fetcher
      BY <1>1, <1>3, <3>1
    <3> HIDE DEF f, r, q
    <3>3. QED BY <2>1, <2>2, <3>1, <3>2, PairGoesOn
<1>4. QED BY <1>2, <1>3

LEMMA CopyPartTransfers ==
  ASSUME TypeInv, Threads, Transfers, PendingIsLive', NEW u \in Upload, CopyPart(u)
  PROVE  Transfers'
<1> DEFINE f == upload[u].target
           i == upload[u].index
           got == Append(fetch[f].got, i)
           open == [fetch[f] EXCEPT !.got = got]
           eof == [fetch[f] EXCEPT !.got = got, !.writer = "eof"]
           on == [upload[u] EXCEPT !.index = @ + 1]
<1>1. /\ upload[u].at = "copy" /\ f \in Fetcher
      /\ fetch[f].at = "copy" /\ fetch[f].writer = "open" /\ UNCHANGED <<pending, mode>>
  BY DEF CopyPart, Readable, Live
<1>2. /\ fetch[f].job = upload[u].job /\ fetch[f] \in GetStates /\ upload[u] \in PostStates
      /\ \A v \in Upload : Aims(v, f) => v = u
      /\ Chunked(fetch[f].job) => pending[fetch[f].job] = f
      /\ ~Chunked(fetch[f].job) => pending[fetch[f].job] # f
  BY <1>1, AimFacts
<1>3. /\ i = Len(fetch[f].got) /\ i \in 0..(Parts - 1)
      /\ Chunked(fetch[f].job) => fetch[f].next = i + 1
  BY <1>1, <1>2 DEF Transfers, Aimed, Aims, Got, PostStates
<1>4. Len(got) = i + 1
  BY <1>2, <1>3 DEF GetStates
<1>5. /\ open.at = "copy" /\ open.job = fetch[f].job /\ open.outcome = fetch[f].outcome
      /\ open.got = got /\ open.next = fetch[f].next /\ open.writer = "open"
      /\ eof.at = "copy" /\ eof.job = fetch[f].job /\ eof.outcome = fetch[f].outcome
      /\ eof.got = got /\ eof.next = fetch[f].next /\ eof.writer = "eof"
      /\ on.at = "copy" /\ on.job = upload[u].job /\ on.target = f /\ on.index = i + 1
  BY <1>1, <1>2 DEF GetStates, PostStates
<1>6. Chunked(upload[u].job) <=> mode[upload[u].by] = "chunk"
  BY <1>1, PostFacts
<1>7. \/ /\ Chunked(upload[u].job) /\ SetFetch(f, open)
         /\ \/ i + 1 = Parts /\ Go(u, "last")
            \/ Answer(u, TRUE)
      \/ /\ ~Chunked(upload[u].job) /\ SetFetch(f, open) /\ SetUpload(u, on)
      \/ /\ ~Chunked(upload[u].job) /\ ~(i + 1 < Parts) /\ SetFetch(f, eof) /\ Answer(u, TRUE)
  BY <1>6 DEF CopyPart
<1>8. NoUpload.target = None
  BY DEF NoUpload
<1> HIDE DEF open, eof, on, got
<1>9. ASSUME SetFetch(f, open) PROVE \A g \in Fetcher : fetch'[g] = IF g = f THEN open ELSE fetch[g]
  BY <1>9 DEF SetFetch, TypeInv, FetchType
<1>10. CASE Chunked(upload[u].job) /\ SetFetch(f, open) /\ i + 1 = Parts /\ Go(u, "last")
  <2> DEFINE q == upload'[u]
  <2>1. /\ \A v \in Upload : upload'[v] = IF v = u THEN q ELSE upload[v]
        /\ q.at = "last" /\ q.job = upload[u].job /\ q.target = f
    BY <1>10, GoFacts DEF TypeInv
  <2> HIDE DEF q
  <2>2. QED BY <1>1, <1>2, <1>4, <1>5, <1>9, <1>10, <2>1, PairGoesOn
<1>11. CASE Chunked(upload[u].job) /\ SetFetch(f, open) /\ Answer(u, TRUE)
  <2>1. \A v \in Upload : upload'[v] = IF v = u THEN NoUpload ELSE upload[v]
    BY <1>11, AnswerNoUpload
  <2>2. Chunked(open.job) => open.next = Len(open.got)
    BY <1>3, <1>4, <1>5
  <2>3. QED BY <1>1, <1>2, <1>5, <1>8, <1>9, <1>11, <2>1, <2>2, PairGoesOn
<1>12. CASE ~Chunked(upload[u].job) /\ SetFetch(f, open) /\ SetUpload(u, on)
  <2>1. \A v \in Upload : upload'[v] = IF v = u THEN on ELSE upload[v]
    BY <1>12 DEF SetUpload, TypeInv, UploadType
  <2>2. QED BY <1>1, <1>2, <1>4, <1>5, <1>9, <1>12, <2>1, PairGoesOn
<1>13. CASE ~Chunked(upload[u].job) /\ ~(i + 1 < Parts) /\ SetFetch(f, eof) /\ Answer(u, TRUE)
  <2>1. \A v \in Upload : upload'[v] = IF v = u THEN NoUpload ELSE upload[v]
    BY <1>13, AnswerNoUpload
  <2>2. \A g \in Fetcher : fetch'[g] = IF g = f THEN eof ELSE fetch[g]
    BY <1>13 DEF SetFetch, TypeInv, FetchType
  <2>3. Len(eof.got) = Parts
    BY <1>3, <1>4, <1>5, <1>13, BrokerAssumption
  <2>4. /\ eof.at = fetch[f].at /\ eof.at = "copy" /\ eof.writer = "eof" /\ NoUpload.target = None
        /\ ~Chunked(eof.job) /\ pending[eof.job] # f /\ fetch[f].writer = "open"
    BY <1>1, <1>2, <1>5, <1>8, <1>13
  <2>5. QED BY <1>1, <1>2, <1>5, <2>1, <2>2, <2>3, <2>4, PairGoesOn
<1>14. QED BY <1>7, <1>10, <1>11, <1>12, <1>13

LEMMA PeekTransfers ==
  ASSUME TypeInv, Threads, Transfers, PendingIsLive', NEW u \in Upload, peekCoupling(u),
         pending[upload[u].job] # None
  PROVE  Transfers'
<1> DEFINE j == upload[u].job
           f == pending[j]
           q == [upload[u] EXCEPT !.at = "check", !.target = f]
<1>1. /\ upload[u].at = "peek" /\ j \in Job /\ upload[u] \in PostStates /\ f \in Fetcher
      /\ upload[u].target = None
      /\ Chunked(j) /\ fetch[f].job = j /\ fetch[f].at \in {"wait", "copy", "unregister"}
  BY PostFacts DEF peekCoupling, TypeInv, UploadType, Threads, Tracks, Transfers, PendingIsLive
<1>2. upload' = [upload EXCEPT ![u] = q] /\ UNCHANGED <<fetch, pending, mode>>
  BY DEF peekCoupling, SetUpload
<1>3. q.at = "check" /\ q.job = j /\ q.target = f
  BY <1>1 DEF PostStates
<1>4. \A v \in Upload : ~Aims(v, f)
  <2>1. SUFFICES ASSUME NEW v \in Upload, Aims(v, f) PROVE FALSE
    OBVIOUS
  <2>2. upload[v].at # "idle" /\ upload[v].job = j
    BY <1>1, <2>1, AimerWorks DEF Transfers, Aimed
  <2>3. v = u
    BY <1>1, <2>2, SameThread
  <2>4. QED BY <1>1, <2>1, <2>3, BrokerAssumption DEF Aims
<1>5. fetch[f].next = Len(fetch[f].got) /\ (fetch[f].writer = "eof" => Len(fetch[f].got) = Parts)
  BY <1>1, <1>4, BrokerAssumption DEF Transfers, Registered, Outcomes, Got
<1> DEFINE r == fetch[f]
<1>6. /\ \A g \in Fetcher : fetch'[g] = IF g = f THEN r ELSE fetch[g]
      /\ \A v \in Upload : upload'[v] = IF v = u THEN q ELSE upload[v]
      /\ pending[r.job] = f
  BY <1>1, <1>2 DEF TypeInv, UploadType
<1>7. r = fetch[f]
  OBVIOUS
<1> HIDE DEF q, f, j, r
<1>8. /\ r.at = fetch[f].at /\ r.job = j /\ r.outcome = fetch[f].outcome
      /\ r.got = fetch[f].got /\ r.writer = fetch[f].writer /\ r.next = Len(r.got)
      /\ r.writer = "eof" => Len(r.got) = Parts
      /\ Chunked(r.job) /\ pending[r.job] = f /\ r.job = fetch[f].job
      /\ q.target = f /\ q.job = r.job /\ q.at = "check"
  BY <1>1, <1>3, <1>5, <1>6, <1>7
<1>9. /\ UNCHANGED <<pending, mode>> /\ f \in Fetcher /\ upload[u].target \in {f, None}
      /\ fetch[f].at \in {"wait", "copy", "unregister"}
      /\ \A v \in Upload : Aims(v, f) => v = u
  BY <1>1, <1>2, <1>4
<1>10. QED BY <1>6, <1>8, <1>9, PairGoesOn

LEMMA CheckTransfers ==
  ASSUME TypeInv, Threads, Transfers, PendingIsLive', NEW u \in Upload, CheckChunk(u)
  PROVE  Transfers'
<1>1. upload[u].at = "check" /\ UNCHANGED <<pending, mode>> /\ Chunked(upload[u].job)
  BY PostFacts DEF CheckChunk, Threads, Tracks
<1>2. CASE InOrder(u)
  <2> DEFINE f == upload[u].target
             r == [fetch[f] EXCEPT !.started = TRUE, !.next = @ + 1]
             q == upload'[u]
  <2>1. f \in Fetcher /\ upload[u].index = fetch[f].next
    BY <1>2 DEF InOrder, Live
  <2>2. /\ fetch[f].job = upload[u].job /\ fetch[f] \in GetStates
        /\ fetch[f].at \in {"wait", "copy", "unregister"}
        /\ \A v \in Upload : Aims(v, f) => v = u
        /\ Chunked(fetch[f].job) => pending[fetch[f].job] = f
    BY <2>1, AimFacts
  <2>3. fetch[f].next = Len(fetch[f].got)
    BY <1>1, <2>1, <2>2 DEF Transfers, Aimed, Aims, Got
  <2>4. /\ r.at = fetch[f].at /\ r.job = fetch[f].job /\ r.outcome = fetch[f].outcome
        /\ r.got = fetch[f].got /\ r.next = fetch[f].next + 1 /\ r.writer = fetch[f].writer
    BY <2>2 DEF GetStates
  <2>5. fetch[f].writer = "eof" => Len(fetch[f].got) = Parts
    BY <2>1 DEF Transfers, Outcomes, Got
  <2>6. \A v \in Upload : upload'[v] = IF v = u THEN q ELSE upload[v]
    BY <1>2, GoFacts DEF CheckChunk, TypeInv
  <2>7. q.at = "copy" /\ q.job = upload[u].job /\ q.target = f /\ q.index = upload[u].index
    BY <1>2, GoFacts DEF CheckChunk, TypeInv
  <2>8. fetch' = [fetch EXCEPT ![f] = r]
    BY <1>2, <2>2 DEF CheckChunk
  <2>9. f = upload[u].target
    OBVIOUS
  <2> HIDE DEF r, q, f
  <2>10. \A g \in Fetcher : fetch'[g] = IF g = f THEN r ELSE fetch[g]
    BY <2>8 DEF TypeInv, FetchType
  <2>11. /\ q.target = f /\ q.job = r.job /\ q.at = "copy" /\ q.index = Len(r.got)
         /\ r.next = Len(r.got) + 1 /\ (r.writer = "eof" => Len(r.got) = Parts)
         /\ Chunked(r.job) /\ pending[r.job] = f /\ upload[u].target \in {f, None}
    BY <1>1, <2>1, <2>2, <2>3, <2>4, <2>5, <2>7, <2>9
  <2>12. QED BY <1>1, <2>1, <2>2, <2>4, <2>6, <2>10, <2>11, PairGoesOn
<1>3. CASE ~InOrder(u)
  BY <1>1, <1>3, GoTransfers DEF CheckChunk
<1>4. QED BY <1>2, <1>3

LEMMA CopyFailsTransfers ==
  ASSUME TypeInv, Threads, Transfers, PendingIsLive', NEW u \in Upload, CopyFails(u)
  PROVE  Transfers'
<1> DEFINE f == upload[u].target
<1>1. /\ upload[u].at = "copy" /\ UNCHANGED <<pending, mode>>
      /\ Chunked(upload[u].job) <=> mode[upload[u].by] = "chunk"
  BY PostFacts DEF CopyFails
<1>2. CASE Chunked(upload[u].job)
  BY <1>1, <1>2, GoTransfers DEF CopyFails
<1>3. CASE ~Chunked(upload[u].job)
  <2>1. /\ Answer(u, FALSE)
        /\ fetch' = IF Live(u) THEN WriterClosed(f, "error") ELSE fetch
    BY <1>1, <1>3 DEF CopyFails
  <2>2. Untouched
    <3>1. CASE f \in Fetcher
      <4>1. fetch[f].at # "idle"
        BY <3>1, AimFacts
      <4>2. QED BY <2>1, <3>1, <4>1, WriterFacts DEF Live
    <3>2. CASE f \notin Fetcher
      BY <2>1, <3>2 DEF Live, Untouched
    <3>3. QED BY <3>1, <3>2
  <2>3. QED BY <1>1, <1>3, <2>1, <2>2, AnswerNoUpload, PostLeaves
<1>4. QED BY <1>2, <1>3

LEMMA EndTransfers ==
  ASSUME TypeInv, Threads, Transfers, PendingIsLive', NEW u \in Upload,
         abortCoupling(u) \/ LastChunk(u)
  PROVE  Transfers'
<1> DEFINE j == upload[u].job
           f == pending[j]
<1>1. /\ upload[u].at \in {"abort", "last"} /\ pending' = takeCoupling(j) /\ UNCHANGED mode
      /\ \E ok \in BOOLEAN : Answer(u, ok)
  BY DEF abortCoupling, LastChunk
<1>2. Chunked(j) /\ j \in Job
  BY <1>1, PostFacts DEF Threads, Tracks
<1>3. f # None => f \in Fetcher /\ fetch[f].at # "idle"
  BY <1>2 DEF TypeInv, Transfers, PendingIsLive
<1>4. Untouched
  <2>1. CASE UNCHANGED fetch
    BY <2>1 DEF Untouched
  <2>2. CASE abortCoupling(u) /\ f # None
    BY <1>3, <2>2, WriterFacts DEF abortCoupling
  <2>3. CASE LastChunk(u) /\ f # None /\ f = upload[u].target
    <3>1. Len(Got(f)) = Parts
      BY <1>3, <2>3 DEF LastChunk, Transfers, Aimed, Aims
    <3>2. QED BY <1>3, <2>3, <3>1, WriterFacts DEF LastChunk
  <2>4. QED BY <2>1, <2>2, <2>3 DEF abortCoupling, LastChunk
<1>5. QED BY <1>1, <1>2, <1>4, AnswerNoUpload, PostLeaves

LEMMA PostTransfers ==
  ASSUME TypeInv, Threads, Transfers, PendingIsLive', NEW u \in Upload, UploadStep(u)
  PROVE  Transfers'
<1>1. ASSUME upload[u].at \in {"take", "peek"}, Answer(u, FALSE),
             UNCHANGED <<fetch, pending, mode>>
      PROVE  Transfers'
  <2>1. upload[u].target \notin Fetcher /\ NoUpload.target \notin Fetcher
    BY <1>1, PostFacts, BrokerAssumption DEF Threads, Tracks, NoUpload, TypeInv
  <2>2. QED BY <1>1, <2>1, AnswerNoUpload, NothingAimed
<1>2. CASE Take(u)
  BY <1>1, <1>2, TakeTransfers DEF Take
<1>3. CASE peekCoupling(u)
  BY <1>1, <1>3, PeekTransfers DEF peekCoupling
<1>4. QED BY <1>2, <1>3, CopyPartTransfers, CopyFailsTransfers, CheckTransfers, EndTransfers
          DEF UploadStep

LEMMA TransfersStep ==
  ASSUME TypeInv, Threads, Transfers, [Next]_vars
  PROVE  Transfers'
<1>1. PendingIsLive'
  BY LiveStep DEF Transfers
<1>2. ASSUME NEW u \in Upload, UploadStep(u) PROVE Transfers'
  BY <1>1, <1>2, PostTransfers
<1>3. ASSUME NEW f \in Fetcher, FetchStep(f) \/ \E j \in Job : WorkerAudioFetchBroker(f, j)
      PROVE  Transfers'
  BY <1>3, GetTransfers
<1>4. CASE UNCHANGED vars
  BY <1>4, NothingAimed DEF vars
<1>5. ASSUME NEW j \in Job, EnqueueCleanup(j) PROVE Transfers'
  BY <1>5, NothingAimed DEF EnqueueCleanup
<1>6. ASSUME NEW w \in AudioWorker, Poll(w) PROVE Transfers'
  BY <1>6, NothingAimed DEF Poll
<1>7. ASSUME NEW w \in AudioWorker, ConnectionLost(w) PROVE Transfers'
  <2> DEFINE u == client[w].post
             r == [upload[u] EXCEPT !.lost = TRUE]
  <2>1. u \in Upload /\ upload' = [upload EXCEPT ![u] = r] /\ UNCHANGED <<fetch, pending, mode>>
    BY <1>7 DEF ConnectionLost, SetUpload, TypeInv, ClientType, WorkStates
  <2>2. /\ r.at = upload[u].at /\ r.job = upload[u].job
        /\ r.index = upload[u].index /\ r.target = upload[u].target
    BY <2>1 DEF TypeInv, UploadType, PostStates
  <2> HIDE DEF r, u
  <2>3. \A v \in Upload : upload'[v] = IF v = u THEN r ELSE upload[v]
    BY <2>1 DEF TypeInv, UploadType
  <2>4. QED BY <2>1, <2>2, <2>3, NothingAimed
<1>8. ASSUME NEW w \in AudioWorker, NEW u \in Upload, Post(w, u) PROVE Transfers'
  <2> DEFINE r == [NoUpload EXCEPT !.at = IF mode[w] = "chunk" THEN "peek" ELSE "take",
                     !.job = client[w].job, !.by = w, !.index = client[w].index]
  <2>1. r.target \notin Fetcher /\ NoUpload.target \notin Fetcher
    BY BrokerAssumption DEF NoUpload
  <2>2. /\ upload[u] = NoUpload /\ upload' = [upload EXCEPT ![u] = r]
        /\ UNCHANGED <<fetch, pending, mode>>
    BY <1>8 DEF Post, SetUpload, TypeInv, UploadType
  <2> HIDE DEF r
  <2>3. \A v \in Upload : upload'[v] = IF v = u THEN r ELSE upload[v]
    BY <2>2 DEF TypeInv, UploadType
  <2>4. QED BY <2>1, <2>2, <2>3, NothingAimed
<1>9. QED BY <1>2, <1>3, <1>4, <1>5, <1>6, <1>7, <1>8 DEF Next

-----------------------------------------------------------------------------
(* The broker implements AudioFetch.                                       *)

LEMMA OrderInit == Init => Threads /\ Transfers
<1> SUFFICES ASSUME Init PROVE Threads /\ Transfers
  OBVIOUS
<1>1. Threads
  BY DEF Init, Threads, Mine, OneByOne, Tracks, NoUpload, NoWork
<1>2. \A u \in Upload, f \in Fetcher : ~Aims(u, f)
  BY BrokerAssumption DEF Init, Aims, NoUpload
<1>3. Transfers
  BY <1>2, NoFetchFacts
  DEF Init, Transfers, PendingIsLive, Outcomes, Got, Aimed, Alone, Registered
<1>4. QED BY <1>1, <1>3

\* A step of one GET, seen from outside.
FetchMoves(f) ==
    LET r == fetch[f]
        s == fetch'[f]
    IN \/ Phase(r) = "idle" /\ Phase(s) = "open" /\ s.got = r.got
       \/ /\ Phase(r) = "open" /\ Phase(s) = "open"
          /\ Len(r.got) < Parts /\ s.got = Append(r.got, Len(r.got))
       \/ Phase(r) = "open" /\ Phase(s) = "ok" /\ Len(r.got) = Parts /\ s.got = r.got
       \/ Phase(r) # "idle" /\ Phase(s) = "idle" /\ s.got = <<>>
FetchStays(f) == Phase(fetch'[f]) = Phase(fetch[f]) /\ fetch'[f].got = fetch[f].got

LEMMA PostMoves ==
  ASSUME TypeInv, Threads, Transfers, NEW u \in Upload, UploadStep(u)
  PROVE  \/ \A f \in Fetcher : FetchStays(f)
         \/ \E f \in Fetcher : FetchMoves(f) /\ \A g \in Fetcher : g # f => FetchStays(g)
<1>1. ASSUME NEW f \in Fetcher, NEW r, fetch' = [fetch EXCEPT ![f] = r],
             r.at = fetch[f].at, r.outcome = fetch[f].outcome, r.got = fetch[f].got
      PROVE  \A g \in Fetcher : FetchStays(g)
  BY <1>1 DEF FetchStays, Phase, TypeInv, FetchType
<1>2. ASSUME Untouched PROVE \A g \in Fetcher : FetchStays(g)
  BY <1>2 DEF Untouched, FetchStays, Phase
<1>3. ASSUME UNCHANGED fetch PROVE \A g \in Fetcher : FetchStays(g)
  BY <1>3 DEF FetchStays
<1>4. \A f \in Fetcher : fetch[f] \in GetStates
  BY DEF TypeInv, FetchType
<1>5. CASE Take(u) /\ ~UNCHANGED fetch
  <2> DEFINE f == pending[upload[u].job]
             r == [fetch[f] EXCEPT !.started = TRUE]
  <2>1. f \in Fetcher /\ fetch' = [fetch EXCEPT ![f] = r]
    BY <1>5 DEF Take, TypeInv, UploadType
  <2>2. r.at = fetch[f].at /\ r.outcome = fetch[f].outcome /\ r.got = fetch[f].got
    BY <1>4, <2>1 DEF GetStates
  <2> HIDE DEF f, r
  <2>3. QED BY <1>1, <2>1, <2>2
<1>6. CASE CheckChunk(u) /\ ~UNCHANGED fetch
  <2> DEFINE f == upload[u].target
             r == [fetch[f] EXCEPT !.started = TRUE, !.next = @ + 1]
  <2>1. f \in Fetcher /\ fetch' = [fetch EXCEPT ![f] = r]
    BY <1>6 DEF CheckChunk, InOrder, Live
  <2>2. r.at = fetch[f].at /\ r.outcome = fetch[f].outcome /\ r.got = fetch[f].got
    BY <1>4, <2>1 DEF GetStates
  <2> HIDE DEF f, r
  <2>3. QED BY <1>1, <2>1, <2>2
<1>7. CASE CopyPart(u)
  <2> DEFINE f == upload[u].target
             got == Append(fetch[f].got, upload[u].index)
             open == [fetch[f] EXCEPT !.got = got]
             eof == [fetch[f] EXCEPT !.got = got, !.writer = "eof"]
  <2>1. /\ upload[u].at = "copy" /\ f \in Fetcher /\ fetch[f].at = "copy"
        /\ fetch' = [fetch EXCEPT ![f] = open] \/ fetch' = [fetch EXCEPT ![f] = eof]
    BY <1>7 DEF CopyPart, Readable, Live, SetFetch
  <2>2. upload[u].index = Len(fetch[f].got) /\ upload[u].index \in 0..(Parts - 1)
    BY <2>1 DEF Transfers, Aimed, Aims, Got, TypeInv, UploadType, PostStates
  <2>3. /\ open.at = "copy" /\ open.outcome = fetch[f].outcome /\ open.got = got
        /\ eof.at = "copy" /\ eof.outcome = fetch[f].outcome /\ eof.got = got
    BY <1>4, <2>1 DEF GetStates
  <2>4. fetch[f].outcome = "none" /\ Len(fetch[f].got) < Parts
        /\ got = Append(fetch[f].got, Len(fetch[f].got))
    BY <2>1, <2>2, BrokerAssumption DEF Transfers, Outcomes
  <2> HIDE DEF f, got, open, eof
  <2>5. /\ fetch'[f] \in {open, eof}
        /\ \A g \in Fetcher : g # f => fetch'[g] = fetch[g]
    BY <2>1 DEF TypeInv, FetchType
  <2>6. FetchMoves(f)
    BY <2>1, <2>3, <2>4, <2>5 DEF FetchMoves, Phase
  <2>7. QED BY <2>1, <2>5, <2>6 DEF FetchStays
<1>8. CASE CopyFails(u)
  <2>1. CASE Live(u) /\ fetch' = WriterClosed(upload[u].target, "error")
    BY <1>2, <2>1, AimFacts, WriterFacts DEF Live
  <2>2. QED BY <1>3, <1>8, <2>1 DEF CopyFails
<1>9. CASE abortCoupling(u) \/ LastChunk(u)
  <2> DEFINE f == pending[upload[u].job]
  <2>1. f # None => f \in Fetcher /\ fetch[f].at # "idle"
    BY <1>9 DEF abortCoupling, LastChunk, TypeInv, UploadType, Transfers, PendingIsLive
  <2>2. CASE abortCoupling(u) /\ f # None
    BY <1>2, <2>1, <2>2, WriterFacts DEF abortCoupling
  <2>3. CASE LastChunk(u) /\ f # None /\ f = upload[u].target
    <3>1. Len(Got(f)) = Parts
      BY <2>1, <2>3 DEF LastChunk, Transfers, Aimed, Aims
    <3>2. QED BY <1>2, <2>1, <2>3, <3>1, WriterFacts DEF LastChunk
  <2>4. QED BY <1>3, <1>9, <2>2, <2>3 DEF abortCoupling, LastChunk
<1>10. CASE peekCoupling(u)
  BY <1>3, <1>10 DEF peekCoupling
<1>11. QED BY <1>3, <1>5, <1>6, <1>7, <1>8, <1>9, <1>10 DEF UploadStep

LEMMA GetMoves ==
  ASSUME TypeInv, Transfers, NEW f \in Fetcher,
         FetchStep(f) \/ \E j \in Job : WorkerAudioFetchBroker(f, j)
  PROVE  (FetchStays(f) \/ FetchMoves(f)) /\ \A g \in Fetcher : g # f => FetchStays(g)
<1>1. fetch[f] \in GetStates
  BY DEF TypeInv, FetchType
<1>2. ASSUME NEW r, SetFetch(f, r)
      PROVE  fetch'[f] = r /\ \A g \in Fetcher : g # f => FetchStays(g)
  BY <1>2 DEF SetFetch, FetchStays, TypeInv, FetchType
<1>3. /\ fetch[f].at = "idle" => fetch[f] = NoFetch
      /\ fetch[f].at # "unregister" => fetch[f].outcome = "none"
      /\ fetch[f].writer = "eof" => Len(fetch[f].got) = Parts
  BY DEF Transfers, Outcomes, Got
<1>4. ASSUME NEW j \in Job, WorkerAudioFetchBroker(f, j)
      PROVE  FetchMoves(f) /\ \A g \in Fetcher : g # f => FetchStays(g)
  <2> DEFINE r == [NoFetch EXCEPT !.at = "register", !.job = j]
  <2>1. r.at = "register" /\ r.outcome = "none" /\ r.got = NoFetch.got
    BY DEF NoFetch
  <2>2. fetch[f].at = "idle" /\ SetFetch(f, r)
    BY <1>4 DEF WorkerAudioFetchBroker
  <2> HIDE DEF r
  <2>3. QED BY <1>2, <1>3, <2>1, <2>2 DEF FetchMoves, Phase
<1>5. CASE registerCoupling(f)
  <2> DEFINE r == [NewCoupling(fetch[f]) EXCEPT !.at = "wait"]
  <2>1. /\ r.at = "wait" /\ r.outcome = fetch[f].outcome /\ r.got = fetch[f].got
        /\ fetch[f].at = "register"
    BY <1>1, <1>5, NewCouplingType DEF GetStates, registerCoupling
  <2>2. SetFetch(f, r) \/ SetFetch(f, NoFetch)
    BY <1>5 DEF registerCoupling
  <2> HIDE DEF r
  <2>3. QED BY <1>2, <1>3, <2>1, <2>2, NoFetchFacts DEF FetchMoves, FetchStays, Phase
<1>6. CASE StreamStarts(f)
  <2> DEFINE r == [fetch[f] EXCEPT !.at = "copy"]
  <2>1. /\ r.at = "copy" /\ r.outcome = fetch[f].outcome /\ r.got = fetch[f].got
        /\ fetch[f].at = "wait" /\ SetFetch(f, r)
    BY <1>1, <1>6 DEF GetStates, StreamStarts
  <2> HIDE DEF r
  <2>2. QED BY <1>2, <2>1 DEF FetchStays, Phase
<1>7. ASSUME NEW outcome
      PROVE  /\ Closed(fetch[f], outcome).at = "unregister"
             /\ Closed(fetch[f], outcome).outcome = outcome
             /\ Closed(fetch[f], outcome).got = fetch[f].got
  BY <1>1 DEF Closed, GetStates
<1>8. CASE FirstByteTimeout(f) \/ CopyEnds(f) \/ CopyCutShort(f)
  <2>1. /\ fetch[f].at \in {"wait", "copy"}
        /\ \/ \E o \in {"offline", "failed"} : SetFetch(f, Closed(fetch[f], o))
           \/ fetch[f].writer = "eof" /\ SetFetch(f, Closed(fetch[f], "ok"))
    BY <1>8 DEF FirstByteTimeout, CopyEnds, CopyCutShort
  <2>2. CASE \E o \in {"offline", "failed"} : SetFetch(f, Closed(fetch[f], o))
    BY <1>2, <1>3, <1>7, <2>1, <2>2 DEF FetchStays, Phase
  <2>3. CASE fetch[f].writer = "eof" /\ SetFetch(f, Closed(fetch[f], "ok"))
    BY <1>2, <1>3, <1>7, <2>1, <2>3 DEF FetchMoves, Phase
  <2>4. QED BY <2>1, <2>2, <2>3
<1>9. CASE unregisterCoupling(f)
  <2> DEFINE r == [NewCoupling(fetch[f]) EXCEPT !.at = "register", !.outcome = "none",
                                                !.attempt = @ + 1]
  <2>1. r.at = "register" /\ r.outcome = "none" /\ r.got = fetch[f].got
    BY <1>1, NewCouplingType DEF GetStates
  <2>2. /\ fetch[f].at = "unregister"
        /\ \/ SetFetch(f, r) /\ fetch[f].outcome = "offline"
           \/ SetFetch(f, NoFetch)
    BY <1>9 DEF unregisterCoupling, Retries
  <2> HIDE DEF r
  <2>3. QED BY <1>2, <2>1, <2>2, NoFetchFacts DEF FetchMoves, FetchStays, Phase
<1>10. QED BY <1>4, <1>5, <1>6, <1>8, <1>9 DEF FetchStep

LEMMA RefineStep ==
  ASSUME TypeInv, Threads, Transfers, [Next]_vars
  PROVE  [Fetches!Next]_(Fetches!vars)
<1>1. \/ \A f \in Fetcher : FetchStays(f)
      \/ \E f \in Fetcher : FetchMoves(f) /\ \A g \in Fetcher : g # f => FetchStays(g)
  <2>1. CASE UNCHANGED fetch
    BY <2>1 DEF FetchStays
  <2>2. CASE \E u \in Upload : UploadStep(u)
    BY <2>2, PostMoves
  <2>3. CASE \E f \in Fetcher : FetchStep(f) \/ \E j \in Job : WorkerAudioFetchBroker(f, j)
    <3>1. PICK f \in Fetcher : FetchStep(f) \/ \E j \in Job : WorkerAudioFetchBroker(f, j)
      BY <2>3
    <3>2. (FetchStays(f) \/ FetchMoves(f)) /\ \A g \in Fetcher : g # f => FetchStays(g)
      BY <3>1, GetMoves
    <3>3. QED BY <3>2
  <2>4. QED BY <2>1, <2>2, <2>3 DEF Next, vars, Poll, ConnectionLost, Post, EnqueueCleanup
<1>2. CASE \A f \in Fetcher : FetchStays(f)
  BY <1>2 DEF FetchStays, Fetches!vars
<1>3. ASSUME NEW f \in Fetcher, FetchMoves(f), \A g \in Fetcher : g # f => FetchStays(g)
      PROVE  Fetches!Next
  <2> DEFINE phase == [g \in Fetcher |-> Phase(fetch[g])]
             received == [g \in Fetcher |-> fetch[g].got]
  <2>1. /\ [g \in Fetcher |-> Phase(fetch'[g])] = [phase EXCEPT ![f] = Phase(fetch'[f])]
        /\ [g \in Fetcher |-> fetch'[g].got] = [received EXCEPT ![f] = fetch'[f].got]
    BY <1>3 DEF FetchStays
  <2>2. Fetches!Begin(f) \/ Fetches!Deliver(f) \/ Fetches!Succeed(f) \/ Fetches!End(f)
    BY <1>3, <2>1 DEF FetchMoves, Fetches!Begin, Fetches!Deliver, Fetches!Succeed, Fetches!End
  <2>3. QED BY <2>2 DEF Fetches!Next
<1>4. QED BY <1>1, <1>2, <1>3

\* A subtitle worker that is answered 200 has all parts of the FLAC in order, whatever
\* overlaps, if a worker that uploads in chunks waits for its answers.
THEOREM Fetching ==
    ASSUME "chunk" \notin Orphans
    PROVE  Spec => FetchImplemented
<1>1. Init => Fetches!Init
  BY NoFetchFacts DEF Init, Fetches!Init, Phase
<1>2. Init => TypeInv /\ Threads /\ Transfers
  BY TypeInit, OrderInit
<1>3. TypeInv /\ Threads /\ Transfers /\ [Next]_vars => (TypeInv /\ Threads /\ Transfers)'
  BY TypeStep, ThreadsStep, TransfersStep
<1>4. TypeInv /\ Threads /\ Transfers /\ [Next]_vars => [Fetches!Next]_(Fetches!vars)
  BY RefineStep
<1>5. QED BY <1>1, <1>2, <1>3, <1>4, PTL DEF Spec, FetchImplemented, Fetches!Spec

=============================================================================
