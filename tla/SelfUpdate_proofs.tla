------------------------- MODULE SelfUpdate_proofs -------------------------
(***************************************************************************)
(* Type correctness of the self-update, that what runs is one whole        *)
(* release with its own front end, and when a staged release is given up,  *)
(* for any releases, calls of Check and Apply, and numbers of crashes.     *)
(***************************************************************************)
EXTENDS SelfUpdate, TLAPS

\* Only a process that is up has calls of Check and goroutines of Apply: while the
\* entrypoint chooses, nobody changes the directories.
OnlyWhileUp == /\ \A c \in Checker : check[c].asking => proc.at = "up"
               /\ \A r \in Runner : run[r].at # "none" => proc.at = "up"

\* What the entrypoint knows at each of its steps.
Chosen ==
    /\ proc.at \in {"preflight", "forget"} => proc.binary = image
    /\ proc.at \in {"count", "web", "boot", "bound", "up"} =>
           proc.binary \in Version /\ proc.binary >= image
    /\ proc.at = "count" => disk.attempts < MaxStartAttempts
    /\ proc.at \in {"count", "web"} /\ proc.binary # image => disk.staged.dist = proc.binary
    /\ proc.at \in {"boot", "bound", "up"} => web = proc.binary

IInv == TypeOK /\ OnlyWhileUp /\ Chosen

-----------------------------------------------------------------------------
LEMMA Releases ==
  /\ Version \subseteq Nat /\ Version \subseteq Content /\ Absent \in Content /\ Garbage \in Content
  /\ \A v \in Version : v > 0
  /\ \A x \in Content : \A v \in Version : x > v => x \in Version
  /\ Empty \in Directory
  BY UpdateAssumption DEF Content, Absent, Garbage, Empty, Directory

\* Before the first start the volume is empty and nobody has chosen a binary (manager.go,
\* preflight.go): the invariant holds.
THEOREM InitIInv == Init => IInv
<1> SUFFICES ASSUME Init PROVE IInv
  OBVIOUS
<1>1. TypeOK
  BY Releases, UpdateAssumption
     DEF Init, TypeOK, NoManager, NoCheck, NoRun, ProcSteps, States, Empty, Directory, Content
<1>2. OnlyWhileUp /\ Chosen
  BY DEF Init, OnlyWhileUp, Chosen, NoCheck, NoRun
<1> QED BY <1>1, <1>2 DEF IInv

-----------------------------------------------------------------------------
(* The entrypoint and the start.                                           *)

LEMMA StartStep == IInv /\ Start => IInv'
<1> SUFFICES ASSUME IInv, Start PROVE IInv'
  OBVIOUS
<1>1. TypeOK'
  BY Releases DEF IInv, TypeOK, Start, Choose, unchangedByBoot, ProcSteps
<1>2. OnlyWhileUp'
  BY DEF IInv, TypeOK, OnlyWhileUp, Start, Choose, unchangedByBoot
<1>3. Chosen'
  BY Releases DEF IInv, TypeOK, Chosen, Start, Choose, unchangedByBoot
<1> QED BY <1>1, <1>2, <1>3 DEF IInv

\* A release that passes the preflight is whole and newer than the image.
LEMMA RunPreflightStep == IInv /\ RunPreflight => IInv'
<1> SUFFICES ASSUME IInv, RunPreflight PROVE IInv'
  OBVIOUS
<1> USE Releases, UpdateAssumption DEF IInv, TypeOK, RunPreflight, unchangedByBoot
<1>1. CASE ServesStaged(disk)
  <2>1. /\ disk.staged.info \in Version /\ disk.staged.server = disk.staged.info
        /\ disk.staged.dist = disk.staged.info /\ disk.staged.info > image
        /\ disk.attempts < MaxStartAttempts
    BY <1>1 DEF ServesStaged, HashesMatch, Directory
  <2>2. proc' = [at |-> "count", binary |-> disk.staged.server] /\ disk' = disk
    BY <1>1 DEF Choose
  <2>3. TypeOK'
    BY <2>1, <2>2 DEF ProcSteps
  <2>4. OnlyWhileUp'
    BY <2>2 DEF OnlyWhileUp
  <2>5. image' = image /\ disk.staged.server >= image
    <3>1. disk.staged.server \in Nat /\ image \in Nat /\ disk.staged.server > image
      BY <2>1
    <3> QED BY <3>1
  <2>6. Chosen'
    BY <2>1, <2>2, <2>5 DEF Chosen
  <2> QED BY <2>3, <2>4, <2>6
<1>2. CASE ~ServesStaged(disk)
  <2>1. /\ disk' = [disk EXCEPT !.staged = Empty]
        /\ proc' = [proc EXCEPT !.at = "forget"] \/ proc' = [proc EXCEPT !.at = "web"]
    BY <1>2 DEF Discard, Goto
  <2>2. TypeOK'
    BY <2>1 DEF ProcSteps
  <2>3. OnlyWhileUp'
    BY <2>1 DEF OnlyWhileUp
  <2>4. Chosen'
    BY <2>1 DEF Chosen
  <2> QED BY <2>2, <2>3, <2>4
<1> QED BY <1>1, <1>2

LEMMA AttemptsStep == IInv /\ (ForgetAttempts \/ CountAttempt) => IInv'
<1> SUFFICES ASSUME IInv, ForgetAttempts \/ CountAttempt PROVE IInv'
  OBVIOUS
<1> USE Releases, UpdateAssumption
    DEF IInv, TypeOK, ForgetAttempts, CountAttempt, Goto, unchangedByBoot
<1>1. TypeOK'
  BY DEF Chosen, ProcSteps
<1>2. OnlyWhileUp'
  BY DEF OnlyWhileUp
<1>3. Chosen'
  BY DEF Chosen
<1> QED BY <1>1, <1>2, <1>3

\* The front end is that of the release that was chosen.
LEMMA SyncWebStep == IInv /\ SyncWeb => IInv'
<1> SUFFICES ASSUME IInv, SyncWeb PROVE IInv'
  OBVIOUS
<1> USE Releases DEF IInv, TypeOK, SyncWeb, Goto, unchangedByBoot
<1>1. WebSource = proc.binary
  BY DEF Chosen, WebSource
<1>2. TypeOK'
  BY <1>1 DEF ProcSteps
<1>3. OnlyWhileUp'
  BY DEF OnlyWhileUp
<1>4. Chosen'
  BY <1>1 DEF Chosen
<1> QED BY <1>2, <1>3, <1>4

LEMMA BindStep == IInv /\ (Listen \/ MarkStartupOK) => IInv'
<1> SUFFICES ASSUME IInv, Listen \/ MarkStartupOK PROVE IInv'
  OBVIOUS
<1> USE Releases, UpdateAssumption
    DEF IInv, TypeOK, Listen, MarkStartupOK, CountAfter, Goto, unchangedByBoot
<1>1. TypeOK'
  BY DEF ProcSteps, States, NoManager
<1>2. OnlyWhileUp'
  BY DEF OnlyWhileUp
<1>3. Chosen'
  BY DEF Chosen
<1> QED BY <1>1, <1>2, <1>3

-----------------------------------------------------------------------------
(* The end of the process.                                                 *)

\* Whatever becomes of the files, the next start chooses anew.
LEMMA DiesStep ==
  ASSUME IInv, Dies, released' \in Version, image' \in Version, web' \in Content,
         disk' \in [staged : Directory, partial : Directory, attempts : 0..MaxStartAttempts],
         tries' = tries, kills' \in 0..MaxKills
  PROVE  IInv'
<1>1. TypeOK'
  BY Releases DEF IInv, TypeOK, Dies, NoManager, NoCheck, NoRun, ProcSteps, States, Absent
<1>2. OnlyWhileUp' /\ Chosen'
  BY DEF OnlyWhileUp, Chosen, Dies, NoCheck, NoRun
<1> QED BY <1>1, <1>2 DEF IInv

LEMMA EndStep ==
  IInv /\ (BootFails \/ Kill \/ PullImage \/ \E r \in Runner : Restart(r)) => IInv'
<1> SUFFICES ASSUME IInv, BootFails \/ Kill \/ PullImage \/ \E r \in Runner : Restart(r)
             PROVE  IInv'
  OBVIOUS
<1>1. CASE BootFails
  BY <1>1, DiesStep DEF BootFails, StartFails, IInv, TypeOK
<1>2. CASE Kill
  <2>1. disk' \in [staged : Directory, partial : Directory, attempts : 0..MaxStartAttempts]
    BY <1>2, Releases, UpdateAssumption DEF Kill, IInv, TypeOK, Directory
  <2>2. web' \in Content /\ kills' \in 0..MaxKills
    BY <1>2, Releases, UpdateAssumption DEF Kill, IInv, TypeOK
  <2> QED BY <1>2, <2>1, <2>2, DiesStep DEF Kill, IInv, TypeOK
<1>3. CASE PullImage
  BY <1>3, DiesStep DEF PullImage, IInv, TypeOK
<1>4. CASE \E r \in Runner : Restart(r)
  BY <1>4, DiesStep DEF Restart, IInv, TypeOK
<1> QED BY <1>1, <1>2, <1>3, <1>4

-----------------------------------------------------------------------------
(* Check and Apply.                                                        *)

LEMMA CheckStep ==
  ASSUME IInv, NEW c \in Checker, BeginCheck(c) \/ CheckAnswered(c) \/ CheckFails(c)
  PROVE  IInv'
<1> USE DEF IInv, TypeOK, BeginCheck, CheckAnswered, CheckFails, EndCheck, unchangedByManager
<1>1. check' \in [Checker -> [asking : BOOLEAN, prev : States]]
  <2>1. [asking |-> TRUE, prev |-> mgr.state] \in [asking : BOOLEAN, prev : States]
    OBVIOUS
  <2>2. NoCheck \in [asking : BOOLEAN, prev : States]
    BY DEF NoCheck, States
  <2> QED BY <2>1, <2>2
<1>2. mgr' \in [state : States, latest : Version \cup {Absent}]
  BY DEF States
<1>3. TypeOK'
  BY <1>1, <1>2
<1>4. OnlyWhileUp'
  BY DEF OnlyWhileUp, NoCheck
<1>5. Chosen'
  BY DEF Chosen
<1> QED BY <1>3, <1>4, <1>5

\* The steps of a goroutine, but for the restart.
Stages(r) == \/ Apply(r) \/ cleanupLeftovers(r) \/ Download(r) \/ Unpack(r) \/ Extract(r)
             \/ WriteInfo(r) \/ RemoveStaged(r) \/ Rename(r) \/ StageFails(r)

Runs == [at : Staging \cup {"none", "sleep"}, version : Version \cup {Absent}, tmp : BOOLEAN]
Disks == [staged : Directory, partial : Directory, attempts : 0..MaxStartAttempts]
Managers == [state : States, latest : Version \cup {Absent}]

LEMMA FollowingStep == \A at \in Staging : Following[at] \in Staging \cup {"none", "sleep"}
  BY DEF Staging, Following

\* A release that a goroutine stages is one that Check has found.
LEMMA StagedVersion ==
  ASSUME IInv, NEW r \in Runner
  PROVE  run[r] \in Runs /\ run[r].version \in Content
  BY Releases DEF IInv, TypeOK, Runs

LEMMA DirectoryWrites ==
  ASSUME NEW d \in Disks, NEW v \in Content
  PROVE  /\ [d EXCEPT !.partial = Empty] \in Disks
         /\ [d EXCEPT !.partial = [d.partial EXCEPT !.server = v]] \in Disks
         /\ [d EXCEPT !.partial = [d.partial EXCEPT !.dist = v]] \in Disks
         /\ [d EXCEPT !.partial = [d.partial EXCEPT !.info = v]] \in Disks
         /\ [d EXCEPT !.staged = Empty] \in Disks
         /\ [d EXCEPT !.staged = d.partial, !.partial = Empty] \in Disks
  BY Releases DEF Disks, Directory

\* They belong to a process that is up, and change neither it nor what nginx serves.
LEMMA StagesStep ==
  ASSUME IInv, NEW r \in Runner, Stages(r)
  PROVE  IInv'
<1>1. /\ UNCHANGED unchangedByManager /\ UNCHANGED check
      /\ proc.at = "up"
  BY DEF Stages, Apply, cleanupLeftovers, Download, Unpack, Extract, WriteInfo, RemoveStaged,
         Rename, StageFails, Step, unchangedByManager, IInv, OnlyWhileUp, NoRun, Staging, Following
<1>2. /\ run \in [Runner -> Runs] /\ disk \in Disks /\ mgr \in Managers
      /\ run[r] \in Runs /\ run[r].version \in Content
  BY StagedVersion DEF IInv, TypeOK, Runs, Disks, Managers
<1>3. run' \in [Runner -> Runs]
  <2>1. CASE Apply(r)
    <3>1. [NoRun EXCEPT !.at = "clean", !.version = mgr.latest] \in Runs
      BY <1>2 DEF NoRun, Runs, Managers, Staging, Following
    <3> QED BY <2>1, <3>1, <1>2 DEF Apply, SetRun
  <2>2. CASE cleanupLeftovers(r)
    <3>1. [run[r] EXCEPT !.at = "download"] \in Runs
      BY <1>2 DEF Runs, Staging, Following
    <3>2. \A q \in Runner : [run[q] EXCEPT !.tmp = FALSE] \in Runs
      BY <1>2 DEF Runs
    <3> QED BY <2>2, <3>1, <3>2 DEF cleanupLeftovers
  <2>3. CASE Download(r)
    <3>1. [run[r] EXCEPT !.at = "unpack", !.tmp = TRUE] \in Runs
      BY <1>2 DEF Runs, Staging, Following
    <3> QED BY <2>3, <3>1, <1>2 DEF Download, SetRun
  <2>4. CASE \E step \in Staging : Step(r, step)
    <3> PICK step \in Staging : Step(r, step)
      BY <2>4
    <3>1. [run[r] EXCEPT !.at = Following[step]] \in Runs
      BY <1>2, FollowingStep DEF Runs
    <3> QED BY <3>1, <1>2 DEF Step, SetRun
  <2>5. CASE StageFails(r)
    <3>1. NoRun \in Runs
      BY DEF NoRun, Runs
    <3> QED BY <2>5, <3>1, <1>2 DEF StageFails, SetRun
  <2>6. Unpack(r) \/ Extract(r) \/ WriteInfo(r) \/ RemoveStaged(r) \/ Rename(r)
        => \E step \in Staging : Step(r, step)
    BY DEF Unpack, Extract, WriteInfo, RemoveStaged, Rename, Staging, Following
  <2> QED BY <2>1, <2>2, <2>3, <2>4, <2>5, <2>6 DEF Stages
<1>4. disk' \in Disks
  BY <1>2, DirectoryWrites
     DEF Stages, Apply, cleanupLeftovers, Download, Unpack, Extract, WriteInfo, RemoveStaged,
         Rename, StageFails, Partial
<1>5. mgr' \in Managers
  BY <1>2 DEF Stages, Apply, cleanupLeftovers, Download, Unpack, Extract, WriteInfo, RemoveStaged,
              Rename, StageFails, Managers, States
<1>6. TypeOK'
  BY <1>1, <1>3, <1>4, <1>5 DEF IInv, TypeOK, unchangedByManager, Runs, Disks, Managers
<1>7. OnlyWhileUp'
  BY <1>1 DEF OnlyWhileUp, unchangedByManager
<1>8. Chosen'
  BY <1>1 DEF IInv, Chosen, unchangedByManager
<1> QED BY <1>6, <1>7, <1>8 DEF IInv

-----------------------------------------------------------------------------
\* Every step of manager, goroutine, entry script and crash keeps it.
THEOREM Inductive == IInv /\ [Next]_vars => IInv'
<1> SUFFICES ASSUME IInv, [Next]_vars PROVE IInv'
  OBVIOUS
<1>1. CASE Boot
  BY <1>1, StartStep, RunPreflightStep, AttemptsStep, SyncWebStep, BindStep, EndStep DEF Boot
<1>2. CASE Update
  BY <1>2, CheckStep, StagesStep, EndStep DEF Update, Stages
<1>3. CASE Kill \/ PullImage
  BY <1>3, EndStep
<1>4. CASE \E v \in Version : Publish(v)
  BY <1>4 DEF Publish, IInv, TypeOK, OnlyWhileUp, Chosen
<1>5. CASE UNCHANGED vars
  BY <1>5 DEF vars, IInv, TypeOK, OnlyWhileUp, Chosen
<1> QED BY <1>1, <1>2, <1>3, <1>4, <1>5 DEF Next

\* Every file is absent, cut short or of one release, and the count stays in its range:
\* an attempt is counted only when there is one left (preflight.go:67-90).
THEOREM TypeCorrect == Spec => []TypeOK
<1>1. IInv => TypeOK
  BY DEF IInv
<1> QED BY <1>1, InitIInv, Inductive, PTL DEF Spec

\* What is started is one whole release, at least the image's, with its own front end, for
\* any number of crashes and whatever goroutines of Apply do to the same directories
\* (preflight.go:81-90, docker-entrypoint.sh:49-60).
THEOREM WholeRelease == Spec => []OneRelease
<1>1. IInv => OneRelease
  BY Releases DEF IInv, TypeOK, Chosen, OneRelease, ProcSteps
<1> QED BY <1>1, InitIInv, Inductive, PTL DEF Spec

-----------------------------------------------------------------------------
(* When a release is given up.  The count on the volume and the starts that *)
(* did not bind the port agree, but for the moment between the two lines of *)
(* main that bind and that clear the count.                                *)

\* Nothing is known or staged that GitHub has not published.
Latest == /\ image <= released
          /\ mgr.latest <= released
          /\ \A r \in Runner : run[r].version <= released
          /\ disk.staged.info <= released /\ disk.partial.info <= released

\* A release the next start would serve, were it not for the count.
Whole == HashesMatch(disk.staged) /\ disk.staged.info > image

\* What the process knows of the count and of the release it runs.
Accounts ==
    /\ proc.at = "up" => disk.attempts = 0
    /\ proc.at = "bound" => proc.binary \notin Broken
    /\ Whole /\ proc.at \in {"count", "web", "boot", "bound"} => proc.binary = disk.staged.info
    /\ proc.at = "forget" => ~Whole

GInv == IInv /\ Latest /\ Accounts

\* The releases are numbers, and no file is one before it is written.
LEMMA Numbers ==
    ASSUME IInv
    PROVE  /\ released \in Nat /\ image \in Nat /\ released > 0
           /\ disk.staged.info \in Int /\ disk.partial.info \in Int
           /\ disk.staged.info > image => disk.staged.info \in Version
           /\ mgr.latest \in Int /\ \A r \in Runner : run[r].version \in Int
           /\ Absent \in Int /\ Absent < released
<1>1. Absent = 0 /\ Garbage = -1
  BY DEF Absent, Garbage
<1>2. Content \subseteq Int
  BY <1>1, Releases DEF Content
<1> QED BY <1>1, <1>2, Releases DEF IInv, TypeOK, Directory

LEMMA InitGInv == Init => GInv
<1> SUFFICES ASSUME Init PROVE GInv
  OBVIOUS
<1>1. IInv
  BY InitIInv
<1>2. Latest
  BY <1>1, Numbers DEF Init, Latest, Empty, NoManager, NoRun
<1>3. Accounts
  BY DEF Init, Accounts
<1> QED BY <1>1, <1>2, <1>3 DEF GInv

\* A step of the entrypoint or of main publishes nothing and stages nothing.
LEMMA BootLatest ==
    ASSUME GInv, Boot
    PROVE  Latest' /\ released' = released /\ image' = image
<1> USE Numbers DEF GInv, Latest
<1>1. CASE Start \/ RunPreflight \/ ForgetAttempts \/ CountAttempt \/ SyncWeb \/ MarkStartupOK
  <2>1. UNCHANGED unchangedByBoot /\ disk'.partial = disk.partial
        /\ (disk'.staged = disk.staged \/ disk'.staged = Empty)
    BY <1>1 DEF Start, RunPreflight, ForgetAttempts, CountAttempt, SyncWeb, MarkStartupOK, Discard,
                IInv, TypeOK, unchangedByBoot
  <2>2. disk'.staged.info = disk.staged.info \/ disk'.staged.info = Absent
    BY <2>1 DEF Empty
  <2> QED BY <2>1, <2>2 DEF unchangedByBoot
<1>2. CASE Listen
  BY <1>2 DEF Listen, NoManager
<1>3. CASE BootFails
  BY <1>3 DEF BootFails, StartFails, Dies, NoManager, NoRun
<1> QED BY <1>1, <1>2, <1>3 DEF Boot

\* What the server stages it has been told of.
LEMMA UpdateLatest ==
    ASSUME GInv, Update
    PROVE  Latest' /\ released' = released /\ image' = image
<1> USE Numbers DEF GInv, Latest
<1>1. ASSUME NEW c \in Checker, BeginCheck(c) \/ CheckAnswered(c) \/ CheckFails(c)
      PROVE  Latest' /\ released' = released /\ image' = image
  <2>1. UNCHANGED <<disk, run>> /\ UNCHANGED unchangedByManager
    BY <1>1 DEF BeginCheck, CheckAnswered, CheckFails, EndCheck
  <2>2. mgr'.latest = mgr.latest \/ mgr'.latest = released
    BY <1>1 DEF BeginCheck, CheckAnswered, CheckFails, EndCheck, IInv, TypeOK
  <2> QED BY <2>1, <2>2 DEF unchangedByManager
<1>2. ASSUME NEW r \in Runner, Stages(r)
      PROVE  Latest' /\ released' = released /\ image' = image
  <2>1. UNCHANGED unchangedByManager
    BY <1>2 DEF Stages, Apply, cleanupLeftovers, Download, Unpack, Extract, WriteInfo,
                RemoveStaged, Rename, StageFails
  <2>2. mgr'.latest = mgr.latest
    BY <1>2 DEF Stages, Apply, cleanupLeftovers, Download, Unpack, Extract, WriteInfo,
                RemoveStaged, Rename, StageFails, IInv, TypeOK
  <2>3. run \in [Runner -> Runs] /\ disk \in Disks
    BY DEF IInv, TypeOK, Runs, Disks
  <2>4. \A q \in Runner : run'[q].version \in {run[q].version, mgr.latest, Absent}
    <3>1. CASE Apply(r)
      BY <2>3, <3>1 DEF Apply, SetRun, NoRun, Runs
    <3>2. CASE cleanupLeftovers(r)
      <4> SUFFICES ASSUME NEW q \in Runner PROVE run'[q].version = run[q].version
        OBVIOUS
      <4>1. run[q] \in Runs /\ run'[q] = IF q = r THEN [run[r] EXCEPT !.at = "download"]
                                                  ELSE [run[q] EXCEPT !.tmp = FALSE]
        BY <2>3, <3>2 DEF cleanupLeftovers
      <4> QED BY <4>1 DEF Runs
    <3>3. CASE Download(r)
      BY <2>3, <3>3 DEF Download, SetRun, Runs
    <3>4. ASSUME NEW step, Step(r, step)
          PROVE  \A q \in Runner : run'[q].version = run[q].version
      BY <2>3, <3>4 DEF Step, SetRun, Runs
    <3>5. CASE Unpack(r) \/ Extract(r) \/ WriteInfo(r) \/ RemoveStaged(r) \/ Rename(r)
      BY <3>4, <3>5 DEF Unpack, Extract, WriteInfo, RemoveStaged, Rename
    <3>6. CASE StageFails(r)
      BY <2>3, <3>6 DEF StageFails, SetRun, NoRun
    <3> QED BY <1>2, <3>1, <3>2, <3>3, <3>5, <3>6 DEF Stages
  <2>5. /\ disk'.staged.info \in {disk.staged.info, disk.partial.info, Absent}
        /\ disk'.partial.info \in {disk.partial.info, run[r].version, Absent}
    <3>1. disk.partial \in Directory /\ disk.staged \in Directory
      BY <2>3 DEF Disks
    <3>2. Empty.info = Absent
      BY DEF Empty
    <3>3. CASE Apply(r) \/ Download(r)
      BY <3>3 DEF Apply, Download
    <3>4. CASE cleanupLeftovers(r) \/ Unpack(r) \/ StageFails(r)
      BY <2>3, <3>2, <3>4 DEF cleanupLeftovers, Unpack, StageFails, Partial, Disks
    <3>5. CASE Extract(r)
      BY <2>3, <3>1, <3>5 DEF Extract, Partial, Disks, Directory
    <3>6. CASE WriteInfo(r)
      BY <2>3, <3>1, <3>6 DEF WriteInfo, Partial, Disks, Directory
    <3>7. CASE RemoveStaged(r) \/ Rename(r)
      BY <2>3, <3>2, <3>7 DEF RemoveStaged, Rename, Disks
    <3> QED BY <1>2, <3>3, <3>4, <3>5, <3>6, <3>7 DEF Stages
  <2> QED BY <2>1, <2>2, <2>4, <2>5 DEF unchangedByManager
<1>3. ASSUME NEW r \in Runner, Restart(r)
      PROVE  Latest' /\ released' = released /\ image' = image
  BY <1>3 DEF Restart, Dies, NoManager, NoRun
<1> QED BY <1>1, <1>2, <1>3 DEF Update, Stages

\* A crash spares the names of the releases, an image is a published one.
LEMMA OtherLatest ==
    ASSUME GInv, Kill \/ PullImage \/ \E v \in Version : Publish(v)
    PROVE  Latest'
<1> USE Numbers DEF GInv, Latest
<1>1. CASE Kill
  <2>1. /\ disk'.staged.info = disk.staged.info /\ disk'.partial = disk.partial
        /\ released' = released /\ image' = image
    BY <1>1 DEF Kill, IInv, TypeOK, Directory
  <2> QED BY <1>1, <2>1 DEF Kill, Dies, NoManager, NoRun
<1>2. CASE PullImage
  BY <1>2 DEF PullImage, Dies, NoManager, NoRun
<1>3. ASSUME NEW v \in Version, Publish(v) PROVE Latest'
  <2>1. v \in Nat /\ v > released /\ released' = v
    BY <1>3, Releases DEF Publish
  <2>2. UNCHANGED <<image, mgr, run, disk>>
    BY <1>3 DEF Publish
  <2> QED BY <2>1, <2>2
<1> QED BY <1>1, <1>2, <1>3

\* A directory that is discarded is not a release.
LEMMA EmptyIsNone == ASSUME IInv PROVE ~(Empty.info > image)
<1>1. image \in Nat /\ Empty.info = 0
  BY Numbers DEF Empty, Absent
<1> QED BY <1>1

\* What the entrypoint does with the directory, and where it goes.
LEMMA BootAccounts ==
    ASSUME GInv, Boot
    PROVE  Accounts'
<1> USE DEF GInv
<1>1. image' = image
  BY BootLatest
<1>2. CASE Start
  <2>1. disk' = disk /\ proc'.at \in {"web", "preflight"} /\ proc'.binary = image
        /\ (proc'.at = "web" => disk.staged.server = Absent)
    BY <1>2 DEF Start, Choose
  <2>2. Whole => disk.staged.server # Absent
    BY Numbers DEF Whole, HashesMatch, Absent
  <2> QED BY <1>1, <2>1, <2>2 DEF Accounts, Whole
<1>3. CASE RunPreflight
  <2>1. CASE ServesStaged(disk)
    <3>1. /\ disk' = disk /\ proc'.at = "count" /\ proc'.binary = disk.staged.server
          /\ disk.staged.server = disk.staged.info
      BY <1>3, <2>1 DEF RunPreflight, Choose, ServesStaged, HashesMatch
    <3> QED BY <1>1, <3>1 DEF Accounts
  <2>2. CASE ~ServesStaged(disk)
    <3>1. disk'.staged = Empty /\ proc'.at \in {"forget", "web"}
      BY <1>3, <2>2 DEF RunPreflight, Discard, Goto, IInv, TypeOK
    <3>2. ~Whole'
      BY <1>1, <3>1, EmptyIsNone DEF Whole
    <3> QED BY <3>1, <3>2 DEF Accounts
  <2> QED BY <2>1, <2>2
<1>4. CASE ForgetAttempts \/ CountAttempt \/ SyncWeb
  <2>1. /\ disk'.staged = disk.staged /\ proc'.binary = proc.binary
        /\ \/ proc'.at = "web" /\ proc.at \in {"forget", "count"}
           \/ proc'.at = "boot" /\ proc.at = "web"
    BY <1>4 DEF ForgetAttempts, CountAttempt, SyncWeb, Goto, IInv, TypeOK
  <2>2. Whole' = Whole
    BY <1>1, <2>1 DEF Whole
  <2> QED BY <2>1, <2>2 DEF Accounts
<1>5. CASE Listen
  <2>1. /\ disk' = disk /\ proc'.binary = proc.binary /\ proc'.at = "bound"
        /\ proc.at = "boot" /\ proc.binary \notin Broken
    BY <1>5 DEF Listen, Goto, IInv, TypeOK
  <2>2. Whole' = Whole
    BY <1>1, <2>1 DEF Whole
  <2> QED BY <2>1, <2>2 DEF Accounts
<1>6. CASE MarkStartupOK
  <2>1. disk'.attempts = 0 /\ proc'.at = "up"
    BY <1>6 DEF MarkStartupOK, CountAfter, Goto, IInv, TypeOK
  <2> QED BY <2>1 DEF Accounts
<1>7. CASE BootFails
  BY <1>7 DEF BootFails, Dies, Accounts
<1> QED BY <1>2, <1>3, <1>4, <1>5, <1>6, <1>7 DEF Boot

\* Only a process that is up checks and stages, and leaves the count alone.
LEMMA UpdateQuiet ==
    ASSUME IInv, Update
    PROVE  /\ proc.at = "up" /\ disk'.attempts = disk.attempts
           /\ proc' = proc \/ proc'.at = "down"
<1> DEFINE Goal == /\ proc.at = "up" /\ disk'.attempts = disk.attempts
                   /\ proc' = proc \/ proc'.at = "down"
<1>1. ASSUME NEW r \in Runner, Restart(r) PROVE Goal
  BY <1>1 DEF Restart, Dies, IInv, OnlyWhileUp
<1>2. ASSUME NEW c \in Checker, BeginCheck(c) \/ CheckAnswered(c) \/ CheckFails(c) PROVE Goal
  BY <1>2 DEF BeginCheck, CheckAnswered, CheckFails, EndCheck, unchangedByManager, IInv,
              OnlyWhileUp
<1>3. ASSUME NEW r \in Runner, Stages(r) PROVE Goal
  <2>1. run[r].at # "none" \/ proc.at = "up"
    BY <1>3 DEF Stages, Apply, cleanupLeftovers, Download, Unpack, Extract, WriteInfo,
                RemoveStaged, Rename, StageFails, Step, Staging, Following
  <2>2. disk \in Disks
    BY DEF IInv, TypeOK, Disks
  <2>3. disk'.attempts = disk.attempts /\ proc' = proc
    BY <1>3, <2>2 DEF Stages, Apply, cleanupLeftovers, Download, Unpack, Extract, WriteInfo,
                      RemoveStaged, Rename, StageFails, Partial, unchangedByManager, Disks
  <2> QED BY <2>1, <2>3 DEF IInv, OnlyWhileUp
<1> QED BY <1>1, <1>2, <1>3 DEF Update, Stages

\* A process that is up has no attempt to account for, and a dead one no binary.
LEMMA OtherAccounts ==
    ASSUME GInv, Update \/ Kill \/ PullImage \/ \E v \in Version : Publish(v)
    PROVE  Accounts'
<1>1. CASE Update
  BY <1>1, UpdateQuiet DEF GInv, Accounts
<1>2. CASE Kill \/ PullImage
  BY <1>2 DEF Kill, PullImage, Dies, Accounts
<1>3. CASE \E v \in Version : Publish(v)
  BY <1>3 DEF Publish, GInv, Accounts, Whole
<1> QED BY <1>1, <1>2, <1>3

LEMMA GInvInductive == GInv /\ [Next]_vars => GInv'
<1> SUFFICES ASSUME GInv, [Next]_vars PROVE GInv'
  OBVIOUS
<1>1. IInv'
  BY Inductive DEF GInv
<1>2. Next => Latest' /\ Accounts'
  BY BootLatest, UpdateLatest, OtherLatest, BootAccounts, OtherAccounts DEF Next
<1>3. UNCHANGED vars => Latest' /\ Accounts'
  BY DEF vars, GInv, Latest, Accounts, Whole
<1> QED BY <1>1, <1>2, <1>3 DEF GInv

\* A start of the staged release that has been counted and has not ended.
UnderWay == proc.at \in {"web", "boot", "bound"}

\* A step that binds, ends and counts nothing.
Quiet == /\ tries' = tries /\ kills' = kills
         /\ UnderWay => UnderWay'
         /\ proc.at = "bound" => proc'.at = "bound"

\* Which steps leave a release that could be served with a count.
LEMMA CountShape ==
    ASSUME GInv, [Next]_vars
    PROVE  \/ ~Whole'
           \/ disk'.attempts = 0
           \/ /\ Whole /\ disk'.staged = disk.staged
              /\ \/ CountAttempt
                 \/ /\ disk'.attempts = disk.attempts
                    /\ Listen \/ BootFails \/ Kill \/ Quiet
<1>1. CASE Boot
  <2>1. image' = image
    BY <1>1, BootLatest
  <2>2. CASE Start
    <3>1. proc.at = "down" /\ UNCHANGED <<disk, tries, kills>>
      BY <2>2 DEF Start, unchangedByBoot
    <3> QED BY <2>1, <3>1 DEF Whole, Quiet, UnderWay
  <2>3. CASE RunPreflight
    <3>1. proc.at = "preflight" /\ UNCHANGED <<tries, kills>>
          /\ (disk' = disk \/ disk'.staged = Empty)
      BY <2>3 DEF RunPreflight, Discard, unchangedByBoot, GInv, IInv, TypeOK
    <3> QED BY <2>1, <3>1, EmptyIsNone DEF Whole, Quiet, UnderWay, GInv
  <2>4. CASE ForgetAttempts \/ MarkStartupOK
    BY <2>4 DEF ForgetAttempts, MarkStartupOK, CountAfter, GInv, IInv, TypeOK
  <2>5. CASE CountAttempt
    BY <2>1, <2>5 DEF CountAttempt, Whole, GInv, IInv, TypeOK
  <2>6. CASE SyncWeb
    <3>1. /\ proc.at = "web" /\ proc'.at = "boot" /\ UNCHANGED <<disk, tries, kills>>
      BY <2>6 DEF SyncWeb, Goto, unchangedByBoot, GInv, IInv, TypeOK
    <3> QED BY <2>1, <3>1 DEF Whole, Quiet, UnderWay
  <2>7. CASE Listen \/ BootFails
    BY <2>1, <2>7 DEF Listen, BootFails, StartFails, Whole
  <2> QED BY <1>1, <2>2, <2>3, <2>4, <2>5, <2>6, <2>7 DEF Boot
<1>2. CASE Update
  BY <1>2, UpdateQuiet DEF GInv, Accounts
<1>3. CASE Kill
  <2>1. disk'.attempts = 0 \/ disk' = disk
    <3>1. disk \in Disks
      BY DEF GInv, IInv, TypeOK, Disks
    <3>2. ASSUME NEW r \in Runner, run[r].at = "sleep" PROVE disk.attempts = 0
      BY <3>2 DEF GInv, IInv, OnlyWhileUp, Accounts
    <3> QED BY <1>3, <3>1, <3>2 DEF Kill, Disks
  <2> QED BY <1>3, <2>1 DEF Kill, Whole
<1>4. CASE PullImage
  <2>1. image' = released /\ disk' = disk
    BY <1>4 DEF PullImage
  <2>2. ~(disk.staged.info > released)
    BY Numbers DEF GInv, Latest
  <2> QED BY <2>1, <2>2 DEF Whole
<1>5. CASE (\E v \in Version : Publish(v)) \/ UNCHANGED vars
  BY <1>5 DEF Publish, vars, Whole, Quiet, UnderWay
<1> QED BY <1>1, <1>2, <1>3, <1>4, <1>5 DEF Next

\* The count of a release that cannot bind is that of the starts that did not; one
\* that can bind is counted once for each crash, and for the start under way.
Tally == Whole => IF disk.staged.info \in Broken
                  THEN disk.attempts <= tries
                  ELSE disk.attempts <= IF UnderWay THEN kills + 1 ELSE kills

\* Outside the window the count is that of the starts that did not bind.
Counted == Whole /\ proc.at # "bound" => disk.attempts <= tries

\* The numbers of a state, and an attempt more.
LEMMA Counts ==
    ASSUME GInv, [Next]_vars
    PROVE  /\ disk.attempts \in Nat /\ tries \in Nat /\ kills \in Nat
           /\ disk'.attempts \in Nat /\ tries' \in Nat /\ kills' \in Nat
           /\ CountAttempt => /\ disk'.attempts = disk.attempts + 1 /\ kills' = kills
                              /\ \/ tries' = tries + 1
                                 \/ tries' = tries /\ disk'.attempts <= tries'
                              /\ ~UnderWay /\ UnderWay'
<1>1. IInv /\ IInv'
  BY Inductive DEF GInv
<1>2. /\ disk.attempts \in Nat /\ tries \in Nat /\ kills \in Nat
      /\ disk'.attempts \in Nat /\ tries' \in Nat /\ kills' \in Nat
  BY <1>1, UpdateAssumption DEF IInv, TypeOK
<1>3. ASSUME CountAttempt
      PROVE  /\ disk'.attempts = disk.attempts + 1 /\ kills' = kills
             /\ \/ tries' = tries + 1
                \/ tries' = tries /\ disk'.attempts <= tries'
             /\ ~UnderWay /\ UnderWay'
  <2>1. /\ disk'.attempts = disk.attempts + 1 /\ disk.attempts < MaxStartAttempts
        /\ kills' = kills /\ tries \in 0..MaxStartAttempts
        /\ tries' = IF tries < MaxStartAttempts THEN tries + 1 ELSE tries
    BY <1>1, <1>3 DEF CountAttempt, unchangedByBoot, IInv, TypeOK, Chosen
  <2>2. ~UnderWay /\ UnderWay'
    BY <1>1, <1>3 DEF CountAttempt, Goto, UnderWay, IInv, TypeOK
  <2> QED BY <1>2, <2>1, <2>2, UpdateAssumption
<1> QED BY <1>2, <1>3

LEMMA TallyStep == GInv /\ Tally /\ [Next]_vars => Tally'
<1> SUFFICES ASSUME GInv, Tally, [Next]_vars, Whole', disk'.attempts # 0,
                    Whole, disk'.staged = disk.staged
             PROVE  Tally'
  BY CountShape, Counts DEF Tally
<1> USE Counts DEF Tally
<1>1. CASE CountAttempt
  BY <1>1
<1>2. CASE Quiet /\ disk'.attempts = disk.attempts
  BY <1>2 DEF Quiet
<1>3. CASE Listen /\ disk'.attempts = disk.attempts
  <2>1. /\ disk.staged.info = proc.binary /\ proc.binary \notin Broken
        /\ UnderWay /\ UnderWay' /\ kills' = kills
    BY <1>3 DEF Listen, Goto, UnderWay, GInv, Accounts, IInv, TypeOK
  <2> QED BY <1>3, <2>1
<1>4. CASE BootFails /\ disk'.attempts = disk.attempts
  <2>1. disk.staged.info = proc.binary /\ proc.binary \in Broken /\ tries' = tries
    BY <1>4 DEF BootFails, GInv, Accounts
  <2> QED BY <1>4, <2>1
<1>5. CASE Kill /\ disk'.attempts = disk.attempts
  <2>1. kills' = kills + 1 /\ tries' = tries /\ ~UnderWay'
    BY <1>5 DEF Kill, Dies, UnderWay
  <2> QED BY <1>5, <2>1
<1> QED BY <1>1, <1>2, <1>3, <1>4, <1>5, CountShape

LEMMA CountedStep ==
    ASSUME GInv, Counted, [Next]_vars, ~(Kill /\ proc.at = "bound")
    PROVE  Counted'
<1> SUFFICES ASSUME Whole', proc'.at # "bound", disk'.attempts # 0,
                    Whole, disk'.staged = disk.staged
             PROVE  disk'.attempts <= tries'
  BY CountShape, Counts DEF Counted
<1> USE Counts DEF Counted
<1>1. CASE CountAttempt
  BY <1>1 DEF CountAttempt
<1>2. CASE Quiet /\ disk'.attempts = disk.attempts
  BY <1>2 DEF Quiet
<1>3. CASE Listen
  BY <1>3 DEF Listen, Goto, GInv, IInv, TypeOK
<1>4. CASE (BootFails \/ Kill) /\ disk'.attempts = disk.attempts
  BY <1>4 DEF BootFails, Kill
<1> QED BY <1>1, <1>2, <1>3, <1>4, CountShape

\* A release that is given up while it is whole and newer has used up the count.
LEMMA GivenUpStep ==
    ASSUME GInv, RunPreflight, disk'.staged # disk.staged, HashesMatch(disk.staged),
           disk.staged.info > image
    PROVE  Whole /\ proc.at = "preflight" /\ disk.attempts >= MaxStartAttempts
<1>1. ~ServesStaged(disk) /\ Whole /\ proc.at = "preflight"
  BY DEF RunPreflight, Whole
<1>2. ~(disk.attempts < MaxStartAttempts)
  BY <1>1 DEF ServesStaged
<1>3. disk.attempts \in Nat /\ MaxStartAttempts \in Nat
  BY UpdateAssumption DEF GInv, IInv, TypeOK
<1> QED BY <1>1, <1>2, <1>3

LEMMA InitTallies == Init => Tally /\ Counted
<1> SUFFICES ASSUME Init PROVE Tally /\ Counted
  OBVIOUS
<1>1. ~Whole
  BY InitGInv, EmptyIsNone DEF Init, Whole, GInv
<1> QED BY <1>1 DEF Tally, Counted

\* A staged release that is whole and newer than the image is given up only after
\* MaxStartAttempts starts in a row that did not bind the port, provided there are
\* fewer crashes of the host than that: each one that hits a healthy release in
\* its start counts against it, and one between the two lines of main that bind
\* and clear the count leaves the count (preflight.go:67-79, main.go:118-128).
THEOREM GivenUp ==
    ASSUME MaxKills < MaxStartAttempts
    PROVE  Spec => GivenUpAfterThree
<1>1. Init => GInv /\ Tally
  BY InitGInv, InitTallies
<1>2. GInv /\ Tally /\ [Next]_vars => (GInv /\ Tally)'
  BY GInvInductive, TallyStep
<1>3. GInv /\ Tally /\ RunPreflight /\ disk'.staged # disk.staged
        /\ HashesMatch(disk.staged) /\ disk.staged.info > image => tries >= MaxStartAttempts
  <2> SUFFICES ASSUME GInv, Tally, RunPreflight, disk'.staged # disk.staged,
                      HashesMatch(disk.staged), disk.staged.info > image
               PROVE  tries >= MaxStartAttempts
    OBVIOUS
  <2>1. Whole /\ ~UnderWay /\ disk.attempts >= MaxStartAttempts
    BY GivenUpStep DEF UnderWay
  <2>2. kills <= MaxKills /\ kills \in Nat /\ tries \in Nat /\ disk.attempts \in Nat
    BY UpdateAssumption DEF GInv, IInv, TypeOK
  <2>3. disk.attempts <= tries \/ disk.attempts <= kills
    BY <2>1 DEF Tally
  <2> QED BY <2>1, <2>2, <2>3, UpdateAssumption
<1> QED BY <1>1, <1>2, <1>3, PTL DEF Spec, GivenUpAfterThree

\* The same for any number of crashes, provided that none hits the moment between the
\* two lines of main that bind the port and clear the count (main.go:118-128).
THEOREM GivenUpOutsideWindow ==
    Spec /\ [][~(Kill /\ proc.at = "bound")]_vars => GivenUpAfterThree
<1>1. Init => GInv /\ Counted
  BY InitGInv, InitTallies
<1>2. GInv /\ Counted /\ [Next]_vars /\ [~(Kill /\ proc.at = "bound")]_vars
        => (GInv /\ Counted)'
  <2> SUFFICES ASSUME GInv, Counted, [Next]_vars, [~(Kill /\ proc.at = "bound")]_vars
               PROVE  (GInv /\ Counted)'
    OBVIOUS
  <2>1. CASE UNCHANGED vars
    BY <2>1, GInvInductive DEF vars, Counted, Whole
  <2>2. CASE ~(Kill /\ proc.at = "bound")
    BY <2>2, GInvInductive, CountedStep
  <2> QED BY <2>1, <2>2
<1>3. GInv /\ Counted /\ RunPreflight /\ disk'.staged # disk.staged
        /\ HashesMatch(disk.staged) /\ disk.staged.info > image => tries >= MaxStartAttempts
  <2> SUFFICES ASSUME GInv, Counted, RunPreflight, disk'.staged # disk.staged,
                      HashesMatch(disk.staged), disk.staged.info > image
               PROVE  tries >= MaxStartAttempts
    OBVIOUS
  <2>1. disk.attempts >= MaxStartAttempts /\ disk.attempts <= tries
    BY GivenUpStep DEF Counted
  <2>2. tries \in Nat /\ disk.attempts \in Nat
    BY DEF GInv, IInv, TypeOK
  <2> QED BY <2>1, <2>2, UpdateAssumption
<1> QED BY <1>1, <1>2, <1>3, PTL DEF Spec, GivenUpAfterThree

=============================================================================
