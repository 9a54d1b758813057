----------------------------- MODULE SelfUpdate -----------------------------
(* Self-update of the server (internal/update, cmd/server/main.go and         *)
(* docker-entrypoint.sh): an administrator has a release staged on the data   *)
(* volume, the process exits, and the entrypoint of the next start decides    *)
(* between the staged release and the one of the image.  The volume and the   *)
(* web directory survive a crash; everything else does not.                   *)
EXTENDS Integers, FiniteSets

CONSTANTS
    Version,            \* releases, ordered as semver orders them
    Broken,             \* releases that never bind their port
    Checker, Runner,    \* calls of Check in flight; goroutines started by Apply
    MaxStartAttempts,   \* maxStartAttempts
    MaxKills            \* bound of the model: crashes of host or container

ASSUME UpdateAssumption ==
    /\ Version \subseteq Nat \ {0} /\ Broken \subseteq Version
    /\ MaxStartAttempts \in Nat \ {0} /\ MaxKills \in Nat

VARIABLES
    released,           \* the latest release on GitHub (external)
    image,              \* the release in the container's image
    disk,               \* dataDir/updates: staged, partial and attempts
    web,                \* the release in the volume nginx serves
    proc,               \* the container: a step of the entrypoint or of main
    mgr,                \* Manager: state, latest and staged
    check,              \* the calls of Check that wait for GitHub
    run,                \* the runs of Manager.run
    tries,              \* history: starts of the staged release since the port was
                        \* last bound, counted up to the limit
    kills

vars == <<released, image, disk, web, proc, mgr, check, run, tries, kills>>

Absent  == 0
Garbage == -1           \* a file cut short
Content == Version \cup {Absent, Garbage}

\* A staging directory: the binary with its VERSION, the front end, staged.json.
Directory == [server : Content, dist : Content, info : Content]
Empty == [server |-> Absent, dist |-> Absent, info |-> Absent]

\* Every file has the hash that staged.json lists.
HashesMatch(d) == d.server = d.info /\ d.dist = d.info

ProcSteps == {"down", "preflight", "forget", "count", "web", "boot", "bound", "up"}
States == {"idle", "checking", "update-available", "downloading", "verifying",
           "staged", "failed"}
Busy == {"downloading", "verifying", "staged"}

NoRun   == [at |-> "none", version |-> Absent, tmp |-> FALSE]
NoCheck == [asking |-> FALSE, prev |-> "idle"]
NoManager == [state |-> "idle", latest |-> Absent]

Init == /\ released \in Version /\ image \in Version /\ \A v \in Version : image <= v
        /\ disk = [staged |-> Empty, partial |-> Empty, attempts |-> 0]
        /\ web = Absent
        /\ proc = [at |-> "down", binary |-> Absent]
        /\ mgr = NoManager
        /\ check = [c \in Checker |-> NoCheck]
        /\ run = [r \in Runner |-> NoRun]
        /\ tries = 0 /\ kills = 0

-----------------------------------------------------------------------------
(* The entrypoint and RunPreflight.  Only one process of the container runs.  *)

Goto(step) == proc' = [proc EXCEPT !.at = step]
Choose(step, binary) == proc' = [at |-> step, binary |-> binary]
unchangedByBoot == <<released, image, mgr, check, run, kills>>

Start == /\ proc.at = "down"
         /\ Choose(IF disk.staged.server = Absent THEN "web" ELSE "preflight", image)
         /\ UNCHANGED <<disk, web, tries>> /\ UNCHANGED unchangedByBoot

Discard(reason) == /\ disk' = [disk EXCEPT !.staged = Empty]
                   /\ Goto(reason)

\* Mutants of ServesStaged: the files are not hashed again; the count is not asked.
ServesStagedUnchecked(d) ==
    /\ d.staged.info > image
    /\ d.attempts < MaxStartAttempts
ServesStagedForever(d) == d.staged.info > image /\ HashesMatch(d.staged)
ServesStaged(d) ==
    /\ d.staged.info > image                      \* and is readable
    /\ d.attempts < MaxStartAttempts
    /\ HashesMatch(d.staged)

\* A directory without a readable staged.json goes without its count; every other
\* refusal removes the count too, after the directory.
RunPreflight ==
    /\ proc.at = "preflight"
    /\ IF ServesStaged(disk)
         THEN Choose("count", disk.staged.server) /\ UNCHANGED disk
         ELSE Discard(IF disk.staged.info \in Version THEN "forget" ELSE "web")
    /\ UNCHANGED <<web, tries>> /\ UNCHANGED unchangedByBoot

ForgetAttempts ==
    /\ proc.at = "forget"
    /\ disk' = [disk EXCEPT !.attempts = 0]
    /\ Goto("web")
    /\ UNCHANGED <<web, tries>> /\ UNCHANGED unchangedByBoot

CountAttempt ==
    /\ proc.at = "count"
    /\ disk' = [disk EXCEPT !.attempts = @ + 1]
    /\ tries' = IF tries < MaxStartAttempts THEN tries + 1 ELSE tries
    /\ Goto("web")
    /\ UNCHANGED web /\ UNCHANGED unchangedByBoot

\* The front end comes from where the binary came from.
WebSource == IF proc.binary # image THEN disk.staged.dist ELSE image

SyncWeb ==
    /\ proc.at = "web"
    /\ web' = WebSource
    /\ Goto("boot")
    /\ UNCHANGED <<disk, tries>> /\ UNCHANGED unchangedByBoot

-----------------------------------------------------------------------------
(* main: configuration, database, New, then Listen and MarkStartupOK.        *)

Listen ==
    /\ proc.at = "boot" /\ proc.binary \notin Broken
    /\ Goto("bound")
    /\ mgr' = [NoManager EXCEPT !.state = IF disk.staged.info \in Version THEN "staged" ELSE "idle"]
    /\ tries' = 0
    /\ UNCHANGED <<released, image, disk, web, check, run, kills>>

\* Mutant of CountAfter: the count survives a start that bound its port.
CountAfterKept(n) == n
CountAfter(n) == 0

MarkStartupOK ==
    /\ proc.at = "bound"
    /\ disk' = [disk EXCEPT !.attempts = CountAfter(@)]
    /\ Goto("up")
    /\ UNCHANGED <<web, tries>> /\ UNCHANGED unchangedByBoot

\* The process is gone, and with it the calls and the goroutines.
Dies == /\ proc' = [at |-> "down", binary |-> Absent]
        /\ mgr' = NoManager
        /\ check' = [c \in Checker |-> NoCheck]
        /\ run' = [r \in Runner |-> NoRun]

\* Mutant of StartFails: main clears the count before it knows.
StartFailsCleared == disk' = [disk EXCEPT !.attempts = 0]
StartFails == disk' = disk

BootFails ==
    /\ proc.at = "boot" /\ proc.binary \in Broken
    /\ StartFails /\ Dies
    /\ UNCHANGED <<released, image, web, tries, kills>>

\* A crash of the host at any moment leaves the file being written cut short.
Kill ==
    /\ proc.at # "down" /\ kills < MaxKills
    /\ Dies
    /\ kills' = kills + 1
    /\ web' \in {web} \cup {Garbage : x \in {proc.at} \cap {"web"}}
    /\ disk' \in {disk} \cup {[disk EXCEPT !.attempts = 0] : x \in {proc.at} \cap {"count"}}
                      \cup {[disk EXCEPT !.staged.server = Garbage] :
                              r \in {r \in Runner : run[r].at = "sleep"}}
    /\ UNCHANGED <<released, image, tries>>

-----------------------------------------------------------------------------
(* The administrator and GitHub (external).                                  *)

Publish(v) == /\ v > released
              /\ released' = v
              /\ UNCHANGED <<image, disk, web, proc, mgr, check, run, tries, kills>>

\* docker compose pull and up: a new image and a new container.
\* An image that itself starts.
PullImage == /\ released > image /\ released \notin Broken
             /\ image' = released
             /\ Dies
             /\ UNCHANGED <<released, disk, web, tries, kills>>

-----------------------------------------------------------------------------
(* Manager.Check: the state is read before GitHub is asked and written after. *)

unchangedByManager == <<released, image, web, proc, tries, kills>>

BeginCheck(c) ==
    /\ proc.at = "up" /\ ~check[c].asking
    /\ mgr.state \notin Busy
    /\ check' = [check EXCEPT ![c] = [asking |-> TRUE, prev |-> mgr.state]]
    /\ mgr' = [mgr EXCEPT !.state = "checking"]
    /\ UNCHANGED <<disk, run>> /\ UNCHANGED unchangedByManager

EndCheck(c, m) ==
    /\ check[c].asking
    /\ check' = [check EXCEPT ![c] = NoCheck]
    /\ mgr' = m
    /\ UNCHANGED <<disk, run>> /\ UNCHANGED unchangedByManager

CheckAnswered(c) ==
    EndCheck(c, [state |-> IF released > proc.binary THEN "update-available" ELSE "idle",
                 latest |-> released])

CheckFails(c) == EndCheck(c, [mgr EXCEPT !.state = check[c].prev])

-----------------------------------------------------------------------------
(* Manager.Apply and the goroutine it starts: run and stage.                 *)

SetRun(r, rec) == run' = [run EXCEPT ![r] = rec]
Following == [clean |-> "download", download |-> "unpack", unpack |-> "server", server |-> "dist",
          dist |-> "info", info |-> "swap", swap |-> "rename", rename |-> "sleep"]
Staging == DOMAIN Following

\* The goroutine is at this step and goes on to the next.
Step(r, step) == /\ run[r].at = step
                 /\ SetRun(r, [run[r] EXCEPT !.at = Following[step]])
Partial(d) == disk' = [disk EXCEPT !.partial = d]

Apply(r) ==
    /\ proc.at = "up" /\ run[r] = NoRun
    /\ mgr.state \notin Busy \cup {"checking"}
    /\ mgr.latest > proc.binary
    /\ mgr' = [mgr EXCEPT !.state = "downloading"]
    /\ SetRun(r, [NoRun EXCEPT !.at = "clean", !.version = mgr.latest])
    /\ UNCHANGED <<disk, check>> /\ UNCHANGED unchangedByManager

\* cleanupLeftovers removes the archive of another goroutine too.
cleanupLeftovers(r) ==
    /\ run[r].at = "clean"
    /\ Partial(Empty)
    /\ run' = [q \in Runner |-> IF q = r THEN [run[r] EXCEPT !.at = "download"]
                                        ELSE [run[q] EXCEPT !.tmp = FALSE]]
    /\ UNCHANGED <<mgr, check>> /\ UNCHANGED unchangedByManager

Download(r) ==
    /\ run[r].at = "download"
    /\ SetRun(r, [run[r] EXCEPT !.at = "unpack", !.tmp = TRUE])
    /\ UNCHANGED <<disk, mgr, check>> /\ UNCHANGED unchangedByManager

\* The archive has the published hash and is opened again.
Unpack(r) ==
    /\ run[r].tmp /\ Step(r, "unpack")
    /\ mgr' = [mgr EXCEPT !.state = "verifying"]
    /\ Partial(Empty)
    /\ UNCHANGED check /\ UNCHANGED unchangedByManager

Extract(r) ==
    /\ \/ Step(r, "server") /\ Partial([disk.partial EXCEPT !.server = run[r].version])
       \/ Step(r, "dist") /\ Partial([disk.partial EXCEPT !.dist = run[r].version])
    /\ UNCHANGED <<mgr, check>> /\ UNCHANGED unchangedByManager

\* The package says which release it is, then staged.json is written beside it.
WriteInfo(r) ==
    /\ disk.partial.server = run[r].version /\ Step(r, "info")
    /\ Partial([disk.partial EXCEPT !.info = run[r].version])
    /\ UNCHANGED <<mgr, check>> /\ UNCHANGED unchangedByManager

RemoveStaged(r) ==
    /\ Step(r, "swap")
    /\ disk' = [disk EXCEPT !.staged = Empty]
    /\ UNCHANGED <<mgr, check>> /\ UNCHANGED unchangedByManager

Rename(r) ==
    /\ disk.partial # Empty /\ disk.staged = Empty /\ Step(r, "rename")
    /\ disk' = [disk EXCEPT !.staged = disk.partial, !.partial = Empty]
    /\ mgr' = [mgr EXCEPT !.state = "staged"]
    /\ UNCHANGED check /\ UNCHANGED unchangedByManager

\* A download that breaks off or has another hash, a full disk, an archive or a
\* directory that another goroutine has removed.
StageFails(r) ==
    /\ run[r].at \in Staging
    /\ SetRun(r, NoRun)
    /\ mgr' = [mgr EXCEPT !.state = "failed"]
    /\ IF run[r].at \in {"server", "dist", "info", "rename"} THEN Partial(Empty) ELSE UNCHANGED disk
    /\ UNCHANGED check /\ UNCHANGED unchangedByManager

\* restartDelay has passed: main shuts down.
Restart(r) ==
    /\ run[r].at = "sleep"
    /\ Dies
    /\ UNCHANGED <<released, image, disk, web, tries, kills>>

-----------------------------------------------------------------------------
Boot == \/ Start \/ RunPreflight \/ ForgetAttempts \/ CountAttempt \/ SyncWeb
        \/ Listen \/ MarkStartupOK \/ BootFails

Update == \/ \E c \in Checker : BeginCheck(c) \/ CheckAnswered(c) \/ CheckFails(c)
          \/ \E r \in Runner : \/ Apply(r) \/ cleanupLeftovers(r) \/ Download(r) \/ Unpack(r)
                              \/ Extract(r) \/ WriteInfo(r) \/ RemoveStaged(r) \/ Rename(r)
                              \/ StageFails(r) \/ Restart(r)

Next == Boot \/ Update \/ Kill \/ PullImage \/ \E v \in Version : Publish(v)

\* The container is restarted and the entrypoint runs; a call of Check has a
\* timeout.  Nobody has to publish, to ask or to apply.
Spec == /\ Init /\ [][Next]_vars
        /\ WF_vars(Boot)
        /\ \A c \in Checker : WF_vars(CheckAnswered(c) \/ CheckFails(c))

-----------------------------------------------------------------------------
TypeOK ==
    /\ released \in Version /\ image \in Version
    /\ disk \in [staged : Directory, partial : Directory, attempts : 0..MaxStartAttempts]
    /\ web \in Content
    /\ proc \in [at : ProcSteps, binary : Content]
    /\ mgr \in [state : States, latest : Version \cup {Absent}]
    /\ check \in [Checker -> [asking : BOOLEAN, prev : States]]
    /\ run \in [Runner -> [at : Staging \cup {"none", "sleep"}, version : Version \cup {Absent},
                          tmp : BOOLEAN]]
    /\ tries \in 0..MaxStartAttempts /\ kills \in 0..MaxKills

\* What is started is a whole release that is at least the image's, and from the
\* moment it starts nginx serves the front end of the same release - whatever two
\* goroutines of Apply did to the same directories, and wherever a crash cut them
\* short (preflight.go:81-90, docker-entrypoint.sh:49-60).
OneRelease ==
    /\ proc.at \notin {"down", "preflight"} => proc.binary \in Version /\ proc.binary >= image
    /\ proc.at \in {"boot", "bound", "up"} => web = proc.binary

\* A staged release that is whole and newer than the image is given up only after
\* MaxStartAttempts starts in a row that did not bind the port; staging another
\* release in its place does not bring attempts of the old one with it
\* (preflight.go:67-79, main.go:118-128).
GivenUpAfterThree ==
    [][RunPreflight /\ disk'.staged # disk.staged /\ HashesMatch(disk.staged)
        /\ disk.staged.info > image => tries >= MaxStartAttempts]_vars

\* The service comes back after a restart, whatever was staged: a release that
\* never binds its port is given up and the image's started instead
\* (docs/self-update.md, the loop of attempts in preflight.go:12-15).
ServiceReturns == proc.at = "down" ~> proc.at = "up"

=============================================================================
