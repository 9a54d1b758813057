------------------------------ MODULE HAAgent ------------------------------
(***************************************************************************)
(* Leadership of the two nodes: the lease and the hand-over request kept   *)
(* in DNS TXT records (no compare-and-set), the boot resolution of         *)
(* internal/ha/resolve.go and the state machine of internal/ha/agent.go.   *)
(*                                                                         *)
(* A tick or a boot is a sequence of remote calls; each call is a step, so *)
(* the other node, faults and time come in between.  Time is counted in    *)
(* poll intervals: every running node does one tick per unit, and a tick   *)
(* in progress lets at most Slack units pass between two of its steps.     *)
(* The memory of a process (agent[n]) does not survive it: a change of     *)
(* role is an exit, a restart and a new boot resolution.                   *)
(*                                                                         *)
(* The epoch, the state and the A record are left out: nothing is decided  *)
(* by them.  Forced roles and single nodes have no arbitration to model.   *)
(***************************************************************************)
EXTENDS Integers, FiniteSets, FiniteSetsExt

CONSTANTS
    Node, NoNode,            \* the two node ids; no owner, no request
    Preferred,               \* the node with HA_PREFERRED=true
    LeaseTTL, DemoteAfter, ClaimGuard, RenewInterval,
    ProbeFailureThreshold, BootstrapWait,
    FailbackStableFor, FailbackMaxWait, HandoffRefresh, DrainTimeout,
    AutoFailback,            \* system_settings.haAutoFailback at the start
    MaxWrites,               \* bound on transactions of the clients
    Slack,                   \* bound on time between two steps of a tick
    RestartMin, RestartMax,  \* bounds on the time from an exit to the next boot
    Budget, MaxEvents        \* how many faults and requests of each kind; in all

ASSUME NodeAssumption == /\ \E a, b \in Node : a # b /\ Node = {a, b}
                         /\ NoNode \notin Node
                         /\ Preferred \in Node
\* New refuses to start otherwise.
ASSUME TimingAssumption ==
    /\ {LeaseTTL, DemoteAfter, ClaimGuard, RenewInterval, ProbeFailureThreshold, BootstrapWait,
        FailbackStableFor, FailbackMaxWait, HandoffRefresh, DrainTimeout, MaxWrites, Slack,
        RestartMin, RestartMax, MaxEvents} \subseteq Nat
    /\ RestartMin <= RestartMax
    /\ Budget \in [{"cf", "link", "crash", "erase", "switch", "cancel"} -> Nat]
    /\ DemoteAfter < LeaseTTL /\ LeaseTTL < LeaseTTL + ClaimGuard
    /\ AutoFailback \in BOOLEAN
\* The calls of a tick end within a renewal's interval, those of a boot within a lease:
\* the code's intervals leave room for their time-outs.
ASSUME SlackAssumption ==
    Slack <= RenewInterval /\ BootstrapWait + Slack <= LeaseTTL + ClaimGuard + 1

VARIABLES
    lease,    \* _ha-lease: owner, and the time left until it expires
    handoff,  \* _ha-handoff: the node that wants the leadership
    cf,       \* the nodes that reach the DNS API
    link,     \* whether the nodes reach each other
    agent,    \* the process of each node
    data,     \* the database of each node: LiteFS position, haAutoFailback
    budget    \* events that may still occur

vars == <<lease, handoff, cf, link, agent, data, budget>>

Peer(n) == CHOOSE m \in Node : m # n

-----------------------------------------------------------------------------
(* Records.                                                                *)

Zero   == -1                   \* a time.Time that was never set
Ages(max) == Zero..max         \* time since; saturates
Older(age, max) == IF age = Zero THEN Zero ELSE IF age < max THEN age + 1 ELSE max

NoRequest == [want |-> NoNode, force |-> FALSE]
NoLease   == [owner |-> NoNode, left |-> 0]
LeaseExists   == lease.owner # NoNode
Valid         == LeaseExists /\ lease.left > 0
OwnedBy(n)    == Valid /\ lease.owner = n
ExpiredFor    == IF Valid THEN 0 ELSE -lease.left
Grant(n, age) == lease' = [owner |-> n, left |-> LeaseTTL - age]

TickSteps == {"idle", "lease", "renew", "handoff", "drain", "close", "transfer",
              "take", "verify", "ask", "insist", "clean"}
BootSteps == {"boot", "bootProbe", "bootWait", "bootClaim", "bootConfirm", "bootAlone"}
Status    == {"unreachable", "primary", "replica"}

\* A new process.
Fresh == [at |-> "boot", role |-> "replica", due |-> TRUE, age |-> 0, blank |-> FALSE,
          peer |-> "unreachable", peerTXID |-> 0, failures |-> 0,
          lastSafe |-> Zero, lastRenew |-> Zero,
          handoffSince |-> Zero, drainSince |-> Zero, draining |-> FALSE,
          caughtUpSince |-> Zero, lastHandoffWrite |-> Zero,
          manual |-> FALSE, force |-> FALSE, cleanup |-> FALSE]

Process == [at : TickSteps \cup BootSteps \cup {"down", "crashed", "leaving"},
            role : {"primary", "replica"},
            due : BOOLEAN, age : 0..(BootstrapWait + Slack + RestartMax), blank : BOOLEAN,
            peer : Status, peerTXID : 0..MaxWrites + 1, failures : 0..ProbeFailureThreshold,
            lastSafe : Ages(DemoteAfter + 1), lastRenew : Ages(RenewInterval),
            handoffSince : Ages(FailbackMaxWait), drainSince : Ages(DrainTimeout + 1),
            draining : BOOLEAN,
            caughtUpSince : Ages(FailbackStableFor), lastHandoffWrite : Ages(HandoffRefresh),
            manual : BOOLEAN, force : BOOLEAN, cleanup : BOOLEAN]

At(n)       == agent[n].at
Running(n)  == At(n) \in TickSteps
Alive(n)    == Running(n) \/ At(n) = "leaving"
IsPrimary(n) == Running(n) /\ agent[n].role = "primary"
\* The gate of litefs/role.go, which the agent closes and opens.
Draining(n) == agent[n].draining
AllowWrite(n) == IsPrimary(n) /\ ~Draining(n)

Set(n, a)    == agent' = [agent EXCEPT ![n] = a]
GoTo(n, at)  == Set(n, [agent[n] EXCEPT !.at = at])
Switching(a) == [a EXCEPT !.at = "leaving", !.age = 0]
Safe(a)      == [a EXCEPT !.lastSafe = 0]

\* The node is at the given step and it is its turn; the DNS records, the
\* network and the data stay as they are unless the action says otherwise.
Local == UNCHANGED <<handoff, cf, link, data, budget>>

\* GET /api/health of the peer, which answers while its process runs.
Answers(n)   == link /\ Running(Peer(n))
PeerStatus(n) == IF Answers(n) THEN agent[Peer(n)].role ELSE "unreachable"

\* Some node has booted as the primary, the other as the replica.
Init == \E p \in Node :
        /\ lease = [owner |-> p, left |-> LeaseTTL]
        /\ handoff = NoRequest
        /\ cf = Node
        /\ link = TRUE
        /\ agent = [n \in Node |-> [Fresh EXCEPT
                        !.at = "idle", !.role = IF n = p THEN "primary" ELSE "replica"]]
        /\ data = [n \in Node |-> [txid |-> 0, autoFailback |-> AutoFailback]]
        /\ budget = Budget

-----------------------------------------------------------------------------
(* Boot: Resolve decides the role before LiteFS is mounted.                *)

\* The container is restarted.
Boot(n) == /\ At(n) \in {"down", "crashed"}
           /\ agent[n].age >= RestartMin
           /\ Set(n, Fresh)
           /\ UNCHANGED lease /\ Local

Start(n, role) == Set(n, [Fresh EXCEPT !.at = "idle", !.role = role])

\* Mutant of ResolveLease: the owner's id is taken for the role.
ResolveLeaseOwnerAsRole(n) ==
    /\ At(n) = "boot"
    /\ IF n \notin cf THEN GoTo(n, "bootAlone")
       ELSE IF Valid THEN Start(n, lease.owner)
       ELSE Set(n, [agent[n] EXCEPT !.at = "bootProbe", !.age = 0, !.blank = ~LeaseExists])
    /\ UNCHANGED lease /\ Local

ResolveLease(n) ==
    /\ At(n) = "boot"
    /\ IF n \notin cf THEN GoTo(n, "bootAlone")
       ELSE IF Valid THEN Start(n, IF lease.owner = n THEN "primary" ELSE "replica")
       ELSE Set(n, [agent[n] EXCEPT !.at = "bootProbe", !.age = 0, !.blank = ~LeaseExists])
    /\ UNCHANGED lease /\ Local

ResolveProbe(n) ==
    /\ At(n) = "bootProbe"
    /\ IF PeerStatus(n) = "primary" THEN Start(n, "replica")
       ELSE GoTo(n, IF agent[n].blank /\ n # Preferred THEN "bootWait" ELSE "bootClaim")
    /\ UNCHANGED lease /\ Local

\* No record and not preferred: leave the peer BootstrapWait to create it.
ResolveWait(n) ==
    /\ At(n) = "bootWait"
    /\ agent[n].age >= BootstrapWait
    /\ IF n \in cf /\ Valid THEN Start(n, IF lease.owner = n THEN "primary" ELSE "replica")
                            ELSE GoTo(n, "bootClaim")
    /\ UNCHANGED lease /\ Local

\* The expiry is computed from the clock of the first read.
ResolveClaim(n) ==
    /\ At(n) = "bootClaim"
    /\ IF n \in cf THEN Grant(n, agent[n].age) /\ GoTo(n, "bootConfirm")
                   ELSE UNCHANGED lease /\ Start(n, "replica")
    /\ Local

ResolveConfirm(n) ==
    /\ At(n) = "bootConfirm"
    /\ Start(n, IF n \in cf /\ lease.owner = n THEN "primary" ELSE "replica")
    /\ UNCHANGED lease /\ Local

resolveWithoutCloudflare(n) ==
    /\ At(n) = "bootAlone"
    /\ Start(n, IF PeerStatus(n) = "replica" /\ n = Preferred THEN "primary" ELSE "replica")
    /\ UNCHANGED lease /\ Local

-----------------------------------------------------------------------------
(* A tick of the primary.                                                  *)

Probe(n) ==
    /\ At(n) = "idle" /\ agent[n].due
    /\ Set(n, [agent[n] EXCEPT
          !.at = "lease", !.due = FALSE, !.age = 0,
          !.peer = PeerStatus(n),
          !.peerTXID = IF Answers(n) THEN data[Peer(n)].txid ELSE 0,
          !.failures = IF Answers(n) THEN 0
                       ELSE IF @ < ProbeFailureThreshold THEN @ + 1 ELSE @])
    /\ UNCHANGED lease /\ Local

\* pauseHandoff gives writes back and keeps a manual request; cancelHandoff
\* ends that too.
InHandoff(a) == a.handoffSince # Zero \/ a.drainSince # Zero
\* Mutant of pauseHandoff: the gate stays closed.
pauseHandoffOnly(a) == [a EXCEPT !.handoffSince = Zero, !.drainSince = Zero]
pauseHandoff(a)  == IF InHandoff(a)
                      THEN [a EXCEPT !.handoffSince = Zero, !.drainSince = Zero, !.draining = FALSE]
                      ELSE a
cancelHandoff(a) == IF a.manual
                      THEN [pauseHandoff(a) EXCEPT !.manual = FALSE, !.force = FALSE,
                                                   !.draining = FALSE]
                      ELSE pauseHandoff(a)

\* Writes are given back after DrainTimeout, before any remote call.
\* Mutant of enforceDrainTimeout: it is left to the rest of the tick.
enforceDrainTimeoutLater(a) == a
enforceDrainTimeout(a) == IF a.drainSince > DrainTimeout THEN cancelHandoff(a) ELSE a

\* Without the lease a primary goes on only while its peer says replica.
\* Mutant of evaluateDemote: no evidence of another primary is enough.
evaluateDemoteOptimistic(a) ==
    IF a.peer # "primary" \/ a.lastSafe = Zero THEN [Safe(a) EXCEPT !.at = "idle"]
    ELSE IF a.lastSafe > DemoteAfter THEN Switching(a)
    ELSE [a EXCEPT !.at = "idle"]
evaluateDemote(a) ==
    IF a.peer = "replica" \/ a.lastSafe = Zero THEN [Safe(a) EXCEPT !.at = "idle"]
    ELSE IF a.lastSafe > DemoteAfter THEN Switching(a)
    ELSE [a EXCEPT !.at = "idle"]

renewDue(a) == a.lastRenew = Zero \/ a.lastRenew >= RenewInterval

\* The lease has been taken over.  Its mutant: a primary does not look.
MustYieldNever(n) == FALSE
MustYield(n) == OwnedBy(Peer(n))

PrimaryLease(n) ==
    /\ At(n) = "lease" /\ agent[n].role = "primary"
    /\ LET a == enforceDrainTimeout(agent[n]) IN
       Set(n, IF n \notin cf THEN evaluateDemote(a)
              ELSE IF MustYield(n) THEN Switching(a)
              ELSE IF renewDue(a) THEN [a EXCEPT !.at = "renew", !.age = 0]
              ELSE [Safe(a) EXCEPT !.at = "handoff", !.age = 0])
    /\ UNCHANGED lease /\ Local

renew(n) ==
    /\ At(n) = "renew"
    /\ IF n \in cf
         THEN /\ Grant(n, agent[n].age)
              /\ Set(n, [Safe(agent[n]) EXCEPT !.at = "handoff", !.lastRenew = agent[n].age])
         ELSE /\ Set(n, evaluateDemote(agent[n]))
              /\ UNCHANGED lease
    /\ Local

\* What the tick makes of a request: none, one to call off, one to suspend,
\* or one to go on with.  A manual request of this node's admin comes first,
\* and is not read from the DNS.
Request(n, a) ==
    IF a.manual
      THEN IF a.peer = "replica" THEN "go"
           ELSE IF a.peer = "unreachable" /\ a.failures < ProbeFailureThreshold THEN "pause"
           ELSE "cancel"
      ELSE IF n \notin cf THEN "none"
           ELSE IF handoff.want = Peer(n) /\ a.peer # "unreachable" THEN "go"
           ELSE "cancel"
Forced(a)  == IF a.manual THEN a.force ELSE handoff.force
Waiting(a) == IF a.handoffSince = Zero THEN [a EXCEPT !.handoffSince = 0] ELSE a

\* Audio streams in progress delay the start of draining.
MustWait(a, busy) == busy /\ ~Forced(a) /\ a.handoffSince < FailbackMaxWait
\* Mutant of CaughtUp: any position will do.
CaughtUpAnywhere(n, a) == a.drainSince <= DrainTimeout
CaughtUp(n, a)    == a.drainSince <= DrainTimeout /\ a.peerTXID >= data[n].txid

handleHandoffRequest(n, busy) ==
    /\ At(n) = "handoff"
    /\ LET a       == agent[n]
           r       == Request(n, a)
           b       == Waiting(a)
           starts  == r = "go" /\ a.drainSince = Zero /\ ~MustWait(b, busy)
       IN
       /\ Set(n, IF r = "none" THEN [a EXCEPT !.at = "idle"]
                 ELSE IF r = "cancel" THEN [cancelHandoff(a) EXCEPT !.at = "idle"]
                 ELSE IF r = "pause" THEN [pauseHandoff(a) EXCEPT !.at = "idle"]
                 ELSE IF a.drainSince = Zero
                   THEN [b EXCEPT !.at = IF starts THEN "drain" ELSE "idle"]
                 ELSE [b EXCEPT !.at = IF CaughtUp(n, b) THEN "transfer" ELSE "idle"])
       /\ handoff' = IF r = "go" /\ a.drainSince > DrainTimeout /\ n \in cf
                       THEN NoRequest ELSE handoff
       \* The preferred node turns automatic failback off before it drains (and
       \* writes the same again if it drains once more).
       /\ data' = IF starts /\ n = Preferred /\ data[n].autoFailback
                    THEN [data EXCEPT ![n] = [txid |-> @.txid + 1, autoFailback |-> FALSE]]
                    ELSE data
    /\ UNCHANGED <<lease, cf, link, budget>>

\* The time and the gate are set one after the other, the gate outside the
\* mutex that CancelManualSwitch takes.
beginDrain(n) ==
    /\ At(n) = "drain"
    /\ Set(n, [agent[n] EXCEPT !.at = "close", !.drainSince = 0])
    /\ UNCHANGED lease /\ Local

SetDraining(n) ==
    /\ At(n) = "close"
    /\ Set(n, [agent[n] EXCEPT !.at = "idle", !.draining = TRUE])
    /\ UNCHANGED lease /\ Local

\* The lease is written to the peer; clearing the request may fail.
completeHandoff(n) ==
    /\ At(n) = "transfer"
    /\ IF n \in cf
         THEN /\ Grant(Peer(n), agent[n].age)
              /\ handoff' \in {handoff, NoRequest}
              /\ Set(n, Switching(agent[n]))
         ELSE /\ UNCHANGED <<lease, handoff>>
              /\ GoTo(n, "idle")
    /\ UNCHANGED <<cf, link, data, budget>>

-----------------------------------------------------------------------------
(* A tick of the replica.                                                  *)

\* The cooldown of the code never applies: lastSwitchAt is set only where the
\* process is about to exit, and is zero in the next one.
CanClaim(n) == /\ LeaseExists => ExpiredFor > ClaimGuard
               /\ agent[n].failures >= ProbeFailureThreshold
               /\ LeaseExists \/ n = Preferred

\* The preferred node asks for the leadership after it has kept up for long
\* enough, and again every HandoffRefresh.
Due(a) == a.lastHandoffWrite = Zero \/ a.lastHandoffWrite >= HandoffRefresh
Ask(a) == [a EXCEPT !.at = IF a.force THEN "insist" ELSE "ask", !.lastHandoffWrite = 0]

maybeRequestFailback(n, a) ==
    IF ~(data[n].autoFailback /\ n = Preferred /\ OwnedBy(Peer(n))) THEN [a EXCEPT !.at = "idle"]
    ELSE IF a.peer = "unreachable" \/ data[n].txid < a.peerTXID
      THEN [a EXCEPT !.at = "idle", !.caughtUpSince = Zero]
    ELSE LET b == IF a.caughtUpSince = Zero THEN [a EXCEPT !.caughtUpSince = 0] ELSE a IN
         IF b.caughtUpSince >= FailbackStableFor /\ Due(b) THEN Ask(b)
                                                           ELSE [b EXCEPT !.at = "idle"]

\* An admin's request goes before: it needs neither preference nor patience.
maybeRequestManualTakeover(n, a) ==
    IF OwnedBy(Peer(n)) /\ Due(a) THEN Ask(a) ELSE [a EXCEPT !.at = "idle"]

\* The lease has been handed over to this replica.  Its mutant: it waits for the
\* lease to expire.
MustPromoteNever(n) == FALSE
MustPromote(n) == OwnedBy(n)

ReplicaLease(n) ==
    /\ At(n) = "lease" /\ agent[n].role = "replica"
    /\ Set(n, IF n \notin cf THEN [agent[n] EXCEPT !.at = "idle"]
              ELSE IF MustPromote(n) THEN Switching(agent[n])
              ELSE IF CanClaim(n) THEN [agent[n] EXCEPT !.at = "take", !.age = 0]
              ELSE IF agent[n].cleanup THEN [agent[n] EXCEPT !.at = "clean"]
              ELSE IF agent[n].manual THEN maybeRequestManualTakeover(n, agent[n])
              ELSE maybeRequestFailback(n, agent[n]))
    /\ UNCHANGED lease /\ Local

\* A claim that fails leaves the rest of the tick, for which an expired lease
\* has only the clearing of a withdrawn request.
GiveUp(a) == [a EXCEPT !.at = IF a.cleanup THEN "clean" ELSE "idle"]

\* tryClaim writes and reads back: there is no compare-and-set.
tryClaim(n) ==
    /\ At(n) = "take"
    /\ IF n \in cf THEN Grant(n, agent[n].age) /\ GoTo(n, "verify")
                   ELSE UNCHANGED lease /\ Set(n, GiveUp(agent[n]))
    /\ Local

verifyClaim(n) ==
    /\ At(n) = "verify"
    /\ Set(n, IF n \in cf /\ lease.owner = n THEN Switching(agent[n])
                                             ELSE GiveUp(agent[n]))
    /\ UNCHANGED lease /\ Local

requestHandoff(n) ==
    /\ At(n) \in {"ask", "insist"}
    /\ handoff' = IF n \in cf THEN [want |-> n, force |-> At(n) = "insist"] ELSE handoff
    /\ GoTo(n, "idle")
    /\ UNCHANGED <<lease, cf, link, data, budget>>

runManualClaimCleanup(n) ==
    /\ At(n) = "clean"
    /\ IF n \in cf THEN /\ handoff' = NoRequest
                        /\ Set(n, [agent[n] EXCEPT !.at = "idle", !.cleanup = FALSE])
                   ELSE UNCHANGED handoff /\ GoTo(n, "idle")
    /\ UNCHANGED <<lease, cf, link, data, budget>>

-----------------------------------------------------------------------------
(* Requests of the admin, against the last probe of the peer.              *)

Spent(e) == Budget[e] - budget[e]
Event(e) == /\ budget[e] > 0
            /\ MapThenSumSet(Spent, DOMAIN Budget) < MaxEvents
            /\ budget' = [budget EXCEPT ![e] = @ - 1]

RequestManualSwitch(n, force) ==
    /\ Event("switch")
    /\ Running(n)
    /\ agent[n].peer = IF IsPrimary(n) THEN "replica" ELSE "primary"
    /\ Set(n, [agent[n] EXCEPT !.manual = TRUE, !.force = @ \/ force,
                               !.cleanup = FALSE,
                               !.lastHandoffWrite = IF IsPrimary(n) THEN @ ELSE Zero])
    /\ UNCHANGED <<lease, handoff, cf, link, data>>

CancelManualSwitch(n) ==
    /\ Event("cancel")
    /\ Alive(n)
    /\ LET a == [agent[n] EXCEPT !.manual = FALSE, !.force = FALSE] IN
       Set(n, IF ~agent[n].manual THEN a
              ELSE IF a.role = "primary" THEN pauseHandoff(a)
              ELSE [a EXCEPT !.cleanup = TRUE])
    /\ UNCHANGED <<lease, handoff, cf, link, data>>

\* The process ends and its memory with it.
Exit(n) == /\ At(n) = "leaving"
           /\ Set(n, [Fresh EXCEPT !.at = "down", !.age = agent[n].age])
           /\ UNCHANGED lease /\ Local

-----------------------------------------------------------------------------
(* Data and time.                                                          *)

Write(n) == /\ AllowWrite(n)
            /\ data[n].txid < MaxWrites
            /\ data' = [data EXCEPT ![n].txid = @ + 1]
            /\ UNCHANGED <<lease, handoff, cf, link, agent, budget>>

\* LiteFS brings a replica to the state of the primary it follows, which
\* serves it until its process ends.
Replicate(n) == /\ Running(n) /\ agent[n].role = "replica"
                /\ link /\ Alive(Peer(n)) /\ agent[Peer(n)].role = "primary"
                /\ data[n] # data[Peer(n)]
                /\ data' = [data EXCEPT ![n] = data[Peer(n)]]
                /\ UNCHANGED <<lease, handoff, cf, link, agent, budget>>

AgeLimit(a) == IF a.at \in {"down", "leaving"} THEN RestartMax
               ELSE IF a.at = "bootWait" \/ a.blank THEN BootstrapWait + Slack
               ELSE Slack
MayWait(a)  == CASE a.at = "idle" -> ~a.due
                 [] a.at = "crashed" -> TRUE
                 [] OTHER -> a.age < AgeLimit(a)

Aged(a) == IF a.at = "crashed" THEN [a EXCEPT !.age = RestartMin]
           ELSE IF a.at \in {"down", "leaving"} THEN [a EXCEPT !.age = @ + 1]
           ELSE [a EXCEPT !.due = TRUE,
                          !.age = IF a.at = "idle" THEN 0 ELSE @ + 1,
                          !.lastSafe = Older(@, DemoteAfter + 1),
                          !.lastRenew = Older(@, RenewInterval),
                          !.handoffSince = Older(@, FailbackMaxWait),
                          !.drainSince = Older(@, DrainTimeout + 1),
                          !.caughtUpSince = Older(@, FailbackStableFor),
                          !.lastHandoffWrite = Older(@, HandoffRefresh)]

\* One poll interval passes.
Advance == /\ \A n \in Node : MayWait(agent[n])
           /\ agent' = [n \in Node |-> Aged(agent[n])]
           /\ lease' = IF LeaseExists /\ lease.left > -(ClaimGuard + 1)
                         THEN [lease EXCEPT !.left = @ - 1] ELSE lease
           /\ Local

-----------------------------------------------------------------------------
(* Faults.                                                                 *)

\* A node may stay down for any time.
Crash(n) == /\ Event("crash") /\ At(n) \notin {"down", "crashed"}
            /\ Set(n, [Fresh EXCEPT !.at = "crashed"])
            /\ UNCHANGED <<lease, handoff, cf, link, data>>

CfFails(S) == /\ Event("cf") /\ S # {} /\ S \subseteq cf
              /\ cf' = cf \ S
              /\ UNCHANGED <<lease, handoff, link, agent, data>>

LinkFails == /\ Event("link") /\ link
             /\ link' = FALSE
             /\ UNCHANGED <<lease, handoff, cf, agent, data>>

\* Somebody deletes the TXT record.
RecordLost == /\ Event("erase") /\ LeaseExists
              /\ lease' = NoLease
              /\ UNCHANGED <<handoff, cf, link, agent, data>>

NetworkHeals == /\ cf # Node \/ ~link
                /\ \/ cf' = Node /\ link' = link
                   \/ link' = TRUE /\ cf' = cf
                /\ <<cf', link'>> # <<cf, link>>
                /\ UNCHANGED <<lease, handoff, agent, data, budget>>

-----------------------------------------------------------------------------

Step(n) ==
    \/ Boot(n) \/ Exit(n)
    \/ ResolveLease(n) \/ ResolveProbe(n) \/ ResolveWait(n) \/ ResolveClaim(n)
    \/ ResolveConfirm(n) \/ resolveWithoutCloudflare(n)
    \/ Probe(n)
    \/ PrimaryLease(n) \/ renew(n)
    \/ beginDrain(n) \/ SetDraining(n) \/ completeHandoff(n)
    \/ \E busy \in BOOLEAN : handleHandoffRequest(n, busy)
    \/ ReplicaLease(n) \/ tryClaim(n) \/ verifyClaim(n) \/ requestHandoff(n)
    \/ runManualClaimCleanup(n)

Next == \/ \E n \in Node : Step(n) \/ Write(n) \/ Replicate(n) \/ Crash(n)
        \/ \E n \in Node, force \in BOOLEAN : RequestManualSwitch(n, force)
        \/ \E n \in Node : CancelManualSwitch(n)
        \/ Advance
        \/ \E S \in SUBSET Node : CfFails(S)
        \/ LinkFails \/ RecordLost \/ NetworkHeals

Spec == Init /\ [][Next]_vars

\* The agent's goroutine runs and its calls end (they have timeouts), Docker
\* restarts containers, LiteFS replicates, time passes.  Nobody need write, no
\* fault need heal.
FairSpec == /\ Spec
            /\ \A n \in Node : WF_vars(Step(n)) /\ WF_vars(Replicate(n))
            /\ SF_vars(Advance)

-----------------------------------------------------------------------------
(* Properties.                                                             *)

\* Types and ranges of the records, of every process and of every database.
TypeOK == /\ lease \in [owner : Node \cup {NoNode}, left : -(ClaimGuard + 1)..LeaseTTL]
          /\ handoff \in [want : Node \cup {NoNode}, force : BOOLEAN]
          /\ cf \subseteq Node
          /\ link \in BOOLEAN
          /\ agent \in [Node -> Process]
          /\ data \in [Node -> [txid : 0..MaxWrites + 1, autoFailback : BOOLEAN]]
          /\ budget \in [DOMAIN Budget -> Nat]

\* At most one node runs as the primary: what the lease of agent.go is for.
OnePrimary == \A n, m \in Node : IsPrimary(n) /\ IsPrimary(m) => n = m

\* A claim at boot and a claim of the running replica can both succeed, since
\* the DNS has no compare-and-set.  While the DNS API is reachable, the older
\* primary gives way in its next tick: no poll interval passes with two of them.
SplitIsShort == [][Advance => OnePrimary]_vars

\* completeHandoff gives the lease away only when the peer has everything that
\* this node has written: a planned hand-over loses nothing.
HandoffKeepsWrites ==
    [][\A n \in Node : At(n) = "transfer" /\ At(n)' = "leaving"
                       => data[Peer(n)].txid >= data[n].txid]_vars

\* With the DNS API down or the network cut for ever, at most one of two
\* primaries goes on: the other steps down on its own (evaluateDemote).
SplitHeals == ~OnePrimary ~> OnePrimary

\* Every drain is cut short by the hand-over or by enforceDrainTimeout, the
\* DNS API reachable or not, whatever the admin asks for meanwhile.
HandoffEnds == \A n \in Node : agent[n].drainSince # Zero ~> agent[n].drainSince = Zero

\* A node that the agent has closed to writes is opened again, or ends.
DrainEnds == \A n \in Node : Draining(n) ~> ~Draining(n)

\* Once the network stays up, writes are accepted again and again: after a
\* crash, a hand-over or a partition some node becomes the primary.
Healthy == cf = Node /\ link
SomeoneServes == <>[]Healthy => []<>(\E n \in Node : AllowWrite(n))

=============================================================================
