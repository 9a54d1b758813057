--------------------------- MODULE HAAgent_proofs ---------------------------
(***************************************************************************)
(* Type correctness of the HA agent, that a hand-over which nobody         *)
(* withdraws loses no write, and that no poll interval passes with two     *)
(* primaries: for any intervals, faults and switches.                      *)
(***************************************************************************)
EXTENDS HAAgent, TLAPS

LeaseType == [owner : Node \cup {NoNode}, left : -(ClaimGuard + 1)..LeaseTTL]
RequestType == [want : Node \cup {NoNode}, force : BOOLEAN]
Database == [txid : 0..MaxWrites + 1, autoFailback : BOOLEAN]

\* What bounds the age of a process at each step.
Timely(a) ==
    /\ a.at \in TickSteps => ~a.blank /\ a.age <= Slack
    /\ a.at \in BootSteps => a.age <= BootstrapWait + Slack
    /\ a.at \in {"down", "crashed", "leaving"} => a.age <= RestartMax
Good(a) == a \in Process /\ Timely(a)

\* In the middle of a tick.
Ticking(a) == Good(a) /\ a.at \in TickSteps

\* Automatic failback is turned off by one write more than the clients make.
RoomToTurnOff(d) == d.autoFailback => d.txid <= MaxWrites

TypeInv == /\ lease \in LeaseType /\ handoff \in RequestType
           /\ cf \subseteq Node /\ link \in BOOLEAN
           /\ agent \in [Node -> Process] /\ \A n \in Node : Timely(agent[n])
           /\ data \in [Node -> Database] /\ \A n \in Node : RoomToTurnOff(data[n])
           /\ budget \in [DOMAIN Budget -> Nat]

-----------------------------------------------------------------------------
(* Constants and operators.                                                *)

LEMMA Constants ==
  /\ LeaseTTL \in Nat /\ DemoteAfter \in Nat /\ ClaimGuard \in Nat /\ RenewInterval \in Nat
  /\ ProbeFailureThreshold \in Nat /\ BootstrapWait \in Nat /\ FailbackStableFor \in Nat
  /\ FailbackMaxWait \in Nat /\ HandoffRefresh \in Nat /\ DrainTimeout \in Nat
  /\ MaxWrites \in Nat /\ Slack \in Nat /\ RestartMin \in Nat /\ RestartMax \in Nat
  /\ RestartMin <= RestartMax
  BY TimingAssumption

LEMMA Peers ==
  ASSUME NEW n \in Node
  PROVE  Peer(n) \in Node /\ Peer(n) # n /\ \A m \in Node : m = n \/ m = Peer(n)
  BY NodeAssumption DEF Peer

LEMMA PeerOfPeer == \A n \in Node : Peer(Peer(n)) = n
  BY Peers

\* Two kinds of steps, and what a process is at neither.
LEMMA StepsDiffer ==
  \A at \in TickSteps : at \notin BootSteps /\ at \notin {"down", "crashed", "leaving"}
  BY DEF TickSteps, BootSteps

LEMMA NeverSet ==
  /\ 0 \in 0..(BootstrapWait + Slack + RestartMax) /\ 0 \in 0..MaxWrites + 1
  /\ 0 \in 0..ProbeFailureThreshold
  /\ {Zero, 0} \subseteq Ages(DemoteAfter + 1) /\ {Zero, 0} \subseteq Ages(RenewInterval)
  /\ {Zero, 0} \subseteq Ages(FailbackMaxWait) /\ {Zero, 0} \subseteq Ages(DrainTimeout + 1)
  /\ {Zero, 0} \subseteq Ages(FailbackStableFor) /\ {Zero, 0} \subseteq Ages(HandoffRefresh)
<1>1. \A m \in Nat : {Zero, 0} \subseteq Ages(m)
  BY DEF Zero, Ages
<1> QED BY <1>1, Constants

LEMMA FreshIsGood == Fresh \in Process /\ Good(Fresh)
<1>1. Fresh \in Process
  BY NeverSet DEF Fresh, Process, BootSteps, Status
<1>2. Timely(Fresh)
  BY Constants DEF Timely, Fresh, BootSteps, TickSteps
<1> QED BY <1>1, <1>2 DEF Good

LEMMA Started ==
  ASSUME NEW role \in {"primary", "replica"}
  PROVE  Good([Fresh EXCEPT !.at = "idle", !.role = role])
<1> DEFINE a == [Fresh EXCEPT !.at = "idle", !.role = role]
<1>1. a \in Process
  BY FreshIsGood DEF Process, TickSteps
<1>2. a.at = "idle" /\ a.age = 0 /\ a.blank = FALSE
  BY DEF Fresh
<1> HIDE DEF a
<1>3. Timely(a)
  BY <1>2, Constants DEF Timely, TickSteps, BootSteps
<1> QED BY <1>1, <1>3 DEF Good, a

LEMMA StoppedIsGood ==
  ASSUME NEW at \in {"down", "crashed"}, NEW age \in 0..RestartMax
  PROVE  Good([Fresh EXCEPT !.at = at, !.age = age])
<1> DEFINE a == [Fresh EXCEPT !.at = at, !.age = age]
<1>1. age \in 0..(BootstrapWait + Slack + RestartMax)
  BY Constants
<1>2. a \in Process
  BY <1>1, FreshIsGood DEF Process
<1>3. a.at = at /\ a.age = age
  BY DEF Fresh
<1> HIDE DEF a
<1>4. Timely(a)
  BY <1>3 DEF Timely, TickSteps, BootSteps
<1> QED BY <1>2, <1>4 DEF Good, a

LEMMA TickingIs ==
  ASSUME NEW a
  PROVE  Ticking(a) <=> /\ a \in Process /\ a.at \in TickSteps /\ ~a.blank /\ a.age <= Slack
  BY StepsDiffer DEF Ticking, Good, Timely

LEMMA AtStep ==
  ASSUME NEW a, Ticking(a), NEW at \in TickSteps
  PROVE  /\ Ticking([a EXCEPT !.at = at]) /\ Ticking([a EXCEPT !.at = at, !.age = 0])
         /\ Good([a EXCEPT !.at = at]) /\ Good([a EXCEPT !.at = at, !.age = 0])
<1>1. a \in Process /\ ~a.blank /\ a.age <= Slack /\ 0 <= Slack
  BY TickingIs, Constants
<1> DEFINE b == [a EXCEPT !.at = at]
           c == [a EXCEPT !.at = at, !.age = 0]
<1>2. b \in Process /\ b.at = at /\ b.blank = a.blank /\ b.age = a.age
  BY <1>1 DEF Process
<1>3. c \in Process /\ c.at = at /\ c.blank = a.blank /\ c.age = 0
  BY <1>1, NeverSet DEF Process
<1> HIDE DEF b, c
<1>4. Ticking(b) /\ Ticking(c)
  BY <1>1, <1>2, <1>3, TickingIs
<1> QED BY <1>4 DEF Ticking, b, c

LEMMA SwitchingIsGood ==
  ASSUME NEW a, Ticking(a)
  PROVE  Good(Switching(a))
<1> DEFINE b == Switching(a)
<1>1. b \in Process /\ b.at = "leaving" /\ b.age = 0
  BY NeverSet, TickingIs DEF Switching, Process
<1> HIDE DEF b
<1>2. Timely(b)
  BY <1>1, Constants DEF Timely, TickSteps, BootSteps
<1> QED BY <1>1, <1>2 DEF Good, b

LEMMA SafeIsGood ==
  ASSUME NEW a, Ticking(a)
  PROVE  Ticking(Safe(a))
<1> DEFINE b == Safe(a)
<1>1. a \in Process
  BY TickingIs
<1>2. b \in Process /\ b.at = a.at /\ b.age = a.age /\ b.blank = a.blank
  BY <1>1, NeverSet DEF Safe, Process
<1> HIDE DEF b
<1> QED BY <1>2, TickingIs DEF b

LEMMA PauseIsGood ==
  ASSUME NEW a, Ticking(a)
  PROVE  Ticking(pauseHandoff(a))
<1> DEFINE b == [a EXCEPT !.handoffSince = Zero, !.drainSince = Zero, !.draining = FALSE]
<1>1. a \in Process
  BY TickingIs
<1>2. b \in Process /\ b.at = a.at /\ b.age = a.age /\ b.blank = a.blank
  BY <1>1, NeverSet DEF Process
<1>3. Ticking(b)
  <2> HIDE DEF b
  <2> QED BY <1>2, TickingIs
<1> QED BY <1>3 DEF pauseHandoff

LEMMA CancelIsGood ==
  ASSUME NEW a, Ticking(a)
  PROVE  Ticking(cancelHandoff(a))
<1>1. Ticking(pauseHandoff(a))
  BY PauseIsGood
<1> DEFINE b == pauseHandoff(a)
<1>2. Ticking([b EXCEPT !.manual = FALSE, !.force = FALSE, !.draining = FALSE])
  <2> HIDE DEF b
  <2>1. Ticking(b)
    BY <1>1 DEF b
  <2> QED BY <2>1 DEF Ticking, Good, Timely, Process
<1> QED BY <1>1, <1>2 DEF cancelHandoff

LEMMA EnforceIsGood ==
  ASSUME NEW a, Ticking(a)
  PROVE  Ticking(enforceDrainTimeout(a))
  BY CancelIsGood DEF enforceDrainTimeout

LEMMA DemoteIsGood ==
  ASSUME NEW a, Ticking(a)
  PROVE  Good(evaluateDemote(a))
<1>1. "idle" \in TickSteps
  BY DEF TickSteps
<1> QED BY <1>1, SafeIsGood, SwitchingIsGood, AtStep DEF evaluateDemote

LEMMA WaitingIsGood ==
  ASSUME NEW a, Ticking(a)
  PROVE  Ticking(Waiting(a))
  BY Constants DEF Waiting, Ticking, Good, Timely, Process, Ages, Zero

LEMMA AskIsGood ==
  ASSUME NEW a, Ticking(a)
  PROVE  Good(Ask(a))
<1> DEFINE b == [a EXCEPT !.lastHandoffWrite = 0]
           at == IF a.force THEN "insist" ELSE "ask"
<1>1. a \in Process /\ at \in TickSteps
  BY TickingIs DEF TickSteps
<1>2. b \in Process /\ b.at = a.at /\ b.age = a.age /\ b.blank = a.blank
  BY <1>1, NeverSet DEF Process
<1>3. Ask(a) = [b EXCEPT !.at = at]
  BY <1>1 DEF Ask, Process
<1> HIDE DEF b, at
<1> QED BY <1>1, <1>2, <1>3, TickingIs, AtStep

-----------------------------------------------------------------------------
(* Types, action by action.                                                *)

\* An action that gives node n the process a, and another process nothing.
LEMMA TypeSet ==
  ASSUME TypeInv, NEW n \in Node, NEW a, Good(a), Set(n, a)
  PROVE  agent' \in [Node -> Process] /\ \A m \in Node : Timely(agent'[m])
  BY DEF TypeInv, Set, Good

\* A process at a step of a tick.
LEMMA InTick ==
  ASSUME TypeInv, NEW n \in Node, At(n) \in TickSteps
  PROVE  Ticking(agent[n])
  BY DEF TypeInv, Ticking, Good, At

\* A lease that is granted when the process has got as old as it may.
LEMMA TypeGrant ==
  ASSUME NEW n \in Node, NEW age \in Nat, age <= LeaseTTL + ClaimGuard + 1, Grant(n, age)
  PROVE  lease' \in LeaseType
<1>1. LeaseTTL - age \in -(ClaimGuard + 1)..LeaseTTL
  BY Constants
<1> QED BY <1>1 DEF Grant, LeaseType

LEMMA TypeRequest ==
  ASSUME TypeInv, handoff' \in {handoff, NoRequest}
  PROVE  handoff' \in RequestType
<1>1. handoff \in RequestType
  BY DEF TypeInv
<1>2. NoRequest \in RequestType
  BY DEF NoRequest, RequestType
<1> QED BY <1>1, <1>2

\* The clients' and the faults' part of the state.
LEMMA TypeLocal ==
  ASSUME TypeInv, Local, lease' = lease, agent' \in [Node -> Process],
         \A m \in Node : Timely(agent'[m])
  PROVE  TypeInv'
  BY DEF TypeInv, Local

LEMMA BootTypes ==
  ASSUME TypeInv, NEW n \in Node,
         \/ Boot(n) \/ Exit(n) \/ ResolveLease(n) \/ ResolveProbe(n) \/ ResolveWait(n)
         \/ ResolveClaim(n) \/ ResolveConfirm(n) \/ resolveWithoutCloudflare(n)
  PROVE  TypeInv'
<1>1. Good(agent[n]) /\ agent[n].age \in Nat
  BY Constants DEF TypeInv, Good, Process
<1> DEFINE onward(at) == [agent[n] EXCEPT !.at = at]
           afresh == [agent[n] EXCEPT !.at = "bootProbe", !.age = 0, !.blank = ~LeaseExists]
<1>2. \A at \in BootSteps : At(n) \in BootSteps => Good(onward(at))
  BY <1>1 DEF Good, Timely, Process, At, TickSteps, BootSteps
<1>3. At(n) \in BootSteps => Good(afresh)
  <2>1. afresh \in Process /\ afresh.at = "bootProbe" /\ afresh.age = 0
    BY <1>1, NeverSet DEF Good, Process, BootSteps, LeaseExists
  <2> HIDE DEF afresh
  <2> QED BY <2>1, Constants DEF Good, Timely, TickSteps, BootSteps
<1> HIDE DEF onward, afresh
<1>4. CASE Boot(n)
  BY <1>4, FreshIsGood, TypeSet, TypeLocal DEF Boot
<1>5. CASE Exit(n)
  <2>1. agent[n].age \in 0..RestartMax
    BY <1>1, <1>5 DEF Exit, Good, Timely, At
  <2> QED BY <1>5, <2>1, StoppedIsGood, TypeSet, TypeLocal DEF Exit
<1>6. CASE ResolveLease(n)
  <2>1. CASE n \notin cf
    BY <1>2, <1>6, <2>1, TypeSet, TypeLocal DEF ResolveLease, GoTo, onward, BootSteps
  <2>2. CASE n \in cf /\ Valid
    BY <1>6, <2>2, Started, TypeSet, TypeLocal DEF ResolveLease, Start
  <2>3. CASE n \in cf /\ ~Valid
    BY <1>3, <1>6, <2>3, TypeSet, TypeLocal DEF ResolveLease, afresh, BootSteps
  <2> QED BY <2>1, <2>2, <2>3
<1>7. CASE ResolveProbe(n)
  <2>1. CASE PeerStatus(n) = "primary"
    BY <1>7, <2>1, Started, TypeSet, TypeLocal DEF ResolveProbe, Start
  <2>2. CASE PeerStatus(n) # "primary"
    BY <1>2, <1>7, <2>2, TypeSet, TypeLocal DEF ResolveProbe, GoTo, onward, BootSteps
  <2> QED BY <2>1, <2>2
<1>8. CASE ResolveWait(n)
  <2>1. CASE n \in cf /\ Valid
    BY <1>8, <2>1, Started, TypeSet, TypeLocal DEF ResolveWait, Start
  <2>2. CASE ~(n \in cf /\ Valid)
    BY <1>2, <1>8, <2>2, TypeSet, TypeLocal DEF ResolveWait, GoTo, onward, BootSteps
  <2> QED BY <2>1, <2>2
<1>9. CASE ResolveClaim(n)
  <2>1. CASE n \in cf
    <3>1. agent[n].age <= LeaseTTL + ClaimGuard + 1
      BY <1>1, <1>9, Constants, SlackAssumption DEF ResolveClaim, At, Good, Timely, BootSteps
    <3>2. lease' \in LeaseType
      BY <1>1, <1>9, <2>1, <3>1, TypeGrant DEF ResolveClaim
    <3>3. agent' \in [Node -> Process] /\ \A m \in Node : Timely(agent'[m])
      BY <1>2, <1>9, <2>1, TypeSet DEF ResolveClaim, GoTo, onward, BootSteps
    <3> QED BY <1>9, <3>2, <3>3 DEF ResolveClaim, Local, TypeInv
  <2>2. CASE n \notin cf
    BY <1>9, <2>2, Started, TypeSet, TypeLocal DEF ResolveClaim, Start
  <2> QED BY <2>1, <2>2
<1>10. CASE ResolveConfirm(n)
  BY <1>10, Started, TypeSet, TypeLocal DEF ResolveConfirm, Start
<1>11. CASE resolveWithoutCloudflare(n)
  BY <1>11, Started, TypeSet, TypeLocal DEF resolveWithoutCloudflare, Start
<1> QED BY <1>4, <1>5, <1>6, <1>7, <1>8, <1>9, <1>10, <1>11

LEMMA ProbeTypes ==
  ASSUME TypeInv, NEW n \in Node, Probe(n)
  PROVE  TypeInv'
<1>1. Ticking(agent[n]) /\ agent[n] \in Process
  BY InTick, TickingIs DEF Probe, TickSteps
<1> DEFINE peer == PeerStatus(n)
           txid == IF Answers(n) THEN data[Peer(n)].txid ELSE 0
           failures == IF Answers(n) THEN 0
                       ELSE IF agent[n].failures < ProbeFailureThreshold
                            THEN agent[n].failures + 1 ELSE agent[n].failures
           a == [agent[n] EXCEPT !.at = "lease", !.due = FALSE, !.age = 0, !.peer = peer,
                                 !.peerTXID = txid, !.failures = failures]
<1>2. peer \in Status
  BY Peers DEF PeerStatus, TypeInv, Process, Status
<1>3. txid \in 0..MaxWrites + 1
  BY Peers, NeverSet DEF TypeInv, Database
<1>4. failures \in 0..ProbeFailureThreshold
  BY <1>1, Constants DEF Process
<1>5. Set(n, a)
  BY <1>1 DEF Probe, Process
<1> HIDE DEF peer, txid, failures
<1>6. a \in Process /\ a.at = "lease" /\ a.age = 0 /\ a.blank = agent[n].blank
  BY <1>1, <1>2, <1>3, <1>4, NeverSet DEF Process, TickSteps
<1> HIDE DEF a
<1>7. Good(a)
  BY <1>1, <1>6, TickingIs, Constants DEF Ticking, TickSteps
<1> QED BY <1>5, <1>7, TypeSet, TypeLocal DEF Probe

LEMMA PrimaryTypes ==
  ASSUME TypeInv, NEW n \in Node,
         \/ PrimaryLease(n) \/ renew(n) \/ beginDrain(n) \/ SetDraining(n) \/ completeHandoff(n)
  PROVE  TypeInv'
<1>1. Ticking(agent[n])
  BY InTick DEF PrimaryLease, renew, beginDrain, SetDraining, completeHandoff, TickSteps
<1>2. /\ agent[n] \in Process /\ agent[n].age \in 0..Slack
      /\ agent[n].age <= LeaseTTL + ClaimGuard + 1 /\ agent[n].age \in Ages(RenewInterval)
  BY <1>1, TickingIs, Constants, SlackAssumption DEF Process, Ages, Zero
<1>3. CASE PrimaryLease(n)
  <2> DEFINE a == enforceDrainTimeout(agent[n])
             b == IF n \notin cf THEN evaluateDemote(a)
                  ELSE IF MustYield(n) THEN Switching(a)
                  ELSE IF renewDue(a) THEN [a EXCEPT !.at = "renew", !.age = 0]
                  ELSE [Safe(a) EXCEPT !.at = "handoff", !.age = 0]
  <2>1. Ticking(a) /\ Ticking(Safe(a))
    BY <1>1, EnforceIsGood, SafeIsGood
  <2>2. Set(n, b)
    BY <1>3 DEF PrimaryLease
  <2> HIDE DEF a
  <2>3. Good(b)
    BY <2>1, DemoteIsGood, SwitchingIsGood, AtStep DEF TickSteps
  <2> HIDE DEF b
  <2> QED BY <1>3, <2>2, <2>3, TypeSet, TypeLocal DEF PrimaryLease
<1>4. CASE renew(n)
  <2>1. CASE n \in cf
    <3> DEFINE a == Safe(agent[n])
               b == [a EXCEPT !.at = "handoff", !.lastRenew = agent[n].age]
    <3>1. Ticking(a)
      BY <1>1, SafeIsGood
    <3>2. Set(n, b) /\ Grant(n, agent[n].age)
      BY <1>4, <2>1 DEF renew
    <3> HIDE DEF a
    <3>3. b \in Process /\ b.at = "handoff" /\ b.age = a.age /\ b.blank = a.blank
      BY <1>2, <3>1, TickingIs DEF Process, TickSteps
    <3> HIDE DEF b
    <3>4. Good(b)
      BY <3>1, <3>3, TickingIs DEF Ticking, TickSteps
    <3>5. agent' \in [Node -> Process] /\ \A m \in Node : Timely(agent'[m])
      BY <3>2, <3>4, TypeSet
    <3>6. lease' \in LeaseType
      BY <1>2, <3>2, TypeGrant
    <3> QED BY <1>4, <3>5, <3>6 DEF renew, Local, TypeInv
  <2>2. CASE n \notin cf
    BY <1>1, <1>4, <2>2, DemoteIsGood, TypeSet, TypeLocal DEF renew
  <2> QED BY <2>1, <2>2
<1>5. CASE beginDrain(n)
  <2> DEFINE a == [agent[n] EXCEPT !.at = "close", !.drainSince = 0]
  <2>1. a \in Process /\ a.at = "close" /\ a.age = agent[n].age /\ a.blank = agent[n].blank
    BY <1>2, NeverSet DEF Process, TickSteps
  <2>2. Set(n, a)
    BY <1>5 DEF beginDrain
  <2> HIDE DEF a
  <2>3. Good(a)
    BY <1>1, <2>1, TickingIs DEF Ticking, TickSteps
  <2> QED BY <1>5, <2>2, <2>3, TypeSet, TypeLocal DEF beginDrain
<1>6. CASE SetDraining(n)
  <2> DEFINE a == [agent[n] EXCEPT !.at = "idle", !.draining = TRUE]
  <2>1. a \in Process /\ a.at = "idle" /\ a.age = agent[n].age /\ a.blank = agent[n].blank
    BY <1>2 DEF Process, TickSteps
  <2>2. Set(n, a)
    BY <1>6 DEF SetDraining
  <2> HIDE DEF a
  <2>3. Good(a)
    BY <1>1, <2>1, TickingIs DEF Ticking, TickSteps
  <2> QED BY <1>6, <2>2, <2>3, TypeSet, TypeLocal DEF SetDraining
<1>7. CASE completeHandoff(n)
  <2>1. CASE n \in cf
    <3>1. Grant(Peer(n), agent[n].age) /\ Set(n, Switching(agent[n]))
          /\ handoff' \in {handoff, NoRequest}
      BY <1>7, <2>1 DEF completeHandoff
    <3>2. lease' \in LeaseType
      BY <1>2, <3>1, Peers, TypeGrant
    <3>3. agent' \in [Node -> Process] /\ \A m \in Node : Timely(agent'[m])
      BY <1>1, <3>1, SwitchingIsGood, TypeSet
    <3>4. handoff' \in RequestType
      BY <3>1, TypeRequest
    <3> QED BY <1>7, <3>2, <3>3, <3>4 DEF completeHandoff, TypeInv
  <2>2. CASE n \notin cf
    <3>1. Set(n, [agent[n] EXCEPT !.at = "idle"]) /\ lease' = lease /\ Local
      BY <1>7, <2>2 DEF completeHandoff, GoTo, Local
    <3>2. Good([agent[n] EXCEPT !.at = "idle"])
      BY <1>1, AtStep DEF TickSteps
    <3>3. agent' \in [Node -> Process] /\ \A m \in Node : Timely(agent'[m])
      BY <3>1, <3>2, TypeSet
    <3> QED BY <3>1, <3>3, TypeLocal
  <2> QED BY <2>1, <2>2
<1> QED BY <1>3, <1>4, <1>5, <1>6, <1>7

\* What a tick makes of a request keeps its shape; turning failback off is one write.
LEMMA RequestTypes ==
  ASSUME TypeInv, NEW n \in Node, NEW busy \in BOOLEAN, handleHandoffRequest(n, busy)
  PROVE  TypeInv'
<1> DEFINE a == agent[n]
           r == Request(n, a)
           b == Waiting(a)
           starts == r = "go" /\ a.drainSince = Zero /\ ~MustWait(b, busy)
           c == IF r = "none" THEN [a EXCEPT !.at = "idle"]
                ELSE IF r = "cancel" THEN [cancelHandoff(a) EXCEPT !.at = "idle"]
                ELSE IF r = "pause" THEN [pauseHandoff(a) EXCEPT !.at = "idle"]
                ELSE IF a.drainSince = Zero
                  THEN [b EXCEPT !.at = IF starts THEN "drain" ELSE "idle"]
                ELSE [b EXCEPT !.at = IF CaughtUp(n, b) THEN "transfer" ELSE "idle"]
<1>1. Ticking(a)
  BY InTick DEF handleHandoffRequest, TickSteps
<1>2. Ticking(b) /\ Ticking(cancelHandoff(a)) /\ Ticking(pauseHandoff(a))
  BY <1>1, WaitingIsGood, CancelIsGood, PauseIsGood
<1>3. /\ Set(n, c) /\ handoff' \in {handoff, NoRequest}
      /\ data' = IF starts /\ n = Preferred /\ data[n].autoFailback
                   THEN [data EXCEPT ![n] = [txid |-> @.txid + 1, autoFailback |-> FALSE]]
                   ELSE data
      /\ UNCHANGED <<lease, cf, link, budget>>
  BY DEF handleHandoffRequest
<1> HIDE DEF a, b, r, starts
<1>4. Good(c)
  BY <1>1, <1>2, AtStep DEF TickSteps
<1> HIDE DEF c
<1>5. agent' \in [Node -> Process] /\ \A m \in Node : Timely(agent'[m])
  BY <1>3, <1>4, TypeSet
<1>6. handoff' \in RequestType
  BY <1>3, TypeRequest
<1>7. data' \in [Node -> Database] /\ \A m \in Node : RoomToTurnOff(data'[m])
  <2>1. CASE data' = data
    BY <2>1 DEF TypeInv
  <2>2. CASE data' # data
    <3> DEFINE d == [txid |-> data[n].txid + 1, autoFailback |-> FALSE]
    <3>1. data' = [data EXCEPT ![n] = d] /\ data[n].autoFailback
      BY <1>3, <2>2
    <3>2. data[n].txid \in Nat /\ data[n].txid <= MaxWrites
      BY <3>1, Constants DEF TypeInv, RoomToTurnOff, Database
    <3>3. d \in Database /\ RoomToTurnOff(d)
      BY <3>2, Constants DEF Database, RoomToTurnOff
    <3> HIDE DEF d
    <3> QED BY <3>1, <3>3 DEF TypeInv
  <2> QED BY <2>1, <2>2
<1> QED BY <1>3, <1>5, <1>6, <1>7 DEF TypeInv

LEMMA ReplicaTypes ==
  ASSUME TypeInv, NEW n \in Node,
         \/ ReplicaLease(n) \/ tryClaim(n) \/ verifyClaim(n) \/ requestHandoff(n)
         \/ runManualClaimCleanup(n)
  PROVE  TypeInv'
<1> DEFINE a == agent[n]
<1>1. Ticking(a)
  BY InTick DEF ReplicaLease, tryClaim, verifyClaim, requestHandoff, runManualClaimCleanup,
                TickSteps
<1>2. \A at \in TickSteps : Good([a EXCEPT !.at = at]) /\ Good([a EXCEPT !.at = at, !.age = 0])
  BY <1>1, AtStep
<1>3. Good(Switching(a)) /\ Good(GiveUp(a)) /\ Good(Ask(a))
  BY <1>1, <1>2, SwitchingIsGood, AskIsGood DEF GiveUp, TickSteps
<1>4. a.age \in 0..Slack /\ a.age <= LeaseTTL + ClaimGuard + 1
  BY <1>1, TickingIs, Constants, SlackAssumption DEF Process
<1>5. CASE ReplicaLease(n)
  <2>1. Good(maybeRequestFailback(n, a))
    <3> DEFINE c == [a EXCEPT !.caughtUpSince = Zero]
               b == IF a.caughtUpSince = Zero THEN [a EXCEPT !.caughtUpSince = 0] ELSE a
    <3>1. a \in Process
      BY <1>1, TickingIs
    <3>2. c \in Process /\ c.at = a.at /\ c.age = a.age /\ c.blank = a.blank
      BY <3>1, NeverSet DEF Process
    <3>3. b \in Process /\ b.at = a.at /\ b.age = a.age /\ b.blank = a.blank
      BY <3>1, NeverSet DEF Process
    <3>4. [a EXCEPT !.at = "idle", !.caughtUpSince = Zero] = [c EXCEPT !.at = "idle"]
      BY <3>1 DEF Process
    <3> HIDE DEF b, c
    <3>5. Ticking(b) /\ Ticking(c)
      BY <1>1, <3>2, <3>3, TickingIs
    <3>6. Good([b EXCEPT !.at = "idle"]) /\ Good([c EXCEPT !.at = "idle"]) /\ Good(Ask(b))
      BY <3>5, AtStep, AskIsGood DEF TickSteps
    <3>7. Good([a EXCEPT !.at = "idle"])
      BY <1>2 DEF TickSteps
    <3>8. maybeRequestFailback(n, a) =
            IF ~(data[n].autoFailback /\ n = Preferred /\ OwnedBy(Peer(n)))
              THEN [a EXCEPT !.at = "idle"]
            ELSE IF a.peer = "unreachable" \/ data[n].txid < a.peerTXID
              THEN [a EXCEPT !.at = "idle", !.caughtUpSince = Zero]
            ELSE IF b.caughtUpSince >= FailbackStableFor /\ Due(b) THEN Ask(b)
                                                           ELSE [b EXCEPT !.at = "idle"]
      BY DEF maybeRequestFailback, b
    <3> QED BY <3>4, <3>6, <3>7, <3>8
  <2>2. Good(maybeRequestManualTakeover(n, a))
    BY <1>2, <1>3 DEF maybeRequestManualTakeover, TickSteps
  <2> DEFINE b == IF n \notin cf THEN [a EXCEPT !.at = "idle"]
                  ELSE IF MustPromote(n) THEN Switching(a)
                  ELSE IF CanClaim(n) THEN [a EXCEPT !.at = "take", !.age = 0]
                  ELSE IF a.cleanup THEN [a EXCEPT !.at = "clean"]
                  ELSE IF a.manual THEN maybeRequestManualTakeover(n, a)
                  ELSE maybeRequestFailback(n, a)
  <2>3. Set(n, b)
    BY <1>5 DEF ReplicaLease
  <2> HIDE DEF a
  <2>4. Good(b)
    BY <1>2, <1>3, <2>1, <2>2 DEF TickSteps
  <2> HIDE DEF b
  <2> QED BY <1>5, <2>3, <2>4, TypeSet, TypeLocal DEF ReplicaLease
<1>6. CASE tryClaim(n)
  <2>1. CASE n \in cf
    <3>1. Grant(n, a.age) /\ Set(n, [a EXCEPT !.at = "verify"])
      BY <1>6, <2>1 DEF tryClaim, GoTo
    <3>2. lease' \in LeaseType
      BY <1>4, <3>1, Constants, TypeGrant
    <3>3. Good([a EXCEPT !.at = "verify"])
      BY <1>2 DEF TickSteps
    <3>4. agent' \in [Node -> Process] /\ \A m \in Node : Timely(agent'[m])
      BY <3>1, <3>3, TypeSet
    <3> QED BY <1>6, <3>2, <3>4 DEF tryClaim, Local, TypeInv
  <2>2. CASE n \notin cf
    BY <1>3, <1>6, <2>2, TypeSet, TypeLocal DEF tryClaim
  <2> QED BY <2>1, <2>2
<1>7. CASE verifyClaim(n)
  <2>1. CASE n \in cf /\ lease.owner = n
    BY <1>3, <1>7, <2>1, TypeSet, TypeLocal DEF verifyClaim
  <2>2. CASE ~(n \in cf /\ lease.owner = n)
    BY <1>3, <1>7, <2>2, TypeSet, TypeLocal DEF verifyClaim
  <2> QED BY <2>1, <2>2
<1>8. CASE requestHandoff(n)
  <2>1. Set(n, [a EXCEPT !.at = "idle"]) /\ UNCHANGED <<lease, cf, link, data, budget>>
    BY <1>8 DEF requestHandoff, GoTo
  <2>2. Good([a EXCEPT !.at = "idle"])
    BY <1>2 DEF TickSteps
  <2>3. agent' \in [Node -> Process] /\ \A m \in Node : Timely(agent'[m])
    BY <2>1, <2>2, TypeSet
  <2>4. handoff' \in RequestType
    BY <1>8 DEF requestHandoff, TypeInv, RequestType
  <2> QED BY <2>1, <2>3, <2>4 DEF TypeInv
<1>9. CASE runManualClaimCleanup(n)
  <2> DEFINE b == [a EXCEPT !.cleanup = FALSE]
  <2>1. a \in Process
    BY <1>1, TickingIs
  <2>2. b \in Process /\ b.at = a.at /\ b.age = a.age /\ b.blank = a.blank
    BY <2>1 DEF Process
  <2>3. [a EXCEPT !.at = "idle", !.cleanup = FALSE] = [b EXCEPT !.at = "idle"]
    BY <2>1 DEF Process
  <2> HIDE DEF b
  <2>4. Ticking(b)
    BY <1>1, <2>2, TickingIs
  <2>5. Good([a EXCEPT !.at = "idle"]) /\ Good([a EXCEPT !.at = "idle", !.cleanup = FALSE])
    BY <1>2, <2>3, <2>4, AtStep DEF TickSteps
  <2>6. agent' \in [Node -> Process] /\ \A m \in Node : Timely(agent'[m])
    BY <1>9, <2>5, TypeSet DEF runManualClaimCleanup, GoTo
  <2>7. handoff' \in RequestType
    BY <1>9, TypeRequest DEF runManualClaimCleanup
  <2> QED BY <1>9, <2>6, <2>7 DEF runManualClaimCleanup, TypeInv
<1> QED BY <1>5, <1>6, <1>7, <1>8, <1>9

LEMMA StepTypes == ASSUME TypeInv, NEW n \in Node, Step(n) PROVE TypeInv'
  BY BootTypes, ProbeTypes, PrimaryTypes, RequestTypes, ReplicaTypes DEF Step

-----------------------------------------------------------------------------
(* Requests of the admin, data, time and faults.                           *)

LEMMA EventTypes ==
  ASSUME TypeInv, NEW e, Event(e)
  PROVE  budget' \in [DOMAIN Budget -> Nat]
<1>1. budget \in [DOMAIN Budget -> Nat]
  BY DEF TypeInv
<1>2. budget[e] > 0 /\ budget' = [budget EXCEPT ![e] = budget[e] - 1]
  BY DEF Event
<1>3. CASE e \in DOMAIN Budget
  <2>1. budget[e] - 1 \in Nat
    BY <1>1, <1>2, <1>3
  <2> QED BY <1>1, <1>2, <1>3, <2>1
<1>4. CASE e \notin DOMAIN Budget
  BY <1>1, <1>2, <1>4
<1> QED BY <1>3, <1>4

\* What an admin asks for does not touch step or age.
LEMMA AdminTypes ==
  ASSUME TypeInv, NEW n \in Node,
         CancelManualSwitch(n) \/ \E force \in BOOLEAN : RequestManualSwitch(n, force)
  PROVE  TypeInv'
<1> DEFINE p == agent[n]
<1>1. p \in Process /\ Timely(p)
  BY DEF TypeInv
<1>2. \A a \in Process : a.at = p.at /\ a.age = p.age /\ a.blank = p.blank => Good(a)
  BY <1>1 DEF Good, Timely
<1>3. CASE CancelManualSwitch(n)
  <2> DEFINE a == [p EXCEPT !.manual = FALSE, !.force = FALSE]
             b == [a EXCEPT !.handoffSince = Zero, !.drainSince = Zero, !.draining = FALSE]
             c == [a EXCEPT !.cleanup = TRUE]
             d == IF ~p.manual THEN a ELSE IF a.role = "primary" THEN pauseHandoff(a) ELSE c
  <2>1. a \in Process /\ a.at = p.at /\ a.age = p.age /\ a.blank = p.blank
    BY <1>1 DEF Process
  <2>2. Set(n, d)
    BY <1>3 DEF CancelManualSwitch
  <2>3. d \in {a, b, c}
    BY DEF pauseHandoff
  <2> HIDE DEF a, d
  <2>4. b \in Process /\ b.at = p.at /\ b.age = p.age /\ b.blank = p.blank
    BY <2>1, NeverSet DEF Process
  <2>5. c \in Process /\ c.at = p.at /\ c.age = p.age /\ c.blank = p.blank
    BY <2>1 DEF Process
  <2> HIDE DEF b, c, p
  <2>6. Good(a) /\ Good(b) /\ Good(c)
    BY <1>2, <2>1, <2>4, <2>5
  <2>7. Good(d)
    BY <2>3, <2>6
  <2>8. agent' \in [Node -> Process] /\ \A m \in Node : Timely(agent'[m])
    BY <2>2, <2>7, TypeSet
  <2> QED BY <1>3, <2>8, EventTypes DEF CancelManualSwitch, TypeInv
<1>4. CASE \E force \in BOOLEAN : RequestManualSwitch(n, force)
  <2> PICK force \in BOOLEAN : RequestManualSwitch(n, force)
    BY <1>4
  <2> DEFINE insists == p.force \/ force
             since == IF IsPrimary(n) THEN p.lastHandoffWrite ELSE Zero
             a == [p EXCEPT !.manual = TRUE, !.force = insists, !.cleanup = FALSE,
                            !.lastHandoffWrite = since]
  <2>1. since \in Ages(HandoffRefresh)
    BY <1>1, NeverSet DEF Process
  <2>2. insists \in BOOLEAN
    OBVIOUS
  <2>3. Set(n, a)
    BY <1>1 DEF RequestManualSwitch, Process
  <2> HIDE DEF insists, since
  <2>4. a \in Process /\ a.at = p.at /\ a.age = p.age /\ a.blank = p.blank
    BY <1>1, <2>1, <2>2 DEF Process
  <2> HIDE DEF a, p
  <2>5. agent' \in [Node -> Process] /\ \A m \in Node : Timely(agent'[m])
    BY <1>2, <2>3, <2>4, TypeSet
  <2> QED BY <2>5, EventTypes DEF RequestManualSwitch, TypeInv
<1> QED BY <1>3, <1>4

LEMMA DataTypes ==
  ASSUME TypeInv, NEW n \in Node, Write(n) \/ Replicate(n)
  PROVE  TypeInv'
<1>1. CASE Write(n)
  <2> DEFINE d == [data[n] EXCEPT !.txid = @ + 1]
  <2>1. data' = [data EXCEPT ![n] = d] /\ data[n].txid \in Nat /\ data[n].txid < MaxWrites
    BY <1>1, Constants DEF Write, TypeInv, Database
  <2>2. d \in Database /\ RoomToTurnOff(d)
    BY <2>1, Constants DEF TypeInv, Database, RoomToTurnOff
  <2> HIDE DEF d
  <2> QED BY <1>1, <2>1, <2>2 DEF Write, TypeInv
<1>2. CASE Replicate(n)
  BY <1>2, Peers DEF Replicate, TypeInv
<1> QED BY <1>1, <1>2

LEMMA AgedIsGood ==
  ASSUME NEW a, Good(a), MayWait(a)
  PROVE  Good(Aged(a))
<1> USE DEF Good
<1>1. CASE a.at = "crashed"
  <2> DEFINE b == [a EXCEPT !.age = RestartMin]
  <2>1. RestartMin \in 0..(BootstrapWait + Slack + RestartMax) /\ RestartMin <= RestartMax
    BY Constants
  <2>2. b \in Process /\ b.at = a.at /\ b.age = RestartMin
    BY <2>1 DEF Process
  <2>3. Aged(a) = b
    BY <1>1 DEF Aged
  <2> HIDE DEF b
  <2> QED BY <1>1, <2>1, <2>2, <2>3 DEF Timely, TickSteps, BootSteps
<1>2. CASE a.at \in {"down", "leaving"}
  <2> DEFINE b == [a EXCEPT !.age = @ + 1]
  <2>1. a.age \in Nat /\ a.age + 1 <= RestartMax
    BY <1>2, Constants DEF Process, MayWait, AgeLimit
  <2>2. a.age + 1 \in 0..(BootstrapWait + Slack + RestartMax)
    BY <2>1, Constants
  <2>3. b \in Process /\ b.at = a.at /\ b.age = a.age + 1
    BY <2>2 DEF Process
  <2>4. Aged(a) = b
    BY <1>2 DEF Aged
  <2> HIDE DEF b
  <2> QED BY <1>2, <2>1, <2>3, <2>4 DEF Timely, TickSteps, BootSteps
<1>3. CASE a.at \notin {"crashed", "down", "leaving"}
  <2> DEFINE age == IF a.at = "idle" THEN 0 ELSE a.age + 1
             s == Older(a.lastSafe, DemoteAfter + 1)
             r == Older(a.lastRenew, RenewInterval)
             h == Older(a.handoffSince, FailbackMaxWait)
             d == Older(a.drainSince, DrainTimeout + 1)
             c == Older(a.caughtUpSince, FailbackStableFor)
             w == Older(a.lastHandoffWrite, HandoffRefresh)
             b == [a EXCEPT !.due = TRUE, !.age = age, !.lastSafe = s, !.lastRenew = r,
                            !.handoffSince = h, !.drainSince = d, !.caughtUpSince = c,
                            !.lastHandoffWrite = w]
  <2>1. \A max \in Nat : \A x \in Ages(max) : Older(x, max) \in Ages(max)
    BY DEF Older, Ages, Zero
  <2>2. /\ s \in Ages(DemoteAfter + 1) /\ r \in Ages(RenewInterval)
        /\ h \in Ages(FailbackMaxWait) /\ d \in Ages(DrainTimeout + 1)
        /\ c \in Ages(FailbackStableFor) /\ w \in Ages(HandoffRefresh)
    BY <2>1, Constants DEF Process
  <2>3. a.age \in Nat
    BY Constants DEF Process
  <2>4. age <= AgeLimit(a) /\ age \in Nat /\ AgeLimit(a) \in Nat
    BY <1>3, <2>3, Constants DEF MayWait, AgeLimit
  <2>5. age \in 0..(BootstrapWait + Slack + RestartMax)
    BY <2>4, Constants DEF AgeLimit
  <2>6. Aged(a) = b
    BY <1>3 DEF Aged, Process
  <2> HIDE DEF age, s, r, h, d, c, w
  <2>7. b \in Process /\ b.at = a.at /\ b.age = age /\ b.blank = a.blank
    BY <2>2, <2>5 DEF Process
  <2> HIDE DEF b
  <2>8. CASE a.at \in TickSteps
    <3>1. AgeLimit(a) = Slack
      BY <2>8, <1>3 DEF AgeLimit, Timely, TickSteps
    <3> QED BY <2>4, <2>6, <2>7, <2>8, <3>1, StepsDiffer DEF Timely
  <2>9. CASE a.at \in BootSteps
    <3>1. AgeLimit(a) <= BootstrapWait + Slack
      BY <2>9, <1>3, Constants DEF AgeLimit
    <3>2. age <= BootstrapWait + Slack
      BY <2>4, <3>1, Constants
    <3> QED BY <1>3, <2>6, <2>7, <2>9, <3>2, StepsDiffer DEF Timely
  <2> QED BY <1>3, <2>8, <2>9 DEF Process
<1> QED BY <1>1, <1>2, <1>3

LEMMA AdvanceTypes == ASSUME TypeInv, Advance PROVE TypeInv'
<1>1. \A n \in Node : Good(Aged(agent[n]))
  BY AgedIsGood DEF Advance, TypeInv, Good
<1>2. agent' \in [Node -> Process] /\ \A m \in Node : Timely(agent'[m])
  BY <1>1 DEF Advance, Good
<1>3. lease' \in LeaseType
  <2>1. lease \in LeaseType
    BY DEF TypeInv
  <2>2. CASE lease' = lease
    BY <2>1, <2>2
  <2>3. CASE lease' # lease
    <3>1. lease' = [lease EXCEPT !.left = @ - 1] /\ lease.left > -(ClaimGuard + 1)
      BY <2>3 DEF Advance
    <3>2. lease.left - 1 \in -(ClaimGuard + 1)..LeaseTTL
      BY <2>1, <3>1, Constants DEF LeaseType
    <3> QED BY <2>1, <3>1, <3>2 DEF LeaseType
  <2> QED BY <2>2, <2>3
<1> QED BY <1>2, <1>3 DEF Advance, Local, TypeInv

LEMMA FaultTypes ==
  ASSUME TypeInv,
         \/ \E n \in Node : Crash(n)
         \/ \E S \in SUBSET Node : CfFails(S)
         \/ LinkFails \/ RecordLost \/ NetworkHeals
  PROVE  TypeInv'
<1>1. CASE \E n \in Node : Crash(n)
  <2> PICK n \in Node : Crash(n)
    BY <1>1
  <2>1. Set(n, [Fresh EXCEPT !.at = "crashed"])
    BY DEF Crash
  <2> DEFINE a == [Fresh EXCEPT !.at = "crashed"]
  <2>2. a \in Process /\ a.at = "crashed" /\ a.age = 0
    BY FreshIsGood DEF Process, Fresh
  <2> HIDE DEF a
  <2>3. Timely(a)
    BY <2>2, Constants DEF Timely, TickSteps, BootSteps
  <2>4. Good(a) /\ Set(n, a)
    BY <2>1, <2>2, <2>3 DEF Good, a
  <2>5. agent' \in [Node -> Process] /\ \A m \in Node : Timely(agent'[m])
    BY <2>4, TypeSet
  <2> QED BY <2>5, EventTypes DEF Crash, TypeInv
<1>2. CASE \E S \in SUBSET Node : CfFails(S)
  BY <1>2, EventTypes DEF CfFails, TypeInv
<1>3. CASE LinkFails
  BY <1>3, EventTypes DEF LinkFails, TypeInv
<1>4. CASE RecordLost
  <2>1. NoLease \in LeaseType
    BY Constants DEF NoLease, LeaseType
  <2> QED BY <1>4, <2>1, EventTypes DEF RecordLost, TypeInv
<1>5. CASE NetworkHeals
  BY <1>5 DEF NetworkHeals, TypeInv
<1> QED BY <1>1, <1>2, <1>3, <1>4, <1>5

LEMMA InitTypes == Init => TypeInv
<1> SUFFICES ASSUME Init PROVE TypeInv
  OBVIOUS
<1> DEFINE initially(p) == [n \in Node |-> [Fresh EXCEPT
                   !.at = "idle", !.role = IF n = p THEN "primary" ELSE "replica"]]
<1>0. PICK p \in Node :
        /\ lease = [owner |-> p, left |-> LeaseTTL]
        /\ agent = initially(p)
        /\ data = [n \in Node |-> [txid |-> 0, autoFailback |-> AutoFailback]]
        /\ handoff = NoRequest /\ cf = Node /\ link = TRUE /\ budget = Budget
  BY DEF Init
<1>1. lease \in LeaseType
  <2>1. LeaseTTL \in -(ClaimGuard + 1)..LeaseTTL
    BY Constants
  <2> QED BY <1>0, <2>1 DEF LeaseType
<1>2. \A n \in Node : Good(agent[n])
  BY <1>0, Started
<1>3. agent \in [Node -> Process] /\ \A n \in Node : Timely(agent[n])
  BY <1>0, <1>2 DEF Good
<1> HIDE DEF initially
<1>4. data \in [Node -> Database] /\ \A n \in Node : RoomToTurnOff(data[n])
  <2>1. [txid |-> 0, autoFailback |-> AutoFailback] \in Database
    BY NeverSet, TimingAssumption DEF Database
  <2>2. RoomToTurnOff([txid |-> 0, autoFailback |-> AutoFailback])
    BY Constants DEF RoomToTurnOff
  <2> QED BY <1>0, <2>1, <2>2
<1>5. budget \in [DOMAIN Budget -> Nat]
  BY <1>0, TimingAssumption
<1>6. handoff \in RequestType /\ cf \subseteq Node /\ link \in BOOLEAN
  BY <1>0 DEF RequestType, NoRequest
<1> QED BY <1>1, <1>3, <1>4, <1>5, <1>6 DEF TypeInv

LEMMA NextTypes == TypeInv /\ [Next]_vars => TypeInv'
<1>1. TypeInv /\ UNCHANGED vars => TypeInv'
  BY DEF TypeInv, vars
<1> QED BY <1>1, StepTypes, AdminTypes, DataTypes, AdvanceTypes, FaultTypes DEF Next

\* Records, processes and databases keep their shape: ages stop at their bounds, an expired
\* lease is not counted beyond the guard, and the automatic failback is turned off by at
\* most one write (agent.go: the whole tick; resolve.go: the boot).
THEOREM TypeCorrect == Spec => []TypeOK
<1>1. TypeInv => TypeOK
  BY DEF TypeInv, TypeOK, LeaseType, RequestType, Database
<1> QED BY <1>1, InitTypes, NextTypes, PTL DEF Spec

-----------------------------------------------------------------------------
(* A hand-over loses no write, when nobody withdraws a request.            *)

NobodyWithdraws == Budget["cancel"] = 0

\* A drain has closed the gate, or is about to.
Closed(a) == a.drainSince # Zero => a.draining
Gate(a) == /\ a.at # "close" => Closed(a)
           /\ a.at = "transfer" => a.drainSince # Zero

\* What the probe has told a node that is closed to writes: the peer has that position, or
\* has been brought to this node's since; in front of the transfer, it has everything.
Told(a, mine, theirs) ==
    /\ a.draining /\ a.at \in {"lease", "renew", "handoff"}
           => a.peerTXID <= theirs \/ mine <= theirs
    /\ a.at = "transfer" => mine <= theirs

HandoffInv ==
    /\ TypeInv /\ budget["cancel"] = 0
    /\ \A n \in Node : Gate(agent[n])
    /\ \A n \in Node : Told(agent[n], data[n].txid, data[Peer(n)].txid)

\* A process that takes a step while the data stays.
LEMMA OneSteps ==
  ASSUME HandoffInv, TypeInv', NEW n \in Node, NEW a, Set(n, a), data' = data, budget' = budget,
         Gate(a), Told(a, data[n].txid, data[Peer(n)].txid)
  PROVE  HandoffInv'
<1>1. \A m \in Node : agent'[m] = IF m = n THEN a ELSE agent[m]
  BY DEF Set, HandoffInv, TypeInv
<1> QED BY <1>1 DEF HandoffInv

\* Most steps of a process are none that needs to be told anything.
Elsewhere == (TickSteps \cup BootSteps \cup {"down", "crashed", "leaving"})
             \ {"lease", "renew", "handoff", "close", "transfer"}

LEMMA StepsElsewhere ==
  ASSUME HandoffInv, TypeInv', NEW n \in Node, NEW a, Set(n, a), data' = data, budget' = budget,
         a.at \in Elsewhere, Closed(a)
  PROVE  HandoffInv'
<1>1. Gate(a) /\ Told(a, data[n].txid, data[Peer(n)].txid)
  BY DEF Gate, Told, Elsewhere
<1> QED BY <1>1, OneSteps

LEMMA FreshIsClosed ==
  ASSUME NEW at, NEW role, NEW age
  PROVE  /\ Closed(Fresh) /\ Fresh.at = "boot"
         /\ Closed([Fresh EXCEPT !.at = at, !.role = role])
         /\ [Fresh EXCEPT !.at = at, !.role = role].at = at
         /\ Closed([Fresh EXCEPT !.at = at, !.age = age])
         /\ [Fresh EXCEPT !.at = at, !.age = age].at = at
         /\ Closed([Fresh EXCEPT !.at = at]) /\ [Fresh EXCEPT !.at = at].at = at
  BY DEF Closed, Fresh

\* Going to another step, or starting to count the age anew.
LEMMA AtClosed ==
  ASSUME NEW a \in Process, Closed(a), NEW at, NEW age
  PROVE  /\ Closed([a EXCEPT !.at = at]) /\ [a EXCEPT !.at = at].at = at
         /\ Closed([a EXCEPT !.at = at, !.age = age]) /\ [a EXCEPT !.at = at, !.age = age].at = at
         /\ [a EXCEPT !.at = at, !.age = age].draining = a.draining
         /\ [a EXCEPT !.at = at, !.age = age].peerTXID = a.peerTXID
  BY DEF Process, Closed

LEMMA BootMoves ==
  ASSUME HandoffInv, NEW n \in Node,
         \/ Boot(n) \/ Exit(n) \/ ResolveLease(n) \/ ResolveProbe(n) \/ ResolveWait(n)
         \/ ResolveClaim(n) \/ ResolveConfirm(n) \/ resolveWithoutCloudflare(n)
  PROVE  HandoffInv'
<1>1. TypeInv' /\ data' = data /\ budget' = budget
  BY BootTypes DEF HandoffInv, Boot, Exit, ResolveLease, ResolveProbe, ResolveWait, ResolveClaim,
                   ResolveConfirm, resolveWithoutCloudflare, Local
<1>2. agent[n] \in Process /\ (At(n) \in BootSteps => Closed(agent[n]))
  BY DEF HandoffInv, TypeInv, Gate, At, BootSteps
<1>3. CASE \E a : Set(n, a) /\ a.at \in Elsewhere /\ Closed(a)
  BY <1>1, <1>3, StepsElsewhere
<1>4. \A role : Start(n, role) => \E a : Set(n, a) /\ a.at \in Elsewhere /\ Closed(a)
  BY FreshIsClosed DEF Start, Elsewhere, TickSteps
<1>5. \A at \in BootSteps : GoTo(n, at) /\ At(n) \in BootSteps
        => \E a : Set(n, a) /\ a.at \in Elsewhere /\ Closed(a)
  <2> SUFFICES ASSUME NEW at \in BootSteps, GoTo(n, at), At(n) \in BootSteps
               PROVE  \E a : Set(n, a) /\ a.at \in Elsewhere /\ Closed(a)
    OBVIOUS
  <2> DEFINE a == [agent[n] EXCEPT !.at = at]
  <2>1. a.at = at /\ Closed(a) /\ Set(n, a)
    BY <1>2, AtClosed DEF GoTo
  <2>2. at \in Elsewhere
    BY DEF Elsewhere, BootSteps
  <2> HIDE DEF a
  <2> QED BY <2>1, <2>2
<1>6. CASE Boot(n)
  BY <1>3, <1>6, FreshIsClosed DEF Boot, Elsewhere, BootSteps
<1>7. CASE Exit(n)
  <2> DEFINE a == [Fresh EXCEPT !.at = "down", !.age = agent[n].age]
  <2>1. Set(n, a)
    BY <1>7 DEF Exit
  <2>2. a.at = "down" /\ Closed(a)
    BY FreshIsClosed
  <2> HIDE DEF a
  <2> QED BY <1>3, <2>1, <2>2 DEF Elsewhere
<1>8. CASE ResolveLease(n)
  <2> DEFINE a == [agent[n] EXCEPT !.at = "bootProbe", !.age = 0, !.blank = ~LeaseExists]
  <2>1. a.at \in Elsewhere /\ (At(n) \in BootSteps => Closed(a))
    BY <1>2 DEF Process, Closed, Elsewhere, BootSteps
  <2> HIDE DEF a
  <2> QED BY <1>3, <1>4, <1>5, <1>8, <2>1 DEF ResolveLease, BootSteps, a
<1>9. CASE ResolveProbe(n) \/ ResolveWait(n) \/ ResolveClaim(n)
  BY <1>3, <1>4, <1>5, <1>9 DEF ResolveProbe, ResolveWait, ResolveClaim, BootSteps
<1>10. CASE ResolveConfirm(n) \/ resolveWithoutCloudflare(n)
  BY <1>3, <1>4, <1>10 DEF ResolveConfirm, resolveWithoutCloudflare
<1> QED BY <1>6, <1>7, <1>8, <1>9, <1>10

\* What the operators of a tick leave of a drain.
LEMMA Drains ==
  ASSUME NEW a \in Process, Closed(a), NEW x
  PROVE  /\ x \in {pauseHandoff(a), cancelHandoff(a), enforceDrainTimeout(a), Safe(a)}
             => x \in Process /\ Closed(x) /\ (x.draining => a.draining) /\ x.peerTXID = a.peerTXID
         /\ x = Waiting(a) => /\ x \in Process /\ x.drainSince = a.drainSince
                              /\ x.draining = a.draining /\ x.peerTXID = a.peerTXID
         /\ x = Switching(a) => x.at = "leaving" /\ Closed(x)
<1>1. \A p \in Process : Closed(p) =>
        /\ pauseHandoff(p) \in Process /\ Closed(pauseHandoff(p))
        /\ pauseHandoff(p).draining => p.draining
        /\ pauseHandoff(p).peerTXID = p.peerTXID
  <2> SUFFICES ASSUME NEW p \in Process, Closed(p)
               PROVE  /\ pauseHandoff(p) \in Process /\ Closed(pauseHandoff(p))
                      /\ pauseHandoff(p).draining => p.draining
                      /\ pauseHandoff(p).peerTXID = p.peerTXID
    OBVIOUS
  <2> DEFINE b == [p EXCEPT !.handoffSince = Zero, !.drainSince = Zero, !.draining = FALSE]
  <2>1. b \in Process /\ Closed(b) /\ b.draining = FALSE /\ b.peerTXID = p.peerTXID
    BY NeverSet DEF Process, Closed
  <2>2. pauseHandoff(p) = b \/ pauseHandoff(p) = p
    BY DEF pauseHandoff
  <2> HIDE DEF b
  <2> QED BY <2>1, <2>2
<1>2. /\ cancelHandoff(a) \in Process /\ Closed(cancelHandoff(a))
      /\ cancelHandoff(a).draining => a.draining
      /\ cancelHandoff(a).peerTXID = a.peerTXID
  <2> DEFINE b == pauseHandoff(a)
             c == [b EXCEPT !.manual = FALSE, !.force = FALSE, !.draining = FALSE]
  <2>1. b \in Process /\ Closed(b) /\ (b.draining => a.draining) /\ b.peerTXID = a.peerTXID
        /\ b.drainSince = Zero
    BY <1>1, NeverSet DEF pauseHandoff, InHandoff, Process
  <2>2. cancelHandoff(a) = c \/ cancelHandoff(a) = b
    BY DEF cancelHandoff
  <2> HIDE DEF b
  <2>3. c \in Process /\ Closed(c) /\ c.draining = FALSE /\ c.peerTXID = b.peerTXID
    BY <2>1 DEF Process, Closed
  <2> QED BY <2>1, <2>2, <2>3
<1>3. enforceDrainTimeout(a) \in {a, cancelHandoff(a)}
  BY DEF enforceDrainTimeout
<1>4. /\ Safe(a) \in Process /\ Closed(Safe(a)) /\ Safe(a).draining = a.draining
      /\ Safe(a).peerTXID = a.peerTXID
  BY NeverSet DEF Safe, Process, Closed
<1>5. LET w == Waiting(a) IN /\ w \in Process /\ w.drainSince = a.drainSince
                             /\ w.draining = a.draining /\ w.peerTXID = a.peerTXID
  BY NeverSet DEF Waiting, Process
<1>6. Switching(a).at = "leaving" /\ Closed(Switching(a))
  BY DEF Switching, Process, Closed
<1> QED BY <1>1, <1>2, <1>3, <1>4, <1>5, <1>6

LEMMA DemoteMoves ==
  ASSUME NEW a \in Process, Closed(a)
  PROVE  evaluateDemote(a).at \in Elsewhere /\ Closed(evaluateDemote(a))
<1>1. Safe(a) \in Process /\ Closed(Safe(a))
  BY Drains
<1>2. LET b == [Safe(a) EXCEPT !.at = "idle"] IN b.at = "idle" /\ Closed(b)
  BY <1>1, AtClosed
<1>3. LET b == [a EXCEPT !.at = "idle"] IN b.at = "idle" /\ Closed(b)
  BY AtClosed
<1>4. Switching(a).at = "leaving" /\ Closed(Switching(a))
  BY Drains
<1> QED BY <1>2, <1>3, <1>4 DEF evaluateDemote, Elsewhere, TickSteps

LEMMA ProbeMoves ==
  ASSUME HandoffInv, NEW n \in Node, Probe(n)
  PROVE  HandoffInv'
<1> DEFINE txid == IF Answers(n) THEN data[Peer(n)].txid ELSE 0
           a == [agent[n] EXCEPT
                   !.at = "lease", !.due = FALSE, !.age = 0, !.peer = PeerStatus(n),
                   !.peerTXID = txid,
                   !.failures = IF Answers(n) THEN 0
                                ELSE IF @ < ProbeFailureThreshold THEN @ + 1 ELSE @]
<1>1. TypeInv' /\ data' = data /\ budget' = budget
  BY ProbeTypes DEF HandoffInv, Probe, Local
<1>2. agent[n] \in Process /\ Closed(agent[n])
  BY DEF HandoffInv, TypeInv, Gate, Probe, At
<1>3. data[Peer(n)].txid \in Nat /\ data[n].txid \in Nat
  BY Peers, Constants DEF HandoffInv, TypeInv, Database
<1>4. txid <= data[Peer(n)].txid
  BY <1>3
<1>5. Set(n, a)
  BY DEF Probe
<1> HIDE DEF txid
<1>6. a.at = "lease" /\ Closed(a) /\ a.peerTXID = txid
  BY <1>2 DEF Process, Closed
<1> HIDE DEF a
<1>7. Gate(a) /\ Told(a, data[n].txid, data[Peer(n)].txid)
  BY <1>4, <1>6 DEF Gate, Told
<1> QED BY <1>1, <1>5, <1>7, OneSteps

LEMMA PrimaryMoves ==
  ASSUME HandoffInv, NEW n \in Node,
         \/ PrimaryLease(n) \/ renew(n) \/ beginDrain(n) \/ SetDraining(n) \/ completeHandoff(n)
  PROVE  HandoffInv'
<1> DEFINE p == agent[n]
<1>1. TypeInv' /\ data' = data /\ budget' = budget
  BY PrimaryTypes
     DEF HandoffInv, PrimaryLease, renew, beginDrain, SetDraining, completeHandoff, Local
<1>2. p \in Process /\ (p.at # "close" => Closed(p)) /\ Told(p, data[n].txid, data[Peer(n)].txid)
  BY DEF HandoffInv, TypeInv, Gate
<1>3. CASE \E a : Set(n, a) /\ a.at \in Elsewhere /\ Closed(a)
  BY <1>1, <1>3, StepsElsewhere
<1>4. CASE \E a : /\ Set(n, a) /\ Closed(a) /\ a.at \in {"renew", "handoff"}
                  /\ p.at \in {"lease", "renew"}
                  /\ a.draining => p.draining
                  /\ a.peerTXID = p.peerTXID
  <2> PICK a : /\ Set(n, a) /\ Closed(a) /\ a.at \in {"renew", "handoff"}
               /\ p.at \in {"lease", "renew"}
               /\ a.draining => p.draining
               /\ a.peerTXID = p.peerTXID
    BY <1>4
  <2>1. Gate(a) /\ Told(a, data[n].txid, data[Peer(n)].txid)
    BY <1>2 DEF Gate, Told
  <2> QED BY <1>1, <2>1, OneSteps
<1>5. CASE PrimaryLease(n)
  <2> DEFINE a == enforceDrainTimeout(p)
             b == [a EXCEPT !.at = "renew", !.age = 0]
             c == [Safe(a) EXCEPT !.at = "handoff", !.age = 0]
  <2>1. p.at = "lease" /\ Closed(p)
    BY <1>2, <1>5 DEF PrimaryLease, At
  <2>2. a \in Process /\ Closed(a) /\ (a.draining => p.draining) /\ a.peerTXID = p.peerTXID
    BY <1>2, <2>1, Drains
  <2>3. \/ Set(n, evaluateDemote(a)) \/ Set(n, Switching(a))
        \/ Set(n, b) \/ Set(n, c)
    BY <1>5 DEF PrimaryLease
  <2> HIDE DEF a
  <2>4. /\ Safe(a) \in Process /\ Closed(Safe(a)) /\ (Safe(a).draining => a.draining)
        /\ Safe(a).peerTXID = a.peerTXID
    BY <2>2, Drains
  <2>5. /\ Closed(b) /\ b.at = "renew" /\ b.draining = a.draining /\ b.peerTXID = a.peerTXID
        /\ Closed(c) /\ c.at = "handoff" /\ (c.draining => a.draining)
        /\ c.peerTXID = a.peerTXID
    <3>1. Closed(b) /\ b.at = "renew" /\ b.draining = a.draining /\ b.peerTXID = a.peerTXID
      BY <2>2 DEF Process, Closed
    <3> DEFINE q == Safe(a)
    <3>2. q \in Process /\ Closed(q) /\ (q.draining => a.draining) /\ q.peerTXID = a.peerTXID
      BY <2>4
    <3>3. c = [q EXCEPT !.at = "handoff", !.age = 0]
      OBVIOUS
    <3> HIDE DEF q, b, c
    <3>4. Closed(c) /\ c.at = "handoff" /\ c.draining = q.draining /\ c.peerTXID = q.peerTXID
      BY <3>2, <3>3 DEF Process, Closed
    <3> QED BY <3>1, <3>2, <3>4
  <2>6. Switching(a).at = "leaving" /\ Closed(Switching(a))
    BY <2>2, Drains
  <2> HIDE DEF b, c, p
  <2>7. CASE Set(n, evaluateDemote(a)) \/ Set(n, Switching(a))
    BY <1>3, <2>2, <2>6, <2>7, DemoteMoves DEF Elsewhere
  <2>8. CASE Set(n, b) \/ Set(n, c)
    BY <1>4, <2>1, <2>2, <2>5, <2>8
  <2> QED BY <2>3, <2>7, <2>8
<1>6. CASE renew(n)
  <2>1. p.at = "renew" /\ Closed(p)
    BY <1>2, <1>6 DEF renew, At
  <2>2. CASE n \in cf
    <3> DEFINE a == [Safe(p) EXCEPT !.at = "handoff", !.lastRenew = p.age]
    <3>1. Safe(p) \in Process /\ Closed(Safe(p)) /\ (Safe(p).draining => p.draining)
          /\ Safe(p).peerTXID = p.peerTXID
      BY <1>2, <2>1, Drains
    <3>2. Set(n, a)
      BY <1>6, <2>2 DEF renew
    <3>3. Closed(a) /\ a.at = "handoff" /\ (a.draining => p.draining)
          /\ a.peerTXID = p.peerTXID
      BY <3>1 DEF Process, Closed
    <3> HIDE DEF a, p
    <3> QED BY <1>4, <2>1, <3>2, <3>3
  <2>3. CASE n \notin cf
    BY <1>2, <1>3, <1>6, <2>1, <2>3, DemoteMoves DEF renew
  <2> QED BY <2>2, <2>3
<1>7. CASE beginDrain(n)
  <2> DEFINE a == [p EXCEPT !.at = "close", !.drainSince = 0]
  <2>1. a.at = "close"
    BY <1>2 DEF Process
  <2>2. Set(n, a)
    BY <1>7 DEF beginDrain
  <2> HIDE DEF a
  <2>3. Gate(a) /\ Told(a, data[n].txid, data[Peer(n)].txid)
    BY <2>1 DEF Gate, Told
  <2> QED BY <1>1, <2>2, <2>3, OneSteps
<1>8. CASE SetDraining(n)
  <2> DEFINE a == [p EXCEPT !.at = "idle", !.draining = TRUE]
  <2>1. a.at = "idle" /\ Closed(a)
    BY <1>2 DEF Process, Closed
  <2>2. Set(n, a)
    BY <1>8 DEF SetDraining
  <2> HIDE DEF a
  <2> QED BY <1>3, <2>1, <2>2 DEF Elsewhere, TickSteps
<1>9. CASE completeHandoff(n)
  <2>1. Closed(p)
    BY <1>2, <1>9 DEF completeHandoff, At
  <2>2. Set(n, Switching(p)) \/ Set(n, [p EXCEPT !.at = "idle"])
    BY <1>9 DEF completeHandoff, GoTo
  <2>3. Switching(p).at = "leaving" /\ Closed(Switching(p))
    BY <1>2, <2>1, Drains
  <2>4. LET a == [p EXCEPT !.at = "idle"] IN a.at = "idle" /\ Closed(a)
    BY <1>2, <2>1, AtClosed
  <2>5. "leaving" \in Elsewhere /\ "idle" \in Elsewhere
    BY DEF Elsewhere, TickSteps
  <2> HIDE DEF p
  <2> QED BY <1>3, <2>2, <2>3, <2>4, <2>5
<1> QED BY <1>5, <1>6, <1>7, <1>8, <1>9

\* A request leads to the transfer only through a drain, whose gate is closed; the write that
\* turns failback off comes before the drain.
LEMMA RequestMoves ==
  ASSUME HandoffInv, NEW n \in Node, NEW busy \in BOOLEAN, handleHandoffRequest(n, busy)
  PROVE  HandoffInv'
<1> DEFINE p == agent[n]
           r == Request(n, p)
           b == Waiting(p)
           starts == r = "go" /\ p.drainSince = Zero /\ ~MustWait(b, busy)
           next == [b EXCEPT !.at = IF starts THEN "drain" ELSE "idle"]
           last == [b EXCEPT !.at = IF CaughtUp(n, b) THEN "transfer" ELSE "idle"]
           a == IF r = "none" THEN [p EXCEPT !.at = "idle"]
                ELSE IF r = "cancel" THEN [cancelHandoff(p) EXCEPT !.at = "idle"]
                ELSE IF r = "pause" THEN [pauseHandoff(p) EXCEPT !.at = "idle"]
                ELSE IF p.drainSince = Zero THEN next ELSE last
<1>1. TypeInv' /\ budget' = budget
  BY RequestTypes DEF HandoffInv, handleHandoffRequest
<1>2. p \in Process /\ Closed(p) /\ p.at = "handoff" /\ Told(p, data[n].txid, data[Peer(n)].txid)
  BY DEF HandoffInv, TypeInv, Gate, handleHandoffRequest, At
<1>3. /\ Set(n, a)
      /\ data' = IF starts /\ n = Preferred /\ data[n].autoFailback
                   THEN [data EXCEPT ![n] = [txid |-> @.txid + 1, autoFailback |-> FALSE]]
                   ELSE data
  BY DEF handleHandoffRequest
<1>4. /\ cancelHandoff(p) \in Process /\ Closed(cancelHandoff(p))
      /\ pauseHandoff(p) \in Process /\ Closed(pauseHandoff(p))
      /\ b \in Process /\ b.drainSince = p.drainSince /\ b.draining = p.draining
      /\ b.peerTXID = p.peerTXID
  BY <1>2, Drains
<1>5. CaughtUp(n, b) => b.peerTXID >= data[n].txid
  BY DEF CaughtUp
<1>6. /\ Closed(next) /\ next.at = IF starts THEN "drain" ELSE "idle"
      /\ Closed(last) /\ last.drainSince = b.drainSince
      /\ last.at = IF CaughtUp(n, b) THEN "transfer" ELSE "idle"
  <2> HIDE DEF b, starts
  <2> QED BY <1>2, <1>4 DEF Process, Closed
<1>7. /\ LET x == [p EXCEPT !.at = "idle"] IN Closed(x) /\ x.at = "idle"
      /\ LET x == [cancelHandoff(p) EXCEPT !.at = "idle"] IN Closed(x) /\ x.at = "idle"
      /\ LET x == [pauseHandoff(p) EXCEPT !.at = "idle"] IN Closed(x) /\ x.at = "idle"
  BY <1>2, <1>4, AtClosed
<1>8. /\ Closed(a) /\ a.at \in {"idle", "drain", "transfer"}
      /\ starts => a.at = "drain"
      /\ a.at = "transfer" => /\ p.drainSince # Zero /\ a.drainSince = p.drainSince
                              /\ b.peerTXID >= data[n].txid
  <2>1. CASE r \in {"none", "cancel", "pause"}
    <3>1. a.at = "idle" /\ Closed(a) /\ ~starts
      BY <1>7, <2>1
    <3> QED BY <3>1
  <2>2. CASE r \notin {"none", "cancel", "pause"}
    <3>1. a = IF p.drainSince = Zero THEN next ELSE last
      BY <2>2
    <3>2. starts => p.drainSince = Zero
      OBVIOUS
    <3> HIDE DEF a, next, last, b, starts
    <3> QED BY <1>4, <1>5, <1>6, <3>1, <3>2
  <2> QED BY <2>1, <2>2
<1> HIDE DEF a, b, r, starts, next, last
<1>9. a.at = "transfer" => data[n].txid <= data[Peer(n)].txid
  <2>1. /\ data[n].txid \in Int /\ data[Peer(n)].txid \in Int /\ p.peerTXID \in Int
    BY <1>2, Peers, Constants DEF HandoffInv, TypeInv, Database, Process
  <2> QED BY <1>2, <1>4, <1>8, <2>1 DEF Told, Closed
<1>10. CASE data' = data
  <2>1. Gate(a) /\ Told(a, data[n].txid, data[Peer(n)].txid)
    BY <1>2, <1>8, <1>9 DEF Gate, Told, Closed
  <2> QED BY <1>1, <1>3, <1>10, <2>1, OneSteps
<1>11. CASE data' # data
  <2>1. a.at = "drain" /\ data' = [data EXCEPT ![n] = [txid |-> @.txid + 1, autoFailback |-> FALSE]]
    BY <1>3, <1>8, <1>11
  <2>2. \A m \in Node : data[m].txid \in Int /\ agent[m].peerTXID \in Int
    BY Constants DEF HandoffInv, TypeInv, Database, Process
  <2>3. \A m \in Node : data'[m].txid = IF m = n THEN data[m].txid + 1 ELSE data[m].txid
    BY <2>1 DEF HandoffInv, TypeInv
  <2>4. \A m \in Node : agent'[m] = IF m = n THEN a ELSE agent[m]
    BY <1>3 DEF Set, HandoffInv, TypeInv
  <2>5. \A m \in Node : Told(agent'[m], data'[m].txid, data'[Peer(m)].txid)
    <3> SUFFICES ASSUME NEW m \in Node
                 PROVE  Told(agent'[m], data'[m].txid, data'[Peer(m)].txid)
      OBVIOUS
    <3>1. CASE m = n
      BY <2>1, <2>4, <3>1 DEF Told
    <3>2. CASE m # n
      <4>1. /\ agent'[m] = agent[m] /\ data'[m].txid = data[m].txid
            /\ data'[Peer(m)].txid >= data[Peer(m)].txid
        BY <2>2, <2>3, <2>4, <3>2, Peers
      <4>2. Told(agent[m], data[m].txid, data[Peer(m)].txid)
        BY DEF HandoffInv
      <4>3. data'[Peer(m)].txid \in Int
        BY <2>2, <2>3, Peers
      <4> QED BY <2>2, <4>1, <4>2, <4>3, Peers DEF Told
    <3> QED BY <3>1, <3>2
  <2>6. \A m \in Node : Gate(agent'[m])
    BY <1>8, <2>1, <2>4 DEF HandoffInv, Gate
  <2> QED BY <1>1, <2>5, <2>6 DEF HandoffInv
<1> QED BY <1>10, <1>11

LEMMA ReplicaMoves ==
  ASSUME HandoffInv, NEW n \in Node,
         \/ ReplicaLease(n) \/ tryClaim(n) \/ verifyClaim(n) \/ requestHandoff(n)
         \/ runManualClaimCleanup(n)
  PROVE  HandoffInv'
<1> DEFINE p == agent[n]
           b == IF p.caughtUpSince = Zero THEN [p EXCEPT !.caughtUpSince = 0] ELSE p
           go(at) == [p EXCEPT !.at = at]
           lost == [p EXCEPT !.at = "idle", !.caughtUpSince = Zero]
           take == [p EXCEPT !.at = "take", !.age = 0]
           clear == [p EXCEPT !.at = "idle", !.cleanup = FALSE]
<1>1. TypeInv' /\ data' = data /\ budget' = budget
  BY ReplicaTypes DEF HandoffInv, ReplicaLease, tryClaim, verifyClaim, requestHandoff,
                      runManualClaimCleanup, Local
<1>2. p \in Process /\ Closed(p)
  BY DEF HandoffInv, TypeInv, Gate, ReplicaLease, tryClaim, verifyClaim, requestHandoff,
         runManualClaimCleanup, At
<1>3. \A a : Set(n, a) /\ a.at \in Elsewhere /\ Closed(a) => HandoffInv'
  BY <1>1, StepsElsewhere
<1>4. {"idle", "take", "verify", "clean", "ask", "insist", "leaving"} \subseteq Elsewhere
  BY DEF Elsewhere, TickSteps
<1>5. \A at \in {"idle", "take", "verify", "clean"} : go(at).at = at /\ Closed(go(at))
  BY <1>2 DEF Process, Closed
<1>6. /\ lost.at = "idle" /\ Closed(lost) /\ take.at = "take" /\ Closed(take)
      /\ clear.at = "idle" /\ Closed(clear)
  BY <1>2 DEF Process, Closed
<1>7. b \in Process /\ Closed(b)
  BY <1>2, NeverSet DEF Process, Closed
<1>8. \A q \in Process : Closed(q) => Ask(q).at \in {"ask", "insist"} /\ Closed(Ask(q))
                                      /\ Closed([q EXCEPT !.at = "idle"])
                                      /\ [q EXCEPT !.at = "idle"].at = "idle"
  BY DEF Ask, Process, Closed
<1>9. Switching(p).at = "leaving" /\ Closed(Switching(p))
  BY <1>2, Drains
<1>10. CASE ReplicaLease(n)
  <2>1. maybeRequestFailback(n, p) \in {go("idle"), lost, Ask(b), [b EXCEPT !.at = "idle"]}
    BY DEF maybeRequestFailback
  <2>2. maybeRequestManualTakeover(n, p) \in {go("idle"), Ask(p)}
    BY DEF maybeRequestManualTakeover
  <2>3. \E a \in {go("idle"), lost, Ask(b), Ask(p), [b EXCEPT !.at = "idle"], Switching(p), take,
                  go("clean")} : Set(n, a)
    <3>1. \/ Set(n, go("idle")) \/ Set(n, Switching(p)) \/ Set(n, take) \/ Set(n, go("clean"))
          \/ Set(n, maybeRequestManualTakeover(n, p)) \/ Set(n, maybeRequestFailback(n, p))
      BY <1>10 DEF ReplicaLease
    <3> HIDE DEF p, b, lost, take, go
    <3> QED BY <2>1, <2>2, <3>1
  <2>4. /\ Ask(b).at \in {"ask", "insist"} /\ Closed(Ask(b))
        /\ Ask(p).at \in {"ask", "insist"} /\ Closed(Ask(p))
        /\ Closed([b EXCEPT !.at = "idle"]) /\ [b EXCEPT !.at = "idle"].at = "idle"
    <3> HIDE DEF p, b
    <3> QED BY <1>2, <1>7, <1>8
  <2> DEFINE next == [b EXCEPT !.at = "idle"]
  <2>5. next.at = "idle" /\ Closed(next)
    BY <2>4
  <2> HIDE DEF p, b, lost, take, go, next
  <2>6. \E a \in {go("idle"), lost, Ask(b), Ask(p), next, Switching(p), take, go("clean")} :
            Set(n, a)
    BY <2>3 DEF next
  <2>7. \A a \in {go("idle"), lost, Ask(b), Ask(p), next, Switching(p), take, go("clean")} :
            a.at \in Elsewhere /\ Closed(a)
    BY <1>4, <1>5, <1>6, <1>9, <2>4, <2>5
  <2> QED BY <1>3, <2>6, <2>7
<1>11. GiveUp(p) = go("clean") \/ GiveUp(p) = go("idle")
  BY DEF GiveUp
<1>12. CASE tryClaim(n) \/ verifyClaim(n)
  <2>1. \E a \in {go("verify"), GiveUp(p), Switching(p)} : Set(n, a)
    BY <1>12 DEF tryClaim, verifyClaim, GoTo
  <2> HIDE DEF p, go
  <2> QED BY <1>3, <1>4, <1>5, <1>9, <1>11, <2>1
<1>13. CASE requestHandoff(n) \/ runManualClaimCleanup(n)
  <2>1. \E a \in {go("idle"), clear} : Set(n, a)
    BY <1>13 DEF requestHandoff, runManualClaimCleanup, GoTo
  <2> HIDE DEF p, go, clear
  <2> QED BY <1>3, <1>4, <1>5, <1>6, <2>1
<1> QED BY <1>10, <1>12, <1>13

LEMMA EventIsNone ==
  ASSUME HandoffInv, NEW e, Event(e)
  PROVE  budget'["cancel"] = 0
<1>1. budget["cancel"] = 0
  BY DEF HandoffInv
<1>2. budget[e] > 0 /\ budget' = [budget EXCEPT ![e] = budget[e] - 1]
  BY DEF Event
<1>3. e # "cancel"
  BY <1>1, <1>2
<1>4. budget \in [DOMAIN Budget -> Nat]
  BY DEF HandoffInv, TypeInv
<1>5. "cancel" \in DOMAIN Budget
  BY TimingAssumption
<1> QED BY <1>1, <1>2, <1>3, <1>4, <1>5

LEMMA AdminMoves ==
  ASSUME HandoffInv, NEW n \in Node,
         CancelManualSwitch(n) \/ \E force \in BOOLEAN : RequestManualSwitch(n, force)
  PROVE  HandoffInv'
<1>1. ~CancelManualSwitch(n)
  BY DEF CancelManualSwitch, Event, HandoffInv
<1> PICK force \in BOOLEAN : RequestManualSwitch(n, force)
  BY <1>1
<1> DEFINE p == agent[n]
           a == [p EXCEPT !.manual = TRUE, !.force = @ \/ force, !.cleanup = FALSE,
                          !.lastHandoffWrite = IF IsPrimary(n) THEN @ ELSE Zero]
<1>2. TypeInv' /\ data' = data
  BY AdminTypes DEF HandoffInv, RequestManualSwitch
<1>3. budget'["cancel"] = 0
  BY EventIsNone DEF RequestManualSwitch
<1>4. p \in Process /\ Gate(p) /\ Told(p, data[n].txid, data[Peer(n)].txid)
  BY DEF HandoffInv, TypeInv
<1>5. Set(n, a)
  BY DEF RequestManualSwitch
<1>6. /\ a.at = p.at /\ a.drainSince = p.drainSince /\ a.draining = p.draining
      /\ a.peerTXID = p.peerTXID
  BY <1>4 DEF Process
<1> HIDE DEF a, p
<1>7. Gate(a) /\ Told(a, data[n].txid, data[Peer(n)].txid)
  BY <1>4, <1>6 DEF Gate, Told, Closed
<1>8. \A m \in Node : agent'[m] = IF m = n THEN a ELSE agent[m]
  BY <1>5 DEF Set, HandoffInv, TypeInv
<1> QED BY <1>2, <1>3, <1>7, <1>8 DEF HandoffInv

\* A write needs an open gate; a replica is brought to what its primary has.
LEMMA DataMoves ==
  ASSUME HandoffInv, NEW n \in Node, Write(n) \/ Replicate(n)
  PROVE  HandoffInv'
<1>1. TypeInv' /\ UNCHANGED <<agent, budget>>
  BY DataTypes DEF HandoffInv, Write, Replicate
<1>2. \A m \in Node : data[m].txid \in Int /\ agent[m].peerTXID \in Int
  BY Constants DEF HandoffInv, TypeInv, Database, Process
<1>3. CASE Write(n)
  <2>1. ~agent[n].draining
    BY <1>3 DEF Write, AllowWrite, Draining
  <2>2. \A m \in Node : data'[m].txid = IF m = n THEN data[m].txid + 1 ELSE data[m].txid
    BY <1>3 DEF Write, HandoffInv, TypeInv, Database
  <2>3. agent[n].at # "transfer"
    BY <2>1 DEF HandoffInv, Gate, Closed
  <2>4. \A m \in Node : Told(agent[m], data'[m].txid, data'[Peer(m)].txid)
    <3> SUFFICES ASSUME NEW m \in Node
                 PROVE  Told(agent[m], data'[m].txid, data'[Peer(m)].txid)
      OBVIOUS
    <3>1. CASE m = n
      BY <2>1, <2>3, <3>1 DEF Told
    <3>2. CASE m # n
      <4>1. data'[m].txid = data[m].txid /\ data'[Peer(m)].txid >= data[Peer(m)].txid
            /\ data'[Peer(m)].txid \in Int
        BY <1>2, <2>2, <3>2, Peers
      <4>2. Told(agent[m], data[m].txid, data[Peer(m)].txid)
        BY DEF HandoffInv
      <4> QED BY <1>2, <4>1, <4>2, Peers DEF Told
    <3> QED BY <3>1, <3>2
  <2> QED BY <1>1, <2>4 DEF HandoffInv
<1>4. CASE Replicate(n)
  <2>1. data' = [data EXCEPT ![n] = data[Peer(n)]]
    BY <1>4 DEF Replicate
  <2>2. \A m \in Node : data'[m].txid = data[Peer(n)].txid
    BY <2>1, Peers DEF HandoffInv, TypeInv
  <2>3. \A m \in Node : Told(agent[m], data'[m].txid, data'[Peer(m)].txid)
    BY <1>2, <2>2, Peers DEF Told
  <2> QED BY <1>1, <2>3 DEF HandoffInv
<1> QED BY <1>3, <1>4

LEMMA AgedMoves ==
  ASSUME NEW a \in Process
  PROVE  /\ Aged(a).at = a.at /\ Aged(a).draining = a.draining /\ Aged(a).peerTXID = a.peerTXID
         /\ Aged(a).drainSince = Zero <=> a.drainSince = Zero
<1>1. CASE a.at \in {"crashed", "down", "leaving"}
  BY <1>1 DEF Aged, Process
<1>2. CASE a.at \notin {"crashed", "down", "leaving"}
  <2>1. /\ Aged(a).at = a.at /\ Aged(a).draining = a.draining /\ Aged(a).peerTXID = a.peerTXID
        /\ Aged(a).drainSince = Older(a.drainSince, DrainTimeout + 1)
    BY <1>2 DEF Aged, Process
  <2>2. a.drainSince \in Ages(DrainTimeout + 1)
    BY DEF Process
  <2>3. Older(a.drainSince, DrainTimeout + 1) = Zero <=> a.drainSince = Zero
    BY <2>2, Constants DEF Older, Ages, Zero
  <2> QED BY <2>1, <2>3
<1> QED BY <1>1, <1>2

LEMMA AdvanceMoves == ASSUME HandoffInv, Advance PROVE HandoffInv'
<1>1. TypeInv' /\ UNCHANGED <<data, budget>>
  BY AdvanceTypes DEF HandoffInv, Advance, Local
<1>2. \A n \in Node : agent'[n] = Aged(agent[n]) /\ agent[n] \in Process
  BY DEF Advance, HandoffInv, TypeInv
<1>3. \A n \in Node : Gate(agent'[n])
  BY <1>2, AgedMoves DEF HandoffInv, Gate, Closed
<1>4. \A n \in Node : Told(agent'[n], data[n].txid, data[Peer(n)].txid)
  BY <1>2, AgedMoves DEF HandoffInv, Told
<1> QED BY <1>1, <1>3, <1>4 DEF HandoffInv

LEMMA FaultMoves ==
  ASSUME HandoffInv,
         \/ \E n \in Node : Crash(n)
         \/ \E S \in SUBSET Node : CfFails(S)
         \/ LinkFails \/ RecordLost \/ NetworkHeals
  PROVE  HandoffInv'
<1>1. TypeInv' /\ data' = data
  BY FaultTypes DEF HandoffInv, Crash, CfFails, LinkFails, RecordLost, NetworkHeals
<1>2. budget'["cancel"] = 0
  BY EventIsNone DEF Crash, CfFails, LinkFails, RecordLost, NetworkHeals, HandoffInv
<1>3. CASE \E n \in Node : Crash(n)
  <2> PICK n \in Node : Crash(n)
    BY <1>3
  <2> DEFINE a == [Fresh EXCEPT !.at = "crashed"]
  <2>1. Set(n, a)
    BY DEF Crash
  <2>2. a.at = "crashed" /\ Closed(a)
    BY FreshIsClosed
  <2> HIDE DEF a
  <2>3. Gate(a) /\ Told(a, data[n].txid, data[Peer(n)].txid)
    BY <2>2 DEF Gate, Told
  <2>4. \A m \in Node : agent'[m] = IF m = n THEN a ELSE agent[m]
    BY <2>1 DEF Set, HandoffInv, TypeInv
  <2> QED BY <1>1, <1>2, <2>3, <2>4 DEF HandoffInv
<1>4. CASE agent' = agent
  BY <1>1, <1>2, <1>4 DEF HandoffInv
<1> QED BY <1>3, <1>4 DEF CfFails, LinkFails, RecordLost, NetworkHeals

LEMMA HandoffInit == NobodyWithdraws /\ Init => HandoffInv
<1> SUFFICES ASSUME NobodyWithdraws, Init PROVE HandoffInv
  OBVIOUS
<1>1. budget["cancel"] = 0
  BY DEF Init, NobodyWithdraws
<1>2. \A n \in Node : agent[n].at = "idle" /\ Closed(agent[n])
  <2> DEFINE initially(p) == [n \in Node |-> [Fresh EXCEPT
                     !.at = "idle", !.role = IF n = p THEN "primary" ELSE "replica"]]
  <2>1. PICK p \in Node : agent = initially(p)
    BY DEF Init
  <2>2. \A role : [Fresh EXCEPT !.at = "idle", !.role = role].at = "idle"
                  /\ Closed([Fresh EXCEPT !.at = "idle", !.role = role])
    BY FreshIsClosed
  <2> QED BY <2>1, <2>2
<1> QED BY <1>1, <1>2, InitTypes DEF HandoffInv, Gate, Told

LEMMA HandoffNext == HandoffInv /\ [Next]_vars => HandoffInv'
<1>1. HandoffInv /\ UNCHANGED vars => HandoffInv'
  BY DEF HandoffInv, TypeInv, vars
<1>2. ASSUME HandoffInv, NEW n \in Node, Step(n) PROVE HandoffInv'
  BY <1>2, BootMoves, ProbeMoves, PrimaryMoves, RequestMoves, ReplicaMoves DEF Step
<1> QED BY <1>1, <1>2, DataMoves, AdminMoves, AdvanceMoves, FaultMoves DEF Next

\* A planned hand-over gives the lease away only when the peer has every write of this
\* node, whatever fails and restarts meanwhile and however old the probe is, provided the
\* administrator does not withdraw a switch (agent.go: beginDrain, completeHandoff).
THEOREM NothingLost ==
    ASSUME NobodyWithdraws
    PROVE  Spec => HandoffKeepsWrites
<1>1. HandoffInv =>
        \A n \in Node : At(n) = "transfer" /\ At(n)' = "leaving"
                          => data[Peer(n)].txid >= data[n].txid
  <2> SUFFICES ASSUME HandoffInv, NEW n \in Node, At(n) = "transfer"
               PROVE  data[Peer(n)].txid >= data[n].txid
    OBVIOUS
  <2>1. data[n].txid \in Int /\ data[Peer(n)].txid \in Int
    BY Peers, Constants DEF HandoffInv, TypeInv, Database
  <2> QED BY <2>1 DEF HandoffInv, Told, At
<1>2. Init => HandoffInv
  BY HandoffInit
<1> QED BY <1>1, <1>2, HandoffNext, PTL DEF Spec, HandoffKeepsWrites

-----------------------------------------------------------------------------
(* Two primaries.                                                          *)

\* The two nodes have both found the lease expired at boot and are about to claim it.
ClaimSteps == {"bootProbe", "bootClaim", "bootConfirm"}
Claims(a) == a.at \in ClaimSteps
BothClaiming == \A n \in Node : Claims(agent[n])

\* A primary after its renewal, until its next tick; and in the renewal as well.
LeaseSteps == {"handoff", "drain", "close", "transfer"}
Serves(a)  == a.at \in TickSteps /\ a.role = "primary"
Settled(a) == a.role = "primary" /\ (a.at \in LeaseSteps \/ (a.at = "idle" /\ ~a.due))
Holds(a)   == Settled(a) \/ (a.role = "primary" /\ a.at = "renew")

\* A process that has claimed the lease and not looked yet, or has ended so lately that
\* it cannot have restarted.
Away(a) == a.at = "verify" \/ (a.at \in {"leaving", "down", "crashed"} /\ a.age < RestartMin)

\* The lease l is n's, or m's who cannot use it: b is the process of m.
Own(l, n, m, b) == l.owner = n \/ (l.owner = m /\ Away(b))

\* What the lease l means to node n, whose process is a, beside its peer m with process b.
Leads(l, n, a, m, b) ==
    /\ Serves(a) => l.left > 0 /\ (a.lastRenew # Zero => l.left >= LeaseTTL - a.lastRenew)
    /\ Settled(a) => 0 <= a.lastRenew /\ a.lastRenew < RenewInterval
    /\ Holds(a) => Own(l, n, m, b)
    /\ Claims(a) => ~Serves(b)
    /\ a.at \in {"bootProbe", "bootClaim"} => l.left <= 0 \/ (l.owner = m /\ Away(b))
    /\ a.at = "bootConfirm" => l.left > 0 /\ Own(l, n, m, b)

\* A boot takes no time and finds a record; who is at a step of one role has that role.
Sound(a) ==
    /\ a.at \in BootSteps => ~a.blank /\ a.age = 0 /\ a.at \notin {"bootWait", "bootAlone"}
    /\ a.at \in LeaseSteps \cup {"renew"} => a.role = "primary"
    /\ a.at \in {"take", "verify", "ask", "insist", "clean"} => a.role = "replica"

\* The DNS API works and nobody deletes the record; a tick and a boot take less than a
\* poll interval, a restart takes no less; a lease lasts longer than two renewals are apart.
DNSWorks == Budget["cf"] = 0 /\ Budget["erase"] = 0
Prompt   == Slack = 0 /\ RestartMin >= 1 /\ 0 < RenewInterval /\ RenewInterval < LeaseTTL

Led(n) == Sound(agent[n]) /\ Leads(lease, n, agent[n], Peer(n), agent[Peer(n)])
SplitInv == /\ TypeInv
            /\ cf = Node /\ budget["cf"] = 0 /\ budget["erase"] = 0
            /\ LeaseExists
            /\ \A n \in Node : Led(n)

\* A step of node n that leaves the lease l and makes p of its process a.
Onward(l, n, a, p, b) ==
    /\ Serves(p) => \/ Serves(a) /\ p.lastRenew = a.lastRenew
                    \/ l.left > 0 /\ p.lastRenew = Zero /\ ~Claims(b)
    /\ Settled(p) => \/ Settled(a) /\ p.lastRenew = a.lastRenew
                     \/ 0 <= p.lastRenew /\ p.lastRenew < RenewInterval
    /\ Holds(p) => Holds(a) \/ l.owner = n
    /\ p.at \in {"bootProbe", "bootClaim"} => a.at \in {"bootProbe", "bootClaim"} \/ l.left <= 0
    /\ p.at # "bootConfirm"
    /\ Away(a) => Away(p) \/ l.owner # n

\* What the kinds of steps have to do with one another.
LEMMA StepKinds ==
  ASSUME NEW a
  PROVE  /\ Serves(a) => a.at \notin ClaimSteps /\ a.at \notin {"leaving", "down", "crashed"}
         /\ Holds(a) => Serves(a)
         /\ Settled(a) => Holds(a)
         /\ Claims(a) => ~Away(a) /\ a.at \in BootSteps /\ ~Holds(a)
         /\ a.at = "boot" => ~Away(a) /\ ~Claims(a) /\ ~Serves(a)
  BY DEF Serves, TickSteps, ClaimSteps, BootSteps, Holds, Settled, Claims, Away, LeaseSteps

LEMMA OnwardLeads ==
  ASSUME NEW l, NEW n, NEW m, n # m, NEW a, NEW b, NEW p,
         Leads(l, n, a, m, b), Leads(l, m, b, n, a), Onward(l, n, a, p, b),
         l.left \in Int, a.lastRenew \in Int, p.lastRenew \in Int
  PROVE  Leads(l, n, p, m, b) /\ Leads(l, m, b, n, p)
<1>1. Serves(p) => l.left > 0 /\ (p.lastRenew # Zero => l.left >= LeaseTTL - p.lastRenew)
  BY DEF Leads, Onward
<1>2. Settled(p) => 0 <= p.lastRenew /\ p.lastRenew < RenewInterval
  BY DEF Leads, Onward
<1>3. Holds(p) => Own(l, n, m, b)
  BY DEF Leads, Onward, Own
<1>4. Claims(p) => p.at \in {"bootProbe", "bootClaim"}
  BY DEF Onward, Claims, ClaimSteps
<1>5. Claims(p) => ~Serves(b)
  <2>1. CASE a.at \in {"bootProbe", "bootClaim"}
    BY <2>1 DEF Leads, Claims, ClaimSteps
  <2>2. CASE l.left <= 0
    BY <2>2 DEF Leads
  <2> QED BY <1>4, <2>1, <2>2 DEF Onward
<1>6. p.at \in {"bootProbe", "bootClaim"} => l.left <= 0 \/ (l.owner = m /\ Away(b))
  BY DEF Leads, Onward
<1>7. Own(l, m, n, a) => Own(l, m, n, p)
  BY DEF Own, Onward
<1>8. Claims(b) => ~Serves(p)
  BY DEF Leads, Onward
<1>9. b.at \in {"bootProbe", "bootClaim"} => l.left <= 0 \/ (l.owner = n /\ Away(p))
  BY DEF Leads, Onward
<1>10. Leads(l, n, p, m, b)
  BY <1>1, <1>2, <1>3, <1>5, <1>6 DEF Leads, Onward
<1>11. Leads(l, m, b, n, p)
  BY <1>7, <1>8, <1>9 DEF Leads
<1> QED BY <1>10, <1>11

-----------------------------------------------------------------------------
(* The same for the state.                                                 *)

\* The events that the assumption rules out do not come.
LEMMA NoOutage ==
  ASSUME SplitInv, budget' \in [DOMAIN Budget -> Nat],
         budget' = budget \/ \E e \in DOMAIN Budget : Event(e)
  PROVE  budget'["cf"] = 0 /\ budget'["erase"] = 0
<1>1. {"cf", "erase"} \subseteq DOMAIN Budget /\ budget \in [DOMAIN Budget -> Nat]
  BY TimingAssumption DEF SplitInv, TypeInv
<1>2. ASSUME NEW e \in DOMAIN Budget, Event(e)
      PROVE  budget'["cf"] = 0 /\ budget'["erase"] = 0
  <2>1. budget[e] > 0 /\ budget' = [budget EXCEPT ![e] = budget[e] - 1]
    BY <1>2 DEF Event
  <2>2. e # "cf" /\ e # "erase"
    BY <2>1 DEF SplitInv
  <2> QED BY <1>1, <2>1, <2>2 DEF SplitInv
<1> QED BY <1>2 DEF SplitInv

LEMMA SplitSet ==
  ASSUME SplitInv, TypeInv', cf' = cf, budget'["cf"] = 0 /\ budget'["erase"] = 0, LeaseExists',
         NEW n \in Node, NEW p, Set(n, p), Sound(p),
         Leads(lease', n, p, Peer(n), agent[Peer(n)]),
         Leads(lease', Peer(n), agent[Peer(n)], n, p)
  PROVE  SplitInv'
<1>1. agent'[n] = p /\ agent'[Peer(n)] = agent[Peer(n)]
  BY Peers DEF Set, SplitInv, TypeInv
<1>2. Sound(agent[Peer(n)]) /\ Peer(Peer(n)) = n
  BY Peers, PeerOfPeer DEF SplitInv, Led
<1>3. Led(n)'
  BY <1>1 DEF Led
<1>4. Led(Peer(n))'
  BY <1>1, <1>2 DEF Led
<1> QED BY <1>3, <1>4, Peers DEF SplitInv

\* The two processes as the invariant has them.
LEMMA BothLed ==
  ASSUME SplitInv, NEW n \in Node
  PROVE  /\ Leads(lease, n, agent[n], Peer(n), agent[Peer(n)])
         /\ Leads(lease, Peer(n), agent[Peer(n)], n, agent[n])
         /\ Sound(agent[n]) /\ Sound(agent[Peer(n)])
         /\ agent[n] \in Process /\ agent[Peer(n)] \in Process
         /\ lease.owner \in {n, Peer(n)} /\ lease.left \in Int
         /\ n \in cf /\ Peer(n) # n /\ LeaseExists
<1>1. Peer(n) \in Node /\ Peer(n) # n /\ Peer(Peer(n)) = n
  BY Peers, PeerOfPeer
<1>2. Led(n) /\ Led(Peer(n))
  BY <1>1 DEF SplitInv
<1>3. agent[n] \in Process /\ agent[Peer(n)] \in Process /\ n \in cf
  BY <1>1 DEF SplitInv, TypeInv
<1>4. lease.owner \in {n, Peer(n)} /\ lease.left \in Int /\ LeaseExists
  <2>1. lease \in LeaseType /\ LeaseExists
    BY DEF SplitInv, TypeInv
  <2>2. lease.owner \in Node /\ lease.left \in -(ClaimGuard + 1)..LeaseTTL
    BY <2>1 DEF LeaseType, LeaseExists
  <2>3. lease.owner \in {n, Peer(n)}
    BY <2>2, Peers
  <2>4. lease.left \in Int
    BY <2>2, Constants
  <2> QED BY <2>1, <2>3, <2>4
<1> QED BY <1>1, <1>2, <1>3, <1>4 DEF Led

LEMMA Renewals == \A a \in Process : a.lastRenew \in Int /\ a.age \in Nat
  BY Constants DEF Process, Ages, Zero

LEMMA SplitStay ==
  ASSUME SplitInv, TypeInv', lease' = lease, cf' = cf,
         budget' = budget \/ \E e \in DOMAIN Budget : Event(e),
         NEW n \in Node, NEW p, Set(n, p), Sound(p),
         Onward(lease, n, agent[n], p, agent[Peer(n)])
  PROVE  SplitInv'
<1>1. budget'["cf"] = 0 /\ budget'["erase"] = 0
  BY NoOutage DEF TypeInv
<1>2. /\ Leads(lease, n, p, Peer(n), agent[Peer(n)])
      /\ Leads(lease, Peer(n), agent[Peer(n)], n, p)
  <2>1. p \in Process
    BY DEF Set, SplitInv, TypeInv
  <2> QED BY <2>1, BothLed, Renewals, OnwardLeads
<1>3. LeaseExists'
  BY BothLed DEF LeaseExists
<1> QED BY <1>1, <1>2, <1>3, SplitSet

\* A step of a tick keeps the role and the time of the renewal.
LEMMA OnTick ==
  ASSUME NEW l, NEW n, NEW a, NEW p, NEW b, Prompt, a.at \in TickSteps,
         p.at \in TickSteps \/ (p.at = "leaving" /\ p.age = 0),
         p.role = a.role, p.lastRenew = a.lastRenew,
         Settled(p) => Settled(a) \/ (0 <= p.lastRenew /\ p.lastRenew < RenewInterval),
         Holds(p) => Holds(a) \/ l.owner = n,
         a.at = "verify" => p.at \in {"verify", "leaving"} \/ l.owner # n
  PROVE  Onward(l, n, a, p, b)
<1>1. Serves(p) => Serves(a)
  BY DEF Serves
<1>2. p.at \notin {"bootProbe", "bootClaim", "bootConfirm"}
  BY DEF TickSteps
<1>3. Away(a) => Away(p) \/ l.owner # n
  <2>1. Away(a) => a.at = "verify"
    BY StepsDiffer DEF Away
  <2>2. p.at = "leaving" /\ p.age = 0 => Away(p)
    BY Constants DEF Away, Prompt
  <2>3. p.at = "leaving" => p.age = 0
    BY DEF TickSteps
  <2> QED BY <2>1, <2>2, <2>3 DEF Away
<1> QED BY <1>1, <1>2, <1>3 DEF Onward

-----------------------------------------------------------------------------
(* Action by action.                                                       *)

\* A process that boots into a role of its own.
LEMMA StartedIs ==
  ASSUME NEW role \in {"primary", "replica"}
  PROVE  LET p == [Fresh EXCEPT !.at = "idle", !.role = role] IN
         /\ p.at = "idle" /\ p.role = role /\ p.due /\ p.lastRenew = Zero
         /\ Sound(p) /\ ~Settled(p) /\ ~Holds(p)
<1> DEFINE p == [Fresh EXCEPT !.at = "idle", !.role = role]
<1>1. p.at = "idle" /\ p.role = role /\ p.due = TRUE /\ p.lastRenew = Zero
  BY DEF Fresh
<1> HIDE DEF p
<1>2. Sound(p) /\ ~Settled(p) /\ ~Holds(p)
  BY <1>1 DEF Sound, Settled, Holds, LeaseSteps, BootSteps
<1> QED BY <1>1, <1>2 DEF p

\* A replica is a stop for every claim that its boot was about to make.
LEMMA StartsReplica ==
  ASSUME SplitInv, TypeInv', Local, lease' = lease,
         NEW n \in Node, At(n) \in BootSteps, Start(n, "replica")
  PROVE  SplitInv'
<1> DEFINE p == [Fresh EXCEPT !.at = "idle", !.role = "replica"]
<1>1. Set(n, p)
  BY DEF Start
<1>2. p.at = "idle" /\ p.role = "replica" /\ Sound(p) /\ ~Settled(p) /\ ~Holds(p)
  BY StartedIs
<1>3. ~Away(agent[n])
  BY DEF At, Away, BootSteps
<1> HIDE DEF p
<1>4. Onward(lease, n, agent[n], p, agent[Peer(n)])
  BY <1>2, <1>3 DEF Onward, Serves
<1> QED BY <1>1, <1>2, <1>4, SplitStay DEF Local

\* Nobody is at a claim beside a primary that owns the lease.
LEMMA StartsPrimary ==
  ASSUME SplitInv, TypeInv', Local, lease' = lease,
         NEW n \in Node, At(n) \in BootSteps, Start(n, "primary"),
         Valid, ~Claims(agent[Peer(n)])
  PROVE  SplitInv'
<1> DEFINE p == [Fresh EXCEPT !.at = "idle", !.role = "primary"]
<1>1. Set(n, p)
  BY DEF Start
<1>2. p.at = "idle" /\ p.lastRenew = Zero /\ Sound(p) /\ ~Settled(p) /\ ~Holds(p)
  BY StartedIs
<1>3. ~Away(agent[n])
  BY DEF At, Away, BootSteps
<1> HIDE DEF p
<1>4. Onward(lease, n, agent[n], p, agent[Peer(n)])
  BY <1>2, <1>3 DEF Onward, Valid
<1> QED BY <1>1, <1>2, <1>4, SplitStay DEF Local

LEMMA BootSplit ==
  ASSUME SplitInv, ~BothClaiming, Prompt, NEW n \in Node,
         \/ Boot(n) \/ Exit(n) \/ ResolveLease(n) \/ ResolveProbe(n) \/ ResolveWait(n)
         \/ ResolveClaim(n) \/ ResolveConfirm(n) \/ resolveWithoutCloudflare(n)
  PROVE  SplitInv'
<1>1. TypeInv'
  BY BootTypes DEF SplitInv
<1> DEFINE a == agent[n]
           m == Peer(n)
           b == agent[Peer(n)]
<1>2. /\ Leads(lease, n, a, m, b) /\ Leads(lease, m, b, n, a) /\ Sound(a) /\ Sound(b)
      /\ a \in Process /\ lease.owner \in {n, m} /\ lease.left \in Int /\ n \in cf /\ m # n
      /\ LeaseExists
  BY BothLed
<1>3. a.at \in ClaimSteps => ~Claims(b)
  BY Peers DEF BothClaiming, Claims
<1>4. At(n) = a.at
  BY DEF At
<1>5. CASE Boot(n)
  <2>1. Set(n, Fresh) /\ ~Away(a)
    BY <1>2, <1>5, Constants, Renewals DEF Boot, Away, At, Prompt
  <2>2. Fresh.at = "boot" /\ Sound(Fresh) /\ ~Serves(Fresh) /\ ~Settled(Fresh) /\ ~Holds(Fresh)
    BY DEF Fresh, Sound, BootSteps, LeaseSteps, Serves, Settled, Holds, TickSteps
  <2>3. Onward(lease, n, a, Fresh, b)
    BY <2>1, <2>2 DEF Onward
  <2> QED BY <1>1, <1>5, <2>1, <2>2, <2>3, SplitStay DEF Boot, Local
<1>6. CASE Exit(n)
  <2> DEFINE p == [Fresh EXCEPT !.at = "down", !.age = agent[n].age]
  <2>1. Set(n, p) /\ a.at = "leaving"
    BY <1>6 DEF Exit, At
  <2>2. p.at = "down" /\ p.age = a.age
    BY DEF Fresh
  <2> HIDE DEF p
  <2>3. Sound(p) /\ ~Serves(p) /\ ~Settled(p) /\ ~Holds(p) /\ (Away(a) => Away(p))
    BY <2>1, <2>2 DEF Sound, BootSteps, LeaseSteps, Serves, Settled, Holds, TickSteps, Away
  <2>4. Onward(lease, n, a, p, b)
    BY <2>2, <2>3 DEF Onward
  <2> QED BY <1>1, <1>6, <2>1, <2>3, <2>4, SplitStay DEF Exit, Local
<1>7. CASE ResolveLease(n)
  <2>1. a.at = "boot" /\ At(n) \in BootSteps /\ Local /\ lease' = lease
    BY <1>4, <1>7 DEF ResolveLease, BootSteps
  <2>2. CASE Valid /\ lease.owner = n
    <3>1. ~Claims(b)
      BY <1>2, <2>1, <2>2, StepKinds DEF Leads, Own, Claims, ClaimSteps, Valid
    <3>2. Start(n, "primary")
      BY <1>2, <1>7, <2>2 DEF ResolveLease
    <3> QED BY <1>1, <2>1, <2>2, <3>1, <3>2, StartsPrimary
  <2>3. CASE Valid /\ lease.owner # n
    <3>1. Start(n, "replica")
      BY <1>2, <1>7, <2>3 DEF ResolveLease
    <3> QED BY <1>1, <2>1, <3>1, StartsReplica
  <2>4. CASE ~Valid
    <3> DEFINE p == [agent[n] EXCEPT !.at = "bootProbe", !.age = 0, !.blank = ~LeaseExists]
    <3>1. Set(n, p)
      BY <1>2, <1>7, <2>4 DEF ResolveLease
    <3>2. p.at = "bootProbe" /\ p.age = 0 /\ p.blank = FALSE
      BY <1>2 DEF Process
    <3> HIDE DEF p
    <3>3. Sound(p) /\ ~Serves(p) /\ ~Settled(p) /\ ~Holds(p) /\ ~Away(a) /\ lease.left <= 0
      BY <1>2, <2>1, <2>4, <3>2, StepKinds
      DEF Sound, LeaseSteps, Serves, Settled, Holds, TickSteps, Valid
    <3>4. Onward(lease, n, a, p, b)
      BY <3>2, <3>3 DEF Onward
    <3> QED BY <1>1, <2>1, <3>1, <3>3, <3>4, SplitStay DEF Local
  <2> QED BY <2>2, <2>3, <2>4
<1>8. CASE ResolveProbe(n)
  <2>1. a.at = "bootProbe" /\ At(n) \in BootSteps /\ Local /\ lease' = lease
    BY <1>4, <1>8 DEF ResolveProbe, BootSteps
  <2>2. CASE PeerStatus(n) = "primary"
    BY <1>1, <1>8, <2>1, <2>2, StartsReplica DEF ResolveProbe
  <2>3. CASE PeerStatus(n) # "primary"
    <3> DEFINE p == [agent[n] EXCEPT !.at = "bootClaim"]
    <3>1. Set(n, p)
      BY <1>2, <1>8, <2>1, <2>3 DEF ResolveProbe, GoTo, Sound, BootSteps
    <3>2. p.at = "bootClaim" /\ p.age = 0 /\ p.blank = FALSE
      BY <1>2, <2>1 DEF Process, Sound, BootSteps
    <3> HIDE DEF p
    <3>3. Sound(p) /\ ~Serves(p) /\ ~Settled(p) /\ ~Holds(p) /\ ~Away(a)
      BY <2>1, <3>2 DEF Sound, LeaseSteps, Serves, Settled, Holds, TickSteps, Away
    <3>4. Onward(lease, n, a, p, b)
      BY <2>1, <3>2, <3>3 DEF Onward
    <3> QED BY <1>1, <2>1, <3>1, <3>3, <3>4, SplitStay DEF Local
  <2> QED BY <2>2, <2>3
<1>9. CASE ResolveClaim(n)
  <2> DEFINE p == [agent[n] EXCEPT !.at = "bootConfirm"]
  <2>1. a.at = "bootClaim" /\ a.age = 0 /\ a.blank = FALSE /\ Local
    BY <1>2, <1>4, <1>9 DEF ResolveClaim, Sound, BootSteps, Process
  <2>2. Set(n, p) /\ lease' = [owner |-> n, left |-> LeaseTTL]
    BY <1>2, <1>9, <2>1, Constants DEF ResolveClaim, Grant, GoTo
  <2>3. p.at = "bootConfirm" /\ p.age = 0 /\ p.blank = FALSE
    BY <1>2, <2>1 DEF Process
  <2> HIDE DEF p
  <2>4. Sound(p) /\ ~Serves(p) /\ ~Settled(p) /\ ~Holds(p)
    BY <2>3 DEF Sound, LeaseSteps, Serves, Settled, Holds, TickSteps
  <2>5. ~Claims(b) /\ ~Serves(b) /\ ~Holds(b) /\ ~Settled(b)
    BY <1>2, <1>3, <2>1, StepKinds DEF Leads, Claims, ClaimSteps
  <2>6. lease'.owner = n /\ lease'.left = LeaseTTL /\ LeaseTTL > 0 /\ LeaseExists'
    BY <2>2, Constants, NodeAssumption DEF Prompt, LeaseExists
  <2>7. Leads(lease', n, p, m, b)
    BY <2>3, <2>4, <2>5, <2>6 DEF Leads, Own
  <2>8. Leads(lease', m, b, n, p)
    BY <2>5 DEF Leads, Claims, ClaimSteps
  <2> QED BY <1>1, <2>1, <2>2, <2>4, <2>6, <2>7, <2>8, SplitSet DEF Local, SplitInv
<1>10. CASE ResolveConfirm(n)
  <2>1. a.at = "bootConfirm" /\ At(n) \in BootSteps /\ Local /\ lease' = lease
    BY <1>4, <1>10 DEF ResolveConfirm, BootSteps
  <2>2. Valid /\ ~Claims(b)
    BY <1>2, <1>3, <2>1 DEF Leads, Valid, ClaimSteps
  <2>3. Start(n, IF lease.owner = n THEN "primary" ELSE "replica")
    BY <1>2, <1>10 DEF ResolveConfirm
  <2> QED BY <1>1, <2>1, <2>2, <2>3, StartsPrimary, StartsReplica
<1>11. ~ResolveWait(n) /\ ~resolveWithoutCloudflare(n)
  BY <1>2, <1>4 DEF ResolveWait, resolveWithoutCloudflare, Sound, BootSteps
<1> QED BY <1>5, <1>6, <1>7, <1>8, <1>9, <1>10, <1>11

\* What the hand-over makes of a process does not touch its lease.
Same(a, p) == p.role = a.role /\ p.lastRenew = a.lastRenew /\ p.due = a.due

LEMMA SameProcess ==
  ASSUME NEW a, Ticking(a)
  PROVE  /\ Same(a, pauseHandoff(a)) /\ Same(a, cancelHandoff(a)) /\ Same(a, Safe(a))
         /\ Same(a, enforceDrainTimeout(a)) /\ Same(a, Waiting(a))
<1>1. a \in Process
  BY TickingIs
<1>2. Same(a, Safe(a)) /\ Same(a, Waiting(a))
  BY <1>1 DEF Same, Safe, Waiting, Process
<1>3. \A p \in Process : Same(p, pauseHandoff(p))
  BY DEF Same, pauseHandoff, Process
<1>4. pauseHandoff(a) \in Process
  BY PauseIsGood, TickingIs
<1> DEFINE q == pauseHandoff(a)
<1>5. Same(q, [q EXCEPT !.manual = FALSE, !.force = FALSE, !.draining = FALSE])
  BY <1>4 DEF Same, Process
<1>6. Same(a, cancelHandoff(a))
  BY <1>1, <1>3, <1>5 DEF Same, cancelHandoff
<1> QED BY <1>1, <1>2, <1>3, <1>6 DEF enforceDrainTimeout, Same

\* Updates of a process and what is read of them here.
LEMMA SameUpdates ==
  ASSUME NEW p \in Process, NEW at
  PROVE  /\ Same(p, [p EXCEPT !.at = at]) /\ [p EXCEPT !.at = at].at = at
         /\ Same(p, [p EXCEPT !.at = at, !.age = 0]) /\ [p EXCEPT !.at = at, !.age = 0].at = at
         /\ [p EXCEPT !.at = at].age = p.age /\ [p EXCEPT !.at = at, !.age = 0].age = 0
         /\ Same(p, Switching(p)) /\ Switching(p).at = "leaving" /\ Switching(p).age = 0
  BY DEF Same, Switching, Process

\* A step of a tick that leaves the lease.
LEMMA TickStay ==
  ASSUME SplitInv, TypeInv', Prompt, UNCHANGED <<lease, cf, budget>>,
         NEW n \in Node, NEW p, Set(n, p), Running(n), Same(agent[n], p),
         p.at \in TickSteps \/ (p.at = "leaving" /\ p.age = 0), Sound(p),
         Holds(p) => \/ Settled(agent[n])
                     \/ lease.owner = n /\ (Settled(p) => ~renewDue(p)),
         At(n) = "verify" => p.at = "leaving" \/ lease.owner # n
  PROVE  SplitInv'
<1> DEFINE a == agent[n]
           b == agent[Peer(n)]
<1>1. p \in Process
  BY DEF Set, SplitInv, TypeInv
<1>2. a.at \in TickSteps /\ p.role = a.role /\ p.lastRenew = a.lastRenew
  BY DEF Running, At, Same
<1>3. ~renewDue(p) => 0 <= p.lastRenew /\ p.lastRenew < RenewInterval
  BY <1>1, Constants DEF renewDue, Process, Ages, Zero
<1>4. Settled(p) => Settled(a) \/ (0 <= p.lastRenew /\ p.lastRenew < RenewInterval)
  BY <1>3, StepKinds
<1>5. Onward(lease, n, a, p, b)
  BY <1>2, <1>4, OnTick, StepKinds DEF At
<1> QED BY <1>5, SplitStay

LEMMA ProbeSplit ==
  ASSUME SplitInv, Prompt, NEW n \in Node, Probe(n)
  PROVE  SplitInv'
<1> DEFINE a == agent[n]
           p == [a EXCEPT
                   !.at = "lease", !.due = FALSE, !.age = 0, !.peer = PeerStatus(n),
                   !.peerTXID = IF Answers(n) THEN data[Peer(n)].txid ELSE 0,
                   !.failures = IF Answers(n) THEN 0
                                ELSE IF @ < ProbeFailureThreshold THEN @ + 1 ELSE @]
<1>1. Set(n, p) /\ lease' = lease /\ Local /\ a.at = "idle"
  BY DEF Probe, At
<1>2. a \in Process /\ TypeInv'
  BY BothLed, ProbeTypes DEF SplitInv
<1>3. p.at = "lease" /\ p.role = a.role /\ p.lastRenew = a.lastRenew
  BY <1>2 DEF Process
<1> HIDE DEF p
<1>4. Sound(p) /\ ~Holds(p) /\ ~Settled(p)
  BY <1>3 DEF Sound, Holds, Settled, LeaseSteps, BootSteps
<1>5. Onward(lease, n, a, p, agent[Peer(n)])
  BY <1>1, <1>3, <1>4, OnTick DEF TickSteps
<1> QED BY <1>1, <1>2, <1>4, <1>5, SplitStay DEF Local

\* Who is not at a step of a boot, and not at one that only the other role takes.
LEMMA SoundTick ==
  ASSUME NEW p,
         \/ p.at \in {"idle", "lease", "leaving"}
         \/ p.at \in LeaseSteps \cup {"renew"} /\ p.role = "primary"
         \/ p.at \in {"take", "verify", "ask", "insist", "clean"} /\ p.role = "replica"
  PROVE  Sound(p)
  BY DEF Sound, LeaseSteps, BootSteps

LEMMA PrimaryLeaseSplit ==
  ASSUME SplitInv, Prompt, NEW n \in Node, PrimaryLease(n)
  PROVE  SplitInv'
<1> DEFINE a == enforceDrainTimeout(agent[n])
<1>1. /\ At(n) = "lease" /\ Running(n) /\ agent[n].role = "primary"
      /\ lease' = lease /\ Local /\ n \in cf
  BY BothLed DEF PrimaryLease, Running, TickSteps
<1>2. Ticking(agent[n]) /\ TypeInv'
  BY <1>1, InTick, PrimaryTypes DEF SplitInv, Running
<1>3. Ticking(a) /\ Same(agent[n], a) /\ Ticking(Safe(a)) /\ Same(a, Safe(a))
  BY <1>2, EnforceIsGood, SafeIsGood, SameProcess
<1>4. Set(n, IF MustYield(n) THEN Switching(a)
             ELSE IF renewDue(a) THEN [a EXCEPT !.at = "renew", !.age = 0]
             ELSE [Safe(a) EXCEPT !.at = "handoff", !.age = 0])
  BY <1>1 DEF PrimaryLease
<1> HIDE DEF a
<1>5. CASE MustYield(n)
  <2> DEFINE p == Switching(a)
  <2>1. Set(n, p) /\ p.at = "leaving" /\ p.age = 0 /\ Same(agent[n], p)
    BY <1>3, <1>4, <1>5, TickingIs, SameUpdates DEF Same
  <2> HIDE DEF p
  <2>2. Sound(p) /\ ~Holds(p)
    BY <2>1, SoundTick DEF Holds, Settled, LeaseSteps
  <2> QED BY <1>1, <1>2, <2>1, <2>2, TickStay DEF Local
<1>6. CASE ~MustYield(n) /\ renewDue(a)
  <2> DEFINE p == [a EXCEPT !.at = "renew", !.age = 0]
  <2>1. Set(n, p) /\ p.at = "renew" /\ Same(agent[n], p)
    BY <1>3, <1>4, <1>6, TickingIs, SameUpdates DEF Same
  <2> HIDE DEF p
  <2>2. Sound(p) /\ ~Settled(p) /\ lease.owner = n
    BY <1>1, <1>6, <2>1, SoundTick, BothLed
    DEF Settled, LeaseSteps, Same, MustYield, OwnedBy, Valid, Leads, Serves, At, Running
  <2> QED BY <1>1, <1>2, <2>1, <2>2, TickStay DEF Local, TickSteps
<1>7. CASE ~MustYield(n) /\ ~renewDue(a)
  <2> DEFINE c == Safe(a)
             p == [c EXCEPT !.at = "handoff", !.age = 0]
  <2>1. Set(n, p)
    BY <1>4, <1>7
  <2> HIDE DEF c
  <2>2. Ticking(c) /\ Same(a, c)
    BY <1>3 DEF c
  <2>3. p.at = "handoff" /\ Same(agent[n], p) /\ Same(a, p)
    BY <1>3, <2>2, TickingIs, SameUpdates DEF Same
  <2> HIDE DEF p
  <2>4. ~renewDue(p)
    BY <1>7, <2>3 DEF renewDue, Same
  <2>5. Sound(p) /\ lease.owner = n
    BY <1>1, <1>7, <2>3, SoundTick, BothLed
    DEF LeaseSteps, Same, MustYield, OwnedBy, Valid, Leads, Serves, At, Running
  <2> QED BY <1>1, <1>2, <2>1, <2>3, <2>4, <2>5, TickStay DEF Local, TickSteps
<1> QED BY <1>5, <1>6, <1>7

\* A renewal: no other node holds the lease, since none was away.
LEMMA RenewSplit ==
  ASSUME SplitInv, Prompt, NEW n \in Node, renew(n)
  PROVE  SplitInv'
<1> DEFINE a == agent[n]
           m == Peer(n)
           b == agent[Peer(n)]
           c == Safe(a)
           p == [c EXCEPT !.at = "handoff", !.lastRenew = a.age]
<1>1. /\ Leads(lease, n, a, m, b) /\ Leads(lease, m, b, n, a) /\ Sound(a)
      /\ a \in Process /\ b \in Process /\ n \in cf /\ m # n
  BY BothLed
<1>2. a.at = "renew" /\ a.role = "primary" /\ Local /\ TypeInv'
  BY <1>1, PrimaryTypes DEF renew, At, Sound, SplitInv
<1>3. Ticking(a) /\ a.age = 0
  <2>1. Ticking(a)
    BY <1>2, InTick DEF At, TickSteps, SplitInv
  <2> QED BY <2>1, TickingIs, Renewals DEF Prompt
<1>4. Set(n, p) /\ lease' = [owner |-> n, left |-> LeaseTTL]
  BY <1>1, <1>3, Constants DEF renew, Grant
<1>5. c \in Process /\ Same(a, c)
  BY <1>3, SafeIsGood, SameProcess, TickingIs
<1> HIDE DEF c
<1>6. p.at = "handoff" /\ p.role = "primary" /\ p.lastRenew = 0
  BY <1>2, <1>3, <1>5 DEF Same, Process
<1> HIDE DEF p
<1>7. Serves(a) /\ Holds(a) /\ ~Away(a)
  BY <1>2 DEF Serves, Holds, Away, TickSteps
<1>8. ~Claims(b) /\ ~Holds(b) /\ ~Settled(b)
  <2>1. ~Claims(b)
    BY <1>1, <1>7 DEF Leads
  <2>2. ~Holds(b)
    BY <1>1, <1>7, StepKinds DEF Leads, Own, Holds, Settled, Away, LeaseSteps
  <2> QED BY <2>1, <2>2, StepKinds
<1>9. lease'.owner = n /\ lease'.left = LeaseTTL /\ LeaseTTL > 0 /\ LeaseExists'
  BY <1>4, Constants, NodeAssumption DEF Prompt, LeaseExists
<1>10. Leads(lease', n, p, m, b)
  BY <1>6, <1>9, Constants DEF Leads, Own, Claims, ClaimSteps, Prompt
<1>11. Leads(lease', m, b, n, p)
  <2>1. b.lastRenew # Zero => b.lastRenew >= 0
    BY <1>1 DEF Process, Ages, Zero
  <2>2. b.lastRenew # Zero => LeaseTTL >= LeaseTTL - b.lastRenew
    BY <1>1, <2>1, Renewals, Constants
  <2> QED BY <1>8, <1>9, <2>2 DEF Leads, Claims, ClaimSteps
<1> QED BY <1>2, <1>4, <1>6, <1>9, <1>10, <1>11, SoundTick, SplitSet DEF Local, SplitInv, LeaseSteps

\* The lease goes to the peer; the node that has given it away ends.
LEMMA TransferSplit ==
  ASSUME SplitInv, Prompt, NEW n \in Node, completeHandoff(n)
  PROVE  SplitInv'
<1> DEFINE a == agent[n]
           m == Peer(n)
           b == agent[Peer(n)]
           p == Switching(a)
<1>1. /\ Leads(lease, n, a, m, b) /\ Leads(lease, m, b, n, a) /\ Sound(a)
      /\ a \in Process /\ b \in Process /\ n \in cf /\ m # n /\ m \in Node
  BY BothLed, Peers
<1>2. /\ a.at = "transfer" /\ a.role = "primary" /\ TypeInv'
      /\ UNCHANGED <<cf, budget>>
  BY <1>1, PrimaryTypes DEF completeHandoff, At, Sound, LeaseSteps, SplitInv
<1>3. a.age = 0
  <2>1. Ticking(a)
    BY <1>2, InTick DEF At, TickSteps, SplitInv
  <2> QED BY <2>1, TickingIs, Renewals DEF Prompt
<1>4. Set(n, p) /\ lease' = [owner |-> m, left |-> LeaseTTL]
  BY <1>1, <1>3, Constants DEF completeHandoff, Grant
<1>5. p.at = "leaving"
  BY <1>1, SameUpdates
<1> HIDE DEF p
<1>6. Sound(p) /\ ~Serves(p) /\ ~Holds(p) /\ ~Settled(p) /\ ~Claims(p)
  BY <1>5, SoundTick DEF Serves, Holds, Settled, Claims, ClaimSteps, LeaseSteps, TickSteps
<1>7. ~Claims(b)
  BY <1>1, <1>2 DEF Leads, Serves, TickSteps
<1>8. lease'.owner = m /\ lease'.left = LeaseTTL /\ LeaseTTL > 0 /\ LeaseExists'
  BY <1>1, <1>4, Constants, NodeAssumption DEF Prompt, LeaseExists
<1>9. Leads(lease', n, p, m, b)
  BY <1>5, <1>6 DEF Leads
<1>10. Leads(lease', m, b, n, p)
  <2>1. b.lastRenew # Zero => b.lastRenew >= 0
    BY <1>1 DEF Process, Ages, Zero
  <2>2. b.lastRenew # Zero => LeaseTTL >= LeaseTTL - b.lastRenew
    BY <1>1, <2>1, Renewals, Constants
  <2> QED BY <1>1, <1>7, <1>8, <2>2 DEF Leads, Own, Claims, ClaimSteps
<1> QED BY <1>2, <1>4, <1>6, <1>8, <1>9, <1>10, SplitSet DEF SplitInv

LEMMA DrainSplit ==
  ASSUME SplitInv, Prompt, NEW n \in Node, beginDrain(n) \/ SetDraining(n)
  PROVE  SplitInv'
<1> DEFINE a == agent[n]
           p == [a EXCEPT !.at = "close", !.drainSince = 0]
           q == [a EXCEPT !.at = "idle", !.draining = TRUE]
<1>1. a \in Process /\ Sound(a) /\ TypeInv'
  BY BothLed, PrimaryTypes DEF SplitInv
<1>2. /\ a.at \in {"drain", "close"} /\ a.role = "primary" /\ Settled(a) /\ Running(n)
      /\ At(n) # "verify" /\ lease' = lease /\ Local
  BY <1>1 DEF beginDrain, SetDraining, At, Sound, LeaseSteps, Settled, Running, TickSteps
<1>3. /\ Same(a, p) /\ p.at = "close" /\ Same(a, q) /\ q.at = "idle"
  BY <1>1 DEF Same, Process
<1>4. Set(n, p) \/ Set(n, q)
  BY DEF beginDrain, SetDraining
<1> HIDE DEF p, q
<1>5. Sound(p) /\ Sound(q) /\ p.at \in TickSteps /\ q.at \in TickSteps
  BY <1>2, <1>3, SoundTick DEF Same, LeaseSteps, TickSteps
<1> QED BY <1>1, <1>2, <1>3, <1>4, <1>5, TickStay DEF Local

LEMMA RequestSplit ==
  ASSUME SplitInv, Prompt, NEW n \in Node, NEW busy \in BOOLEAN, handleHandoffRequest(n, busy)
  PROVE  SplitInv'
<1> DEFINE a == agent[n]
           b == Waiting(a)
<1>1. a \in Process /\ Sound(a) /\ TypeInv'
  BY BothLed, RequestTypes DEF SplitInv
<1>2. /\ a.at = "handoff" /\ a.role = "primary" /\ Settled(a) /\ Running(n)
      /\ At(n) # "verify" /\ UNCHANGED <<lease, cf, budget>>
  BY <1>1 DEF handleHandoffRequest, At, Sound, LeaseSteps, Settled, Running, TickSteps
<1>3. Ticking(a)
  BY <1>2, InTick DEF At, TickSteps, SplitInv
<1>4. PICK q \in {a, b, cancelHandoff(a), pauseHandoff(a)}, at \in {"idle", "drain", "transfer"} :
        Set(n, [q EXCEPT !.at = at])
  <2>1. \E c \in {"idle", "drain", "transfer"} :
           \/ Set(n, [a EXCEPT !.at = c]) \/ Set(n, [b EXCEPT !.at = c])
           \/ Set(n, [cancelHandoff(a) EXCEPT !.at = c])
           \/ Set(n, [pauseHandoff(a) EXCEPT !.at = c])
    BY DEF handleHandoffRequest
  <2> QED BY <2>1
<1>5. Ticking(q) /\ Same(a, q)
  BY <1>1, <1>3, WaitingIsGood, CancelIsGood, PauseIsGood, SameProcess DEF Same
<1> DEFINE p == [q EXCEPT !.at = at]
<1>6. Set(n, p) /\ Same(a, p) /\ p.at = at
  BY <1>4, <1>5, TickingIs, SameUpdates DEF Same
<1> HIDE DEF p
<1>7. Sound(p) /\ p.at \in TickSteps
  BY <1>2, <1>6, SoundTick DEF Same, LeaseSteps, TickSteps
<1> QED BY <1>1, <1>2, <1>6, <1>7, TickStay

\* A step of the replica that only looks at the lease.
LEMMA ReplicaStay ==
  ASSUME SplitInv, TypeInv', Prompt, UNCHANGED <<lease, cf, budget>>,
         NEW n \in Node, NEW p, Set(n, p), Running(n), Same(agent[n], p),
         agent[n].role = "replica",
         p.at \in {"idle", "take", "clean", "ask", "insist"} \/ (p.at = "leaving" /\ p.age = 0),
         At(n) = "verify" => p.at = "leaving" \/ lease.owner # n
  PROVE  SplitInv'
<1>1. Sound(p) /\ ~Holds(p)
  BY SoundTick DEF Same, Holds, Settled
<1>2. p.at \in TickSteps \/ (p.at = "leaving" /\ p.age = 0)
  BY DEF TickSteps
<1> QED BY <1>1, <1>2, TickStay

LEMMA ReplicaSplit ==
  ASSUME SplitInv, Prompt, NEW n \in Node,
         \/ ReplicaLease(n) \/ verifyClaim(n) \/ requestHandoff(n) \/ runManualClaimCleanup(n)
  PROVE  SplitInv'
<1> DEFINE p == agent[n]
           b == IF p.caughtUpSince = Zero THEN [p EXCEPT !.caughtUpSince = 0] ELSE p
           go(at) == [p EXCEPT !.at = at]
           lost == [p EXCEPT !.at = "idle", !.caughtUpSince = Zero]
           take == [p EXCEPT !.at = "take", !.age = 0]
           clear == [p EXCEPT !.at = "idle", !.cleanup = FALSE]
           next == [b EXCEPT !.at = "idle"]
           Fits(q) == /\ Same(p, q)
                      /\ \/ q.at \in {"idle", "take", "clean", "ask", "insist"}
                         \/ q.at = "leaving" /\ q.age = 0
<1>1. p \in Process /\ Sound(p) /\ n \in cf /\ TypeInv' /\ UNCHANGED <<lease, cf, budget>>
  BY BothLed, ReplicaTypes
  DEF SplitInv, ReplicaLease, verifyClaim, requestHandoff, runManualClaimCleanup, Local
<1>2. Running(n) /\ p.role = "replica" /\ At(n) = p.at
  BY <1>1 DEF ReplicaLease, verifyClaim, requestHandoff, runManualClaimCleanup, At, Sound,
              Running, TickSteps
<1>3. /\ Fits(go("idle")) /\ Fits(go("clean")) /\ Fits(lost) /\ Fits(take) /\ Fits(clear)
      /\ Fits(Switching(p)) /\ Switching(p).at = "leaving"
  BY <1>1 DEF Same, Switching, Process
<1>4. b \in Process /\ Same(p, b)
  BY <1>1, NeverSet DEF Process, Same
<1>5. \A q \in Process : Same(p, q) => Fits(Ask(q)) /\ Fits([q EXCEPT !.at = "idle"])
  BY DEF Ask, Process, Same
<1>6. Fits(Ask(p)) /\ Fits(Ask(b)) /\ Fits(next)
  <2>1. Same(p, p)
    BY DEF Same
  <2> HIDE DEF p, b, Fits
  <2> QED BY <1>1, <1>4, <1>5, <2>1 DEF next
<1>7. ASSUME NEW q, Set(n, q), Fits(q), p.at = "verify" => q.at = "leaving" \/ lease.owner # n
      PROVE  SplitInv'
  BY <1>1, <1>2, <1>7, ReplicaStay
<1>8. CASE ReplicaLease(n)
  <2>1. maybeRequestFailback(n, p) \in {go("idle"), lost, Ask(b), next}
    BY DEF maybeRequestFailback
  <2>2. maybeRequestManualTakeover(n, p) \in {go("idle"), Ask(p)}
    BY DEF maybeRequestManualTakeover
  <2>3. p.at = "lease"
    BY <1>8 DEF ReplicaLease, At
  <2>4. \/ Set(n, go("idle")) \/ Set(n, Switching(p)) \/ Set(n, take) \/ Set(n, go("clean"))
        \/ Set(n, maybeRequestManualTakeover(n, p)) \/ Set(n, maybeRequestFailback(n, p))
    BY <1>8 DEF ReplicaLease
  <2> HIDE DEF p, b, lost, take, go, next, clear, Fits
  <2> QED BY <1>3, <1>6, <1>7, <2>1, <2>2, <2>3, <2>4
<1>9. CASE verifyClaim(n)
  <2>1. CASE lease.owner = n
    <3>1. Set(n, Switching(p))
      BY <1>1, <1>9, <2>1 DEF verifyClaim
    <3> HIDE DEF p, Fits
    <3> QED BY <1>3, <1>7, <3>1
  <2>2. CASE lease.owner # n
    <3>1. Set(n, go("clean")) \/ Set(n, go("idle"))
      BY <1>9, <2>2 DEF verifyClaim, GiveUp
    <3> HIDE DEF p, go, Fits
    <3> QED BY <1>3, <1>7, <2>2, <3>1
  <2> QED BY <2>1, <2>2
<1>10. CASE requestHandoff(n) \/ runManualClaimCleanup(n)
  <2>1. (Set(n, go("idle")) \/ Set(n, clear)) /\ p.at # "verify"
    BY <1>10 DEF requestHandoff, runManualClaimCleanup, GoTo, At
  <2> HIDE DEF p, go, clear, Fits
  <2> QED BY <1>3, <1>7, <2>1
<1> QED BY <1>8, <1>9, <1>10

\* A claim of the running replica: until it has looked, it is away.
LEMMA ClaimSplit ==
  ASSUME SplitInv, Prompt, NEW n \in Node, tryClaim(n)
  PROVE  SplitInv'
<1> DEFINE a == agent[n]
           m == Peer(n)
           b == agent[Peer(n)]
           p == [a EXCEPT !.at = "verify"]
<1>1. /\ Leads(lease, n, a, m, b) /\ Leads(lease, m, b, n, a) /\ Sound(a)
      /\ a \in Process /\ b \in Process /\ n \in cf /\ m # n
  BY BothLed
<1>2. a.at = "take" /\ a.role = "replica" /\ Local /\ TypeInv'
  BY <1>1, ReplicaTypes DEF tryClaim, At, Sound, SplitInv
<1>3. a.age = 0
  <2>1. Ticking(a)
    BY <1>2, InTick DEF At, TickSteps, SplitInv
  <2> QED BY <2>1, TickingIs, Renewals DEF Prompt
<1>4. Set(n, p) /\ lease' = [owner |-> n, left |-> LeaseTTL]
  BY <1>1, <1>3, Constants DEF tryClaim, Grant, GoTo
<1>5. p.at = "verify" /\ p.role = "replica"
  BY <1>1, <1>2 DEF Process
<1> HIDE DEF p
<1>6. Sound(p) /\ ~Serves(p) /\ ~Holds(p) /\ ~Settled(p) /\ Away(p) /\ ~Claims(p)
  BY <1>5, SoundTick
  DEF Serves, Holds, Settled, Away, Claims, ClaimSteps
<1>7. lease'.owner = n /\ lease'.left = LeaseTTL /\ LeaseTTL > 0 /\ LeaseExists'
  BY <1>4, Constants, NodeAssumption DEF Prompt, LeaseExists
<1>8. Leads(lease', n, p, m, b)
  BY <1>5, <1>6 DEF Leads
<1>9. Leads(lease', m, b, n, p)
  <2>1. b.lastRenew # Zero => b.lastRenew >= 0
    BY <1>1 DEF Process, Ages, Zero
  <2>2. b.lastRenew # Zero => LeaseTTL >= LeaseTTL - b.lastRenew
    BY <1>1, <2>1, Renewals, Constants
  <2> QED BY <1>1, <1>6, <1>7, <2>2 DEF Leads, Own
<1> QED BY <1>2, <1>4, <1>6, <1>7, <1>8, <1>9, SplitSet DEF Local, SplitInv

\* Requests of the administrator.
LEMMA AdminSplit ==
  ASSUME SplitInv, NEW n \in Node,
         CancelManualSwitch(n) \/ \E force \in BOOLEAN : RequestManualSwitch(n, force)
  PROVE  SplitInv'
<1> DEFINE a == agent[n]
           c == [a EXCEPT !.manual = FALSE, !.force = FALSE]
           Alike(p) == Same(a, p) /\ p.at = a.at /\ p.age = a.age /\ p.blank = a.blank
<1>1. a \in Process /\ Sound(a) /\ TypeInv' /\ lease' = lease /\ cf' = cf
  BY BothLed, AdminTypes DEF SplitInv, CancelManualSwitch, RequestManualSwitch
<1>2. a.at \notin BootSteps
  BY DEF CancelManualSwitch, RequestManualSwitch, Alive, Running, At, BootSteps, TickSteps
<1>3. \E e \in DOMAIN Budget : Event(e)
  BY TimingAssumption DEF CancelManualSwitch, RequestManualSwitch
<1>4. ASSUME NEW p, Set(n, p), Alike(p) PROVE SplitInv'
  <2>1. Sound(p)
    BY <1>1, <1>4 DEF Sound, Same
  <2>2. Onward(lease, n, a, p, agent[Peer(n)])
    BY <1>2, <1>4 DEF Onward, Same, Serves, Settled, Holds, Away, BootSteps
  <2> QED BY <1>1, <1>3, <1>4, <2>1, <2>2, SplitStay
<1>5. CASE CancelManualSwitch(n)
  <2>1. c \in Process /\ Alike(c)
    BY <1>1 DEF Process, Same
  <2>2. \A q \in Process :
          /\ Same(q, pauseHandoff(q)) /\ pauseHandoff(q).at = q.at
          /\ pauseHandoff(q).age = q.age /\ pauseHandoff(q).blank = q.blank
          /\ Same(q, [q EXCEPT !.cleanup = TRUE]) /\ [q EXCEPT !.cleanup = TRUE].at = q.at
          /\ [q EXCEPT !.cleanup = TRUE].age = q.age /\ [q EXCEPT !.cleanup = TRUE].blank = q.blank
    BY DEF Same, pauseHandoff, Process
  <2>3. Set(n, c) \/ Set(n, pauseHandoff(c)) \/ Set(n, [c EXCEPT !.cleanup = TRUE])
    BY <1>5 DEF CancelManualSwitch
  <2> HIDE DEF c
  <2>4. Alike(pauseHandoff(c)) /\ Alike([c EXCEPT !.cleanup = TRUE])
    BY <2>1, <2>2 DEF Same
  <2> HIDE DEF Alike
  <2> QED BY <1>4, <2>1, <2>3, <2>4
<1>6. CASE \E force \in BOOLEAN : RequestManualSwitch(n, force)
  <2> PICK force \in BOOLEAN : RequestManualSwitch(n, force)
    BY <1>6
  <2> DEFINE p == [a EXCEPT !.manual = TRUE, !.force = @ \/ force, !.cleanup = FALSE,
                            !.lastHandoffWrite = IF IsPrimary(n) THEN @ ELSE Zero]
  <2>1. Set(n, p)
    BY DEF RequestManualSwitch
  <2>2. Alike(p)
    BY <1>1 DEF Process, Same
  <2> HIDE DEF p, Alike
  <2> QED BY <1>4, <2>1, <2>2
<1> QED BY <1>5, <1>6

LEMMA FaultSplit ==
  ASSUME SplitInv, Prompt,
         \/ \E n \in Node : Crash(n) \/ Write(n) \/ Replicate(n)
         \/ \E S \in SUBSET Node : CfFails(S)
         \/ LinkFails \/ RecordLost \/ NetworkHeals
  PROVE  SplitInv'
<1>1. TypeInv'
  BY FaultTypes, DataTypes DEF SplitInv
<1>2. {"cf", "link", "crash", "erase"} \subseteq DOMAIN Budget
  BY TimingAssumption
<1>3. (\A S \in SUBSET Node : ~CfFails(S)) /\ ~RecordLost
  BY DEF SplitInv, CfFails, RecordLost, Event
<1>4. CASE \E n \in Node : Crash(n)
  <2> PICK n \in Node : Crash(n)
    BY <1>4
  <2> DEFINE p == [Fresh EXCEPT !.at = "crashed"]
  <2>1. Set(n, p) /\ Event("crash") /\ lease' = lease /\ cf' = cf
    BY DEF Crash
  <2>2. p.at = "crashed" /\ p.age = 0
    BY DEF Fresh
  <2> HIDE DEF p
  <2>3. Sound(p)
    BY <2>2 DEF Sound, LeaseSteps, BootSteps
  <2>4. Away(p)
    BY <2>2, Constants DEF Away, Prompt
  <2>5. Onward(lease, n, agent[n], p, agent[Peer(n)])
    BY <2>2, <2>4 DEF Onward, Serves, Settled, Holds, LeaseSteps, TickSteps
  <2> QED BY <1>1, <1>2, <2>1, <2>3, <2>5, SplitStay
<1>5. CASE UNCHANGED <<agent, lease>>
  <2>1. cf' = Node
    BY <1>3, <1>5 DEF SplitInv, Crash, Write, Replicate, LinkFails, NetworkHeals, Set
  <2>2. budget'["cf"] = 0 /\ budget'["erase"] = 0
    <3>1. budget' = budget \/ \E e \in DOMAIN Budget : Event(e)
      BY <1>2, <1>3 DEF Crash, Write, Replicate, LinkFails, NetworkHeals
    <3> QED BY <1>1, <3>1, NoOutage DEF TypeInv
  <2> QED BY <1>1, <1>5, <2>1, <2>2 DEF SplitInv, Led, LeaseExists
<1> QED BY <1>3, <1>4, <1>5 DEF Write, Replicate, LinkFails, NetworkHeals

\* Time passes only when every tick and every boot has come to its end.
LEMMA AtRest ==
  ASSUME SplitInv, Prompt, NEW n \in Node, MayWait(agent[n])
  PROVE  \/ agent[n].at \in {"down", "leaving", "crashed"}
         \/ agent[n].at = "idle" /\ ~agent[n].due
<1> DEFINE a == agent[n]
<1>1. a \in Process /\ Sound(a) /\ Timely(a) /\ a.age \in Nat /\ a.due \in BOOLEAN
  BY BothLed, Renewals DEF SplitInv, TypeInv, Process
<1>2. CASE a.at \in {"idle", "down", "leaving", "crashed"}
  BY <1>1, <1>2 DEF MayWait
<1>3. CASE a.at \in TickSteps \cup BootSteps /\ a.at # "idle"
  <2>1. ~a.blank /\ a.at # "bootWait"
    BY <1>1, <1>3 DEF Sound, Timely, TickSteps
  <2>2. MayWait(a) <=> a.age < Slack
    BY <1>3, <2>1 DEF MayWait, AgeLimit, TickSteps, BootSteps
  <2> QED BY <1>1, <2>2 DEF Prompt
<1> QED BY <1>1, <1>2, <1>3 DEF Process

LEMMA AdvanceSplit ==
  ASSUME SplitInv, Prompt, Advance
  PROVE  SplitInv'
<1>1. TypeInv' /\ Local
  BY AdvanceTypes DEF SplitInv, Advance
<1>2. /\ lease'.owner = lease.owner
      /\ lease.left > 0 => lease'.left = lease.left - 1
      /\ LeaseExists'
  <2>1. lease \in LeaseType /\ LeaseExists
    BY DEF SplitInv, TypeInv
  <2>2. lease.left \in Int
    BY <2>1, Constants DEF LeaseType
  <2>3. lease.left > 0 => lease.left > -(ClaimGuard + 1)
    BY <2>2, Constants
  <2> QED BY <2>1, <2>3 DEF Advance, LeaseType, LeaseExists
<1>3. ASSUME NEW n \in Node PROVE Led(n)'
  <2> DEFINE a == agent[n]
             p == Aged(a)
  <2>1. agent'[n] = p /\ MayWait(a) /\ a \in Process /\ lease.left \in Int
    BY BothLed DEF Advance
  <2>2. a.at \in {"down", "leaving", "crashed"} \/ (a.at = "idle" /\ ~a.due)
    BY <2>1, AtRest
  <2>3. p.at = a.at /\ (a.at = "idle" => p.due /\ p.role = a.role
                                         /\ p.lastRenew = Older(a.lastRenew, RenewInterval))
    BY <2>1, <2>2 DEF Aged, Process
  <2> HIDE DEF p
  <2>4. Sound(p) /\ ~Settled(p) /\ ~Holds(p) /\ ~Claims(p)
    BY <2>2, <2>3, SoundTick
    DEF Sound, Settled, Holds, Claims, ClaimSteps, LeaseSteps, BootSteps
  <2>5. Serves(p) => /\ lease'.left > 0
                     /\ p.lastRenew # Zero => lease'.left >= LeaseTTL - p.lastRenew
    <3> SUFFICES ASSUME Serves(p) PROVE lease'.left > 0 /\ lease'.left >= LeaseTTL - p.lastRenew
      OBVIOUS
    <3>1. Serves(a) /\ Settled(a) /\ a.at = "idle"
      BY <2>2, <2>3 DEF Serves, Settled, TickSteps
    <3>2. /\ lease.left > 0 /\ 0 <= a.lastRenew /\ a.lastRenew < RenewInterval
          /\ a.lastRenew # Zero => lease.left >= LeaseTTL - a.lastRenew
      BY <3>1, BothLed DEF Leads
    <3>3. a.lastRenew \in Int /\ lease'.left = lease.left - 1 /\ p.lastRenew = a.lastRenew + 1
      BY <1>2, <2>1, <2>3, <3>1, <3>2, Renewals, Constants DEF Older, Zero
    <3> QED BY <2>1, <3>2, <3>3, Constants DEF Prompt, Zero
  <2> QED BY <2>1, <2>4, <2>5 DEF Led, Leads, Claims, ClaimSteps
<1> QED BY <1>1, <1>2, <1>3 DEF SplitInv, Local

LEMMA SplitInit == DNSWorks /\ Init => SplitInv
<1> SUFFICES ASSUME DNSWorks, Init PROVE SplitInv
  OBVIOUS
<1>1. PICK p \in Node :
        /\ lease = [owner |-> p, left |-> LeaseTTL]
        /\ agent = [n \in Node |-> [Fresh EXCEPT
                       !.at = "idle", !.role = IF n = p THEN "primary" ELSE "replica"]]
  BY DEF Init
<1>2. LeaseExists /\ lease.left = LeaseTTL /\ LeaseTTL > 0
  BY <1>1, NodeAssumption, TimingAssumption DEF LeaseExists
<1>3. ASSUME NEW n \in Node
      PROVE  /\ agent[n].at = "idle" /\ agent[n].lastRenew = Zero
             /\ Sound(agent[n]) /\ ~Settled(agent[n]) /\ ~Holds(agent[n])
  <2>1. agent[n] = [Fresh EXCEPT !.at = "idle",
                                 !.role = IF n = p THEN "primary" ELSE "replica"]
    BY <1>1
  <2> QED BY <2>1, StartedIs
<1>4. \A n \in Node : Led(n)
  BY <1>2, <1>3 DEF Led, Leads, Claims, ClaimSteps
<1> QED BY <1>2, <1>4, InitTypes DEF SplitInv, Init, DNSWorks

LEMMA SplitNext ==
  ASSUME SplitInv, ~BothClaiming, Prompt, [Next]_vars
  PROVE  SplitInv'
<1>1. CASE UNCHANGED vars
  BY <1>1 DEF SplitInv, Led, LeaseExists, TypeInv, vars
<1>2. ASSUME NEW n \in Node, Step(n) PROVE SplitInv'
  BY <1>2, BootSplit, ProbeSplit, PrimaryLeaseSplit, RenewSplit, DrainSplit, TransferSplit,
     RequestSplit, ReplicaSplit, ClaimSplit DEF Step
<1> QED BY <1>1, <1>2, AdminSplit, AdvanceSplit, FaultSplit DEF Next

\* When time passes, a node that runs as the primary owns the lease.
LEMMA OneAtRest == ASSUME SplitInv, Prompt, Advance PROVE OnePrimary
<1> SUFFICES ASSUME NEW n \in Node, NEW m \in Node, IsPrimary(n), IsPrimary(m), n # m
             PROVE  FALSE
  BY DEF OnePrimary
<1>1. m = Peer(n) /\ n = Peer(m)
  BY Peers, PeerOfPeer
<1>2. ASSUME NEW k \in Node, IsPrimary(k) PROVE Holds(agent[k]) /\ ~Away(agent[k])
  <2>1. MayWait(agent[k])
    BY DEF Advance
  <2>2. agent[k].at = "idle" /\ ~agent[k].due
    BY <1>2, <2>1, AtRest DEF IsPrimary, Running, At, TickSteps
  <2> QED BY <1>2, <2>2 DEF Holds, Settled, Away, IsPrimary
<1>3. ASSUME NEW k \in Node, IsPrimary(k), IsPrimary(Peer(k)) PROVE lease.owner = k
  BY <1>2, <1>3, BothLed, Peers DEF Leads, Own
<1> QED BY <1>1, <1>3

\* No poll interval passes with two primaries, whatever crashes, is cut off or handed over,
\* and however often, while the DNS API works: a claim is read back before it counts, and who
\* is primary looks at the lease in every tick.  It needs ticks, boots and restarts of the
\* right length, and that the two nodes do not both find the lease expired at boot at once
\* (agent.go: primaryTick, tryClaim; resolve.go: Resolve).
THEOREM SplitShort ==
    ASSUME DNSWorks, Prompt
    PROVE  Spec /\ []~BothClaiming => SplitIsShort
<1>1. Init => SplitInv
  BY SplitInit
<1>2. SplitInv /\ ~BothClaiming /\ [Next]_vars => SplitInv'
  BY SplitNext
<1>3. SplitInv => [Advance => OnePrimary]_vars
  BY OneAtRest
<1> QED BY <1>1, <1>2, <1>3, PTL DEF Spec, SplitIsShort

=============================================================================
