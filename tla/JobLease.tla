------------------------------ MODULE JobLease ------------------------------
(***************************************************************************)
(* What the claim protocol of the subtitle jobs promises, without rows,    *)
(* handlers or timestamps: at any time a job is off, held by one worker,   *)
(* or waiting (its audio is ready and nobody has it).  A held job gets     *)
(* another holder only after it has been let go.                           *)
(***************************************************************************)
CONSTANTS Worker, NoWorker, Job
VARIABLES phase, holder

vars == <<phase, holder>>

Init == /\ phase = [j \in Job |-> "off"]
        /\ holder = [j \in Job |-> NoWorker]

\* One worker takes a job that is off or waiting.
Take(j) == /\ phase[j] # "held"
           /\ phase'[j] = "held"
           /\ holder'[j] \in Worker

\* The holder gives the job back, with its audio kept for the next holder.
HandIn(j) == /\ phase[j] = "held"
             /\ phase'[j] = "waiting"
             /\ holder'[j] = NoWorker

\* The job ends, or starts again from nothing.
Drop(j) == /\ phase'[j] = "off"
           /\ holder'[j] = NoWorker

Stay(j) == /\ phase'[j] = phase[j]
           /\ holder'[j] = holder[j]

\* A scan of the table may move several jobs in one step.
Next == \A j \in Job : Take(j) \/ HandIn(j) \/ Drop(j) \/ Stay(j)

Spec == Init /\ [][Next]_vars

=============================================================================
