----------------------------- MODULE AudioFetch -----------------------------
(* What the audio broker promises to a subtitle worker that fetches a FLAC:   *)
(* its parts come in order, each once, and the answer succeeds only when all  *)
(* of them have come.  Any fetch may fail at any time.                        *)
EXTENDS Naturals, Sequences

CONSTANTS Fetcher,      \* GET handlers of subtitle workers
          Parts         \* number of parts of a FLAC

VARIABLES phase,        \* "idle", "open", or "ok": it has succeeded
          received      \* the parts the subtitle worker has got

vars == <<phase, received>>

Init == /\ phase = [f \in Fetcher |-> "idle"]
        /\ received = [f \in Fetcher |-> <<>>]

Begin(f) == /\ phase[f] = "idle"
            /\ phase' = [phase EXCEPT ![f] = "open"]
            /\ UNCHANGED received

Deliver(f) == /\ phase[f] = "open"
              /\ Len(received[f]) < Parts
              /\ received' = [received EXCEPT ![f] = Append(@, Len(@))]
              /\ UNCHANGED phase

Succeed(f) == /\ phase[f] = "open"
              /\ Len(received[f]) = Parts
              /\ phase' = [phase EXCEPT ![f] = "ok"]
              /\ UNCHANGED received

\* It fails, or its success is over.
End(f) == /\ phase[f] # "idle"
          /\ phase' = [phase EXCEPT ![f] = "idle"]
          /\ received' = [received EXCEPT ![f] = <<>>]

Next == \E f \in Fetcher : Begin(f) \/ Deliver(f) \/ Succeed(f) \/ End(f)

Spec == Init /\ [][Next]_vars
=============================================================================
