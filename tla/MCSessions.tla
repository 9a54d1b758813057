----------------------------- MODULE MCSessions -----------------------------
(* Two accounts, two browsers and two or three requests at a time.          *)
EXTENDS Sessions, TLC
CONSTANTS a, b, d1, d2, r1, r2, r3, c1, c2

\* Demotions and deactivations.
MCChanges == {[role |-> "USER", active |-> None], [role |-> None, active |-> FALSE]}

\* Requests, browsers, challenges and the administrators are interchangeable.
MCSymmetry == Permutations(Request) \cup Permutations(Device)
              \cup Permutations(Challenge) \cup Permutations(Admin)

=============================================================================
