----------------------------- MODULE MCHAAgent -----------------------------
(* Small instances of HAAgent for TLC.                                     *)
EXTENDS HAAgent

CONSTANTS n1, n2

Events(cfs, links, crashes, erasures, switches, cancels) ==
    [cf |-> cfs, link |-> links, crash |-> crashes, erase |-> erasures,
     switch |-> switches, cancel |-> cancels]

\* Nobody withdraws a request, and the DNS API works.
PartitionBudget == Events(0, 1, 1, 0, 1, 0)
\* Everything that can happen.
ArbiterBudget   == Events(2, 2, 2, 2, 2, 2)
\* Remote calls fail.
NetworkBudget   == Events(2, 2, 0, 0, 0, 0)
\* An admin starts and withdraws a switch.
WithdrawnBudget == Events(0, 0, 0, 0, 1, 1)

=============================================================================
