--------------------------- MODULE MCAudioBroker ---------------------------
(* Small instances of AudioBroker for TLC.                                 *)
EXTENDS AudioBroker

CONSTANTS j1, w1

OwnerOfAll == [j \in Job |-> w1]
=============================================================================
