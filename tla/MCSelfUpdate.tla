--------------------------- MODULE MCSelfUpdate ---------------------------
EXTENDS SelfUpdate
MCVersion == 1..3
MCBroken == {2}
=============================================================================
