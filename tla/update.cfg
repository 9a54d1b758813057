SPECIFICATION Spec
CONSTANTS
    Version <- MCVersion
    Broken <- MCBroken
    Checker = {c1, c2}
    Runner = {r1, r2}
    MaxStartAttempts = 3
    MaxKills = 1
INVARIANT TypeOK
 
PROPERTY GivenUpAfterThree
PROPERTY ServiceReturns
CHECK_DEADLOCK FALSE
