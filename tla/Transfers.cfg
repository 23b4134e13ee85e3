SPECIFICATION FairSpec
CONSTANTS
    d1 = d1
    d2 = d2
    g1 = g1
    g2 = g2
    Drops = {d1, d2}
    Grabs = {g1, g2}
    Names = {"a", "b"}
    MaxVersion = 2
    None = None
    Torn = Torn
    Casts <- MCCasts
INVARIANTS PushedOrSkipped DropKept WholeOnDesktop NeverPullsPartial StagedKept
PROPERTIES DropArrives PushedInTheEnd
CHECK_DEADLOCK FALSE
