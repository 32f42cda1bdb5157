SPECIFICATION FairSpec
CONSTANTS
    t1 = t1
    t2 = t2
    g1 = g1
    g2 = g2
    Host = {t1, t2, g1, g2}
    IpOf <- Addresses
    Protected = {}
    Offers <- Messages
    Handler = handler
    Main = main
    Reaper = {r1, r2}
    Repeats = 2
    MaxGen = 2
    MaxDrops = 1
INVARIANTS
    PoisonCovered
    ExpiryDropsGeneration
PROPERTIES
    SwitchKeepsPoison
    StoppedEventuallyTruthful
CHECK_DEADLOCK FALSE
