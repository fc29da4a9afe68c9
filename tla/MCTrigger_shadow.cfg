SPECIFICATION TriggerSpecification
CONSTANTS
    c1 = c1  c2 = c2  ta = ta  tb = tb
    uOnce = uOnce  uTwice = uTwice  uGlobal = uGlobal  uNever = uNever  uWhile = uWhile
    None = None
    Clients = {c1, c2}
    Pids = {}
    Aids = {}
    Uids = {uOnce, uTwice, uGlobal, uNever, uWhile}
    Triggers = {ta, tb}
    TriggerSpecs <- MCTriggerSpecs
    MaxTime = 3
    MaxHits = 3
SYMMETRY Symmetry
INVARIANT ExpiredDoesNotShadow
