SPECIFICATION MCSpec
CONSTANTS
    p1 = p1  p2 = p2  p3 = p3
    u1 = u1  u2 = u2  u3 = u3
    o1 = o1  o2 = o2  o3 = o3  o4 = o4  a1 = a1
    c1 = c1  c2 = c2  ta = ta  tb = tb
    uOnce = uOnce  uTwice = uTwice  uGlobal = uGlobal  uNever = uNever  uWhile = uWhile
    None = None
    Pids <- MCPids
    Uids <- MCUids
    Objs <- MCObjs
    AppPlayers <- MCPlayers
    Aids = {a1}
    Clients <- MCClients
    Triggers = {ta, tb}
    TriggerSpecs <- MCTriggerSpecs
    MaxTime = 3
    MaxHits = 3
SYMMETRY Symmetry
INVARIANTS
    InSync
    UsesBounded
    ArmedWhileUsesLeft
CHECK_DEADLOCK FALSE
