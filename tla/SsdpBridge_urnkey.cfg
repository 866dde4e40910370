SPECIFICATION Spec
CONSTANTS
    c1 = c1
    c2 = c2
    s1 = s1
    far = far
    ci = ci
    si = si
    group = group
    amp = amp
    tv = tv
    l1 = l1
    l2 = l2
    Urn = {amp, tv}
    Location = {l1, l2}
    NoLocation = NoLocation
    SsdpAll = SsdpAll
    Host = {c1, c2, s1, far}
    ClientItf = ci
    ServerItf = si
    Group = group
    Lan <- MCLan
    Net24 <- MCNet24
    Traffic <- MCFewTraffic
    MaxDatagrams = 3
    SendsMayWait = FALSE
    Lossy = FALSE
CHECK_DEADLOCK FALSE
INVARIANTS EveryServiceCached
