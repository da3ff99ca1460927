CONSTANTS
    m1 = m1
    m2 = m2
    owner = owner
    peer = peer
    h1 = h1
    h2 = h2
    h3 = h3
    a = a
    Regions = {m1, m2}
    Procs = {owner, peer}
    Owner = owner
    Holds = {h1, h2, h3}
    Sizes = {2}
    Tags = {a}
    Lifetime = 1
    MaxAllocs = 2
SPECIFICATION Spec
INVARIANTS
    FreeOnlyWhenFree
