SPECIFICATION ServerSpec
CONSTANTS
    Cache <- SmallCache
    Ledger <- SmallLedgers
    Login = {r1, r2, r3}  Key = {ka, kb}  KeyOf <- Source  Keyed = {r1, r2}  Acting = {r3}
    MaxResets = 1  None = nil
    Company <- SmallCompany
    d1 = d1  d2 = d2  d3 = d3  r1 = r1  r2 = r2  r3 = r3
    r4 = r4  r5 = r5  ka = ka  kb = kb  nil = nil  empty = empty
    inProgress = inProgress  cacheFull = cacheFull  call = call  all = all  bea = bea  offer = offer
    renewed = renewed  candidate = candidate  hangup = hangup
    ana = ana  ben = ben  cyd = cyd
SYMMETRY Symmetry
INVARIANT ResetRevokesEverySession
CHECK_DEADLOCK FALSE
