SPECIFICATION LiveSpec
CONSTANTS
    Own = {mine}  Incoming = {theirs, hers}  Users = {amy, bill}  Members <- SmallMembers
    CallerOf <- SmallCallers  Group = {theirs}  Initiates = {amy}  Silence = silence
    MaxSignals = 2  MaxDrops = 1
    Slots = {1, 2, 3}  MaxNews = 1  MaxBootErrors = 1  MaxBreaks = 1  MaxHides = 2
    Pictures = {g1, g2, g3}  SizeOf <- SmallSizes  Largest = 2  PicturePages <- SmallPages
    Refreshes = {t1, t2}  Budget = 3  Concurrency = 2  MaxTasks = 4
    MaxSubmits = 1  MaxFlowFaults = 1
    viewer = viewer  mine = mine  theirs = theirs  hers = hers  amy = amy  bill = bill
    g1 = g1  g2 = g2  g3 = g3
INVARIANTS LiveTypeOK CallsEndForTheirOwnReasons StartMissesNothing PreloadsKeepTheirLimits ButtonIsGivenBack
PROPERTIES NobodyRingsForEver EverythingEnds
\* Each part stops once its bounds are reached.
CHECK_DEADLOCK FALSE
