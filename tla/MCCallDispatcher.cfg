SPECIFICATION FairSpec
CONSTANTS
    j1 = j1  j2 = j2  j3 = j3  j4 = j4
    k1 = k1  k2 = k2 
    Job = {j1, j2, j3, j4}
    NoJob = NoJob
    Key = {k1, k2}
    KeyOf <- MCKeyOf
    HungKey = {k2}
    DispatchStreamDepth = 2
    DispatchTotalDepth = 2
    DispatchMaxStreams = 2
INVARIANT TypeOK Limits OneGoroutinePerStream
PROPERTY PromiseSpec StreamsDrain
\* The system stops once every Submit was answered.
CHECK_DEADLOCK FALSE
