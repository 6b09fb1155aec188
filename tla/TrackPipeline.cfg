SPECIFICATION PipelineSpec
CONSTANTS
    Chunks = 3
    Limit = 2
    MaxSeeks = 1
INVARIANTS  ThreadsAgree
PROPERTIES EndIsSignalled TearDownEnds
\* A track may be torn down, or played out with nobody asking for more.
CHECK_DEADLOCK FALSE
