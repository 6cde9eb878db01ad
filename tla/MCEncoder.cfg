\* The replies the encoder frames by itself: every reply but the job ones.
CONSTANTS
    Nums <- MCNums
    Datas <- MCDatas
    Tubes <- MCTubes
    JobKinds = {}
    MaxSends = 2

SPECIFICATION EncSpec

\* A run ends after MaxSends replies or an encode error (the connection
\* closes); neither is a stuck server.
CHECK_DEADLOCK FALSE

INVARIANT ClientReadsReplies
