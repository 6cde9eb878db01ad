\* The reserve and peek replies, framed as spec section 6 and protocol.rs say.
CONSTANTS
    Nums <- MCNums
    Datas <- MCDatas
    Tubes <- MCTubes
    JobKinds = {"Reserved", "Found"}
    MaxSends = 1

SPECIFICATION EncSpec

\* A run ends after MaxSends replies or an encode error (the connection
\* closes); neither is a stuck server.
CHECK_DEADLOCK FALSE

INVARIANT ClientReadsReplies
