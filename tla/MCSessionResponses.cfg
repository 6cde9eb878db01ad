CONSTANTS
    MaxLine <- MCMaxLine
    MaxPut <- MCMaxPut
    OutCap <- MCOutCap
    Scripts <- MCScripts

SPECIFICATION FairSpec

INVARIANT OneResponsePerRequest
