CONSTANTS
    MaxLine <- MCMaxLine
    MaxPut <- MCMaxPut
    Scripts <- MCScripts

SPECIFICATION ReaderSpec

INVARIANT ReaderTypeOK
INVARIANT ReaderRecovery
