CONSTANTS
    MaxLine <- MCMaxLine
    MaxPut <- MCMaxPut
    OutCap <- MCOutCap
    Scripts <- MCScripts

SPECIFICATION FairSpec

INVARIANT TypeOK
INVARIANT FramingAgreement
INVARIANT FramingErrorFatal

PROPERTY SessionImplementsAbs
PROPERTY InputEndCloses
