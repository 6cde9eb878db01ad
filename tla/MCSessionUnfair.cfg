CONSTANTS
    MaxLine <- MCMaxLine
    MaxPut <- MCMaxPut
    OutCap <- MCOutCap
    Scripts <- MCScripts

\* A client that may stop reading its responses.
SPECIFICATION Spec

PROPERTY ShutdownCompletes
