CONSTANTS
    MaxLine <- MCMaxLine
    MaxPut <- MCMaxPut
    Scripts <- MCScripts

SPECIFICATION ReaderSpec

\* The comment at decoder.rs:107-110 against the code, for a client that
\* hangs up inside a payload.
INVARIANT PayloadCutIsError
