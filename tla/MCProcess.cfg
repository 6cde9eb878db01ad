CONSTANTS
    c1 = c1
    c2 = c2
    c3 = c3
    c4 = c4
    Conns <- MCConns

SPECIFICATION ProcSpec

\* The process waits in listener.accept() or shutdown_wait.recv() for as long
\* as nothing happens: a state with no step is an idle server (or one that
\* has exited), and whether it is stuck is what ShutdownExits decides.
CHECK_DEADLOCK FALSE

INVARIANT ProcTypeOK

INVARIANT ExitOnlyWhenAsked
PROPERTY ShutdownExits
