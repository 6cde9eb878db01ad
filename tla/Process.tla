------------------------------ MODULE Process ------------------------------
(***************************************************************************)
(* The server process (main and accept_loop in src/bin/ebeans/main.rs):   *)
(* the ctrl-c task fires a CancellationToken; accept_loop spawns one task *)
(* per accepted connection, each holding a clone of the mpsc sender       *)
(* shutdown_hold, and returns once the token has fired, dropping its own  *)
(* sender; main then waits in shutdown_wait.recv() until every sender is  *)
(* gone, and exits.                                                        *)
(*                                                                         *)
(* Each connection's task is the abstract task of SessionAbs, which       *)
(* Session implements (SessionImplementsAbs).                              *)
(***************************************************************************)
EXTENDS FiniteSets

CONSTANT Conns   \* the connections clients open

VARIABLES
    accept,     \* "init" (main starting up), then where accept_loop is:
                \* "start", "loop" or "returned"
    exitCode,   \* main's exit code: "none" yet, "config" (2), "bind" (111),
                \* or what accept_loop returned: "success" (0), "failure" (1)
    spawned,    \* the connections accepted, whose tasks were spawned
    finished,   \* the connections whose tasks have returned
    cancelled,  \* the cancellation token has fired
    exited      \* main has returned its exit code

procVars == <<accept, exitCode, spawned, finished, cancelled, exited>>

ProcTypeOK ==
    /\ accept \in {"init", "start", "loop", "returned"}
    /\ exitCode \in {"none", "config", "bind", "success", "failure"}
    /\ spawned \in SUBSET Conns
    /\ finished \in SUBSET spawned
    /\ cancelled \in BOOLEAN
    /\ exited \in BOOLEAN

ProcInit ==
    /\ accept = "init"
    /\ exitCode = "none"
    /\ spawned = {}
    /\ finished = {}
    /\ cancelled = FALSE
    /\ exited = FALSE

\* Mutant: main hands accept_loop a clone and keeps its own sender.
SendersAliveMainClone == TRUE

\* The holders of a shutdown_hold sender: accept_loop until it returns, and
\* every task spawned and not yet returned.
SendersAlive == accept # "returned" \/ spawned \ finished # {}

(***************************************************************************)
(* main starts: a WAL directory in the arguments is rejected (exit code 2)*)
(* before the token exists; otherwise the ctrl-c task is spawned and the  *)
(* listener bound, and a failed bind returns 111.  Both return at once,   *)
(* without waiting on shutdown_wait.                                       *)
(***************************************************************************)
Startup ==
    /\ accept = "init"
    /\ ~exited
    /\ \/ /\ exitCode' \in {"config", "bind"}
          /\ exited' = TRUE
          /\ UNCHANGED accept
       \/ /\ accept' = "start"
          /\ UNCHANGED <<exitCode, exited>>
    /\ UNCHANGED <<spawned, finished, cancelled>>

(***************************************************************************)
(* accept_loop starts by logging listener.local_addr()?, which may fail:  *)
(* it then returns the error at once (exit code FAILURE).                  *)
(***************************************************************************)
AcceptStart ==
    /\ accept = "start"
    /\ \/ accept' = "loop" /\ UNCHANGED exitCode
       \/ accept' = "returned" /\ exitCode' = "failure"
    /\ UNCHANGED <<spawned, finished, cancelled, exited>>

(***************************************************************************)
(* select! between listener.accept() and cancel.cancelled(), polled in    *)
(* random order: a connection may be accepted, and its task spawned, even *)
(* after the token has fired.  A failed accept only logs and loops.        *)
(***************************************************************************)
Accept(c) ==
    /\ accept = "loop"
    /\ c \notin spawned
    /\ spawned' = spawned \cup {c}
    /\ UNCHANGED <<accept, exitCode, finished, cancelled, exited>>

\* Mutant: the cancellation branch taken without the token having fired.
AcceptCancelledEarly ==
    /\ accept = "loop"
    /\ accept' = "returned"
    /\ exitCode' = "success"
    /\ UNCHANGED <<spawned, finished, cancelled, exited>>

\* The cancellation branch: return Ok(()), dropping accept_loop's sender.
AcceptCancelled ==
    /\ accept = "loop"
    /\ cancelled
    /\ accept' = "returned"
    /\ exitCode' = "success"
    /\ UNCHANGED <<spawned, finished, cancelled, exited>>

\* Mutant: the end of a task is counted for a connection never spawned
\* (the Err arm of accept treated like a connection).
TaskEndUnspawned(c) ==
    /\ c \notin finished
    /\ finished' = finished \cup {c}
    /\ UNCHANGED <<accept, exitCode, spawned, cancelled, exited>>

\* A connection's task returns, dropping its sender clone (AbsEnd of
\* SessionAbs, for connection c).
TaskEnd(c) ==
    /\ c \in spawned \ finished
    /\ finished' = finished \cup {c}
    /\ UNCHANGED <<accept, exitCode, spawned, cancelled, exited>>

\* The ctrl-c task: signal::ctrl_c() resolves (or fails), then cancel().
Signal ==
    /\ accept # "init"
    /\ ~cancelled
    /\ cancelled' = TRUE
    /\ UNCHANGED <<accept, exitCode, spawned, finished, exited>>

(***************************************************************************)
(* main, after accept_loop has returned: shutdown_wait.recv() returns     *)
(* None once no sender is left (nothing is ever sent), and main returns.   *)
(***************************************************************************)
MainExit ==
    /\ accept = "returned"
    /\ ~SendersAlive
    /\ ~exited
    /\ exited' = TRUE
    /\ UNCHANGED <<accept, exitCode, spawned, finished, cancelled>>

ProcNext ==
    \/ Startup
    \/ AcceptStart
    \/ \E c \in Conns : Accept(c) \/ TaskEnd(c)
    \/ AcceptCancelled
    \/ Signal
    \/ MainExit

(***************************************************************************)
(* The assumption the process makes of each connection's task: once the  *)
(* token has fired, the task ends (SessionAbs's fairness).  It is not a   *)
(* property of the runtime but of do_client_loop: Session shows it for a  *)
(* client that keeps reading (SessionImplementsAbs under FairSpec), and    *)
(* session_shutdown_unfair shows it fails for one that stops reading while *)
(* a BAD_FORMAT send (main.rs:154) waits on a full socket buffer.          *)
(***************************************************************************)
TasksEndOnCancel == \A c \in Conns : WF_procVars(cancelled /\ TaskEnd(c))

(***************************************************************************)
(* The runtime runs every task that can run (weak fairness for main and   *)
(* for accept_loop's start); select! picks among ready branches at random, *)
(* so the cancellation branch, ready again and again, is taken (strong     *)
(* fairness).  Neither clients nor ctrl-c are obliged to come.             *)
(***************************************************************************)
ProcSpec ==
    /\ ProcInit /\ [][ProcNext]_procVars
    /\ WF_procVars(Startup)
    /\ WF_procVars(AcceptStart)
    /\ SF_procVars(AcceptCancelled)
    /\ TasksEndOnCancel
    /\ WF_procVars(MainExit)

-----------------------------------------------------------------------------
(***************************************************************************)
(* ctrl-c ends the process, provided every connection's task ends once    *)
(* cancelled (TasksEndOnCancel): accept_loop returns, even while accepts  *)
(* keep winning the select!, every task (one accepted after the signal    *)
(* too) returns and drops its sender, and main's wait ends.  A task that  *)
(* never returns (main.rs:154 with a client that stops reading) hangs the *)
(* process at main.rs:73 instead; that is session_shutdown_unfair.         *)
(***************************************************************************)
ShutdownExits == cancelled ~> exited

(***************************************************************************)
(* The server never stops on its own: main returns with an exit code, and *)
(* SUCCESS only after ctrl-c (the others report a failed start-up or a     *)
(* failed accept_loop); and never while a connection task still holds its *)
(* sender.                                                                 *)
(***************************************************************************)
ExitOnlyWhenAsked ==
    exited => /\ exitCode # "none"
              /\ exitCode = "success" => cancelled
              /\ finished = spawned

=============================================================================
