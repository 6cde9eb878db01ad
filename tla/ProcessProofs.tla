---------------------------- MODULE ProcessProofs ----------------------------
(***************************************************************************)
(* Proofs about the server process (Process), for every set of            *)
(* connections: main returns SUCCESS only after ctrl-c, and never while    *)
(* a connection task still holds its shutdown_hold sender.                 *)
(***************************************************************************)
EXTENDS Process, TLAPS

(***************************************************************************)
(* The inductive invariant.  ExitOnlyWhenAsked alone is not inductive: it  *)
(* also needs to know where main is for each exit code (none while        *)
(* accept_loop runs, SUCCESS or FAILURE once it has returned, 2 or 111    *)
(* only from start-up, before any connection), that SUCCESS is only       *)
(* returned once the token has fired, and that main exits only with no    *)
(* task left, so that no accept or task end can follow the exit.          *)
(***************************************************************************)
PInv ==
    /\ ProcTypeOK
    /\ accept \in {"start", "loop"} => exitCode = "none" /\ ~exited
    /\ accept = "returned" => exitCode \in {"success", "failure"}
    /\ accept = "init" => /\ exitCode \in {"none", "config", "bind"}
                          /\ exited <=> exitCode # "none"
                          /\ spawned = {}
    /\ exitCode = "success" => cancelled
    /\ exited => finished = spawned

LEMMA ProcInitInv == ProcInit => PInv
BY DEF ProcInit, PInv, ProcTypeOK

\* Each step of main, accept_loop, the tasks or the ctrl-c task keeps PInv.
LEMMA ProcStepInv == PInv /\ [ProcNext]_procVars => PInv'
<1> SUFFICES ASSUME PInv, [ProcNext]_procVars PROVE PInv'
    OBVIOUS
<1>0. CASE Startup
    BY <1>0 DEF Startup, PInv, ProcTypeOK
<1>1. CASE AcceptStart
    BY <1>1 DEF AcceptStart, PInv, ProcTypeOK
<1>2. ASSUME NEW c \in Conns, Accept(c) PROVE PInv'
    <2>1. ~exited
        BY <1>2 DEF Accept, PInv
    <2> QED BY <1>2, <2>1 DEF Accept, PInv, ProcTypeOK
<1>3. ASSUME NEW c \in Conns, TaskEnd(c) PROVE PInv'
    <2>1. ~exited
        BY <1>3 DEF TaskEnd, PInv, ProcTypeOK
    <2> QED BY <1>3, <2>1 DEF TaskEnd, PInv, ProcTypeOK
<1>4. CASE AcceptCancelled
    BY <1>4 DEF AcceptCancelled, PInv, ProcTypeOK
<1>5. CASE Signal
    BY <1>5 DEF Signal, PInv, ProcTypeOK
<1>6. CASE MainExit
    <2>1. finished = spawned
        BY <1>6 DEF MainExit, SendersAlive, PInv, ProcTypeOK
    <2> QED BY <1>6, <2>1 DEF MainExit, PInv, ProcTypeOK
<1>7. CASE UNCHANGED procVars
    BY <1>7 DEF procVars, PInv, ProcTypeOK
<1> QED BY <1>0, <1>1, <1>2, <1>3, <1>4, <1>5, <1>6, <1>7 DEF ProcNext

(***************************************************************************)
(* ExitOnlyWhenAsked, checked by process_shutdown, for every set of        *)
(* connections: main returns only with an exit code, SUCCESS only after   *)
(* ctrl-c, and only once every spawned task has returned.                  *)
(***************************************************************************)
THEOREM ExitOnlyWhenAskedHolds == ProcSpec => []ExitOnlyWhenAsked
<1>1. PInv => ExitOnlyWhenAsked
    BY DEF PInv, ExitOnlyWhenAsked, ProcTypeOK
<1> QED BY <1>1, ProcInitInv, ProcStepInv, PTL DEF ProcSpec

\* The process's variables keep their types (ProcTypeOK), and no task ends
\* that was never spawned.
THEOREM ProcTypeCorrect == ProcSpec => []ProcTypeOK
<1>1. PInv => ProcTypeOK
    BY DEF PInv
<1> QED BY <1>1, ProcInitInv, ProcStepInv, PTL DEF ProcSpec


-----------------------------------------------------------------------------
(***************************************************************************)
(* Composition with SessionAbs.  Process treats the task of connection c  *)
(* as SessionAbs's abstract task: it has ended once c is in finished, and *)
(* the token is the process's.  Each step of the process is then a step   *)
(* of that task or leaves it alone: only TaskEnd(c) ends it, once, and    *)
(* only the ctrl-c task fires the token, once.                            *)
(***************************************************************************)
Task(c) == INSTANCE SessionAbs WITH ended <- (c \in finished)

\* Each step of the process is, for connection c, a step of its abstract
\* task or a stutter of it.
LEMMA ProcStepTask ==
    ASSUME NEW c \in Conns, [ProcNext]_procVars
    PROVE  [Task(c)!AbsNext]_(Task(c)!absVars)
<1>1. CASE TaskEnd(c)
    <2>1. c \notin finished /\ c \in finished' /\ cancelled' = cancelled
        BY <1>1 DEF TaskEnd
    <2> QED BY <2>1 DEF Task!AbsNext, Task!AbsEnd
<1>2. CASE Signal
    <2>1. ~cancelled /\ cancelled' = TRUE /\ finished' = finished
        BY <1>2 DEF Signal
    <2> QED BY <2>1 DEF Task!AbsNext, Task!AbsCancel
<1>3. ASSUME NEW d \in Conns, d # c, TaskEnd(d)
      PROVE  [Task(c)!AbsNext]_(Task(c)!absVars)
    <2>1. (c \in finished') = (c \in finished) /\ cancelled' = cancelled
        BY <1>3 DEF TaskEnd
    <2> QED BY <2>1 DEF Task!absVars
<1>4. CASE Startup \/ AcceptStart \/ (\E d \in Conns : Accept(d))
           \/ AcceptCancelled \/ MainExit \/ UNCHANGED procVars
    <2>1. finished' = finished /\ cancelled' = cancelled
        BY <1>4 DEF Startup, AcceptStart, Accept, AcceptCancelled, MainExit, procVars
    <2> QED BY <2>1 DEF Task!absVars
<1> QED BY <1>1, <1>2, <1>3, <1>4 DEF ProcNext

(***************************************************************************)
(* For every set of connections and each connection c, the process        *)
(* implements the safety part of SessionAbs for c's task: it starts not   *)
(* ended and not cancelled, a task ends at most once and never runs again, *)
(* and the token fires only by ctrl-c and is never reset.  SessionAbs's   *)
(* fairness is what ProcSpec assumes of a spawned task                     *)
(* (WF(cancelled /\ TaskEnd(c))); a connection never accepted has no task *)
(* to end, so that part is not a consequence of ProcSpec, and Session's    *)
(* side of it is model-checked (SessionImplementsAbs).                     *)
(***************************************************************************)
THEOREM TasksRefineAbsSafety ==
    \A c \in Conns : ProcSpec => Task(c)!AbsInit /\ [][Task(c)!AbsNext]_(Task(c)!absVars)
<1> SUFFICES ASSUME NEW c \in Conns
             PROVE  ProcSpec => Task(c)!AbsInit /\ [][Task(c)!AbsNext]_(Task(c)!absVars)
    OBVIOUS
<1>1. ProcInit => Task(c)!AbsInit
    BY DEF ProcInit, Task!AbsInit
<1>2. [ProcNext]_procVars => [Task(c)!AbsNext]_(Task(c)!absVars)
    BY ProcStepTask
<1> QED BY <1>1, <1>2, PTL DEF ProcSpec

=============================================================================
