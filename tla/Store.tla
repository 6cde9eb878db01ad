------------------------------- MODULE Store -------------------------------
(***************************************************************************)
(* The job store and the tubes' ready and delayed queues (src/types/tube.rs *)
(* Server and TubeState, src/types/states.rs JobState).                    *)
(*                                                                         *)
(* Of the Server's operations only reserve_by_id has a body; release,      *)
(* reserve_by_queue, bury, kick, touch and handle_delayed_jobs are         *)
(* todo!().  Nothing in the repository creates a job, so job creation is   *)
(* taken from spec section 4.2 (create: next id, into the tube's ready or   *)
(* delayed queue), built from TubeState's put_ready and put_delayed.        *)
(*                                                                         *)
(* A tube's fields are functions of the tube name: `ready` is the        *)
(* BTreeMap ReadyPos -> JobId as a set of <<pos, id>> pairs, `readySn`    *)
(* the next ReadyPos, `delayed` the ids of the BTreeSet (Instant, JobId)  *)
(* (instants are left out: nothing here reads them), and curReady,        *)
(* curDelayed the stats counters the helpers maintain.  An assert or      *)
(* unwrap that fails is a panic: the store is gone.                        *)
(***************************************************************************)
EXTENDS Naturals, FiniteSets

CONSTANTS
    Tubes,    \* tube names
    MaxJobs   \* how many jobs the model creates

ASSUME StoreAssumption == Tubes # {} /\ MaxJobs \in Nat

VARIABLES
    jobs,        \* Server.jobs: id -> [tube, state, pos] for every live job
    nextId,      \* the id the next created job gets
    ready,       \* TubeState.ready, per tube
    readySn,     \* TubeState.ready_sn, per tube
    delayed,     \* TubeState.delayed, per tube
    curReady,    \* TubeState.stats.current_jobs_ready, per tube
    curDelayed,  \* TubeState.stats.current_jobs_delayed, per tube
    panicked     \* an assert or unwrap has failed

tubeVars == <<ready, readySn, delayed, curReady, curDelayed>>
storeVars == <<jobs, nextId, tubeVars, panicked>>

JobIds == 1 .. MaxJobs
JobStates == {"Ready", "Delayed", "Reserved", "Buried"}
Job == [tube : Tubes, state : JobStates, pos : Nat]

StoreTypeOK ==
    /\ nextId \in 1 .. (MaxJobs + 1)
    /\ jobs \in [1 .. (nextId - 1) -> Job]
    /\ ready \in [Tubes -> SUBSET (Nat \X JobIds)]
    /\ readySn \in [Tubes -> Nat]
    /\ delayed \in [Tubes -> SUBSET JobIds]
    /\ curReady \in [Tubes -> Nat]
    /\ curDelayed \in [Tubes -> Nat]
    /\ panicked \in BOOLEAN

StoreInit ==
    /\ jobs = <<>>
    /\ nextId = 1
    /\ ready = [t \in Tubes |-> {}]
    /\ readySn = [t \in Tubes |-> 0]
    /\ delayed = [t \in Tubes |-> {}]
    /\ curReady = [t \in Tubes |-> 0]
    /\ curDelayed = [t \in Tubes |-> 0]
    /\ panicked = FALSE

(***************************************************************************)
(* TubeState's helpers, on tube t.  ...Ok is the assert or unwrap that the *)
(* helper makes; the helper is applied only when it holds.                 *)
(***************************************************************************)
\* put_ready: insert at position ready_sn, which is then incremented.
PutReadyOk(t) == \A e \in ready[t] : e[1] # readySn[t]

\* Mutant: the position is taken after the increment.
PutReadyPreIncrement(t, id) ==
    /\ ready' = [ready EXCEPT ![t] = @ \cup {<<readySn[t] + 1, id>>}]
    /\ readySn' = [readySn EXCEPT ![t] = @ + 1]
    /\ curReady' = [curReady EXCEPT ![t] = @ + 1]
    /\ UNCHANGED <<delayed, curDelayed>>

PutReady(t, id) ==
    /\ ready' = [ready EXCEPT ![t] = @ \cup {<<readySn[t], id>>}]
    /\ readySn' = [readySn EXCEPT ![t] = @ + 1]
    /\ curReady' = [curReady EXCEPT ![t] = @ + 1]
    /\ UNCHANGED <<delayed, curDelayed>>

\* put_delayed: insert (until, id) into the delayed set.
PutDelayedOk(t, id) == id \notin delayed[t]
PutDelayed(t, id) ==
    /\ delayed' = [delayed EXCEPT ![t] = @ \cup {id}]
    /\ curDelayed' = [curDelayed EXCEPT ![t] = @ + 1]
    /\ UNCHANGED <<ready, readySn, curReady>>

\* Mutant: `let _ = ready.remove(&pos)` instead of unwrap.
TakeReadyUnchecked(t, pos) == TRUE

\* take_ready: remove the entry at pos, which must be there.
TakeReadyOk(t, pos) == \E e \in ready[t] : e[1] = pos

\* Mutant: the entry is removed but current_jobs_ready is not decremented.
TakeReadyKeepsCount(t, pos) ==
    /\ ready' = [ready EXCEPT ![t] = {e \in @ : e[1] # pos}]
    /\ UNCHANGED <<readySn, delayed, curReady, curDelayed>>

TakeReady(t, pos) ==
    /\ ready' = [ready EXCEPT ![t] = {e \in @ : e[1] # pos}]
    /\ curReady' = [curReady EXCEPT ![t] = @ - 1]
    /\ UNCHANGED <<readySn, delayed, curDelayed>>

(***************************************************************************)
(* Job creation (spec 4.2, not in the code): the next id goes into the     *)
(* tube's ready queue, or into its delayed set when the put has a delay.   *)
(***************************************************************************)
Put(t, delay) ==
    /\ ~panicked
    /\ nextId <= MaxJobs
    /\ LET job == [tube |-> t, state |-> IF delay THEN "Delayed" ELSE "Ready",
                   pos |-> IF delay THEN 0 ELSE readySn[t]]
       IN  IF IF delay THEN PutDelayedOk(t, nextId) ELSE PutReadyOk(t)
           THEN /\ IF delay THEN PutDelayed(t, nextId) ELSE PutReady(t, nextId)
                /\ jobs' = [i \in 1 .. nextId |-> IF i = nextId THEN job ELSE jobs[i]]
                /\ nextId' = nextId + 1
                /\ UNCHANGED panicked
           ELSE /\ panicked' = TRUE
                /\ UNCHANGED <<jobs, nextId, tubeVars>>

(***************************************************************************)
(* Server::reserve_by_id: an unknown id, or a job not in Ready, gives None *)
(* and changes nothing.  Otherwise the job's ready entry is taken out of   *)
(* its tube; the job itself is left as it is.                              *)
(***************************************************************************)
ReserveById(id) ==
    /\ ~panicked
    /\ id \in DOMAIN jobs
    /\ jobs[id].state = "Ready"
    /\ IF TakeReadyOk(jobs[id].tube, jobs[id].pos)
       THEN /\ TakeReady(jobs[id].tube, jobs[id].pos)
            /\ UNCHANGED panicked
       ELSE /\ panicked' = TRUE
            /\ UNCHANGED tubeVars
    /\ UNCHANGED <<jobs, nextId>>

StoreNext ==
    \/ \E t \in Tubes, delay \in BOOLEAN : Put(t, delay)
    \/ \E id \in JobIds : ReserveById(id)

StoreSpec == StoreInit /\ [][StoreNext]_storeVars

-----------------------------------------------------------------------------
(***************************************************************************)
(* Index agreement, from the queues to the jobs (spec 3, first half of    *)
(* invariant 8.1): every entry of a tube's ready map names a live job of  *)
(* that tube in state Ready at that position, and lies below ready_sn, so *)
(* put_ready's assert never fires; every id in the delayed set is a       *)
(* delayed job of that tube.  put_ready, put_delayed, take_ready and      *)
(* reserve_by_id must all keep it.                                         *)
(***************************************************************************)
IndexAgrees ==
    \A t \in Tubes :
        /\ \A e \in ready[t] :
               /\ e[2] \in DOMAIN jobs
               /\ jobs[e[2]].tube = t
               /\ jobs[e[2]].state = "Ready"
               /\ jobs[e[2]].pos = e[1]
               /\ e[1] < readySn[t]
        /\ \A id \in delayed[t] :
               /\ id \in DOMAIN jobs
               /\ jobs[id].tube = t
               /\ jobs[id].state = "Delayed"

(***************************************************************************)
(* The stats a tube reports (current-jobs-ready, current-jobs-delayed)    *)
(* count its queues: the u64 counters the helpers adjust by hand never    *)
(* drift from, or underflow below, the maps they describe.                 *)
(***************************************************************************)
StatsMatchIndex ==
    \A t \in Tubes :
        /\ curReady[t] = Cardinality(ready[t])
        /\ curDelayed[t] = Cardinality(delayed[t])

(***************************************************************************)
(* Index agreement, from the jobs to the queues (spec 3 and invariant     *)
(* 8.1): a job whose state is Ready{pos} is in its tube's ready map at    *)
(* pos.  reserve_by_id takes the entry out but leaves the job Ready, and  *)
(* a second reserve_by_id of it then panics in take_ready.                 *)
(***************************************************************************)
JobIndexAgrees ==
    \A id \in DOMAIN jobs :
        jobs[id].state = "Ready" => <<jobs[id].pos, id>> \in ready[jobs[id].tube]

=============================================================================
