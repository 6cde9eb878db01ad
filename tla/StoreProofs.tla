---------------------------- MODULE StoreProofs ----------------------------
(***************************************************************************)
(* Proofs about Store for every set of tubes and every MaxJobs: the type  *)
(* invariant (no stats counter ever underflows) and both index            *)
(* invariants of the store_index run.                                      *)
(*                                                                         *)
(* None of them is inductive alone: the counters stay natural only because *)
(* they equal the sizes of their queues, which needs the queues finite and *)
(* the ready map's positions unique (it is a BTreeMap).  TubeInv collects *)
(* what one tube keeps; each TubeState helper gets a lemma saying it       *)
(* keeps TubeInv, and the theorem combines them with the job side.         *)
(***************************************************************************)
EXTENDS Store, FiniteSetTheorems, TLAPS

\* What tube t keeps between operations.
TubeInv(t) ==
    /\ IsFiniteSet(ready[t])
    /\ IsFiniteSet(delayed[t])
    /\ curReady[t] = Cardinality(ready[t])
    /\ curDelayed[t] = Cardinality(delayed[t])
    /\ \A e, f \in ready[t] : e[1] = f[1] => e = f
    /\ \A e \in ready[t] : e[1] < readySn[t]

\* The tube fields have their types.
TubesTypeOK ==
    /\ ready \in [Tubes -> SUBSET (Nat \X JobIds)]
    /\ readySn \in [Tubes -> Nat]
    /\ delayed \in [Tubes -> SUBSET JobIds]
    /\ curReady \in [Tubes -> Nat]
    /\ curDelayed \in [Tubes -> Nat]

\* The inductive invariant.
IInv ==
    /\ StoreTypeOK
    /\ IndexAgrees
    /\ \A t \in Tubes : TubeInv(t)

-----------------------------------------------------------------------------
\* put_ready keeps every tube well formed when its assert holds.
LEMMA PutReadyInv ==
    ASSUME TubesTypeOK, \A u \in Tubes : TubeInv(u),
           NEW t \in Tubes, NEW id \in JobIds, PutReadyOk(t), PutReady(t, id)
    PROVE  /\ TubesTypeOK'
           /\ \A u \in Tubes : TubeInv(u)'
<1> DEFINE new == <<readySn[t], id>>
<1>1. new \notin ready[t]
  BY DEF PutReadyOk
<1>2. IsFiniteSet(ready[t] \cup {new}) /\ Cardinality(ready[t] \cup {new}) = Cardinality(ready[t]) + 1
  BY <1>1, FS_AddElement DEF TubeInv
<1>3. TubesTypeOK'
  BY DEF TubesTypeOK, PutReady
<1>4. ASSUME NEW u \in Tubes PROVE TubeInv(u)'
  <2>1. CASE u = t
    BY <2>1, <1>2 DEF TubesTypeOK, TubeInv, PutReady, PutReadyOk
  <2>2. CASE u # t
    BY <2>2 DEF TubesTypeOK, TubeInv, PutReady
  <2> QED
    BY <2>1, <2>2
<1> QED
  BY <1>3, <1>4

\* put_delayed keeps every tube well formed when its assert holds.
LEMMA PutDelayedInv ==
    ASSUME TubesTypeOK, \A u \in Tubes : TubeInv(u),
           NEW t \in Tubes, NEW id \in JobIds, PutDelayedOk(t, id), PutDelayed(t, id)
    PROVE  /\ TubesTypeOK'
           /\ \A u \in Tubes : TubeInv(u)'
<1>1. IsFiniteSet(delayed[t] \cup {id}) /\ Cardinality(delayed[t] \cup {id}) = Cardinality(delayed[t]) + 1
  BY FS_AddElement DEF TubeInv, PutDelayedOk
<1>2. TubesTypeOK'
  BY DEF TubesTypeOK, PutDelayed
<1>3. ASSUME NEW u \in Tubes PROVE TubeInv(u)'
  <2>1. CASE u = t
    BY <2>1, <1>1 DEF TubesTypeOK, TubeInv, PutDelayed
  <2>2. CASE u # t
    BY <2>2 DEF TubesTypeOK, TubeInv, PutDelayed
  <2> QED
    BY <2>1, <2>2
<1> QED
  BY <1>2, <1>3

\* take_ready keeps every tube well formed, and its counter natural, when
\* its unwrap holds; it only removes entries.
LEMMA TakeReadyInv ==
    ASSUME TubesTypeOK, \A u \in Tubes : TubeInv(u),
           NEW t \in Tubes, NEW pos \in Nat, TakeReadyOk(t, pos), TakeReady(t, pos)
    PROVE  /\ TubesTypeOK'
           /\ \A u \in Tubes : TubeInv(u)'
           /\ \A u \in Tubes : ready'[u] \subseteq ready[u]
<1>1. PICK e \in ready[t] : e[1] = pos
  BY DEF TakeReadyOk
<1>2. {f \in ready[t] : f[1] # pos} = ready[t] \ {e}
  BY <1>1 DEF TubeInv
<1>3. IsFiniteSet(ready[t] \ {e}) /\ Cardinality(ready[t] \ {e}) = Cardinality(ready[t]) - 1
  BY <1>1, FS_RemoveElement DEF TubeInv
<1>4. Cardinality(ready[t] \ {e}) \in Nat
  BY <1>3, FS_CardinalityType
<1>5. ready' = [ready EXCEPT ![t] = ready[t] \ {e}]
  BY <1>2 DEF TakeReady
<1>6. TubesTypeOK'
  BY <1>3, <1>4, <1>5 DEF TubesTypeOK, TakeReady, TubeInv
<1>7. ASSUME NEW u \in Tubes PROVE TubeInv(u)' /\ ready'[u] \subseteq ready[u]
  <2>1. CASE u = t
    <3>1. ready'[t] = ready[t] \ {e} /\ curReady'[t] = curReady[t] - 1
      BY <1>5 DEF TubesTypeOK, TakeReady
    <3>2. UNCHANGED <<readySn, delayed, curDelayed>>
      BY DEF TakeReady
    <3>3. curReady'[t] = Cardinality(ready'[t])
      BY <3>1, <1>3 DEF TubeInv
    <3> QED
      BY <2>1, <3>1, <3>2, <3>3, <1>3 DEF TubeInv
  <2>2. CASE u # t
    BY <2>2, <1>5 DEF TubesTypeOK, TubeInv, TakeReady
  <2> QED
    BY <2>1, <2>2
<1> QED
  BY <1>6, <1>7

-----------------------------------------------------------------------------
\* The job the next put creates.
NewJob(t, delay) ==
    [tube |-> t, state |-> IF delay THEN "Delayed" ELSE "Ready",
     pos |-> IF delay THEN 0 ELSE readySn[t]]

\* A put that passes its assert extends the jobs by one and keeps the old.
LEMMA PutJobs ==
    ASSUME StoreTypeOK, NEW t \in Tubes, NEW delay \in BOOLEAN, Put(t, delay),
           IF delay THEN PutDelayedOk(t, nextId) ELSE PutReadyOk(t)
    PROVE  /\ nextId \in JobIds
           /\ nextId' = nextId + 1
           /\ jobs' \in [1 .. nextId -> Job]
           /\ jobs'[nextId] = NewJob(t, delay)
           /\ \A i \in 1 .. (nextId - 1) : jobs'[i] = jobs[i]
           /\ panicked' = panicked
           /\ IF delay THEN PutDelayed(t, nextId) ELSE PutReady(t, nextId)
<1>1. nextId \in JobIds
  BY DEF Put, StoreTypeOK, JobIds
<1>2. jobs' = [i \in 1 .. nextId |-> IF i = nextId THEN NewJob(t, delay) ELSE jobs[i]]
      /\ nextId' = nextId + 1 /\ panicked' = panicked
      /\ IF delay THEN PutDelayed(t, nextId) ELSE PutReady(t, nextId)
  BY DEF Put, NewJob
<1>3. NewJob(t, delay) \in Job
  BY DEF NewJob, Job, JobStates, StoreTypeOK
<1> QED
  BY <1>1, <1>2, <1>3 DEF StoreTypeOK

(***************************************************************************)
(* The store's invariant: every reachable state satisfies IInv, so no     *)
(* stats counter of a tube underflows, and the ready and delayed queues    *)
(* only hold jobs of their tube in the matching state, at positions below *)
(* ready_sn (put_ready's assert never fires).                               *)
(***************************************************************************)
THEOREM StoreInvariant == StoreSpec => []IInv
<1>1. StoreInit => IInv
  <2> SUFFICES ASSUME StoreInit PROVE IInv
    OBVIOUS
  <2>1. jobs \in [1 .. (nextId - 1) -> Job] /\ DOMAIN jobs = {}
    BY DEF StoreInit
  <2>2. StoreTypeOK
    <3>1. nextId \in 1 .. (MaxJobs + 1)
      BY StoreAssumption DEF StoreInit
    <3>2. TubesTypeOK /\ panicked \in BOOLEAN
      BY DEF StoreInit, TubesTypeOK
    <3> QED
      BY <2>1, <3>1, <3>2 DEF StoreTypeOK, TubesTypeOK
  <2>3. IndexAgrees
    BY DEF StoreInit, IndexAgrees
  <2>4. \A t \in Tubes : TubeInv(t)
    BY FS_EmptySet DEF StoreInit, TubeInv
  <2> QED
    BY <2>2, <2>3, <2>4 DEF IInv
<1>2. IInv /\ [StoreNext]_storeVars => IInv'
  <2> SUFFICES ASSUME IInv, [StoreNext]_storeVars PROVE IInv'
    OBVIOUS
  <2>0. TubesTypeOK /\ StoreTypeOK /\ IndexAgrees /\ \A u \in Tubes : TubeInv(u)
    BY DEF IInv, StoreTypeOK, TubesTypeOK
  <2>1. ASSUME NEW t \in Tubes, NEW delay \in BOOLEAN, Put(t, delay) PROVE IInv'
    <3>1. CASE ~IF delay THEN PutDelayedOk(t, nextId) ELSE PutReadyOk(t)
      <4>1. UNCHANGED <<jobs, nextId, ready, readySn, delayed, curReady, curDelayed>>
            /\ panicked' = TRUE
        BY <2>1, <3>1 DEF Put, tubeVars
      <4> QED
        BY <2>0, <4>1 DEF IInv, StoreTypeOK, IndexAgrees, TubeInv
    <3>2. CASE IF delay THEN PutDelayedOk(t, nextId) ELSE PutReadyOk(t)
      <4>1. /\ nextId \in JobIds
            /\ nextId' = nextId + 1
            /\ jobs' \in [1 .. nextId -> Job]
            /\ jobs'[nextId] = NewJob(t, delay)
            /\ \A i \in 1 .. (nextId - 1) : jobs'[i] = jobs[i]
            /\ panicked' = panicked
            /\ IF delay THEN PutDelayed(t, nextId) ELSE PutReady(t, nextId)
        BY <2>0, <2>1, <3>2, PutJobs
      <4>0. nextId \in JobIds /\ nextId' = nextId + 1
        BY <4>1
      <4>2. TubesTypeOK' /\ \A u \in Tubes : TubeInv(u)'
        BY <2>0, <3>2, <4>1, PutReadyInv, PutDelayedInv
      <4>3. StoreTypeOK'
        <5>1. nextId' \in 1 .. (MaxJobs + 1) /\ 1 .. (nextId' - 1) = 1 .. nextId
          BY <4>0, StoreAssumption DEF JobIds
        <5>2. panicked' \in BOOLEAN
          BY <2>0, <4>1 DEF StoreTypeOK
        <5> QED
          BY <4>1, <4>2, <5>1, <5>2 DEF StoreTypeOK, TubesTypeOK
      <4>4. IndexAgrees'
        <5>1. CASE delay
          <6>1. PutDelayed(t, nextId)
            BY <4>1, <5>1
          <6> QED
            BY <2>0, <4>1, <5>1, <6>1 DEF IndexAgrees, PutDelayed, NewJob, StoreTypeOK, TubesTypeOK
        <5>2. CASE ~delay
          <6>1. PutReady(t, nextId)
            BY <4>1, <5>2
          <6> QED
            BY <2>0, <4>1, <5>2, <6>1 DEF IndexAgrees, PutReady, NewJob, StoreTypeOK, TubesTypeOK
        <5> QED
          BY <5>1, <5>2
      <4> QED
        BY <4>2, <4>3, <4>4 DEF IInv
    <3> QED
      BY <3>1, <3>2
  <2>2. ASSUME NEW id \in JobIds, ReserveById(id) PROVE IInv'
    <3> DEFINE t == jobs[id].tube
               pos == jobs[id].pos
    <3>0. id \in DOMAIN jobs /\ t \in Tubes /\ pos \in Nat /\ UNCHANGED <<jobs, nextId>>
      BY <2>0, <2>2 DEF ReserveById, StoreTypeOK, Job
    <3>1. CASE TakeReadyOk(t, pos)
      <4>1. TakeReady(t, pos) /\ UNCHANGED panicked
        BY <2>2, <3>1 DEF ReserveById
      <4>2. /\ TubesTypeOK' /\ \A u \in Tubes : TubeInv(u)'
            /\ \A u \in Tubes : ready'[u] \subseteq ready[u]
        BY <2>0, <3>0, <3>1, <4>1, TakeReadyInv
      <4>3. UNCHANGED <<readySn, delayed>>
        BY <4>1 DEF TakeReady
      <4> QED
        BY <2>0, <3>0, <4>1, <4>2, <4>3 DEF IInv, StoreTypeOK, TubesTypeOK, IndexAgrees
    <3>2. CASE ~TakeReadyOk(t, pos)
      <4>1. UNCHANGED <<ready, readySn, delayed, curReady, curDelayed>> /\ panicked' = TRUE
        BY <2>2, <3>2 DEF ReserveById, tubeVars
      <4> QED
        BY <2>0, <3>0, <4>1 DEF IInv, StoreTypeOK, IndexAgrees, TubeInv
    <3> QED
      BY <3>1, <3>2
  <2>3. CASE UNCHANGED storeVars
    BY <2>0, <2>3 DEF storeVars, tubeVars, IInv, StoreTypeOK, IndexAgrees, TubeInv
  <2> QED
    BY <2>1, <2>2, <2>3 DEF StoreNext
<1> QED
  BY <1>1, <1>2, PTL DEF StoreSpec

(***************************************************************************)
(* Type correctness of the store: the tube counters current_jobs_ready   *)
(* and current_jobs_delayed are naturals in every reachable state (the    *)
(* u64 subtraction in take_ready never underflows).                        *)
(***************************************************************************)
THEOREM StoreTypeCorrect == StoreSpec => []StoreTypeOK
BY StoreInvariant, PTL DEF IInv

(***************************************************************************)
(* Every ready entry names a Ready job of its tube at that position below *)
(* ready_sn, and every delayed id a Delayed job of its tube, whatever      *)
(* sequence of puts and reserve_by_id calls is made.                       *)
(***************************************************************************)
THEOREM IndexAgreesHolds == StoreSpec => []IndexAgrees
BY StoreInvariant, PTL DEF IInv

(***************************************************************************)
(* The stats counters that put_ready, put_delayed and take_ready adjust   *)
(* by hand always equal the sizes of the queues they describe.             *)
(***************************************************************************)
THEOREM StatsMatchIndexHolds == StoreSpec => []StatsMatchIndex
<1>1. IInv => StatsMatchIndex
  BY DEF IInv, TubeInv, StatsMatchIndex
<1> QED
  BY <1>1, StoreInvariant, PTL

=============================================================================
