------------------------- MODULE ChangeMemoryProofs -------------------------
(***************************************************************************)
(* Theorems about ChangeMemory, for any set of memories, any number of     *)
(* ticks and any number of attempts.                                       *)
(*                                                                         *)
(* RunInv is inductive whatever overlaps; SerialInv adds what holds if the *)
(* queue delivers one task at a time.                                      *)
(***************************************************************************)
EXTENDS ChangeMemory, TLAPS

-----------------------------------------------------------------------------
(* The inductive invariants.                                               *)

\* The queue hands out attempts in order and never more than MaxAttempts.
AttemptsInOrder ==
  /\ \A t \in Ticks :
       /\ task[t] \in {"none", "resolving", "enqueuing"} => attempts[t] = 0
       /\ task[t] = "queued" => attempts[t] < MaxAttempts
  /\ \A t \in Ticks, k \in 1 .. MaxAttempts :
       attempts[t] < k => pc[<<t, k>>] = "idle"

\* A run's batch is in the store exactly from its commit on.
BatchesCommitted ==
  /\ \A r \in applied : pc[r] \in {"notify", "ended"}
  /\ \A r \in Runs : pc[r] = "notify" => r \in applied
  /\ pushes \subseteq applied

\* What a run has read may be stale, but was true once: statuses only move
\* on from future to current to past, or back from past to current.
ReadsWereTrue ==
  \A r \in Runs :
    /\ pc[r] \in {"readFuture", "commit"} =>
         /\ cur[r] \subseteq Of("current") \cup Of("past")
         /\ clean[r] => cur[r] = Of("current")
    /\ pc[r] = "commit" => pick[r] = NoMemory \/ status[pick[r]] # "absent"

RunInv ==
  /\ TypeOK
  /\ AttemptsInOrder
  /\ BatchesCommitted
  /\ ReadsWereTrue
  /\ RetiredWhenDrawn

\* One delivery at a time ...
OneLiveRun == \A q, r \in Runs : Live(q) /\ Live(r) => q = r

\* ... so that what the live run has read is still true when it commits.
ReadsAreTrue ==
  \A r \in Runs :
    /\ pc[r] \in {"readFuture", "commit"} => cur[r] = Of("current")
    /\ pc[r] = "commit" => pick[r] \in Of("future") \cup {NoMemory}

SerialInv ==
  /\ OneLiveRun
  /\ ReadsAreTrue
  /\ AtMostOneCurrent
  /\ NeverRepeats

-----------------------------------------------------------------------------
(* Type correctness, which rests on the order of the attempts.             *)

LEMMA TypeInit == Init => TypeOK /\ AttemptsInOrder
<1> SUFFICES ASSUME Init PROVE TypeOK /\ AttemptsInOrder
  OBVIOUS
<1>1. TypeOK
  BY AttemptAssumption DEF Init, TypeOK, Statuses, TaskStates, LiveStates, Runs
<1>2. AttemptsInOrder
  BY AttemptAssumption DEF Init, AttemptsInOrder, Runs
<1> QED BY <1>1, <1>2

\* What every delivery of a task leaves to be checked: where its task goes.
LEMMA SettleKeepsOrder ==
  ASSUME TypeOK, AttemptsInOrder, NEW r \in Runs, Live(r),
         NEW outcome \in {"done", AfterFailure(r[1])},
         Settle(r, outcome), pc' = [pc EXCEPT ![r] = "ended"]
  PROVE  /\ task' \in [Ticks -> TaskStates]
         /\ attempts' \in [Ticks -> 0 .. MaxAttempts]
         /\ pc' \in [Runs -> LiveStates \cup {"idle", "ended"}]
         /\ AttemptsInOrder'
<1>1. r[1] \in Ticks /\ r[2] \in 1 .. MaxAttempts /\ r = <<r[1], r[2]>>
  BY DEF Runs
<1>2. pc[r] # "idle"
  BY DEF Live, LiveStates
<1>3. ~(attempts[r[1]] < r[2])
  BY <1>1, <1>2 DEF AttemptsInOrder
<1>4. outcome = "queued" => attempts[r[1]] < MaxAttempts
  BY <1>1 DEF AfterFailure
<1>5. outcome \in {"done", "queued", "lost"}
  BY DEF AfterFailure
<1>6. task' \in [Ticks -> TaskStates]
  BY <1>1, <1>5 DEF Settle, TypeOK, TaskStates
<1>7. attempts' \in [Ticks -> 0 .. MaxAttempts]
  BY DEF Settle, TypeOK
<1>8. pc' \in [Runs -> LiveStates \cup {"idle", "ended"}]
  BY DEF TypeOK
<1>9. AttemptsInOrder'
  <2>1. ASSUME NEW t \in Ticks
        PROVE  /\ task'[t] \in {"none", "resolving", "enqueuing"} => attempts'[t] = 0
               /\ task'[t] = "queued" => attempts'[t] < MaxAttempts
    BY <1>1, <1>4, <1>5 DEF Settle, AttemptsInOrder, TypeOK
  <2>2. ASSUME NEW t \in Ticks, NEW k \in 1 .. MaxAttempts, attempts'[t] < k
        PROVE  pc'[<<t, k>>] = "idle"
    <3>1. <<t, k>> \in Runs
      BY DEF Runs
    <3>2. attempts[t] < k
      BY <2>2 DEF Settle
    <3>3. <<t, k>> # r
      BY <1>1, <1>3, <3>2
    <3> QED BY <3>1, <3>2, <3>3 DEF AttemptsInOrder, TypeOK
  <2> QED BY <2>1, <2>2 DEF AttemptsInOrder
<1> QED BY <1>6, <1>7, <1>8, <1>9

LEMMA TypeStep == TypeOK /\ AttemptsInOrder /\ [Next]_vars => TypeOK' /\ AttemptsInOrder'
<1> SUFFICES ASSUME TypeOK, AttemptsInOrder, [Next]_vars
             PROVE  TypeOK' /\ AttemptsInOrder'
  OBVIOUS
<1>1. ASSUME NEW m \in Memories, Upload(m)
      PROVE  TypeOK' /\ AttemptsInOrder'
  <2>1. TypeOK'
    BY <1>1 DEF Upload, queueVars, TypeOK, Statuses
  <2>2. AttemptsInOrder'
    BY <1>1 DEF Upload, queueVars, AttemptsInOrder
  <2> QED BY <2>1, <2>2
<1>2. ASSUME NEW t \in Ticks,
             \/ Schedule(t)
             \/ DeadlinePasses(t)
      PROVE  TypeOK' /\ AttemptsInOrder'
  <2>1. PICK to \in TaskStates :
          /\ task' = [task EXCEPT ![t] = to]
          /\ to \in {"none", "resolving", "enqueuing"} => attempts[t] = 0
          /\ to = "queued" => attempts[t] < MaxAttempts
          /\ UNCHANGED <<status, attempts, pc, cur, pick, clean, applied, pushes>>
    <3>1. CASE Schedule(t)
      BY <3>1, AttemptAssumption
      DEF Schedule, TickFires, GetFunctionUrlThrows, Enqueue, EnqueueLands,
          EnqueueLost, MoveTask, AttemptsInOrder, TaskStates
    <3>2. CASE DeadlinePasses(t)
      BY <3>2 DEF DeadlinePasses, AfterFailure, TaskStates
    <3> QED BY <1>2, <3>1, <3>2
  <2>2. TypeOK'
    BY <2>1 DEF TypeOK
  <2>3. AttemptsInOrder'
    BY <2>1 DEF AttemptsInOrder, TypeOK
  <2> QED BY <2>2, <2>3
<1>3. ASSUME NEW t \in Ticks, Dispatch(t)
      PROVE  TypeOK' /\ AttemptsInOrder'
  <2>1. attempts[t] \in Nat /\ attempts[t] + 1 \in 1 .. MaxAttempts
    BY <1>3, AttemptAssumption DEF Dispatch, AttemptsInOrder, TypeOK
  <2>2. TypeOK'
    BY <1>3, <2>1 DEF Dispatch, TypeOK, TaskStates, LiveStates, Runs
  <2>3. ASSUME NEW u \in Ticks
        PROVE  /\ task'[u] \in {"none", "resolving", "enqueuing"} => attempts'[u] = 0
               /\ task'[u] = "queued" => attempts'[u] < MaxAttempts
    BY <1>3 DEF Dispatch, AttemptsInOrder, TypeOK
  <2>4. ASSUME NEW u \in Ticks, NEW k \in 1 .. MaxAttempts, attempts'[u] < k
        PROVE  pc'[<<u, k>>] = "idle"
    <3>1. attempts[u] < k /\ <<u, k>> # <<t, attempts[t] + 1>>
      BY <1>3, <2>1, <2>4 DEF Dispatch, TypeOK
    <3>2. <<u, k>> \in Runs
      BY DEF Runs
    <3> QED BY <1>3, <3>1, <3>2 DEF Dispatch, AttemptsInOrder, TypeOK
  <2> QED BY <2>2, <2>3, <2>4 DEF AttemptsInOrder
<1>4. ASSUME NEW r \in Runs, ReadCurrent(r) \/ ReadFuture(r) \/ Commit(r)
      PROVE  TypeOK' /\ AttemptsInOrder'
  <2>1. PICK to \in LiveStates : pc' = [pc EXCEPT ![r] = to]
    BY <1>4 DEF ReadCurrent, ReadFuture, Commit, LiveStates
  <2>2. UNCHANGED queueVars /\ pc[r] # "idle"
    BY <1>4 DEF ReadCurrent, ReadFuture, Commit
  <2>3. TypeOK'
    <3>1. pc' \in [Runs -> LiveStates \cup {"idle", "ended"}]
      BY <2>1 DEF TypeOK
    <3>2. CASE ReadCurrent(r)
      BY <2>2, <3>1, <3>2 DEF ReadCurrent, Of, TypeOK, queueVars
    <3>3. CASE ReadFuture(r)
      BY <2>2, <3>1, <3>3 DEF ReadFuture, Choices, Of, TypeOK, queueVars
    <3>4. CASE Commit(r)
      BY <2>2, <3>1, <3>4 DEF Commit, WriteBatch, TypeOK, Statuses, queueVars
    <3> QED BY <1>4, <3>2, <3>3, <3>4
  <2>4. AttemptsInOrder'
    BY <2>1, <2>2 DEF AttemptsInOrder, TypeOK, Runs, queueVars
  <2> QED BY <2>3, <2>4
<1>5. ASSUME NEW r \in Runs,
             \/ CommitAckLost(r)
             \/ StoreCallFails(r)
             \/ PushAccepted(r)
             \/ PushRefused(r)
             \/ PushThrows(r)
             \/ Killed(r)
      PROVE  TypeOK' /\ AttemptsInOrder'
  <2>1. PICK outcome \in {"done", AfterFailure(r[1])} :
          Settle(r, outcome) /\ pc' = [pc EXCEPT ![r] = "ended"]
    BY <1>5
    DEF CommitAckLost, StoreCallFails, PushAccepted, PushRefused, PushThrows,
        Killed, Resolves, Rejects
  <2>2. Live(r)
    BY <1>5
    DEF CommitAckLost, StoreCallFails, PushAccepted, PushRefused, PushThrows,
        Killed, Live, LiveStates
  <2>3. /\ task' \in [Ticks -> TaskStates]
        /\ attempts' \in [Ticks -> 0 .. MaxAttempts]
        /\ pc' \in [Runs -> LiveStates \cup {"idle", "ended"}]
        /\ AttemptsInOrder'
    BY <2>1, <2>2, SettleKeepsOrder
  <2>4. /\ status' \in [Memories -> Statuses]
        /\ cur' \in [Runs -> SUBSET Memories]
        /\ pick' \in [Runs -> Memories \cup {NoMemory}]
        /\ clean' \in [Runs -> BOOLEAN]
        /\ applied' \in SUBSET Runs
        /\ pushes' \in SUBSET Runs
    <3>1. CASE CommitAckLost(r)
      BY <3>1 DEF CommitAckLost, WriteBatch, TypeOK, Statuses
    <3>2. CASE StoreCallFails(r) \/ PushRefused(r) \/ Killed(r)
      BY <3>2 DEF StoreCallFails, PushRefused, Killed, TypeOK
    <3>3. CASE PushAccepted(r) \/ PushThrows(r)
      BY <3>3 DEF PushAccepted, PushThrows, TypeOK
    <3> QED BY <1>5, <3>1, <3>2, <3>3
  <2> QED BY <2>3, <2>4 DEF TypeOK
<1>6. CASE UNCHANGED vars
  <2>1. TypeOK'
    BY <1>6 DEF vars, TypeOK
  <2>2. AttemptsInOrder'
    BY <1>6 DEF vars, AttemptsInOrder
  <2> QED BY <2>1, <2>2
<1> QED BY <1>1, <1>2, <1>3, <1>4, <1>5, <1>6 DEF Next, Handler

\* Every state of every behaviour has the types the model declares, and no
\* task is delivered more than MaxAttempts times.
THEOREM TypeCorrect == Spec => []TypeOK
<1>1. Spec => [](TypeOK /\ AttemptsInOrder)
  BY TypeInit, TypeStep, PTL DEF Spec
<1> QED BY <1>1, PTL

-----------------------------------------------------------------------------
(* What holds whatever overlaps.                                           *)

LEMMA BatchesCommittedStep ==
  TypeOK /\ AttemptsInOrder /\ BatchesCommitted /\ [Next]_vars => BatchesCommitted'
<1> SUFFICES ASSUME TypeOK, AttemptsInOrder, BatchesCommitted, [Next]_vars
             PROVE  BatchesCommitted'
  OBVIOUS
<1>1. CASE UNCHANGED <<pc, applied, pushes>>
  BY <1>1 DEF BatchesCommitted
<1>2. ASSUME NEW t \in Ticks, Dispatch(t)
      PROVE  BatchesCommitted'
  <2>1. PICK r \in Runs : r = <<t, attempts[t] + 1>> /\ pc[r] = "idle"
    BY <1>2, AttemptAssumption DEF Dispatch, AttemptsInOrder, TypeOK, Runs
  <2>2. r \notin applied
    BY <2>1 DEF BatchesCommitted
  <2> QED BY <1>2, <2>1, <2>2 DEF Dispatch, BatchesCommitted, TypeOK
<1>3. ASSUME NEW r \in Runs, ReadCurrent(r) \/ ReadFuture(r)
      PROVE  BatchesCommitted'
  <2>1. r \notin applied
    BY <1>3 DEF ReadCurrent, ReadFuture, BatchesCommitted
  <2> QED BY <1>3, <2>1 DEF ReadCurrent, ReadFuture, BatchesCommitted, TypeOK
<1>4. ASSUME NEW r \in Runs, Commit(r)
      PROVE  BatchesCommitted'
  BY <1>4 DEF Commit, WriteBatch, BatchesCommitted, TypeOK
<1>5. ASSUME NEW r \in Runs, CommitAckLost(r)
      PROVE  BatchesCommitted'
  BY <1>5 DEF CommitAckLost, WriteBatch, Resolves, BatchesCommitted, TypeOK
<1>6. ASSUME NEW r \in Runs, StoreCallFails(r) \/ PushRefused(r) \/ Killed(r)
      PROVE  BatchesCommitted'
  BY <1>6
  DEF StoreCallFails, PushRefused, Killed, Resolves, Rejects, BatchesCommitted, TypeOK
<1>7. ASSUME NEW r \in Runs, PushAccepted(r) \/ PushThrows(r)
      PROVE  BatchesCommitted'
  <2>1. r \in applied
    BY <1>7 DEF PushAccepted, PushThrows, BatchesCommitted
  <2> QED BY <1>7, <2>1
      DEF PushAccepted, PushThrows, Resolves, Rejects, BatchesCommitted, TypeOK
<1> QED
  BY <1>1, <1>2, <1>3, <1>4, <1>5, <1>6, <1>7
  DEF Next, Handler, Schedule, TickFires, GetFunctionUrlThrows, Enqueue,
      EnqueueLands, EnqueueLost, MoveTask, DeadlinePasses, Upload, vars

LEMMA ReadsWereTrueStep ==
  TypeOK /\ ReadsWereTrue /\ [Next]_vars => ReadsWereTrue'
<1> SUFFICES ASSUME TypeOK, ReadsWereTrue, [Next]_vars
             PROVE  ReadsWereTrue'
  OBVIOUS
<1>1. CASE UNCHANGED <<status, pc, cur, pick, clean>>
  BY <1>1 DEF ReadsWereTrue, Of
<1>2. ASSUME NEW m \in Memories, Upload(m)
      PROVE  ReadsWereTrue'
  BY <1>2 DEF Upload, ReadsWereTrue, Of, TypeOK
<1>3. ASSUME NEW t \in Ticks, Dispatch(t)
      PROVE  ReadsWereTrue'
  BY <1>3 DEF Dispatch, ReadsWereTrue, Of, TypeOK
<1>4. ASSUME NEW r \in Runs, ReadCurrent(r)
      PROVE  ReadsWereTrue'
  BY <1>4 DEF ReadCurrent, ReadsWereTrue, Of, TypeOK
<1>5. ASSUME NEW r \in Runs, ReadFuture(r)
      PROVE  ReadsWereTrue'
  <2>1. PICK m \in Choices : pick' = [pick EXCEPT ![r] = m]
    BY <1>5 DEF ReadFuture
  <2>2. m = NoMemory \/ status[m] # "absent"
    BY <2>1 DEF Choices, Of
  <2> QED BY <1>5, <2>1, <2>2 DEF ReadFuture, ReadsWereTrue, Of, TypeOK
<1>6. ASSUME NEW r \in Runs, Commit(r) \/ CommitAckLost(r)
      PROVE  ReadsWereTrue'
  <2>1. /\ status' = [m \in Memories |->
                        IF m = pick[r] THEN "current"
                        ELSE IF m \in cur[r] THEN "past" ELSE status[m]]
        /\ clean' = [q \in Runs |-> FALSE]
        /\ cur' = cur /\ pick' = pick
        /\ \E to \in {"notify", "ended"} : pc' = [pc EXCEPT ![r] = to]
    BY <1>6 DEF Commit, CommitAckLost, WriteBatch, Resolves
  <2>2. \A m \in Memories : status[m] \in {"current", "past"} => status'[m] \in {"current", "past"}
    BY <2>1
  <2>3. \A m \in Memories : status[m] # "absent" => status'[m] # "absent"
    BY <2>1
  <2>4. \A q \in Runs : pc'[q] \in {"readFuture", "commit"} => pc'[q] = pc[q]
    BY <2>1 DEF TypeOK
  <2> QED BY <2>1, <2>2, <2>3, <2>4, MemoryAssumption DEF ReadsWereTrue, Of, TypeOK
<1>7. ASSUME NEW r \in Runs,
             \/ StoreCallFails(r)
             \/ PushAccepted(r)
             \/ PushRefused(r)
             \/ PushThrows(r)
             \/ Killed(r)
      PROVE  ReadsWereTrue'
  BY <1>7
  DEF StoreCallFails, PushAccepted, PushRefused, PushThrows, Killed, Resolves,
      Rejects, ReadsWereTrue, Of, TypeOK
<1> QED
  BY <1>1, <1>2, <1>3, <1>4, <1>5, <1>6, <1>7
  DEF Next, Handler, Schedule, TickFires, GetFunctionUrlThrows, Enqueue,
      EnqueueLands, EnqueueLost, MoveTask, DeadlinePasses, vars

LEMMA RetiredWhenDrawnStep ==
  TypeOK /\ BatchesCommitted /\ ReadsWereTrue /\ RetiredWhenDrawn /\ [Next]_vars
    => RetiredWhenDrawn'
<1> SUFFICES ASSUME TypeOK, BatchesCommitted, ReadsWereTrue, RetiredWhenDrawn,
                    [Next]_vars
             PROVE  RetiredWhenDrawn'
  OBVIOUS
<1>1. CASE UNCHANGED <<status, applied, pick>>
  BY <1>1 DEF RetiredWhenDrawn
<1>2. ASSUME NEW m \in Memories, Upload(m)
      PROVE  RetiredWhenDrawn'
  BY <1>2 DEF Upload, RetiredWhenDrawn, TypeOK
<1>3. ASSUME NEW r \in Runs, ReadFuture(r)
      PROVE  RetiredWhenDrawn'
  <2>1. r \notin applied
    BY <1>3 DEF ReadFuture, BatchesCommitted
  <2>2. \A q \in applied : pick'[q] = pick[q]
    BY <1>3, <2>1 DEF ReadFuture, TypeOK
  <2> QED BY <1>3, <2>2 DEF ReadFuture, RetiredWhenDrawn
<1>4. ASSUME NEW r \in Runs, Commit(r) \/ CommitAckLost(r)
      PROVE  RetiredWhenDrawn'
  <2>1. /\ WriteBatch(r)
        /\ pick' = pick
        /\ cur[r] \subseteq Of("current") \cup Of("past")
    BY <1>4 DEF Commit, CommitAckLost, ReadsWereTrue
  <2>2. ASSUME NEW m \in Memories
        PROVE  status'[m] \in {"current", "past"}
                 <=> status[m] \in {"current", "past"} \/ m = pick[r]
    BY <2>1 DEF WriteBatch, Of
  <2> QED BY <2>1, <2>2 DEF RetiredWhenDrawn, WriteBatch
<1> QED
  BY <1>1, <1>2, <1>3, <1>4
  DEF Next, Handler, Schedule, TickFires, GetFunctionUrlThrows, Enqueue,
      EnqueueLands, EnqueueLost, MoveTask, Dispatch, DeadlinePasses, ReadCurrent,
      StoreCallFails, PushAccepted, PushRefused, PushThrows, Killed, vars

LEMMA RunInvInit == Init => RunInv
<1> SUFFICES ASSUME Init PROVE RunInv
  OBVIOUS
<1>1. TypeOK /\ AttemptsInOrder
  BY TypeInit
<1>2. BatchesCommitted
  BY DEF Init, BatchesCommitted
<1>3. ReadsWereTrue
  BY DEF Init, ReadsWereTrue
<1>4. RetiredWhenDrawn
  BY DEF Init, RetiredWhenDrawn
<1> QED BY <1>1, <1>2, <1>3, <1>4 DEF RunInv

LEMMA RunInvStep == RunInv /\ [Next]_vars => RunInv'
  BY TypeStep, BatchesCommittedStep, ReadsWereTrueStep, RetiredWhenDrawnStep DEF RunInv

LEMMA RunInvHolds == Spec => []RunInv
  BY RunInvInit, RunInvStep, PTL DEF Spec

\* However deliveries overlap, are repeated or are cut off, the memories that
\* left the future are exactly the drawn ones.
THEOREM NothingLostOrInvented == Spec => []RetiredWhenDrawn
<1>1. RunInv => RetiredWhenDrawn
  BY DEF RunInv
<1> QED BY <1>1, RunInvHolds, PTL

\* However deliveries overlap, are repeated or are cut off, a push is sent
\* only by a run whose batch is in the store.
THEOREM NoEarlyPush == Spec => []PushFollowsBatch
<1>1. RunInv => PushFollowsBatch
  BY DEF RunInv, BatchesCommitted, PushFollowsBatch
<1> QED BY <1>1, RunInvHolds, PTL

\* A commit that nothing disturbed leaves exactly the drawn memory current.
THEOREM CleanCommitRepairs == Spec => UndisturbedRunRotates
<1>1. ASSUME RunInv, [Next]_vars, NEW r \in Runs,
             pc[r] = "commit", pc'[r] = "notify", clean[r]
      PROVE  Of("current")' = {pick[r]} \ {NoMemory}
  <2>1. Commit(r)
    <3>1. \A q \in Runs : pc'[q] = pc[q] \/ pc'[q] # "notify" \/ Commit(q)
      BY <1>1
      DEF RunInv, TypeOK, Next, Handler, Schedule, TickFires, GetFunctionUrlThrows,
          Enqueue, EnqueueLands, EnqueueLost, MoveTask, Dispatch, DeadlinePasses,
          Upload, ReadCurrent, ReadFuture, Commit, CommitAckLost, StoreCallFails,
          PushAccepted, PushRefused, PushThrows, Killed, Resolves, Rejects, vars
    <3> QED BY <1>1, <3>1
  <2>2. cur[r] = Of("current") /\ (pick[r] = NoMemory \/ pick[r] \in Memories)
    BY <1>1 DEF RunInv, ReadsWereTrue, TypeOK
  <2> QED BY <2>1, <2>2, MemoryAssumption DEF Commit, WriteBatch, Of
<1>2. RunInv /\ [Next]_vars
        => [\A r \in Runs :
              pc[r] = "commit" /\ pc'[r] = "notify" /\ clean[r]
                => Of("current")' = {pick[r]} \ {NoMemory}]_vars
  BY <1>1
<1> QED BY <1>2, RunInvHolds, PTL DEF Spec, UndisturbedRunRotates

-----------------------------------------------------------------------------
(* What holds if the queue delivers one task at a time.                    *)

LEMMA OneLiveRunStep ==
  ASSUME Overlap = FALSE, RunInv, OneLiveRun, [Next]_vars
  PROVE  OneLiveRun'
<1>1. ASSUME NEW t \in Ticks, Dispatch(t)
      PROVE  OneLiveRun'
  <2>1. \A q \in Runs : ~Live(q)
    BY <1>1 DEF Dispatch
  <2>2. \A q \in Runs : q # <<t, attempts[t] + 1>> => ~Live(q)'
    BY <1>1, <2>1 DEF Dispatch, Live, RunInv, TypeOK
  <2> QED BY <2>2 DEF OneLiveRun
<1>2. CASE ~ \E t \in Ticks : Dispatch(t)
  <2>1. \A q \in Runs : Live(q)' => Live(q)
    BY <1>2
    DEF RunInv, TypeOK, Live, LiveStates, Next, Handler, Schedule, TickFires,
        GetFunctionUrlThrows, Enqueue, EnqueueLands, EnqueueLost, MoveTask,
        DeadlinePasses, Upload, ReadCurrent, ReadFuture, Commit, CommitAckLost,
        StoreCallFails, PushAccepted, PushRefused, PushThrows, Killed, Resolves,
        Rejects, vars
  <2> QED BY <2>1 DEF OneLiveRun
<1> QED BY <1>1, <1>2

\* The only steps that SerialInv and the refinement care about.
LEMMA StepsOfInterest ==
  ASSUME [Next]_vars
  PROVE  \/ \E m \in Memories : Upload(m)
         \/ \E t \in Ticks : Dispatch(t)
         \/ \E r \in Runs : ReadCurrent(r)
         \/ \E r \in Runs : ReadFuture(r)
         \/ \E r \in Runs : Commit(r) \/ CommitAckLost(r)
         \/ /\ UNCHANGED <<status, cur, pick, applied>>
            /\ pc' = pc \/ \E r \in Runs : pc' = [pc EXCEPT ![r] = "ended"]
BY DEF Next, Handler, Schedule, TickFires, GetFunctionUrlThrows, Enqueue,
       EnqueueLands, EnqueueLost, MoveTask, DeadlinePasses, StoreCallFails,
       PushAccepted, PushRefused, PushThrows, Killed, Resolves, Rejects, vars

LEMMA ReadsAreTrueStep ==
  ASSUME RunInv, OneLiveRun, ReadsAreTrue, [Next]_vars
  PROVE  ReadsAreTrue'
<1> USE DEF RunInv, TypeOK, Of
<1>1. ASSUME NEW m \in Memories, Upload(m)
      PROVE  ReadsAreTrue'
  <2>1. Of("current")' = Of("current") /\ Of("future") \subseteq Of("future")'
    BY <1>1 DEF Upload
  <2> QED BY <1>1, <2>1 DEF Upload, ReadsAreTrue
<1>2. ASSUME NEW t \in Ticks, Dispatch(t)
      PROVE  ReadsAreTrue'
  BY <1>2 DEF Dispatch, ReadsAreTrue
<1>3. ASSUME NEW r \in Runs, ReadCurrent(r)
      PROVE  ReadsAreTrue'
  BY <1>3 DEF ReadCurrent, ReadsAreTrue
<1>4. ASSUME NEW r \in Runs, ReadFuture(r)
      PROVE  ReadsAreTrue'
  <2>1. pick'[r] \in Of("future") \cup {NoMemory}
    BY <1>4 DEF ReadFuture, Choices
  <2> QED BY <1>4, <2>1 DEF ReadFuture, ReadsAreTrue
<1>5. ASSUME NEW r \in Runs, Commit(r) \/ CommitAckLost(r)
      PROVE  ReadsAreTrue'
  <2>1. \A q \in Runs \ {r} : pc[q] \notin {"readFuture", "commit"}
    BY <1>5 DEF OneLiveRun, Live, LiveStates, Commit, CommitAckLost
  <2>2. \A q \in Runs : pc'[q] \notin {"readFuture", "commit"}
    BY <1>5, <2>1 DEF Commit, CommitAckLost, Resolves
  <2> QED BY <2>2 DEF ReadsAreTrue
<1>6. CASE /\ UNCHANGED <<status, cur, pick, applied>>
           /\ pc' = pc \/ \E r \in Runs : pc' = [pc EXCEPT ![r] = "ended"]
  BY <1>6 DEF ReadsAreTrue
<1> QED BY <1>1, <1>2, <1>3, <1>4, <1>5, <1>6, StepsOfInterest

\* What the commit of an undisturbed run does to the collection.
LEMMA FreshCommit ==
  ASSUME RunInv, ReadsAreTrue, NEW r \in Runs, Commit(r) \/ CommitAckLost(r)
  PROVE  /\ pick[r] \in Of("future") \cup {NoMemory}
         /\ status' = [m \in Memories |->
                         IF m = pick[r] THEN "current"
                         ELSE IF status[m] = "current" THEN "past" ELSE status[m]]
         /\ applied' = applied \cup {r} /\ pick' = pick
BY DEF Commit, CommitAckLost, WriteBatch, ReadsAreTrue, Of

LEMMA SerialInvStep ==
  ASSUME Overlap = FALSE, RunInv, SerialInv, [Next]_vars
  PROVE  SerialInv'
<1> USE DEF SerialInv
<1>1. OneLiveRun'
  BY OneLiveRunStep
<1>2. ReadsAreTrue'
  BY ReadsAreTrueStep
<1>3. AtMostOneCurrent'
  <2>1. ASSUME NEW m \in Memories, Upload(m)
        PROVE  AtMostOneCurrent'
    BY <2>1 DEF Upload, AtMostOneCurrent, RunInv, TypeOK
  <2>2. ASSUME NEW r \in Runs, Commit(r) \/ CommitAckLost(r)
        PROVE  AtMostOneCurrent'
    BY <2>2, FreshCommit DEF AtMostOneCurrent
  <2>3. CASE UNCHANGED status
    BY <2>3 DEF AtMostOneCurrent
  <2> QED BY <2>1, <2>2, <2>3, StepsOfInterest DEF Dispatch, ReadCurrent, ReadFuture
<1>4. NeverRepeats'
  <2>1. ASSUME NEW r \in Runs, Commit(r) \/ CommitAckLost(r)
        PROVE  NeverRepeats'
    <3>1. \A q \in applied : pick[q] # pick[r] \/ pick[r] = NoMemory
      BY <2>1, FreshCommit DEF RunInv, RetiredWhenDrawn, Of
    <3> QED BY <2>1, <3>1, FreshCommit DEF NeverRepeats
  <2>2. ASSUME NEW r \in Runs, ReadFuture(r)
        PROVE  NeverRepeats'
    <3>1. r \notin applied
      BY <2>2 DEF ReadFuture, RunInv, BatchesCommitted
    <3>2. applied \subseteq Runs
      BY DEF RunInv, TypeOK
    <3>3. \A q \in applied : pick'[q] = pick[q]
      BY <2>2, <3>1, <3>2 DEF ReadFuture, RunInv, TypeOK
    <3> QED BY <2>2, <3>3 DEF ReadFuture, NeverRepeats
  <2>3. CASE UNCHANGED <<applied, pick>>
    BY <2>3 DEF NeverRepeats
  <2> QED BY <2>1, <2>2, <2>3, StepsOfInterest DEF Upload, Dispatch, ReadCurrent
<1> QED BY <1>1, <1>2, <1>3, <1>4

LEMMA SerialInvHolds == Overlap = FALSE => (Spec => [](RunInv /\ SerialInv))
<1> SUFFICES ASSUME Overlap = FALSE PROVE Spec => [](RunInv /\ SerialInv)
  OBVIOUS
<1>1. Init => RunInv /\ SerialInv
  <2> SUFFICES ASSUME Init PROVE SerialInv
    BY RunInvInit
  <2> QED
    BY DEF Init, SerialInv, OneLiveRun, ReadsAreTrue, AtMostOneCurrent,
           NeverRepeats, Live, LiveStates
<1>2. RunInv /\ SerialInv /\ [Next]_vars => (RunInv /\ SerialInv)'
  BY RunInvStep, SerialInvStep
<1> QED BY <1>1, <1>2, PTL DEF Spec

\* If the queue delivers one task at a time, the query of the Today screen
\* never returns two documents ...
THEOREM OneMemoryOfTheDay == Overlap = FALSE => (Spec => []AtMostOneCurrent)
<1>1. SerialInv => AtMostOneCurrent
  BY DEF SerialInv
<1> QED BY <1>1, SerialInvHolds, PTL

\* ... and no memory has two turns, whatever is retried.
THEOREM NoSecondTurn == Overlap = FALSE => (Spec => []NeverRepeats)
<1>1. SerialInv => NeverRepeats
  BY DEF SerialInv
<1> QED BY <1>1, SerialInvHolds, PTL

\* If the queue delivers one task at a time, the back end with its queue, its
\* retries and its failures implements the life of a memory.
THEOREM Refinement == Overlap = FALSE => (Spec => ImplementsLifecycle)
<1> SUFFICES ASSUME Overlap = FALSE PROVE Spec => ImplementsLifecycle
  OBVIOUS
<1>1. Init => Lifecycle!Init
  BY DEF Init, Lifecycle!Init
<1>2. RunInv /\ SerialInv /\ [Next]_vars => [Lifecycle!Next]_status
  <2> SUFFICES ASSUME RunInv, SerialInv, [Next]_vars PROVE [Lifecycle!Next]_status
    OBVIOUS
  <2>1. ASSUME NEW m \in Memories, Upload(m)
        PROVE  Lifecycle!Next
    BY <2>1 DEF Upload, Lifecycle!Next, Lifecycle!Upload
  <2>2. ASSUME NEW r \in Runs, Commit(r) \/ CommitAckLost(r)
        PROVE  Lifecycle!Next
    <3>1. pick[r] \in Lifecycle!Of("future") \cup {NoMemory}
      BY <2>2, FreshCommit DEF SerialInv, Of, Lifecycle!Of
    <3>2. Lifecycle!Rotate(pick[r])
      BY <2>2, FreshCommit DEF SerialInv, Lifecycle!Rotate
    <3> QED BY <3>1, <3>2 DEF Lifecycle!Next
  <2> QED BY <2>1, <2>2, StepsOfInterest DEF Dispatch, ReadCurrent, ReadFuture
<1> QED BY <1>1, <1>2, SerialInvHolds, PTL DEF Spec, ImplementsLifecycle, Lifecycle!Spec
=============================================================================
