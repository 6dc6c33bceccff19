---------------------------- MODULE ChangeMemory ----------------------------
(***************************************************************************)
(* The Cloud Functions back end: the scheduled function that enqueues one  *)
(* task per tick (functions/functions/src/index.ts), the task queue, the   *)
(* task handler changeMemory with the two queries and the write batch of   *)
(* changeMemoryInFirestore (change-memory.ts), and the push request of     *)
(* sendNewMemoryNotification (send-memory-notification.ts).                *)
(*                                                                         *)
(* One action per awaited call, so that handlers interleave at exactly the *)
(* points where the code gives up the processor.  A `run' is one delivery  *)
(* of one task to the handler.                                             *)
(***************************************************************************)
EXTENDS Naturals

CONSTANTS
  Memories,      \* document ids of the collection `memories'
  NoMemory,      \* futureQuerySnapshot.empty: nothing was chosen
  Ticks,         \* firings of the schedule; each enqueues one task at most
  MaxAttempts,   \* bound: deliveries of one task before the queue drops it
  Overlap        \* may a run start while another one is still going?  The
                 \* queue has no rate limit (taskQueue() at index.ts:55)

ASSUME MemoryAssumption == NoMemory \notin Memories
ASSUME AttemptAssumption == MaxAttempts \in Nat \ {0}
ASSUME OverlapAssumption == Overlap \in BOOLEAN

VARIABLES
  status,    \* status[m]: the document's field, "absent" before its upload
  task,      \* task[t]: where the tick's task is
  attempts,  \* attempts[t]: deliveries of the task so far
  pc,        \* pc[r]: the call the run is awaiting
  cur,       \* cur[r]: currentQuerySnapshot
  pick,      \* pick[r]: randomDoc
  clean,     \* history: no batch was written since the run's first query
  applied,   \* history: the runs whose batch reached the store
  pushes     \* history: the runs whose push request OneSignal accepted

queueVars == <<task, attempts>>
vars == <<status, task, attempts, pc, cur, pick, clean, applied, pushes>>

Runs == Ticks \X (1 .. MaxAttempts)

Statuses == {"absent", "future", "current", "past"}
TaskStates == {"none", "resolving", "enqueuing", "queued", "dispatched",
               "done", "lost"}
LiveStates == {"readCurrent", "readFuture", "commit", "notify"}

\* memoriesRef.where('status', '==', s).get()
Of(s) == {m \in Memories : status[m] = s}

Live(r) == pc[r] \in LiveStates

TypeOK ==
  /\ status \in [Memories -> Statuses]
  /\ task \in [Ticks -> TaskStates]
  /\ attempts \in [Ticks -> 0 .. MaxAttempts]
  /\ pc \in [Runs -> LiveStates \cup {"idle", "ended"}]
  /\ cur \in [Runs -> SUBSET Memories]
  /\ pick \in [Runs -> Memories \cup {NoMemory}]
  /\ clean \in [Runs -> BOOLEAN]
  /\ applied \in SUBSET Runs
  /\ pushes \in SUBSET Runs

Init ==
  /\ status = [m \in Memories |-> "absent"]
  /\ task = [t \in Ticks |-> "none"]
  /\ attempts = [t \in Ticks |-> 0]
  /\ pc = [r \in Runs |-> "idle"]
  /\ cur = [r \in Runs |-> {}]
  /\ pick = [r \in Runs |-> NoMemory]
  /\ clean = [r \in Runs |-> FALSE]
  /\ applied = {}
  /\ pushes = {}

-----------------------------------------------------------------------------
(* The upload script adds a document (its own steps are not of interest    *)
(* here: the add is the only one that touches the collection).             *)

Upload(m) ==
  /\ status[m] = "absent"
  /\ status' = [status EXCEPT ![m] = "future"]
  /\ UNCHANGED <<queueVars, pc, cur, pick, clean, applied, pushes>>

-----------------------------------------------------------------------------
(* scheduleChangeMemory.  The promise of queue.enqueue is not awaited: the *)
(* function has returned by the time the request lands, or is lost with    *)
(* the instance that sent it.                                              *)

MoveTask(t, from, to) ==
  /\ task[t] = from
  /\ task' = [task EXCEPT ![t] = to]
  /\ UNCHANGED <<status, attempts, pc, cur, pick, clean, applied, pushes>>

TickFires(t) == MoveTask(t, "none", "resolving")
GetFunctionUrlThrows(t) == MoveTask(t, "resolving", "lost")
Enqueue(t) == MoveTask(t, "resolving", "enqueuing")
EnqueueLands(t) == MoveTask(t, "enqueuing", "queued")
EnqueueLost(t) == MoveTask(t, "enqueuing", "lost")

-----------------------------------------------------------------------------
(* The task queue delivers at least once: a delivery whose handler throws, *)
(* or does not answer in time, is repeated until the attempts run out.     *)

\* The handler's answer counts only for the delivery the queue waits for.
Awaited(r) == task[r[1]] = "dispatched" /\ attempts[r[1]] = r[2]

AfterFailure(t) == IF attempts[t] < MaxAttempts THEN "queued" ELSE "lost"

Settle(r, outcome) ==
  /\ task' = IF Awaited(r) THEN [task EXCEPT ![r[1]] = outcome] ELSE task
  /\ UNCHANGED attempts

Resolves(r) ==
  /\ pc' = [pc EXCEPT ![r] = "ended"]
  /\ Settle(r, "done")

\* Mutant: the rejection is swallowed and nothing is answered.
RejectsSilently(r) ==
  /\ pc' = [pc EXCEPT ![r] = "ended"]
  /\ UNCHANGED queueVars

Rejects(r) ==
  /\ pc' = [pc EXCEPT ![r] = "ended"]
  /\ Settle(r, AfterFailure(r[1]))

Dispatch(t) ==
  /\ task[t] = "queued"
  /\ Overlap \/ \A r \in Runs : ~Live(r)
  /\ task' = [task EXCEPT ![t] = "dispatched"]
  /\ attempts' = [attempts EXCEPT ![t] = @ + 1]
  /\ pc' = [pc EXCEPT ![<<t, attempts[t] + 1>>] = "readCurrent"]
  /\ UNCHANGED <<status, cur, pick, clean, applied, pushes>>

\* The connection breaks or the dispatch deadline passes: the queue stops
\* waiting, and the run it was waiting for goes on.
DeadlinePasses(t) ==
  /\ task[t] = "dispatched"
  /\ task' = [task EXCEPT ![t] = AfterFailure(t)]
  /\ UNCHANGED <<status, attempts, pc, cur, pick, clean, applied, pushes>>

-----------------------------------------------------------------------------
(* changeMemoryInFirestore.  Every exception is caught and turned into     *)
(* `false', on which the handler returns without asking for a retry.       *)

\* Mutant: the query asks for one document only, limit(1).
ReadCurrentLimitOne(r) ==
  /\ pc[r] = "readCurrent"
  /\ pc' = [pc EXCEPT ![r] = "readFuture"]
  /\ IF Of("current") = {}
       THEN cur' = [cur EXCEPT ![r] = {}]
       ELSE \E m \in Of("current") : cur' = [cur EXCEPT ![r] = {m}]
  /\ clean' = [clean EXCEPT ![r] = TRUE]
  /\ UNCHANGED <<status, queueVars, pick, applied, pushes>>

ReadCurrent(r) ==
  /\ pc[r] = "readCurrent"
  /\ pc' = [pc EXCEPT ![r] = "readFuture"]
  /\ cur' = [cur EXCEPT ![r] = Of("current")]
  /\ clean' = [clean EXCEPT ![r] = TRUE]
  /\ UNCHANGED <<status, queueVars, pick, applied, pushes>>

\* Mutant: Math.floor(Math.random() * (size + 1)), and no test for empty.
ChoicesOffByOne == Of("future") \cup {"undefined"}

\* Mutant: any document that is not today's already.
ChoicesOfAll ==
  LET served == Of("future") \cup Of("past")
  IN  IF served = {} THEN {NoMemory} ELSE served

\* Math.floor(Math.random() * size) indexes any document of the snapshot.
Choices == IF Of("future") = {} THEN {NoMemory} ELSE Of("future")

ReadFuture(r) ==
  /\ pc[r] = "readFuture"
  /\ pc' = [pc EXCEPT ![r] = "commit"]
  /\ \E m \in Choices : pick' = [pick EXCEPT ![r] = m]
  /\ UNCHANGED <<status, queueVars, cur, clean, applied, pushes>>

\* Mutant: two writes instead of a batch, and the second one may fail.
WriteBatchTorn(r) ==
  /\ \E both \in BOOLEAN :
       status' = [m \in Memories |->
                    IF m = pick[r] THEN "current"
                    ELSE IF m \in cur[r] /\ both THEN "past" ELSE status[m]]
  /\ clean' = [q \in Runs |-> FALSE]
  /\ applied' = applied \cup {r}

\* Mutant: what was current becomes future again.
WriteBatchRecycles(r) ==
  /\ status' = [m \in Memories |->
                  IF m = pick[r] THEN "current"
                  ELSE IF m \in cur[r] THEN "future" ELSE status[m]]
  /\ clean' = [q \in Runs |-> FALSE]
  /\ applied' = applied \cup {r}

\* The writes of the batch, in the order they were added: the last one of
\* a document wins.
WriteBatch(r) ==
  /\ status' = [m \in Memories |->
                  IF m = pick[r] THEN "current"
                  ELSE IF m \in cur[r] THEN "past" ELSE status[m]]
  /\ clean' = [q \in Runs |-> FALSE]
  /\ applied' = applied \cup {r}

Commit(r) ==
  /\ pc[r] = "commit"
  /\ WriteBatch(r)
  /\ pc' = [pc EXCEPT ![r] = "notify"]
  /\ UNCHANGED <<queueVars, cur, pick, pushes>>

\* The batch is written but its acknowledgement does not come back.
CommitAckLost(r) ==
  /\ pc[r] = "commit"
  /\ WriteBatch(r)
  /\ Resolves(r)
  /\ UNCHANGED <<cur, pick, pushes>>

\* Mutant: the catch block forgets its `return false'.
StoreCallFailsUnnoticed(r) ==
  /\ pc[r] \in {"readCurrent", "readFuture", "commit"}
  /\ pc' = [pc EXCEPT ![r] = "notify"]
  /\ UNCHANGED <<status, queueVars, cur, pick, clean, applied, pushes>>

StoreCallFails(r) ==
  /\ pc[r] \in {"readCurrent", "readFuture", "commit"}
  /\ Resolves(r)
  /\ UNCHANGED <<status, cur, pick, clean, applied, pushes>>

-----------------------------------------------------------------------------
(* sendNewMemoryNotification, called only after an acknowledged commit.    *)

PushAccepted(r) ==
  /\ pc[r] = "notify"
  /\ pushes' = pushes \cup {r}
  /\ Resolves(r)
  /\ UNCHANGED <<status, cur, pick, clean, applied>>

\* resp.status >= 400 with a JSON body is logged, and the handler returns.
PushRefused(r) ==
  /\ pc[r] = "notify"
  /\ Resolves(r)
  /\ UNCHANGED <<status, cur, pick, clean, applied, pushes>>

\* fetch, or resp.json() of a body that is not JSON, throws; the request
\* may have been accepted all the same.
PushThrows(r) ==
  /\ pc[r] = "notify"
  /\ pushes' \in {pushes, pushes \cup {r}}
  /\ Rejects(r)
  /\ UNCHANGED <<status, cur, pick, clean, applied>>

\* The platform stops the instance: function timeout, crash, memory limit.
Killed(r) ==
  /\ Live(r)
  /\ Rejects(r)
  /\ UNCHANGED <<status, cur, pick, clean, applied, pushes>>

-----------------------------------------------------------------------------

Schedule(t) ==
  \/ TickFires(t)
  \/ GetFunctionUrlThrows(t)
  \/ Enqueue(t)
  \/ EnqueueLands(t)
  \/ EnqueueLost(t)

Handler(r) ==
  \/ ReadCurrent(r)
  \/ ReadFuture(r)
  \/ Commit(r)
  \/ CommitAckLost(r)
  \/ StoreCallFails(r)
  \/ PushAccepted(r)
  \/ PushRefused(r)
  \/ PushThrows(r)

Next ==
  \/ \E m \in Memories : Upload(m)
  \/ \E t \in Ticks : Schedule(t) \/ Dispatch(t) \/ DeadlinePasses(t)
  \/ \E r \in Runs : Handler(r) \/ Killed(r)

Spec == Init /\ [][Next]_vars

-----------------------------------------------------------------------------
(* Fairness.  Every awaited call of a handler is answered, throws, or is   *)
(* cut off by the function's timeout, and the queue keeps delivering what  *)
(* it holds.  Nothing makes the operator upload or the schedule fire, and  *)
(* no particular failure has to happen.                                    *)

Fairness ==
  /\ \A t \in Ticks : WF_vars(Schedule(t) /\ task[t] # "none")
  /\ \A t \in Ticks : WF_vars(Dispatch(t))
  /\ \A r \in Runs : WF_vars(Handler(r) \/ Killed(r))

FairSpec == Spec /\ Fairness

-----------------------------------------------------------------------------
(* Properties.                                                             *)

\* The app shows today's memory only if the query for it returns exactly
\* one document (MemoryManager.getTodaysMemory): two current memories leave
\* the Today screen with an error until a later batch clears them.
AtMostOneCurrent ==
  \A m, n \in Memories : status[m] = "current" /\ status[n] = "current" => m = n

\* No memory is drawn by two batches: what was once today's memory is never
\* served as a new one again, whatever is retried or lost in between.
NeverRepeats ==
  \A q, r \in applied : pick[q] = pick[r] => q = r \/ pick[q] = NoMemory

\* However runs overlap, a memory has left the future exactly if some batch
\* drew it: no batch retires a document that was never today's, and no late
\* or repeated batch puts a drawn one back.
RetiredWhenDrawn ==
  \A m \in Memories :
    status[m] \in {"current", "past"} <=> \E r \in applied : pick[r] = m

\* The push goes out only for a batch that is in the store, through every
\* retry, kill and lost acknowledgement.
PushFollowsBatch == pushes \subseteq applied

\* A batch between whose first query and whose commit nothing else was
\* written leaves exactly the drawn memory current, however many were
\* current before: one undisturbed run repairs what overlapping runs broke.
UndisturbedRunRotates ==
  [][\A r \in Runs :
       pc[r] = "commit" /\ pc'[r] = "notify" /\ clean[r]
         => Of("current")' = {pick[r]} \ {NoMemory}]_vars

\* A task that reached the queue is in the end answered or given up, and no
\* run is left behind: no delivery waits forever for a handler.
EveryTaskSettles ==
  \A t \in Ticks : task[t] = "queued" ~> /\ task[t] \in {"done", "lost"}
                                          /\ \A r \in Runs : r[1] = t => ~Live(r)

\* The collection follows the life of a memory that readers rely on.
Lifecycle == INSTANCE MemoryLifecycle
ImplementsLifecycle == Lifecycle!Spec
=============================================================================
