------------------------- MODULE ResetMemoriesProofs -------------------------
(***************************************************************************)
(* Theorems about ResetMemories, for any set of memories, any number of    *)
(* ticks, attempts and resets: what the script, the back end and the phone *)
(* cannot do to each other, though none of them waits for another.         *)
(*                                                                         *)
(* A reset breaks RunInv and SerialInv of ChangeMemoryProofs (a memory     *)
(* that was drawn is a future one again, and what a run has read is not    *)
(* true any more), so that weaker facts take their place here.             *)
(***************************************************************************)
EXTENDS ResetMemories, ChangeMemoryProofs

-----------------------------------------------------------------------------
(* The inductive invariants.                                               *)

ResetTypes ==
  /\ TypeOK
  /\ AttemptsInOrder
  /\ Held \subseteq Memories
  /\ raced \subseteq Runs

\* What the phone holds, or has marked, has left the future, unless it was reset
\* in the meantime.
HeldHasTurned ==
  \A m \in seen \cup Held :
    m \in Memories => status[m] \in {"current", "past"} \/ m \in late

\* A run has read nothing before its first query, and has written nothing before its
\* commit; and what one that no reset cut into has read was current once.
RunsSinceReset ==
  \A r \in Runs :
    /\ pc[r] \in {"idle", "readCurrent"} => cur[r] = {}
    /\ r \in applied => pc[r] \in {"notify", "ended"}
    /\ pc[r] \in {"readFuture", "commit"} /\ r \notin raced
         => cur[r] \subseteq Of("current") \cup Of("past")

ResetInv ==
  /\ ResetTypes
  /\ HeldHasTurned
  /\ RunsSinceReset
  /\ RetiredSinceReset

\* With one delivery at a time, the live run will retire all that is current.
CurrentIsRead ==
  \A r \in Runs : pc[r] \in {"readFuture", "commit"} => Of("current") \subseteq cur[r]

SerialResetInv ==
  /\ OneLiveRun
  /\ CurrentIsRead
  /\ AtMostOneCurrent
-----------------------------------------------------------------------------
(* The steps.                                                              *)

\* A step of the phone.
PhoneStep ==
  \/ ServerReads \/ RevealMemory \/ AppKilled
  \/ \E docs \in replies : ReplyReceived(docs)
  \/ \E m \in Memories :
       GetTodaysMemory(m) \/ MemoryArrives(m) \/ SetMemorySeen(m) \/ SetMemorySeenEnds(m)

\* What is not the back end's or the script's commit is the phone's, or leaves the
\* collection and the runs alone.
LEMMA StepsOfReset ==
  ASSUME [ResetNext]_<<vars, resetVars>>
  PROVE  \/ BackEnd
         \/ CommitReset
         \/ UNCHANGED <<vars, historyVars>> /\ (PhoneStep \/ UNCHANGED phoneVars)
BY DEF ResetNext, PhoneStep, ServerReads, ReplyReceived, GetTodaysMemory, MemoryArrives,
       RevealMemory, SetMemorySeen, SetMemorySeenEnds, AppKilled, ListAll, ResetFails,
       vars, resetVars

\* The phone holds only what it has held, or what is current when it is read; and only
\* what it holds is marked as seen.
LEMMA PhoneHolds ==
  ASSUME PhoneStep
  PROVE  /\ Held' \subseteq Held \cup Of("current")
         /\ seen' \subseteq seen \cup Held
<1>1. CASE ServerReads
  BY <1>1 DEF ServerReads, Held
<1>2. ASSUME NEW docs \in replies, ReplyReceived(docs)
      PROVE  Held' \subseteq Held /\ seen' \subseteq seen \cup Held
  <2>1. UNION replies' \subseteq UNION replies /\ docs \subseteq UNION replies
    BY <1>2 DEF ReplyReceived
  <2>2. cached' \subseteq docs \cup cached /\ UNCHANGED <<seen, answers, onScreen, taps>>
    BY <1>2 DEF ReplyReceived
  <2> QED BY <2>1, <2>2 DEF Held
<1>3. ASSUME NEW m \in Memories, GetTodaysMemory(m) \/ MemoryArrives(m)
      PROVE  Held' \subseteq Held /\ seen' \subseteq seen \cup Held
  <2>1. /\ UNCHANGED <<seen, cached, taps>> /\ m \in cached \cup answers
        /\ UNION replies' = UNION replies
    BY <1>3 DEF GetTodaysMemory, MemoryArrives
  <2>2. answers' \subseteq answers \cup {m} /\ onScreen' \in {onScreen, m}
    BY <1>3 DEF GetTodaysMemory, MemoryArrives
  <2> QED BY <2>1, <2>2 DEF Held
<1>4. ASSUME RevealMemory \/ \E m \in Memories : SetMemorySeen(m) \/ SetMemorySeenEnds(m)
      PROVE  Held' \subseteq Held /\ seen' \subseteq seen \cup Held
  <2>1. UNCHANGED <<cached, answers, onScreen>> /\ UNION replies' = UNION replies
    BY <1>4 DEF RevealMemory, SetMemorySeen, SetMemorySeenEnds
  <2>2. taps' \subseteq taps \cup ({onScreen} \ {NoMemory}) /\ seen' \subseteq seen \cup taps
    BY <1>4 DEF RevealMemory, SetMemorySeen, SetMemorySeenEnds
  <2> QED BY <2>1, <2>2 DEF Held
<1>5. CASE AppKilled
  BY <1>5 DEF AppKilled, Held
<1> QED BY <1>1, <1>2, <1>3, <1>4, <1>5 DEF PhoneStep

LEMMA ResetTypesStep ==
  ASSUME ResetTypes, [ResetNext]_<<vars, resetVars>>
  PROVE  ResetTypes'
<1> USE DEF ResetTypes
<1>1. TypeOK' /\ AttemptsInOrder'
  <2>1. CASE BackEnd
    BY <2>1, TypeStep DEF BackEnd
  <2>2. CASE CommitReset
    <3>1. UNCHANGED <<task, attempts, pc, cur, pick, applied, pushes>>
      BY <2>2 DEF CommitReset, queueVars
    <3>2. status' \in [Memories -> Statuses] /\ clean' \in [Runs -> BOOLEAN]
      BY <2>2 DEF CommitReset, ResetBatch, TypeOK, Statuses
    <3> QED BY <3>1, <3>2 DEF TypeOK, AttemptsInOrder
  <2>3. CASE UNCHANGED vars
    BY <2>3, TypeStep
  <2> QED BY <2>1, <2>2, <2>3, StepsOfReset
<1>2. Held' \subseteq Memories
  <2>1. CASE PhoneStep
    BY <2>1, PhoneHolds DEF Of
  <2>2. CASE UNCHANGED <<replies, cached, answers, onScreen, taps>>
    BY <2>2 DEF Held
  <2> QED BY <2>1, <2>2, StepsOfReset DEF BackEnd, CommitReset, phoneVars
<1>3. raced' \subseteq Runs
  BY StepsOfReset DEF BackEnd, CommitReset, historyVars
<1> QED BY <1>1, <1>2, <1>3

\* The back end never makes a memory a future one that was uploaded before.
LEMMA BackEndRetires ==
  ASSUME Next, NEW m \in Memories, status[m] \in {"current", "past"}, TypeOK
  PROVE  status'[m] \in {"current", "past"}
<1>1. ASSUME NEW n \in Memories, Upload(n)
      PROVE  status'[m] \in {"current", "past"}
  BY <1>1 DEF Upload, TypeOK
<1>2. ASSUME NEW r \in Runs, Commit(r) \/ CommitAckLost(r)
      PROVE  status'[m] \in {"current", "past"}
  BY <1>2 DEF Commit, CommitAckLost, WriteBatch
<1>3. CASE UNCHANGED status
  BY <1>3
<1> QED BY <1>1, <1>2, <1>3, StepsOfInterest DEF Dispatch, ReadCurrent, ReadFuture

LEMMA HeldHasTurnedStep ==
  ASSUME ResetTypes, HeldHasTurned, [ResetNext]_<<vars, resetVars>>
  PROVE  HeldHasTurned'
<1>1. CASE BackEnd
  <2>1. UNCHANGED <<phoneVars, late>> /\ Next /\ TypeOK
    BY <1>1 DEF BackEnd, ResetTypes
  <2> QED BY <2>1, BackEndRetires DEF HeldHasTurned, Held, phoneVars
\* What the phone holds of what is reset is late; what else was reset is not seen now.
<1>2. CASE CommitReset
  <2>1. /\ UNCHANGED Held
        /\ seen' = seen \ listed /\ late' = (late \ listed) \cup (Held \cap listed)
        /\ status' = [m \in Memories |-> IF m \in listed THEN "future" ELSE status[m]]
    BY <1>2 DEF CommitReset, ResetBatch, Held
  <2> QED BY <2>1 DEF HeldHasTurned
<1>3. CASE UNCHANGED <<vars, historyVars>> /\ PhoneStep
  BY <1>3, PhoneHolds DEF HeldHasTurned, Of, vars, historyVars
<1>4. CASE UNCHANGED <<vars, historyVars, phoneVars>>
  BY <1>4 DEF HeldHasTurned, Held, vars, historyVars, phoneVars
<1> QED BY <1>1, <1>2, <1>3, <1>4, StepsOfReset

LEMMA RunsSinceResetStep ==
  ASSUME ResetTypes, RunsSinceReset, [ResetNext]_<<vars, resetVars>>
  PROVE  RunsSinceReset'
<1> USE DEF ResetTypes
<1>1. ASSUME BackEnd
      PROVE  RunsSinceReset'
  <2>1. Next /\ UNCHANGED raced
    BY <1>1 DEF BackEnd
  <2>2. \A m \in Memories :
          status[m] \in {"current", "past"} => status'[m] \in {"current", "past"}
    BY <2>1, BackEndRetires
  <2>3. Of("current") \cup Of("past") \subseteq Of("current")' \cup Of("past")'
    BY <2>2 DEF Of
  <2>4. ASSUME NEW t \in Ticks, Dispatch(t)
        PROVE  RunsSinceReset'
    <3>1. /\ UNCHANGED <<cur, applied>>
          /\ pc' = [pc EXCEPT ![<<t, attempts[t] + 1>>] = "readCurrent"]
      BY <2>4 DEF Dispatch
    <3>2. PICK r \in Runs : r = <<t, attempts[t] + 1>> /\ pc[r] = "idle"
      BY <2>4, AttemptAssumption DEF Dispatch, AttemptsInOrder, TypeOK, Runs
    <3>3. cur[r] = {} /\ r \notin applied
      BY <3>2 DEF RunsSinceReset
    <3> QED BY <2>1, <2>3, <3>1, <3>2, <3>3 DEF RunsSinceReset, TypeOK
  <2>5. ASSUME NEW r \in Runs, ReadCurrent(r)
        PROVE  RunsSinceReset'
    <3>1. /\ pc[r] = "readCurrent" /\ pc' = [pc EXCEPT ![r] = "readFuture"]
          /\ cur' = [cur EXCEPT ![r] = Of("current")] /\ UNCHANGED applied
      BY <2>5 DEF ReadCurrent
    <3>2. r \notin applied
      BY <3>1 DEF RunsSinceReset
    <3>3. Of("current")' = Of("current") /\ Of("past")' = Of("past")
      BY <2>5 DEF ReadCurrent, Of
    <3> QED BY <2>1, <3>1, <3>2, <3>3 DEF RunsSinceReset, TypeOK
  <2>6. ASSUME NEW r \in Runs, ReadFuture(r)
        PROVE  RunsSinceReset'
    <3>1. /\ pc[r] = "readFuture" /\ pc' = [pc EXCEPT ![r] = "commit"]
          /\ UNCHANGED <<cur, applied>>
      BY <2>6 DEF ReadFuture
    <3> QED BY <2>1, <2>3, <3>1 DEF RunsSinceReset, TypeOK
  <2>7. ASSUME NEW r \in Runs, Commit(r) \/ CommitAckLost(r)
        PROVE  RunsSinceReset'
    <3>1. PICK to \in {"notify", "ended"} :
            /\ pc' = [pc EXCEPT ![r] = to]
            /\ applied' = applied \cup {r} /\ UNCHANGED cur
      BY <2>7 DEF Commit, CommitAckLost, WriteBatch, Resolves
    <3> QED BY <2>1, <2>3, <3>1 DEF RunsSinceReset, TypeOK
  <2>8. ASSUME UNCHANGED <<cur, applied>>,
               pc' = pc \/ \E r \in Runs : pc' = [pc EXCEPT ![r] = "ended"]
        PROVE  RunsSinceReset'
    BY <2>1, <2>3, <2>8 DEF RunsSinceReset, TypeOK
  <2>9. ASSUME NEW m \in Memories, Upload(m)
        PROVE  RunsSinceReset'
    BY <2>8, <2>9 DEF Upload
  <2> QED BY <2>1, <2>4, <2>5, <2>6, <2>7, <2>8, <2>9, StepsOfInterest
\* All runs that are under way at a reset are raced from then on.
<1>2. CASE CommitReset
  <2>1. /\ UNCHANGED <<pc, cur, applied>>
        /\ raced' = raced \cup {r \in Runs : Live(r)}
    BY <1>2 DEF CommitReset
  <2>2. \A r \in Runs : pc[r] \in {"readFuture", "commit"} => r \in raced'
    BY <2>1 DEF Live, LiveStates
  <2> QED BY <2>1, <2>2 DEF RunsSinceReset
<1>3. CASE UNCHANGED <<vars, historyVars>>
  BY <1>3 DEF RunsSinceReset, Of, vars, historyVars
<1> QED BY <1>1, <1>2, <1>3, StepsOfReset

LEMMA RetiredSinceResetStep ==
  ASSUME ResetTypes, RunsSinceReset, RetiredSinceReset, [ResetNext]_<<vars, resetVars>>
  PROVE  RetiredSinceReset'
<1> USE DEF ResetTypes
<1>1. ASSUME BackEnd
      PROVE  RetiredSinceReset'
  <2>1. /\ Next /\ UNCHANGED raced
        /\ drawn' = drawn \cup ({pick[r] : r \in applied' \ applied} \ {NoMemory})
    BY <1>1 DEF BackEnd
  <2>2. ASSUME UNCHANGED <<status, cur>>
        PROVE  RetiredSinceReset'
    BY <2>1, <2>2 DEF RetiredSinceReset
  <2>3. ASSUME NEW m \in Memories, Upload(m)
        PROVE  RetiredSinceReset'
    BY <2>1, <2>3 DEF Upload, RetiredSinceReset, TypeOK
  <2>4. ASSUME NEW r \in Runs, ReadCurrent(r)
        PROVE  RetiredSinceReset'
    <3>1. cur[r] = {} /\ cur' = [cur EXCEPT ![r] = Of("current")] /\ UNCHANGED status
      BY <2>4 DEF ReadCurrent, RunsSinceReset
    <3>2. \A q \in Runs : cur[q] \subseteq cur'[q]
      BY <3>1 DEF TypeOK
    <3> QED BY <2>1, <3>1, <3>2 DEF RetiredSinceReset
  <2>5. ASSUME NEW r \in Runs, Commit(r) \/ CommitAckLost(r)
        PROVE  RetiredSinceReset'
    <3>1. /\ pc[r] = "commit" /\ UNCHANGED cur
          /\ status' = [m \in Memories |->
                          IF m = pick[r] THEN "current"
                          ELSE IF m \in cur[r] THEN "past" ELSE status[m]]
          /\ applied' = applied \cup {r}
      BY <2>5 DEF Commit, CommitAckLost, WriteBatch
    <3>2. r \in applied' \ applied
      BY <3>1 DEF RunsSinceReset
    <3> SUFFICES ASSUME NEW m \in Memories, status'[m] \in {"current", "past"},
                        m \notin drawn'
                 PROVE  \E q \in raced : m \in cur[q]
      BY <2>1, <3>1 DEF RetiredSinceReset
    <3>3. m \notin drawn /\ m # pick[r]
      BY <2>1, <3>2, MemoryAssumption
    <3>4. CASE m \in cur[r] /\ r \in raced
      BY <3>4
    <3>5. CASE m \in cur[r] /\ r \notin raced
      <4>1. status[m] \in {"current", "past"}
        BY <3>1, <3>5 DEF RunsSinceReset, Of
      <4> QED BY <3>3, <4>1 DEF RetiredSinceReset
    <3>6. CASE m \notin cur[r]
      BY <3>1, <3>3, <3>6 DEF RetiredSinceReset
    <3> QED BY <3>4, <3>5, <3>6
  <2> QED BY <2>1, <2>2, <2>3, <2>4, <2>5, StepsOfInterest DEF Dispatch, ReadFuture
\* What the script has listed is a future memory now; the rest is as it was.
<1>2. CASE CommitReset
  <2>1. /\ status' = [m \in Memories |-> IF m \in listed THEN "future" ELSE status[m]]
        /\ drawn' = drawn \ listed /\ raced \subseteq raced' /\ UNCHANGED cur
    BY <1>2 DEF CommitReset, ResetBatch
  <2> QED BY <2>1 DEF RetiredSinceReset
<1>3. CASE UNCHANGED <<vars, historyVars>>
  BY <1>3 DEF RetiredSinceReset, vars, historyVars
<1> QED BY <1>1, <1>2, <1>3, StepsOfReset

LEMMA ResetInvHolds == ResetSpec => []ResetInv
<1>1. ResetInit => ResetInv
  <2> SUFFICES ASSUME ResetInit PROVE ResetInv
    OBVIOUS
  <2>1. Init /\ TypeOK /\ AttemptsInOrder
    BY TypeInit DEF ResetInit
  <2>2. ResetTypes
    BY <2>1 DEF ResetInit, ResetTypes, Held
  <2>3. HeldHasTurned
    BY DEF ResetInit, HeldHasTurned, Held
  <2>4. RunsSinceReset
    BY <2>1 DEF Init, RunsSinceReset
  <2>5. RetiredSinceReset
    BY <2>1 DEF Init, RetiredSinceReset
  <2> QED BY <2>2, <2>3, <2>4, <2>5 DEF ResetInv
<1>2. ResetInv /\ [ResetNext]_<<vars, resetVars>> => ResetInv'
  BY ResetTypesStep, HeldHasTurnedStep, RunsSinceResetStep, RetiredSinceResetStep DEF ResetInv
<1> QED BY <1>1, <1>2, PTL DEF ResetSpec

\* A memory that waits for its turn is veiled when the turn comes, whatever the phone and
\* the script do to each other: only a memory that the phone held when it was reset, be
\* it in the cache, in an answer on its way, on the screen or in a tap, can be marked early
\* (setMemorySeen writes without a look at the document).
THEOREM FutureStaysVeiled == ResetSpec => []FutureIsUnseen
<1>1. ResetInv => FutureIsUnseen
  BY DEF ResetInv, HeldHasTurned, FutureIsUnseen
<1> QED BY <1>1, ResetInvHolds, PTL

\* After a reset every memory has its turn again, but for what a run that was under way
\* had read as current before the reset, and retires after it.
THEOREM ResetRestoresTurns == ResetSpec => []RetiredSinceReset
<1>1. ResetInv => RetiredSinceReset
  BY DEF ResetInv
<1> QED BY <1>1, ResetInvHolds, PTL

-----------------------------------------------------------------------------
(* What holds if the queue delivers one task at a time.                    *)

LEMMA SerialResetStep ==
  ASSUME Overlap = FALSE, ResetTypes, SerialResetInv, [ResetNext]_<<vars, resetVars>>
  PROVE  SerialResetInv'
<1> USE DEF ResetTypes, SerialResetInv
<1>1. ASSUME BackEnd
      PROVE  SerialResetInv'
  <2>1. Next
    BY <1>1 DEF BackEnd
  <2>2. ASSUME NEW m \in Memories, Upload(m)
        PROVE  SerialResetInv'
    <3>1. Of("current")' = Of("current") /\ UNCHANGED <<pc, cur>>
      BY <2>2 DEF Upload, Of, TypeOK
    <3>2. AtMostOneCurrent'
      BY <2>2 DEF Upload, AtMostOneCurrent, TypeOK
    <3> QED BY <3>1, <3>2 DEF OneLiveRun, CurrentIsRead, Live
  <2>3. ASSUME NEW t \in Ticks, Dispatch(t)
        PROVE  SerialResetInv'
    <3>1. /\ \A q \in Runs : ~Live(q)
          /\ pc' = [pc EXCEPT ![<<t, attempts[t] + 1>>] = "readCurrent"]
          /\ UNCHANGED <<status, cur>>
      BY <2>3 DEF Dispatch
    <3>2. \A q \in Runs : q # <<t, attempts[t] + 1>> => ~Live(q)'
      BY <3>1 DEF Live, TypeOK
    <3>3. OneLiveRun'
      BY <3>2 DEF OneLiveRun
    <3>4. CurrentIsRead'
      BY <3>1 DEF CurrentIsRead, Of, TypeOK
    <3> QED BY <3>1, <3>3, <3>4 DEF AtMostOneCurrent
  <2>4. ASSUME NEW r \in Runs, ReadCurrent(r) \/ ReadFuture(r)
        PROVE  SerialResetInv'
    <3>1. /\ Live(r) /\ UNCHANGED status
          /\ \E to \in {"readFuture", "commit"} : pc' = [pc EXCEPT ![r] = to]
      BY <2>4 DEF ReadCurrent, ReadFuture, Live, LiveStates
    <3>2. OneLiveRun'
      BY <3>1 DEF OneLiveRun, Live, TypeOK
    <3>3. CurrentIsRead'
      BY <2>4 DEF ReadCurrent, ReadFuture, CurrentIsRead, Of, TypeOK
    <3> QED BY <3>1, <3>2, <3>3 DEF AtMostOneCurrent
  <2>5. ASSUME NEW r \in Runs, Commit(r) \/ CommitAckLost(r)
        PROVE  SerialResetInv'
    <3>1. /\ pc[r] = "commit" /\ UNCHANGED cur
          /\ \E to \in {"notify", "ended"} : pc' = [pc EXCEPT ![r] = to]
          /\ status' = [m \in Memories |->
                          IF m = pick[r] THEN "current"
                          ELSE IF m \in cur[r] THEN "past" ELSE status[m]]
      BY <2>5 DEF Commit, CommitAckLost, WriteBatch, Resolves
    <3>2. Live(r) /\ \A q \in Runs \ {r} : pc[q] \notin {"readFuture", "commit"}
      BY <3>1 DEF OneLiveRun, Live, LiveStates
    <3>3. OneLiveRun'
      BY <3>1, <3>2 DEF OneLiveRun, Live, TypeOK
    <3>4. CurrentIsRead'
      BY <3>1, <3>2 DEF CurrentIsRead, TypeOK
    <3>5. AtMostOneCurrent'
      BY <3>1 DEF CurrentIsRead, Of, AtMostOneCurrent
    <3> QED BY <3>3, <3>4, <3>5
  <2>6. ASSUME UNCHANGED <<status, cur>>,
               pc' = pc \/ \E r \in Runs : pc' = [pc EXCEPT ![r] = "ended"]
        PROVE  SerialResetInv'
    <3>1. \A q \in Runs : pc'[q] = pc[q] \/ pc'[q] = "ended"
      BY <2>6 DEF TypeOK
    <3>2. OneLiveRun'
      BY <3>1 DEF OneLiveRun, Live, LiveStates
    <3>3. CurrentIsRead'
      BY <2>6, <3>1 DEF CurrentIsRead, Of
    <3> QED BY <2>6, <3>2, <3>3 DEF AtMostOneCurrent
  <2> QED BY <2>1, <2>2, <2>3, <2>4, <2>5, <2>6, StepsOfInterest
\* A reset may take a memory of today away, and makes none.
<1>2. CASE CommitReset
  <2>1. /\ status' = [m \in Memories |-> IF m \in listed THEN "future" ELSE status[m]]
        /\ UNCHANGED <<pc, cur>>
    BY <1>2 DEF CommitReset, ResetBatch
  <2>2. Of("current")' \subseteq Of("current")
    BY <2>1 DEF Of
  <2>3. OneLiveRun'
    BY <2>1 DEF OneLiveRun, Live
  <2>4. CurrentIsRead'
    BY <2>1, <2>2 DEF CurrentIsRead
  <2>5. AtMostOneCurrent'
    BY <2>1 DEF AtMostOneCurrent
  <2> QED BY <2>3, <2>4, <2>5
<1>3. CASE UNCHANGED vars
  BY <1>3 DEF OneLiveRun, CurrentIsRead, AtMostOneCurrent, Live, Of, vars
<1> QED BY <1>1, <1>2, <1>3, StepsOfReset

\* If the queue delivers one task at a time, a reset that cuts into a rotation, or comes
\* between two, leaves no second memory of today.
THEOREM OneOfTheDayDespiteResets == Overlap = FALSE => (ResetSpec => []AtMostOneCurrent)
<1> SUFFICES ASSUME Overlap = FALSE PROVE ResetSpec => []AtMostOneCurrent
  OBVIOUS
<1>1. ResetInit => SerialResetInv
  BY DEF ResetInit, Init, SerialResetInv, OneLiveRun, CurrentIsRead, AtMostOneCurrent,
         Live, LiveStates
<1>2. ResetTypes /\ SerialResetInv /\ [ResetNext]_<<vars, resetVars>> => SerialResetInv'
  BY SerialResetStep
<1>3. ResetInv => ResetTypes
  BY DEF ResetInv
<1>4. SerialResetInv => AtMostOneCurrent
  BY DEF SerialResetInv
<1> QED BY <1>1, <1>2, <1>3, <1>4, ResetInvHolds, PTL DEF ResetSpec

=============================================================================
