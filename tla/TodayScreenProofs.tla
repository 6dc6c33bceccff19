------------------------- MODULE TodayScreenProofs -------------------------
(***************************************************************************)
(* Theorems about TodayScreen, for any set of memories and any number of   *)
(* fetches, writes and timers in flight.                                   *)
(*                                                                         *)
(* Three invariants are each inductive on top of the types: NeverStranded  *)
(* as it is; RevealsInOrder, which follows a tap from the write through    *)
(* its acknowledgement to the timer; and DaysInOrder, which says that what *)
(* is shown, what is about to be shown and what the cache would answer are *)
(* ordered by the days they were today's memory.                           *)
(***************************************************************************)
EXTENDS TodayScreen, SequenceTheorems, TLAPS

-----------------------------------------------------------------------------
(* The inductive invariants.                                               *)

\* Memories whose heart was tapped on this phone, whatever came of it.
Tapped == seen \cup Pending \cup refused

\* Unless a fetch landed in the middle of a reveal, whoever will show the
\* memory (a timer, or a write that comes back) was set going for it.
RevealsInOrder ==
  /\ ~crossed =>
       /\ content \/ timers > 0 => memory \in Tapped /\ ~veil
       /\ \A i \in DOMAIN writes : writes[i].live => writes[i].id = memory
  /\ \A i \in DOMAIN fetches : fetches[i].seen => fetches[i].id \in Tapped

AnsweredInOrder ==
  /\ \A i \in DOMAIN fetches : ~fetches[i].answered => fetches[i].id = NoMemory
  /\ \A i, j \in DOMAIN fetches : i < j /\ fetches[j].answered => fetches[i].answered

\* A memory that has had its day, or has it now.
Known(m) == m # NoMemory => status[m] \in {"current", "past"}

\* If n is another memory than m, the day of m is over.
NoLaterThan(m, n) == m = n \/ NoMemory \in {m, n} \/ status[m] = "past"

DaysInOrder ==
  /\ Known(memory) /\ Known(cached)
  /\ NoLaterThan(memory, cached)
  /\ \A i \in DOMAIN fetches :
       /\ Known(fetches[i].id)
       /\ NoLaterThan(memory, fetches[i].id)
       /\ NoLaterThan(fetches[i].id, cached)
       /\ \A j \in 1 .. i - 1 : NoLaterThan(fetches[j].id, fetches[i].id)

TodayInv ==
  /\ TypeOK
  /\ NeverStranded
  /\ RevealsInOrder
  /\ AnsweredInOrder
  /\ DaysInOrder

-----------------------------------------------------------------------------
(* The queues of fetches and writes.                                       *)

LEMMA SentIsAFetch == Sent \in Fetches /\ ~Sent.answered /\ Sent.id = NoMemory /\ ~Sent.seen
BY DEF Sent, Fetches

\* Asking once more leaves all that was asked before as it is.
LEMMA OneMoreFetch ==
  ASSUME TypeOK, fetches' = Append(fetches, Sent)
  PROVE  /\ fetches' \in Seq(Fetches)
         /\ Len(fetches) \in Nat
         /\ DOMAIN fetches = 1 .. Len(fetches) /\ DOMAIN fetches' = 1 .. Len(fetches) + 1
         /\ \A i \in DOMAIN fetches : fetches'[i] = fetches[i]
         /\ fetches'[Len(fetches) + 1] = Sent
<1>1. fetches \in Seq(Fetches)
  BY DEF TypeOK
<1> QED BY <1>1, SentIsAFetch, AppendProperties, LenProperties

\* Taking the first fetch moves the others up.
LEMMA OneFetchLess ==
  ASSUME TypeOK, fetches # <<>>, fetches' = Tail(fetches)
  PROVE  /\ fetches' \in Seq(Fetches)
         /\ Len(fetches) \in Nat \ {0}
         /\ DOMAIN fetches = 1 .. Len(fetches) /\ DOMAIN fetches' = 1 .. Len(fetches) - 1
         /\ \A i \in DOMAIN fetches' : fetches'[i] = fetches[i + 1]
         /\ Head(fetches) = fetches[1] /\ fetches[1] \in Fetches
<1>1. fetches \in Seq(Fetches)
  BY DEF TypeOK
<1>2. Len(fetches) \in Nat \ {0} /\ DOMAIN fetches = 1 .. Len(fetches)
  BY <1>1, LenProperties, EmptySeq
<1>3. fetches[1] \in Fetches
  BY <1>1, <1>2, ElementOfSeq
<1> QED BY <1>1, <1>2, <1>3, HeadTailProperties, LenProperties

\* The first write leaves the queue; its memory was pending.
LEMMA OneWriteLess ==
  ASSUME TypeOK, writes # <<>>, writes' = Tail(writes)
  PROVE  /\ writes' \in Seq(Writes)
         /\ Head(writes) = writes[1] /\ 1 \in DOMAIN writes /\ writes[1] \in Writes
         /\ \A i \in DOMAIN writes' : i + 1 \in DOMAIN writes /\ writes'[i] = writes[i + 1]
         /\ Pending = Pending' \cup {Head(writes).id}
<1>1. writes \in Seq(Writes)
  BY DEF TypeOK
<1>2. Len(writes) \in Nat \ {0} /\ DOMAIN writes = 1 .. Len(writes)
  BY <1>1, LenProperties, EmptySeq
<1>3. writes[1] \in Writes /\ Head(writes) = writes[1]
  BY <1>1, <1>2, ElementOfSeq
<1>4. /\ writes' \in Seq(Writes)
      /\ DOMAIN writes' = 1 .. Len(writes) - 1
      /\ \A i \in DOMAIN writes' : writes'[i] = writes[i + 1]
  BY <1>1, <1>2, HeadTailProperties, LenProperties
<1>5. ASSUME NEW i \in DOMAIN writes
      PROVE  writes[i].id \in Pending' \cup {Head(writes).id}
  <2>1. i # 1 => i - 1 \in DOMAIN writes' /\ (i - 1) + 1 = i
    BY <1>2, <1>4
  <2>2. i # 1 => writes'[i - 1] = writes[i]
    BY <1>4, <2>1
  <2> QED BY <1>3, <2>1, <2>2 DEF Pending
<1>6. Pending' \cup {Head(writes).id} \subseteq Pending
  BY <1>2, <1>3, <1>4 DEF Pending
<1> QED BY <1>2, <1>3, <1>4, <1>5, <1>6 DEF Pending

\* A tap appends a write and leaves the others as they are.
LEMMA OneMoreWrite ==
  ASSUME TypeOK, memory # NoMemory,
         writes' = Append(writes, [id |-> memory, live |-> TRUE])
  PROVE  /\ writes' \in Seq(Writes)
         /\ \A i \in DOMAIN writes : i \in DOMAIN writes' /\ writes'[i] = writes[i]
         /\ \A i \in DOMAIN writes' :
              (i \in DOMAIN writes /\ writes'[i] = writes[i]) \/ writes'[i].id = memory
<1> DEFINE tap == [id |-> memory, live |-> TRUE]
<1>1. tap \in Writes /\ tap.id = memory
  BY DEF TypeOK, Writes
<1>2. writes \in Seq(Writes) /\ writes' = Append(writes, tap)
  BY DEF TypeOK
<1> HIDE DEF tap
<1>3. /\ writes' \in Seq(Writes)
      /\ \A i \in 1 .. Len(writes) : writes'[i] = writes[i]
      /\ writes'[Len(writes) + 1] = tap
      /\ DOMAIN writes = 1 .. Len(writes) /\ DOMAIN writes' = 1 .. Len(writes) + 1
      /\ Len(writes) \in Nat
  BY <1>1, <1>2, AppendProperties, LenProperties
<1> QED BY <1>1, <1>3

\* Death takes the completions and leaves the writes.
LEMMA WritesOutlive ==
  ASSUME TypeOK, Kill
  PROVE  /\ writes' \in Seq(Writes)
         /\ Pending' = Pending
         /\ \A i \in DOMAIN writes' : ~writes'[i].live
<1>1. writes \in Seq(Writes)
  BY DEF TypeOK
<1>2. writes' = [i \in 1 .. Len(writes) |-> [writes[i] EXCEPT !.live = FALSE]]
        /\ Len(writes) \in Nat /\ DOMAIN writes = 1 .. Len(writes)
  BY <1>1, LenProperties DEF Kill
<1>3. ASSUME NEW i \in 1 .. Len(writes)
      PROVE  writes'[i] \in Writes /\ writes'[i].id = writes[i].id /\ ~writes'[i].live
  <2>1. writes[i] \in Writes
    BY <1>1, ElementOfSeq
  <2> QED BY <1>2, <2>1 DEF Writes
<1>4. writes' \in Seq(Writes)
  BY <1>2, <1>3, SeqDef
<1>5. Pending' = Pending
  BY <1>2, <1>3 DEF Pending
<1> QED BY <1>2, <1>3, <1>4, <1>5

\* Which fetch an answer goes to, and that none behind it has one.
LEMMA WhichAnswer ==
  ASSUME TypeOK, AnsweredInOrder, NEW m \in Memories \cup {NoMemory}, Answer(m)
  PROVE  /\ fetches' \in Seq(Fetches)
         /\ Len(fetches) \in Nat /\ DOMAIN fetches = 1 .. Len(fetches)
         /\ DOMAIN fetches' = DOMAIN fetches
         /\ \E k \in DOMAIN fetches :
              /\ fetches'[k].answered /\ fetches'[k].id = m
              /\ fetches'[k].seen => m \in seen \cup Pending
              /\ \A i \in DOMAIN fetches : i # k => fetches'[i] = fetches[i]
              /\ \A i \in DOMAIN fetches : i < k => fetches[i].answered
              /\ \A i \in DOMAIN fetches : i > k => ~fetches[i].answered
<1>1. fetches \in Seq(Fetches)
  BY DEF TypeOK
<1>2. Len(fetches) \in Nat /\ DOMAIN fetches = 1 .. Len(fetches)
  BY <1>1, LenProperties
<1> DEFINE answer == [answered |-> TRUE, id |-> m, seen |-> m \in seen \cup Pending]
<1>3. PICK k \in DOMAIN fetches :
        /\ ~fetches[k].answered
        /\ \A j \in 1 .. k - 1 : fetches[j].answered
        /\ fetches' = [fetches EXCEPT ![k] = answer]
  BY DEF Answer
<1>4. answer \in Fetches /\ answer.answered /\ answer.id = m
  BY DEF Fetches
<1>5. answer.seen => m \in seen \cup Pending
  OBVIOUS
<1> HIDE DEF answer
<1>6. /\ fetches' \in Seq(Fetches) /\ DOMAIN fetches' = DOMAIN fetches
      /\ fetches'[k] = answer
      /\ \A i \in DOMAIN fetches : i # k => fetches'[i] = fetches[i]
  BY <1>1, <1>3, <1>4, ExceptSeq
<1>7. \A i \in DOMAIN fetches : i < k => fetches[i].answered
  BY <1>2, <1>3
<1>8. \A i \in DOMAIN fetches : i > k => ~fetches[i].answered
  BY <1>2, <1>3 DEF AnsweredInOrder
<1> QED BY <1>2, <1>4, <1>5, <1>6, <1>7, <1>8

-----------------------------------------------------------------------------
(* Types, and that nobody is stranded.                                     *)

LEMMA TodayInit == Init => TodayInv
<1> SUFFICES ASSUME Init PROVE TodayInv
  OBVIOUS
<1>1. TypeOK
  BY EmptySeq DEF Init, TypeOK
<1>2. NeverStranded /\ RevealsInOrder /\ AnsweredInOrder
  BY DEF Init, NeverStranded, RevealsInOrder, AnsweredInOrder
<1>3. DaysInOrder
  BY DEF Init, DaysInOrder, Known, NoLaterThan
<1> QED BY <1>1, <1>2, <1>3 DEF TodayInv

\* The three answers to a fetch differ in what they say and in the cache.
LEMMA AnAnswer ==
  ASSUME TypeOK, GetTodaysMemory \/ GetTodaysMemoryOffline \/ GetTodaysMemoryFails
  PROVE  \E m \in Memories \cup {NoMemory} :
           /\ Answer(m)
           /\ cached' \in {cached, m}
           /\ UNCHANGED <<status, seen, running, screenVars, writes, timers, refused, crossed>>
           /\ \/ m = NoMemory
              \/ m = cached /\ cached' = cached
              \/ Lifecycle!Of("current") = {m} /\ cached' = m
<1>1. CASE GetTodaysMemory
  BY <1>1 DEF GetTodaysMemory, Answer
<1>2. CASE GetTodaysMemoryOffline
  BY <1>2 DEF GetTodaysMemoryOffline, Answer, TypeOK
<1>3. CASE GetTodaysMemoryFails
  BY <1>3 DEF GetTodaysMemoryFails, Answer
<1> QED BY <1>1, <1>2, <1>3

LEMMA TypeStep == TypeOK /\ AnsweredInOrder /\ [Next]_vars => TypeOK'
<1> SUFFICES ASSUME TypeOK, AnsweredInOrder, [Next]_vars PROVE TypeOK'
  OBVIOUS
<1>1. CASE Rotate
  BY <1>1 DEF Rotate, Lifecycle!Rotate, TypeOK, screenVars, flightVars
<1>2. CASE Launch
  BY <1>2, SentIsAFetch DEF Launch, TypeOK, storeVars
<1>3. CASE Kill
  BY <1>3, WritesOutlive, EmptySeq DEF Kill, TypeOK, storeVars
<1>4. CASE RefreshMemory
  BY <1>4, OneMoreFetch DEF RefreshMemory, TypeOK, storeVars
<1>5. CASE GetTodaysMemory \/ GetTodaysMemoryOffline \/ GetTodaysMemoryFails
  <2>1. PICK m \in Memories \cup {NoMemory} :
          /\ Answer(m)
          /\ cached' \in {cached, m}
          /\ UNCHANGED <<status, seen, running, screenVars, writes, timers, refused, crossed>>
    BY <1>5, AnAnswer
  <2>2. fetches' \in Seq(Fetches)
    BY <2>1, WhichAnswer
  <2> QED BY <2>1, <2>2 DEF TypeOK, screenVars
<1>6. CASE MemoryArrives
  <2>1. fetches' \in Seq(Fetches) /\ Head(fetches) \in Fetches
    BY <1>6, OneFetchLess DEF MemoryArrives
  <2>2. crossed' \in BOOLEAN
    BY <1>6 DEF MemoryArrives, Revealing
  <2> QED BY <1>6, <2>1, <2>2 DEF MemoryArrives, ShowMemory, TypeOK, Fetches, storeVars
<1>7. CASE NilArrives
  BY <1>7, OneFetchLess DEF NilArrives, TypeOK, storeVars
<1>8. CASE DismissAlert
  BY <1>8 DEF DismissAlert, TypeOK, storeVars, flightVars
<1>9. CASE RevealMemory
  <2>1. writes' \in Seq(Writes) /\ alert' \in BOOLEAN
    <3>1. writes \in Seq(Writes) /\ alert \in BOOLEAN
      BY DEF TypeOK
    <3>2. CASE memory = NoMemory
      BY <1>9, <3>1, <3>2 DEF RevealMemory
    <3>3. CASE memory # NoMemory
      BY <1>9, <3>1, <3>3, OneMoreWrite DEF RevealMemory
    <3> QED BY <3>2, <3>3
  <2> QED BY <1>9, <2>1 DEF RevealMemory, TypeOK, storeVars
<1>10. CASE SeenAcknowledged \/ SeenRefused
  <2>1. writes' \in Seq(Writes) /\ Head(writes) \in Writes
    BY <1>10, OneWriteLess DEF SeenAcknowledged, SeenRefused
  <2>2. CASE SeenAcknowledged
    <3>1. Head(writes).id \in Memories
      BY <2>1 DEF Writes
    <3>2. veil' \in BOOLEAN /\ timers' \in Nat
      <4>1. veil \in BOOLEAN /\ timers \in Nat
        BY DEF TypeOK
      <4>2. CASE Head(writes).live
        <5>1. veil' = FALSE /\ timers' = timers + 1
          BY <2>2, <4>2 DEF SeenAcknowledged, Unveil
        <5>2. veil' \in BOOLEAN
          BY <5>1, Zenon
        <5> QED BY <4>1, <5>1, <5>2
      <4>3. CASE ~Head(writes).live
        BY <2>2, <4>1, <4>3 DEF SeenAcknowledged, Unveil
      <4> QED BY <4>2, <4>3
    <3> QED BY <2>1, <2>2, <3>1, <3>2 DEF SeenAcknowledged, TypeOK
  <2>3. CASE SeenRefused
    BY <2>1, <2>3 DEF SeenRefused, TypeOK, Writes, storeVars
  <2> QED BY <1>10, <2>2, <2>3
<1>11. CASE TimerFires
  BY <1>11 DEF TimerFires, TypeOK, storeVars
<1>12. CASE UNCHANGED vars
  BY <1>12 DEF vars, storeVars, screenVars, flightVars, TypeOK
<1> QED
  BY <1>1, <1>2, <1>3, <1>4, <1>5, <1>6, <1>7, <1>8, <1>9, <1>10, <1>11, <1>12
  DEF Next

LEMMA StrandedStep == TypeOK /\ NeverStranded /\ [Next]_vars => NeverStranded'
<1> SUFFICES ASSUME TypeOK, NeverStranded, [Next]_vars PROVE NeverStranded'
  OBVIOUS
<1>1. CASE UNCHANGED <<memory, veil, content, timers>>
  BY <1>1 DEF NeverStranded
<1>2. CASE Kill
  BY <1>2 DEF Kill, NeverStranded
<1>3. CASE MemoryArrives
  <2>1. Head(fetches).seen \in BOOLEAN
    BY <1>3, OneFetchLess DEF MemoryArrives, Fetches
  <2> QED BY <1>3, <2>1 DEF MemoryArrives, ShowMemory, NeverStranded
<1>4. CASE SeenAcknowledged
  BY <1>4 DEF SeenAcknowledged, Unveil, NeverStranded, TypeOK
<1>5. CASE TimerFires
  BY <1>5 DEF TimerFires, NeverStranded
<1>6. QED
  BY <1>1, <1>2, <1>3, <1>4, <1>5
  DEF Next, vars, storeVars, screenVars, flightVars, Rotate, Launch, RefreshMemory,
      GetTodaysMemory, GetTodaysMemoryOffline, GetTodaysMemoryFails, Answer, NilArrives,
      DismissAlert, RevealMemory, SeenRefused

-----------------------------------------------------------------------------
(* Reveals.                                                                *)

\* What was tapped stays tapped.
LEMMA TappedGrows ==
  ASSUME TypeOK, [Next]_vars
  PROVE  Tapped \subseteq Tapped'
<1>1. CASE UNCHANGED <<seen, writes, refused>>
  BY <1>1 DEF Tapped, Pending
<1>2. CASE Kill
  BY <1>2, WritesOutlive DEF Kill, Tapped, storeVars
<1>3. CASE RevealMemory
  <2>1. Pending \subseteq Pending'
    <3>1. CASE memory = NoMemory
      BY <1>3, <3>1 DEF RevealMemory, Pending
    <3>2. CASE memory # NoMemory
      BY <1>3, <3>2, OneMoreWrite DEF RevealMemory, Pending
    <3> QED BY <3>1, <3>2
  <2> QED BY <1>3, <2>1 DEF RevealMemory, Tapped, storeVars
<1>4. CASE SeenAcknowledged
  BY <1>4, OneWriteLess DEF SeenAcknowledged, Tapped
<1>5. CASE SeenRefused
  BY <1>5, OneWriteLess DEF SeenRefused, Tapped, storeVars
<1> QED
  BY <1>1, <1>2, <1>3, <1>4, <1>5
  DEF Next, vars, storeVars, screenVars, flightVars, Rotate, Launch, RefreshMemory,
      GetTodaysMemory, GetTodaysMemoryOffline, GetTodaysMemoryFails, Answer,
      MemoryArrives, NilArrives, DismissAlert, TimerFires

\* The second half of RevealsInOrder: answers that say `seen' tell the truth.
LEMMA SeenAnswersStep ==
  ASSUME TypeOK, RevealsInOrder, AnsweredInOrder, [Next]_vars
  PROVE  \A i \in DOMAIN fetches' : fetches'[i].seen => fetches'[i].id \in Tapped'
<1>1. Tapped \subseteq Tapped'
  BY TappedGrows
<1>2. \A i \in DOMAIN fetches : fetches[i].seen => fetches[i].id \in Tapped
  BY DEF RevealsInOrder
<1>3. CASE UNCHANGED fetches
  BY <1>1, <1>2, <1>3
<1>4. CASE Launch
  BY <1>4, SentIsAFetch DEF Launch
<1>5. CASE Kill
  BY <1>5 DEF Kill
<1>6. CASE RefreshMemory
  BY <1>1, <1>2, <1>6, OneMoreFetch, SentIsAFetch DEF RefreshMemory
<1>7. CASE GetTodaysMemory \/ GetTodaysMemoryOffline \/ GetTodaysMemoryFails
  <2>1. PICK m \in Memories \cup {NoMemory} : Answer(m)
    BY <1>7, AnAnswer
  <2>2. m \in seen \cup Pending => m \in Tapped'
    BY <1>1 DEF Tapped
  <2> QED BY <1>1, <1>2, <2>1, <2>2, WhichAnswer
<1>8. CASE MemoryArrives \/ NilArrives
  BY <1>1, <1>2, <1>8, OneFetchLess DEF MemoryArrives, NilArrives
<1> QED
  BY <1>3, <1>4, <1>5, <1>6, <1>7, <1>8
  DEF Next, vars, storeVars, screenVars, flightVars, Rotate, DismissAlert, RevealMemory,
      SeenAcknowledged, SeenRefused, TimerFires

LEMMA RevealsStep ==
  TypeOK /\ RevealsInOrder /\ AnsweredInOrder /\ [Next]_vars => RevealsInOrder'
<1> SUFFICES ASSUME TypeOK, RevealsInOrder, AnsweredInOrder, [Next]_vars, ~crossed'
             PROVE  /\ content' \/ timers' > 0 => memory' \in Tapped' /\ ~veil'
                    /\ \A i \in DOMAIN writes' : writes'[i].live => writes'[i].id = memory'
  BY SeenAnswersStep DEF RevealsInOrder
<1>1. Tapped \subseteq Tapped'
  BY TappedGrows
<1>2. CASE UNCHANGED <<memory, veil, content, timers, writes, crossed>>
  BY <1>1, <1>2 DEF RevealsInOrder
<1>3. CASE Kill
  <2>1. ~content' /\ ~(timers' > 0)
    BY <1>3 DEF Kill
  <2> QED BY <1>3, <2>1, WritesOutlive
<1>4. CASE MemoryArrives
  <2>1. ~Revealing
    BY <1>4 DEF MemoryArrives
  <2>2. ~(timers' > 0) /\ \A i \in DOMAIN writes' : ~writes'[i].live
    BY <1>4, <2>1 DEF MemoryArrives, Revealing
  <2>3. Head(fetches).seen => Head(fetches).id \in Tapped
    BY <1>4, OneFetchLess DEF MemoryArrives, RevealsInOrder
  <2>4. content' => memory' \in Tapped' /\ ~veil'
    BY <1>1, <1>4, <2>3 DEF MemoryArrives, ShowMemory
  <2> QED BY <2>2, <2>4
<1>5. CASE RevealMemory
  <2>1. ASSUME NEW i \in DOMAIN writes', writes'[i].live
        PROVE  writes'[i].id = memory
    <3>1. CASE memory = NoMemory
      BY <1>5, <2>1, <3>1 DEF RevealMemory, RevealsInOrder
    <3>2. CASE memory # NoMemory
      BY <1>5, <2>1, <3>2, OneMoreWrite DEF RevealMemory, RevealsInOrder
    <3> QED BY <3>1, <3>2
  <2> QED BY <1>1, <1>5, <2>1 DEF RevealMemory, RevealsInOrder
<1>6. CASE SeenAcknowledged \/ SeenRefused
  <2>1. /\ Head(writes) = writes[1] /\ 1 \in DOMAIN writes
        /\ \A i \in DOMAIN writes' : i + 1 \in DOMAIN writes /\ writes'[i] = writes[i + 1]
    BY <1>6, OneWriteLess DEF SeenAcknowledged, SeenRefused
  <2>2. \A i \in DOMAIN writes' : writes'[i].live => writes'[i].id = memory'
    BY <1>6, <2>1 DEF SeenAcknowledged, SeenRefused, RevealsInOrder
  <2>3. CASE SeenRefused
    BY <1>1, <2>2, <2>3 DEF SeenRefused, RevealsInOrder
  <2>4. CASE SeenAcknowledged
    <3>1. CASE Head(writes).live
      <4>1. Head(writes).id = memory /\ Head(writes).id \in Tapped'
        BY <2>1, <2>4, <3>1 DEF SeenAcknowledged, RevealsInOrder, Tapped
      <4> QED BY <2>2, <2>4, <3>1, <4>1 DEF SeenAcknowledged, Unveil
    <3>2. CASE ~Head(writes).live
      BY <1>1, <2>2, <2>4, <3>2 DEF SeenAcknowledged, Unveil, RevealsInOrder
    <3> QED BY <3>1, <3>2
  <2> QED BY <1>6, <2>3, <2>4
<1>7. CASE TimerFires
  BY <1>1, <1>7 DEF TimerFires, RevealsInOrder
<1> QED
  BY <1>2, <1>3, <1>4, <1>5, <1>6, <1>7
  DEF Next, vars, storeVars, screenVars, flightVars, Rotate, Launch, RefreshMemory,
      GetTodaysMemory, GetTodaysMemoryOffline, GetTodaysMemoryFails, Answer, NilArrives,
      DismissAlert

-----------------------------------------------------------------------------
(* The order of the days.                                                  *)

LEMMA AnsweredStep == TypeOK /\ AnsweredInOrder /\ [Next]_vars => AnsweredInOrder'
<1> SUFFICES ASSUME TypeOK, AnsweredInOrder, [Next]_vars PROVE AnsweredInOrder'
  OBVIOUS
<1>1. CASE UNCHANGED fetches
  BY <1>1 DEF AnsweredInOrder
<1>2. CASE Launch
  BY <1>2, SentIsAFetch DEF Launch, AnsweredInOrder
<1>3. CASE Kill
  BY <1>3 DEF Kill, AnsweredInOrder
<1>4. CASE RefreshMemory
  BY <1>4, OneMoreFetch, SentIsAFetch DEF RefreshMemory, AnsweredInOrder
<1>5. CASE GetTodaysMemory \/ GetTodaysMemoryOffline \/ GetTodaysMemoryFails
  <2>1. PICK m \in Memories \cup {NoMemory} : Answer(m)
    BY <1>5, AnAnswer
  <2>2. /\ Len(fetches) \in Nat /\ DOMAIN fetches = 1 .. Len(fetches)
        /\ DOMAIN fetches' = DOMAIN fetches
    BY <2>1, WhichAnswer
  <2>3. PICK k \in DOMAIN fetches :
          /\ fetches'[k].answered
          /\ \A i \in DOMAIN fetches : i # k => fetches'[i] = fetches[i]
          /\ \A i \in DOMAIN fetches : i < k => fetches[i].answered
          /\ \A i \in DOMAIN fetches : i > k => ~fetches[i].answered
    BY <2>1, WhichAnswer
  <2> QED BY <2>2, <2>3 DEF AnsweredInOrder
<1>6. CASE MemoryArrives \/ NilArrives
  <2>1. /\ Len(fetches) \in Nat \ {0}
        /\ DOMAIN fetches = 1 .. Len(fetches) /\ DOMAIN fetches' = 1 .. Len(fetches) - 1
        /\ \A i \in DOMAIN fetches' : fetches'[i] = fetches[i + 1]
    BY <1>6, OneFetchLess DEF MemoryArrives, NilArrives
  <2> QED BY <2>1 DEF AnsweredInOrder
<1> QED
  BY <1>1, <1>2, <1>3, <1>4, <1>5, <1>6
  DEF Next, vars, storeVars, screenVars, flightVars, Rotate, DismissAlert, RevealMemory,
      SeenAcknowledged, SeenRefused, TimerFires

LEMMA FetchIds ==
  ASSUME TypeOK
  PROVE  /\ \A i \in DOMAIN fetches : fetches[i].id \in Memories \cup {NoMemory}
         /\ \A i \in DOMAIN fetches : \A j \in 1 .. i - 1 : j \in DOMAIN fetches
<1>1. fetches \in Seq(Fetches)
  BY DEF TypeOK
<1>2. ASSUME NEW i \in DOMAIN fetches
      PROVE  fetches[i].id \in Memories \cup {NoMemory}
  <2>1. fetches[i] \in Fetches
    BY <1>1, ElementOfSeq, LenProperties
  <2> QED BY <2>1 DEF Fetches
<1> QED BY <1>1, <1>2, LenProperties

\* A rotation ends days and begins one; it reorders none that have begun.
LEMMA RotateKeepsDays == TypeOK /\ DaysInOrder /\ Rotate => DaysInOrder'
<1> SUFFICES ASSUME TypeOK, DaysInOrder, Rotate PROVE DaysInOrder'
  OBVIOUS
<1>1. PICK chosen \in Lifecycle!Of("future") \cup {NoMemory} :
        status' = [m \in Memories |->
                     IF m = chosen THEN "current"
                     ELSE IF status[m] = "current" THEN "past" ELSE status[m]]
  BY DEF Rotate, Lifecycle!Rotate
<1>2. chosen # NoMemory => status[chosen] = "future"
  BY <1>1 DEF Lifecycle!Of
<1>3. ASSUME NEW m \in Memories
      PROVE  /\ status[m] \in {"current", "past"} => status'[m] \in {"current", "past"}
             /\ status[m] = "past" => status'[m] = "past"
  BY <1>1, <1>2, MemoryAssumption
<1>4. /\ memory \in Memories \cup {NoMemory} /\ cached \in Memories \cup {NoMemory}
      /\ \A i \in DOMAIN fetches : fetches[i].id \in Memories \cup {NoMemory}
      /\ \A i \in DOMAIN fetches : \A j \in 1 .. i - 1 : j \in DOMAIN fetches
  BY FetchIds DEF TypeOK
<1>5. ASSUME NEW m \in Memories \cup {NoMemory}
      PROVE  /\ Known(m) => Known(m)'
             /\ \A n : NoLaterThan(m, n) => NoLaterThan(m, n)'
  BY <1>3 DEF Known, NoLaterThan
<1>6. UNCHANGED <<memory, cached, fetches>>
  BY DEF Rotate, screenVars, flightVars
<1>7. /\ Known(memory)' /\ Known(cached)'
      /\ NoLaterThan(memory, cached)'
  BY <1>4, <1>5, <1>6 DEF DaysInOrder, Known, NoLaterThan
<1>8. \A i \in DOMAIN fetches :
        /\ Known(fetches[i].id)'
        /\ NoLaterThan(memory, fetches[i].id)'
        /\ NoLaterThan(fetches[i].id, cached)'
        /\ \A j \in 1 .. i - 1 : NoLaterThan(fetches[j].id, fetches[i].id)'
  BY <1>4, <1>5, <1>6 DEF DaysInOrder, Known, NoLaterThan
<1> QED BY <1>6, <1>7, <1>8 DEF DaysInOrder

LEMMA DaysStep ==
  TypeOK /\ AnsweredInOrder /\ DaysInOrder /\ [Next]_vars => DaysInOrder'
<1> SUFFICES ASSUME TypeOK, AnsweredInOrder, DaysInOrder, [Next]_vars PROVE DaysInOrder'
  OBVIOUS
<1>1. CASE UNCHANGED <<status, cached, memory, fetches>>
  BY <1>1 DEF DaysInOrder, Known, NoLaterThan
<1>2. CASE Rotate
  BY <1>2, RotateKeepsDays
<1>3. CASE Launch
  BY <1>3, SentIsAFetch DEF Launch, storeVars, DaysInOrder, Known, NoLaterThan
<1>4. CASE Kill
  BY <1>4 DEF Kill, storeVars, DaysInOrder, Known, NoLaterThan
<1>5. CASE RefreshMemory
  <2>1. UNCHANGED <<status, cached, memory>>
    BY <1>5 DEF RefreshMemory, storeVars
  <2> QED BY <1>5, <2>1, OneMoreFetch, SentIsAFetch
    DEF RefreshMemory, DaysInOrder, Known, NoLaterThan
<1>6. CASE GetTodaysMemory \/ GetTodaysMemoryOffline \/ GetTodaysMemoryFails
  <2>1. PICK m \in Memories \cup {NoMemory} :
          /\ Answer(m)
          /\ UNCHANGED <<status, memory>>
          /\ \/ m = NoMemory /\ cached' \in {cached, m}
             \/ m = cached /\ cached' = cached
             \/ Lifecycle!Of("current") = {m} /\ cached' = m
    BY <1>6, AnAnswer DEF screenVars
  <2>2. /\ Len(fetches) \in Nat /\ DOMAIN fetches = 1 .. Len(fetches)
        /\ DOMAIN fetches' = DOMAIN fetches
    BY <2>1, WhichAnswer
  <2>3. PICK k \in DOMAIN fetches :
          /\ fetches'[k].id = m
          /\ \A i \in DOMAIN fetches : i # k => fetches'[i] = fetches[i]
          /\ \A i \in DOMAIN fetches : i > k => fetches[i].id = NoMemory
    BY <2>1, WhichAnswer DEF AnsweredInOrder
  \* Whatever has had its day is no later than what is answered now.
  <2>4. /\ Known(m) /\ Known(cached')
        /\ NoLaterThan(m, cached')
        /\ \A n \in Memories \cup {NoMemory} :
             Known(n) /\ NoLaterThan(n, cached)
               => NoLaterThan(n, m) /\ NoLaterThan(n, cached')
    <3>1. CASE Lifecycle!Of("current") = {m} /\ cached' = m
      BY <3>1 DEF Lifecycle!Of, Known, NoLaterThan
    <3>2. CASE ~(Lifecycle!Of("current") = {m} /\ cached' = m)
      BY <2>1, <3>2 DEF DaysInOrder, Known, NoLaterThan
    <3> QED BY <3>1, <3>2
  <2>5. \A i \in DOMAIN fetches : fetches[i].id \in Memories \cup {NoMemory}
    BY FetchIds
  <2>6. Known(memory) /\ NoLaterThan(memory, m) /\ NoLaterThan(memory, cached')
    BY <2>4 DEF DaysInOrder, TypeOK
  <2>7. ASSUME NEW i \in DOMAIN fetches
        PROVE  /\ Known(fetches'[i].id)
               /\ NoLaterThan(memory, fetches'[i].id)
               /\ NoLaterThan(fetches'[i].id, cached')
               /\ \A j \in 1 .. i - 1 : NoLaterThan(fetches'[j].id, fetches'[i].id)
    <3>1. CASE i = k
      <4>1. ASSUME NEW j \in 1 .. i - 1
            PROVE  NoLaterThan(fetches'[j].id, m)
        BY <2>2, <2>3, <2>4, <2>5, <3>1, <4>1 DEF DaysInOrder
      <4> QED BY <2>3, <2>4, <2>6, <3>1, <4>1
    <3>2. CASE i < k
      BY <2>2, <2>3, <2>4, <2>5, <3>2 DEF DaysInOrder
    <3>3. CASE i > k
      BY <2>2, <2>3, <3>3 DEF Known, NoLaterThan
    <3> QED BY <2>2, <3>1, <3>2, <3>3
  <2> QED BY <2>1, <2>2, <2>4, <2>6, <2>7 DEF DaysInOrder, Known, NoLaterThan
<1>7. CASE MemoryArrives \/ NilArrives
  <2>1. /\ Len(fetches) \in Nat \ {0}
        /\ DOMAIN fetches = 1 .. Len(fetches) /\ DOMAIN fetches' = 1 .. Len(fetches) - 1
        /\ \A i \in DOMAIN fetches' : fetches'[i] = fetches[i + 1]
        /\ Head(fetches) = fetches[1]
    BY <1>7, OneFetchLess DEF MemoryArrives, NilArrives
  <2>2. UNCHANGED <<status, cached>> /\ memory' \in {memory, fetches[1].id}
    BY <1>7, <2>1 DEF MemoryArrives, NilArrives, ShowMemory, storeVars
  <2>3. /\ Known(memory') /\ NoLaterThan(memory', cached)
        /\ \A i \in DOMAIN fetches' : NoLaterThan(memory', fetches[i + 1].id)
    BY <2>1, <2>2 DEF DaysInOrder
  <2>4. \A i \in DOMAIN fetches' : \A j \in 1 .. i - 1 :
          NoLaterThan(fetches'[j].id, fetches'[i].id)
    BY <2>1 DEF DaysInOrder
  <2>5. \A i \in DOMAIN fetches' :
          Known(fetches'[i].id) /\ NoLaterThan(fetches'[i].id, cached)
    BY <2>1 DEF DaysInOrder
  <2> QED BY <2>1, <2>2, <2>3, <2>4, <2>5 DEF DaysInOrder, Known, NoLaterThan
<1> QED
  BY <1>1, <1>2, <1>3, <1>4, <1>5, <1>6, <1>7
  DEF Next, vars, storeVars, screenVars, flightVars, DismissAlert, RevealMemory,
      SeenAcknowledged, SeenRefused, TimerFires

LEMMA TodayStep == TodayInv /\ [Next]_vars => TodayInv'
BY TypeStep, StrandedStep, RevealsStep, AnsweredStep, DaysStep DEF TodayInv

\* The memory on the screen changes only for one no earlier, hence not while it is
\* itself today's.
LEMMA NotBackStep ==
  TodayInv /\ [Next]_vars
    => [running' /\ memory' # memory => memory \notin Lifecycle!Of("current")]_vars
<1> SUFFICES ASSUME TodayInv, Next, running', memory' # memory
             PROVE  memory \notin Lifecycle!Of("current")
  BY DEF vars
<1>1. MemoryArrives
  BY DEF Next, screenVars, Rotate, Launch, Kill, RefreshMemory, GetTodaysMemory,
         GetTodaysMemoryOffline, GetTodaysMemoryFails, Answer, NilArrives, DismissAlert,
         RevealMemory, SeenAcknowledged, SeenRefused, TimerFires
<1>2. 1 \in DOMAIN fetches /\ memory' = fetches[1].id /\ fetches[1].id # NoMemory
  BY <1>1, OneFetchLess DEF MemoryArrives, ShowMemory, TodayInv
<1>3. NoLaterThan(memory, memory')
  BY <1>2 DEF TodayInv, DaysInOrder
<1> QED BY <1>2, <1>3, MemoryAssumption DEF NoLaterThan, Lifecycle!Of

-----------------------------------------------------------------------------
(* The theorems.                                                           *)

\* Every state of the screen, the store and what is in flight is of the types that
\* TodayScreen declares.
THEOREM TodayTypes == Spec => []TypeOK
BY TodayInit, TodayStep, PTL DEF Spec, TodayInv

\* The veil never hides nothing and a loaded screen at rest is never blank, in
\* whatever order fetches, acknowledgements and timers land on the main queue.
THEOREM TodayNeverStrands == Spec => []NeverStranded
BY TodayInit, TodayStep, PTL DEF Spec, TodayInv

\* A memory is shown without its veil only if its own heart was tapped, unless a
\* fetch landed between a tap and its timer (setMemorySeen's completion does not
\* look at which memory the screen holds).
THEOREM RevealIsOfTapped == Spec => []UndisturbedReveal
<1>1. TodayInv => UndisturbedReveal
  BY DEF TodayInv, RevealsInOrder, Tapped, UndisturbedReveal
<1> QED BY <1>1, TodayInit, TodayStep, PTL DEF Spec

\* However slow an answer is, and whether it comes from the server or the cache, it
\* does not replace the memory of today by an earlier one.
THEOREM ScreenNeverGoesBack == Spec => NeverBackToOlder
BY TodayInit, TodayStep, NotBackStep, PTL DEF Spec, NeverBackToOlder
=============================================================================
