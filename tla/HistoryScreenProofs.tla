------------------------ MODULE HistoryScreenProofs ------------------------
(***************************************************************************)
(* Theorems about HistoryScreen, for any set of memories and any number of *)
(* fetches in flight.                                                      *)
(*                                                                         *)
(* What UpToDate says of a list at rest, Fresh says of the answer that the *)
(* list waits for; and the list shrinks only as ShrinksOnlyOnError says,   *)
(* because the answers under way grow in the order in which they will be   *)
(* shown, but for what is refused or left out.                             *)
(***************************************************************************)
EXTENDS HistoryScreen, SequenceTheorems, TLAPS

-----------------------------------------------------------------------------
(* The inductive invariant.                                                *)

AnsweredInOrder ==
  \A i, j \in DOMAIN fetches : i < j /\ fetches[j].answered => fetches[i].answered

Past == Lifecycle!Of("past")

\* What the cache knows is true of the collection, and so is what was read last,
\* unless it was overtaken.
CacheIsTrue ==
  /\ known \subseteq Past /\ cachedSeen \subseteq seen
  /\ result \subseteq Past \cap seen
  /\ read = "fresh" => result = Past \cap seen

\* What UpToDate says of the list.
Right(docs) == Past \cap seen \subseteq docs /\ docs \subseteq Past \cap (seen \cup pending)

\* With nothing to excuse it, the last answer is right, and so is the list when
\* no answer is left.
Fresh ==
  ~push /\ ~excused =>
    /\ fetches # <<>> /\ fetches[Len(fetches)].answered
         => Right(fetches[Len(fetches)].memories)
    /\ loaded /\ fetches = <<>> => Right(list)

\* The list and the answers on their way to it hold nothing but what the cache has,
\* or had before a tap was refused.
Nested ==
  /\ list \subseteq Local \cup refused
  /\ \A i \in DOMAIN fetches : fetches[i].memories \subseteq Local \cup refused

\* A good answer takes back nothing of what is shown before it, but for what it left
\* out and what was refused.
Keeps(docs, f) == docs \subseteq f.memories \cup f.undecoded \cup refused

AnswersGrow ==
  \A j \in DOMAIN fetches :
    fetches[j].answered /\ fetches[j].ok =>
      /\ Keeps(list, fetches[j])
      /\ \A i \in 1 .. j - 1 : Keeps(fetches[i].memories, fetches[j])

HistoryInv ==
  /\ TypeOK
  /\ AnsweredInOrder
  /\ CacheIsTrue
  /\ Fresh
  /\ Nested
  /\ AnswersGrow

-----------------------------------------------------------------------------

LEMMA HistoryInit == Init => HistoryInv
<1> SUFFICES ASSUME Init PROVE HistoryInv
  OBVIOUS
<1>1. TypeOK
  BY EmptySeq DEF Init, TypeOK
<1>2. AnsweredInOrder /\ CacheIsTrue /\ Fresh /\ Nested /\ AnswersGrow
  BY DEF Init, AnsweredInOrder, CacheIsTrue, Fresh, Nested, AnswersGrow, Keeps
<1> QED BY <1>1, <1>2 DEF HistoryInv

\* One more fetch in flight, whatever it was made for.
LEMMA FetchKeeps ==
  ASSUME HistoryInv, FetchPastMemories,
         UNCHANGED <<status, seen, writeVars, cacheVars, listenVars, running, list, detail,
                     excused>>,
         push' \in BOOLEAN, loaded' \in BOOLEAN
  PROVE  HistoryInv'
<1> USE DEF HistoryInv, FetchPastMemories, writeVars, cacheVars, listenVars
<1>1. fetches \in Seq(Fetches) /\ Sent \in Fetches
  BY DEF TypeOK, Sent, Fetches
<1>2. /\ fetches' \in Seq(Fetches)
      /\ Len(fetches') = Len(fetches) + 1
      /\ \A i \in 1 .. Len(fetches) : fetches'[i] = fetches[i]
      /\ fetches'[Len(fetches')] = Sent
  BY <1>1, AppendProperties
<1>3. Len(fetches) \in Nat /\ DOMAIN fetches = 1 .. Len(fetches)
        /\ DOMAIN fetches' = 1 .. Len(fetches) + 1
  BY <1>1, <1>2, LenProperties
<1>4. ~Sent.answered /\ Sent.memories = {}
  BY DEF Sent
<1>5. TypeOK'
  BY <1>2 DEF TypeOK
<1>6. AnsweredInOrder' /\ Fresh'
  BY <1>2, <1>3, <1>4 DEF AnsweredInOrder, Fresh
<1>7. CacheIsTrue' /\ Local' = Local
  BY DEF CacheIsTrue, Past, Lifecycle!Of, Local, Matches
<1>8. Nested' /\ AnswersGrow'
  BY <1>2, <1>3, <1>4, <1>7 DEF Nested, AnswersGrow, Keeps
<1> QED BY <1>5, <1>6, <1>7, <1>8

\* An answer, be it from the server, from the cache or an error: a good one is all
\* that the cache has by then, but for what does not decode.
LEMMA AnswerKeeps ==
  ASSUME HistoryInv, NEW docs, NEW bad \in SUBSET docs, NEW good \in BOOLEAN,
         Answer(docs, bad, good),
         cachedSeen' \subseteq Memories, CacheIsTrue', Local \subseteq Local',
         docs \subseteq Local', good => docs = Local',
         ~excused' => bad = {} /\ Right(docs),
         excused' \in BOOLEAN
  PROVE  HistoryInv'
<1> USE DEF HistoryInv
<1> DEFINE answer == [answered |-> TRUE, memories |-> docs \ bad, undecoded |-> bad, ok |-> good]
<1>1. PICK k \in DOMAIN fetches :
        /\ ~fetches[k].answered
        /\ \A j \in 1 .. k - 1 : fetches[j].answered
        /\ fetches' = [fetches EXCEPT ![k] = answer]
        /\ UNCHANGED <<storeVars, writeVars, listenVars, running, loaded, list, detail>>
  BY DEF Answer
<1>2. known' \subseteq Memories /\ Local' \subseteq Memories
  BY <1>1 DEF CacheIsTrue, Past, Lifecycle!Of, Local, Matches
<1>3. fetches \in Seq(Fetches) /\ answer \in Fetches
  BY <1>2 DEF TypeOK, Fetches
<1>4. /\ fetches' \in Seq(Fetches) /\ DOMAIN fetches' = DOMAIN fetches
      /\ Len(fetches') = Len(fetches)
      /\ fetches'[k] = answer
      /\ \A i \in DOMAIN fetches : i # k => fetches'[i] = fetches[i]
  BY <1>1, <1>3, ExceptSeq
<1>5. Len(fetches) \in Nat /\ DOMAIN fetches = 1 .. Len(fetches)
  BY <1>3, LenProperties
<1>6. \A i \in DOMAIN fetches : i > k => ~fetches[i].answered
  BY <1>1, <1>5 DEF AnsweredInOrder
<1>7. TypeOK'
  BY <1>1, <1>2, <1>4 DEF TypeOK, storeVars, writeVars, listenVars
<1>8. AnsweredInOrder'
  BY <1>1, <1>4, <1>5, <1>6 DEF AnsweredInOrder
<1>9. Fresh'
  <2>1. /\ fetches # <<>> /\ fetches' # <<>>
        /\ UNCHANGED <<status, seen, pending>>
    BY <1>1, <1>3, <1>4, <1>5, EmptySeq DEF storeVars, writeVars
  <2>2. fetches'[Len(fetches')].answered => Len(fetches') = k
    BY <1>1, <1>4, <1>5, <1>6
  <2>3. ASSUME ~excused', fetches'[Len(fetches')].answered
        PROVE  Right(fetches[Len(fetches)].memories)'
    <3>1. fetches'[Len(fetches')].memories = docs
      <4>1. fetches'[k].memories = docs \ bad
        BY <1>4
      <4>2. docs \ bad = docs
        BY <2>3
      <4> QED BY <2>2, <2>3, <4>1, <4>2
    <3> QED BY <2>1, <2>3, <3>1 DEF Right, Past, Lifecycle!Of
  <2> QED BY <2>1, <2>3 DEF Fresh
<1>10. Nested'
  BY <1>1, <1>4 DEF Nested, writeVars
<1>11. AnswersGrow'
  <2> SUFFICES ASSUME NEW j \in DOMAIN fetches, fetches'[j].answered, fetches'[j].ok
               PROVE  /\ Keeps(list, fetches[j])'
                      /\ \A i \in 1 .. j - 1 : Keeps(fetches[i].memories, fetches[j])'
    BY <1>4 DEF AnswersGrow
  <2>0. UNCHANGED <<list, refused>>
    BY <1>1 DEF writeVars
  <2>1. CASE j = k
    BY <1>4, <1>5, <2>0, <2>1 DEF Nested, Keeps
  <2>2. CASE j < k
    <3>1. /\ fetches'[j] = fetches[j]
          /\ \A i \in 1 .. j - 1 : i \in DOMAIN fetches /\ fetches'[i] = fetches[i]
      BY <1>4, <1>5, <2>2
    <3> QED BY <2>0, <3>1 DEF AnswersGrow, Keeps
  <2>3. CASE j > k
    BY <1>4, <1>5, <1>6, <2>3
  <2> QED BY <1>5, <2>1, <2>2, <2>3
<1> QED BY <1>7, <1>8, <1>9, <1>10, <1>11

LEMMA ArriveKeeps == HistoryInv /\ MemoriesArrive => HistoryInv'
<1> SUFFICES ASSUME HistoryInv, MemoriesArrive PROVE HistoryInv'
  OBVIOUS
<1> USE DEF HistoryInv
<1>1. /\ fetches # <<>> /\ fetches[1].answered
      /\ list' = fetches[1].memories /\ fetches' = Tail(fetches)
      /\ UNCHANGED <<storeVars, writeVars, cacheVars, running, loaded, detail, excused>>
      /\ (read' = "none" /\ result' = {}) \/ UNCHANGED listenVars
  BY DEF MemoriesArrive, ListenEnds, TypeOK
<1>2. fetches \in Seq(Fetches)
  BY DEF TypeOK
<1>3. /\ fetches' \in Seq(Fetches) /\ Len(fetches') = Len(fetches) - 1
      /\ \A i \in 1 .. Len(fetches') : fetches'[i] = fetches[i + 1]
  BY <1>1, <1>2, HeadTailProperties
<1>4. /\ Len(fetches) \in Nat \ {0} /\ DOMAIN fetches = 1 .. Len(fetches)
      /\ DOMAIN fetches' = 1 .. Len(fetches) - 1
  BY <1>1, <1>2, <1>3, LenProperties, EmptySeq
<1>5. Local' = Local /\ CacheIsTrue'
  BY <1>1 DEF CacheIsTrue, Past, Lifecycle!Of, Local, Matches, storeVars, writeVars,
              cacheVars, listenVars
<1>6. fetches[1] \in Fetches
  BY <1>2, <1>4, ElementOfSeq
<1>7. TypeOK'
  BY <1>1, <1>3, <1>6 DEF TypeOK, Fetches, storeVars, writeVars, cacheVars, listenVars
<1>8. AnsweredInOrder'
  BY <1>3, <1>4 DEF AnsweredInOrder
<1>9. Fresh'
  <2>1. fetches' = <<>> => Len(fetches) = 1
    BY <1>3, <1>4, EmptySeq
  <2>2. fetches' # <<>> => Len(fetches') \in 1 .. Len(fetches') /\ Len(fetches') + 1 = Len(fetches)
    BY <1>3, <1>4, EmptySeq
  <2>3. \A docs : Right(docs)' <=> Right(docs)
    BY <1>1 DEF Right, Past, Lifecycle!Of, storeVars, writeVars
  <2>4. ~push' /\ ~excused' => ~push /\ ~excused
    BY <1>1 DEF storeVars
  <2>5. CASE fetches' = <<>>
    BY <1>1, <2>1, <2>3, <2>4, <2>5 DEF Fresh, Right, Past, Lifecycle!Of, storeVars, writeVars
  <2>6. CASE fetches' # <<>>
    BY <1>1, <1>3, <2>2, <2>4, <2>6 DEF Fresh, Right, Past, Lifecycle!Of, storeVars, writeVars
  <2> QED BY <2>5, <2>6
<1>10. Nested'
  BY <1>1, <1>3, <1>4, <1>5 DEF Nested, writeVars
<1>11. AnswersGrow'
  BY <1>1, <1>3, <1>4 DEF AnswersGrow, Keeps, writeVars
<1> QED BY <1>5, <1>7, <1>8, <1>9, <1>10, <1>11

\* A step that leaves the list and the answers alone: what the cache loses is refused,
\* and what the list has to hold changes only with an excuse or a notification.
LEMMA StoreKeeps ==
  ASSUME HistoryInv, TypeOK', CacheIsTrue', UNCHANGED <<loaded, list, fetches>>,
         refused \subseteq refused',
         Local \subseteq Local' \cup refused',
         ~push' /\ ~excused' =>
           /\ ~push /\ ~excused
           /\ (Past \cap seen)' = Past \cap seen
           /\ Past \cap (seen \cup pending) \subseteq (Past \cap (seen \cup pending))'
  PROVE  HistoryInv'
<1> USE DEF HistoryInv
<1>1. AnsweredInOrder'
  BY DEF AnsweredInOrder
<1>2. Fresh'
  BY DEF Fresh, Right
<1>3. Nested'
  BY DEF Nested
<1>4. AnswersGrow'
  BY DEF AnswersGrow, Keeps
<1> QED BY <1>1, <1>2, <1>3, <1>4

\* What the server has read.
LEMMA ReadIsTrue == CacheIsTrue => result \subseteq Memories /\ result \subseteq seen
BY DEF CacheIsTrue, Past, Lifecycle!Of

LEMMA HistoryStep == HistoryInv /\ [Next]_vars => HistoryInv'
<1> SUFFICES ASSUME HistoryInv, [Next]_vars PROVE HistoryInv'
  OBVIOUS
<1>0. TypeOK /\ CacheIsTrue
  BY DEF HistoryInv
<1> USE DEF storeVars, writeVars, cacheVars, listenVars, screenVars, Overtakes
<1>1. CASE Rotate
  <2>1. PICK chosen \in Lifecycle!Of("future") \cup {NoMemory} :
          status' = [m \in Memories |->
                       IF m = chosen THEN "current"
                       ELSE IF status[m] = "current" THEN "past" ELSE status[m]]
    BY <1>1 DEF Rotate, Lifecycle!Rotate
  <2>2. chosen \in Memories => status[chosen] = "future"
    BY <2>1, MemoryAssumption DEF Lifecycle!Of
  <2>3. TypeOK'
    BY <1>0, <1>1, <2>1 DEF Rotate, TypeOK
  <2>4. Past \subseteq Past'
    BY <2>1, <2>2 DEF Past, Lifecycle!Of
  <2>5. CacheIsTrue' /\ Local' = Local
    BY <1>0, <1>1, <2>4 DEF Rotate, CacheIsTrue, Local, Matches
  <2> QED BY <1>1, <2>3, <2>5, StoreKeeps DEF Rotate
<1>2. ASSUME NEW m \in Memories, SetMemorySeen(m)
      PROVE  HistoryInv'
  <2>1. TypeOK' /\ CacheIsTrue' /\ Past' = Past /\ Local \subseteq Local'
    BY <1>0, <1>2 DEF SetMemorySeen, TypeOK, CacheIsTrue, Past, Lifecycle!Of, Local, Matches
  <2> QED BY <1>2, <2>1, StoreKeeps DEF SetMemorySeen
<1>3. ASSUME NEW m \in Memories, SeenApplied(m)
      PROVE  HistoryInv'
  <2>1. TypeOK' /\ Past' = Past /\ Local' = Local
    BY <1>0, <1>3 DEF SeenApplied, TypeOK, Past, Lifecycle!Of, Local, Matches
  <2>2. CacheIsTrue'
    BY <1>0, <1>3, <2>1 DEF SeenApplied, CacheIsTrue
  <2>3. excused' \/ (m \notin Past /\ UNCHANGED excused)
    BY <1>0, <1>3 DEF SeenApplied, Past, Lifecycle!Of, TypeOK
  <2> QED BY <1>3, <2>1, <2>2, <2>3, StoreKeeps DEF SeenApplied
<1>4. ASSUME NEW m \in Memories, SeenAcknowledged(m)
      PROVE  HistoryInv'
  <2>1. TypeOK' /\ CacheIsTrue' /\ Past' = Past /\ Local \subseteq Local'
    BY <1>0, <1>4 DEF SeenAcknowledged, TypeOK, CacheIsTrue, Past, Lifecycle!Of, Local, Matches
  <2> QED BY <1>4, <2>1, StoreKeeps DEF SeenAcknowledged
<1>5. ASSUME NEW m \in Memories, SeenRefused(m)
      PROVE  HistoryInv'
  <2>1. TypeOK' /\ CacheIsTrue' /\ Past' = Past
    BY <1>0, <1>5 DEF SeenRefused, TypeOK, CacheIsTrue, Past, Lifecycle!Of
  <2>2. Local \subseteq Local' \cup refused'
    BY <1>5 DEF SeenRefused, Local, Matches
  <2>3. excused' \/ ((m \notin Past \/ m \in seen) /\ UNCHANGED excused)
    BY <1>0, <1>5 DEF SeenRefused, Past, Lifecycle!Of, TypeOK
  <2> QED BY <1>5, <2>1, <2>2, <2>3, StoreKeeps DEF SeenRefused
<1>6. ASSUME NEW m \in Memories, CopyRefreshed(m)
      PROVE  HistoryInv'
  <2>1. /\ known \subseteq known' /\ known' \subseteq known \cup Past
        /\ cachedSeen \subseteq cachedSeen' /\ cachedSeen' \subseteq cachedSeen \cup seen
    BY <1>6 DEF CopyRefreshed, Past
  <2>2. CacheIsTrue' /\ Past' = Past /\ Local \subseteq Local'
    BY <1>0, <1>6, <2>1 DEF CopyRefreshed, CacheIsTrue, Past, Lifecycle!Of, Local, Matches
  <2>3. TypeOK'
    BY <1>0, <1>6, <2>1 DEF CopyRefreshed, TypeOK, Past, Lifecycle!Of
  <2> QED BY <1>6, <2>2, <2>3, StoreKeeps DEF CopyRefreshed
<1>7. CASE PushLost \/ Launch \/ Back \/ (\E m \in Memories : DidSelectItem(m)) \/ UNCHANGED vars
  <2>1. /\ UNCHANGED <<status, seen, writeVars, cacheVars, listenVars, loaded, list, fetches>>
        /\ push' \in BOOLEAN /\ running' \in BOOLEAN /\ detail' \in Memories \cup {NoMemory}
        /\ excused' \in BOOLEAN /\ (excused' \/ UNCHANGED <<push, excused>>)
    BY <1>0, <1>7 DEF PushLost, Launch, Back, DidSelectItem, vars, TypeOK
  <2>2. TypeOK' /\ CacheIsTrue' /\ Past' = Past /\ Local' = Local
    BY <1>0, <2>1 DEF TypeOK, CacheIsTrue, Past, Lifecycle!Of, Local, Matches
  <2> QED BY <2>1, <2>2, StoreKeeps
<1>8. CASE Kill
  <2>1. TypeOK'
    BY <1>0, <1>8, EmptySeq DEF Kill, TypeOK
  <2>2. AnsweredInOrder' /\ Fresh' /\ Nested' /\ AnswersGrow'
    BY <1>8 DEF Kill, AnsweredInOrder, Fresh, Nested, AnswersGrow, Keeps
  <2>3. CacheIsTrue'
    BY <1>0, <1>8 DEF Kill, CacheIsTrue, Past, Lifecycle!Of
  <2> QED BY <2>1, <2>2, <2>3 DEF HistoryInv
<1>9. CASE ViewDidLoad \/ PullToRefresh
  BY <1>0, <1>9, FetchKeeps DEF ViewDidLoad, PullToRefresh, TypeOK
<1>10. CASE Notification
  <2>1. CASE detail = NoMemory
    BY <1>0, <1>10, <2>1, FetchKeeps DEF Notification, TypeOK
  <2>2. CASE detail # NoMemory
    <3>1. TypeOK' /\ CacheIsTrue' /\ Past' = Past /\ Local' = Local
      BY <1>0, <1>10, <2>2
      DEF Notification, TypeOK, CacheIsTrue, Past, Lifecycle!Of, Local, Matches
    <3> QED BY <1>10, <2>2, <3>1, StoreKeeps DEF Notification
  <2> QED BY <2>1, <2>2
<1>11. CASE ServerReads
  <2>1. result' = Past \cap seen /\ Past' = Past /\ Local' = Local
    BY <1>11 DEF ServerReads, Past, Lifecycle!Of, Local, Matches
  <2>2. TypeOK'
    BY <1>0, <1>11, <2>1 DEF ServerReads, TypeOK
  <2>3. CacheIsTrue'
    BY <1>0, <1>11, <2>1 DEF ServerReads, CacheIsTrue
  <2> QED BY <1>11, <2>1, <2>2, <2>3, StoreKeeps DEF ServerReads
<1>12. CASE GetPastMemories
  <2> DEFINE docs == Matches(known \cup result, cachedSeen \cup result)
  <2>1. PICK bad \in SUBSET docs :
          Answer(docs, bad, TRUE) /\ excused' = (read = "overtaken" \/ bad # {})
    BY <1>12 DEF GetPastMemories
  <2>2. /\ known' = known \cup result /\ cachedSeen' = cachedSeen \cup result
        /\ read # "none"
        /\ UNCHANGED <<storeVars, writeVars, listenVars>>
    BY <1>12, <2>1 DEF GetPastMemories, Answer
  <2>3. Local' = docs /\ Local \subseteq docs
    BY <2>2 DEF Local, Matches
  <2>4. cachedSeen' \subseteq Memories
    BY <1>0, <2>2, ReadIsTrue DEF TypeOK
  <2>5. Past' = Past /\ CacheIsTrue'
    BY <1>0, <2>2 DEF CacheIsTrue, Past, Lifecycle!Of
  <2>6. read = "fresh" => Right(docs)
    BY <1>0 DEF CacheIsTrue, Right, Matches
  <2>7. ~excused' => bad = {} /\ Right(docs)
    BY <1>0, <2>1, <2>2, <2>6 DEF TypeOK
  <2>8. excused' \in BOOLEAN
    BY <2>1
  <2> HIDE DEF docs
  <2> QED BY <2>1, <2>3, <2>4, <2>5, <2>7, <2>8, AnswerKeeps
<1>13. CASE GetPastMemoriesOffline
  <2>1. PICK bad \in SUBSET Local : Answer(Local, bad, TRUE)
    BY <1>13 DEF GetPastMemoriesOffline
  <2>2. CacheIsTrue' /\ Local' = Local /\ cachedSeen' \subseteq Memories /\ excused' = TRUE
    BY <1>0, <1>13, <2>1 DEF GetPastMemoriesOffline, Answer, CacheIsTrue, Past, Lifecycle!Of,
                             Local, Matches, TypeOK
  <2> QED BY <2>1, <2>2, AnswerKeeps
<1>14. CASE GetPastMemoriesFails
  <2>1. Answer({}, {}, FALSE)
    BY <1>14 DEF GetPastMemoriesFails
  <2>2. CacheIsTrue' /\ Local \subseteq Local' /\ cachedSeen' \subseteq Memories /\ excused' = TRUE
    BY <1>0, <1>14, <2>1 DEF GetPastMemoriesFails, Answer, CacheIsTrue, Past, Lifecycle!Of,
                             Local, Matches, TypeOK
  <2>3. {} \in SUBSET {} /\ FALSE \in BOOLEAN /\ excused' \in BOOLEAN
    BY <2>2
  <2> QED BY <2>1, <2>2, <2>3, AnswerKeeps
<1> QED
  BY <1>1, <1>2, <1>3, <1>4, <1>5, <1>6, <1>7, <1>8, <1>9, <1>10, <1>11, <1>12, <1>13, <1>14,
     ArriveKeeps
  DEF Next

LEMMA ListStep ==
  HistoryInv /\ [Next]_vars =>
    [running' => \A m \in list \ list' :
       ~Head(fetches).ok \/ m \in Head(fetches).undecoded \/ m \in refused]_vars
<1> SUFFICES ASSUME HistoryInv, Next, running', NEW m \in list \ list'
             PROVE  ~Head(fetches).ok \/ m \in Head(fetches).undecoded \/ m \in refused
  BY DEF vars
<1>1. CASE MemoriesArrive
  <2>1. 1 \in DOMAIN fetches /\ Head(fetches) = fetches[1]
    BY <1>1, LenProperties, EmptySeq DEF MemoriesArrive, HistoryInv, TypeOK
  <2> QED BY <1>1, <2>1 DEF MemoriesArrive, HistoryInv, AnswersGrow, Keeps
<1>2. CASE ~MemoriesArrive
  <2>1. list' = list
    BY <1>2
    DEF Next, Rotate, SetMemorySeen, SeenApplied, SeenAcknowledged, SeenRefused,
        CopyRefreshed, DidSelectItem, PushLost, Launch, Kill, ViewDidLoad, PullToRefresh,
        Notification, ServerReads, GetPastMemories, GetPastMemoriesOffline,
        GetPastMemoriesFails, Answer, Back, screenVars
  <2> QED BY <2>1
<1> QED BY <1>1, <1>2

-----------------------------------------------------------------------------
(* The theorems.                                                           *)

\* Every state of the app and of the collection is of the declared types.
THEOREM HistoryTypes == Spec => []TypeOK
BY HistoryInit, HistoryStep, PTL DEF Spec, HistoryInv

\* A list at rest is up to date, however many fetches crossed a rotation or one
\* another (PastMemoriesViewController fetches once per notification and shows
\* the answers one by one), wherever a tap is between the phone, the store and the
\* cache, but for what UpToDate excuses.
THEOREM HistoryUpToDate == Spec => []UpToDate
<1>1. HistoryInv => UpToDate
  BY DEF HistoryInv, Fresh, Right, Past, UpToDate, Lifecycle!Of
<1> QED BY <1>1, HistoryInit, HistoryStep, PTL DEF Spec

\* An answer takes a memory off the list only if it is an error, which empties the
\* list (`memories ?? []'), if the document did not decode, or if the tap was refused.
THEOREM HistoryShrinksOnlyOnError == Spec => ShrinksOnlyOnError
BY HistoryInit, HistoryStep, ListStep, PTL DEF Spec, ShrinksOnlyOnError
=============================================================================
