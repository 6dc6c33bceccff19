--------------------------- MODULE HistoryScreen ---------------------------
(***************************************************************************)
(* The History tab of the iOS app (PastMemoriesViewController.swift), the  *)
(* query behind it (MemoryManager.getPastMemories), the memory pushed on   *)
(* top of it (a TodaysMemoryViewController that was given its memory), and *)
(* the push notifications that refresh it (NotificationManager.swift), if  *)
(* TabBarViewController finds the list on top.                             *)
(*                                                                         *)
(* The collection rotates as MemoryLifecycle allows.  A tap is in `pending' *)
(* until the store has spoken; the phone sees it at once, the store when it *)
(* is applied, and the cache of documents when it is acknowledged.         *)
(***************************************************************************)
EXTENDS Naturals, Sequences

CONSTANTS
  Memories,    \* document ids of the collection
  NoMemory,    \* no memory is pushed on top of the list
  MaxFetches   \* bound: getPastMemories calls in flight at a time

ASSUME MemoryAssumption == NoMemory \notin Memories
ASSUME FetchAssumption == MaxFetches \in Nat \ {0}

VARIABLES
  status,      \* the collection: status[m]
  seen,        \* the collection: documents with seen = true and a seenDate
  push,        \* is a notification of a rotation on its way?
  pending,     \* memories whose write of `seen' is in the phone's queue
  known,       \* cached documents whose status is past in the cache
  cachedSeen,  \* cached documents that have a seenDate of the store's
  read,        \* the server's result for the calls in flight: "none", "fresh", or
               \* "overtaken" by a rotation or a tap that came after it was read
  result,      \* that result
  running,     \* is the app's process alive?
  loaded,      \* has the History tab been opened in this session?
  list,        \* self.memories
  detail,      \* the memory on top of the list
  fetches,     \* getPastMemories calls, oldest first
  refused,     \* history: memories of which a tap was refused
  excused      \* history: why the list may lag, see UpToDate

storeVars == <<status, seen, push>>
writeVars == <<pending, refused>>
cacheVars == <<known, cachedSeen>>
listenVars == <<read, result>>
screenVars == <<running, loaded, list, detail, fetches>>
vars == <<storeVars, writeVars, cacheVars, listenVars, screenVars, excused>>

Lifecycle == INSTANCE MemoryLifecycle

Fetches ==
  [answered : BOOLEAN, memories : SUBSET Memories, undecoded : SUBSET Memories, ok : BOOLEAN]
Sent == [answered |-> FALSE, memories |-> {}, undecoded |-> {}, ok |-> FALSE]

TypeOK ==
  /\ status \in [Memories -> {"absent", "future", "current", "past"}]
  /\ seen \subseteq Memories /\ pending \subseteq Memories /\ refused \subseteq Memories
  /\ known \subseteq Memories /\ cachedSeen \subseteq Memories
  /\ read \in {"none", "fresh", "overtaken"} /\ result \subseteq Memories
  /\ push \in BOOLEAN /\ running \in BOOLEAN /\ loaded \in BOOLEAN
  /\ list \subseteq Memories /\ detail \in Memories \cup {NoMemory}
  /\ fetches \in Seq(Fetches)
  /\ excused \in BOOLEAN

Init ==
  /\ status = [m \in Memories |-> "future"]
  /\ seen = {} /\ push = FALSE
  /\ pending = {} /\ refused = {}
  /\ known = {} /\ cachedSeen = {}
  /\ read = "none" /\ result = {}
  /\ running = FALSE /\ loaded = FALSE
  /\ list = {} /\ detail = NoMemory /\ fetches = <<>>
  /\ excused = FALSE

-----------------------------------------------------------------------------
(* Around the History tab.                                                 *)

\* What was read for the calls in flight is not the latest any more.
Overtakes == read' = (IF read = "fresh" THEN "overtaken" ELSE read) /\ UNCHANGED result

\* The back end rotates and pushes.
Rotate ==
  /\ \E chosen \in Lifecycle!Of("future") \cup {NoMemory} : Lifecycle!Rotate(chosen)
  /\ push' = TRUE
  /\ Overtakes
  /\ UNCHANGED <<seen, writeVars, cacheVars, screenVars, excused>>

\* The Today tab reveals a memory it holds; by now it may be a past one.
SetMemorySeen(m) ==
  /\ running
  /\ status[m] \in {"current", "past"} /\ m \notin pending
  /\ pending' = pending \cup {m}
  /\ UNCHANGED <<storeVars, refused, cacheVars, listenVars, screenVars, excused>>

\* The store applies the write: that of a tap in the queue, or a copy on a dead
\* connection of one that was refused since.
SeenApplied(m) ==
  /\ m \in pending \cup refused /\ m \notin seen
  /\ seen' = seen \cup {m}
  /\ Overtakes
  /\ excused' = (excused \/ status[m] = "past")
  /\ UNCHANGED <<status, push, writeVars, cacheVars, screenVars>>

\* The acknowledgement puts the write into the cached document.
SeenAcknowledged(m) ==
  /\ running
  /\ m \in pending /\ m \in seen
  /\ pending' = pending \ {m}
  /\ cachedSeen' = cachedSeen \cup {m}
  /\ UNCHANGED <<storeVars, refused, known, listenVars, screenVars, excused>>

\* An error takes the write out of the queue and its overlay off the document.
SeenRefused(m) ==
  /\ running
  /\ m \in pending
  /\ pending' = pending \ {m}
  /\ refused' = refused \cup {m}
  /\ excused' = (excused \/ (status[m] = "past" /\ m \notin seen))
  /\ UNCHANGED <<storeVars, cacheVars, listenVars, screenVars>>

\* The Today tab's query, or a lookup for it, brings a later version of a document
\* into the cache, with some of what has happened to it.
CopyRefreshed(m) ==
  /\ running
  /\ known' \in {known, known \cup ({m} \cap Lifecycle!Of("past"))}
  /\ cachedSeen' \in {cachedSeen, cachedSeen \cup ({m} \cap seen)}
  /\ UNCHANGED <<storeVars, writeVars, listenVars, screenVars, excused>>

\* Never delivered, or delivered to an app in the background.
PushLost ==
  /\ push
  /\ push' = FALSE
  /\ excused' = TRUE
  /\ UNCHANGED <<status, seen, writeVars, cacheVars, listenVars, screenVars>>

Launch ==
  /\ ~running
  /\ running' = TRUE
  /\ UNCHANGED <<storeVars, writeVars, cacheVars, listenVars, loaded, list, detail, fetches,
                 excused>>

Kill ==
  /\ running
  /\ running' = FALSE /\ loaded' = FALSE
  /\ list' = {} /\ detail' = NoMemory /\ fetches' = <<>>
  /\ read' = "none" /\ result' = {}
  /\ UNCHANGED <<storeVars, writeVars, cacheVars, excused>>

-----------------------------------------------------------------------------
(* PastMemoriesViewController.                                             *)

FetchPastMemories ==
  /\ Len(fetches) < MaxFetches
  /\ fetches' = Append(fetches, Sent)

\* The tab is opened for the first time: viewDidLoad.
ViewDidLoad ==
  /\ running /\ ~loaded
  /\ loaded' = TRUE
  /\ FetchPastMemories
  /\ UNCHANGED <<storeVars, writeVars, cacheVars, listenVars, running, list, detail, excused>>

PullToRefresh ==
  /\ loaded /\ detail = NoMemory
  /\ FetchPastMemories
  /\ UNCHANGED <<storeVars, writeVars, cacheVars, listenVars, running, loaded, list, detail,
                 excused>>

\* Mutant: the notification refreshes the Today tab only.
NotificationForTodayOnly ==
  /\ running /\ push
  /\ push' = FALSE
  /\ UNCHANGED <<status, seen, writeVars, cacheVars, listenVars, screenVars, excused>>

\* receivedBackgroundNotification and its foreground twin: getPastMemoriesVC
\* is nil while a memory is on top of the list.
Notification ==
  /\ running /\ push
  /\ push' = FALSE
  /\ IF detail = NoMemory
       THEN FetchPastMemories /\ UNCHANGED excused
       ELSE excused' = TRUE /\ UNCHANGED fetches
  /\ UNCHANGED <<status, seen, writeVars, cacheVars, listenVars, running, loaded, list, detail>>

-----------------------------------------------------------------------------
(* MemoryManager.getPastMemories:                                          *)
(* whereField("status", "past").order(by: "seenDate"), which leaves out    *)
(* documents that have no seenDate.  Calls in flight share one listen.     *)

\* The server has the status and the seenDate that the store has.
ServerReads ==
  /\ fetches # <<>>
  /\ read' = "fresh"
  /\ result' = Lifecycle!Of("past") \cap seen
  /\ UNCHANGED <<storeVars, writeVars, cacheVars, screenVars, excused>>

\* The phone has those of its cached documents, with its own writes laid over.
Matches(past, dated) == past \cap (dated \cup pending)
Local == Matches(known, cachedSeen)

\* Fetches of one query are answered in the order they were made; documents that
\* do not decode are left out of a good answer.
Answer(docs, bad, good) ==
  \E i \in DOMAIN fetches :
    /\ ~fetches[i].answered
    /\ \A j \in 1 .. i - 1 : fetches[j].answered
    /\ fetches' = [fetches EXCEPT ![i] =
         [answered |-> TRUE, memories |-> docs \ bad, undecoded |-> bad, ok |-> good]]
    /\ UNCHANGED <<storeVars, writeVars, listenVars, running, loaded, list, detail>>

\* The server's result is in the cache, and the query in sync.
GetPastMemories ==
  /\ read # "none"
  /\ known' = known \cup result
  /\ cachedSeen' = cachedSeen \cup result
  /\ LET docs == Matches(known \cup result, cachedSeen \cup result)
     IN  \E bad \in SUBSET docs :
           /\ Answer(docs, bad, TRUE)
           /\ excused' = (read = "overtaken" \/ bad # {})

\* On a phone without network the query runs on the cache.
GetPastMemoriesOffline ==
  /\ \E bad \in SUBSET Local : Answer(Local, bad, TRUE)
  /\ excused' = TRUE
  /\ UNCHANGED cacheVars

\* An error from the SDK: nil, and the list becomes `memories ?? []'.
GetPastMemoriesFails == Answer({}, {}, FALSE) /\ excused' = TRUE /\ UNCHANGED cacheVars

\* The last call in flight takes the listen with it.
ListenEnds == IF fetches' = <<>> THEN read' = "none" /\ result' = {} ELSE UNCHANGED listenVars

\* Mutant: completions hop over a concurrent queue and land in any order.
MemoriesArriveAnyOrder ==
  \E i \in DOMAIN fetches :
    /\ fetches[i].answered
    /\ list' = fetches[i].memories
    /\ fetches' = SubSeq(fetches, 1, i - 1) \o SubSeq(fetches, i + 1, Len(fetches))
    /\ ListenEnds
    /\ UNCHANGED <<storeVars, writeVars, cacheVars, running, loaded, detail, excused>>

MemoriesArrive ==
  /\ fetches # <<>> /\ Head(fetches).answered
  /\ list' = Head(fetches).memories
  /\ fetches' = Tail(fetches)
  /\ ListenEnds
  /\ UNCHANGED <<storeVars, writeVars, cacheVars, running, loaded, detail, excused>>

\* didSelectItemAt pushes a controller with the memory of that cell.
DidSelectItem(m) ==
  /\ loaded /\ detail = NoMemory
  /\ m \in list
  /\ detail' = m
  /\ UNCHANGED <<storeVars, writeVars, cacheVars, listenVars, running, loaded, list, fetches,
                 excused>>

Back ==
  /\ detail # NoMemory
  /\ detail' = NoMemory
  /\ UNCHANGED <<storeVars, writeVars, cacheVars, listenVars, running, loaded, list, fetches,
                 excused>>

-----------------------------------------------------------------------------

Next ==
  \/ Rotate
  \/ \E m \in Memories :
       \/ SetMemorySeen(m) \/ SeenApplied(m) \/ SeenAcknowledged(m) \/ SeenRefused(m)
       \/ CopyRefreshed(m)
       \/ DidSelectItem(m)
  \/ PushLost
  \/ Launch
  \/ Kill
  \/ ViewDidLoad
  \/ PullToRefresh
  \/ Notification
  \/ ServerReads
  \/ GetPastMemories
  \/ GetPastMemoriesOffline
  \/ GetPastMemoriesFails
  \/ MemoriesArrive
  \/ Back

Spec == Init /\ [][Next]_vars

-----------------------------------------------------------------------------
(* Properties.                                                             *)

\* A list at rest holds every past memory that the store has as seen, and beyond
\* them only past ones with a tap of this phone on its way.  What excuses it:
\* the last fetch failed, was answered offline, left out a document it could not
\* decode, or was answered with a result that a rotation or a tap had overtaken;
\* a notification was lost, or found a memory on top of the list; and since the
\* last answer, a tap of a memory already past was applied or refused.
UpToDate ==
  loaded /\ fetches = <<>> /\ ~push /\ ~excused
    => LET past == {m \in Memories : status[m] = "past"}
       IN  past \cap seen \subseteq list /\ list \subseteq past \cap (seen \cup pending)

\* A memory that has been in the list disappears from it only when a fetch fails,
\* when its document does not decode, or if its tap was refused: no slow answer,
\* from the server or the cache, takes it away.
ShrinksOnlyOnError ==
  [][running' =>
       \A m \in list \ list' :
         ~Head(fetches).ok \/ m \in Head(fetches).undecoded \/ m \in refused]_vars
=============================================================================
