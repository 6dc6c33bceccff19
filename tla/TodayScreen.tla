---------------------------- MODULE TodayScreen ----------------------------
(***************************************************************************)
(* The Today tab of the iOS app (TodaysMemoryViewController.swift) with    *)
(* the two calls of MemoryManager.swift it makes, over a collection that   *)
(* the back end rotates as MemoryLifecycle allows.                         *)
(*                                                                         *)
(* The main queue runs one callback at a time; what is concurrent is what  *)
(* is in flight: fetches, writes of `seen', and the one-second timer       *)
(* between the fading of the veil and of the memory.  The screen itself is *)
(* two groups of views, the veil (pigeon, bubble, heart) and the memory    *)
(* (image, note), each shown or not.                                       *)
(***************************************************************************)
EXTENDS Naturals, Sequences

CONSTANTS
  Memories,     \* document ids of the collection
  NoMemory,     \* nil
  MaxFetches,   \* bound: getTodaysMemory calls in flight at a time
  MaxReveals    \* bound: writes of `seen' and reveal timers in flight

ASSUME MemoryAssumption == NoMemory \notin Memories
ASSUME BoundAssumption == MaxFetches \in Nat \ {0} /\ MaxReveals \in Nat \ {0}

VARIABLES
  status,    \* the collection: status[m]
  seen,      \* the collection: documents with seen = true (and a seenDate)
  cached,    \* what the SDK's cache on the phone holds as current
  running,   \* is the app's process alive?
  memory,    \* self.memory, whose image and note the views hold
  veil,      \* are the veilViews shown?
  content,   \* are the memoryViews shown?
  spinner,   \* is the activity indicator animating?
  alert,     \* is "Something went wrong!" on top?
  fetches,   \* getTodaysMemory calls, oldest first
  writes,    \* setMemorySeen writes the store has not acknowledged
  timers,    \* asyncAfter blocks that will show the memoryViews
  refused,   \* history: memories whose write the store refused
  crossed    \* history: the last fetch landed in the middle of a reveal

storeVars == <<status, seen, cached>>
screenVars == <<memory, veil, content, spinner, alert>>
flightVars == <<fetches, writes, timers>>
vars == <<storeVars, running, screenVars, flightVars, refused, crossed>>

Lifecycle == INSTANCE MemoryLifecycle

Fetches == [answered : BOOLEAN, id : Memories \cup {NoMemory}, seen : BOOLEAN]
Writes == [id : Memories, live : BOOLEAN]   \* live: its completion is still ours

Sent == [answered |-> FALSE, id |-> NoMemory, seen |-> FALSE]

\* The writes this phone has yet to see acknowledged; the SDK lays them over
\* everything it reads.
Pending == {writes[i].id : i \in DOMAIN writes}

Revealing == timers > 0 \/ \E i \in DOMAIN writes : writes[i].live

TypeOK ==
  /\ status \in [Memories -> {"absent", "future", "current", "past"}]
  /\ seen \subseteq Memories
  /\ cached \in Memories \cup {NoMemory}
  /\ running \in BOOLEAN
  /\ memory \in Memories \cup {NoMemory}
  /\ veil \in BOOLEAN /\ content \in BOOLEAN
  /\ spinner \in BOOLEAN /\ alert \in BOOLEAN
  /\ fetches \in Seq(Fetches)
  /\ writes \in Seq(Writes)
  /\ timers \in Nat
  /\ refused \subseteq Memories
  /\ crossed \in BOOLEAN

Init ==
  /\ status = [m \in Memories |-> "future"]
  /\ seen = {}
  /\ cached = NoMemory
  /\ running = FALSE
  /\ memory = NoMemory
  /\ veil = FALSE /\ content = FALSE /\ spinner = FALSE /\ alert = FALSE
  /\ fetches = <<>> /\ writes = <<>> /\ timers = 0
  /\ refused = {} /\ crossed = FALSE

-----------------------------------------------------------------------------
(* The back end.                                                           *)

Rotate ==
  /\ \E chosen \in Lifecycle!Of("future") \cup {NoMemory} : Lifecycle!Rotate(chosen)
  /\ UNCHANGED <<seen, cached, running, screenVars, flightVars, refused, crossed>>

-----------------------------------------------------------------------------
(* The app's process.                                                      *)

\* viewDidLoad of a fresh controller, all of whose views have alpha 0.
Launch ==
  /\ ~running
  /\ running' = TRUE
  /\ spinner' = TRUE
  /\ fetches' = <<Sent>>
  /\ UNCHANGED <<storeVars, memory, veil, content, alert, writes, timers,
                 refused, crossed>>

\* Writes are on disk and outlive the process; their completions do not.
Kill ==
  /\ running
  /\ running' = FALSE
  /\ memory' = NoMemory
  /\ veil' = FALSE /\ content' = FALSE /\ spinner' = FALSE /\ alert' = FALSE
  /\ fetches' = <<>>
  /\ timers' = 0
  /\ writes' = [i \in DOMAIN writes |-> [writes[i] EXCEPT !.live = FALSE]]
  /\ crossed' = FALSE
  /\ UNCHANGED <<storeVars, refused>>

-----------------------------------------------------------------------------
(* refreshMemory, with no memory provided.                                 *)

\* Pulled down by the reader, or called for a push notification.
RefreshMemory ==
  /\ running
  /\ Len(fetches) < MaxFetches
  /\ spinner' = TRUE
  /\ fetches' = Append(fetches, Sent)
  /\ UNCHANGED <<storeVars, running, memory, veil, content, alert, writes,
                 timers, refused, crossed>>

\* Fetches of one query are answered in the order they were made.
Answer(m) ==
  \E i \in DOMAIN fetches :
    /\ ~fetches[i].answered
    /\ \A j \in 1 .. i - 1 : fetches[j].answered
    /\ fetches' = [fetches EXCEPT ![i] =
                     [answered |-> TRUE, id |-> m, seen |-> m \in seen \cup Pending]]
    /\ UNCHANGED <<status, seen, running, screenVars, writes, timers, refused, crossed>>

\* Mutant: documents.first without a look at documents.count.
GetTodaysMemoryUnchecked ==
  \/ \E m \in Lifecycle!Of("current") : Answer(m) /\ cached' = m
  \/ Lifecycle!Of("current") = {} /\ Answer("first") /\ UNCHANGED cached

\* getTodaysMemory: exactly one current document, or nil.
GetTodaysMemory ==
  \E m \in Memories \cup {NoMemory} :
    /\ IF \E n \in Memories : Lifecycle!Of("current") = {n}
         THEN Lifecycle!Of("current") = {m}
         ELSE m = NoMemory
    /\ Answer(m)
    /\ cached' = m

\* The same on a phone without network: the query runs on the cache.
GetTodaysMemoryOffline == Answer(cached) /\ UNCHANGED cached

\* An error from the SDK, or a document that does not decode: nil.
GetTodaysMemoryFails == Answer(NoMemory) /\ UNCHANGED cached

\* Mutant: an unseen memory does not fade the memoryViews out.
ShowMemoryOnTop(mem) ==
  memory' = mem.id /\ content' = (content \/ mem.seen) /\ veil' = ~mem.seen

\* memoryController: which of the two groups of views fades in.
ShowMemory(mem) == memory' = mem.id /\ content' = mem.seen /\ veil' = ~mem.seen

\* Mutant: completions hop over a concurrent queue and land in any order.
MemoryArrivesAnyOrder ==
  \E i \in DOMAIN fetches :
    /\ fetches[i].answered /\ fetches[i].id # NoMemory
    /\ ShowMemory(fetches[i])
    /\ spinner' = FALSE
    /\ fetches' = SubSeq(fetches, 1, i - 1) \o SubSeq(fetches, i + 1, Len(fetches))
    /\ crossed' = Revealing
    /\ UNCHANGED <<storeVars, running, alert, writes, timers, refused>>

\* The completion of refreshMemory.
MemoryArrives ==
  /\ fetches # <<>>
  /\ Head(fetches).answered /\ Head(fetches).id # NoMemory
  /\ ShowMemory(Head(fetches))
  /\ spinner' = FALSE
  /\ fetches' = Tail(fetches)
  /\ crossed' = Revealing
  /\ UNCHANGED <<storeVars, running, alert, writes, timers, refused>>

\* Mutant: the nil branch returns before stopAnimating.
NilArrivesSpinning ==
  /\ fetches # <<>>
  /\ Head(fetches).answered /\ Head(fetches).id = NoMemory
  /\ alert' = TRUE
  /\ fetches' = Tail(fetches)
  /\ UNCHANGED <<storeVars, running, memory, veil, content, spinner, writes,
                 timers, refused, crossed>>

NilArrives ==
  /\ fetches # <<>>
  /\ Head(fetches).answered /\ Head(fetches).id = NoMemory
  /\ alert' = TRUE
  /\ spinner' = FALSE
  /\ fetches' = Tail(fetches)
  /\ UNCHANGED <<storeVars, running, memory, veil, content, writes, timers,
                 refused, crossed>>

DismissAlert ==
  /\ alert
  /\ alert' = FALSE
  /\ UNCHANGED <<storeVars, running, memory, veil, content, spinner, flightVars,
                 refused, crossed>>

-----------------------------------------------------------------------------
(* revealMemory.                                                           *)

\* A tap on the heart, which takes touches only while it is shown and no
\* alert covers it.
RevealMemory ==
  /\ running /\ veil /\ ~alert
  /\ Len(writes) + timers < MaxReveals
  /\ IF memory = NoMemory
       THEN alert' = TRUE /\ UNCHANGED writes
       ELSE /\ writes' = Append(writes, [id |-> memory, live |-> TRUE])
            /\ UNCHANGED alert
  /\ UNCHANGED <<storeVars, running, memory, veil, content, spinner, fetches,
                 timers, refused, crossed>>

\* Mutant: the veil goes, and no timer is set for the memory.
UnveilNoTimer(live) == veil' = (veil /\ ~live) /\ UNCHANGED timers

\* The completion of setMemorySeen does not look at the memory on the screen:
\* it fades the veil out and starts the timer.
Unveil(live) ==
  IF live THEN veil' = FALSE /\ timers' = timers + 1
          ELSE UNCHANGED <<veil, timers>>

\* Mutant: what is marked as seen is what the screen holds by now.
SeenAcknowledgedOnScreen ==
  /\ running /\ writes # <<>>
  /\ seen' = seen \cup ({memory} \ {NoMemory})
  /\ writes' = Tail(writes)
  /\ Unveil(Head(writes).live)
  /\ UNCHANGED <<status, cached, running, memory, content, spinner, alert, fetches,
                 refused, crossed>>

\* The store acknowledges writes in order.
SeenAcknowledged ==
  /\ running /\ writes # <<>>
  /\ seen' = seen \cup {Head(writes).id}
  /\ writes' = Tail(writes)
  /\ Unveil(Head(writes).live)
  /\ UNCHANGED <<status, cached, running, memory, content, spinner, alert, fetches,
                 refused, crossed>>

SeenRefused ==
  /\ running
  /\ writes # <<>>
  /\ refused' = refused \cup {Head(writes).id}
  /\ writes' = Tail(writes)
  /\ alert' = (alert \/ Head(writes).live)
  /\ UNCHANGED <<storeVars, running, memory, veil, content, spinner, fetches,
                 timers, crossed>>

TimerFires ==
  /\ timers > 0
  /\ timers' = timers - 1
  /\ content' = TRUE
  /\ UNCHANGED <<storeVars, running, memory, veil, spinner, alert, fetches,
                 writes, refused, crossed>>

-----------------------------------------------------------------------------

Next ==
  \/ Rotate
  \/ Launch
  \/ Kill
  \/ RefreshMemory
  \/ GetTodaysMemory
  \/ GetTodaysMemoryOffline
  \/ GetTodaysMemoryFails
  \/ MemoryArrives
  \/ NilArrives
  \/ DismissAlert
  \/ RevealMemory
  \/ SeenAcknowledged
  \/ SeenRefused
  \/ TimerFires

Spec == Init /\ [][Next]_vars

(* Fairness.  The SDK answers every fetch and the main queue runs what is  *)
(* put on it.  A write is sent again in every session until the store has  *)
(* spoken, so one that could be acknowledged again and again is at last.   *)
Fairness ==
  /\ WF_vars(GetTodaysMemory \/ GetTodaysMemoryOffline \/ GetTodaysMemoryFails)
  /\ WF_vars(MemoryArrives \/ NilArrives)
  /\ WF_vars(TimerFires)
  /\ SF_vars(SeenAcknowledged \/ SeenRefused)

FairSpec == Spec /\ Fairness

-----------------------------------------------------------------------------
(* Properties.                                                             *)

\* The screen never strands the reader: a veil always has a memory behind it, so
\* that the nil branch of revealMemory is out of reach, and a screen at rest is
\* never blank once a memory has been loaded, in whatever order fetches,
\* acknowledgements and timers landed.
NeverStranded ==
  /\ veil => memory # NoMemory
  /\ memory # NoMemory /\ timers = 0 => veil \/ content

\* Unless a fetch landed in the middle of a reveal, the memory is shown only
\* if its own heart was tapped, and never together with the veil.
UndisturbedReveal ==
  content /\ ~crossed => memory \in seen \cup Pending \cup refused /\ ~veil

\* Answers that overtake nothing: the memory of today is not replaced on the
\* screen by one of an earlier day that a slow fetch brings.
NeverBackToOlder ==
  [][running' /\ memory' # memory => memory \notin Lifecycle!Of("current")]_vars

\* The activity indicator never keeps turning.
SpinnerStops == spinner ~> ~spinner

\* A tap is not lost: if the app keeps being opened, the tapped memory is
\* marked as seen, or its write was refused, across any number of restarts.
TapSettles ==
  []<>running => \A m \in Memories : m \in Pending ~> m \in seen \cup refused

\* TodaysMemoryViewController.swift:84, `Please tap me to reveal a memory.':
\* no memory is shown that nobody has tapped.
ShownWasTapped ==
  content => memory \in seen \cup Pending \cup refused
=============================================================================
