--------------------------- MODULE ResetMemories ---------------------------
(***************************************************************************)
(* The back end of ChangeMemory with the two other writers of `memories':  *)
(* the script that starts the collection over                              *)
(* (scripts/reset-all-memories.ts) and the phone, which marks a memory as  *)
(* seen long after it read it (MemoryManager.setMemorySeen).  Neither      *)
(* knows of the other, and neither of them waits for a running handler.    *)
(***************************************************************************)
EXTENDS ChangeMemory, FiniteSets

CONSTANTS
  MaxResets,   \* bound: runs of the script
  MaxReplies   \* bound: results read for the phone and not yet received

ASSUME ResetAssumption == MaxResets \in Nat /\ MaxReplies \in Nat \ {0}

VARIABLES
  seen,      \* documents with seen = true (and a seenDate)
  replies,   \* what the server has read for the phone, on its way there
  cached,    \* documents that are current in the phone's cache
  answers,   \* results of getTodaysMemory on their way to the main queue
  onScreen,  \* the memory the Today screen holds, veiled or not
  taps,      \* memories of which a write of `seen' may still reach the server
  reset,     \* the script: "idle", or between its query and its commit
  listed,    \* querySnapshot of the script
  resets,    \* runs of the script so far
  drawn,     \* history: memories drawn since they were last reset
  raced,     \* history: runs that were under way when a reset was committed
  late       \* history: memories the phone held when they were last reset

phoneVars == <<seen, replies, cached, answers, onScreen, taps>>
scriptVars == <<reset, listed, resets>>
historyVars == <<drawn, raced, late>>
resetVars == <<phoneVars, scriptVars, historyVars>>

ResetInit ==
  /\ Init
  /\ seen = {} /\ onScreen = NoMemory /\ taps = {}
  /\ replies = {} /\ cached = {} /\ answers = {}
  /\ reset = "idle" /\ listed = {} /\ resets = 0
  /\ drawn = {} /\ raced = {} /\ late = {}

-----------------------------------------------------------------------------
\* A step of the back end, which knows nothing of the others.
BackEnd ==
  /\ Next
  /\ drawn' = drawn \cup ({pick[r] : r \in applied' \ applied} \ {NoMemory})
  /\ UNCHANGED <<phoneVars, scriptVars, raced, late>>

(* The phone.  A memory is read by the server, received into the cache,    *)
(* answered from there, shown and tapped in steps of their own, and a      *)
(* reset may come between any two.                                         *)

\* The server reads for the phone: the query's result or, for a document in
\* limbo, that document alone.
ServerReads ==
  /\ Cardinality(replies) < MaxReplies
  /\ \E docs \in {Of("current")} \cup {{m} : m \in Of("current")} :
        replies' = replies \cup {docs}
  /\ UNCHANGED <<vars, seen, cached, answers, onScreen, taps, scriptVars, historyVars>>

\* The cache takes what was read; other documents it holds as current leave it,
\* unless the server has not said what became of them.
ReplyReceived(docs) ==
  /\ docs \in replies
  /\ replies' = replies \ {docs}
  /\ \E inLimbo \in SUBSET cached : cached' = docs \cup inLimbo
  /\ UNCHANGED <<vars, seen, answers, onScreen, taps, scriptVars, historyVars>>

\* An answer is what the cache holds: as soon as the query is in sync or, on a
\* phone without network, at any time.  Any number but one is nil, an alert.
GetTodaysMemory(m) ==
  /\ cached = {m}
  /\ answers' = answers \cup {m}
  /\ UNCHANGED <<vars, seen, replies, cached, onScreen, taps, scriptVars, historyVars>>

MemoryArrives(m) ==
  /\ m \in answers
  /\ answers' = answers \ {m}
  /\ onScreen' = m
  /\ UNCHANGED <<vars, seen, replies, cached, taps, scriptVars, historyVars>>

\* The heart can be tapped while the veil is up, which is TodayScreen's concern:
\* here any memory on the screen may be tapped.
RevealMemory ==
  /\ onScreen # NoMemory
  /\ taps' = taps \cup {onScreen}
  /\ UNCHANGED <<vars, seen, replies, cached, answers, onScreen, scriptVars, historyVars>>

\* The server serves a write.  Another copy of it may follow: an acknowledgement is
\* lost, or a request of a dead connection was overtaken by its repetition.
SetMemorySeen(m) ==
  /\ m \in taps
  /\ seen' = seen \cup {m}
  /\ taps' \in {taps, taps \ {m}}
  /\ UNCHANGED <<vars, replies, cached, answers, onScreen, scriptVars, historyVars>>

\* The write is refused, or the copy that was left is lost with its connection.
SetMemorySeenEnds(m) ==
  /\ m \in taps
  /\ taps' = taps \ {m}
  /\ UNCHANGED <<vars, seen, replies, cached, answers, onScreen, scriptVars, historyVars>>

\* The cache and the queue of writes are on disk.
AppKilled ==
  /\ onScreen' = NoMemory /\ answers' = {} /\ replies' = {}
  /\ UNCHANGED <<vars, seen, cached, taps, scriptVars, historyVars>>

\* What the phone holds, in whatever form.
Held == cached \cup answers \cup taps \cup (UNION replies) \cup ({onScreen} \ {NoMemory})

-----------------------------------------------------------------------------
(* The script.                                                             *)

ListAll ==
  /\ reset = "idle"
  /\ resets < MaxResets
  /\ reset' = "listed"
  /\ resets' = resets + 1
  /\ listed' = {m \in Memories : status[m] # "absent"}
  /\ UNCHANGED <<vars, phoneVars, historyVars>>

\* Mutant: only the field `status' is reset.
ResetBatchKeepsSeen ==
  /\ status' = [m \in Memories |-> IF m \in listed THEN "future" ELSE status[m]]
  /\ UNCHANGED seen

\* Mutant: only the past memories are reset.
ResetBatchOfPast ==
  /\ status' = [m \in Memories |->
                  IF m \in listed /\ status[m] = "past" THEN "future" ELSE status[m]]
  /\ seen' = seen \ listed

\* The writes of the batch; `seenDate' goes with `seen'.
ResetBatch ==
  /\ status' = [m \in Memories |-> IF m \in listed THEN "future" ELSE status[m]]
  /\ seen' = seen \ listed

CommitReset ==
  /\ reset = "listed"
  /\ ResetBatch
  /\ reset' = "idle"
  /\ clean' = [r \in Runs |-> FALSE]
  /\ drawn' = drawn \ listed
  /\ raced' = raced \cup {r \in Runs : Live(r)}
  /\ late' = (late \ listed) \cup (Held \cap listed)
  /\ UNCHANGED <<queueVars, pc, cur, pick, applied, pushes, replies, cached, answers,
                 onScreen, taps, listed, resets>>

\* The catch block logs; the process exits either way.
ResetFails ==
  /\ reset = "listed"
  /\ reset' = "idle"
  /\ UNCHANGED <<vars, phoneVars, listed, resets, historyVars>>

-----------------------------------------------------------------------------

ResetNext ==
  \/ BackEnd
  \/ ServerReads
  \/ \E docs \in replies : ReplyReceived(docs)
  \/ \E m \in Memories : GetTodaysMemory(m) \/ MemoryArrives(m)
  \/ RevealMemory
  \/ \E m \in Memories : SetMemorySeen(m) \/ SetMemorySeenEnds(m)
  \/ AppKilled
  \/ ListAll
  \/ CommitReset
  \/ ResetFails

ResetSpec == ResetInit /\ [][ResetNext]_<<vars, resetVars>>

-----------------------------------------------------------------------------
(* Properties.  That AtMostOneCurrent holds of this specification too, so  *)
(* that a reset that cuts into a rotation leaves no second memory of       *)
(* today, is proved in ResetMemoriesProofs.                                *)

\* A memory waiting for its turn is veiled when the turn comes, unless the phone
\* held it when it was reset: on the screen, in the cache, in an answer on its
\* way or in a tap that the server had yet to serve.
FutureIsUnseen ==
  \A m \in Memories : status[m] = "future" /\ m \in seen => m \in late

\* After a reset every memory has its turn again, except those that a run
\* which was under way at the reset had read as current, and retired.
RetiredSinceReset ==
  \A m \in Memories :
    status[m] \in {"current", "past"} /\ m \notin drawn
      => \E r \in raced : m \in cur[r]
=============================================================================
