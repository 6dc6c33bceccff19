# Pigeon Services: a TLA+ model, its checks and its proofs

Pigeon Services shows one person one photo with a note, a *memory*, per day. An
operator captions photos and uploads them; a scheduled cloud function retires
today's memory and draws the next one at random; a push announces it; the iOS app
shows it under a veil until it is tapped, and lists the past ones. What the app does
about it goes through the Firestore client that the repository vendors: every
`getDocuments` and every `setData(..., merge: true)`. This directory specifies the program's own
logic and those paths of the client in TLA+, model-checks them with TLC and proves
theorems about them with TLAPS. Paths below are relative to `src/`; a C++ file named
without its directory is under `iOS/Pods/FirebaseFirestore/Firestore/core/src`.

## 1. Inventory

The repository has 5360 files, but nearly all of them are vendored pods under
`iOS/Pods`. The program itself is about 370 lines of TypeScript and JavaScript
(`functions/functions/src`, `functions/functions/scripts`) and about 1000 lines of
Swift (`iOS/PigeonServices`, `iOS/OneSignalNotificationServiceExtension`), a third
of it layout. Of the pods, the Firestore client is the one whose behaviour the app's
correctness hangs on: it keeps writes across restarts, orders answers, decides when to
stop waiting for the server, and says which documents a query has.

| part | state | operations | talks to |
|---|---|---|---|
| captioning server, `scripts/caption-photos.js` | the images directory, `completed` in it | offer a random photo, post it with a caption, move it | upload server (HTTP) |
| upload server, `scripts/upload-image.ts` | none of its own | read the file, store the image, add the document | Storage, Firestore |
| collection `memories` | per document `status` (future, current, past), `seen`, `seenDate`, image path, message | written by all parts | |
| scheduler, `src/index.ts` | none | every tick: look up the handler's address, enqueue a task | task queue |
| task queue and handler, `src/index.ts` | the queued tasks, their attempts | deliver, repeat, give up | rotation, push |
| rotation, `src/change-memory.ts` | two query snapshots, a write batch | retire what is current, draw what is future | Firestore |
| push request, `src/send-memory-notification.ts` | none | one POST | OneSignal |
| reset script, `scripts/reset-all-memories.ts` | one query snapshot | make every document future and unseen | Firestore |
| Today tab, `TodaysMemoryViewController.swift` | the memory, two groups of views, spinner, alert | refresh, tap, completion, timer | `MemoryManager` |
| History tab, `PastMemoriesViewController.swift` | the list, a memory opened on top | fetch, refresh, select | `MemoryManager` |
| notifications and navigation, `NotificationManager.swift`, `TabBarViewController.swift` | which controller is on top | refresh the tabs found on top | both tabs |
| notification extension, `NotificationService.swift` | a content handler | hand it on | OneSignal SDK |
| Core Data stack, `HeartFillView`, image loading | | unused, or calls into SDKs | |
| client: streams, `stream.cc`, `exponential_backoff.cc` | state of a stream, close count, backoff and idle timers | start, open, mark idle, stop, fail | credentials provider, gRPC |
| client: writes, `sync_engine.cc`, `leveldb_mutation_queue.cc`, `remote_store.cc`, `write_stream.cc` | mutation queue on disk, pipeline, handshake, completions | write, send, acknowledge, refuse, restart | server |
| client: gets, `query_core.cc`, `event_manager.cc`, `query_listener.cc`, `online_state_tracker.cc` | listeners by query, snapshot of each view, online state, its timer | get, listen, raise, mute, remove | worker queue, main queue |
| client: results, `remote_event.cc`, `remote_store.cc`, `local_store.cc`, `query_engine.cc`, `view.cc`, `sync_engine.cc` | changes since the last snapshot, document cache, keys and resume token of the target, view, lookups of documents in limbo | aggregate, raise a snapshot, apply it, resolve limbo | server, disk |

No part of the program locks anything; the client runs on one worker queue and hands
completions to the main queue. What is hard here:

* the two queries of the rotation are outside its batch, and nothing keeps two
  deliveries of a task, or the reset script and a delivery, from interleaving;
* tasks are delivered at least once, and a delivery that failed after its commit
  starts over with a new draw;
* the enqueue is not awaited, the push is neither repeated nor recorded, a commit
  may succeed without its acknowledgement;
* on the phone, completions, notifications and a timer land in any order on a
  screen that has changed since they were started;
* an unhandled rejection ends the captioning server in the middle of other posts;
* in the client, timers and credentials come back to a stream that was stopped and
  started since; connections die with requests on them that the server may still
  serve; the process dies between two changes of the disk; answers to a listen that was
  withdrawn look like answers to the one that replaced it; and the online timer races
  the first answer.

`PROJECT.json` lists these hazards with the lines where they bite and the
properties aimed at each. What makes each part correct:

* back end: at most one memory of today; no memory twice; nothing retired that was
  not drawn; a push only for a stored batch; every task settled;
* reset: after it every memory has its turn again, veiled;
* Today tab: never blank, never a memory that nobody tapped, never an older one than
  before, no spinner that keeps turning, no tap lost;
* History tab: every past memory that the store has as seen, none lost to a slow
  answer or a refused one;
* captioning: no photo put aside without a memory, no photo made two memories;
* client, writes: applied in the order of the calls, none lost by a crash, a
  completion told the truth, every write settled;
* client, gets: each call answered once, in order, and from the cache only if the
  server cannot be heard;
* client, results: what is called synced is the result at one version of the
  database; nothing the cache has is missing from a view; what the cache alone has is
  looked up.

## 2. Modules

| module | models | |
|---|---|---|
| `MemoryLifecycle` | the abstract collection: upload, rotate | what readers of the collection rely on |
| `ChangeMemory` | scheduler, queue, handler, rotation, push | implements `MemoryLifecycle` if deliveries do not overlap |
| `ResetMemories` | `ChangeMemory` with the reset script and the phone's writes of `seen` | EXTENDS `ChangeMemory` |
| `TodayScreen` | Today tab, its two `MemoryManager` calls, the SDK's cache and write queue | over `MemoryLifecycle` |
| `HistoryScreen` | History tab, its query, notifications, the opened memory | over `MemoryLifecycle` |
| `Captioning` | both captioning servers, Storage, the added documents | |
| `ReliableWrites` | what the app may expect of `setData(..., merge: true)` | abstract |
| `Stream` | the life of a stream to the server, as operators on its state | used by the next two |
| `WritePipeline` | the way of a write: disk, pipeline, stream, server, completion | implements `ReliableWrites` |
| `QueryGets` | the way of a `getDocuments`: listeners, watch stream, online state, main queue | EXTENDS `Stream` |
| `WatchAggregator` | what the messages of a watch stream add up to, as operators on its state | |
| `QueryView` | the cache, the target, the view and the limbo of one query | EXTENDS `WatchAggregator` |
| `MC...` | TLC instances: the symmetry of each | |
| `ChangeMemoryProofs`, `ResetMemoriesProofs`, `TodayScreenProofs`, `HistoryScreenProofs`, `CaptioningProofs`, `WritePipelineProofs`, `QueryGetsProofs`, `QueryViewProofs` | the theorems of section 5 | each EXTENDS its module |

`MemoryLifecycle` joins back end and app: `ChangeMemory` is shown (by TLC and by
proof) to implement it, and the app's modules take it for their environment.
`INSTANCE MemoryLifecycle` keeps its names and substitutes the variable `status`.
The modules of the client stand under the app's: `TodayScreen` and `HistoryScreen` assume
that the answers to one query come in the order of the calls, that a phone without
network is answered from its cache, and that a write stays queued until the store has
spoken; `QueryGets` (`AnsweredInOrder`, `NoCacheWhileOnline`, `EveryGetAnswered`) and
`WritePipeline` (`ImplementsReliableWrites`) show it of the code.

**ChangeMemory.** `status` is the collection; `task`, `attempts` the queue; `pc`,
`cur`, `pick` the position and the local variables of each *run*, a run being one
delivery `<<tick, attempt>>`. An action is the code between two awaits:
`ReadCurrent` and `ReadFuture` are the queries, `Commit` the batch, `PushAccepted`,
`PushRefused` and `PushThrows` what the request comes to. `CommitAckLost` writes the
batch and goes to the catch block; `StoreCallFails` goes there without it; `Killed`
and `DeadlinePasses` end the instance and the queue's patience, which are not the
same thing: a run the queue no longer waits for goes on. The random index is any
element of the snapshot. The task's data (`targetTime`) is never read and left out,
as is every time of day: the schedule's ticks are just events. `clean`, `applied`
and `pushes` are history variables. The constant `Overlap` says whether a delivery may
start while another is live: the code does not prevent it (`index.ts:55` sets no
concurrency limit), so claims that need it are run with TRUE where they fail and with
FALSE where they hold.

**ResetMemories.** Each step is a step of `ChangeMemory`, of the script (`ListAll`,
then `CommitReset` or `ResetFails`) or of the phone. What the phone does to a memory takes
steps of their own, between any two of which a reset may come: the server reads for the
query or for a lookup (`ServerReads`), the cache takes the reply (`ReplyReceived`; documents
in limbo stay in it), `getTodaysMemory` answers from the cache, in sync or offline
(`GetTodaysMemory`), the main queue shows the answer (`MemoryArrives`), a tap queues a write
(`RevealMemory`), and the server serves it, perhaps more than once, any time later
(`SetMemorySeen`; `SetMemorySeenEnds` is the refusal). `AppKilled` leaves the cache and the
queue of writes. `Held` is what the phone holds in any of these forms. The veil is left to
`TodayScreen`: any memory on the screen may be tapped. `seen` stands for `seen` and `seenDate`, which
all writers set and clear together. `drawn`, `raced`, `late` are history variables.

**TodayScreen.** `veil` and `content` are the two groups of views, shown or not (the
half second of a fade is left out). `fetches` and `writes` are what is in flight, in
the order the SDK keeps for fetches of one query and for writes; `timers` counts the
one-second blocks between veil and memory. Answering a fetch and running its
completion are two steps, so that rotations, taps and acknowledgements fit between.
Results are overlaid with this phone's unacknowledged writes, as the SDK does;
without network the answer is what the cache holds. A write is on disk as soon as
it is made and survives `Kill`; its completion does not. The arrival of a write at
the store and of its acknowledgement at the phone are one step.

**HistoryScreen.** The same for the list; `detail` is the memory opened on top, which
makes `getPastMemoriesVC` return nil. The list is a set: its order by `seenDate` is
not modelled. A tap is at three places in turn: `pending`, the phone's queue, whose overlay
only this phone sees; `seen`, when the store applies it (`SeenApplied`); and `cachedSeen`,
when the acknowledgement puts it into the cached copy (`SeenAcknowledged`), unless
`SeenRefused` takes the overlay back. The query has a side of the server, `past` and
`seen` of the store (`ServerReads`), and a side of the phone, `Local`: cached copies that
are past in the cache and have a date there or an overlay. Server and phone are different
steps, and the calls in flight share one listen, so that a call may be answered with a
result that was read before it was made (`read = "overtaken"`). A good answer leaves out what does
not decode (`undecoded`). `CopyRefreshed` is what the Today tab's query and its lookups do
to a cached copy, in any order in which a document's versions can have come about. `excused`
and `refused` are history variables: the ways the list may lag, and the taps that were taken
back. Left out: resets, a lookup that the server refuses although it answers the query, which
would take a document out of the cache (`QueryView` has refused lookups), and the cache's
garbage collection, which does not start below 100 MB.

**Captioning.** `page[p]` is the captioning server's side of one GET and POST,
`upload[p]` the upload server's. Every image gets a fresh name, so a page stands for its blob
and its document. A rejection that nothing handles (`RenameThrows`, `AlertThrows`,
`FetchThrows`) ends the captioning server and cuts off the waiting pages, while the
upload server goes on.

**Stream.** A record: the state is `Stream::State`, `Healthy` being `Open`; `backoff` and `idle`
say which of its timers run. `asked` are the
credentials that are due: those of the present start ("now") and those of an earlier
one, whose close count is out of date ("before"). `WritePipeline` and `QueryGets` each have
one stream and say what opening and closing it does.

**WritePipeline.** One action is one task of the worker queue, one timer, one step of the
server or one event of the network. `disk` is the mutation queue, sorted by batch id, and
`NextBatchId` what a launch makes of it; `pipeline`, `callbacks`, `handshake` are the
client's memory. `requests` and `responses` are the wire, `verdict` the status a call
ended with, read after the responses that are left. `orphans` are the requests of dead
connections that the server may get to at any later time. `ReadResultAndDie` is a crash
after the completion and before the batch is removed. `applied`, `refused`, `told` are the
promise of `ReliableWrites`; "refused" means taken out of the queue on an error: the client
puts the error of a call on the first batch of the pipeline, whichever it was about. A
request is in the server's hands as it is sent. Stream tokens are left out, and so is a
server that ends a call with OK.

**QueryGets.** `client` is what the worker queue works on, `tasks` what the app put on it,
`events` what it put on the main queue; an action is one task of either. A step that
raises events is computed as a pair of the state and the events so far, for
`SetAndBroadcast` and `OnViewSnapshot` nest. What the server says of a query is only that
its result is complete (`TargetSynced`), that it is refused (`TargetRejected`) or something
else (`WatchResponds`). `Notify` raises the events of several listeners at once, those of a
query in the order they were added (`Before`); the order of two queries is that of an
`unordered_map`, on which nothing may depend: `InOrder` is any that keeps to `Before`.
A partial snapshot to a listener that was already answered is muted and reaches no call;
`WatchResponds` leaves it out, so `NoCacheWhileOnline` speaks of the answers to calls and
not of every event of the client.

**WatchAggregator and QueryView.** `db` is the database at each of its versions; a version
also stands for a resume token. `server.watching` is what the server knows of each
target, `server.wire` what it has sent. `ServerSends` says all that is new up to a snapshot,
in one go: documents that entered or changed, those that left (with the document or with
its removal alone), CURRENT, an existence filter for a resumed listen, whose Bloom filter
takes any documents for its own besides those that are. Of any that left while nobody was
connected it may have no record. `disk` holds the document cache, the keys of the target, its token and the
version of its last snapshot without limbo; the time of the last write, on which
`ShouldPersistTargetData` looks, is a free choice (`aged`), one for both calls of
`Persist` in a step; a document sent again with an equal value counts as a change to be
`told`. No property depends on either. A lookup uses a target id that neither side
remembers. Filters come after CURRENT, as the server's do. Each loop of the
code (over the targets, the documents of a snapshot, the changes of limbo) is a fold with
a name for its step. `excused` is a history variable with the two flaws of section 4 by which the
keys come to hold what they should not. Limits, orders,
local mutations and other queries are left out: the app's queries have no limit, and an
overlay is `TodayScreen`'s `Pending`.

Definitions whose comment starts with `Mutant:` are not part of any specification:
each is a plausible mistake in the code of the definition that follows it, and
`PROJECT.json` names the property that TLC finds violated when it takes that
definition's place.

## 3. Runs

| run | checks | instance |
|---|---|---|
| `ChangeMemorySerial` | `TypeOK`, `AtMostOneCurrent`, `NeverRepeats`, refinement of `MemoryLifecycle` | no overlap; 3 memories, 2 ticks, 2 attempts |
| `ChangeMemoryOverlap` | `RetiredWhenDrawn`, `PushFollowsBatch`, `UndisturbedRunRotates`, `EveryTaskSettles` | overlap; 3 memories, 1 tick, 3 attempts |
| `ResetMemories` | `FutureIsUnseen`, `RetiredSinceReset` | no overlap; 2 memories, 2 ticks, 1 attempt, 2 resets, 1 reply on its way |
| `TodayScreen` | `TypeOK`, `NeverStranded`, `UndisturbedReveal`, `NeverBackToOlder`, `SpinnerStops`, `TapSettles` | 2 memories, 2 fetches, 2 reveals |
| `HistoryScreen` | `UpToDate`, `ShrinksOnlyOnError` | 2 memories, 2 fetches |
| `Captioning` | `CompletedIsMemory`, `DuplicatesAreExplained` | 2 photos, 3 pages |
| `WritePipeline` | `TypeOK`, `AssertionsHold`, `WireMatchesPipeline`, `NothingLost`, refinement of `ReliableWrites`, `EveryWriteSettles` | 3 writes, a pipeline of 2, 3 disturbances |
| `QueryGets` | `TypeOK`, `AssertionsHold`, `CompletedOnce`, `AnsweredInOrder`, `NoCacheWhileOnline`, `EveryGetAnswered` | 2 queries, 2 calls, 3 events |
| `QueryView` | `TypeOK`, `AssertionsHold`, `AcksAreDue`, `SyncedIsExact`, `NothingMissed`, `ViewFollowsDisk`, `LimboIsPursued`, `BecomesSynced` | 2 documents, 1 lookup at a time, 2 versions, 1 disturbance |

Three more runs state what a comment or a text of the repository says and find it
violated (`PROJECT.json`, "findings"):

| run | says | what TLC finds |
|---|---|---|
| `TwoCurrent` | "today's image" is one (`README.md:4`, `MemoryManager.swift:21`) | two overlapping deliveries read what is current (nothing yet) before either commits, and each makes its own draw current |
| `UntappedReveal` | "Please tap me to reveal a memory." (`TodaysMemoryViewController.swift:84`) | a refresh in the middle of a reveal: another memory is unveiled |
| `StaleSynced` | not from the cache is "guaranteed up-to-date server data" (`api/snapshot_metadata.h:42-44`) | after a removal in the same snapshot a filter counts that document again and agrees by accident: a document that is gone is in a synced view |

Five lesser disagreements show in the models and have no run: a `getDocuments` that finds
the stream of an earlier one still starting or backing off waits without the online timer
(`remote_store.cc:217-228` starts it with the stream alone), until that attempt ends, where
`online_state_tracker.cc:47-49` promises "a timeout for OnlineState"; an overtaken delivery
can make a past memory current (`RetiredWhenDrawn` says what it leaves behind); with no
future memory left the push goes out all the same; memories that nobody tapped have no
`seenDate` and are left out of History (`UpToDate` is stated for what the query can return); and
a page offers the directory `completed` as a photo (`caption-photos.js:19`).

**Bounds.** In the back end, three memories are enough for one to be past, one current and one
future, or for two runs to draw different ones while a third is current. With a reset, two
do: one that a raced run has read and one that it draws; the second reset is there for a
memory that the phone held at the first. On the History tab, two memories let one be shown
while a fetch for the other is in flight. Runs overlap
through two ticks or through two attempts of one task; three attempts give a run
that is overtaken twice. On the phone, two fetches or two reveals in flight are the
least in which one can overtake another. Three pages let a photo be offered twice
and, cut off, a third time. Every bound is a constant: `MaxAttempts` (the queue has such
a bound too), `MaxResets`, `MaxReplies`, `MaxFetches`, `MaxReveals`, and the sets `Ticks` and `Pages`.
In the client, three writes over a pipeline of two let it be full with one more on disk;
three disturbances end a connection, the next one and the process. Two calls over two
queries, used again and again, share a query or hold the stream open for one another;
`MaxEvents` makes the network rest while the app is that far behind. Two documents are the
least with one in limbo while another waits for its turn; two versions let a
document leave or enter while nobody is connected. `MaxUnread` bounds what is on the wire
when the app comes or goes, so that a listen, its end and a new listen can all be
unanswered at once. `Confusable` is the documents that a filter may take for its own: one is
enough to be kept by mistake beside one that is removed. Larger instances of `QueryView` were run on occasion and agree: random
walks over some 60 million states with three documents, four versions, four disturbances and
`MaxUnread` 3.
Where `CHECK_DEADLOCK FALSE` is set, the system stops when these are used up.
Symmetry is used for invariants and action properties whose constants are
interchangeable, never with liveness.

**Fairness.** In `ChangeMemory`: a call that is awaited is answered, throws or is cut
off by the function's timeout (`Handler(r) \/ Killed(r)`), a fired tick goes on, and
the queue delivers what it holds. Neither uploads nor ticks are fair, no particular
outcome is, and the queue's deadline is not: a task must settle by its handler
answering. In `TodayScreen`: the SDK answers a fetch (from the server, from its cache or with an
error), the main queue runs what was put on it, and timers fire. A write is re-sent in
every session, so its outcome is strongly fair; `TapSettles` assumes besides that the
app is opened again and again, and says so in its formula (`[]<>running`). In the client, both
queues run what is on them, timers fire, credentials come. In `WritePipeline` the server serves
what it gets, one way or the other; disturbances are bounded and never fair, and that the
app is launched again is said in the formula (`[]<>running`). In `QueryGets` a connection is not silent for ever (the client
asks gRPC for keepalives, `grpc_connection.cc:307`), a server that is heard again and again
while a query waits does answer it, and the phone stays on one network in the end; nothing
else about the network is fair, and calls are answered offline if need be. In `QueryView`
a connection is made, the server says what it has to say, and the worker queue reads it.
`Fairness` there writes weak fairness of the last two out with their guards, because
TLC is slow to evaluate ENABLED of actions so large.

## 4. What the runs show

With one delivery at a time the back end keeps its promise through retries, kills,
lost enqueues and lost acknowledgements. With overlap it does not, but the damage is
limited: the drawn memories are exactly those that left the future, and the first
undisturbed run leaves a single memory of today. A reset that cuts into a rotation
costs the one memory that the run had read its turn, and a memory that the phone holds
when it is reset, in its cache, in an answer, on the screen or in a tap, may have its next
turn without a veil; no other may. The Today tab settles on exactly one of veil and memory
unless a fetch lands inside a reveal. History lags only for the reasons `UpToDate`
names: one is a call that a notification makes while an earlier one is in flight, which is
answered with what the server read for that one, before the rotation; another a tap that the
store applies after the memory was retired. A photo is never put aside without its memory, and becomes two memories only
if its pages overlap or are cut off.

In the client, writes are applied in the order of the calls and none is lost, though ids are given
out again after a launch and the server may serve the dead connection's copy first: it
follows from `ImplementsReliableWrites` with `NothingLost`. A completion is told "ok" only
of a write that is applied, but a process may die between the completion and the removal,
and then applies the write twice, which `setData` of absolute values tolerates. An
error that ends a call is put on the first batch of the pipeline, which may be one the
server has applied: its completion is told "error" although the write is in the store.
A call of `getDocuments` is answered exactly once and in order; one that waits without a
timer (section 3) is answered when the attempt that is under way comes to an end. A query that is called synced is exact, through resumed listens,
filters that are blind, refused lookups and crashes, with two exceptions, `excused`.

*Crossed.* An existence filter that does not match puts the target in `pending_target_resets_`
(`remote_event.cc:277`) beside the changes that take its keys away. If the query is stopped
and listened to again before the next snapshot, those changes lapse, as the target has
answers due, but the mismatch stays: the snapshot carries it without a change of
the target, so `RaiseWatchSnapshot` listens again without a token while the cache and the
view keep the keys of the last listen. The server answers with all documents and no removals, and a
document that is gone stays in a view that is called synced until a later filter finds
it. It takes a last listener that is removed between filter and
snapshot and another one for the same query: the app's calls do it if the cache has answered
one (the online state's timer) and the next comes at once. TLC finds it with `MaxUnread` 2 if
`SyncedIsExact` does not except it.

*Recounted.* `FilterRemovedDocuments` goes over the keys of the last snapshot and counts
every one that the Bloom filter does not have, even if a message since has removed it, though
`GetCurrentDocumentCountForTarget` has left that one out. The difference of the two is too small by
those documents, and if the Bloom filter has taken as many that are gone for its own, it is
the count the server sent: there is no mismatch, and these stay. `StaleSynced` is that
behaviour. It takes a server that tells of one removal, has no record of another, and a filter
with a false positive; without the false positive the mistake costs no more than a query run again.

A crash with a document in limbo may
hide that document until the next snapshot, rightly so: the server says it is not in the
result; `NothingMissed` is worded for that. With an existence filter *before* CURRENT, which
the server does not send, TLC finds a view that is called synced and lacks a document
whose lookup was refused: the model's assumption on that order matters.

## 5. Proofs

The theorems hold for all values of the constants that satisfy the assumptions the
modules state of them (`NoMemory` is not a memory, a task has at least one attempt,
bounds are numbers, and the calls of `getDocuments` that may be under way together and the
documents of the database are finite sets), so that the bounds of section 3 play no part: any set of memories and
photos, any number of ticks, attempts, resets, pages, fetches, writes, queries, calls and
broken connections.

| theorem of | name | states |
|---|---|---|
| `ChangeMemoryProofs` | `TypeCorrect` | `Spec => []TypeOK` |
| | `NothingLostOrInvented` | `Spec => []RetiredWhenDrawn` |
| | `NoEarlyPush` | `Spec => []PushFollowsBatch` |
| | `CleanCommitRepairs` | `Spec => UndisturbedRunRotates` |
| | `OneMemoryOfTheDay` | `Overlap = FALSE => (Spec => []AtMostOneCurrent)` |
| | `NoSecondTurn` | `Overlap = FALSE => (Spec => []NeverRepeats)` |
| | `Refinement` | `Overlap = FALSE => (Spec => ImplementsLifecycle)` |
| `ResetMemoriesProofs` | `FutureStaysVeiled` | `ResetSpec => []FutureIsUnseen` |
| | `ResetRestoresTurns` | `ResetSpec => []RetiredSinceReset` |
| | `OneOfTheDayDespiteResets` | `Overlap = FALSE => (ResetSpec => []AtMostOneCurrent)` |
| `TodayScreenProofs` | `TodayTypes` | `Spec => []TypeOK` |
| | `TodayNeverStrands` | `Spec => []NeverStranded` |
| | `RevealIsOfTapped` | `Spec => []UndisturbedReveal` |
| | `ScreenNeverGoesBack` | `Spec => NeverBackToOlder` |
| `HistoryScreenProofs` | `HistoryTypes` | `Spec => []TypeOK` |
| | `HistoryUpToDate` | `Spec => []UpToDate` |
| | `HistoryShrinksOnlyOnError` | `Spec => ShrinksOnlyOnError` |
| `CaptioningProofs` | `CaptioningTypes` | `Spec => []TypeOK` |
| | `CompletedPhotosAreMemories` | `Spec => []CompletedIsMemory` |
| | `OnlyOpenPagesDuplicate` | `Spec => []DuplicatesAreExplained` |
| `WritePipelineProofs` | `PipelineTypes` | `Spec => []TypeOK` |
| | `NoWriteIsLost` | `Spec => []NothingLost` |
| | `NoAssertionFails` | `Spec => []AssertionsHold` |
| | `ResponsesMatchWrites` | `Spec => []WireMatchesPipeline` |
| | `ClientKeepsPromise` | `Spec => ImplementsReliableWrites` |
| `QueryGetsProofs` | `TypeCorrect` | `Spec => []TypeOK` |
| | `AssertionsAreSafe` | `Spec => []AssertionsHold` |
| | `AnswersComeOnce` | `Spec => []CompletedOnce` |
| | `AnswersComeInOrder` | `Spec => AnsweredInOrder` |
| | `ServerAnswersWhileHeard` | `Spec => NoCacheWhileOnline` |
| `QueryViewProofs` | `Invariant` | `~IsFiniteSet(LookupIds) => (Spec => []IInv)` |
| | `TypeCorrect` | the same of `TypeOK` |
| | `DueAcks` | the same of `AcksAreDue` |
| | `AssertionsStand` | the same of `AssertionsHold` |
| | `LimboPursued` | the same of `LimboIsPursued` |
| | `ViewFollows` | the same of `ViewFollowsDisk` |
| | `NothingIsMissed` | the same of `NothingMissed` |

TLC has checked each inductive invariant on a small instance before it was proved.

**ChangeMemory.** The invariant comes in two layers. `RunInv` holds whatever overlaps.
`TypeOK` is not inductive alone: that a delivery has a run to use needs
`AttemptsInOrder` (a queued task has attempts left, a later attempt has not begun).
`BatchesCommitted` ties the history of batches to the position of each run.
`ReadsWereTrue` says what a possibly stale snapshot is still worth: what was read as
current is current or past, what was drawn is in the collection, and a clean run's
snapshot is exact; it gives `RetiredWhenDrawn` and `UndisturbedRunRotates`. `SerialInv`
adds, without overlap, that at most one run is live (`OneLiveRun`) and that therefore
what it has read is still true when it commits (`ReadsAreTrue`). `FreshCommit` then
turns its batch into a `Rotate` of `MemoryLifecycle`, which is the refinement, and
`NeverRepeats` follows because what was drawn before is no longer future.

**ResetMemories.** A reset breaks both layers: a drawn memory is a future one again,
and a run may retire what was reset under it. `ReadsWereTrue` is therefore kept only of
runs that no reset cut into, and what a raced run has read is the exception that
`RetiredSinceReset` names (`RunsSinceReset`: a run has read nothing before its first
query, so a witness is never overwritten). Without overlap, `ReadsAreTrue` weakens to one
inclusion, `CurrentIsRead`: the live run will retire *at least* what is current, as a
reset only ever takes memories out of "current"; that is all that `AtMostOneCurrent` needs.
`HeldHasTurned` follows a memory from the server's reply over the cache, the answer, the
screen and the tap to the field: whatever the phone holds (`PhoneHolds`: only what it held
before or what is current when it is read) has left the future, or is `late`. The first two theorems hold with and
without overlap; TLC checks them without.

**TodayScreen.** Three invariants are each inductive over the types. `RevealsInOrder`
follows a tap through the write, its acknowledgement and the timer: unless crossed,
whatever will show the memory was set going for it. `DaysInOrder` puts what is shown, each
answer on its way, in order, and what the cache would answer on one line of days, none
later than the next; a fetch that lands moves the screen forward on it.

**HistoryScreen.** `CacheIsTrue`: what the cache knows of a document is true of the collection,
and so is the server's last result unless it was overtaken. `Fresh` says of the last answer in
flight what `UpToDate` says of a list at rest. `Nested` and `AnswersGrow` say that the list and
the answers, in their order, hold ever more, but for what an answer left out and what was
refused: the cache gains with each answer, and loses an overlay only to a refusal.

**Captioning.** `UploadsInOrder` (image before document before answer) and `MovedIsGone`
give `CompletedIsMemory`; `OpenedApart` extends `DuplicatesAreExplained` from documents to
open pages, where it is inductive because a kept page of a photo that has moved or is
open is already settled or still unsettled when the next one is offered.

**WritePipeline.** `PipeInv` ties the three places a write can be in. `QueueInOrder`: the
rows on disk are sorted by batch id *and* by the order of the calls, and, while the process
lives, below `nextBatchId`; after a launch ids may repeat earlier ones, so nothing is said
of rows that are gone. `PipelineInOrder`: the pipeline is the beginning of the disk, and
`Fits` the connection, which says per phase of the stream what may be under way (nothing on
a closed one, the handshake alone before it is answered, then responses and requests that
together are the pipeline). A response the client has yet to read is for an applied write.
`CallbacksOnDisk`: each completion is held for a row of its id and write.
`OrphansInOrder`: what dead connections may still deliver overtakes nothing that is on disk and
was not applied; it needs that an orphan was the head of the disk when it was abandoned
(`NoneOvertaken`). `FillKeeps` is the lemma the proof turns on: from any fitting connection,
`FillWritePipeline` leaves a fitting one and a pipeline that begins the disk; every action
that ends in `FillWritePipeline` is an instance of it. `AssertionsHold`,
`WireMatchesPipeline` and `NothingLost` are read off. For the refinement, `LiveRows` shows
that a row has a callback exactly if its write is live in `ReliableWrites` (ids and writes are
unique on disk); then `WriteMutations` is `Issue`, `ServerApplies` and `OrphanServed` are
`Apply` (by `NoneOvertaken` and `OrphansInOrder`), `ReadResult` is `Acknowledge`,
`StreamFinishes` is `Refuse` or a stutter, `Kill` and `ReadResultAndDie` are `Crash`, and the
rest stutters.

**QueryGets.** `IInv` has a half for the client and one for the calls. `Sound` is what
`AssertionsHold` says, with the timer and the failures of the tracker (`Timed`) and the
targets (`Targeted`) as names of their own. `AllTold` says that whoever could know an answer
has been told it: the listeners of a synced view, and all of them while offline. It is
why the next listener of a query overtakes nobody (`NextTold`). `Life` follows a
call through the tasks, the listeners and the events: a call without an answer waits in
one of the three, and if its listener has raised an event then that event is still on the main
queue (`CallsFit`); an event is for a call without an answer or a muted one (`EventsFit`),
from which `CompletedOnce` follows, for an answer mutes its listener; an error is the last
event of its call. `OrderKept` says that two calls for a query keep their order in the
tasks, among the listeners and in the events, and from one of these to the next, which is
`AnsweredInOrder`. `Raised` is what all steps of the client have in common: the events of a step are for
listeners, none before an earlier listener of its query unless that one has been told. The
operators that raise events (`NotifyRaises`, `ViewSnapshotRaises`, `BroadcastRaises`) and
those built from them keep it, and `Announced` says that a step with it keeps `Life`; so
that the proof of an action is about its state machine, and not about sequences.
`InOrderFacts` shows, for any finite set of calls, that there is an order that
`InOrder` can choose (`CanBeOrdered`, which takes away a last one, again and again).

**QueryView.** The theorems assume that `LookupIds` is infinite: `TargetIdGenerator` never runs
out, and with a finite set an id might have to be used again while its old listen is still
unanswered. `IInv` has a part for each way in which things might come apart. `Linked`: per
target, the requests counted are the answers on the wire; while answers are due, the last of
them says whether the target is still listened to; a refusal is the last word of a
target. It is what makes `IsActiveTarget` mean "this listen has been confirmed", and gives
`AcksAreDue` and the assertions about `listen_targets_`. `Fits`: the pending changes of an
active target fit its keys (an added document is not one of them, a modified or removed one is),
which the assertions of `ApplyTargetChange` rest on. `TargetsMatch`: the targets of the remote
store are the query and the lookups of the sync engine. `Queued` and `Pumped`: what is looked
up or waits for it is in limbo, no document twice, and no lookup is free while one waits.
`Resting`: the view's state agrees with its flags. `Follows`: view and disk hold the same keys,
and what is shown matches in the cache; it is `ViewFollowsDisk` with what it needs
about a listen that has not begun.

The steps of the model fold over the changes of a snapshot. The prover cannot do induction
over what a fold computes, but it can use one: `PumpFold`, `TrackFold` and their like, which rest
on `FoldInduction`, say that a property which every step keeps is kept by the fold, for a *set*
of states instead of a predicate. Each part of the invariant is restated as membership in a family of such sets,
indexed by what the fold has yet to visit. A lemma per step of the code (`AddDocument`,
`RemoveDocument`, `TrackLimboChange`, `PumpOne`, `UpdateTarget`, ...) then says what it keeps,
and the lemma of an action puts these together in the order in which the code runs them.

`NothingMissed` needs a second layer over `IInv`: `Informed`, which says of the wire what reading
it will come to. `Promised(w, I, d, has)` is the core of it: after the messages of `I`, the
client has document `d` in the query, for one of them gives it or it has it now, and what
takes it (a removal, a reset, a filter that does not take it for its own) is followed by one that
gives it again. `SnapshotsTrue` promises, at each snapshot on its way, all that the query had in
its version; `ServerTrue`, after all messages, what it had when the server last told of it. Only
messages that arrive when no answer is due count (`Heard`), and a mismatch ends the promise until
the query is watched anew, from version 0 (`Learns`). `DiskMarks` and `ClientMarks` turn
it into what the disk claims: the keys hold the query's result at the resume token, and the
mark of the last snapshot without limbo is never ahead of the token. From that `Complete`
follows when a view begins: a cached match that is neither among the keys nor read after the mark was no
longer in the result at the token. The aggregator's side is `Keeps` and `Hears` (what each
message leaves in the query and what it adds), the server's is `AllSaid` (what
it says gives all that is new and takes nothing of the current result). Only one direction
is needed, that nothing is missed; which is why neither a count nor a `crossed` or
`recounted` history comes into it.

Only model-checked:

* the liveness properties (`EveryTaskSettles`, `SpinnerStops`, `TapSettles`,
  `EveryWriteSettles`, `EveryGetAnswered`, `BecomesSynced`), because fairness and ENABLED are
  out of the prover's reach;
* `SyncedIsExact` of `QueryView`. `NothingMissed` needs that the keys hold at least the
  result at the token; this one also that they hold no more. That rests on the counts of existence
  filters, which agree by accident or not depending on which documents the filter may
  take for its own, and on the lookups of what is in limbo, so on the sizes of sets that
  a fold computes and not only on what it keeps.

## 6. Not modelled

* Times of day and durations: that the schedule says every three minutes where the
  README says every day, and how long anything takes.
* Image loading and layout, cells, animations; the notification extension; the Core
  Data stack and `HeartFillView`, which nothing uses.
* Services, except for what the program relies on: at-least-once delivery of tasks,
  atomic batches, exit on an unhandled rejection; and the other pods (gRPC, BoringSSL,
  abseil, leveldb, OneSignal, Firebase's core), of which the Firestore client needs that
  a transaction on disk is atomic and a stream delivers in order until it ends.
* In the Firestore client: transactions, bundles, aggregate queries, changes of user,
  garbage collection of the cache, disabling the network, snapshots in sync, metadata
  changes, index backfill, limits and orders of queries. The app uses none of them, or
  leaves them to their defaults.
* The limit on the size of a batch; security rules, of which only a refusal is seen; the
  completion handlers of background notifications and of the extension.

## 7. Plan

Done: the inventory, all modules above, the theorems of section 5.

1. Prove `SyncedIsExact`: give `Promised` its other direction (a document that is in the keys
   and not in the result is taken, or counted by a filter that will not agree), and
   the same for the target of a lookup.
2. Extend, if room is left: two queries in `QueryView`, which share documents of the cache;
   the order of the History list (`seenDate` is overwritten by a second tap).
