--------------------------- MODULE WritePipeline ---------------------------
(***************************************************************************)
(* What becomes of a setData of the app inside the Firestore client:       *)
(* the queue of mutation batches on disk (local_store.cc,                  *)
(* leveldb_mutation_queue.cc), the pipeline of batches on the way          *)
(* (remote_store.cc), the write stream with its handshake                  *)
(* (write_stream.cc, grpc_stream.cc, and Stream) and the completions       *)
(* (sync_engine.cc).                                                       *)
(*                                                                         *)
(* The client runs on one worker queue, so an action is one task of it.    *)
(* What is concurrent is the network, the server, the timers, the answers  *)
(* of the credentials provider, and the death of the process.              *)
(***************************************************************************)
EXTENDS Naturals, Sequences, SequencesExt, FiniteSets, Stream

CONSTANTS
  MaxWrites,         \* bound: calls of setData
  MaxPendingWrites,  \* kMaxPendingWrites
  MaxDisturbances    \* bound: what ends a connection, other than a refusal

ASSUME BoundAssumption ==
  /\ MaxWrites \in Nat \ {0}
  /\ MaxPendingWrites \in Nat \ {0}
  /\ MaxDisturbances \in Nat

Writes == 1 .. MaxWrites

VARIABLES
  running,    \* is the process alive, with a started client?
  issued,     \* the number of calls of setData so far
  disk,       \* the mutation queue: its batches, by ascending batch id
  nextBatchId,
  callbacks,  \* mutation_callbacks_: callbacks[batch id] is for that write
  pipeline,   \* write_pipeline_
  stream,     \* the state that write_stream_ has from Stream
  handshake,  \* handshake_complete_
  requests,   \* sent on the present connection and not served, oldest first
  responses,  \* of the server, and not read yet, oldest first
  verdict,    \* the status the server or the network ended the call with
  orphans,    \* what the server may still serve of connections that are gone
  applied,    \* the writes the server has applied
  refused,    \* the writes the client has taken out of the queue on an error
  told,       \* told[w]: what the completion of w was called with
  disturbances

diskVars == <<issued, disk, nextBatchId>>
clientVars == <<running, callbacks, pipeline, stream, handshake>>
wireVars == <<requests, responses, verdict, orphans>>
historyVars == <<applied, refused, told>>
vars == <<diskVars, clientVars, wireVars, historyVars, disturbances>>

Hello == 0   \* the handshake, as a request and as a response

Batches == [id : Nat, write : Writes]

TypeOK ==
  /\ running \in BOOLEAN
  /\ issued \in 0 .. MaxWrites
  /\ disk \in Seq(Batches)
  /\ nextBatchId \in Nat
  /\ DOMAIN callbacks \subseteq Nat
  /\ \A id \in DOMAIN callbacks : callbacks[id] \in Writes
  /\ pipeline \in Seq(Batches) /\ Len(pipeline) <= MaxPendingWrites
  /\ stream \in Streams
  /\ handshake \in BOOLEAN
  /\ requests \in Seq({Hello} \cup Writes)
  /\ responses \in Seq({Hello} \cup Writes)
  /\ verdict \in {"none", "transient", "permanent"}
  /\ orphans \subseteq Seq(Writes)
  /\ applied \subseteq Writes
  /\ refused \subseteq Writes
  /\ told \in [Writes -> {"nothing", "ok", "error"}]
  /\ disturbances \in 0 .. MaxDisturbances

NoCallbacks == [id \in {} |-> 0]

Init ==
  /\ running = FALSE
  /\ issued = 0
  /\ disk = <<>>
  /\ nextBatchId = 1
  /\ callbacks = NoCallbacks
  /\ pipeline = <<>>
  /\ stream = NewStream
  /\ handshake = FALSE
  /\ requests = <<>> /\ responses = <<>> /\ verdict = "none" /\ orphans = {}
  /\ applied = {} /\ refused = {}
  /\ told = [w \in Writes |-> "nothing"]
  /\ disturbances = 0

Disturb ==
  /\ disturbances < MaxDisturbances
  /\ disturbances' = disturbances + 1

-----------------------------------------------------------------------------
(* The mutation queue on disk, whose rows are sorted by batch id.          *)

Min2(m, n) == IF m < n THEN m ELSE n

\* How many rows have an id up to `id'.
UpTo(queue, id) == Cardinality({i \in DOMAIN queue : queue[i].id <= id})

\* AddMutationBatch: a Put, which replaces a row that has the same id.
Put(queue, batch) ==
  SubSeq(queue, 1, UpTo(queue, batch.id - 1)) \o <<batch>>
    \o SubSeq(queue, UpTo(queue, batch.id) + 1, Len(queue))

RemoveMutationBatch(queue, id) ==
  SubSeq(queue, 1, UpTo(queue, id - 1)) \o SubSeq(queue, UpTo(queue, id) + 1, Len(queue))

\* What GetNextMutationBatch yields, call after call, from `last' on.
NextMutationBatches(queue, last) == SubSeq(queue, UpTo(queue, last) + 1, Len(queue))

\* Mutant: the highest id that is still queued is given out again.
NextBatchIdAgain(queue) == IF queue = <<>> THEN 1 ELSE queue[Len(queue)].id

\* Start: the ids go on from the highest one that is still queued, or from 1.
NextBatchId(queue) == IF queue = <<>> THEN 1 ELSE queue[Len(queue)].id + 1

-----------------------------------------------------------------------------
(* The pipeline and the connection.                                        *)

WritesOf(batches) == [i \in DOMAIN batches |-> batches[i].write]

\* Mutant: CanAddToWritePipeline is not asked.
AddedUncapped(line, queue) ==
  NextMutationBatches(queue, IF line = <<>> THEN 0 ELSE Last(line).id)

\* The batches that a call of FillWritePipeline adds to the pipeline `line'.
Added(line, queue) ==
  LET next == NextMutationBatches(queue, IF line = <<>> THEN 0 ELSE Last(line).id)
  IN  SubSeq(next, 1, Min2(Len(next), MaxPendingWrites - Len(line)))

\* Mutant: a batch is sent as soon as the stream is open.
SendsWhenOpen(s, shaken) == IsOpen(s)

\* AddToWritePipeline: when is an added batch sent at once?
SendsAtOnce(s, shaken) == IsOpen(s) /\ shaken

\* FillWritePipeline with all it calls: `line' is filled up from `queue'; what
\* is added goes out at once if the handshake is behind us; a stream with
\* nothing to send is marked idle; one that is needed and stopped is started.
FillWritePipeline(line, queue, s, shaken, sent) ==
  LET added == Added(line, queue)
      filled == line \o added
      sending == SendsAtOnce(s, shaken) /\ added # <<>>
      s1 == IF sending THEN Write(s) ELSE s
      s2 == IF filled = <<>> THEN MarkIdle(s1) ELSE s1
  IN  /\ pipeline' = filled
      /\ requests' = IF sending THEN sent \o WritesOf(added) ELSE sent
      /\ stream' = IF ~IsStarted(s2) /\ filled # <<>> THEN Start(s2) ELSE s2

\* The server may have received what was sent when a connection ends.
Abandon ==
  orphans' = IF handshake /\ verdict = "none" /\ requests # <<>>
               THEN orphans \cup {requests} ELSE orphans

Hangup == responses' = <<>> /\ verdict' = "none" /\ Abandon

\* Mutant: the completion is told that all went well.
NotifyUserOk(id, what) ==
  /\ told' = IF id \in DOMAIN callbacks THEN [told EXCEPT ![callbacks[id]] = "ok"]
                                        ELSE told
  /\ callbacks' = [b \in DOMAIN callbacks \ {id} |-> callbacks[b]]

\* NotifyUser: batches that were restored from disk have no callback.
NotifyUser(id, what) ==
  /\ told' = IF id \in DOMAIN callbacks THEN [told EXCEPT ![callbacks[id]] = what]
                                        ELSE told
  /\ callbacks' = [b \in DOMAIN callbacks \ {id} |-> callbacks[b]]

-----------------------------------------------------------------------------
(* The process.                                                            *)

\* LocalStore::Start, and RemoteStore::Start with EnableNetwork.
Launch ==
  /\ ~running
  /\ running' = TRUE
  /\ nextBatchId' = NextBatchId(disk)
  /\ FillWritePipeline(<<>>, disk, NewStream, FALSE, <<>>)
  /\ UNCHANGED <<issued, disk, callbacks, handshake, responses, verdict, orphans,
                 historyVars, disturbances>>

Die ==
  /\ running' = FALSE
  /\ callbacks' = NoCallbacks
  /\ pipeline' = <<>>
  /\ stream' = NewStream
  /\ handshake' = FALSE
  /\ requests' = <<>>
  /\ Hangup

Kill ==
  /\ running
  /\ Disturb
  /\ Die
  /\ UNCHANGED <<diskVars, historyVars>>

\* SyncEngine::WriteMutations.
WriteMutations ==
  /\ running
  /\ issued < MaxWrites
  /\ issued' = issued + 1
  /\ disk' = Put(disk, [id |-> nextBatchId, write |-> issued'])
  /\ nextBatchId' = nextBatchId + 1
  /\ callbacks' = [b \in DOMAIN callbacks \cup {nextBatchId} |->
                     IF b = nextBatchId THEN issued' ELSE callbacks[b]]
  /\ FillWritePipeline(pipeline, disk', stream, handshake, requests)
  /\ UNCHANGED <<running, handshake, responses, verdict, orphans, historyVars,
                 disturbances>>

-----------------------------------------------------------------------------
(* The timers and the credentials.                                         *)

BackoffTimerFires ==
  /\ stream.backoff
  /\ stream' = BackoffElapses(stream)
  /\ UNCHANGED <<diskVars, running, callbacks, pipeline, handshake, wireVars,
                 historyVars, disturbances>>

\* ResumeStartWithCredentials, OnStreamStart and OnWriteStreamOpen, which
\* sends the handshake; or nothing, for the credentials of an older start.
CredentialsAnswered(when) ==
  /\ when \in stream.asked
  /\ LET s == CredentialsArrive(stream, when)
     IN  IF when = "now"
           THEN stream' = Write(s) /\ requests' = Append(requests, Hello)
           ELSE stream' = s /\ UNCHANGED requests
  /\ UNCHANGED <<diskVars, running, callbacks, pipeline, handshake, responses,
                 verdict, orphans, historyVars, disturbances>>

\* Stream::Stop and OnWriteStreamClose of a graceful end.
IdleTimerFires ==
  /\ stream.idle
  /\ stream' = Close(stream, TRUE)
  /\ handshake' = FALSE
  /\ requests' = <<>>
  /\ Hangup
  /\ UNCHANGED <<diskVars, running, callbacks, pipeline, historyVars, disturbances>>

\* The phone is on another network: RestartNetwork.
RestartNetwork ==
  /\ running
  /\ Disturb
  /\ handshake' = FALSE
  /\ Hangup
  /\ FillWritePipeline(<<>>, disk, InhibitBackoff(Close(stream, TRUE)), FALSE, <<>>)
  /\ UNCHANGED <<diskVars, running, callbacks, historyVars>>

-----------------------------------------------------------------------------
(* The server and the network.                                             *)

\* The server takes the requests of a connection in order.
Served(r) ==
  /\ verdict = "none" /\ requests # <<>> /\ Head(requests) = r
  /\ requests' = Tail(requests)
  /\ UNCHANGED <<diskVars, clientVars, orphans, refused, told, disturbances>>

ServerGreets ==
  /\ Served(Hello)
  /\ responses' = Append(responses, Hello)
  /\ UNCHANGED <<verdict, applied>>

ServerApplies ==
  \E w \in Writes :
    /\ Served(w)
    /\ applied' = applied \cup {w}
    /\ responses' = Append(responses, w)
    /\ UNCHANGED verdict

\* A refusal (the document is gone, the rules forbid it) ends the call.
ServerRefuses ==
  \E w \in Writes :
    /\ Served(w)
    /\ verdict' = "permanent"
    /\ UNCHANGED <<responses, applied>>

\* The call ends for another reason, be it that the handshake is refused; the
\* last of what the server said may be lost with it.
ConnectionBreaks ==
  /\ IsOpen(stream) /\ verdict = "none"
  /\ Disturb
  /\ verdict' \in IF requests = <<Hello>> THEN {"transient", "permanent"} ELSE {"transient"}
  /\ \E n \in 0 .. Len(responses) : responses' = SubSeq(responses, 1, n)
  /\ Abandon
  /\ UNCHANGED <<diskVars, clientVars, requests, historyVars>>

\* The server gets to a request that its connection has not survived.
OrphanServed ==
  \E o \in orphans :
    /\ applied' = applied \cup {Head(o)}
    /\ orphans' = (orphans \ {o}) \cup IF Len(o) = 1 THEN {} ELSE {Tail(o)}
    /\ UNCHANGED <<diskVars, clientVars, requests, responses, verdict, refused,
                   told, disturbances>>

-----------------------------------------------------------------------------
(* What the stream brings.                                                 *)

\* The first response on a stream, and OnWriteStreamHandshakeComplete.
ReadHandshake ==
  /\ responses # <<>> /\ ~handshake
  /\ handshake' = TRUE
  /\ responses' = Tail(responses)
  /\ stream' = IF pipeline # <<>> THEN Write(stream) ELSE stream
  /\ requests' = requests \o WritesOf(pipeline)
  /\ UNCHANGED <<diskVars, running, callbacks, pipeline, verdict, orphans,
                 historyVars, disturbances>>

\* OnWriteStreamMutationResult, HandleSuccessfulWrite and AcknowledgeBatch.
ReadResult ==
  /\ responses # <<>> /\ handshake /\ pipeline # <<>>
  /\ responses' = Tail(responses)
  /\ LET batch == Head(pipeline)
     IN  /\ NotifyUser(batch.id, "ok")
         /\ disk' = RemoveMutationBatch(disk, batch.id)
         /\ FillWritePipeline(Tail(pipeline), disk', stream, handshake, requests)
  /\ UNCHANGED <<running, issued, nextBatchId, handshake, verdict, orphans, applied,
                 refused, disturbances>>

\* The process dies in the middle of that: the completion was called, the
\* batch is still on disk.
ReadResultAndDie ==
  /\ responses # <<>> /\ handshake /\ pipeline # <<>>
  /\ Disturb
  /\ LET id == Head(pipeline).id
     IN  /\ id \in DOMAIN callbacks
         /\ told' = [told EXCEPT ![callbacks[id]] = "ok"]
  /\ Die
  /\ UNCHANGED <<diskVars, applied, refused>>

\* HandleWriteError of a permanent error, with HandleRejectedWrite: the first
\* batch of the pipeline is held to be the culprit.
HandleWriteError(closed) ==
  LET batch == Head(pipeline)
  IN  /\ refused' = refused \cup {batch.write}
      /\ disk' = RemoveMutationBatch(disk, batch.id)
      /\ NotifyUser(batch.id, "error")
      /\ FillWritePipeline(Tail(pipeline), disk', InhibitBackoff(closed), handshake, <<>>)

\* OnStreamFinish, Close and OnWriteStreamClose of a call that the server or
\* the network has ended.  Usually the responses that came before were read;
\* but a request that could not be sent any more may be noticed first, and
\* OnOperationFailed then drops what was not read.
StreamFinishes ==
  /\ verdict # "none"
  /\ responses = <<>> \/ requests # <<>>
  /\ handshake' = FALSE
  /\ Hangup
  /\ UNCHANGED <<running, issued, nextBatchId, applied, disturbances>>
  /\ LET closed == Close(stream, FALSE)
     IN  IF handshake /\ pipeline # <<>> /\ verdict = "permanent"
           THEN HandleWriteError(closed)
           ELSE /\ stream' = IF pipeline # <<>> THEN Start(closed) ELSE closed
                /\ requests' = <<>>
                /\ UNCHANGED <<disk, callbacks, pipeline, refused, told>>

-----------------------------------------------------------------------------

Next ==
  \/ Launch
  \/ Kill
  \/ WriteMutations
  \/ BackoffTimerFires
  \/ \E when \in {"now", "before"} : CredentialsAnswered(when)
  \/ IdleTimerFires
  \/ RestartNetwork
  \/ ServerGreets
  \/ ServerApplies
  \/ ServerRefuses
  \/ ConnectionBreaks
  \/ OrphanServed
  \/ ReadHandshake
  \/ ReadResult
  \/ ReadResultAndDie
  \/ StreamFinishes

Spec == Init /\ [][Next]_vars

(* Fairness.  The worker queue runs its tasks, the credentials provider    *)
(* answers, the server gets to what was sent and says how it went.         *)
Fairness ==
  /\ WF_vars(BackoffTimerFires)
  /\ WF_vars(\E when \in {"now", "before"} : CredentialsAnswered(when))
  /\ WF_vars(ServerGreets \/ ServerApplies \/ ServerRefuses)
  /\ WF_vars(ReadHandshake \/ ReadResult)
  /\ WF_vars(StreamFinishes)

FairSpec == Spec /\ Fairness

-----------------------------------------------------------------------------
(* Properties.                                                             *)

Queued == {disk[i].write : i \in DOMAIN disk}

\* The assertions of the client are out of reach: the callbacks of timers and
\* credentials find the stream they were made for, the idle timer never stops
\* a stream that is needed, no result comes to an empty pipeline, and what is
\* in the pipeline is what is first on disk.
AssertionsHold ==
  /\ CallbacksFit(stream)
  /\ stream.idle => pipeline = <<>>
  /\ handshake /\ responses # <<>> => pipeline # <<>>
  /\ IsPrefix(pipeline, disk)

\* `This is a response to a write containing mutations and should be correlated
\* to the first write in our write pipeline' (remote_store.cc:460): what the server
\* has answered and has yet to answer is the pipeline, in order.
WireMatchesPipeline ==
  /\ handshake => IsPrefix(responses, WritesOf(pipeline))
  /\ handshake /\ verdict = "none" => responses \o requests = WritesOf(pipeline)
  /\ ~handshake => requests \in {<<>>, <<Hello>>} /\ responses \in {<<>>, <<Hello>>}

\* A write leaves the disk only when it was applied or failed for good.
NothingLost == \A w \in 1 .. issued : w \in Queued \cup applied \cup refused

\* The client keeps the promise that the screens are built on.  With NothingLost
\* it says that the collection sees the writes in the order of the calls, though
\* connections break, are replaced and have their requests served late.
Promise == INSTANCE ReliableWrites
  WITH queue <- WritesOf(disk),
       live <- {callbacks[id] : id \in DOMAIN callbacks}

ImplementsReliableWrites == Promise!Spec

\* Unless the process stays dead, every write is settled in the end.
EveryWriteSettles ==
  []<>running => \A w \in Writes : w \in Queued ~> w \notin Queued
=============================================================================
