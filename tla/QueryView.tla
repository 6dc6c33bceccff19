----------------------------- MODULE QueryView -----------------------------
(***************************************************************************)
(* How the Firestore client keeps the result of one query: the messages of *)
(* the watch stream become snapshots (WatchAggregator, remote_store.cc),   *)
(* snapshots change the cache and the keys of the target on disk           *)
(* (local_store.cc), the view follows (view.cc), and a document that the   *)
(* cache has in the result and the server does not is in limbo, and is     *)
(* looked up on its own (sync_engine.cc).                                  *)
(*                                                                         *)
(* QueryGets says when a listener is told; this module, what it is told.   *)
(* A request reaches the server as it is sent: nothing the client does in  *)
(* between could make a difference to it.                                  *)
(***************************************************************************)
EXTENDS Sequences, SequencesExt, WatchAggregator

CONSTANTS
  Docs,            \* the documents
  MaxLookups,      \* max_concurrent_limbo_resolutions_
  LookupIds,       \* bound: the target ids for lookups
  Confusable,      \* bound: the documents a filter may take for its own
  MaxUnread,       \* bound: messages on the wire when the app comes or goes
  MaxVersion,      \* bound: versions of the database
  MaxDisturbances  \* bound: broken connections, crashes, refusals

ASSUME DocsAssumption == IsFiniteSet(Docs)
ASSUME LookupAssumption ==
  /\ MaxLookups \in Nat \ {0}
  /\ LookupIds \subseteq Nat \ {0}
ASSUME BoundAssumption ==
  /\ MaxVersion \in Nat \ {0}
  /\ Confusable \subseteq Docs
  /\ MaxUnread \in Nat /\ MaxDisturbances \in Nat

VARIABLES
  db,           \* the database at each version so far, see Databases
  client,       \* the memory of the client, see Clients
  disk,         \* what it has on disk, see Disks
  server,       \* the other end of the watch stream, see Servers
  disturbances, \* history
  excused       \* history: how the keys may have come to hold what they should not

vars == <<db, client, disk, server, disturbances, excused>>

QueryTarget == 0
TargetIds == {QueryTarget} \cup LookupIds
Versions == 0 .. MaxVersion
Values == {"in", "out", "gone"}  \* a result, another document, none
Types == {"added", "modified", "removed"}
NoKey == "none"

IsPartial(f, S, T) == DOMAIN f \subseteq S /\ \A x \in DOMAIN f : f[x] \in T

Databases == Seq([Docs -> [value : Values, since : Versions]])

\* An entry of the remote document cache; its version is 0 when there is none.
Entries == [version : Versions, value : Values \cup {"unknown"}, read : Versions]

Disks == [cache : [Docs -> Entries],
          keys : SUBSET Docs,      \* target_cache, matching keys
          token : Versions, limboFree : Versions,
          last : Versions]         \* last remote snapshot version

NoView == [docs |-> {}, synced |-> {}, current |-> FALSE, limbo |-> {}, state |-> "none"]

NewClient == [open |-> FALSE, targets |-> <<>>, agg |-> NewAggregator,
              listening |-> FALSE, view |-> NoView, token |-> 0, limboFree |-> 0,
              resolving |-> <<>>, enqueued |-> <<>>]

\* watching[t] is what the server knows of a target: the document looked up,
\* the version up to which the client has been told, and so on.
NewServer == [watching |-> <<>>, wire |-> <<>>]

TypeOK ==
  /\ db \in Databases /\ Len(db) \in 1 .. MaxVersion
  /\ IsPartial(client.targets, TargetIds, Versions)
  /\ DOMAIN client.agg.states \subseteq TargetIds
  /\ \A t \in DOMAIN client.agg.states :
       /\ client.agg.states[t].outstanding \in Nat
       /\ IsPartial(client.agg.states[t].changes, Docs, Types)
  /\ client.view \in [docs : SUBSET Docs, synced : SUBSET Docs, current : BOOLEAN,
                      limbo : SUBSET Docs, state : {"none", "local", "synced"}]
  /\ IsPartial(client.resolving, LookupIds, [key : Docs, received : BOOLEAN])
  /\ Cardinality(DOMAIN client.resolving) <= MaxLookups
  /\ client.enqueued \in Seq(Docs)
  /\ disk \in Disks
  /\ DOMAIN server.watching \subseteq TargetIds
  /\ disturbances \in 0 .. MaxDisturbances /\ excused \subseteq {"crossed", "recounted"}

Init ==
  /\ db \in {<<[d \in Docs |-> [value |-> v[d], since |-> 1]]>> : v \in [Docs -> {"in", "gone"}]}
  /\ client = NewClient
  /\ disk = [cache |-> [d \in Docs |-> [version |-> 0, value |-> "unknown", read |-> 0]],
             keys |-> {}, token |-> 0, limboFree |-> 0, last |-> 0]
  /\ server = NewServer
  /\ disturbances = 0 /\ excused = {}

-----------------------------------------------------------------------------
(* RemoteStore.  A step takes and returns a record of client, disk, server. *)

\* SyncEngine::GetRemoteKeys, as the provider of the aggregator.
Meta(c) ==
  [keys |-> [t \in DOMAIN c.targets |->
               IF t = QueryTarget THEN c.view.synced
               ELSE IF c.resolving[t].received THEN {c.resolving[t].key} ELSE {}],
   lookup |-> [t \in DOMAIN c.resolving |-> c.resolving[t].key]]

\* The server starts to watch from a version, or stops.
ServerWatches(s, t, token) ==
  [s EXCEPT !.server.watching =
              With(@, t, [key |-> IF t = QueryTarget THEN NoKey ELSE s.client.resolving[t].key,
                          asOf |-> token, resumed |-> token # 0, current |-> FALSE]),
            !.server.wire = Append(@, [what |-> "added", target |-> t])]

ServerUnwatches(s, t) ==
  [s EXCEPT !.server.watching = Without(@, t),
            !.server.wire = Append(@, [what |-> "removed", target |-> t])]

SendWatchRequest(s, t, token) ==
  ServerWatches([s EXCEPT !.client.agg = RecordPendingTargetRequest(@, t)], t, token)

SendUnwatchRequest(s, t) ==
  ServerUnwatches([s EXCEPT !.client.agg = RecordPendingTargetRequest(@, t)], t)

SendWatchRequests(s, targets) ==
  FoldSet(LAMBDA t, r : SendWatchRequest(r, t, targets[t]), s, DOMAIN targets)

RemoteListen(s, t, token) ==
  LET listened == [s EXCEPT !.client.targets = With(@, t, token)]
  IN  IF s.client.open THEN SendWatchRequest(listened, t, token) ELSE listened

RemoteStopListening(s, t) ==
  LET left == [s EXCEPT !.client.targets = Without(@, t)]
  IN  IF s.client.open THEN SendUnwatchRequest(left, t) ELSE left

-----------------------------------------------------------------------------
(* SyncEngine, the documents in limbo.                                     *)

\* target_id_generator_: an id that nobody remembers.
NextId(s) ==
  LET remembered == UNION {DOMAIN s.client.targets, DOMAIN s.client.agg.states,
                           DOMAIN s.client.resolving, DOMAIN s.server.watching}
      OnWire(t) == \E m \in ToSet(s.server.wire) :
                     m.what \notin {"doc", "snapshot"} /\ m.target = t
  IN  Min({t \in LookupIds \ remembered : ~OnWire(t)})

Resolved(c) == {c.resolving[t].key : t \in DOMAIN c.resolving}

\* Mutant: nobody counts the lookups.
PumpOneMore(s) ==
  IF s.client.enqueued = <<>> THEN s
  ELSE LET t == NextId(s)
           d == Head(s.client.enqueued)
       IN  RemoteListen([s EXCEPT !.client.enqueued = Tail(@),
                                  !.client.resolving =
                                    With(@, t, [key |-> d, received |-> FALSE])],
                        t, 0)

\* PumpEnqueuedLimboResolutions, once.
PumpOne(s) ==
  IF s.client.enqueued = <<>> \/ Cardinality(DOMAIN s.client.resolving) >= MaxLookups THEN s
  ELSE LET t == NextId(s)
           d == Head(s.client.enqueued)
       IN  RemoteListen([s EXCEPT !.client.enqueued = Tail(@),
                                  !.client.resolving =
                                    With(@, t, [key |-> d, received |-> FALSE])],
                        t, 0)

Pump(s) == FoldSet(LAMBDA d, r : PumpOne(r), s, Docs)

TrackLimboChange(s, d) ==
  IF d \in Resolved(s.client) \cup ToSet(s.client.enqueued) THEN s
  ELSE Pump([s EXCEPT !.client.enqueued = Append(@, d)])

\* active_limbo_targets_by_key_.
LookupOf(c, d) == CHOOSE t \in DOMAIN c.resolving : c.resolving[t].key = d

\* Mutant: the next lookup is not started when one ends.
RemoveLimboTargetOnly(s, d) ==
  LET dropped == [s EXCEPT !.client.enqueued = RemoveFirst(@, d)]
      t == LookupOf(s.client, d)
  IN  IF d \notin Resolved(s.client) THEN dropped
      ELSE [RemoteStopListening(dropped, t) EXCEPT !.client.resolving = Without(@, t)]

RemoveLimboTarget(s, d) ==
  LET dropped == [s EXCEPT !.client.enqueued = RemoveFirst(@, d)]
      t == LookupOf(s.client, d)
  IN  IF d \notin Resolved(s.client) THEN dropped
      ELSE Pump([RemoteStopListening(dropped, t) EXCEPT !.client.resolving = Without(@, t)])

RemoveLimboTargets(s, docs) == FoldSet(LAMBDA d, r : RemoveLimboTarget(r, d), s, docs)

TrackLimboChanges(s, docs) == FoldSet(LAMBDA d, r : TrackLimboChange(r, d), s, docs)

\* UpdateTrackedLimboDocuments.
TrackLimbo(s, old, new) ==
  TrackLimboChanges(RemoveLimboTargets(s, old \ new), new \ old)

-----------------------------------------------------------------------------
(* LocalStore.                                                             *)

Matching(k) == {d \in Docs : k.cache[d].value = "in"}

\* QueryEngine: the keys of the last snapshot without limbo, and what was read
\* since, stand for a scan of the cache.
ExecuteQuery(k) ==
  IF k.limboFree = 0 THEN Matching(k)
  ELSE {d \in Matching(k) : d \in k.keys \/ k.cache[d].read > k.limboFree}

\* PopulateDocumentChanges: the documents that are new to the cache.
IsNews(k, d, update) == update = Deleted(0) \/ update.version > k.cache[d].version

Populate(k, event) ==
  LET changed == {d \in DOMAIN event.updates : IsNews(k, d, event.updates[d])}
  IN  [cache |-> [d \in Docs |->
         IF d \notin changed THEN k.cache[d]
         ELSE IF event.updates[d] = Deleted(0)
           THEN [version |-> 0, value |-> "unknown", read |-> 0]
         ELSE [version |-> event.updates[d].version, value |-> event.updates[d].value,
               read |-> event.version]],
       changed |-> changed]

\* ShouldPersistTargetData; aged: is the data on disk five minutes old?
Persist(s, oldToken, changes, aged) ==
  IF oldToken = 0 \/ changes # {} \/ aged
    THEN [s EXCEPT !.disk.token = s.client.token, !.disk.limboFree = s.client.limboFree]
    ELSE s

\* Mutant: a mismatch leaves the mark of the last snapshot without limbo.
UpdateTargetKeepsMark(s, event, aged) ==
  IF QueryTarget \notin DOMAIN event.changes \/ ~s.client.listening THEN s
  ELSE LET change == event.changes[QueryTarget]
           told == IF QueryTarget \in event.mismatches
                     THEN [s EXCEPT !.client.token = 0]
                   ELSE IF change.token # 0 THEN [s EXCEPT !.client.token = change.token]
                   ELSE s
       IN  Persist([told EXCEPT !.disk.keys = (@ \ change.removed) \cup change.added],
                   s.client.token, change.added \cup change.modified \cup change.removed, aged)

\* ApplyRemoteEvent, the keys and the resume token of the query.
UpdateTarget(s, event, aged) ==
  IF QueryTarget \notin DOMAIN event.changes \/ ~s.client.listening THEN s
  ELSE LET change == event.changes[QueryTarget]
           told == IF QueryTarget \in event.mismatches
                     THEN [s EXCEPT !.client.token = 0, !.client.limboFree = 0]
                   ELSE IF change.token # 0 THEN [s EXCEPT !.client.token = change.token]
                   ELSE s
       IN  Persist([told EXCEPT !.disk.keys = (@ \ change.removed) \cup change.added],
                   s.client.token, change.added \cup change.modified \cup change.removed, aged)

\* NotifyLocalViewChanges, of a view without documents in limbo.
MarkLimboFree(s, aged) ==
  Persist([s EXCEPT !.client.limboFree = s.client.token], s.client.token, {}, aged)

-----------------------------------------------------------------------------
(* SyncEngine and View.                                                    *)

\* Mutant: what has left the target stays in the keys of the view.
ApplyTargetChangeAdds(view, change) ==
  [view EXCEPT !.synced = @ \cup change.added, !.current = change.current]

\* View::ApplyTargetChange.
ApplyTargetChange(view, change) ==
  [view EXCEPT !.synced = (@ \cup change.added) \ change.removed, !.current = change.current]

\* Mutant: limbo is not looked for again.
UpdateLimboNever(view) == view

\* View::UpdateLimboDocuments.
UpdateLimboDocuments(view) ==
  IF view.current THEN [view EXCEPT !.limbo = view.docs \ view.synced] ELSE view

SyncState(view) == IF view.current /\ view.limbo = {} THEN "synced" ELSE "local"

\* EmitNewSnapshotsAndNotifyLocalStore, after the documents have changed.
EmitNewSnapshots(s, event, changed, aged) ==
  IF ~s.client.listening THEN s
  ELSE LET old == s.client.view
           docs == {d \in Docs : IF d \in changed THEN s.disk.cache[d].value = "in"
                                                  ELSE d \in old.docs}
           shown == [old EXCEPT !.docs = docs]
           view == UpdateLimboDocuments(
                     IF QueryTarget \in DOMAIN event.changes
                       THEN ApplyTargetChange(shown, event.changes[QueryTarget])
                       ELSE shown)
           state == SyncState(view)
           tracked == TrackLimbo([s EXCEPT !.client.view = [view EXCEPT !.state = state]],
                                 old.limbo, view.limbo)
           told == changed \cap (old.docs \cup docs) # {} \/ state # old.state
       IN  IF told /\ state = "synced" THEN MarkLimboFree(tracked, aged) ELSE tracked

\* SyncEngine::ApplyRemoteEvent: a lookup that has its document has received it.
ApplyRemoteEvent(s, event, aged) ==
  LET received(t) ==
        IF t \notin DOMAIN event.changes THEN s.client.resolving[t].received
        ELSE \/ event.changes[t].added # {}
             \/ /\ event.changes[t].removed = {}
                /\ s.client.resolving[t].received
      resolving == [t \in DOMAIN s.client.resolving |->
                      [s.client.resolving[t] EXCEPT !.received = received(t)]]
      populated == Populate(s.disk, event)
      stored == [UpdateTarget([s EXCEPT !.client.resolving = resolving], event, aged) EXCEPT
                   !.disk.cache = populated.cache,
                   !.disk.last = IF event.version = 0 THEN @ ELSE event.version]
  IN  EmitNewSnapshots(stored, event, populated.changed, aged)

-----------------------------------------------------------------------------
(* What the client does.                                                   *)

State == [client |-> client, disk |-> disk, server |-> server]

Do(s) == client' = s.client /\ disk' = s.disk /\ server' = s.server

\* SyncEngine::Listen: AllocateTarget, and a view of what the cache has.
Listen ==
  /\ ~client.listening /\ Len(server.wire) <= MaxUnread
  /\ LET view == [docs |-> ExecuteQuery(disk), synced |-> disk.keys, current |-> FALSE,
                  limbo |-> {}, state |-> "local"]
     IN  Do(RemoteListen([State EXCEPT !.client.listening = TRUE, !.client.view = view,
                                       !.client.token = disk.token,
                                       !.client.limboFree = disk.limboFree],
                         QueryTarget, disk.token))
  /\ excused' = IF QueryTarget \in client.agg.resets THEN excused \cup {"crossed"} ELSE excused
  /\ UNCHANGED <<db, disturbances>>

\* SyncEngine::StopListening: ReleaseTarget, and no more lookups.
StopListening ==
  /\ client.listening /\ Len(server.wire) <= MaxUnread
  /\ LET released == [State EXCEPT !.disk.token = client.token,
                                   !.disk.limboFree = client.limboFree]
         stopped == [RemoteStopListening(released, QueryTarget) EXCEPT
                       !.client.listening = FALSE, !.client.view = NoView,
                       !.client.token = 0, !.client.limboFree = 0]
     IN  Do(RemoveLimboTargets(stopped, client.view.limbo))
  /\ UNCHANGED <<db, disturbances, excused>>

\* StartWatchStream and OnWatchStreamOpen.
Opens ==
  /\ ~client.open /\ DOMAIN client.targets # {}
  /\ Do(SendWatchRequests([State EXCEPT !.client.open = TRUE, !.client.agg = NewAggregator],
                          client.targets))
  /\ UNCHANGED <<db, disturbances, excused>>

Closed == [State EXCEPT !.client.open = FALSE, !.client.agg = NewAggregator,
                        !.server = NewServer]

\* The idle timer of the stream.
IdleTimerFires ==
  /\ client.open /\ DOMAIN client.targets = {}
  /\ Do(Closed)
  /\ UNCHANGED <<db, disturbances, excused>>

Disturbed == disturbances < MaxDisturbances /\ disturbances' = disturbances + 1

\* The connection breaks, and nothing on it arrives any more.
Breaks ==
  /\ client.open
  /\ Disturbed
  /\ Do(Closed)
  /\ UNCHANGED <<db, excused>>

\* View::ApplyOnlineStateChange, of a client without a connection.
GoesOffline ==
  /\ ~client.open /\ client.listening /\ client.view.current
  /\ client' = [client EXCEPT !.view.current = FALSE, !.view.state = "local"]
  /\ UNCHANGED <<db, disk, server, disturbances, excused>>

\* The app is killed and launched again.
Crash ==
  /\ Disturbed
  /\ client' = NewClient /\ server' = NewServer
  /\ UNCHANGED <<db, disk, excused>>

-----------------------------------------------------------------------------
(* What the client is told: OnWatchStreamChange.                           *)

\* The listens that a mismatch has made invalid start again, from nothing.
Rewatch(s, t) ==
  IF t \notin DOMAIN s.client.targets THEN s
  ELSE SendWatchRequest(SendUnwatchRequest([s EXCEPT !.client.targets[t] = 0], t), t, 0)

RewatchAll(s, targets) == FoldSet(LAMBDA t, r : Rewatch(r, t), s, targets)

\* RaiseWatchSnapshot.
RaiseWatchSnapshot(s, version, aged) ==
  LET meta == Meta(s.client)
      agg == SynthesizeDeletes(s.client.agg, meta, version)
      event == RemoteEvent(agg, meta, version)
      token(t) == IF t \in DOMAIN event.changes /\ event.changes[t].token # 0
                    THEN event.changes[t].token ELSE s.client.targets[t]
      taken == [s EXCEPT !.client.agg = AfterRemoteEvent(agg, meta),
                         !.client.targets = [t \in DOMAIN @ |-> token(t)]]
  IN  ApplyRemoteEvent(RewatchAll(taken, event.mismatches), event, aged)

\* ProcessTargetError and HandleRejectedListen, of a lookup: the document is
\* taken out of the cache.
TargetRefused(s, t, aged) ==
  IF t \notin DOMAIN s.client.targets THEN s
  ELSE LET d == s.client.resolving[t].key
           gone == Pump([s EXCEPT !.client.targets = Without(@, t),
                                  !.client.agg = RemoveTarget(@, t),
                                  !.client.resolving = Without(@, t)])
       IN  ApplyRemoteEvent(gone, [version |-> 0, updates |-> [k \in {d} |-> Deleted(0)],
                                   mismatches |-> {}, changes |-> <<>>], aged)

Handle(s, msg, aged) ==
  LET meta == Meta(s.client)
      aggregate(agg) == [s EXCEPT !.client.agg = agg]
      agg == s.client.agg
  IN  CASE msg.what = "added" -> aggregate(TargetAdded(agg, msg.target))
        [] msg.what = "removed" -> aggregate(TargetRemoved(agg, msg.target))
        [] msg.what = "refused" -> TargetRefused(s, msg.target, aged)
        [] msg.what = "current" -> aggregate(TargetCurrent(agg, meta, msg.target, msg.token))
        [] msg.what = "reset" -> aggregate(TargetReset(agg, meta, msg.target))
        [] msg.what = "doc" -> aggregate(HandleDocumentChange(agg, meta, msg))
        [] msg.what = "filter" -> aggregate(HandleExistenceFilter(agg, meta, msg))
        [] msg.what = "snapshot" ->
             LET told == aggregate(TargetsNoChange(agg, meta, msg.version))
             IN  IF msg.version >= s.disk.last THEN RaiseWatchSnapshot(told, msg.version, aged)
                                               ELSE told

\* Does the client read a filter of the query, and remove and count by it a
\* document that was removed, and counted, before?
ReadsFilter(msg) ==
  /\ msg.what = "filter" /\ msg.target = QueryTarget
  /\ IsActiveTarget(client.agg, Meta(client), QueryTarget)

CountsAgain(msg) ==
  /\ ReadsFilter(msg)
  /\ ChangedAs(EnsureTargetState(client.agg, QueryTarget), "removed") \ msg.might # {}

OnWatchStreamChange ==
  /\ client.open /\ server.wire # <<>>
  /\ \E aged \in (IF Head(server.wire).what \in {"snapshot", "refused"}
                    THEN BOOLEAN ELSE {FALSE}) :
       Do(Handle([State EXCEPT !.server.wire = Tail(@)], Head(server.wire), aged))
  /\ excused' = IF CountsAgain(Head(server.wire)) THEN excused \cup {"recounted"} ELSE excused
  /\ UNCHANGED <<db, disturbances>>

-----------------------------------------------------------------------------
(* The database and the server.                                            *)

Now == Len(db)

\* A commit adds, changes or deletes one document or, as that of the rotation
\* does, several at once.
DatabaseChanges ==
  /\ Now < MaxVersion
  /\ \E D \in SUBSET Docs \ {{}} : \E value \in [D -> Values] :
       /\ \A d \in D : value[d] = "gone" => db[Now][d].value # "gone"
       /\ db' = Append(db, [d \in Docs |-> IF d \in D
                                             THEN [value |-> value[d], since |-> Now + 1]
                                             ELSE db[Now][d]])
  /\ UNCHANGED <<client, disk, server, disturbances, excused>>

\* What a target holds at a version.
ResultAt(w, v) ==
  IF w.key = NoKey THEN {d \in Docs : db[v][d].value = "in"}
                   ELSE {w.key} \ {d \in Docs : db[v][d].value = "gone"}

Entering(w) ==
  {d \in ResultAt(w, Now) :
     w.asOf = 0 \/ d \notin ResultAt(w, w.asOf) \/ db[Now][d].since > w.asOf}

Leaving(w) == IF w.asOf = 0 THEN {} ELSE ResultAt(w, w.asOf) \ ResultAt(w, Now)

\* The targets not caught up with yet, and all that have something to be told.
Catching == {t \in DOMAIN server.watching : ~server.watching[t].current}

Stale == Catching \cup {t \in DOMAIN server.watching : server.watching[t].asOf # Now}

DocumentMessage(d, update, forgotten) ==
  [what |-> "doc", key |-> d, update |-> update,
   in |-> {t \in DOMAIN server.watching : d \in Entering(server.watching[t])},
   out |-> {t \in DOMAIN server.watching : d \in Leaving(server.watching[t])} \ forgotten]

UpdateOf(d) ==
  [value |-> db[Now][d].value,
   version |-> IF db[Now][d].value = "gone" THEN Now ELSE db[Now][d].since]

HasToSay ==
  /\ Stale # {}
  /\ \A i \in DOMAIN server.wire : server.wire[i].what # "snapshot"

\* The server sends all there is to say, and a snapshot.  Documents that left
\* their targets may be sent along or not (omits); a listen that was resumed is
\* told by a filter if documents left that the server has no record of (forgets),
\* and the filter takes some documents for its own that are not (might).
ServerSends(omits, forgets, might) ==
  LET resumed == {t \in Catching : server.watching[t].resumed}
      messages == {DocumentMessage(d, IF omits THEN NoUpdate ELSE UpdateOf(d),
                                   IF d \in forgets THEN resumed ELSE {}) : d \in Docs}
      docs == {m \in {IF m.in = {} THEN m ELSE [m EXCEPT !.update = UpdateOf(m.key)] :
                       m \in messages} : m.in \cup m.out # {}}
      filters == {[what |-> "filter", target |-> t,
                   count |-> Cardinality(ResultAt(server.watching[t], Now)),
                   might |-> ResultAt(server.watching[t], Now) \cup might] : t \in resumed}
      currents == {[what |-> "current", target |-> t, token |-> Now] : t \in Catching}
  IN  /\ HasToSay
      /\ forgets \subseteq UNION {Leaving(server.watching[t]) : t \in resumed}
      /\ resumed = {} => might = {}
      /\ UNCHANGED <<db, client, disk, disturbances, excused>>
      /\ server' = [wire |-> server.wire \o SetToSeq(docs) \o SetToSeq(currents)
                               \o SetToSeq(filters)
                               \o <<[what |-> "snapshot", version |-> Now]>>,
                    watching |-> [t \in DOMAIN server.watching |->
                                    [server.watching[t] EXCEPT !.asOf = Now, !.current = TRUE]]]

SomethingSent ==
  \E omits \in BOOLEAN, forgets \in SUBSET Docs, might \in SUBSET Confusable :
    ServerSends(omits, forgets, might)

\* The server wants to start a target afresh.
ServerResets ==
  /\ Disturbed
  /\ QueryTarget \in DOMAIN server.watching
  /\ server.watching[QueryTarget].current
  /\ server' = [wire |-> Append(server.wire, [what |-> "reset", target |-> QueryTarget]),
                watching |-> [server.watching EXCEPT ![QueryTarget].asOf = 0,
                                                     ![QueryTarget].current = FALSE,
                                                     ![QueryTarget].resumed = FALSE]]
  /\ UNCHANGED <<db, client, disk, excused>>

\* The rules do not let the client see a document by itself.
ServerRefuses(t) ==
  /\ Disturbed
  /\ t \in DOMAIN server.watching \ {QueryTarget}
  /\ ~server.watching[t].current
  /\ server' = [wire |-> Append(server.wire, [what |-> "refused", target |-> t]),
                watching |-> Without(server.watching, t)]
  /\ UNCHANGED <<db, client, disk, excused>>

-----------------------------------------------------------------------------

Next ==
  \/ Listen
  \/ StopListening
  \/ Opens
  \/ IdleTimerFires
  \/ Breaks
  \/ GoesOffline
  \/ Crash
  \/ OnWatchStreamChange
  \/ DatabaseChanges
  \/ SomethingSent
  \/ ServerResets
  \/ \E t \in LookupIds : ServerRefuses(t)

Spec == Init /\ [][Next]_vars

(* Fairness.  The connection is made, the server sends what it has to say, *)
(* and the worker queue gets to every message.  The guards are written out *)
(* because TLC is slow to evaluate ENABLED of actions so large.            *)
Fairness ==
  /\ WF_vars(Opens)
  /\ []<>(~client.open \/ server.wire = <<>>) \/ []<><<OnWatchStreamChange>>_vars
  /\ []<>~HasToSay \/ []<><<SomethingSent>>_vars

FairSpec == Spec /\ Fairness

-----------------------------------------------------------------------------
(* Properties.                                                             *)

\* The assertions of the client are out of reach: a target of an open stream is
\* known to the aggregator; a document is modified in or removed from a target
\* only if it is there, and added only if it is not; the targets listened to
\* are those of the query and of its lookups.
AssertionsHold ==
  LET meta == Meta(client)
  IN  /\ client.open => DOMAIN client.targets \subseteq DOMAIN client.agg.states
      /\ \A t \in Changing(client.agg, meta) :
           \A d \in DOMAIN client.agg.states[t].changes :
             d \in meta.keys[t] <=> client.agg.states[t].changes[d] # "added"
      /\ DOMAIN client.targets =
           DOMAIN client.resolving \cup (IF client.listening THEN {QueryTarget} ELSE {})

\* For every target, the answers counted as due are those on their way.
AcksAreDue ==
  client.open =>
    \A t \in DOMAIN client.agg.states :
      client.agg.states[t].outstanding =
        Cardinality({i \in DOMAIN server.wire :
                       /\ server.wire[i].what \in {"added", "removed"}
                       /\ server.wire[i].target = t})

\* What was shown as synced is the result of the query at one version of the
\* database, with each document as it was at that version.
Exact ==
  LET told == db[IF client.token # 0 THEN client.token ELSE disk.last]
  IN  /\ client.view.docs = {d \in Docs : told[d].value = "in"}
      /\ \A d \in client.view.docs : disk.cache[d].version = told[d].since

\* A view that is called synced is exact, unless (1) the query was listened to again
\* between a mismatch and the snapshot that would have dealt with it: the keys
\* of the earlier listen stay, whatever the new one is told; or (2) a filter has
\* removed and counted a document a second time: its count may then agree by
\* accident while it takes for its own a document that is gone.
SyncedIsExact == client.view.state = "synced" /\ excused = {} => Exact

\* snapshot_metadata.h:42-44: a snapshot that is not from the cache has "guaranteed
\* up-to-date server data".
NotFromCacheIsUpToDate == client.view.state = "synced" => Exact

\* The view starts from the keys of the last snapshot without limbo and goes on
\* by changes: a document that a scan of the cache would find and the view lacks
\* has left the result since it was read.
NothingMissed ==
  client.listening =>
    \A d \in Matching(disk) \ client.view.docs :
      \E v \in disk.cache[d].read .. disk.last : db[v][d].value # "in"

\* The view goes on by changes and the disk by changes, and the two never part:
\* what is shown matches in the cache, the keys of the view are those on disk, and
\* what is called synced has no document that the target on disk has not.
ViewFollowsDisk ==
  /\ client.view.docs \subseteq Matching(disk)
  /\ client.listening => client.view.synced = disk.keys
  /\ client.view.current => client.view.limbo = client.view.docs \ client.view.synced
  /\ client.view.state = "synced" => client.view.current /\ client.view.docs \subseteq disk.keys

\* A document in limbo is looked up or waits for its turn, and it waits only as
\* long as there are MaxLookups others.
LimboIsPursued ==
  /\ client.enqueued # <<>> => Cardinality(DOMAIN client.resolving) = MaxLookups
  /\ Resolved(client) \cup ToSet(client.enqueued) \subseteq client.view.limbo

\* A query that is listened to is synced in the end, whatever was lost, unless
\* it goes on being disturbed.
BecomesSynced == client.listening ~> client.view.state = "synced" \/ ~client.listening
=============================================================================
