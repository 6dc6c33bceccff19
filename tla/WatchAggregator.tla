-------------------------- MODULE WatchAggregator --------------------------
(***************************************************************************)
(* WatchChangeAggregator (remote_event.cc): what the messages of a watch   *)
(* stream add up to, until a global snapshot hands it to the sync engine.  *)
(*                                                                         *)
(* The operators work on a record agg of                                   *)
(*   states   a function from the targets known here to TargetStates,      *)
(*   updates  a function from the documents with an update to that update, *)
(*   resets   the targets to be watched anew,                              *)
(* and ask a record meta, the TargetMetadataProvider, for                  *)
(*   keys     a function from the targets listened to to the documents     *)
(*            the last snapshots put in them,                              *)
(*   lookup   a function from the targets that are the lookup of a single  *)
(*            document to that document.                                   *)
(* Versions, and the resume tokens that stand for them, are numbers; 0 is  *)
(* no version.                                                             *)
(***************************************************************************)
EXTENDS Naturals, Integers, FiniteSets, FiniteSetsExt, Functions

NoUpdate == [version |-> 0, value |-> "unknown"]

\* NoDocument of a version, 0 for the one that is made up.
Deleted(version) == [version |-> version, value |-> "gone"]

IsFound(update) == update.value \in {"in", "out"}

NewTargetState ==
  [outstanding |-> 0, pending |-> TRUE, changes |-> <<>>, current |-> FALSE, token |-> 0]

NewAggregator == [states |-> <<>>, updates |-> <<>>, resets |-> {}]

\* f without x, and f with x.
Without(f, x) == Restrict(f, DOMAIN f \ {x})
With(f, x, y) == [z \in DOMAIN f \cup {x} |-> IF z = x THEN y ELSE f[z]]

EnsureTargetState(agg, t) ==
  IF t \in DOMAIN agg.states THEN agg.states[t] ELSE NewTargetState

SetState(agg, t, state) == [agg EXCEPT !.states = With(@, t, state)]

\* A target is not active while an answer to one of its requests is due.
IsActiveTarget(agg, meta, t) ==
  t \in DOMAIN meta.keys /\ EnsureTargetState(agg, t).outstanding = 0

\* Mutant: the request is not counted.
RequestUncounted(agg, t) == SetState(agg, t, EnsureTargetState(agg, t))

RecordPendingTargetRequest(agg, t) ==
  LET state == EnsureTargetState(agg, t)
  IN  SetState(agg, t, [state EXCEPT !.outstanding = @ + 1])

UpdateResumeToken(state, token) ==
  IF token = 0 THEN state ELSE [state EXCEPT !.pending = TRUE, !.token = token]

ClearPendingChanges(state) == [state EXCEPT !.pending = FALSE, !.changes = <<>>]

ChangedAs(state, type) == {d \in DOMAIN state.changes : state.changes[d] = type}

RemoveTarget(agg, t) == [agg EXCEPT !.states = Without(@, t)]

AddDocumentToTarget(agg, meta, t, key, update) ==
  IF ~IsActiveTarget(agg, meta, t) THEN agg
  ELSE LET type == IF key \in meta.keys[t] THEN "modified" ELSE "added"
           state == [EnsureTargetState(agg, t) EXCEPT !.pending = TRUE,
                                                      !.changes = With(@, key, type)]
       IN  [SetState(agg, t, state) EXCEPT !.updates = With(@, key, update)]

\* A document that came and went since the last snapshot leaves no trace.
RemoveDocumentFromTarget(agg, meta, t, key, update) ==
  IF ~IsActiveTarget(agg, meta, t) THEN agg
  ELSE LET state == [EnsureTargetState(agg, t) EXCEPT
                       !.pending = TRUE,
                       !.changes = IF key \in meta.keys[t] THEN With(@, key, "removed")
                                                           ELSE Without(@, key)]
       IN  [SetState(agg, t, state) EXCEPT
              !.updates = IF update = NoUpdate THEN @ ELSE With(@, key, update)]

AddDocument(agg, meta, targets, key, update) ==
  FoldSet(LAMBDA t, a : AddDocumentToTarget(a, meta, t, key, update), agg, targets)

RemoveDocument(agg, meta, targets, key, update) ==
  FoldSet(LAMBDA t, a : RemoveDocumentFromTarget(a, meta, t, key, update), agg, targets)

HandleDocumentChange(agg, meta, msg) ==
  LET updated == IF IsFound(msg.update)
                   THEN AddDocument(agg, meta, msg.in, msg.key, msg.update)
                   ELSE RemoveDocument(agg, meta, msg.in, msg.key, msg.update)
  IN  RemoveDocument(updated, meta, msg.out, msg.key, msg.update)

RemoveDocumentsFromTarget(agg, meta, t, keys) ==
  FoldSet(LAMBDA d, a : RemoveDocumentFromTarget(a, meta, t, d, NoUpdate), agg, keys)

\* All documents leave the target, unless they are sent again.
ResetTarget(agg, meta, t) ==
  RemoveDocumentsFromTarget(SetState(agg, t, NewTargetState), meta, t, meta.keys[t])

\* HandleTargetChange, by the state the message tells.
TargetAdded(agg, t) ==
  LET state == [EnsureTargetState(agg, t) EXCEPT !.outstanding = @ - 1]
  IN  SetState(agg, t, IF state.outstanding = 0 THEN ClearPendingChanges(state) ELSE state)

TargetRemoved(agg, t) ==
  LET state == [EnsureTargetState(agg, t) EXCEPT !.outstanding = @ - 1]
  IN  IF state.outstanding = 0 THEN RemoveTarget(agg, t) ELSE SetState(agg, t, state)

TargetCurrent(agg, meta, t, token) ==
  IF ~IsActiveTarget(agg, meta, t) THEN agg
  ELSE LET state == [EnsureTargetState(agg, t) EXCEPT !.pending = TRUE, !.current = TRUE]
       IN  SetState(agg, t, UpdateResumeToken(state, token))

TargetReset(agg, meta, t) ==
  IF IsActiveTarget(agg, meta, t) THEN ResetTarget(agg, meta, t) ELSE agg

\* NoChange, of all targets that are active.
TargetsNoChange(agg, meta, token) ==
  [agg EXCEPT !.states =
     [t \in DOMAIN @ |-> IF IsActiveTarget(agg, meta, t) THEN UpdateResumeToken(@[t], token)
                                                         ELSE @[t]]]

GetCurrentDocumentCountForTarget(agg, meta, t) ==
  LET state == EnsureTargetState(agg, t)
  IN  Cardinality(meta.keys[t]) + Cardinality(ChangedAs(state, "added"))
        - Cardinality(ChangedAs(state, "removed"))

\* HandleExistenceFilter, of a query: the Bloom filter removes what cannot be
\* in the result; when the count is wrong still, all is asked for again.
ApplyFilter(agg, meta, t, count, might) ==
  LET size == GetCurrentDocumentCountForTarget(agg, meta, t)
      absent == meta.keys[t] \ might
      filtered == RemoveDocumentsFromTarget(agg, meta, t, absent)
  IN  IF size = count THEN agg
      ELSE IF size - Cardinality(absent) = count THEN filtered
      ELSE [ResetTarget(filtered, meta, t) EXCEPT !.resets = @ \cup {t}]

HandleExistenceFilter(agg, meta, msg) ==
  LET t == msg.target
  IN  IF ~IsActiveTarget(agg, meta, t) THEN agg
      ELSE IF t \notin DOMAIN meta.lookup
        THEN ApplyFilter(agg, meta, t, msg.count, msg.might)
      ELSE IF msg.count = 0
        THEN RemoveDocumentFromTarget(agg, meta, t, meta.lookup[t], Deleted(0))
      ELSE agg

\* Mutant: no news of a document is not taken for its deletion.
SynthesizeNothing(agg, meta, version) == agg

SynthesizeDelete(agg, meta, t, version) ==
  LET d == meta.lookup[t]
  IN  IF d \notin DOMAIN agg.updates /\ d \notin meta.keys[t]
        THEN RemoveDocumentFromTarget(agg, meta, t, d, Deleted(version))
        ELSE agg

\* CreateRemoteEvent, its first part: a lookup that is complete and has not
\* found its document tells that there is none.
SynthesizeDeletes(agg, meta, version) ==
  FoldSet(LAMBDA t, a : SynthesizeDelete(a, meta, t, version), agg,
          {t \in DOMAIN agg.states \cap DOMAIN meta.lookup :
             agg.states[t].current /\ IsActiveTarget(agg, meta, t)})

Changing(agg, meta) ==
  {t \in DOMAIN agg.states : agg.states[t].pending /\ IsActiveTarget(agg, meta, t)}

\* ToTargetChange.
TargetChange(state) ==
  [token |-> state.token, current |-> state.current,
   added |-> ChangedAs(state, "added"), modified |-> ChangedAs(state, "modified"),
   removed |-> ChangedAs(state, "removed")]

\* Mutant: the changes of the event stay pending.
AfterRemoteEventKeeps(agg, meta) == [agg EXCEPT !.updates = <<>>, !.resets = {}]

\* CreateRemoteEvent, after the deletes: what it returns, and what it leaves.
RemoteEvent(agg, meta, version) ==
  [version |-> version, updates |-> agg.updates, mismatches |-> agg.resets,
   changes |-> [t \in Changing(agg, meta) |-> TargetChange(agg.states[t])]]

AfterRemoteEvent(agg, meta) ==
  LET changing == Changing(agg, meta)
  IN  [states |-> [t \in DOMAIN agg.states |->
                     IF t \in changing THEN ClearPendingChanges(agg.states[t])
                                       ELSE agg.states[t]],
       updates |-> <<>>, resets |-> {}]
=============================================================================
