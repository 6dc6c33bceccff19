----------------------------- MODULE QueryGets -----------------------------
(***************************************************************************)
(* What becomes of a getDocuments of the app inside the Firestore client:  *)
(* the listener that lives until its first event (query_core.cc,           *)
(* event_listener.h), the queries that listeners share (event_manager.cc,  *)
(* query_listener.cc, sync_engine.cc), the watch stream they keep open     *)
(* (remote_store.cc and Stream), and the tracker that decides when to stop *)
(* waiting for the server (online_state_tracker.cc).                       *)
(*                                                                         *)
(* Two queues run side by side: the worker queue of the client and the     *)
(* main queue of the app, where completions are called.  Each is first in, *)
(* first out.  What the server says of a query is here just that its       *)
(* result is now complete; QueryView looks into that.                      *)
(***************************************************************************)
EXTENDS Naturals, Sequences, SequencesExt, FiniteSets, Stream

CONSTANTS
  Queries,   \* the queries of the app: today's memory, the past ones
  Gets,      \* calls of getDocuments at a time
  NoQuery,
  MaxEvents  \* bound: events on the main queue, while the network goes on

ASSUME BoundAssumption == MaxEvents \in Nat \ {0}
ASSUME QueryAssumption == NoQuery \notin Queries
ASSUME GetsAssumption == IsFiniteSet(Gets)

VARIABLES
  client,    \* what the worker queue works on, see Clients
  tasks,     \* what the app has put on the worker queue, oldest first
  events,    \* the events on the main queue, oldest first
  query,     \* query[g]: what the call g asks for, while its listener lives
  muted,     \* the calls whose AsyncEventListener is muted
  calls,     \* history: the calls without an answer, oldest first
  again      \* history: was a completion called a second time?

vars == <<client, tasks, events, query, muted, calls, again>>

\* kMaxWatchStreamFailures; the count of failures stays there.
MaxWatchStreamFailures == 1

Clients == [
  online : {"Unknown", "Online", "Offline"},    \* OnlineStateTracker
  failures : 0 .. MaxWatchStreamFailures,
  timer : BOOLEAN,
  stream : Streams,                             \* RemoteStore
  targets : SUBSET Queries,                     \* listen_targets_
  sent : SUBSET Queries,                        \* watched on this connection
  written : BOOLEAN,                            \* was anything sent on it?
  listeners : [Queries -> Seq(Gets)],           \* EventManager, by query
  snapshot : [Queries -> {"none", "local", "synced"}],
  raised : SUBSET Gets]                         \* raised_initial_event_

TypeOK ==
  /\ client \in Clients
  /\ tasks \in Seq([what : {"add", "remove"}, get : Gets])
  /\ events \in Seq([get : Gets, result : {"server", "cache", "error"}])
  /\ query \in [Gets -> Queries \cup {NoQuery}]
  /\ muted \subseteq Gets
  /\ calls \in Seq(Gets)
  /\ again \in BOOLEAN

Init ==
  /\ client = [online |-> "Unknown", failures |-> 0, timer |-> FALSE,
               stream |-> NewStream, targets |-> {}, sent |-> {}, written |-> FALSE,
               listeners |-> [q \in Queries |-> <<>>],
               snapshot |-> [q \in Queries |-> "none"],
               raised |-> {}]
  /\ tasks = <<>>
  /\ events = <<>>
  /\ query = [g \in Gets |-> NoQuery]
  /\ muted = {}
  /\ calls = <<>>
  /\ again = FALSE

-----------------------------------------------------------------------------
(* Events.  A step of the client is a pair of its state and the events it  *)
(* has raised so far; the operators below take one and return the next.    *)

Step(c) == [client |-> c, raised |-> <<>>]

Events(gets, result) == [i \in DOMAIN gets |-> [get |-> gets[i], result |-> result]]

\* Mutant: the first event of a listener does not wait for the server.
RaisesEager(c, g, sync) == TRUE

\* QueryListener::OnViewSnapshot, of a snapshot with a new sync state: does the
\* listener raise an event?  The first one waits for the server while there is
\* hope; any later one is raised at once.
Raises(c, g, sync) == g \in c.raised \/ sync = "synced" \/ c.online = "Offline"

Before(c, g, h) ==
  \E q \in Queries : \E j \in DOMAIN c.listeners[q] : \E i \in 1 .. j - 1 :
    c.listeners[q][i] = g /\ c.listeners[q][j] = h

\* Some of the listeners, those of a query in the order they were added; what
\* comes first of two queries is up to the map that keeps them.
InOrder(c, gets) ==
  CHOOSE s \in SetToSeqs(gets) : \A j \in DOMAIN s : \A i \in 1 .. j - 1 : ~Before(c, s[j], s[i])

\* Some of the listeners raise an event.
Notify(step, gets, result) ==
  IF gets = {} THEN step
  ELSE [client |-> [step.client EXCEPT !.raised = @ \cup gets],
        raised |-> step.raised \o Events(InOrder(step.client, gets), result)]

\* EventManager::OnViewSnapshots, of one query.
OnViewSnapshot(step, q, sync) ==
  Notify([step EXCEPT !.client.snapshot[q] = sync],
         {g \in ToSet(step.client.listeners[q]) : Raises(step.client, g, sync)},
         IF sync = "synced" THEN "server" ELSE "cache")

Listeners(c, queries) == UNION {ToSet(c.listeners[q]) : q \in queries}

\* SyncEngine::HandleOnlineStateChange: no view is current while offline.
ViewsGoOffline(step) ==
  LET c == step.client
      synced == {q \in Queries : c.snapshot[q] = "synced"}
  IN  Notify([step EXCEPT !.client.snapshot =
                [q \in Queries |-> IF q \in synced THEN "local" ELSE @[q]]],
             {g \in Listeners(c, synced) : Raises(c, g, "local")}, "cache")

\* QueryListener::OnOnlineStateChanged, of the listeners that waited.
ListenersGoOffline(step) ==
  Notify(step, Listeners(step.client, Queries) \ step.client.raised, "cache")

-----------------------------------------------------------------------------
(* OnlineStateTracker.                                                     *)

SetAndBroadcast(step, state) ==
  IF state = step.client.online
    THEN step
    ELSE LET views == IF state = "Offline" THEN ViewsGoOffline(step) ELSE step
             told == [views EXCEPT !.client.online = state]
         IN  IF state = "Offline"
               THEN ListenersGoOffline(told)
               ELSE told

\* Mutant: a new state leaves the timer running.
UpdateStateTimed(step, state) ==
  SetAndBroadcast([step EXCEPT !.client.failures = 0], state)

UpdateState(step, state) ==
  SetAndBroadcast([step EXCEPT !.client.failures = 0, !.client.timer = FALSE], state)

HandleWatchStreamStart(step) ==
  IF step.client.failures # 0
    THEN step
    ELSE LET s == SetAndBroadcast(step, "Unknown") IN [s EXCEPT !.client.timer = TRUE]

\* Mutant: the failure is counted, and that is all.
HandleWatchStreamFailureQuietly(step) ==
  IF step.client.online = "Online"
    THEN SetAndBroadcast(step, "Unknown")
    ELSE [step EXCEPT !.client.failures = MaxWatchStreamFailures]

\* Mutant: one failure more is waited for.
HandleWatchStreamFailureAgain(step) ==
  LET counted == [step EXCEPT !.client.failures = @ + 1]
  IN  IF step.client.online = "Online" THEN SetAndBroadcast(step, "Unknown")
      ELSE IF counted.client.failures > MaxWatchStreamFailures
        THEN SetAndBroadcast([counted EXCEPT !.client.timer = FALSE], "Offline")
      ELSE counted

\* The first failure is the last one that is waited for.
HandleWatchStreamFailure(step) ==
  IF step.client.online = "Online"
    THEN SetAndBroadcast(step, "Unknown")
    ELSE SetAndBroadcast([step EXCEPT !.client.failures = MaxWatchStreamFailures,
                                      !.client.timer = FALSE], "Offline")

-----------------------------------------------------------------------------
(* RemoteStore, the half of the watch stream.                              *)

\* The network is enabled but in the middle of RestartNetwork.
ShouldStartWatchStream(c) == ~IsStarted(c.stream) /\ c.targets # {}

StartWatchStream(step) ==
  HandleWatchStreamStart([step EXCEPT !.client.stream = Start(@)])

SendWatchRequests(step, queries) ==
  IF queries = {} THEN step
  ELSE [step EXCEPT !.client.stream = Write(@), !.client.sent = @ \cup queries,
                    !.client.written = TRUE]

\* RemoteStore::Listen, of a target that is not listened to.
RemoteListen(step, q) ==
  LET s == [step EXCEPT !.client.targets = @ \cup {q}]
  IN  IF ShouldStartWatchStream(s.client) THEN StartWatchStream(s)
      ELSE IF IsOpen(s.client.stream) THEN SendWatchRequests(s, {q})
      ELSE s

\* RemoteStore::StopListening.  Without a stream nobody could tell the state.
RemoteStopListening(step, q) ==
  LET open == IsOpen(step.client.stream)
      s == [step EXCEPT !.client.targets = @ \ {q},
                        !.client.sent = @ \ {q},
                        !.client.stream = IF open THEN Write(@) ELSE @]
  IN  IF s.client.targets # {} THEN s
      ELSE IF open THEN [s EXCEPT !.client.stream = MarkIdle(@)]
      ELSE UpdateState(s, "Unknown")

\* OnWatchStreamClose, after Close.
OnWatchStreamClose(step) ==
  LET s == [step EXCEPT !.client.sent = {}, !.client.written = FALSE]
  IN  IF ShouldStartWatchStream(s.client)
        THEN StartWatchStream(HandleWatchStreamFailure(s))
        ELSE UpdateState(s, "Unknown")

-----------------------------------------------------------------------------
(* The calls of the app.                                                   *)

\* The client has run the step: its events are put on the main queue.
Run(step) ==
  /\ client' = step.client
  /\ events' = events \o step.raised

Clear(g) ==
  /\ \A i \in DOMAIN tasks : tasks[i].get # g
  /\ \A i \in DOMAIN events : events[i].get # g
  /\ \A q \in Queries : g \notin ToSet(client.listeners[q])
  /\ g \notin ToSet(calls)

\* Query::GetDocuments, AddSnapshotListener and ListenToQuery.
GetDocuments(g, q) ==
  /\ Clear(g)
  /\ query' = [query EXCEPT ![g] = q]
  /\ muted' = muted \ {g}
  /\ calls' = Append(calls, g)
  /\ tasks' = Append(tasks, [what |-> "add", get |-> g])
  /\ UNCHANGED <<client, events, again>>

\* Mutant: a listener goes in front of those that wait already.
AddQueryListenerInFront(g) ==
  LET q == query[g]
      added == [client EXCEPT !.listeners[q] = <<g>> \o @]
      first == client.listeners[q] = <<>>
  IN  IF first
        THEN Run(RemoteListen(OnViewSnapshot(Step(added), q, "local"), q))
        ELSE IF Raises(client, g, client.snapshot[q])
        THEN Run([client |-> [added EXCEPT !.raised = @ \cup {g}],
                  raised |-> Events(<<g>>, IF client.snapshot[q] = "synced"
                                             THEN "server" ELSE "cache")])
        ELSE Run(Step(added))

\* EventManager::AddQueryListener.  The first listener of a query gets a new
\* view, filled from the cache, and a target; any other one gets the snapshot
\* that is there.
AddQueryListener(g) ==
  LET q == query[g]
      added == [client EXCEPT !.listeners[q] = Append(@, g)]
      first == client.listeners[q] = <<>>
  IN  IF first
        THEN Run(RemoteListen(OnViewSnapshot(Step(added), q, "local"), q))
        ELSE IF Raises(client, g, client.snapshot[q])
        THEN Run([client |-> [added EXCEPT !.raised = @ \cup {g}],
                  raised |-> Events(<<g>>, IF client.snapshot[q] = "synced"
                                             THEN "server" ELSE "cache")])
        ELSE Run(Step(added))

\* EventManager::RemoveQueryListener and SyncEngine::StopListening.
RemoveQueryListener(g) ==
  LET q == query[g]
      left == RemoveFirst(client.listeners[q], g)
      removed == [client EXCEPT !.listeners[q] = left, !.raised = @ \ {g}]
  IN  IF client.listeners[q] # <<>> /\ left = <<>>
        THEN Run(RemoteStopListening(Step([removed EXCEPT !.snapshot[q] = "none"]), q))
        ELSE Run(Step(removed))

\* The worker queue gets to the next task of the app.
RunTask ==
  /\ tasks # <<>>
  /\ tasks' = Tail(tasks)
  /\ LET g == Head(tasks).get
     IN  IF Head(tasks).what = "add"
           THEN AddQueryListener(g) /\ UNCHANGED query
           ELSE RemoveQueryListener(g) /\ query' = [query EXCEPT ![g] = NoQuery]
  /\ UNCHANGED <<muted, calls, again>>

\* The completion of g, for which ListenOnce is not needed any more.
Complete(g) ==
  /\ calls' = RemoveFirst(calls, g)
  /\ again' = (again \/ g \notin ToSet(calls))

\* Mutant: Remove does not mute the listener.
RegistrationRemoveUnmuted(g) ==
  /\ tasks' = Append(tasks, [what |-> "remove", get |-> g])
  /\ UNCHANGED <<muted, query>>

\* QueryListenerRegistration::Remove.
RegistrationRemove(g) ==
  /\ muted' = muted \cup {g}
  /\ tasks' = Append(tasks, [what |-> "remove", get |-> g])
  /\ UNCHANGED query

\* The main queue gets to the next event: ListenOnce::OnEvent takes the
\* listener away and calls the completion, unless it is muted; an error comes
\* from a query that is gone already.
Deliver ==
  /\ events # <<>>
  /\ events' = Tail(events)
  /\ LET g == Head(events).get
     IN  \/ g \in muted /\ UNCHANGED <<tasks, query, muted, calls, again>>
         \/ /\ g \notin muted
            /\ Complete(g)
            /\ IF Head(events).result = "error"
                 THEN query' = [query EXCEPT ![g] = NoQuery] /\ UNCHANGED <<tasks, muted>>
                 ELSE RegistrationRemove(g)
  /\ UNCHANGED client

-----------------------------------------------------------------------------
(* Timers and credentials.                                                 *)

Client(step) == Run(step) /\ UNCHANGED <<tasks, query, muted, calls, again>>

OnlineStateTimerFires ==
  /\ client.timer
  /\ Client(SetAndBroadcast(Step([client EXCEPT !.timer = FALSE]), "Offline"))

BackoffTimerFires ==
  /\ client.stream.backoff
  /\ Client(Step([client EXCEPT !.stream = BackoffElapses(@)]))

\* ResumeStartWithCredentials and OnWatchStreamOpen: all targets are watched.
CredentialsAnswered(when) ==
  /\ when \in client.stream.asked
  /\ LET s == Step([client EXCEPT !.stream = CredentialsArrive(@, when)])
     IN  Client(IF when = "now" THEN SendWatchRequests(s, client.targets) ELSE s)

IdleTimerFires ==
  /\ client.stream.idle
  /\ Client(OnWatchStreamClose(Step([client EXCEPT !.stream = Close(@, TRUE)])))

-----------------------------------------------------------------------------
(* The network and the server, which rest while the app is MaxEvents late. *)

World(step) == Len(events) < MaxEvents /\ Client(step)

\* OnWatchStreamChange, of a message that completes no result.
WatchResponds ==
  /\ IsOpen(client.stream) /\ client.written
  /\ World(UpdateState(Step(client), "Online"))

\* The server says that the result of q is complete: the view is synced.
TargetSynced(q) ==
  /\ q \in client.sent /\ client.snapshot[q] = "local"
  /\ World(OnViewSnapshot(UpdateState(Step(client), "Online"), q, "synced"))

\* ProcessTargetError, HandleRejectedListen and EventManager::OnError.
TargetRejected(q) ==
  /\ q \in client.sent
  /\ LET s == UpdateState(Step(client), "Online")
     IN  World([client |-> [s.client EXCEPT !.targets = @ \ {q},
                                             !.sent = @ \ {q},
                                             !.listeners[q] = <<>>,
                                             !.snapshot[q] = "none",
                                             !.raised = @ \ ToSet(client.listeners[q])],
                 raised |-> s.raised \o Events(client.listeners[q], "error")])

\* The connection cannot be made, or breaks.
StreamFails ==
  /\ IsOpen(client.stream)
  /\ World(OnWatchStreamClose(Step([client EXCEPT !.stream = Close(@, FALSE)])))

\* The phone is on another network: DisableNetworkInternal and EnableNetwork.
RestartNetwork ==
  LET stopped == [client EXCEPT !.stream = InhibitBackoff(Close(@, TRUE)),
                                !.sent = {}, !.written = FALSE]
      unknown == UpdateState(Step(stopped), "Unknown")
  IN  World(IF ShouldStartWatchStream(unknown.client) THEN StartWatchStream(unknown)
                                                       ELSE unknown)

-----------------------------------------------------------------------------

Next ==
  \/ \E g \in Gets, q \in Queries : GetDocuments(g, q)
  \/ RunTask
  \/ Deliver
  \/ OnlineStateTimerFires
  \/ BackoffTimerFires
  \/ \E when \in {"now", "before"} : CredentialsAnswered(when)
  \/ IdleTimerFires
  \/ WatchResponds
  \/ \E q \in Queries : TargetSynced(q)
  \/ \E q \in Queries : TargetRejected(q)
  \/ StreamFails
  \/ RestartNetwork

Spec == Init /\ [][Next]_vars

Answers(q) == TargetSynced(q) \/ TargetRejected(q)

(* Fairness.  Both queues run what is on them, timers fire and credentials *)
(* come.  A connection does not stay silent: the keepalive of gRPC ends a  *)
(* dead one.  And a server that can be heard again and again while a query *)
(* waits does at last answer it.  At last, the phone stays on one network.  *)
Fairness ==
  /\ WF_vars(RunTask) /\ WF_vars(Deliver)
  /\ WF_vars(OnlineStateTimerFires) /\ WF_vars(BackoffTimerFires)
  /\ WF_vars(\E when \in {"now", "before"} : CredentialsAnswered(when))
  /\ WF_vars(StreamFails \/ \E q \in Queries : Answers(q))
  /\ \A q \in Queries : SF_vars(client.online = "Online" /\ Answers(q))
  /\ <>[][~RestartNetwork]_vars

FairSpec == Spec /\ Fairness

-----------------------------------------------------------------------------
(* Properties.                                                             *)

\* The assertions of the client are out of reach: timers and credentials find
\* the stream they were made for, the idle timer never stops a stream that is
\* needed, the online timer only runs while the state is unknown, a server
\* that was heard has cleared the count of failures, and a listener that goes
\* away finds its target.
AssertionsHold ==
  /\ CallbacksFit(client.stream)
  /\ client.stream.idle => client.targets = {}
  /\ client.timer => client.online = "Unknown"
  /\ client.online = "Online" => client.failures = 0
  /\ \A q \in Queries : q \in client.targets <=> client.listeners[q] # <<>>
  /\ client.sent \subseteq client.targets

\* A completion is called once, though a listener may raise several events
\* before it is taken away: `ListenOnce'.
CompletedOnce == ~again

\* The answers to calls for the same query come in the order of the calls, as
\* the screens of the app rely on.
AnsweredInOrder ==
  [][\A j \in DOMAIN calls : \A i \in 1 .. j - 1 :
       query[calls[i]] = query[calls[j]] /\ calls[i] \in ToSet(calls')
         => calls[j] \in ToSet(calls')]_vars

\* While the server is heard, no call is answered from the cache.
NoCacheWhileOnline ==
  [][client.online = "Online" /\ client'.online = "Online"
       => \A i \in DOMAIN events' : i > Len(events) => events'[i].result # "cache"]_vars

\* Every call is answered.
EveryGetAnswered ==
  \A g \in Gets : g \in ToSet(calls) ~> g \notin ToSet(calls)
=============================================================================
