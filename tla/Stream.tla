------------------------------- MODULE Stream -------------------------------
(***************************************************************************)
(* The life of one connection of the Firestore client to its back end, as  *)
(* far as the write stream and the watch stream share it (stream.cc).  No  *)
(* variables: the modules that own a stream keep it in a record             *)
(*                                                                         *)
(*   state    "Initial", "Starting", "Open", "Backoff" or "Error"          *)
(*            (`Healthy' is `Open': only the log tells them apart)         *)
(*   asked    the requests for credentials still unanswered: "now" is one  *)
(*            made under the present close_count_, "before" any older one  *)
(*   backoff  is the timer of backoff_ running?                            *)
(*   idle     is idleness_timer_ running?                                  *)
(*                                                                         *)
(* How long the timers run is left out, and so are tokens: the app signs   *)
(* nobody in, and a request for credentials always succeeds.               *)
(***************************************************************************)

Streams == [state : {"Initial", "Starting", "Open", "Backoff", "Error"},
            asked : SUBSET {"now", "before"},
            backoff : BOOLEAN,
            idle : BOOLEAN]

NewStream == [state |-> "Initial", asked |-> {}, backoff |-> FALSE, idle |-> FALSE]

IsOpen(s) == s.state = "Open"

IsStarted(s) == s.state \in {"Starting", "Backoff", "Open"}

RequestCredentials(s) == [s EXCEPT !.asked = @ \cup {"now"}]

\* Mutant: the timer of backoff_ is not started.
BackoffUntimed(s) == [s EXCEPT !.state = "Backoff"]

BackoffAndTryRestarting(s) == [s EXCEPT !.state = "Backoff", !.backoff = TRUE]

\* HARD_ASSERT(state_ == State::Initial, "Already started") is for the callers.
Start(s) == IF s.state = "Error"
              THEN BackoffAndTryRestarting(s)
              ELSE RequestCredentials([s EXCEPT !.state = "Starting"])

\* The callback of backoff_.
BackoffElapses(s) == Start([s EXCEPT !.state = "Initial", !.backoff = FALSE])

\* The callback of GetToken: a request made before the last Close is ignored.
\* A current one creates the gRPC stream, which reports itself open at once.
CredentialsArrive(s, when) ==
  [s EXCEPT !.asked = @ \ {when},
            !.state = IF when = "now" THEN "Open" ELSE @]

InhibitBackoff(s) == [s EXCEPT !.state = "Initial"]

MarkIdle(s) == IF IsOpen(s) THEN [s EXCEPT !.idle = TRUE] ELSE s

CancelIdleCheck(s) == [s EXCEPT !.idle = FALSE]

\* Mutant: a request written to the stream leaves the idle timer running.
WriteStaysIdle(s) == s

\* What Write does to the stream itself.
Write(s) == CancelIdleCheck(s)

\* Close, up to the notification of the listener.  ++close_count_ turns every
\* request for credentials into an old one.
Close(s, graceful) ==
  IF graceful /\ ~IsStarted(s)
    THEN s
    ELSE [state |-> IF graceful THEN "Initial" ELSE "Error",
          asked |-> IF s.asked = {} THEN {} ELSE {"before"},
          backoff |-> FALSE,
          idle |-> FALSE]

\* The assertions of stream.cc that a callback makes when it finally runs: the
\* backoff timer finds the stream still backing off, credentials find it still
\* starting, and only an open stream can be idle.
CallbacksFit(s) ==
  /\ s.backoff => s.state = "Backoff"
  /\ "now" \in s.asked => s.state = "Starting"
  /\ s.idle => IsOpen(s)
=============================================================================
