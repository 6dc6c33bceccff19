--------------------------- MODULE ReliableWrites ---------------------------
(***************************************************************************)
(* What the app counts on when it calls setData (and what TodayScreen      *)
(* and HistoryScreen take for granted): the writes form a queue that       *)
(* outlives the process.  They reach the collection for the first time in  *)
(* the order in which they were issued, each leaves the queue when it was  *)
(* applied or refused, and a completion that is still held is then called  *)
(* once, with the truth.                                                   *)
(***************************************************************************)
EXTENDS Naturals, Sequences

CONSTANT
  MaxWrites   \* bound: writes issued

VARIABLES
  issued,   \* how many writes were issued; they are numbered 1, 2, ...
  queue,    \* the writes that are not settled, oldest first
  live,     \* the writes whose completion the process still holds
  applied,  \* the writes that have reached the collection
  told      \* told[w]: what the completion of w was called with, if it was

vars == <<issued, queue, live, applied, told>>

Queued == {queue[i] : i \in DOMAIN queue}

Init ==
  /\ issued = 0
  /\ queue = <<>>
  /\ live = {}
  /\ applied = {}
  /\ told = [w \in 1 .. MaxWrites |-> "nothing"]

Issue ==
  /\ issued < MaxWrites
  /\ issued' = issued + 1
  /\ queue' = Append(queue, issued')
  /\ live' = live \cup {issued'}
  /\ UNCHANGED <<applied, told>>

\* Also of a write that was settled: a copy of it may have been under way.
Apply(w) ==
  /\ w <= issued
  /\ \A v \in 1 .. w - 1 : v \in applied \/ v \notin Queued
  /\ applied' = applied \cup {w}
  /\ UNCHANGED <<issued, queue, live, told>>

Tell(w, what) ==
  /\ live' = live \ {w}
  /\ told' = [told EXCEPT ![w] = IF w \in live THEN what ELSE @]

Acknowledge ==
  /\ queue # <<>>
  /\ Head(queue) \in applied
  /\ queue' = Tail(queue)
  /\ Tell(Head(queue), "ok")
  /\ UNCHANGED <<issued, applied>>

Refuse ==
  /\ queue # <<>>
  /\ queue' = Tail(queue)
  /\ Tell(Head(queue), "error")
  /\ UNCHANGED <<issued, applied>>

\* The process dies, at worst between a completion and the record of it.
Crash ==
  /\ live' = {}
  /\ \/ UNCHANGED told
     \/ /\ queue # <<>> /\ Head(queue) \in live \cap applied
        /\ told' = [told EXCEPT ![Head(queue)] = "ok"]
  /\ UNCHANGED <<issued, queue, applied>>

Next ==
  \/ Issue
  \/ \E w \in 1 .. MaxWrites : Apply(w)
  \/ Acknowledge
  \/ Refuse
  \/ Crash

Spec == Init /\ [][Next]_vars
=============================================================================
