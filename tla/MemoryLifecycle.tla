-------------------------- MODULE MemoryLifecycle --------------------------
(***************************************************************************)
(* What the `memories' collection promises its readers, with no queue, no  *)
(* handler and no failure in sight: a memory is uploaded as a future one,  *)
(* is today's memory at most once and is a past memory ever after, and     *)
(* there is never more than one memory of today.                           *)
(***************************************************************************)
CONSTANTS
  Memories,   \* document ids of the collection
  NoMemory    \* "no document was chosen"

VARIABLE status   \* status[m]: the field of that name, "absent" before upload

Of(s) == {m \in Memories : status[m] = s}

Init == status = [m \in Memories |-> "absent"]

\* A new document enters the collection.
Upload(m) ==
  /\ status[m] = "absent"
  /\ status' = [status EXCEPT ![m] = "future"]

\* Today's memory gives way to one of the future ones, or to none.
Rotate(chosen) ==
  status' = [m \in Memories |->
               IF m = chosen THEN "current"
               ELSE IF status[m] = "current" THEN "past" ELSE status[m]]

Next ==
  \/ \E m \in Memories : Upload(m)
  \/ \E chosen \in Of("future") \cup {NoMemory} : Rotate(chosen)

Spec == Init /\ [][Next]_status
=============================================================================
