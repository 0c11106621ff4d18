---------------------------- MODULE BoundedFifo ----------------------------
(***************************************************************************)
(* What kernel/core/events.h promises to the drivers and to the UI loops:  *)
(* a first-in first-out buffer of at most Depth events.  A producer is     *)
(* refused only when the buffer is full, and the consumer is handed the    *)
(* oldest event, whole.                                                    *)
(***************************************************************************)
EXTENDS Integers, Sequences

CONSTANTS Event, Depth

VARIABLES buf,   \* the undelivered events, oldest first
          got,   \* the event handed out by the last successful dequeue
          rc     \* the result of the last enqueue: 0 or -1

fifoVars == <<buf, got, rc>>

Init == buf = << >> /\ rc = 0

Put(e) == /\ Len(buf) < Depth
          /\ buf' = Append(buf, e)
          /\ rc' = 0
          /\ UNCHANGED got

Refuse == /\ Len(buf) = Depth
          /\ rc' = -1
          /\ UNCHANGED <<buf, got>>

Get == /\ buf # << >>
       /\ got' = Head(buf)
       /\ buf' = Tail(buf)
       /\ UNCHANGED rc

Next == (\E e \in Event : Put(e)) \/ Refuse \/ Get

Spec == Init /\ [][Next]_fifoVars
=============================================================================
