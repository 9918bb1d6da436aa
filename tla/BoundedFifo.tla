---------------------------- MODULE BoundedFifo ----------------------------
(***************************************************************************)
(* What a queue of spsc.rs promises: a bounded FIFO with one producer and  *)
(* one consumer.  Each half can be closed.  Nothing is enqueued once the   *)
(* sender is closed; a send that raced the receiver's close may still      *)
(* enqueue; what is left is dropped when both halves are gone.             *)
(***************************************************************************)
EXTENDS Naturals, Sequences

CONSTANTS Values,      \* elements
          Capacity     \* the queue holds at most this many

VARIABLES contents,          \* the queued elements, oldest first
          sender_closed,
          receiver_closed

fifoVars == <<contents, sender_closed, receiver_closed>>

Init ==
    /\ contents = <<>>
    /\ sender_closed = FALSE
    /\ receiver_closed = FALSE

Send(v) ==
    /\ ~sender_closed
    /\ Len(contents) < Capacity
    /\ contents' = Append(contents, v)
    /\ UNCHANGED <<sender_closed, receiver_closed>>

Recv ==
    /\ contents # <<>>
    /\ contents' = Tail(contents)
    /\ UNCHANGED <<sender_closed, receiver_closed>>

CloseSender ==
    /\ sender_closed' = TRUE
    /\ UNCHANGED <<contents, receiver_closed>>

CloseReceiver ==
    /\ receiver_closed' = TRUE
    /\ UNCHANGED <<contents, sender_closed>>

\* Both halves are gone.
Dispose ==
    /\ sender_closed /\ receiver_closed
    /\ contents' = <<>>
    /\ UNCHANGED <<sender_closed, receiver_closed>>

Next ==
    \/ \E v \in Values : Send(v)
    \/ Recv \/ CloseSender \/ CloseReceiver \/ Dispose

Spec == Init /\ [][Next]_fifoVars
=============================================================================
