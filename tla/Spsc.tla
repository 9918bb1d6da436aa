------------------------------- MODULE Spsc -------------------------------
(***************************************************************************)
(* The bounded single-producer/single-consumer ring of spsc.rs.  One       *)
(* thread owns the SpscSender and one the SpscReceiver; every atomic load  *)
(* and store, and every access to a slot, is a step of its own.  Indices   *)
(* are machine words that wrap: they run modulo Word, a power of two that  *)
(* the capacity divides.  A park ends at the latest by its timeout, so     *)
(* unpark only shortens it and is left out, and so is the length of the    *)
(* spin phase: a Full or Empty answer leads either to the next try or to a *)
(* park.  Each Acquire load reads the newest value: an older one would be  *)
(* an earlier point of the same interleavings.                             *)
(***************************************************************************)
EXTENDS Naturals, Sequences

CONSTANTS Values,      \* elements that are sent
          NoValue,     \* an uninitialized or moved-out slot
          Word,        \* 2^w, the modulus of the indices
          Requested    \* the capacity bounded_spsc is called with

ASSUME NoValueAssumption == NoValue \notin Values
ASSUME WordAssumption == Word \in Nat \ {0}
ASSUME RequestedAssumption == Requested \in 1..Word

VARIABLES head, tail,        \* atomics: next index to read, next index to write
          slots,             \* the ring
          sender_closed, receiver_closed,
          s_pc, s_blocking, s_value, s_tail,     \* the thread of the sender
          r_pc, r_blocking, r_head, r_value,     \* the thread of the receiver
          answer,            \* what the receiver's last call returned
          freed              \* Inner was dropped

shared == <<head, tail, slots, sender_closed, receiver_closed>>
sender == <<s_pc, s_blocking, s_value, s_tail>>
receiver == <<r_pc, r_blocking, r_head, r_value, answer>>
vars == <<shared, sender, receiver, freed>>

\* checked_next_power_of_two, and the mask capacity - 1.
Capacity == CHOOSE c \in {2 ^ k : k \in 0..Requested} :
                c >= Requested /\ \A k \in 0..Requested : 2 ^ k >= Requested => c <= 2 ^ k
Masked(i) == i % Capacity

\* checked_next_power_of_two answers only a power of two below the modulus, which is one
\* itself: the capacity divides it at least twice.
ASSUME CapacityAssumption ==
    Capacity \in 1..Word /\ \E q \in 2..Word : Word = q * Capacity

\* wrapping_sub and wrapping_add on indices.
Minus(i, j) == (i + Word - j) % Word
Plus1(i) == (i + 1) % Word

\* What is published and not consumed; recv moves the oldest element out of its
\* slot before it releases the slot.
Contents ==
    IF freed THEN <<>>
    ELSE [k \in 1..Minus(tail, head) |->
            IF k = 1 /\ r_pc = "release" THEN r_value
            ELSE slots[Masked((head + k - 1) % Word)]]

Init ==
    /\ head = 0 /\ tail = 0
    /\ slots = [i \in 0..(Capacity - 1) |-> NoValue]
    /\ sender_closed = FALSE /\ receiver_closed = FALSE
    /\ s_pc = "idle" /\ s_blocking = FALSE /\ s_value = NoValue /\ s_tail = 0
    /\ r_pc = "idle" /\ r_blocking = FALSE /\ r_head = 0 /\ r_value = NoValue
    /\ answer = "none"
    /\ freed = FALSE

(***************************************************************************)
(* The sender: try_send, and send, which tries again while the queue is    *)
(* full                                                                    *)
(***************************************************************************)
SendCall(v, blocking) ==
    /\ s_pc = "idle"
    /\ s_pc' = "load_sender_closed"
    /\ s_value' = v
    /\ s_blocking' = blocking
    /\ UNCHANGED <<s_tail, shared, receiver, freed>>

\* The call returns, with the value handed back unless it was published.
SendReturns ==
    /\ s_pc' = "idle"
    /\ s_value' = NoValue
    /\ s_blocking' = FALSE

SendLoadsSenderClosed ==
    /\ s_pc = "load_sender_closed"
    /\ IF sender_closed THEN SendReturns
       ELSE s_pc' = "load_receiver_closed" /\ UNCHANGED <<s_blocking, s_value>>
    /\ UNCHANGED <<s_tail, shared, receiver, freed>>

SendLoadsReceiverClosed ==
    /\ s_pc = "load_receiver_closed"
    /\ IF receiver_closed THEN SendReturns
       ELSE s_pc' = "load_head" /\ UNCHANGED <<s_blocking, s_value>>
    /\ UNCHANGED <<s_tail, shared, receiver, freed>>

\* Mutant: the ring is taken for full one element late.
FullOneLate ==
    /\ s_pc = "load_head"
    /\ s_tail' = tail
    /\ \/ /\ Minus(tail, head) = Capacity + 1
          /\ IF s_blocking THEN s_pc' = "full" /\ UNCHANGED <<s_blocking, s_value>>
             ELSE SendReturns
       \/ /\ Minus(tail, head) # Capacity + 1
          /\ s_pc' = "write" /\ UNCHANGED <<s_blocking, s_value>>
    /\ UNCHANGED <<shared, receiver, freed>>

\* Mutant: the free slots are counted with indices that do not wrap.
FullWithoutWrapping ==
    /\ s_pc = "load_head"
    /\ s_tail' = tail
    /\ \/ /\ tail >= head + Capacity
          /\ IF s_blocking THEN s_pc' = "full" /\ UNCHANGED <<s_blocking, s_value>>
             ELSE SendReturns
       \/ /\ tail < head + Capacity
          /\ s_pc' = "write" /\ UNCHANGED <<s_blocking, s_value>>
    /\ UNCHANGED <<shared, receiver, freed>>

\* tail is the sender's own; the full check reads head.
SendChecksFull ==
    /\ s_pc = "load_head"
    /\ s_tail' = tail
    /\ \/ /\ Minus(tail, head) = Capacity
          /\ IF s_blocking THEN s_pc' = "full" /\ UNCHANGED <<s_blocking, s_value>>
             ELSE SendReturns
       \/ /\ Minus(tail, head) # Capacity
          /\ s_pc' = "write" /\ UNCHANGED <<s_blocking, s_value>>
    /\ UNCHANGED <<shared, receiver, freed>>

\* send spins or parks (50 ns) and tries again.
SendRetries ==
    /\ s_pc = "full"
    /\ s_pc' = "load_sender_closed"
    /\ UNCHANGED <<s_blocking, s_value, s_tail, shared, receiver, freed>>

SendWritesSlot ==
    /\ s_pc = "write"
    /\ slots' = [slots EXCEPT ![Masked(s_tail)] = s_value]
    /\ s_pc' = "publish"
    /\ UNCHANGED <<s_blocking, s_value, s_tail>>
    /\ UNCHANGED <<head, tail, sender_closed, receiver_closed, receiver, freed>>

SendPublishes ==
    /\ s_pc = "publish"
    /\ tail' = Plus1(s_tail)
    /\ s_tail' = 0
    /\ SendReturns
    /\ UNCHANGED <<head, slots, sender_closed, receiver_closed, receiver, freed>>

\* SpscSender::close, also by drop (which ends the use of the handle).
SenderCloses(gone) ==
    /\ s_pc = "idle"
    /\ sender_closed' = TRUE
    /\ s_pc' = IF gone THEN "gone" ELSE "idle"
    /\ UNCHANGED <<s_blocking, s_value, s_tail, head, tail, slots, receiver_closed, receiver, freed>>

(***************************************************************************)
(* The receiver: try_recv, and recv, which tries again while it is empty   *)
(***************************************************************************)
RecvCall(blocking) ==
    /\ r_pc = "idle"
    /\ r_pc' = "load_tail"
    /\ r_blocking' = blocking
    /\ answer' = "none"
    /\ UNCHANGED <<r_head, r_value, shared, sender, freed>>

RecvLoadsTail ==
    /\ r_pc = "load_tail"
    /\ r_head' = head
    /\ r_pc' = IF head = tail THEN "load_sender_closed" ELSE "read"
    /\ UNCHANGED <<r_blocking, r_value, answer, shared, sender, freed>>

\* Mutant: an empty queue never reports the close, so recv keeps waiting.
EmptyIgnoresClose ==
    /\ r_pc = "load_sender_closed"
    /\ IF r_blocking
       THEN r_pc' = "empty" /\ UNCHANGED <<r_blocking, answer>>
       ELSE r_pc' = "idle" /\ answer' = "Empty" /\ UNCHANGED r_blocking
    /\ UNCHANGED <<r_head, r_value, shared, sender, freed>>

RecvLoadsSenderClosed ==
    /\ r_pc = "load_sender_closed"
    /\ IF r_blocking /\ ~sender_closed
       THEN r_pc' = "empty" /\ UNCHANGED <<r_blocking, answer>>
       ELSE /\ r_pc' = "idle"
            /\ r_blocking' = FALSE
            /\ answer' = IF sender_closed THEN "Closed" ELSE "Empty"
    /\ UNCHANGED <<r_head, r_value, shared, sender, freed>>

RecvRetries ==
    /\ r_pc = "empty"
    /\ r_pc' = "load_tail"
    /\ UNCHANGED <<r_blocking, r_head, r_value, answer, shared, sender, freed>>

\* assume_init_read moves the element out of its slot.
RecvReadsSlot ==
    /\ r_pc = "read"
    /\ r_value' = slots[Masked(r_head)]
    /\ slots' = [slots EXCEPT ![Masked(r_head)] = NoValue]
    /\ r_pc' = "release"
    /\ UNCHANGED <<r_blocking, r_head, answer>>
    /\ UNCHANGED <<head, tail, sender_closed, receiver_closed, sender, freed>>

RecvReleasesSlot ==
    /\ r_pc = "release"
    /\ head' = Plus1(r_head)
    /\ r_pc' = "idle"
    /\ r_blocking' = FALSE
    /\ r_head' = 0
    /\ r_value' = NoValue
    /\ answer' = "Value"
    /\ UNCHANGED <<tail, slots, sender_closed, receiver_closed, sender, freed>>

ReceiverCloses(gone) ==
    /\ r_pc = "idle"
    /\ receiver_closed' = TRUE
    /\ r_pc' = IF gone THEN "gone" ELSE "idle"
    /\ UNCHANGED <<r_blocking, r_head, r_value, answer>>
    /\ UNCHANGED <<head, tail, slots, sender_closed, sender, freed>>

(* SpscReceiver::is_closed loads receiver_closed, then sender_closed, then the
   length: the opposite order of try_recv. *)
IsClosedCall ==
    /\ r_pc = "idle"
    /\ IF receiver_closed
       THEN UNCHANGED r_pc /\ answer' = "ReceiverClosed"
       ELSE r_pc' = "is_closed_sender" /\ answer' = "none"
    /\ UNCHANGED <<r_blocking, r_head, r_value, shared, sender, freed>>

IsClosedLoadsSender ==
    /\ r_pc = "is_closed_sender"
    /\ IF sender_closed
       THEN r_pc' = "is_closed_len" /\ UNCHANGED answer
       ELSE r_pc' = "idle" /\ answer' = "Open"
    /\ UNCHANGED <<r_blocking, r_head, r_value, shared, sender, freed>>

IsClosedLoadsLen ==
    /\ r_pc = "is_closed_len"
    /\ r_pc' = "idle"
    /\ answer' = IF Minus(tail, head) = 0 THEN "NoMore" ELSE "Open"
    /\ UNCHANGED <<r_blocking, r_head, r_value, shared, sender, freed>>

(* Drop for Inner, once both Arcs are gone.  The range head..tail is empty when
   tail has wrapped and head has not. *)
InnerDrop ==
    /\ s_pc = "gone" /\ r_pc = "gone" /\ ~freed
    /\ freed' = TRUE
    /\ slots' = [i \in DOMAIN slots |->
                    IF \E idx \in head..(tail - 1) : Masked(idx) = i THEN NoValue ELSE slots[i]]
    /\ UNCHANGED <<head, tail, sender_closed, receiver_closed, sender, receiver>>

Done == freed /\ UNCHANGED vars

SenderStep ==
    \/ SendLoadsSenderClosed \/ SendLoadsReceiverClosed \/ SendChecksFull
    \/ SendRetries \/ SendWritesSlot \/ SendPublishes

ReceiverStep ==
    \/ RecvLoadsTail \/ RecvLoadsSenderClosed \/ RecvRetries
    \/ RecvReadsSlot \/ RecvReleasesSlot
    \/ IsClosedLoadsSender \/ IsClosedLoadsLen

Next ==
    \/ SenderStep \/ ReceiverStep
    \/ \E v \in Values, blocking \in BOOLEAN : SendCall(v, blocking)
    \/ \E blocking \in BOOLEAN : RecvCall(blocking)
    \/ \E gone \in BOOLEAN : SenderCloses(gone) \/ ReceiverCloses(gone)
    \/ IsClosedCall \/ InnerDrop \/ Done

Spec == Init /\ [][Next]_vars

\* Both threads keep running inside a call; nobody has to make one.
FairSpec == Spec /\ WF_vars(SenderStep) /\ WF_vars(ReceiverStep)

(***************************************************************************)
(* Properties                                                              *)
(***************************************************************************)
\* The atomics, the ring and the locals of both threads have their types.
TypeOK ==
    /\ head \in 0..(Word - 1) /\ tail \in 0..(Word - 1)
    /\ slots \in [0..(Capacity - 1) -> Values \cup {NoValue}]
    /\ sender_closed \in BOOLEAN /\ receiver_closed \in BOOLEAN
    /\ s_pc \in {"idle", "load_sender_closed", "load_receiver_closed", "load_head", "full",
                 "write", "publish", "gone"}
    /\ s_blocking \in BOOLEAN
    /\ s_value \in Values \cup {NoValue} /\ s_tail \in 0..(Word - 1)
    /\ r_pc \in {"idle", "load_tail", "load_sender_closed", "empty", "read", "release",
                 "is_closed_sender", "is_closed_len", "gone"}
    /\ r_blocking \in BOOLEAN
    /\ r_head \in 0..(Word - 1) /\ r_value \in Values \cup {NoValue}
    /\ answer \in {"none", "Value", "Empty", "Closed", "ReceiverClosed", "NoMore", "Open"}
    /\ freed \in BOOLEAN

\* The SAFETY comments of try_send, try_recv and drop: the slot the producer writes is
\* never the slot the consumer reads, also when the indices wrapped, and a slot holds
\* an element exactly when it is published and not yet moved out, or written and about
\* to be published.  So recv and drop never touch an uninitialized slot, send never
\* overwrites an element, and drop leaves one behind only when tail wrapped and head
\* did not.
SlotsAreExact ==
    /\ s_pc = "write" /\ r_pc = "read" => Masked(s_tail) # Masked(r_head)
    /\ \A i \in DOMAIN slots :
        LET published == \E k \in 0..(Minus(tail, head) - 1) : Masked((head + k) % Word) = i
            moved == r_pc = "release" /\ Masked(head) = i
            written == s_pc = "publish" /\ Masked(tail) = i
        IN  IF freed THEN slots[i] # NoValue => tail < head
            ELSE slots[i] # NoValue <=> (published /\ ~moved) \/ written

Fifo == INSTANCE BoundedFifo WITH contents <- Contents

\* The ring, its wrapping indices and its two-step reads and writes implement a
\* bounded FIFO of the rounded-up capacity.
ImplementsFifo == Fifo!Spec

\* When is_closed answers that no more values can arrive, none is queued and none is on
\* its way.
NoMoreIsFinal == answer = "NoMore" => Contents = <<>> /\ s_pc # "publish"

\* A close is noticed and is final: recv returns once the sender has closed, send once
\* the receiver has, and the answer that no more values can arrive holds.
CloseIsSeenAndFinal ==
    /\ sender_closed /\ r_blocking ~> ~r_blocking
    /\ receiver_closed /\ s_blocking ~> ~s_blocking
    /\ []NoMoreIsFinal

\* Doc of recv: "Returns `None` after the sender closes and all queued elements have
\* been drained."
ClosedAfterDrain == answer = "Closed" => Contents = <<>>
=============================================================================
