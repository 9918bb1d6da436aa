--------------------------- MODULE RecoverySlots ---------------------------
(***************************************************************************)
(* RecoverySlots and RecoveryCell (runtime.rs): how the lane of a dropped  *)
(* OwnedDynamicIoRun gets back to its runtime.  Every lane has a cell of   *)
(* its own (module DynamicIoRuntime, LanesAreConserved).  The thread that  *)
(* drops a token publishes the lane in its cell and pushes the cell on a   *)
(* lock-free stack; the runtime is the only consumer.  Every atomic access *)
(* and every access to the cell's contents is one step;                    *)
(* compare_exchange_weak may fail although the head is the expected one.   *)
(***************************************************************************)
EXTENDS Naturals, FiniteSets

CONSTANTS Cells,     \* indices of the recovery cells
          Nil        \* usize::MAX, the end of the stack

ASSUME NilAssumption == Nil \notin Cells
ASSUME CellsAssumption == IsFiniteSet(Cells)

VARIABLES ready_head,      \* atomic: top of the stack
          ready_next,      \* atomics: the links
          occupied,        \* atomics: the cell is reserved
          value,           \* the cell holds its lane (UnsafeCell<Option<_>>)
          lane,            \* where the lane is: in its bucket, with a token, or leaked
          p_pc, p_head,    \* the thread that drops the token of the lane
          c_pc, c_head, c_next    \* the runtime

stack == <<ready_head, ready_next>>
cell == <<occupied, value>>
producer == <<p_pc, p_head>>
consumer == <<c_pc, c_head, c_next>>
slotsVars == <<stack, cell, lane, producer, consumer>>

SlotsInit ==
    /\ ready_head = Nil
    /\ ready_next = [c \in Cells |-> Nil]
    /\ occupied = [c \in Cells |-> FALSE]
    /\ value = [c \in Cells |-> FALSE]
    /\ lane = [c \in Cells |-> "bucket"]
    /\ p_pc = [c \in Cells |-> "done"]
    /\ p_head = [c \in Cells |-> Nil]
    /\ c_pc = "idle" /\ c_head = Nil /\ c_next = Nil

(***************************************************************************)
(* A token is dropped: RecoverySlots::recover                              *)
(***************************************************************************)
\* enqueue_prepared detaches a lane that is at home.
Detach(c) ==
    /\ c_pc = "idle"
    /\ lane[c] = "bucket"
    /\ lane' = [lane EXCEPT ![c] = "token"]
    /\ UNCHANGED <<stack, cell, producer, consumer>>

DropToken(c) ==
    /\ lane[c] = "token" /\ p_pc[c] = "done"
    /\ lane' = [lane EXCEPT ![c] = "recovering"]
    /\ p_pc' = [p_pc EXCEPT ![c] = "reserve"]
    /\ UNCHANGED <<stack, cell, p_head, consumer>>

\* RecoveryCell::publish reserves the cell; an occupied cell leaks the lane.
Reserve(c) ==
    /\ p_pc[c] = "reserve"
    /\ IF occupied[c]
       THEN /\ lane' = [lane EXCEPT ![c] = "leaked"]
            /\ p_pc' = [p_pc EXCEPT ![c] = "done"]
            /\ UNCHANGED occupied
       ELSE /\ occupied' = [occupied EXCEPT ![c] = TRUE]
            /\ p_pc' = [p_pc EXCEPT ![c] = "write"]
            /\ UNCHANGED lane
    /\ UNCHANGED <<stack, value, p_head, consumer>>

WriteCell(c) ==
    /\ p_pc[c] = "write"
    /\ value' = [value EXCEPT ![c] = TRUE]
    /\ p_pc' = [p_pc EXCEPT ![c] = "load"]
    /\ UNCHANGED <<stack, occupied, lane, p_head, consumer>>

LoadHead(c) ==
    /\ p_pc[c] = "load"
    /\ p_head' = [p_head EXCEPT ![c] = ready_head]
    /\ p_pc' = [p_pc EXCEPT ![c] = "link"]
    /\ UNCHANGED <<stack, cell, lane, consumer>>

Link(c) ==
    /\ p_pc[c] = "link"
    /\ ready_next' = [ready_next EXCEPT ![c] = p_head[c]]
    /\ p_pc' = [p_pc EXCEPT ![c] = "push"]
    /\ UNCHANGED <<ready_head, cell, lane, p_head, consumer>>

\* Mutant: the head is stored without a comparison.
PushStore(c) ==
    /\ p_pc[c] = "push"
    /\ ready_head' = c
    /\ p_pc' = [p_pc EXCEPT ![c] = "done"]
    /\ p_head' = [p_head EXCEPT ![c] = Nil]
    /\ UNCHANGED <<ready_next, cell, lane, consumer>>

PushCas(c) ==
    /\ p_pc[c] = "push"
    /\ ready_head = p_head[c]
    /\ ready_head' = c
    /\ p_pc' = [p_pc EXCEPT ![c] = "done"]
    /\ p_head' = [p_head EXCEPT ![c] = Nil]
    /\ UNCHANGED <<ready_next, cell, lane, consumer>>

\* A lost or spuriously failed exchange: link to the observed head and try again.
PushFails(c) ==
    /\ p_pc[c] = "push"
    /\ p_head' = [p_head EXCEPT ![c] = ready_head]
    /\ p_pc' = [p_pc EXCEPT ![c] = "link"]
    /\ UNCHANGED <<stack, cell, lane, consumer>>

(***************************************************************************)
(* The runtime: reclaim_dropped_runs_inner over pop_ready and take         *)
(***************************************************************************)
Reclaim ==
    /\ c_pc = "idle"
    /\ c_pc' = "load"
    /\ UNCHANGED <<stack, cell, lane, producer, c_head, c_next>>

\* The end of the stack ends the call, whether it was loaded or observed.
Observe ==
    IF ready_head = Nil
    THEN c_pc' = "idle" /\ c_head' = Nil /\ c_next' = Nil
    ELSE c_pc' = "next" /\ c_head' = ready_head /\ UNCHANGED c_next

PopLoads ==
    /\ c_pc = "load"
    /\ Observe
    /\ UNCHANGED <<stack, cell, lane, producer>>

PopLoadsNext ==
    /\ c_pc = "next"
    /\ c_next' = ready_next[c_head]
    /\ c_pc' = "pop"
    /\ UNCHANGED <<stack, cell, lane, producer, c_head>>

\* Mutant: the head is replaced without a comparison.
PopStore ==
    /\ c_pc = "pop"
    /\ ready_head' = c_next
    /\ c_pc' = "take"
    /\ UNCHANGED <<ready_next, cell, lane, producer, c_head, c_next>>

PopCas ==
    /\ c_pc = "pop"
    /\ ready_head = c_head
    /\ ready_head' = c_next
    /\ c_pc' = "take"
    /\ UNCHANGED <<ready_next, cell, lane, producer, c_head, c_next>>

\* Mutant: a failed exchange is taken for the end of the stack.
PopFailureEndsReclaim ==
    /\ c_pc = "pop"
    /\ c_pc' = "idle" /\ c_head' = Nil /\ c_next' = Nil
    /\ UNCHANGED <<stack, cell, lane, producer>>

PopFails ==
    /\ c_pc = "pop"
    /\ Observe
    /\ UNCHANGED <<stack, cell, lane, producer>>

\* RecoveryCell::take: the contents first.  The code diagnoses an empty cell and
\* goes on; CellAccessIsExclusive shows that there is none.
Take ==
    /\ c_pc = "take"
    /\ value' = [value EXCEPT ![c_head] = FALSE]
    /\ c_pc' = "vacate"
    /\ UNCHANGED <<stack, occupied, lane, producer, c_head, c_next>>

\* The cell is free again, and the lane goes back to its bucket.
Vacate ==
    /\ c_pc = "vacate"
    /\ occupied' = [occupied EXCEPT ![c_head] = FALSE]
    /\ lane' = [lane EXCEPT ![c_head] = "bucket"]
    /\ c_pc' = "load" /\ c_head' = Nil /\ c_next' = Nil
    /\ UNCHANGED <<stack, value, producer>>

ConsumerStep == PopLoads \/ PopLoadsNext \/ PopCas \/ PopFails \/ Take \/ Vacate

SlotsNext ==
    \/ \E c \in Cells :
          \/ Detach(c) \/ DropToken(c)
          \/ Reserve(c) \/ WriteCell(c) \/ LoadHead(c) \/ Link(c) \/ PushCas(c) \/ PushFails(c)
    \/ Reclaim \/ ConsumerStep

SlotsSpec == SlotsInit /\ [][SlotsNext]_slotsVars

\* The runtime thread keeps running, and its weak exchange does not fail
\* spuriously for ever.  Nothing is assumed of the threads that drop tokens.
SlotsFairSpec == SlotsSpec /\ WF_slotsVars(ConsumerStep) /\ SF_slotsVars(PopCas)

(***************************************************************************)
(* Properties                                                              *)
(***************************************************************************)
\* The atomics, the cells and both sides' locals have their types.
SlotsTypeOK ==
    /\ ready_head \in Cells \cup {Nil}
    /\ ready_next \in [Cells -> Cells \cup {Nil}]
    /\ occupied \in [Cells -> BOOLEAN] /\ value \in [Cells -> BOOLEAN]
    /\ lane \in [Cells -> {"bucket", "token", "recovering", "leaked"}]
    /\ p_pc \in [Cells -> {"done", "reserve", "write", "load", "link", "push"}]
    /\ p_head \in [Cells -> Cells \cup {Nil}]
    /\ c_pc \in {"idle", "load", "next", "pop", "take", "vacate"}
    /\ c_head \in Cells \cup {Nil} /\ c_next \in Cells \cup {Nil}

\* The cells on the stack: pushed, and not popped yet.
Pushed(c) == lane[c] = "recovering" /\ p_pc[c] = "done"
OnStack == {c \in Cells : Pushed(c)} \ (IF c_pc \in {"take", "vacate"} THEN {c_head} ELSE {})

\* What n steps from the head reach.
After[n \in 0..Cardinality(Cells)] ==
    IF n = 0 THEN ready_head
    ELSE IF After[n - 1] = Nil THEN Nil ELSE ready_next[After[n - 1]]

\* Pushes that race each other and a pop neither lose a cell, nor tie the stack
\* into a loop, nor leave a popped cell on it: following the links from the head
\* visits exactly the cells that were pushed and not popped.
StackIsExact ==
    /\ {After[n] : n \in 0..Cardinality(Cells)} \ {Nil} = OnStack
    /\ After[Cardinality(Cells)] = Nil

\* The SAFETY comments of publish and take: the contents of a cell are never
\* written while the runtime reads them, a popped cell is full, and publish never
\* finds its cell occupied, so no recovered lane leaks.
CellAccessIsExclusive ==
    /\ c_pc = "take" => p_pc[c_head] = "done" /\ value[c_head]
    /\ \A c \in Cells : lane[c] # "leaked"

\* The end of a reclaim is observed only when nothing is left: every lane that was
\* pushed before it is in its bucket.
ReclaimIsComplete == [][c_pc # "idle" /\ c_pc' = "idle" => \A c \in Cells : ~Pushed(c)]_slotsVars

\* A reclaim ends although tokens are dropped while it runs, and not too early.
ReclaimEmptiesTheStack ==
    /\ c_pc # "idle" ~> c_pc = "idle"
    /\ ReclaimIsComplete
=============================================================================
