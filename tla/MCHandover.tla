----------------------------- MODULE MCHandover -----------------------------
(***************************************************************************)
(* The two protocols by which threads hand lanes to each other, in one     *)
(* run.  They share no state and no property speaks of both, so one rests  *)
(* while the other works.                                                  *)
(***************************************************************************)
EXTENDS ServingLanePool, RecoverySlots

HandoverInit == Init /\ SlotsInit

PoolStep == SlotsInit /\ Next /\ UNCHANGED slotsVars
SlotsStep == Init /\ SlotsNext /\ UNCHANGED vars

\* The fairness of both: whoever rests has nothing to do that is fair.
HandoverSpec ==
    /\ HandoverInit /\ [][PoolStep \/ SlotsStep]_<<vars, slotsVars>>
    /\ \A t \in Threads : WF_vars(CriticalSection(t)) /\ SF_vars(Acquire(t))
    /\ WF_slotsVars(ConsumerStep) /\ SF_slotsVars(PopCas)
=============================================================================
