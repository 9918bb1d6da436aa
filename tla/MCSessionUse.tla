---------------------------- MODULE MCSessionUse ----------------------------
(***************************************************************************)
(* The two users of a session that other code waits on, in one run:        *)
(* asynchronous runs, and the plans and lanes of dynamic runtimes.  They   *)
(* share no state in these models and no property speaks of both, so one   *)
(* rests while the other works.                                            *)
(***************************************************************************)
EXTENDS RunAsync, ServingTopology

Entry(inputs, outputs, policy) == [inputs |-> inputs, outputs |-> outputs, policy |-> policy]
Inputs == {<<>>, <<<<0>>>>, <<<<1, 2>>>>, <<<<2, 1>>>>, <<<<2, 2>>>>, <<<<3, 2>>>>, <<<<3, 3>>>>,
           <<<<2>>, <<2>>>>, <<<<4>>>>}
MCEntries == {Entry(q, <<<<1>>>>, "host") : q \in Inputs}
MCRequests == Inputs \cup {<<<<1, 1>>>>, <<<<2, 3>>>>, <<<<0, 2>>>>, <<<<-1, 2>>>>, <<<<3>>>>,
                           <<<<1>>, <<2>>>>, <<<<4, 4>>>>}

Pad(num, den) == [kind |-> "pad", num |-> num, den |-> den]
MCFallbacks == {Strict, [Strict EXCEPT !.kind = "session"], Pad(0, 1), Pad(1, 2), Pad(9, 1), Pad(-1, 1)}

\* Two shapes of which one can be padded to the other; outputs on the host or the device.
Small(policy) == Entry(<<<<1>>>>, <<<<1>>>>, policy)
Large(policy) == Entry(<<<<2>>>>, <<<<1>>>>, policy)
Builder(shapes, fallback) == [shapes |-> shapes, fallback |-> fallback]
MCServedBuilders == {Builder(<<Large("device")>>, Pad(9, 1)),
                     Builder(<<Small("host"), Large("host")>>, Strict)}
MCStreamLists == {<<>>, <<"t1">>, <<"t1", "t2">>, <<"t1", "t1">>}

\* Each session has a stream of its own, or both have one.
MCSessionStreams == {"s1" :> "t1" @@ "s2" :> "t2", "s1" :> "t1" @@ "s2" :> "t1"}

NoOwnedInputs == owned = [r \in Runs |-> FALSE]
SessionUseInit == Init /\ ServingInit /\ (serving => NoOwnedInputs)

AsyncStep == PlanInit /\ Next /\ UNCHANGED servingVars
ServingStep == Init /\ NoOwnedInputs /\ ServingNext /\ UNCHANGED vars

SessionUseSpec ==
    SessionUseInit /\ [][AsyncStep \/ ServingStep]_<<vars, servingVars>> /\ Fairness
=============================================================================
