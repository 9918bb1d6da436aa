-------------------------- MODULE ReleaseExclusion --------------------------
(***************************************************************************)
(* What Session::release_captured_graph promises about one annotation id   *)
(* (session.rs, the doc comment above the function): the release waits for *)
(* the tracked replays of the id to finish, and no new tracked replay      *)
(* starts until it returns.  CapturedGraphLease implements this with one   *)
(* atomic word, a mutex and a condition variable.                          *)
(***************************************************************************)
EXTENDS Naturals

CONSTANTS Releasers,   \* threads that call release_captured_graph
          NoThread     \* no release is in progress

VARIABLES running,     \* the number of tracked replays that have not finished
          owner,       \* the releaser that has claimed the id, or NoThread
          native       \* TRUE while the provider's release call executes

vars == <<running, owner, native>>

Init ==
    /\ running = 0
    /\ owner = NoThread
    /\ native = FALSE

\* A tracked replay starts: never while a release is in progress.
Start ==
    /\ owner = NoThread
    /\ running' = running + 1
    /\ UNCHANGED <<owner, native>>

Finish ==
    /\ running > 0
    /\ running' = running - 1
    /\ UNCHANGED <<owner, native>>

\* A release claims the id: from here on no replay starts.
Claim(r) ==
    /\ owner = NoThread
    /\ owner' = r
    /\ UNCHANGED <<running, native>>

\* The provider is called once the tracked replays have drained.
CallNative ==
    /\ owner # NoThread
    /\ running = 0
    /\ native = FALSE
    /\ native' = TRUE
    /\ UNCHANGED <<running, owner>>

ReturnNative ==
    /\ native = TRUE
    /\ native' = FALSE
    /\ owner' = NoThread
    /\ UNCHANGED running

Next ==
    \/ Start
    \/ Finish
    \/ \E r \in Releasers : Claim(r)
    \/ CallNative
    \/ ReturnNative

Spec == Init /\ [][Next]_vars
=============================================================================
