------------------------------ MODULE FfiCrate ------------------------------
(***************************************************************************)
(* The crate st-zrt-sys as it comes to be: a developer runs the generator  *)
(* over the header and checks its output in, and from then on the build    *)
(* script runs again and again on the machine of a user.  Neither reads a  *)
(* file the other writes: the generated module is compiled as checked in.  *)
(***************************************************************************)
EXTENDS BuildAcquisition, ApiTable

FfiInit ==
    /\ Init /\ CodegenInit
    /\ host = CHOOSE h \in Hosts : h.env = "download"

GenerateBindings == (ReadHeader \/ parse_api_struct \/ WriteBindings) /\ UNCHANGED vars

\* The generator is done and the crate goes to the machine it is built on.
Publish == ExitTool /\ host' \in Hosts /\ UNCHANGED <<pc, attempt, disk, faults>>

RunBuild == tool = "exited" /\ Next /\ UNCHANGED codegenVars

FfiNext == GenerateBindings \/ Publish \/ RunBuild

(* A started build goes on, since every request is bounded by a timeout, and a *)
(* build that failed is run again.                                             *)
FfiSpec ==
    /\ FfiInit /\ [][FfiNext]_<<vars, codegenVars>>
    /\ WF_vars(tool = "exited" /\ Build /\ UNCHANGED codegenVars)

\* The library was wiped from lib/ on a Linux target while the marker stayed.
WipedBehindMarker == OnLinux /\ marker /\ tree = "partial"

\* Once the faults stop, the builds of a supported host link again and again,
\* whatever kills, failed steps, a rotten archive and wipes left in OUT_DIR, with one
\* exception: a library wiped from lib/ behind the marker.  No build gets itself
\* there: only a wipe makes the marker lie.
BuildHeals ==
    /\ [](tool = "exited" /\ Supported => <>(pc = "linked" \/ WipedBehindMarker))
    /\ BuildKeepsMarkerTrue
=============================================================================
