---------------------- MODULE BuildAcquisition_proofs ----------------------
(***************************************************************************)
(* Proofs about the build script, for any targets and any number of        *)
(* faults: kills, failed requests, failed file operations, rot and wipes.  *)
(***************************************************************************)
EXTENDS BuildAcquisition, TLAPS

\* Beside a lib/ directory the marker means the tree of a verified archive, but for a
\* library that was wiped, and a build that acquires does not find both.
MarkerInv ==
    marker /\ LibIsDir =>
        /\ tree \in {"good", "partial"}
        /\ pc \notin {"acquire", "fetch", "download", "rename", "verify", "clear",
                      "extract", "place"}

\* What a running build has verified on its way to the link step.
StageInv ==
    /\ pc \in {"clear", "extract"} => archive = "good"
    /\ pc = "place" => unpacked = "good"
    /\ pc = "mark" => tree = "good"
    /\ pc \in {"link", "linked"} /\ host.env = "download" => tree \in {"good", "partial"}
    /\ pc = "linked" /\ host.env = "download" /\ OnLinux => tree = "good"

IInv == TypeOK /\ MarkerInv /\ StageInv

LEMMA InitIInv == Init => IInv
<1> SUFFICES ASSUME Init PROVE IInv
  OBVIOUS
<1>1. MarkerInv
  BY Zenon DEF Init, MarkerInv
<1>2. StageInv
  BY DEF Init, StageInv
<1>3. marker \in BOOLEAN
  BY DEF Init
<1>4. TypeOK
  BY <1>3, MaxFaultsAssumption DEF Init, TypeOK, Contents, Trees, DOWNLOAD_ATTEMPTS
<1> QED
  BY <1>1, <1>2, <1>4 DEF IInv

\* A build step, and then a fault, one action at a time.
LEMMA NextIInv == IInv /\ [Next]_vars => IInv'
<1> SUFFICES ASSUME IInv, [Next]_vars PROVE IInv'
  OBVIOUS
<1> USE MaxFaultsAssumption
    DEF IInv, TypeOK, MarkerInv, StageInv, Contents, Trees, LibIsDir, DOWNLOAD_ATTEMPTS,
        Fault, NoFault, Panic, disk, OnLinux
<1>1. CASE main
  BY <1>1 DEF main
<1>2. CASE CheckMarker
  <2>1. marker' \in BOOLEAN
    BY <1>2 DEF CheckMarker
  <2>2. CASE marker /\ LibIsDir
    BY <1>2, <2>1, <2>2 DEF CheckMarker
  <2>3. CASE ~(marker /\ LibIsDir)
    <3>1. pc' = "acquire" /\ UNCHANGED <<host, attempt, part, archive, unpacked, tree>>
      BY <1>2, <2>3 DEF CheckMarker
    <3>2. ~(marker' /\ LibIsDir)
      BY <1>2, <2>3, Zenon DEF CheckMarker
    <3>3. faults' \in 0..MaxFaults
      BY <1>2, <2>3 DEF CheckMarker
    <3> QED
      BY <2>1, <3>1, <3>2, <3>3
  <2> QED
    BY <2>2, <2>3
<1>3. CASE CachedArchive
  BY <1>3 DEF CachedArchive, Verified
<1>4. CASE RejectCached
  BY <1>4 DEF RejectCached
<1>5. CASE download_with_retries
  BY <1>5 DEF download_with_retries
<1>6. CASE download_once
  BY <1>6 DEF download_once
<1>7. CASE RenamePart
  BY <1>7 DEF RenamePart
<1>8. CASE VerifyFresh
  BY <1>8 DEF VerifyFresh, Verified
<1>9. CASE ClearTree
  BY <1>9 DEF ClearTree, Remains
<1>10. CASE extract_tgz
  BY <1>10 DEF extract_tgz
<1>11. CASE PlaceTree
  BY <1>11 DEF PlaceTree
<1>12. CASE CreateMarker
  <2>1. marker' \in BOOLEAN
    BY <1>12 DEF CreateMarker
  <2>2. /\ pc = "mark" /\ pc' = "link" /\ faults' \in 0..MaxFaults
        /\ UNCHANGED <<host, attempt, part, archive, unpacked, tree>>
    BY <1>12 DEF CreateMarker
  <2> QED
    BY <2>1, <2>2
<1>13. CASE Link
  BY <1>13 DEF Link, LibraryIsThere
<1>14. CASE EndBuild
  BY <1>14 DEF EndBuild
<1>15. CASE Killed
  BY <1>15 DEF Killed, Remains
<1>16. CASE Decay
  BY <1>16 DEF Decay, Remains
<1>17. CASE UNCHANGED vars
  BY <1>17 DEF vars
<1> QED
  BY <1>1, <1>2, <1>3, <1>4, <1>5, <1>6, <1>7, <1>8, <1>9, <1>10, <1>11, <1>12, <1>13,
     <1>14, <1>15, <1>16, <1>17 DEF Next, Build

LEMMA BuildIInv == Spec => []IInv
BY InitIInv, NextIInv, PTL DEF Spec

\* The host, the steps of a build and the files under OUT_DIR keep their types.
THEOREM BuildTypeOK == Spec => []TypeOK
<1>1. IInv => TypeOK
  BY DEF IInv
<1> QED
  BY <1>1, BuildIInv, PTL

\* No sequence of kills, failures and rot makes main link anything but the tree of an
\* archive that matched its pinned checksum.
THEOREM BuildLinksOnlyVerified == Spec => []LinksOnlyVerified
<1>1. IInv => LinksOnlyVerified
  BY DEF IInv, StageInv, LinksOnlyVerified, OnLinux
<1> QED
  BY <1>1, BuildIInv, PTL

\* A step that is no wipe keeps the marker true, if it is: what the steps write to
\* the tree they write while there is no marker beside a lib/, or at once.
LEMMA StepKeepsMarkerTrue ==
    ASSUME IInv, Next, MarkerHolds, ~MarkerHolds'
    PROVE  Decay
<1> USE DEF MarkerHolds, LibIsDir, IInv, MarkerInv, StageInv
<1>1. SUFFICES ASSUME ~Decay PROVE FALSE
  OBVIOUS
<1>2. ASSUME UNCHANGED <<tree, marker>> PROVE FALSE
  BY <1>2, Zenon
<1>3. CASE \/ main \/ CachedArchive \/ RejectCached \/ download_with_retries \/ download_once
           \/ RenamePart \/ VerifyFresh \/ extract_tgz \/ Link \/ EndBuild
  <2>1. UNCHANGED <<tree, marker>>
    BY <1>3 DEF main, CachedArchive, RejectCached, download_with_retries, download_once,
                RenamePart, VerifyFresh, extract_tgz, Link, EndBuild, disk
  <2> QED
    BY <1>2, <2>1
<1>4. CASE CheckMarker
  <2>1. tree' = tree /\ (marker' => marker)
    BY <1>4 DEF CheckMarker
  <2> QED
    BY <2>1, Zenon
<1>5. CASE ClearTree
  <2>1. marker' = marker /\ (tree' = "none" \/ tree' \in Remains) /\ pc = "clear"
    BY <1>5 DEF ClearTree
  <2> QED
    BY <2>1 DEF Remains
<1>6. CASE PlaceTree
  BY <1>6 DEF PlaceTree
<1>7. CASE CreateMarker
  BY <1>7 DEF CreateMarker
<1>8. CASE Killed
  <2>1. marker' = marker /\ (tree' = tree \/ (pc = "clear" /\ tree' \in Remains))
    BY <1>8 DEF Killed
  <2> QED
    BY <2>1 DEF Remains
<1> QED
  BY <1>1, <1>3, <1>4, <1>5, <1>6, <1>7, <1>8 DEF Next, Build

\* Only a wipe makes the marker lie about a lib/ beside it: no build step does, and no
\* kill or failure, however many of them and in whatever order.
THEOREM OnlyWipesBreakMarker == Spec => BuildKeepsMarkerTrue
<1>1. IInv /\ [Next]_vars => [MarkerHolds /\ ~MarkerHolds' => Decay]_vars
  BY StepKeepsMarkerTrue
<1> QED
  BY <1>1, BuildIInv, PTL DEF Spec, BuildKeepsMarkerTrue
=============================================================================
