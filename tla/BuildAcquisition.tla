-------------------------- MODULE BuildAcquisition --------------------------
(***************************************************************************)
(* The build script of st-zrt-sys: how it puts the pinned ONNX Runtime     *)
(* under OUT_DIR and links it.  OUT_DIR outlives a build, so every file    *)
(* the script leaves there, when it is killed between two steps, when the  *)
(* network fails, when it panics, is what the next build starts from.      *)
(* Cargo runs one build per OUT_DIR at a time, and OUT_DIR is private to   *)
(* one target and feature set, so it meets one pinned asset.               *)
(***************************************************************************)
EXTENDS Integers

CONSTANTS Targets,      \* target triples, as the pairs <<system, processor>>
          MaxFaults     \* faults of the machine, network and disk (model bound)
ASSUME MaxFaultsAssumption == MaxFaults \in Nat

VARIABLES host,         \* target, gpu feature, environment variables, CUDA toolkit
          pc,           \* the step the running build is at; idle between builds
          attempt,      \* the download attempt of download_with_retries
          part,         \* <asset>.part: none, cut short, good or other bytes
          archive,      \* <asset>
          unpacked,     \* the directory the archive unpacks to
          tree,         \* onnxruntime/: none, hollow (no lib/), partial, good or other bytes
          marker,       \* the .done file
          faults        \* faults still to come

disk == <<part, archive, unpacked, tree, marker>>
vars == <<host, pc, attempt, disk, faults>>

DOWNLOAD_ATTEMPTS == 3
Contents == {"none", "cut", "good", "other"}
Trees == {"none", "hollow", "partial", "good", "other"}

(***************************************************************************)
(* The environment of a build                                              *)
(***************************************************************************)
\* The release asset of a target, or the panic of an unsupported one.
asset_for(target, gpu) ==
    IF gpu THEN IF target = <<"linux", "x86_64">> THEN "gpu" ELSE "panic"
    ELSE IF target \in {<<"linux", "x86_64">>, <<"linux", "aarch64">>, <<"darwin", "aarch64">>}
         THEN "cpu" ELSE "panic"

\* The CUDA 13 libraries are on the machine, or not needed.
resolve_cuda13_lib_dir == host.gpu => host.toolkit

Hosts == [target : Targets, gpu : BOOLEAN, toolkit : BOOLEAN, env : {"docs", "ort_path", "download"}]

\* The script can acquire and link the runtime on this machine.
Supported ==
    host.env = "download" /\ asset_for(host.target, host.gpu) # "panic" /\ resolve_cuda13_lib_dir

\* lib/ is a directory of the tree, and it holds the versioned library to link.  A
\* partial tree is one whose lib/ has lost it.
LibIsDir == tree \in {"partial", "good", "other"}
LibraryIsThere == tree \in {"good", "other"}

\* The targets for which the versioned library is looked for.
OnLinux == host.target[1] = "linux"

\* What a removal that stops half way, or a wipe of a part, leaves.
Remains == IF LibIsDir THEN {tree, "partial", "hollow"} ELSE {tree}

Init ==
    /\ host \in Hosts
    /\ pc = "idle"
    /\ attempt = 0
    /\ part = "none" /\ archive = "none" /\ unpacked = "none" /\ tree = "none"
    /\ marker = FALSE
    /\ faults = MaxFaults

Fault == faults > 0 /\ faults' = faults - 1
NoFault == faults' = faults
Panic == pc' = "idle"

(***************************************************************************)
(* main, up to the acquisition                                             *)
(***************************************************************************)
\* The early return for docs.rs, the tree the user names, or the pinned asset.
main ==
    /\ pc = "idle"
    /\ \/ host.env = "docs" /\ pc' = "idle"
       \/ host.env = "ort_path" /\ pc' = "link"
       \/ /\ host.env = "download"
          /\ pc' = IF asset_for(host.target, host.gpu) = "panic" THEN "idle" ELSE "marker"
    /\ UNCHANGED <<host, attempt, disk, faults>>

\* The marker counts while lib/ exists.  Its removal may fail, which is ignored.
CheckMarker ==
    /\ pc = "marker"
    /\ IF marker /\ LibIsDir
       THEN pc' = "link" /\ NoFault /\ UNCHANGED marker
       ELSE /\ pc' = "acquire"
            /\ \/ NoFault /\ marker' = FALSE
               \/ Fault /\ UNCHANGED marker
    /\ UNCHANGED <<host, attempt, part, archive, unpacked, tree>>

(***************************************************************************)
(* The archive                                                             *)
(***************************************************************************)
\* sha256_file compared with the pin.
Verified == archive = "good"

\* Mutant: any cached archive is taken as it is.
CachedUnverified ==
    /\ pc = "acquire" /\ archive # "none"
    /\ pc' = "clear"
    /\ UNCHANGED <<host, attempt, disk, faults>>

\* acquire_verified_archive with a cached archive that matches the pin.
CachedArchive ==
    /\ pc = "acquire" /\ archive # "none"
    /\ Verified
    /\ pc' = "clear"
    /\ UNCHANGED <<host, attempt, disk, faults>>

\* Mutant: a cached archive that fails verification fails the build.
RejectAndPanic ==
    /\ pc = "acquire" /\ archive # "none"
    /\ ~Verified
    /\ Panic /\ UNCHANGED archive
    /\ UNCHANGED <<host, attempt, part, unpacked, tree, marker, faults>>

\* A cached archive that does not match is removed and fetched once more; a removal
\* that fails panics.
RejectCached ==
    /\ pc = "acquire" /\ archive # "none"
    /\ ~Verified
    /\ \/ NoFault /\ pc' = "fetch" /\ archive' = "none"
       \/ Fault /\ Panic /\ UNCHANGED archive
    /\ UNCHANGED <<host, attempt, part, unpacked, tree, marker>>

\* download_with_retries: the stale part of an earlier build is removed first.
download_with_retries ==
    /\ pc = "fetch" \/ (pc = "acquire" /\ archive = "none")
    /\ part' = "none"
    /\ attempt' = 1
    /\ pc' = "download"
    /\ UNCHANGED <<host, archive, unpacked, tree, marker, faults>>

\* A request that fails, stalls or ends early is an error, after which the part is
\* removed; a body that was streamed to its end is flushed and synced, whatever
\* its bytes.
download_once ==
    /\ pc = "download"
    /\ \/ NoFault /\ part' = "good" /\ pc' = "rename" /\ UNCHANGED attempt
       \/ Fault /\ part' = "other" /\ pc' = "rename" /\ UNCHANGED attempt
       \/ /\ Fault /\ part' = "none"
          /\ IF attempt < DOWNLOAD_ATTEMPTS
             THEN attempt' = attempt + 1 /\ UNCHANGED pc
             ELSE Panic /\ UNCHANGED attempt
    /\ UNCHANGED <<host, archive, unpacked, tree, marker>>

\* The atomic rename into place; a failure removes the part and panics.
RenamePart ==
    /\ pc = "rename"
    /\ \/ NoFault /\ archive' = part /\ pc' = "verify"
       \/ Fault /\ Panic /\ UNCHANGED archive
    /\ part' = "none"
    /\ UNCHANGED <<host, attempt, unpacked, tree, marker>>

\* A fresh archive that does not match fails the build and stays on the disk.
VerifyFresh ==
    /\ pc = "verify"
    /\ pc' = IF Verified THEN "clear" ELSE "idle"
    /\ UNCHANGED <<host, attempt, disk, faults>>

(***************************************************************************)
(* The tree                                                                *)
(***************************************************************************)
\* remove_dir_all of the old tree; a failure half way is ignored.
ClearTree ==
    /\ pc = "clear"
    /\ pc' = "extract"
    /\ \/ NoFault /\ tree' = "none"
       \/ Fault /\ tree # "none" /\ tree' \in Remains
    /\ UNCHANGED <<host, attempt, part, archive, unpacked, marker>>

\* The archive is unpacked over whatever an earlier build left; a failure panics.
extract_tgz ==
    /\ pc = "extract"
    /\ \/ NoFault /\ unpacked' = archive /\ pc' = "place"
       \/ Fault /\ unpacked' = "cut" /\ Panic
    /\ UNCHANGED <<host, attempt, part, archive, tree, marker>>

\* Mutant: the unpacked directory is copied into place, which can stop half way.
CopyTree ==
    /\ pc = "place"
    /\ unpacked' = unpacked
    /\ \/ NoFault /\ tree = "none" /\ tree' = unpacked /\ pc' = "mark"
       \/ Fault /\ tree = "none" /\ tree' = "partial" /\ Panic
       \/ NoFault /\ tree # "none" /\ UNCHANGED tree /\ Panic
    /\ UNCHANGED <<host, attempt, part, archive, marker>>

\* The rename of the unpacked directory fails on a tree that is still there.
PlaceTree ==
    /\ pc = "place"
    /\ IF tree = "none" THEN tree' = unpacked /\ unpacked' = "none" /\ pc' = "mark"
                        ELSE Panic /\ UNCHANGED <<tree, unpacked>>
    /\ UNCHANGED <<host, attempt, part, archive, marker, faults>>

\* The creation of the marker; a failure is ignored.
CreateMarker ==
    /\ pc = "mark"
    /\ pc' = "link"
    /\ \/ NoFault /\ marker' = TRUE
       \/ Fault /\ UNCHANGED marker
    /\ UNCHANGED <<host, attempt, part, archive, unpacked, tree>>

\* lib/ is asserted, on Linux the unversioned name is made from the versioned
\* library, and with the gpu feature the toolkit is asserted.  The user's own tree is
\* taken to hold a library.
Link ==
    /\ pc = "link"
    /\ pc' = IF /\ host.env = "download" => LibIsDir /\ (OnLinux => LibraryIsThere)
                /\ resolve_cuda13_lib_dir
              THEN "linked" ELSE "idle"
    /\ UNCHANGED <<host, attempt, disk, faults>>

\* The build ends; cargo runs the script again later.
EndBuild ==
    /\ pc = "linked"
    /\ pc' = "idle"
    /\ UNCHANGED <<host, attempt, disk, faults>>

(***************************************************************************)
(* Faults                                                                  *)
(***************************************************************************)
\* The build is killed, half way through a step that writes.
Killed ==
    /\ pc \notin {"idle", "linked"} /\ Fault
    /\ pc' = "idle"
    /\ part' \in IF pc = "download" THEN {part, "cut"} ELSE {part}
    /\ unpacked' \in IF pc = "extract" THEN {unpacked, "cut"} ELSE {unpacked}
    /\ tree' \in IF pc = "clear" THEN Remains ELSE {tree}
    /\ UNCHANGED <<host, attempt, archive, marker>>

\* Between two builds the cached archive rots, or a wipe takes the tree or a part of
\* it: its lib/, or the library in its lib/.
Decay ==
    /\ pc = "idle" /\ Fault
    /\ \/ archive # "none" /\ archive' = "other" /\ UNCHANGED tree
       \/ tree # "none" /\ tree' \in {"none"} \cup Remains /\ UNCHANGED archive
    /\ UNCHANGED <<host, pc, attempt, part, unpacked, marker>>

Build ==
    \/ main \/ CheckMarker \/ CachedArchive \/ RejectCached \/ download_with_retries
    \/ download_once \/ RenamePart \/ VerifyFresh \/ ClearTree \/ extract_tgz \/ PlaceTree
    \/ CreateMarker \/ Link \/ EndBuild

Next == Build \/ Killed \/ Decay

\* The builds of one machine, without the fairness that module FfiCrate adds.
Spec == Init /\ [][Next]_vars

(***************************************************************************)
(* Properties                                                              *)
(***************************************************************************)
\* The host, the running build and the files have their types.
TypeOK ==
    /\ host \in Hosts
    /\ pc \in {"idle", "marker", "acquire", "fetch", "download", "rename", "verify", "clear",
               "extract", "place", "mark", "link", "linked"}
    /\ attempt \in 0..DOWNLOAD_ATTEMPTS
    /\ {part, archive, unpacked} \subseteq Contents
    /\ tree \in Trees
    /\ marker \in BOOLEAN
    /\ faults \in 0..MaxFaults

\* A build that acquires the runtime links nothing but the tree of an archive that
\* matched the pin, whatever earlier builds, killed or failed at any step, left in
\* OUT_DIR.  On Linux the library is in that tree; elsewhere a lib/ that was emptied
\* behind the marker is left to the linker.
LinksOnlyVerified ==
    pc = "linked" /\ host.env = "download" =>
        tree \in {"good", "partial"} /\ (OnLinux => tree = "good")

\* The promise of the marker: a lib/ beside it belongs to a whole tree.
MarkerHolds == marker /\ LibIsDir => tree = "good"

\* Only a wipe breaks the promise of the marker: no step of a build does, finished,
\* failed or killed half way, in whatever order earlier ones failed.
BuildKeepsMarkerTrue == [][MarkerHolds /\ ~MarkerHolds' => Decay]_vars

\* A build that goes on to link has a whole tree: as the comment on the marker says,
\* a wiped or partial onnxruntime/ does not keep the promise of the marker alive.
PartialTreeIsReplaced == pc = "link" /\ host.env = "download" => tree = "good"
=============================================================================
