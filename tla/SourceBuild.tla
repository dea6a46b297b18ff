----------------------------- MODULE SourceBuild -----------------------------
(***************************************************************************)
(* `lexicon build` of one source (lexicon-framework lib.rs, build_source): *)
(* lockfiles, cargo, verification of the executables (build/               *)
(* runtime_verification.rs), staging (build/runtime_staging.rs) and the    *)
(* publication of RuntimePair, by several builds at once; and beside them  *)
(* `lexicon data` launching the published runtimes (data/runtime.rs).      *)
(***************************************************************************)
EXTENDS RuntimePair, FiniteSets

CONSTANTS
  Launches,   (* the `lexicon data` invocations                            *)
  MaxTouches  (* how often somebody edits a lockfile or a built artifact   *)

ASSUME BuildAssumption ==
  /\ MaxTouches \in Nat
  /\ Launches \cap Builds = {}

VARIABLES
  lockfile,  \* kind -> content of the workspace's Cargo.lock
  seen,      \* build -> kind -> its snapshot of the lockfile
  artifact,  \* build -> kind -> bytes in its target directory
  locked,    \* history: build -> kind -> lockfile cargo resolved with
  hashed,    \* build -> kind -> bytes the first hash saw
  probed,    \* build -> kind -> bytes the probe ran
  undone,    \* history: what was changed and put back while a build used it
  touches,   \* edits so far
  lpc,       \* launch -> next step
  target,    \* launch -> kind it launches
  admitted,  \* launch -> digest of the manifest it admitted
  ran        \* launch -> bytes it executed

edits == <<undone, touches>>
candidates == <<lockfile, seen, artifact, locked, hashed, probed, edits>>
launchVars == <<lpc, target, admitted, ran>>
vars == <<pairVars, candidates, launchVars>>

NoBytes == <<"original", None>>

\* Contents of a lockfile, those of the beginning and others.
Contents == {"resolved", "edited"}

Init ==
  /\ PairInit
  /\ pc = [b \in Builds |-> "start"]
  /\ lockfile = [k \in Kinds |-> "resolved"]
  /\ seen = [b \in Builds |-> lockfile]
  /\ artifact = [b \in Builds |-> [k \in Kinds |-> NoBytes]]
  /\ locked = [b \in Builds |-> lockfile]
  /\ hashed = [b \in Builds |-> [k \in Kinds |-> NoBytes]]
  /\ probed = [b \in Builds |-> [k \in Kinds |-> NoBytes]]
  /\ undone = {}
  /\ touches = 0
  /\ lpc = [l \in Launches |-> "start"]
  /\ target = [l \in Launches |-> "acquisition"]
  /\ admitted = [l \in Launches |-> NoBytes]
  /\ ran = [l \in Launches |-> NoBytes]

-----------------------------------------------------------------------------
(* build_source                                                            *)

\* Name, layout, metadata and manifests are valid or the build fails; the
\* lockfiles are read before anything is built.
Configure(b) ==
  /\ pc[b] = "start"
  /\ \/ /\ seen' = [seen EXCEPT ![b] = lockfile]
        /\ GotoFor(b, "cargo", "acquisition")
     \/ /\ b \in FaultProne
        /\ Goto(b, "failed")
        /\ UNCHANGED <<seen, side>>
  /\ UNCHANGED <<paths, undo, history, lockfile, artifact, locked, hashed, probed,
                 edits, launchVars>>

\* build_managed_runner: cargo build --locked into a target directory of its own.
BuildManagedRunner(b) ==
  /\ pc[b] = "cargo"
  /\ LET k == side[b] IN
     \/ /\ artifact' = [artifact EXCEPT ![b][k] = <<"built", b>>]
        /\ locked' = [locked EXCEPT ![b][k] = lockfile[k]]
        /\ IF k = "acquisition" THEN GotoFor(b, "cargo", "processing")
                                ELSE GotoFor(b, "locked", "acquisition")
     \/ /\ b \in FaultProne
        /\ Goto(b, "failed")
        /\ UNCHANGED <<artifact, locked, side>>
  /\ UNCHANGED <<paths, undo, history, lockfile, seen, hashed, probed, edits,
                 launchVars>>

\* ensure_lockfile_unchanged, of both workspaces.
EnsureLockfileUnchanged(b) ==
  /\ pc[b] = "locked"
  /\ IF lockfile = seen[b] THEN Goto(b, "hash") ELSE Goto(b, "failed")
  /\ UNCHANGED <<paths, side, undo, history, candidates, launchVars>>

\* verify_*_runtime_candidate_owned: hash ...
HashBefore(b) ==
  /\ pc[b] = "hash"
  /\ hashed' = [hashed EXCEPT ![b][side[b]] = artifact[b][side[b]]]
  /\ Goto(b, "probe")
  /\ UNCHANGED <<paths, side, undo, history, lockfile, seen, artifact, locked, probed,
                 edits, launchVars>>

\* ... run the executable, which must describe itself as expected ...
ProbeArtifact(b) ==
  /\ pc[b] = "probe"
  /\ \/ /\ probed' = [probed EXCEPT ![b][side[b]] = artifact[b][side[b]]]
        /\ Goto(b, "rehash")
     \/ /\ b \in FaultProne
        /\ Goto(b, "failed")
        /\ UNCHANGED probed
  /\ UNCHANGED <<paths, side, undo, history, lockfile, seen, artifact, locked, hashed,
                 edits, launchVars>>

\* ... and hash it again: ArtifactChangedDuringProbe unless nothing changed.
HashAfter(b) ==
  /\ pc[b] = "rehash"
  /\ LET k == side[b] IN
     IF artifact[b][k] = hashed[b][k]
     THEN IF k = "acquisition" THEN GotoFor(b, "hash", "processing")
                               ELSE GotoFor(b, "dirs", "acquisition")
     ELSE Goto(b, "failed") /\ UNCHANGED side
  /\ UNCHANGED <<paths, undo, history, candidates, launchVars>>

\* create_dir_all of both runtime directories
EnsureRuntimeDirectories(b) ==
  /\ pc[b] = "dirs"
  /\ LET k == side[b] IN
     \/ /\ dest' = [dest EXCEPT ![k] = IF @ = Absent THEN Made(b) ELSE @]
        /\ IF k = "acquisition" THEN GotoFor(b, "dirs", "processing")
                                ELSE GotoFor(b, "stage", "acquisition")
     \/ /\ b \in FaultProne
        /\ Goto(b, "failed")
        /\ UNCHANGED <<dest, side>>
  /\ UNCHANGED <<backup, stage, content, undo, history, candidates, launchVars>>

\* stage_verified_*_runtime_bundle: copy the executable into a TempDir in the
\* workspace ...
StageExecutable(b) ==
  /\ pc[b] = "stage"
  /\ LET k == side[b] IN
     /\ stage' = [stage EXCEPT ![b][k] = Staged(b)]
     /\ content' = [content EXCEPT ![k][Staged(b)] =
          [files |-> {"exe"}, exe |-> artifact[b][k], digest |-> NoBytes]]
  /\ Goto(b, "manifest")
  /\ UNCHANGED <<dest, backup, side, undo, history, candidates, launchVars>>

\* A mutant: the manifest names whatever was copied.
StageWhateverCopied(b) ==
  /\ pc[b] = "manifest"
  /\ LET k == side[b] IN
     /\ content' = [content EXCEPT ![k][Staged(b)].files = Files,
                                   ![k][Staged(b)].digest = artifact[b][k]]
     /\ IF k = "acquisition" THEN GotoFor(b, "stage", "processing")
                             ELSE GotoFor(b, "publish", "acquisition")
  /\ UNCHANGED <<dest, backup, stage, undo, history, candidates, launchVars>>

\* ... compare the copy with the verified hash and write runtime.json.
StageManifest(b) ==
  /\ pc[b] = "manifest"
  /\ LET k == side[b]
         copied == content[k][Staged(b)].exe IN
     \/ /\ copied = hashed[b][k]
        /\ content' = [content EXCEPT ![k][Staged(b)] =
             [files |-> Files, exe |-> copied, digest |-> hashed[b][k]]]
        /\ IF k = "acquisition" THEN GotoFor(b, "stage", "processing")
                                ELSE GotoFor(b, "publish", "acquisition")
        /\ UNCHANGED stage
     \/ /\ b \in FaultProne \/ copied # hashed[b][k]
        /\ Abort(b, Kinds)
        /\ UNCHANGED <<content, side>>
  /\ UNCHANGED <<dest, backup, undo, history, candidates, launchVars>>

\* Somebody edits a lockfile, or takes the edit back, which a build between its
\* snapshot and its comparison does not see.
EditLockfile(k) ==
  /\ touches < MaxTouches
  /\ touches' = touches + 1
  /\ \E version \in Contents \ {lockfile[k]} :
       /\ lockfile' = [lockfile EXCEPT ![k] = version]
       /\ undone' = undone \cup
            {<<"lockfile", b, k>> : b \in {c \in Builds :
               pc[c] \in {"cargo", "locked"} /\ seen[c][k] = version}}
  /\ UNCHANGED <<pairVars, seen, artifact, locked, hashed, probed, launchVars>>

\* Somebody overwrites an executable before it is staged, or puts it back, which
\* a build between its probe and its second hash does not see.
TouchArtifact(b, k) ==
  /\ touches < MaxTouches
  /\ pc[b] \in {"locked", "hash", "probe", "rehash", "dirs", "stage", "manifest"}
  /\ touches' = touches + 1
  /\ \E bytes \in {<<"built", b>>, <<"touched", b>>} \ {artifact[b][k]} :
       /\ artifact' = [artifact EXCEPT ![b][k] = bytes]
       /\ undone' = undone \cup
            IF pc[b] = "rehash" /\ side[b] = k /\ hashed[b][k] = bytes
            THEN {<<"artifact", b, k>>} ELSE {}
  /\ UNCHANGED <<pairVars, lockfile, seen, locked, hashed, probed, launchVars>>

-----------------------------------------------------------------------------
(* `lexicon data`: admit_bundle, and later the recheck and the spawn.      *)

Published(l) == Bundle(target[l], dest[target[l]])
Launch(l, next) == lpc' = [lpc EXCEPT ![l] = next]

\* admit_*_runtime_bundle_owned reads the manifest of the operation's bundle ...
ReadManifest(l) ==
  /\ lpc[l] = "start"
  /\ \E k \in Kinds :
       /\ target' = [target EXCEPT ![l] = k]
       /\ \/ /\ "manifest" \in Bundle(k, dest[k]).files
             /\ admitted' = [admitted EXCEPT ![l] = Bundle(k, dest[k]).digest]
             /\ Launch(l, "hash")
          \/ /\ "manifest" \notin Bundle(k, dest[k]).files
             /\ Launch(l, "refused")
             /\ UNCHANGED admitted
  /\ UNCHANGED <<pairVars, candidates, ran>>

ExecutableMatches(l) ==
  "exe" \in Published(l).files /\ Published(l).exe = admitted[l]

\* ... and compares the executable's hash;
HashAdmitted(l) ==
  /\ lpc[l] = "hash"
  /\ IF ExecutableMatches(l) THEN Launch(l, "recheck") ELSE Launch(l, "refused")
  /\ UNCHANGED <<pairVars, candidates, target, admitted, ran>>

\* recheck_executable_integrity does so again once the session is prepared.
RecheckExecutable(l) ==
  /\ lpc[l] = "recheck"
  /\ IF ExecutableMatches(l) THEN Launch(l, "spawn") ELSE Launch(l, "refused")
  /\ UNCHANGED <<pairVars, candidates, target, admitted, ran>>

\* launcher.spawn executes whatever stands at the path by then.
Spawn(l) ==
  /\ lpc[l] = "spawn"
  /\ \/ /\ "exe" \in Published(l).files
        /\ ran' = [ran EXCEPT ![l] = Published(l).exe]
        /\ Launch(l, "ran")
     \/ /\ "exe" \notin Published(l).files
        /\ Launch(l, "refused")
        /\ UNCHANGED ran
  /\ UNCHANGED <<pairVars, candidates, target, admitted>>

-----------------------------------------------------------------------------
BuildSource(b) ==
  \/ Configure(b)
  \/ BuildManagedRunner(b)
  \/ EnsureLockfileUnchanged(b)
  \/ HashBefore(b)
  \/ ProbeArtifact(b)
  \/ HashAfter(b)
  \/ EnsureRuntimeDirectories(b)
  \/ StageExecutable(b)
  \/ StageManifest(b)
  \/ Publish(b) /\ UNCHANGED <<candidates, launchVars>>
  \/ Kill(b) /\ UNCHANGED <<candidates, launchVars>>

LaunchData(l) ==
  ReadManifest(l) \/ HashAdmitted(l) \/ RecheckExecutable(l) \/ Spawn(l)

Disturb == \E k \in Kinds : EditLockfile(k) \/ \E b \in Builds : TouchArtifact(b, k)

Next ==
  \/ \E b \in Builds : BuildSource(b)
  \/ \E l \in Launches : LaunchData(l)
  \/ Disturb

Spec == Init /\ [][Next]_vars

-----------------------------------------------------------------------------
(* Properties                                                              *)

\* The bundle that stood at k's destination when b began to publish has all
\* it had then, at its destination or at its backup path.
PreviousAtHand(b, k) ==
  LET d == before[b][k].at IN
  d # Absent => /\ d \in {dest[k], backup[b][k]}
                /\ content[k][d].files = before[b][k].files

\* Until a publication commits, each bundle it found in place is at hand:
\* whatever fails, and wherever the build is killed, the previous pair can be
\* put back; a build killed later leaves its own pair complete
\* (runtime_bundle_replacement.rs).  Builds that publish side by side are
\* excluded: nothing keeps them apart.
PreviousBundleKept ==
  \A b \in Builds \ overlap :
    pc[b] \in (Publishing \ Committed) \cup {"failed", "killed"} /\ latest = b =>
      \/ \A k \in Kinds : PreviousAtHand(b, k)
      \/ pc[b] = "killed" /\ \A k \in Kinds : dest[k] = Staged(b)

\* As when b began to publish; where nothing stood, another build may have made
\* an empty directory meanwhile.
AsBefore(b, k) ==
  LET d == before[b][k].at IN
  dest[k] = d \/ (d = Absent /\ MayReplace(k, dest[k]))

\* A build publishes both bundles or none: an error leaves both destinations as
\* they were, unless a sync, a restore or a put-back failed (or the removal of
\* a bundle that stands where nothing stood before), and a success leaves its
\* own acquisition bundle, complete, beside its own processing bundle, also
\* when an earlier build was killed half way (runtime_pair.rs), both resolved
\* with the lockfiles the build saw at its start, unless one was edited and the
\* edit taken back meanwhile: contents are all that ensure_lockfile_unchanged
\* compares.
PublicationAllOrNothing ==
  \A b \in Builds \ overlap : latest = b =>
    /\ pc[b] = "failed" /\ b \notin damage => \A k \in Kinds : AsBefore(b, k)
    /\ pc[b] = "ok" =>
         /\ \A k \in Kinds :
              locked[b][k] = seen[b][k] \/ <<"lockfile", b, k>> \in undone
         /\ \A k \in Kinds : dest[k] = Staged(b) /\ content[k][dest[k]].files = Files

\* Nothing an earlier build left behind, killed or failed at any step, makes a
\* later one fail that meets no fault of its own.
LeftoversHarmless ==
  \A b \in Builds \ (FaultProne \cup SyncProne \cup overlap) :
    pc[b] = "failed" => touches > 0

\* A launch only ever executes bytes that were there before, or that a build
\* hashed before it probed its executable and found unchanged afterwards,
\* although the path is looked up again after the last check.  They are the bytes
\* the probe ran, unless others were swapped in for the probe and out again
\* before the second hash (verify_http_runtime_candidate_owned).
LaunchRunsVerifiedBytes ==
  \A l \in Launches :
    lpc[l] = "ran" =>
      \/ ran[l] = NoBytes
      \/ \E b \in Builds :
           /\ ran[l] = hashed[b][target[l]]
           /\ \/ ran[l] = probed[b][target[l]]
              \/ <<"artifact", b, target[l]>> \in undone

=============================================================================
