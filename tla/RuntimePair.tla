----------------------------- MODULE RuntimePair -----------------------------
(***************************************************************************)
(* Publication of the two runtime bundles of a source:                     *)
(* publish_runtime_pair (publication/runtime_pair.rs) over                 *)
(* PreparedRuntimeBundleReplacement (publication/                          *)
(* runtime_bundle_replacement.rs).                                         *)
(*                                                                         *)
(* A directory has an identity that survives a rename; `dest`, `backup`    *)
(* and `stage` say which directory stands under which path.  Any number of *)
(* builds may publish to the same two destinations: nothing locks them.    *)
(* Every file operation is a step; it may fail and the build may be killed *)
(* at it.                                                                  *)
(***************************************************************************)
EXTENDS Naturals, Sequences

CONSTANTS
  Builds,     (* the `lexicon build` invocations of one source             *)
  FaultProne, (* the builds whose renames, removals and reads may fail     *)
  SyncProne,  (* the builds whose sync of a parent directory may fail      *)
  Killable,   (* the builds that may be killed                             *)
  None        (* no build                                                  *)

ASSUME PublicationAssumption ==
  /\ FaultProne \subseteq Builds
  /\ SyncProne \subseteq Builds
  /\ Killable \subseteq Builds
  /\ None \notin Builds

Kinds == {"acquisition", "processing"}

\* The bytes of an executable: those before any build, those cargo produced
\* for a build, or those after somebody touched the artifact.
Bytes == {"original", "touched", "built"} \X (Builds \cup {None})

\* What a path names: nothing, the directory found at the beginning, one made
\* by create_dir_all, or one staged.
Absent == <<"absent", None>>
Original == <<"original", None>>
Staged(b) == <<"staged", b>>
Made(b) == <<"made", b>>
Directories == {Original} \cup {Staged(b) : b \in Builds} \cup {Made(b) : b \in Builds}

\* A directory's files, its executable's bytes and the digest in its manifest.
Files == {"exe", "manifest"}
Scaffold == {"ignore"}   \* what `source create` leaves: a .gitignore
EmptyBundle == [files |-> {}, exe |-> <<"original", None>>,
                digest |-> <<"original", None>>]
Bundles == [files : SUBSET (Files \cup Scaffold), exe : Bytes, digest : Bytes]

VARIABLES
  dest,     \* kind -> directory at the published path
  backup,   \* build -> kind -> directory at its backup path
  stage,    \* build -> kind -> directory at its staging path
  content,  \* kind -> directory -> bundle
  pc,       \* build -> next step
  side,     \* build -> kind that step is about
  undo,     \* build -> kinds still to roll back
  before,   \* history: build -> kind -> destination when publication began
  latest,   \* history: the build that began to publish last
  overlap,  \* history: the builds that published beside another
  damage    \* history: the builds with a failed sync, restore or put-back, or
            \* a failed removal where there was nothing to put back

paths   == <<dest, backup, stage, content>>
control == <<pc, side, undo>>
history == <<before, latest, overlap, damage>>
pairVars == <<paths, control, history>>

Publishing == {"admitStaged", "inspect", "moveAway", "install", "restore",
               "discard", "sync", "admit", "cleanup",
               "remove", "putBack"}
Committed  == {"cleanup", "ok"}
Finished   == {"ok", "failed", "killed"}

Goto(b, next) == pc' = [pc EXCEPT ![b] = next]
GotoFor(b, next, k) == Goto(b, next) /\ side' = [side EXCEPT ![b] = k]
Bundle(k, d) == IF d = Absent THEN EmptyBundle ELSE content[k][d]

\* rename(2) of a directory: the target is missing or an empty directory.
MayReplace(k, d) == Bundle(k, d).files = {}

PairInit ==
  /\ dest = [k \in Kinds |-> Original]
  /\ backup = [b \in Builds |-> [k \in Kinds |-> Absent]]
  /\ stage = [b \in Builds |-> [k \in Kinds |-> Absent]]
  /\ \E found \in {Files, Scaffold} :
       content = [k \in Kinds |-> [d \in Directories |->
          [EmptyBundle EXCEPT !.files = IF d = Original THEN found ELSE {}]]]
  /\ side = [b \in Builds |-> "acquisition"]
  /\ undo = [b \in Builds |-> <<>>]
  /\ before = [b \in Builds |-> [k \in Kinds |-> [at |-> Absent, files |-> {}]]]
  /\ latest = None
  /\ overlap = {}
  /\ damage = {}

-----------------------------------------------------------------------------
(* Errors.  The StagedRuntimeBundles a build still owns are TempDirs and go *)
(* with the error; a replacement already prepared is rolled back first.    *)

\* The ? operator: drop the staged bundles in `owned`, return the error.
Abort(b, owned) ==
  /\ stage' = [stage EXCEPT ![b] =
       [k \in Kinds |-> IF k \in owned THEN Absent ELSE stage[b][k]]]
  /\ Goto(b, "failed")

Rollback(b, kinds) ==
  /\ undo' = [undo EXCEPT ![b] = kinds]
  /\ Goto(b, "remove")

\* A mutant: the acquisition replacement is not undone when processing fails.
PrepareGivesUp(b, k, leftover) ==
  /\ stage' = [stage EXCEPT ![b][k] = leftover]
  /\ Goto(b, "failed")
  /\ UNCHANGED undo

\* An error of prepare_runtime_bundle_replacement for kind k: the other
\* staged bundle is dropped, or the acquisition replacement undone.
PrepareFails(b, k, leftover) ==
  \/ /\ k = "acquisition"
     /\ stage' = [stage EXCEPT ![b] =
          [acquisition |-> leftover, processing |-> Absent]]
     /\ Goto(b, "failed")
     /\ UNCHANGED undo
  \/ /\ k = "processing"
     /\ stage' = [stage EXCEPT ![b].processing = leftover]
     /\ Rollback(b, <<"acquisition">>)

-----------------------------------------------------------------------------
(* publish_runtime_pair                                                    *)

\* validate_destination_pair and the checks of the expected identities.
BeginPublication(b) ==
  /\ pc[b] = "publish"
  /\ before' = [before EXCEPT ![b] = [k \in Kinds |->
       [at |-> dest[k], files |-> Bundle(k, dest[k]).files]]]
  /\ latest' = b
  /\ LET beside == {c \in Builds \ {b} : pc[c] \in Publishing} IN
     overlap' = IF beside = {} THEN overlap ELSE overlap \cup beside \cup {b}
  /\ GotoFor(b, "admitStaged", "acquisition")
  /\ UNCHANGED <<paths, undo, damage>>

\* admit_http_runtime_bundle and admit_processing_runtime_bundle: the two
\* files, nothing else, and an executable with the manifest's digest.
OnlyBundleFiles(bundle) == bundle.files = Files
Admissible(bundle) == OnlyBundleFiles(bundle) /\ bundle.exe = bundle.digest

AdmitStaged(b) ==
  /\ pc[b] = "admitStaged"
  /\ LET k == side[b] IN
     \/ /\ Admissible(Bundle(k, stage[b][k]))
        /\ IF k = "acquisition" THEN GotoFor(b, "admitStaged", "processing")
                                ELSE GotoFor(b, "inspect", "acquisition")
        /\ UNCHANGED stage
     \/ /\ b \in FaultProne \/ ~Admissible(Bundle(k, stage[b][k]))
        /\ Abort(b, Kinds)
        /\ UNCHANGED side
  /\ UNCHANGED <<dest, backup, content, undo, history>>

-----------------------------------------------------------------------------
(* prepare_runtime_bundle_replacement_for_staged_directory, for side[b].   *)

\* The staging directory is now kept (TempDir::keep): no error before the
\* rename removes it.  The destination's parent and the destination are
\* directories, or an error.
Inspect(b) ==
  /\ pc[b] = "inspect"
  /\ LET k == side[b] IN
     \/ /\ Goto(b, IF dest[k] = Absent THEN "install" ELSE "moveAway")
        /\ UNCHANGED <<stage, undo>>
     \/ /\ b \in FaultProne
        /\ PrepareFails(b, k, stage[b][k])
  /\ UNCHANGED <<dest, backup, content, side, history>>

\* A mutant: the backup path is the same for every build.
MoveAwayToFixedPath(b) ==
  /\ pc[b] = "moveAway"
  /\ LET k == side[b]
         free == \A c \in Builds : backup[c][k] = Absent IN
     \/ /\ dest[k] # Absent /\ free
        /\ backup' = [backup EXCEPT ![b][k] = dest[k]]
        /\ dest' = [dest EXCEPT ![k] = Absent]
        /\ Goto(b, "install")
        /\ UNCHANGED <<stage, undo>>
     \/ /\ b \in FaultProne \/ dest[k] = Absent \/ ~free
        /\ PrepareFails(b, k, stage[b][k])
        /\ UNCHANGED <<dest, backup>>
  /\ UNCHANGED <<content, side, history>>

\* rename(destination, backup); a destination that is gone by now is an error.
MoveAway(b) ==
  /\ pc[b] = "moveAway"
  /\ LET k == side[b] IN
     \/ /\ dest[k] # Absent
        /\ backup' = [backup EXCEPT ![b][k] = dest[k]]
        /\ dest' = [dest EXCEPT ![k] = Absent]
        /\ Goto(b, "install")
        /\ UNCHANGED <<stage, undo>>
     \/ /\ b \in FaultProne \/ dest[k] = Absent
        /\ PrepareFails(b, k, stage[b][k])
        /\ UNCHANGED <<dest, backup>>
  /\ UNCHANGED <<content, side, history>>

\* rename(staging directory, destination)
Install(b) ==
  /\ pc[b] = "install"
  /\ LET k == side[b] IN
     \/ /\ MayReplace(k, dest[k])
        /\ dest' = [dest EXCEPT ![k] = stage[b][k]]
        /\ stage' = [stage EXCEPT ![b][k] = Absent]
        /\ Goto(b, "sync")
     \/ /\ b \in FaultProne \/ ~MayReplace(k, dest[k])
        /\ Goto(b, IF backup[b][k] = Absent THEN "discard" ELSE "restore")
        /\ UNCHANGED <<dest, stage>>
  /\ UNCHANGED <<backup, content, side, undo, history>>

\* The staged bundle could not be moved in: rename(backup, destination).
Restore(b) ==
  /\ pc[b] = "restore"
  /\ LET k == side[b] IN
     \/ /\ MayReplace(k, dest[k])
        /\ dest' = [dest EXCEPT ![k] = backup[b][k]]
        /\ backup' = [backup EXCEPT ![b][k] = Absent]
        /\ UNCHANGED damage
     \/ /\ b \in FaultProne \/ ~MayReplace(k, dest[k])
        /\ damage' = damage \cup {b}
        /\ UNCHANGED <<dest, backup>>
  /\ Goto(b, "discard")
  /\ UNCHANGED <<stage, content, side, undo, before, latest, overlap>>

\* remove_dir_all(staging directory), its result ignored.
Discard(b) ==
  /\ pc[b] = "discard"
  /\ LET k == side[b] IN
     \E leftover \in IF b \in FaultProne THEN {Absent, stage[b][k]} ELSE {Absent} :
       PrepareFails(b, k, leftover)
  /\ UNCHANGED <<dest, backup, content, side, history>>

\* sync_parent_if_supported, after which the replacement is Prepared.  When
\* the sync fails the error is returned and nothing is undone.
SyncParent(b) ==
  /\ pc[b] = "sync"
  /\ LET k == side[b] IN
     \/ /\ IF k = "acquisition" THEN GotoFor(b, "inspect", "processing")
                                ELSE GotoFor(b, "admit", "acquisition")
        /\ UNCHANGED <<stage, undo, damage>>
     \/ /\ b \in SyncProne
        /\ damage' = damage \cup {b}
        /\ PrepareFails(b, k, Absent)
        /\ UNCHANGED side
  /\ UNCHANGED <<dest, backup, content, before, latest, overlap>>

-----------------------------------------------------------------------------
(* Both are Prepared: admit what now stands at the destinations.           *)

\* A mutant: the acquisition backup goes as soon as its own bundle is admitted.
AdmitAndClean(b) ==
  /\ pc[b] = "admit"
  /\ LET k == side[b] IN
     \/ /\ Admissible(Bundle(k, dest[k]))
        /\ backup' = [backup EXCEPT ![b][k] = Absent]
        /\ IF k = "acquisition" THEN GotoFor(b, "admit", "processing")
                                ELSE GotoFor(b, "cleanup", "acquisition")
        /\ UNCHANGED undo
     \/ /\ b \in FaultProne \/ ~Admissible(Bundle(k, dest[k]))
        /\ Rollback(b, <<"processing", "acquisition">>)
        /\ UNCHANGED <<side, backup>>
  /\ UNCHANGED <<dest, stage, content, history>>

Admit(b) ==
  /\ pc[b] = "admit"
  /\ LET k == side[b] IN
     \/ /\ Admissible(Bundle(k, dest[k]))
        /\ IF k = "acquisition" THEN GotoFor(b, "admit", "processing")
                                ELSE GotoFor(b, "cleanup", "acquisition")
        /\ UNCHANGED undo
     \/ /\ b \in FaultProne \/ ~Admissible(Bundle(k, dest[k]))
        /\ Rollback(b, <<"processing", "acquisition">>)
        /\ UNCHANGED side
  /\ UNCHANGED <<paths, history>>

\* cleanup_backup of the committed replacement: remove_dir_all, one entry
\* after the other and then the directory, and a sync of the parent; an
\* error is only a warning.
Cleaned(b) ==
  IF side[b] = "acquisition" THEN GotoFor(b, "cleanup", "processing")
                             ELSE Goto(b, "ok") /\ UNCHANGED side

Cleanup(b) ==
  /\ pc[b] = "cleanup"
  /\ LET k == side[b]
         d == backup[b][k] IN
     \/ /\ d # Absent
        /\ \E f \in content[k][d].files :
             content' = [content EXCEPT ![k][d].files = @ \ {f}]
        /\ UNCHANGED <<backup, pc, side>>
     \/ /\ Bundle(k, d).files = {}
        /\ backup' = [backup EXCEPT ![b][k] = Absent]
        /\ Cleaned(b)
        /\ UNCHANGED content
     \/ /\ b \in FaultProne
        /\ Cleaned(b)
        /\ UNCHANGED <<backup, content>>
  /\ UNCHANGED <<dest, stage, undo, history>>

-----------------------------------------------------------------------------
(* rollback_published_bundle, for the first kind in undo[b].  Its error is  *)
(* reported but stops nothing, nor does the failure of the last sync.      *)

NextUndo(b) ==
  /\ undo' = [undo EXCEPT ![b] = Tail(@)]
  /\ Goto(b, IF Len(undo[b]) = 1 THEN "failed" ELSE "remove")

\* remove_dir_all(destination), its result ignored.
Remove(b) ==
  /\ pc[b] = "remove"
  /\ LET k == Head(undo[b])
         d == dest[k] IN
     \/ /\ d # Absent
        /\ \E f \in content[k][d].files :
             content' = [content EXCEPT ![k][d].files = @ \ {f}]
        /\ UNCHANGED <<dest, pc, damage>>
     \/ /\ Bundle(k, d).files = {}
        /\ dest' = [dest EXCEPT ![k] = Absent]
        /\ Goto(b, "putBack")
        /\ UNCHANGED <<content, damage>>
     \/ /\ b \in FaultProne
        /\ damage' = IF backup[b][k] = Absent THEN damage \cup {b} ELSE damage
        /\ Goto(b, "putBack")
        /\ UNCHANGED <<dest, content>>
  /\ UNCHANGED <<backup, stage, side, undo, before, latest, overlap>>

\* rename(backup, destination)
PutBack(b) ==
  /\ pc[b] = "putBack"
  /\ LET k == Head(undo[b]) IN
     \/ /\ backup[b][k] = Absent
        /\ UNCHANGED <<dest, backup, damage>>
     \/ /\ backup[b][k] # Absent
        /\ MayReplace(k, dest[k])
        /\ dest' = [dest EXCEPT ![k] = backup[b][k]]
        /\ backup' = [backup EXCEPT ![b][k] = Absent]
        /\ UNCHANGED damage
     \/ /\ backup[b][k] # Absent
        /\ b \in FaultProne \/ ~MayReplace(k, dest[k])
        /\ damage' = damage \cup {b}
        /\ UNCHANGED <<dest, backup>>
  /\ NextUndo(b)
  /\ UNCHANGED <<stage, content, side, before, latest, overlap>>

Publish(b) ==
  \/ BeginPublication(b)
  \/ AdmitStaged(b)
  \/ Inspect(b)
  \/ MoveAway(b)
  \/ Install(b)
  \/ Restore(b)
  \/ Discard(b)
  \/ SyncParent(b)
  \/ Admit(b)
  \/ Cleanup(b)
  \/ Remove(b)
  \/ PutBack(b)

\* The build is killed; what its TempDirs and replacements hold stays.
Kill(b) ==
  /\ b \in Killable
  /\ pc[b] \notin Finished \cup {"start"}
  /\ Goto(b, "killed")
  /\ UNCHANGED <<paths, side, undo, history>>
=============================================================================
