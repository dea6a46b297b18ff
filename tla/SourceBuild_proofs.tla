-------------------------- MODULE SourceBuild_proofs --------------------------
(***************************************************************************)
(* Proofs about SourceBuild and RuntimePair, for any number of builds and  *)
(* launches, any of the builds killable and prone to faults:               *)
(* PreviousBundleKept, PublicationAllOrNothing, LeftoversHarmless and      *)
(* LaunchRunsVerifiedBytes.                                                *)
(***************************************************************************)
EXTENDS SourceBuild, TLAPS

Early == {"start", "cargo", "locked", "hash", "probe", "rehash", "dirs",
          "stage", "manifest"}
Ended == {"failed", "killed"}
PCs == Early \cup {"publish"} \cup Publishing \cup Finished

Anywhere == Directories \cup {Absent}
UndoLists == {<<>>, <<"acquisition">>, <<"processing", "acquisition">>}

Types ==
  /\ dest \in [Kinds -> Anywhere]
  /\ backup \in [Builds -> [Kinds -> Anywhere]]
  /\ stage \in [Builds -> [Kinds -> Anywhere]]
  /\ content \in [Kinds -> [Directories -> Bundles]]
  /\ pc \in [Builds -> PCs]
  /\ side \in [Builds -> Kinds]
  /\ undo \in [Builds -> UndoLists]
  /\ before \in [Builds -> [Kinds -> [at : Anywhere,
                                      files : SUBSET (Files \cup Scaffold)]]]
  /\ overlap \subseteq Builds /\ damage \subseteq Builds
  /\ lockfile \in [Kinds -> Contents]
  /\ seen \in [Builds -> [Kinds -> Contents]]
  /\ locked \in [Builds -> [Kinds -> Contents]]
  /\ artifact \in [Builds -> [Kinds -> Bytes]]
  /\ hashed \in [Builds -> [Kinds -> Bytes]]
  /\ probed \in [Builds -> [Kinds -> Bytes]]
  /\ touches \in Nat
  /\ lpc \in [Launches -> {"start", "hash", "recheck", "spawn", "ran", "refused"}]
  /\ target \in [Launches -> Kinds]
  /\ ran \in [Launches -> Bytes]

-----------------------------------------------------------------------------
(* From the lockfiles to the staged bundles: what a build has of its own   *)

\* The steps of a build go over acquisition first.
Past(b, k) == k = "acquisition" /\ side[b] = "processing"

Compiled(b, k) ==
  /\ pc[b] \notin {"start"} \cup Ended
  /\ pc[b] = "cargo" => Past(b, k)

Checked(b, k) ==
  /\ pc[b] \notin {"start", "cargo", "locked"} \cup Ended
  /\ pc[b] \in {"hash", "probe", "rehash"} => Past(b, k)

\* What cargo resolved with is what the build saw, what it probed is what it
\* hashed, or somebody changed it and put it back.
Resolved(b, k) ==
  locked[b][k] = seen[b][k] \/ <<"lockfile", b, k>> \in undone
Vouched(b, k) ==
  probed[b][k] = hashed[b][k] \/ <<"artifact", b, k>> \in undone

Locks(b) ==
  /\ touches = 0 => \A k \in Kinds : lockfile[k] = "resolved" /\ seen[b][k] = "resolved"
  /\ \A k \in Kinds :
       Compiled(b, k) /\ pc[b] \in {"cargo", "locked"} /\ lockfile[k] = seen[b][k] =>
         Resolved(b, k)
  /\ pc[b] \notin {"start", "cargo", "locked"} \cup Ended =>
       \A k \in Kinds : Resolved(b, k)
  /\ pc[b] = "locked" => side[b] = "acquisition"

Built(b) == <<"built", b>>

\* Nobody touched it before the first edit.
Artifact(b) ==
  /\ \A k \in Kinds : Compiled(b, k) /\ touches = 0 => artifact[b][k] = Built(b)
  /\ pc[b] \in {"probe", "rehash"} /\ touches = 0 => hashed[b][side[b]] = Built(b)
  /\ pc[b] = "rehash" /\ artifact[b][side[b]] = hashed[b][side[b]] =>
       Vouched(b, side[b])
  /\ \A k \in Kinds : Checked(b, k) =>
       /\ Vouched(b, k)
       /\ touches = 0 => hashed[b][k] = Built(b)

Placed(k, d) == d = dest[k] \/ \E c \in Builds : d = backup[c][k]

\* What stands under a published or a backup path has the bytes its build
\* verified, and its manifest says so.
Honest(b, k) ==
  LET staged == content[k][Staged(b)]
  IN  /\ staged.exe = hashed[b][k] /\ staged.digest = hashed[b][k]
      /\ Vouched(b, k)

Complete(b, k) == content[k][Staged(b)].files = Files /\ Honest(b, k)

\* The build still has its staged bundle of this kind.
Held(b, k) ==
  \/ pc[b] \in {"stage", "manifest"} /\ Past(b, k)
  \/ pc[b] \in {"publish", "admitStaged"}
  \/ pc[b] \in {"inspect", "moveAway", "install"} /\ ~ Past(b, k)
  \/ pc[b] = "sync" /\ k = "processing" /\ side[b] = "acquisition"

Staging(b) ==
  /\ pc[b] = "manifest" =>
       LET k == side[b] IN
       /\ stage[b][k] = Staged(b)
       /\ touches = 0 => content[k][Staged(b)].exe = Built(b)
  /\ \A k \in Kinds :
       /\ stage[b][k] \in {Absent, Staged(b)}
       /\ Held(b, k) => stage[b][k] = Staged(b) /\ Complete(b, k)
       /\ Placed(k, Staged(b)) =>
            stage[b][k] = Absent /\ pc[b] \notin Early /\ Honest(b, k)
       /\ before[b][k].at # Staged(b)

\* Nobody fills a directory that was found, or made by create_dir_all.
Others ==
  \A k \in Kinds :
    /\ content[k][Original].exe = NoBytes
    /\ \A c \in Builds : content[k][Made(c)].files = {}
                         /\ content[k][Made(c)].exe = NoBytes

\* A launch that ran something ran what stood there before or what a build had
\* verified for good.
Launched(l) ==
  /\ lpc[l] = "start" => ran[l] = NoBytes
  /\ \/ ran[l] = NoBytes
     \/ \E b \in Builds : /\ pc[b] \notin Early /\ ran[l] = hashed[b][target[l]]
                            /\ Vouched(b, target[l])

-----------------------------------------------------------------------------
(* The publication of a build no other published beside                    *)

Alone(b) == latest = b /\ b \notin overlap

Empties == {Absent} \cup {Made(c) : c \in Builds}

\* d is what stood at the destination when b began; where nothing stood it is
\* nothing or an empty directory.
Stood(b, k, d) ==
  LET a == before[b][k].at IN d = a \/ (a = Absent /\ d \in Empties)

\* Where the bundle of one kind is.
Untouched(b, k) == Stood(b, k, dest[k]) /\ backup[b][k] = Absent
Away(b, k) ==
  /\ Stood(b, k, backup[b][k]) /\ backup[b][k] # Absent
  /\ dest[k] \in Empties
Ready(b, k) == Away(b, k) \/ (Untouched(b, k) /\ before[b][k].at = Absent)
Installed(b, k) == dest[k] = Staged(b) /\ Stood(b, k, backup[b][k])
Removed(b, k) ==
  /\ Stood(b, k, backup[b][k])
  /\ \/ dest[k] \in Empties
     \/ dest[k] = Staged(b) /\ (backup[b][k] = Absent => b \in damage)
AtHand(b, k) == Stood(b, k, dest[k]) \/ Stood(b, k, backup[b][k])
Settled(b, k) == Untouched(b, k) \/ (b \in damage /\ AtHand(b, k))

Kept(b, k) ==
  LET a == before[b][k].at
  IN  a # Absent => content[k][a].files = before[b][k].files

Forward == {"inspect", "moveAway", "install", "restore", "discard", "sync"}

\* Where the kind a forward step is about is.
AtSide(b, k) ==
  /\ pc[b] = "inspect"  => Untouched(b, k)
  /\ pc[b] = "moveAway" => Untouched(b, k) /\ dest[k] # Absent
  /\ pc[b] = "install"  => Ready(b, k)
  /\ pc[b] = "restore"  => Away(b, k)
  /\ pc[b] = "discard"  => Settled(b, k)
  /\ pc[b] = "sync"     => Installed(b, k) /\ Complete(b, k)

\* Where both kinds are.
Position(b, k) ==
  /\ pc[b] = "admitStaged" => Untouched(b, k)
  /\ pc[b] \in Forward =>
       /\ k = side[b] => AtSide(b, k)
       /\ k # side[b] => IF Past(b, k) THEN Installed(b, k) /\ Complete(b, k)
                                       ELSE Untouched(b, k)
  /\ pc[b] = "admit" => Installed(b, k) /\ Complete(b, k)
  /\ pc[b] \in {"cleanup", "ok"} =>
       dest[k] = Staged(b) /\ backup[b][k] # Staged(b) /\ Complete(b, k)
  /\ pc[b] \in {"remove", "putBack"} =>
       IF undo[b] = <<"acquisition">> /\ k = "processing" THEN Settled(b, k)
       ELSE IF pc[b] = "putBack" /\ k = Head(undo[b]) THEN Removed(b, k)
       ELSE Installed(b, k)
  /\ pc[b] = "failed" => Settled(b, k)

\* A rollback has something left to undo; there is nothing to undo before a
\* publication.
Undoing(b) ==
  /\ pc[b] \in {"remove", "putBack"} => undo[b] # <<>>
  /\ pc[b] \in Early \cup {"publish"} => \A k \in Kinds : backup[b][k] = Absent

Publication(b) ==
  /\ \A k \in Kinds : Position(b, k)
  /\ pc[b] \notin {"cleanup", "ok", "killed"} =>
       \A k \in Kinds : Kept(b, k) /\ AtHand(b, k)
  /\ pc[b] = "killed" =>
       \/ \A k \in Kinds : Kept(b, k) /\ AtHand(b, k)
       \/ \A k \in Kinds : dest[k] = Staged(b)

Sole(b) ==
  /\ Alone(b) => \A c \in Builds \ {b} : pc[c] \notin Publishing
  /\ latest = b => pc[b] \notin Early \cup {"publish"}
  /\ pc[b] \in Publishing /\ b \notin overlap => latest = b

\* A build without faults of its own never turns back.
Harmless(b) ==
  b \notin FaultProne \cup SyncProne \cup overlap =>
    /\ pc[b] \notin {"restore", "discard", "remove", "putBack"}
    /\ pc[b] = "failed" => touches > 0

BuildInv(b) ==
  /\ Locks(b) /\ Artifact(b) /\ Staging(b)
  /\ Sole(b) /\ Undoing(b) /\ Harmless(b)
  /\ Alone(b) => Publication(b)

IInv ==
  /\ Types /\ Others
  /\ \A b \in Builds : BuildInv(b)
  /\ \A l \in Launches : Launched(l)

-----------------------------------------------------------------------------
(* Directories and bytes                                                   *)

LEMMA Distinct ==
  /\ Absent \notin Directories /\ Absent # Original
  /\ Original \in Directories
  /\ \A b \in Builds : /\ Staged(b) \in Directories /\ Made(b) \in Directories
                       /\ Staged(b) # Absent /\ Made(b) # Absent
                       /\ Staged(b) # Original /\ Made(b) # Original
                       /\ Staged(b) \notin Empties
  /\ \A b, c \in Builds : /\ Staged(b) # Made(c)
                          /\ b # c => Staged(b) # Staged(c)
  /\ Empties \subseteq Anywhere /\ Directories \subseteq Anywhere
  /\ Absent \in Anywhere /\ Absent \in Empties
  BY DEF Absent, Original, Staged, Made, Directories, Empties, Anywhere

LEMMA DirectoryKinds ==
  ASSUME NEW d \in Directories
  PROVE  d = Original \/ \E b \in Builds : d = Staged(b) \/ d = Made(b)
  BY DEF Directories

LEMMA BytesOf ==
  /\ NoBytes \in Bytes
  /\ \A b \in Builds : Built(b) \in Bytes
  BY DEF NoBytes, Bytes, Built

LEMMA TwoKinds ==
  /\ "acquisition" \in Kinds /\ "processing" \in Kinds
  /\ \A k \in Kinds : k = "acquisition" \/ k = "processing"
  BY DEF Kinds

\* A rollback undoes processing, then acquisition.
LEMMA UndoOrder ==
  LET one == <<"acquisition">>  two == <<"processing", "acquisition">>
  IN  /\ one # <<>> /\ Head(one) = "acquisition" /\ Len(one) = 1 /\ Tail(one) = <<>>
      /\ two # <<>> /\ Head(two) = "processing" /\ Len(two) = 2 /\ Tail(two) = one
      /\ two # one
<1>1. Len(<<>>) = 0 /\ Len(<<"acquisition">>) = 1
      /\ Len(<<"processing", "acquisition">>) = 2
  OBVIOUS
<1>2. /\ Head(<<"acquisition">>) = "acquisition"
      /\ Head(<<"processing", "acquisition">>) = "processing"
  OBVIOUS
<1>3. Tail(<<"acquisition">>) = <<>>
  OBVIOUS
<1>4. Tail(<<"processing", "acquisition">>) = <<"acquisition">>
  OBVIOUS
<1>5. QED
  BY <1>1, <1>2, <1>3, <1>4

\* Nothing is in the way of a rename to a destination where nothing stands, or
\* only what create_dir_all made.
LEMMA EmptiesMayBeReplaced ==
  ASSUME Others, NEW k \in Kinds, NEW d \in Empties
  PROVE  MayReplace(k, d)
  BY Distinct DEF Others, Empties, MayReplace, Bundle, EmptyBundle

\* Whatever stands there, a build still has at hand what it found.
LEMMA AlwaysAtHand ==
  ASSUME NEW b \in Builds, NEW k \in Kinds,
         \/ Untouched(b, k) \/ Away(b, k) \/ Ready(b, k) \/ Installed(b, k)
         \/ Removed(b, k) \/ Settled(b, k)
  PROVE  AtHand(b, k)
  BY DEF Untouched, Away, Ready, Installed, Removed, Settled, AtHand

\* What it has at hand, if anything stood there, is placed.
LEMMA AtHandIsPlaced ==
  ASSUME NEW b \in Builds, NEW k \in Kinds, AtHand(b, k),
         before[b][k].at # Absent
  PROVE  Placed(k, before[b][k].at)
  BY DEF AtHand, Stood, Placed

-----------------------------------------------------------------------------
(* What a step of one build leaves alone for another                       *)

SameOwn(c) ==
  /\ pc'[c] = pc[c] /\ side'[c] = side[c] /\ undo'[c] = undo[c]
  /\ stage'[c] = stage[c] /\ backup'[c] = backup[c] /\ before'[c] = before[c]
  /\ seen'[c] = seen[c] /\ locked'[c] = locked[c]
  /\ artifact'[c] = artifact[c] /\ hashed'[c] = hashed[c]
  /\ probed'[c] = probed[c] /\ undone' = undone

\* The verdict of the verification stands.
Verified(b) ==
  hashed'[b] = hashed[b] /\ probed'[b] = probed[b] /\ undone \subseteq undone'

LEMMA OtherCandidates ==
  ASSUME NEW c \in Builds, SameOwn(c), lockfile' = lockfile,
         touches' = touches, Locks(c), Artifact(c), Undoing(c)
  PROVE  Locks(c)' /\ Artifact(c)' /\ Undoing(c)'
  BY DEF SameOwn, Locks, Artifact, Compiled, Checked, Past, Undoing, Built, Resolved, Vouched

\* The staged bundles of others are not brought to any path, and what is taken
\* from a directory is taken from one that is placed.
StagedApart(c) ==
  \A k \in Kinds :
    /\ Placed(k, Staged(c))' => Placed(k, Staged(c))
    /\ content'[k][Staged(c)].exe = content[k][Staged(c)].exe
    /\ content'[k][Staged(c)].digest = content[k][Staged(c)].digest
    /\ ~ Placed(k, Staged(c)) => content'[k][Staged(c)] = content[k][Staged(c)]

LEMMA OtherStaging ==
  ASSUME NEW c \in Builds, SameOwn(c), StagedApart(c), touches' = touches,
         side[c] \in Kinds, pc[c] = "manifest" => pc[c] \in Early, Staging(c)
  PROVE  Staging(c)'
<1>1. pc[c] = "manifest" =>
        LET k == side[c] IN
        /\ stage'[c][k] = Staged(c)
        /\ touches = 0 => content'[k][Staged(c)].exe = Built(c)
  BY DEF Staging, SameOwn, StagedApart
<1>2. ASSUME NEW k \in Kinds
      PROVE  /\ stage'[c][k] \in {Absent, Staged(c)}
             /\ Held(c, k)' => stage'[c][k] = Staged(c) /\ Complete(c, k)'
             /\ Placed(k, Staged(c))' =>
                  stage'[c][k] = Absent /\ pc'[c] \notin Early /\ Honest(c, k)'
             /\ before'[c][k].at # Staged(c)
  <2>1. Held(c, k)' <=> Held(c, k)
    BY DEF SameOwn, Held, Past
  <2>2. Honest(c, k) => Honest(c, k)'
    BY DEF SameOwn, StagedApart, Honest, Vouched, Verified
  <2>3. ASSUME Held(c, k) PROVE Complete(c, k)'
    <3>1. stage[c][k] = Staged(c) /\ Complete(c, k)
      BY <2>3 DEF Staging
    <3>2. ~ Placed(k, Staged(c))
      BY <3>1, Distinct DEF Staging
    <3>3. QED
      BY <2>2, <3>1, <3>2 DEF Complete, StagedApart
  <2>4. QED
    BY <2>1, <2>2, <2>3 DEF Staging, SameOwn, StagedApart
<1>3. QED
  BY <1>1, <1>2 DEF Staging, SameOwn

\* A publication keeps what it found while the others publish nothing: at most
\* an empty directory appears where nothing stood.
LEMMA OtherPublication ==
  ASSUME NEW c \in Builds, SameOwn(c), Publication(c), Types,
         \A k \in Kinds : dest'[k] = dest[k]
                          \/ (dest[k] = Absent /\ dest'[k] \in Empties),
         damage' = damage,
         \A k \in Kinds : content'[k][Staged(c)] = content[k][Staged(c)],
         \A k \in Kinds : \A d \in Directories :
           Placed(k, d) => content'[k][d] = content[k][d]
  PROVE  Publication(c)'
<1>1. ASSUME NEW k \in Kinds
      PROVE  /\ Stood(c, k, dest[k]) => Stood(c, k, dest[k])'
             /\ Stood(c, k, backup[c][k]) => Stood(c, k, backup[c][k])'
             /\ dest[k] \in Empties => dest'[k] \in Empties
             /\ dest[k] = Staged(c) => dest'[k] = Staged(c)
             /\ dest[k] # Absent => dest'[k] # Absent
             /\ backup'[c][k] = backup[c][k]
  BY Distinct DEF Stood, SameOwn, Empties
<1>2. ASSUME NEW k \in Kinds
      PROVE  /\ Untouched(c, k) => Untouched(c, k)'
             /\ Away(c, k) => Away(c, k)'
             /\ Installed(c, k) => Installed(c, k)'
             /\ Removed(c, k) => Removed(c, k)'
             /\ AtHand(c, k) => AtHand(c, k)'
             /\ Complete(c, k) => Complete(c, k)'
  <2>1. Complete(c, k) => Complete(c, k)'
    BY DEF Complete, Honest, Vouched, Verified, SameOwn
  <2>2. QED
    BY <1>1, <2>1 DEF Untouched, Away, Installed, Removed, AtHand
<1>3. ASSUME NEW k \in Kinds
      PROVE  /\ Ready(c, k) => Ready(c, k)'
             /\ Settled(c, k) => Settled(c, k)'
  BY <1>1, <1>2 DEF Ready, Settled, SameOwn
<1>4. ASSUME NEW k \in Kinds, AtSide(c, k)
      PROVE  AtSide(c, k)'
  BY <1>1, <1>2, <1>3, <1>4 DEF AtSide, SameOwn
<1>5. ASSUME NEW k \in Kinds
      PROVE  Position(c, k)'
  <2>1. Position(c, k)
    BY DEF Publication
  <2>2. Past(c, k)' <=> Past(c, k)
    BY DEF Past, SameOwn
  <2>3. QED
    BY <1>1, <1>2, <1>3, <1>4, <2>1, <2>2 DEF Position, SameOwn
<1>6. ASSUME NEW k \in Kinds, Kept(c, k), AtHand(c, k)
      PROVE  Kept(c, k)' /\ AtHand(c, k)'
  <2>1. CASE before[c][k].at = Absent
    BY <1>2, <1>6, <2>1 DEF Kept, SameOwn
  <2>2. CASE before[c][k].at # Absent
    <3>1. Placed(k, before[c][k].at)
      BY <1>6, <2>2, AtHandIsPlaced
    <3>2. before[c][k].at \in Directories
      BY <2>2 DEF Types, Anywhere
    <3>3. content'[k][before[c][k].at] = content[k][before[c][k].at]
      BY <3>1, <3>2
    <3>4. QED
      BY <1>2, <1>6, <3>3 DEF Kept, SameOwn
  <2>3. QED
    BY <2>1, <2>2
<1>7. pc'[c] \notin {"cleanup", "ok", "killed"} =>
        \A k \in Kinds : Kept(c, k)' /\ AtHand(c, k)'
  BY <1>6 DEF Publication, SameOwn
<1>8. pc'[c] = "killed" =>
        \/ \A k \in Kinds : Kept(c, k)' /\ AtHand(c, k)'
        \/ \A k \in Kinds : dest'[k] = Staged(c)
  BY <1>1, <1>6 DEF Publication, SameOwn
<1>9. QED
  BY <1>5, <1>7, <1>8 DEF Publication

\* The launches keep the bytes they ran: past a build's early steps its
\* verification is not repeated.
LEMMA LaunchesStay ==
  ASSUME UNCHANGED <<lpc, target, ran>>,
         \A c \in Builds : pc[c] \notin Early => pc'[c] \notin Early /\ Verified(c),
         \A l \in Launches : Launched(l)
  PROVE  \A l \in Launches : Launched(l)'
  BY DEF Launched, Verified, Vouched

\* The step of one build, for all: the others keep what is theirs.
LEMMA Frame ==
  ASSUME IInv, NEW b \in Builds, Types', Others',
         \A c \in Builds \ {b} : SameOwn(c) /\ StagedApart(c),
         UNCHANGED <<lockfile, undone, touches, lpc, target, ran>>,
         pc[b] \notin Early => pc'[b] \notin Early /\ Verified(b),
         overlap \subseteq overlap',
         \A c \in Builds \ {b} : Sole(c)' /\ (Alone(c)' => Publication(c)'),
         BuildInv(b)'
  PROVE  IInv'
<1>1. ASSUME NEW c \in Builds \ {b}
      PROVE  BuildInv(c)'
  <2>1. BuildInv(c) /\ SameOwn(c) /\ StagedApart(c) /\ side[c] \in Kinds
    BY DEF IInv, Types
  <2>2. Locks(c)' /\ Artifact(c)' /\ Undoing(c)'
    BY <2>1, OtherCandidates DEF BuildInv
  <2>3. Staging(c)'
    BY <2>1, OtherStaging DEF BuildInv, Early
  <2>4. Harmless(c)'
    BY <2>1 DEF BuildInv, Harmless, SameOwn
  <2>5. QED
    BY <2>2, <2>3, <2>4 DEF BuildInv
<1>2. \A l \in Launches : Launched(l)'
  <2>1. \A c \in Builds : pc[c] \notin Early =>
           pc'[c] \notin Early /\ Verified(c)
    BY DEF SameOwn, Verified
  <2>2. QED
    BY <2>1, LaunchesStay DEF IInv
<1>3. QED
  BY <1>1, <1>2 DEF IInv

-----------------------------------------------------------------------------
(* The steps before the publication                                        *)

EarlyMoves(b) ==
  /\ pc[b] \in Early /\ pc'[b] \in Early \cup {"publish"} \cup Ended
  /\ UNCHANGED <<backup, undo, before, latest, overlap, damage, lockfile,
                 undone, touches, lpc, target, ran>>
  /\ \A c \in Builds \ {b} : SameOwn(c)
  /\ \A k \in Kinds : dest'[k] = dest[k] \/ (dest[k] = Absent /\ dest'[k] = Made(b))
  /\ \A k \in Kinds : \A d \in Directories :
       d # Staged(b) => content'[k][d] = content[k][d]

LEMMA EarlyFrame ==
  ASSUME IInv, NEW b \in Builds, EarlyMoves(b), Types', Locks(b)', Artifact(b)',
         Staging(b)', Harmless(b)'
  PROVE  IInv'
<1>1. BuildInv(b) /\ pc[b] \in Early
  BY DEF IInv, EarlyMoves
<1>2. latest # b /\ latest' = latest /\ overlap' = overlap
  BY <1>1 DEF BuildInv, Sole, EarlyMoves
<1>3. pc'[b] \notin Publishing
  BY DEF EarlyMoves, Early, Ended, Publishing
<1>4. \A k \in Kinds : ~ Placed(k, Staged(b))
  BY <1>1 DEF BuildInv, Staging
<1>5. ASSUME NEW k \in Kinds, NEW c \in Builds \ {b}
      PROVE  content'[k][Staged(c)] = content[k][Staged(c)]
  BY Distinct DEF EarlyMoves
<1>6. Others'
  BY Distinct DEF IInv, Others, EarlyMoves
<1>7. ASSUME NEW c \in Builds \ {b}
      PROVE  SameOwn(c) /\ StagedApart(c)
  <2>1. ASSUME NEW k \in Kinds
        PROVE  Placed(k, Staged(c))' => Placed(k, Staged(c))
    BY Distinct DEF EarlyMoves, Placed
  <2>2. QED
    BY <1>5, <2>1 DEF EarlyMoves, StagedApart
<1>8. ASSUME NEW c \in Builds \ {b}
      PROVE  Sole(c)' /\ (Alone(c)' => Publication(c)')
  <2>1. BuildInv(c)
    BY DEF IInv
  <2>2. Sole(c)'
    <3>1. Alone(c)' => \A d \in Builds \ {c} : pc'[d] \notin Publishing
      <4> SUFFICES ASSUME Alone(c)', NEW d \in Builds \ {c}
                   PROVE  pc'[d] \notin Publishing
        OBVIOUS
      <4>1. Alone(c)
        BY <1>2 DEF Alone
      <4>2. pc[d] \notin Publishing
        BY <4>1, <2>1 DEF BuildInv, Sole
      <4>3. QED
        BY <1>3, <1>7, <4>2 DEF SameOwn
    <3>2. QED
      BY <1>2, <1>7, <2>1, <3>1 DEF BuildInv, Sole, SameOwn
  <2>3. ASSUME Alone(c)' PROVE Publication(c)'
    <3>1. Publication(c)
      BY <1>2, <2>1, <2>3 DEF Alone, BuildInv
    <3>2. \A k \in Kinds : dest'[k] = dest[k]
                          \/ (dest[k] = Absent /\ dest'[k] \in Empties)
      BY DEF EarlyMoves, Empties
    <3>3. \A k \in Kinds : \A d \in Directories :
           Placed(k, d) => content'[k][d] = content[k][d]
      BY <1>4 DEF EarlyMoves
    <3>4. damage' = damage
      BY DEF EarlyMoves
    <3>5. SameOwn(c) /\ Types
      BY <1>7 DEF IInv
    <3>6. QED
      BY <1>5, <3>1, <3>2, <3>3, <3>4, <3>5, OtherPublication
  <2>4. QED
    BY <2>2, <2>3
<1>9. BuildInv(b)'
  <2>1. ~ Alone(b)'
    BY <1>2 DEF Alone
  <2>2. Sole(b)'
    BY <1>2, <1>3, <2>1 DEF Sole
  <2>3. Undoing(b)'
    BY <1>1, <1>3 DEF BuildInv, Undoing, EarlyMoves, Publishing
  <2>4. QED
    BY <2>1, <2>2, <2>3 DEF BuildInv
<1>10. QED
  <2>1. UNCHANGED <<lockfile, undone, touches, lpc, target, ran>> /\ overlap' = overlap
    BY DEF EarlyMoves
  <2>2. QED
    BY <1>1, <1>6, <1>7, <1>8, <1>9, <2>1, Frame

\* A build that gives up, or is killed, has published nothing.
LEMMA EarlyEnd ==
  ASSUME IInv, NEW b \in Builds, pc[b] \in Early, pc'[b] \in Ended,
         UNCHANGED <<dest, backup, content, undo, before, latest, overlap,
                     damage, candidates, lpc, target, ran>>,
         \A c \in Builds \ {b} : SameOwn(c), Types',
         \A k \in Kinds : stage'[b][k] \in {stage[b][k], Absent},
         b \in FaultProne \/ pc'[b] = "killed" \/ touches > 0
  PROVE  IInv'
<1>1. Locks(b) /\ Artifact(b) /\ Staging(b) /\ Harmless(b) /\ Types
  BY DEF IInv, BuildInv
<1>2. Locks(b)'
  BY <1>1 DEF Locks, Compiled, Ended, candidates, edits, Verified
<1>3. Artifact(b)'
  BY DEF Artifact, Compiled, Checked, Ended
<1>4. Staging(b)'
  <2>1. ASSUME NEW k \in Kinds
        PROVE  /\ stage'[b][k] \in {Absent, Staged(b)}
               /\ ~ Held(b, k)'
               /\ ~ Placed(k, Staged(b))'
               /\ before'[b][k].at # Staged(b)
    BY <1>1 DEF Staging, Held, Ended, Placed
  <2>2. QED
    BY <2>1 DEF Staging, Ended
<1>5. Harmless(b)'
  BY <1>1 DEF Harmless, Ended, candidates, edits, Verified
<1>6. EarlyMoves(b)
  BY DEF EarlyMoves, candidates, edits, Verified
<1>7. QED
  BY <1>2, <1>3, <1>4, <1>5, <1>6, EarlyFrame

\* Before it stages anything, a build changes nothing that Staging is about.
LEMMA NothingStaged ==
  ASSUME NEW b \in Builds, Staging(b), pc[b] \in Early,
         pc'[b] \in Early \ {"manifest", "stage"} \/ (pc'[b] = "stage" /\ ~ (\E k \in Kinds : Past(b, k)')),
         \A k \in Kinds : dest'[k] \in {dest[k], Made(b)},
         UNCHANGED <<backup, stage, before>>
  PROVE  Staging(b)'
<1>1. ASSUME NEW k \in Kinds
      PROVE  /\ stage'[b][k] \in {Absent, Staged(b)}
             /\ ~ Held(b, k)'
             /\ ~ Placed(k, Staged(b))'
             /\ before'[b][k].at # Staged(b)
  <2>1. ~ Held(b, k)'
    BY DEF Held, Early
  <2>2. ~ Placed(k, Staged(b))
    BY DEF Staging
  <2>3. ~ Placed(k, Staged(b))'
    BY <2>2, Distinct DEF Placed
  <2>4. QED
    BY <2>1, <2>3 DEF Staging
<1>2. pc'[b] # "manifest"
  OBVIOUS
<1>3. QED
  BY <1>1, <1>2 DEF Staging

LEMMA ConfigureStep ==
  ASSUME IInv, NEW b \in Builds, Configure(b)
  PROVE  IInv'
<1>0. Types /\ BuildInv(b)
  BY DEF IInv
<1>1. pc[b] = "start" /\ pc[b] \in Early
  BY DEF Configure, Early
<1>2. UNCHANGED <<dest, backup, stage, content, undo, before, latest, overlap,
                  damage, lockfile, artifact, locked, hashed, probed, undone, touches,
                  lpc, target, ran>>
  BY DEF Configure, paths, history, edits, launchVars
<1>3. CASE seen' = [seen EXCEPT ![b] = lockfile] /\ GotoFor(b, "cargo", "acquisition")
  <2>1. pc' = [pc EXCEPT ![b] = "cargo"] /\ side' = [side EXCEPT ![b] = "acquisition"]
    BY <1>3 DEF GotoFor, Goto
  <2>2. pc'[b] = "cargo" /\ side'[b] = "acquisition" /\ seen'[b] = lockfile
    BY <1>0, <1>3, <2>1 DEF Types
  <2>3. \A c \in Builds \ {b} : SameOwn(c)
    BY <1>0, <1>2, <1>3, <2>1 DEF SameOwn, Types
  <2>4. Types'
    BY <1>0, <1>2, <1>3, <2>1, TwoKinds DEF Types, PCs, Early
  <2>5. EarlyMoves(b)
    BY <1>1, <1>2, <2>2, <2>3 DEF EarlyMoves, Early
  <2>6. Locks(b)'
    BY <1>0, <1>2, <2>2 DEF BuildInv, Locks, Resolved, Compiled, Past, Types
  <2>7. Artifact(b)'
    BY <2>2 DEF Artifact, Compiled, Checked, Past
  <2>8. Staging(b)'
    <3>1. pc'[b] \in Early \ {"manifest", "stage"}
      BY <2>2 DEF Early
    <3>2. QED
      BY <1>0, <1>1, <1>2, <3>1, NothingStaged DEF BuildInv
  <2>9. Harmless(b)'
    BY <2>2 DEF Harmless
  <2>10. QED
    BY <2>4, <2>5, <2>6, <2>7, <2>8, <2>9, EarlyFrame
<1>4. CASE b \in FaultProne /\ Goto(b, "failed") /\ UNCHANGED <<seen, side>>
  <2>1. pc' = [pc EXCEPT ![b] = "failed"]
    BY <1>4 DEF Goto
  <2>2. pc'[b] \in Ended
    BY <1>0, <2>1 DEF Types, Ended
  <2>3. \A c \in Builds \ {b} : SameOwn(c)
    BY <1>0, <1>2, <1>4, <2>1 DEF SameOwn, Types
  <2>4. Types'
    BY <1>0, <1>2, <1>4, <2>1 DEF Types, PCs, Finished
  <2>5. UNCHANGED candidates
    BY <1>2, <1>4 DEF candidates, edits, Verified
  <2>6. QED
    BY <1>1, <1>2, <1>4, <2>2, <2>3, <2>4, <2>5, EarlyEnd
<1>5. QED
  BY <1>3, <1>4 DEF Configure

LEMMA BuildManagedRunnerStep ==
  ASSUME IInv, NEW b \in Builds, BuildManagedRunner(b)
  PROVE  IInv'
<1>0. Types /\ BuildInv(b)
  BY DEF IInv
<1>1. pc[b] = "cargo" /\ pc[b] \in Early /\ side[b] \in Kinds
  BY <1>0 DEF BuildManagedRunner, Early, Types
<1>2. UNCHANGED <<dest, backup, stage, content, undo, before, latest, overlap,
                  damage, lockfile, seen, hashed, probed, undone, touches,
                  lpc, target, ran>>
  BY DEF BuildManagedRunner, paths, history, edits, launchVars
<1>3. ASSUME artifact' = [artifact EXCEPT ![b][side[b]] = Built(b)],
             locked' = [locked EXCEPT ![b][side[b]] = lockfile[side[b]]],
             NEW next \in {"cargo", "locked"}, NEW m \in Kinds,
             GotoFor(b, next, m),
             \/ side[b] = "acquisition" /\ next = "cargo" /\ m = "processing"
             \/ side[b] # "acquisition" /\ next = "locked" /\ m = "acquisition"
      PROVE  IInv'
  <2>1. pc' = [pc EXCEPT ![b] = next] /\ side' = [side EXCEPT ![b] = m]
    BY <1>3 DEF GotoFor, Goto
  <2>2. /\ pc'[b] = next /\ side'[b] = m
        /\ artifact'[b] = [artifact[b] EXCEPT ![side[b]] = Built(b)]
        /\ locked'[b] = [locked[b] EXCEPT ![side[b]] = lockfile[side[b]]]
    BY <1>0, <1>3, <2>1 DEF Types
  <2>3. \A c \in Builds \ {b} : SameOwn(c)
    BY <1>0, <1>2, <1>3, <2>1 DEF SameOwn, Types
  <2>4. Types'
    <3>1. artifact' \in [Builds -> [Kinds -> Bytes]]
      BY <1>0, <1>1, <1>3, BytesOf DEF Types
    <3>2. locked' \in [Builds -> [Kinds -> Contents]]
      BY <1>0, <1>1, <1>3 DEF Types
    <3>3. QED
      BY <1>0, <1>2, <2>1, <3>1, <3>2 DEF Types, PCs, Early
  <2>5. EarlyMoves(b)
    BY <1>1, <1>2, <2>2, <2>3 DEF EarlyMoves, Early
  <2>6. \A k \in Kinds : Compiled(b, k)' => Compiled(b, k) \/ k = side[b]
    BY <1>1, <1>3, <2>2, TwoKinds DEF Compiled, Past, Ended
  <2>7. Locks(b)'
    <3>1. ASSUME NEW k \in Kinds, Compiled(b, k)', lockfile'[k] = seen'[b][k]
          PROVE  Resolved(b, k)'
      <4>1. CASE k = side[b]
        BY <1>0, <1>2, <2>2, <3>1, <4>1 DEF Resolved, Types
      <4>2. CASE k # side[b]
        BY <1>0, <1>1, <1>2, <2>2, <2>6, <3>1, <4>2 DEF BuildInv, Locks, Resolved, Types
      <4>3. QED
        BY <4>1, <4>2
    <3>2. QED
      BY <1>0, <1>2, <1>3, <2>2, <3>1 DEF BuildInv, Locks
  <2>8. Artifact(b)'
    <3>1. ASSUME NEW k \in Kinds, Compiled(b, k)', touches' = 0
          PROVE  artifact'[b][k] = Built(b)
      <4>1. CASE k = side[b]
        BY <1>0, <1>2, <2>2, <4>1 DEF Types
      <4>2. CASE k # side[b]
        BY <1>0, <1>2, <2>2, <2>6, <3>1, <4>2 DEF BuildInv, Artifact, Vouched, Types
      <4>3. QED
        BY <4>1, <4>2
    <3>2. \A k \in Kinds : ~ Checked(b, k)'
      BY <2>2 DEF Checked
    <3>3. QED
      BY <2>2, <3>1, <3>2 DEF Artifact
  <2>9. Staging(b)'
    <3>1. pc'[b] \in Early \ {"manifest", "stage"}
      BY <2>2 DEF Early
    <3>2. QED
      BY <1>0, <1>1, <1>2, <3>1, NothingStaged DEF BuildInv
  <2>10. Harmless(b)'
    BY <2>2 DEF Harmless
  <2>11. QED
    BY <2>4, <2>5, <2>7, <2>8, <2>9, <2>10, EarlyFrame
<1>4. CASE b \in FaultProne /\ Goto(b, "failed") /\ UNCHANGED <<artifact, locked, side>>
  <2>1. pc' = [pc EXCEPT ![b] = "failed"]
    BY <1>4 DEF Goto
  <2>2. pc'[b] \in Ended
    BY <1>0, <2>1 DEF Types, Ended
  <2>3. \A c \in Builds \ {b} : SameOwn(c)
    BY <1>0, <1>2, <1>4, <2>1 DEF SameOwn, Types
  <2>4. Types'
    BY <1>0, <1>2, <1>4, <2>1 DEF Types, PCs, Finished
  <2>5. UNCHANGED candidates
    BY <1>2, <1>4 DEF candidates, edits, Verified
  <2>6. QED
    BY <1>1, <1>2, <1>4, <2>2, <2>3, <2>4, <2>5, EarlyEnd
<1>5. QED
  BY <1>3, <1>4, TwoKinds DEF BuildManagedRunner, Built

LEMMA EnsureLockfileUnchangedStep ==
  ASSUME IInv, NEW b \in Builds, EnsureLockfileUnchanged(b)
  PROVE  IInv'
<1>0. Types /\ BuildInv(b)
  BY DEF IInv
<1>1. pc[b] = "locked" /\ pc[b] \in Early
  BY DEF EnsureLockfileUnchanged, Early
<1>2. UNCHANGED <<dest, backup, stage, content, side, undo, before, latest,
                  overlap, damage, candidates, lockfile, seen, locked, artifact,
                  hashed, probed, undone, touches, lpc, target, ran>>
  BY DEF EnsureLockfileUnchanged, paths, history, launchVars, candidates, edits, Verified
<1>3. CASE lockfile = seen[b] /\ Goto(b, "hash")
  <2>1. pc' = [pc EXCEPT ![b] = "hash"]
    BY <1>3 DEF Goto
  <2>2. pc'[b] = "hash"
    BY <1>0, <2>1 DEF Types
  <2>3. \A c \in Builds \ {b} : SameOwn(c)
    BY <1>0, <1>2, <2>1 DEF SameOwn, Types
  <2>4. Types'
    BY <1>0, <1>2, <2>1 DEF Types, PCs, Early
  <2>5. EarlyMoves(b)
    BY <1>1, <1>2, <2>2, <2>3 DEF EarlyMoves, Early
  <2>6. \A k \in Kinds : Compiled(b, k)
    BY <1>1 DEF Compiled, Ended
  <2>7. Locks(b)'
    <3>1. \A k \in Kinds : Resolved(b, k)
      BY <1>0, <1>1, <1>3, <2>6 DEF BuildInv, Locks
    <3>2. QED
      BY <1>0, <1>2, <2>2, <3>1 DEF BuildInv, Locks, Resolved
  <2>8. side'[b] = "acquisition"
    BY <1>0, <1>1, <1>2 DEF BuildInv, Locks, Resolved
  <2>9. Artifact(b)'
    BY <1>0, <1>2, <2>2, <2>6, <2>8 DEF BuildInv, Artifact, Vouched, Checked, Past
  <2>10. Staging(b)'
    <3>1. pc'[b] \in Early \ {"manifest", "stage"}
      BY <2>2 DEF Early
    <3>2. QED
      BY <1>0, <1>1, <1>2, <3>1, NothingStaged DEF BuildInv
  <2>11. Harmless(b)'
    BY <2>2 DEF Harmless
  <2>12. QED
    BY <2>4, <2>5, <2>7, <2>9, <2>10, <2>11, EarlyFrame
<1>4. CASE lockfile # seen[b] /\ Goto(b, "failed")
  <2>1. pc' = [pc EXCEPT ![b] = "failed"]
    BY <1>4 DEF Goto
  <2>2. pc'[b] \in Ended
    BY <1>0, <2>1 DEF Types, Ended
  <2>3. \A c \in Builds \ {b} : SameOwn(c)
    BY <1>0, <1>2, <2>1 DEF SameOwn, Types
  <2>4. Types'
    BY <1>0, <1>2, <2>1 DEF Types, PCs, Finished
  <2>5. touches > 0
    <3>1. touches = 0 => \A k \in Kinds : lockfile[k] = seen[b][k]
      BY <1>0 DEF BuildInv, Locks, Resolved
    <3>2. (\A k \in Kinds : lockfile[k] = seen[b][k]) => lockfile = seen[b]
      BY <1>0 DEF Types
    <3>3. QED
      BY <1>0, <1>4, <3>1, <3>2 DEF Types
  <2>6. QED
    BY <1>1, <1>2, <2>2, <2>3, <2>4, <2>5, EarlyEnd
<1>5. QED
  BY <1>3, <1>4 DEF EnsureLockfileUnchanged

LEMMA EarlyFails ==
  ASSUME IInv, NEW b \in Builds, pc[b] \in Early,
         NEW end \in Ended, Goto(b, end),
         UNCHANGED <<dest, backup, stage, content, side, undo, before, latest,
                     overlap, damage, candidates, lpc, target, ran>>,
         b \in FaultProne \/ end = "killed" \/ touches > 0
  PROVE  IInv'
<1>0. Types
  BY DEF IInv
<1>1. pc' = [pc EXCEPT ![b] = end]
  BY DEF Goto
<1>2. pc'[b] = end
  BY <1>0, <1>1 DEF Types
<1>3. \A c \in Builds \ {b} : SameOwn(c)
  BY <1>0, <1>1 DEF SameOwn, Types, candidates, edits, Verified
<1>4. Types'
  BY <1>0, <1>1 DEF Types, PCs, Finished, Ended, candidates, edits, Verified
<1>5. QED
  BY <1>2, <1>3, <1>4, EarlyEnd

LEMMA HashBeforeStep ==
  ASSUME IInv, NEW b \in Builds, HashBefore(b)
  PROVE  IInv'
<1>0. Types /\ BuildInv(b)
  BY DEF IInv
<1>1. pc[b] = "hash" /\ pc[b] \in Early /\ side[b] \in Kinds
  BY <1>0 DEF HashBefore, Early, Types
<1>2. UNCHANGED <<dest, backup, stage, content, side, undo, before, latest,
                  overlap, damage, lockfile, seen, locked, artifact, probed,
                  undone, touches, lpc, target, ran>>
  BY DEF HashBefore, paths, history, edits, launchVars
<1>3. /\ pc' = [pc EXCEPT ![b] = "probe"]
      /\ hashed' = [hashed EXCEPT ![b][side[b]] = artifact[b][side[b]]]
  BY DEF HashBefore, Goto
<1>4. /\ pc'[b] = "probe"
      /\ hashed'[b] = [hashed[b] EXCEPT ![side[b]] = artifact[b][side[b]]]
  BY <1>0, <1>3 DEF Types
<1>5. \A c \in Builds \ {b} : SameOwn(c)
  BY <1>0, <1>2, <1>3 DEF SameOwn, Types
<1>6. Types'
  <2>1. artifact[b][side[b]] \in Bytes
    BY <1>0, <1>1 DEF Types
  <2>2. hashed' \in [Builds -> [Kinds -> Bytes]]
    BY <1>0, <1>1, <1>3, <2>1 DEF Types
  <2>3. QED
    BY <1>0, <1>2, <1>3, <2>2 DEF Types, PCs, Early
<1>7. EarlyMoves(b)
  BY <1>1, <1>2, <1>4, <1>5 DEF EarlyMoves, Early
<1>8. \A k \in Kinds : (Compiled(b, k) <=> Compiled(b, k)')
                       /\ (Checked(b, k) <=> Checked(b, k)')
  BY <1>1, <1>2, <1>4 DEF Compiled, Checked, Past, Ended
<1>9. Locks(b)'
  BY <1>0, <1>1, <1>2, <1>4, <1>8 DEF BuildInv, Locks, Resolved, Ended
<1>10. Artifact(b)'
  <2>1. Artifact(b)
    BY <1>0 DEF BuildInv
  <2>2. /\ hashed'[b][side[b]] = artifact[b][side[b]]
        /\ \A k \in Kinds : k # side[b] => hashed'[b][k] = hashed[b][k]
    BY <1>0, <1>1, <1>4 DEF Types
  <2>3. Compiled(b, side[b])
    BY <1>1 DEF Compiled, Ended
  <2>4. \A k \in Kinds : Checked(b, k)' => k # side[b]
    BY <1>1, <1>2, <1>4 DEF Checked, Past
  <2>5. QED
    BY <1>1, <1>2, <1>4, <1>8, <2>1, <2>2, <2>3, <2>4 DEF Artifact, Vouched
<1>11. Staging(b)'
  <2>1. pc'[b] \in Early \ {"manifest", "stage"}
    BY <1>4 DEF Early
  <2>2. QED
    BY <1>0, <1>1, <1>2, <2>1, NothingStaged DEF BuildInv
<1>12. Harmless(b)'
  BY <1>4 DEF Harmless
<1>13. QED
  BY <1>6, <1>7, <1>9, <1>10, <1>11, <1>12, EarlyFrame

LEMMA ProbeArtifactStep ==
  ASSUME IInv, NEW b \in Builds, ProbeArtifact(b)
  PROVE  IInv'
<1>0. Types /\ BuildInv(b)
  BY DEF IInv
<1>1. pc[b] = "probe" /\ pc[b] \in Early /\ side[b] \in Kinds
  BY <1>0 DEF ProbeArtifact, Early, Types
<1>2. UNCHANGED <<dest, backup, stage, content, side, undo, before, latest,
                  overlap, damage, lockfile, seen, locked, artifact, hashed,
                  undone, touches, lpc, target, ran>>
  BY DEF ProbeArtifact, paths, history, edits, launchVars
<1>3. CASE /\ probed' = [probed EXCEPT ![b][side[b]] = artifact[b][side[b]]]
           /\ Goto(b, "rehash")
  <2>1. pc' = [pc EXCEPT ![b] = "rehash"]
    BY <1>3 DEF Goto
  <2>2. /\ pc'[b] = "rehash"
        /\ probed'[b] = [probed[b] EXCEPT ![side[b]] = artifact[b][side[b]]]
    BY <1>0, <1>3, <2>1 DEF Types
  <2>3. \A c \in Builds \ {b} : SameOwn(c)
    BY <1>0, <1>2, <1>3, <2>1 DEF SameOwn, Types
  <2>4. Types'
    <3>1. artifact[b][side[b]] \in Bytes
      BY <1>0, <1>1 DEF Types
    <3>2. probed' \in [Builds -> [Kinds -> Bytes]]
      BY <1>0, <1>1, <1>3, <3>1 DEF Types
    <3>3. QED
      BY <1>0, <1>2, <2>1, <3>2 DEF Types, PCs, Early
  <2>5. EarlyMoves(b)
    BY <1>1, <1>2, <2>2, <2>3 DEF EarlyMoves, Early
  <2>6. \A k \in Kinds : (Compiled(b, k) <=> Compiled(b, k)')
                         /\ (Checked(b, k) <=> Checked(b, k)')
    BY <1>1, <1>2, <2>2 DEF Compiled, Checked, Past, Ended
  <2>7. Locks(b)'
    BY <1>0, <1>1, <1>2, <2>2, <2>6 DEF BuildInv, Locks, Resolved, Ended
  <2>8. Artifact(b)'
    <3>1. Artifact(b)
      BY <1>0 DEF BuildInv
    <3>2. /\ probed'[b][side[b]] = artifact[b][side[b]]
          /\ \A k \in Kinds : k # side[b] => probed'[b][k] = probed[b][k]
      BY <1>0, <1>1, <2>2 DEF Types
    <3>3. Compiled(b, side[b])
      BY <1>1 DEF Compiled, Ended
    <3>4. \A k \in Kinds : Checked(b, k)' => k # side[b]
      BY <1>1, <1>2, <2>2 DEF Checked, Past
    <3>5. QED
      BY <1>1, <1>2, <2>2, <2>6, <3>1, <3>2, <3>3, <3>4 DEF Artifact, Vouched
  <2>9. Staging(b)'
    <3>1. pc'[b] \in Early \ {"manifest", "stage"}
      BY <2>2 DEF Early
    <3>2. QED
      BY <1>0, <1>1, <1>2, <3>1, NothingStaged DEF BuildInv
  <2>10. Harmless(b)'
    BY <2>2 DEF Harmless
  <2>11. QED
    BY <2>4, <2>5, <2>7, <2>8, <2>9, <2>10, EarlyFrame
<1>4. CASE b \in FaultProne /\ Goto(b, "failed") /\ UNCHANGED probed
  BY <1>1, <1>2, <1>4, EarlyFails DEF candidates, edits, Verified, Ended
<1>5. QED
  BY <1>3, <1>4 DEF ProbeArtifact

LEMMA HashAfterStep ==
  ASSUME IInv, NEW b \in Builds, HashAfter(b)
  PROVE  IInv'
<1>0. Types /\ BuildInv(b)
  BY DEF IInv
<1>1. pc[b] = "rehash" /\ pc[b] \in Early /\ side[b] \in Kinds
  BY <1>0 DEF HashAfter, Early, Types
<1>2. UNCHANGED <<dest, backup, stage, content, undo, before, latest, overlap,
                  damage, candidates, lockfile, seen, locked, artifact, hashed,
                  probed, undone, touches, lpc, target, ran>>
  BY DEF HashAfter, paths, history, launchVars, candidates, edits, Verified
<1>a. Artifact(b) /\ Compiled(b, side[b])
  BY <1>0, <1>1 DEF BuildInv, Compiled, Ended
<1>3. ASSUME artifact[b][side[b]] = hashed[b][side[b]],
             NEW next \in {"hash", "dirs"}, NEW m \in Kinds,
             GotoFor(b, next, m),
             \/ side[b] = "acquisition" /\ next = "hash" /\ m = "processing"
             \/ side[b] # "acquisition" /\ next = "dirs" /\ m = "acquisition"
      PROVE  IInv'
  <2>1. pc' = [pc EXCEPT ![b] = next] /\ side' = [side EXCEPT ![b] = m]
    BY <1>3 DEF GotoFor, Goto
  <2>2. pc'[b] = next /\ side'[b] = m
    BY <1>0, <2>1 DEF Types
  <2>3. \A c \in Builds \ {b} : SameOwn(c)
    BY <1>0, <1>2, <2>1 DEF SameOwn, Types
  <2>4. Types'
    BY <1>0, <1>2, <2>1 DEF Types, PCs, Early
  <2>5. EarlyMoves(b)
    BY <1>1, <1>2, <2>2, <2>3 DEF EarlyMoves, Early
  <2>6. \A k \in Kinds : Compiled(b, k) /\ Compiled(b, k)'
    BY <1>1, <2>2 DEF Compiled, Ended
  <2>7. \A k \in Kinds : Checked(b, k)' => Checked(b, k) \/ k = side[b]
    BY <1>1, <1>3, <2>2, TwoKinds DEF Checked, Past, Ended
  <2>8. Locks(b)'
    BY <1>0, <1>1, <1>2, <2>2, <2>6 DEF BuildInv, Locks, Resolved, Ended
  <2>9. /\ Vouched(b, side[b])
        /\ touches = 0 => hashed[b][side[b]] = Built(b)
    BY <1>1, <1>3, <1>a DEF Artifact
  <2>10. Artifact(b)'
    <3>1. \A k \in Kinds : Checked(b, k)' =>
            /\ Vouched(b, k)
            /\ touches = 0 => hashed[b][k] = Built(b)
      BY <1>a, <2>7, <2>9 DEF Artifact
    <3>2. pc'[b] \notin {"probe", "rehash"}
      BY <2>2
    <3>3. QED
      BY <1>2, <1>a, <2>6, <3>1, <3>2 DEF Artifact, Vouched
  <2>11. Staging(b)'
    <3>1. pc'[b] \in Early \ {"manifest", "stage"}
      BY <2>2 DEF Early
    <3>2. QED
      BY <1>0, <1>1, <1>2, <3>1, NothingStaged DEF BuildInv
  <2>12. Harmless(b)'
    BY <2>2 DEF Harmless
  <2>13. QED
    BY <2>4, <2>5, <2>8, <2>10, <2>11, <2>12, EarlyFrame
<1>4. CASE /\ artifact[b][side[b]] # hashed[b][side[b]]
           /\ Goto(b, "failed") /\ UNCHANGED side
  <2>1. touches # 0
    BY <1>1, <1>4, <1>a DEF Artifact
  <2>2. touches > 0
    BY <1>0, <2>1 DEF Types
  <2>3. QED
    BY <1>1, <1>2, <1>4, <2>2, EarlyFails DEF Ended
<1>5. QED
  BY <1>3, <1>4, TwoKinds DEF HashAfter

\* From the last hash on a build only reads its candidates.
LEMMA CandidatesStay ==
  ASSUME NEW b \in Builds, Locks(b), Artifact(b),
         pc[b] \in {"dirs", "stage", "manifest"},
         pc'[b] \in {"dirs", "stage", "manifest", "publish"},
         UNCHANGED candidates
  PROVE  Locks(b)' /\ Artifact(b)'
<1>1. \A k \in Kinds : Compiled(b, k) /\ Compiled(b, k)' /\ Checked(b, k)
                       /\ Checked(b, k)'
  BY DEF Compiled, Checked, Ended
<1>2. Locks(b)'
  BY <1>1 DEF Locks, Resolved, Ended, candidates, edits, Verified
<1>3. Artifact(b)'
  BY <1>1 DEF Artifact, Vouched, candidates, edits, Verified
<1>4. QED
  BY <1>2, <1>3

LEMMA EnsureRuntimeDirectoriesStep ==
  ASSUME IInv, NEW b \in Builds, EnsureRuntimeDirectories(b)
  PROVE  IInv'
<1>0. Types /\ BuildInv(b)
  BY DEF IInv
<1>1. pc[b] = "dirs" /\ pc[b] \in Early /\ side[b] \in Kinds
  BY <1>0 DEF EnsureRuntimeDirectories, Early, Types
<1>2. UNCHANGED <<backup, stage, content, undo, before, latest, overlap, damage,
                  candidates, lockfile, seen, locked, artifact, hashed, probed,
                  undone, touches, lpc, target, ran>>
  BY DEF EnsureRuntimeDirectories, history, launchVars, candidates, edits, Verified
<1>3. ASSUME dest' = [dest EXCEPT ![side[b]] = IF @ = Absent THEN Made(b) ELSE @],
             NEW next \in {"dirs", "stage"}, NEW m \in Kinds,
             GotoFor(b, next, m),
             \/ side[b] = "acquisition" /\ next = "dirs" /\ m = "processing"
             \/ side[b] # "acquisition" /\ next = "stage" /\ m = "acquisition"
      PROVE  IInv'
  <2>1. pc' = [pc EXCEPT ![b] = next] /\ side' = [side EXCEPT ![b] = m]
    BY <1>3 DEF GotoFor, Goto
  <2>2. pc'[b] = next /\ side'[b] = m
    BY <1>0, <2>1 DEF Types
  <2>3. \A c \in Builds \ {b} : SameOwn(c)
    BY <1>0, <1>2, <2>1 DEF SameOwn, Types
  <2>4. \A k \in Kinds : dest'[k] = dest[k]
                         \/ (dest[k] = Absent /\ dest'[k] = Made(b))
    BY <1>0, <1>3 DEF Types
  <2>5. Types'
    <3>1. dest' \in [Kinds -> Anywhere]
      BY <1>0, <1>3, <1>1, Distinct DEF Types
    <3>2. QED
      BY <1>0, <1>2, <2>1, <3>1 DEF Types, PCs, Early
  <2>6. EarlyMoves(b)
    BY <1>1, <1>2, <2>2, <2>3, <2>4 DEF EarlyMoves, Early
  <2>7. Locks(b)' /\ Artifact(b)'
    BY <1>0, <1>1, <1>2, <2>2, CandidatesStay DEF BuildInv
  <2>8. Staging(b)'
    <3>1. \/ pc'[b] \in Early \ {"manifest", "stage"}
          \/ pc'[b] = "stage" /\ ~ (\E k \in Kinds : Past(b, k)')
      BY <1>3, <2>2 DEF Early, Past
    <3>2. QED
      BY <1>0, <1>1, <1>2, <2>4, <3>1, NothingStaged DEF BuildInv
  <2>9. Harmless(b)'
    BY <2>2 DEF Harmless
  <2>10. QED
    BY <2>5, <2>6, <2>7, <2>8, <2>9, EarlyFrame
<1>4. CASE b \in FaultProne /\ Goto(b, "failed") /\ UNCHANGED <<dest, side>>
  BY <1>1, <1>2, <1>4, EarlyFails DEF Ended
<1>5. QED
  BY <1>3, <1>4, TwoKinds DEF EnsureRuntimeDirectories

LEMMA StageExecutableStep ==
  ASSUME IInv, NEW b \in Builds, StageExecutable(b)
  PROVE  IInv'
<1>0. Types /\ BuildInv(b)
  BY DEF IInv
<1>1. pc[b] = "stage" /\ pc[b] \in Early /\ side[b] \in Kinds
  BY <1>0 DEF StageExecutable, Early, Types
<1>2. UNCHANGED <<dest, backup, side, undo, before, latest, overlap, damage,
                  candidates, lockfile, seen, locked, artifact, hashed, probed,
                  undone, touches, lpc, target, ran>>
  BY DEF StageExecutable, history, launchVars, candidates, edits, Verified
<1> DEFINE copy == [files |-> {"exe"}, exe |-> artifact[b][side[b]],
                    digest |-> NoBytes]
<1>a. copy \in Bundles /\ copy.exe = artifact[b][side[b]]
  BY <1>0, <1>1, BytesOf DEF Types, Bundles, Files
<1>3. /\ pc' = [pc EXCEPT ![b] = "manifest"]
      /\ stage' = [stage EXCEPT ![b][side[b]] = Staged(b)]
      /\ content' = [content EXCEPT ![side[b]][Staged(b)] = copy]
  BY DEF StageExecutable, Goto
<1> HIDE DEF copy
<1>4. pc'[b] = "manifest" /\ stage'[b] = [stage[b] EXCEPT ![side[b]] = Staged(b)]
  BY <1>0, <1>3 DEF Types
<1>5. \A c \in Builds \ {b} : SameOwn(c)
  BY <1>0, <1>2, <1>3 DEF SameOwn, Types
<1>6. Types'
  <2>1. stage' \in [Builds -> [Kinds -> Anywhere]]
    BY <1>0, <1>1, <1>3, Distinct DEF Types
  <2>2. content' \in [Kinds -> [Directories -> Bundles]]
    BY <1>0, <1>1, <1>3, <1>a, Distinct DEF Types
  <2>3. QED
    BY <1>0, <1>2, <1>3, <2>1, <2>2 DEF Types, PCs, Early
<1>7. /\ content'[side[b]][Staged(b)] = copy
      /\ \A k \in Kinds : k # side[b] => content'[k] = content[k]
      /\ \A k \in Kinds : \A d \in Directories :
           d # Staged(b) => content'[k][d] = content[k][d]
  BY <1>0, <1>1, <1>3, Distinct DEF Types
<1>8. EarlyMoves(b)
  BY <1>1, <1>2, <1>4, <1>5, <1>7 DEF EarlyMoves, Early
<1>9. Locks(b)' /\ Artifact(b)'
  BY <1>0, <1>1, <1>2, <1>4, CandidatesStay DEF BuildInv
<1>10. Staging(b)'
  <2>1. Staging(b) /\ Artifact(b)
    BY <1>0 DEF BuildInv
  <2>2. /\ stage'[b][side[b]] = Staged(b)
        /\ touches = 0 => copy.exe = Built(b)
    BY <1>0, <1>1, <1>4, <1>a, <2>1 DEF Artifact, Compiled, Ended, Types
  <2>3. ASSUME NEW k \in Kinds
        PROVE  /\ stage'[b][k] \in {Absent, Staged(b)}
               /\ Held(b, k)' => stage'[b][k] = Staged(b) /\ Complete(b, k)'
               /\ ~ Placed(k, Staged(b))'
               /\ before'[b][k].at # Staged(b)
    <3>1. stage'[b][k] \in {Absent, Staged(b)}
      BY <1>0, <1>1, <1>4, <2>1 DEF Staging, Types
    <3>2. ~ Placed(k, Staged(b))'
      BY <1>1, <1>2, <2>1 DEF Staging, Placed
    <3>3. ASSUME Held(b, k)' PROVE stage'[b][k] = Staged(b) /\ Complete(b, k)'
      <4>1. Held(b, k) /\ k # side[b]
        BY <1>1, <1>2, <1>4, <3>3 DEF Held, Past
      <4>2. stage[b][k] = Staged(b) /\ Complete(b, k)
        BY <2>1, <4>1 DEF Staging
      <4>3. content'[k] = content[k] /\ stage'[b][k] = stage[b][k]
        BY <1>0, <1>1, <1>4, <1>7, <4>1 DEF Types
      <4>4. QED
        BY <1>2, <4>2, <4>3 DEF Complete, Honest, Vouched, Verified
    <3>4. QED
      BY <1>2, <2>1, <3>1, <3>2, <3>3 DEF Staging
  <2>4. QED
    BY <1>2, <1>7, <2>2, <2>3 DEF Staging
<1>11. Harmless(b)'
  BY <1>4 DEF Harmless
<1>12. QED
  BY <1>6, <1>8, <1>9, <1>10, <1>11, EarlyFrame

LEMMA StageManifestStep ==
  ASSUME IInv, NEW b \in Builds, StageManifest(b)
  PROVE  IInv'
<1>0. Types /\ BuildInv(b)
  BY DEF IInv
<1>1. pc[b] = "manifest" /\ pc[b] \in Early /\ side[b] \in Kinds
  BY <1>0 DEF StageManifest, Early, Types
<1>2. UNCHANGED <<dest, backup, undo, before, latest, overlap, damage,
                  candidates, lockfile, seen, locked, artifact, hashed, probed,
                  undone, touches, lpc, target, ran>>
  BY DEF StageManifest, history, launchVars, candidates, edits, Verified
<1> DEFINE copied == content[side[b]][Staged(b)].exe
           full   == [files |-> Files, exe |-> copied, digest |-> hashed[b][side[b]]]
<1>3. ASSUME copied = hashed[b][side[b]],
             content' = [content EXCEPT ![side[b]][Staged(b)] = full],
             NEW next \in {"stage", "publish"}, NEW m \in Kinds,
             GotoFor(b, next, m), stage' = stage,
             \/ side[b] = "acquisition" /\ next = "stage" /\ m = "processing"
             \/ side[b] # "acquisition" /\ next = "publish" /\ m = "acquisition"
      PROVE  IInv'
  <2>a. /\ full \in Bundles /\ full.files = Files
        /\ full.exe = hashed[b][side[b]] /\ full.digest = hashed[b][side[b]]
    BY <1>0, <1>1, <1>3 DEF Types, Bundles, Files
  <2> HIDE DEF full, copied
  <2>1. pc' = [pc EXCEPT ![b] = next] /\ side' = [side EXCEPT ![b] = m]
    BY <1>3 DEF GotoFor, Goto
  <2>2. pc'[b] = next /\ side'[b] = m
    BY <1>0, <2>1 DEF Types
  <2>3. \A c \in Builds \ {b} : SameOwn(c)
    BY <1>0, <1>2, <1>3, <2>1 DEF SameOwn, Types
  <2>4. Types'
    <3>1. content' \in [Kinds -> [Directories -> Bundles]]
      BY <1>0, <1>1, <1>3, <2>a, Distinct DEF Types
    <3>2. QED
      BY <1>0, <1>2, <1>3, <2>1, <3>1 DEF Types, PCs, Early
  <2>5. /\ content'[side[b]][Staged(b)] = full
        /\ \A k \in Kinds : k # side[b] => content'[k] = content[k]
        /\ \A k \in Kinds : \A d \in Directories :
             d # Staged(b) => content'[k][d] = content[k][d]
    BY <1>0, <1>1, <1>3, Distinct DEF Types
  <2>6. EarlyMoves(b)
    BY <1>1, <1>2, <2>2, <2>3, <2>5 DEF EarlyMoves, Early
  <2>7. Locks(b)' /\ Artifact(b)'
    BY <1>0, <1>1, <1>2, <2>2, CandidatesStay DEF BuildInv
  <2>8. Staging(b)'
    <3>1. Staging(b) /\ Artifact(b)
      BY <1>0 DEF BuildInv
    <3>2. ASSUME NEW k \in Kinds
          PROVE  /\ stage'[b][k] \in {Absent, Staged(b)}
                 /\ Held(b, k)' => stage'[b][k] = Staged(b) /\ Complete(b, k)'
                 /\ ~ Placed(k, Staged(b))'
                 /\ before'[b][k].at # Staged(b)
      <4>1. ~ Placed(k, Staged(b))'
        BY <1>1, <1>2, <3>1 DEF Staging, Placed
      <4>2. ASSUME Held(b, k)' PROVE stage'[b][k] = Staged(b) /\ Complete(b, k)'
        <5>1. CASE k = side[b]
          <6>1. Vouched(b, k)
            BY <1>1, <3>1 DEF Artifact, Checked, Ended
          <6>2. Complete(b, k)'
            BY <1>2, <2>5, <2>a, <5>1, <6>1 DEF Complete, Honest, Vouched, Verified
          <6>3. QED
            BY <1>1, <1>3, <3>1, <5>1, <6>2 DEF Staging
        <5>2. CASE k # side[b]
          <6>1. Past(b, k)
            BY <1>1, <1>3, <2>2, <4>2, <5>2, TwoKinds DEF Held, Past
          <6>2. Held(b, k)
            BY <1>1, <6>1 DEF Held
          <6>3. stage[b][k] = Staged(b) /\ Complete(b, k)
            BY <3>1, <6>2 DEF Staging
          <6>4. QED
            BY <1>2, <1>3, <2>5, <5>2, <6>3 DEF Complete, Honest, Vouched, Verified
        <5>3. QED
          BY <5>1, <5>2
      <4>3. QED
        BY <1>2, <1>3, <3>1, <4>1, <4>2 DEF Staging
    <3>3. QED
      BY <2>2, <3>2 DEF Staging
  <2>9. Harmless(b)'
    BY <2>2 DEF Harmless
  <2>10. QED
    BY <2>4, <2>6, <2>7, <2>8, <2>9, EarlyFrame
<1>4. CASE /\ b \in FaultProne \/ copied # hashed[b][side[b]]
           /\ Abort(b, Kinds)
           /\ UNCHANGED <<content, side>>
  <2>1. /\ pc' = [pc EXCEPT ![b] = "failed"]
        /\ stage' = [stage EXCEPT ![b] =
             [k \in Kinds |-> IF k \in Kinds THEN Absent ELSE stage[b][k]]]
    BY <1>4 DEF Abort, Goto
  <2>2. pc'[b] \in Ended /\ \A k \in Kinds : stage'[b][k] = Absent
    BY <1>0, <2>1 DEF Types, Ended
  <2>3. \A c \in Builds \ {b} : SameOwn(c)
    BY <1>0, <1>2, <1>4, <2>1 DEF SameOwn, Types
  <2>4. Types'
    <3>1. stage' \in [Builds -> [Kinds -> Anywhere]]
      BY <1>0, <2>1, Distinct DEF Types
    <3>2. QED
      BY <1>0, <1>2, <1>4, <2>1, <3>1 DEF Types, PCs, Finished
  <2>5. b \in FaultProne \/ touches > 0
    <3>1. ASSUME touches = 0 PROVE copied = hashed[b][side[b]]
      BY <1>0, <1>1, <3>1 DEF BuildInv, Staging, Artifact, Checked, Ended
    <3>2. QED
      BY <1>0, <1>4, <3>1 DEF Types
  <2>6. QED
    BY <1>1, <1>2, <1>4, <2>2, <2>3, <2>4, <2>5, EarlyEnd
<1>5. QED
  BY <1>3, <1>4, TwoKinds DEF StageManifest

\* A build killed while it publishes leaves everything where it is.
LEMMA KillStep ==
  ASSUME IInv, NEW b \in Builds, Kill(b), UNCHANGED <<candidates, launchVars>>
  PROVE  IInv'
<1>0. Types /\ BuildInv(b)
  BY DEF IInv
<1>1. pc' = [pc EXCEPT ![b] = "killed"] /\ pc[b] \notin Finished \cup {"start"}
  BY DEF Kill, Goto
<1>2. UNCHANGED <<dest, backup, stage, content, side, undo, before, latest,
                  overlap, damage, candidates, lockfile, seen, locked, artifact,
                  hashed, probed, undone, touches, lpc, target, ran>>
  BY DEF Kill, paths, history, candidates, edits, Verified, launchVars
<1>3. CASE pc[b] \in Early
  <2>1. "killed" \in Ended /\ Goto(b, "killed")
    BY DEF Ended, Kill
  <2>2. QED
    BY <1>2, <1>3, <2>1, EarlyFails
<1>4. CASE pc[b] \in {"publish"} \cup Publishing
  <2>1. pc'[b] = "killed" /\ pc[b] \notin Early \cup Ended \cup {"start"}
    BY <1>0, <1>1, <1>4 DEF Types, Early, Ended, Publishing
  <2>2. ASSUME NEW c \in Builds \ {b}
        PROVE  SameOwn(c) /\ StagedApart(c)
    BY <1>0, <1>1, <1>2 DEF SameOwn, StagedApart, Types, Placed
  <2>3. Types' /\ Others'
    BY <1>0, <1>1, <1>2 DEF Types, IInv, Others, PCs, Finished
  <2>4. ASSUME NEW c \in Builds \ {b}
        PROVE  Sole(c)' /\ (Alone(c)' => Publication(c)')
    <3>1. BuildInv(c) /\ SameOwn(c) /\ (Alone(c)' <=> Alone(c))
      BY <1>2, <2>2 DEF IInv, Alone
    <3>2. Sole(c)'
      <4>1. Alone(c)' => \A d \in Builds \ {c} : pc'[d] \notin Publishing
        BY <1>0, <1>1, <3>1 DEF BuildInv, Sole, Types, Publishing
      <4>2. QED
        BY <1>2, <3>1, <4>1 DEF BuildInv, Sole, SameOwn
    <3>3. Alone(c)' => Publication(c)'
      BY <1>0, <1>2, <3>1, OtherPublication DEF BuildInv
    <3>4. QED
      BY <3>2, <3>3
  <2>5. BuildInv(b)'
    <3>1. Locks(b)'
      BY <1>0, <1>2, <2>1 DEF BuildInv, Locks, Resolved, Compiled, Ended
    <3>2. Artifact(b)'
      BY <2>1 DEF Artifact, Compiled, Checked, Ended
    <3>3. Staging(b)'
      <4>1. ASSUME NEW k \in Kinds
            PROVE  /\ stage'[b][k] \in {Absent, Staged(b)}
                   /\ ~ Held(b, k)'
                   /\ Placed(k, Staged(b))' =>
                        stage'[b][k] = Absent /\ Honest(b, k)'
                   /\ before'[b][k].at # Staged(b)
        BY <1>0, <1>2, <2>1 DEF BuildInv, Staging, Held, Placed, Honest, Vouched, Verified
      <4>2. QED
        BY <2>1, <4>1 DEF Staging, Early
    <3>4. Sole(b)' /\ Undoing(b)' /\ Harmless(b)'
      <4>1. Alone(b)' => \A d \in Builds \ {b} : pc'[d] \notin Publishing
        BY <1>0, <1>1, <1>2 DEF BuildInv, Sole, Alone, Types
      <4>2. QED
        BY <2>1, <4>1 DEF Sole, Undoing, Harmless, Early, Publishing
    <3>5. ASSUME Alone(b)' PROVE Publication(b)'
      <4>1. Alone(b) /\ Publication(b) /\ pc[b] \in Publishing
        BY <1>0, <1>2, <1>4, <3>5 DEF Alone, BuildInv, Sole
      <4>2. ASSUME NEW k \in Kinds PROVE Position(b, k)'
        BY <2>1 DEF Position, Forward
      <4>3. CASE pc[b] = "cleanup"
        <5>1. \A k \in Kinds : dest'[k] = Staged(b)
          BY <1>2, <4>1, <4>3 DEF Publication, Position
        <5>2. QED
          BY <2>1, <4>2, <5>1 DEF Publication
      <4>4. CASE pc[b] # "cleanup"
        <5>1. \A k \in Kinds : Kept(b, k) /\ AtHand(b, k)
          BY <4>1, <4>4 DEF Publication, Publishing
        <5>2. \A k \in Kinds : Kept(b, k)' /\ AtHand(b, k)'
          BY <1>2, <5>1 DEF Kept, AtHand, Stood
        <5>3. QED
          BY <2>1, <4>2, <5>2 DEF Publication
      <4>5. QED
        BY <4>3, <4>4
    <3>6. QED
      BY <3>1, <3>2, <3>3, <3>4, <3>5 DEF BuildInv
  <2>6. pc[b] \notin Early => pc'[b] \notin Early /\ Verified(b)
    BY <1>2, <2>1 DEF Early, Verified
  <2>7. QED
    BY <1>2, <2>2, <2>3, <2>4, <2>5, <2>6, Frame
<1>5. QED
  BY <1>0, <1>1, <1>3, <1>4 DEF Types, PCs

-----------------------------------------------------------------------------
(* The publication, step by step                                           *)

LEMMA BeginPublicationStep ==
  ASSUME IInv, NEW b \in Builds, BeginPublication(b),
         UNCHANGED <<candidates, launchVars>>
  PROVE  IInv'
<1>0. Types /\ BuildInv(b)
  BY DEF IInv
<1> DEFINE found  == [k \in Kinds |-> [at |-> dest[k],
                                      files |-> Bundle(k, dest[k]).files]]
           beside == {c \in Builds \ {b} : pc[c] \in Publishing}
<1>1. /\ pc[b] = "publish" /\ latest' = b
      /\ pc' = [pc EXCEPT ![b] = "admitStaged"]
      /\ side' = [side EXCEPT ![b] = "acquisition"]
      /\ before' = [before EXCEPT ![b] = found]
      /\ overlap' = IF beside = {} THEN overlap ELSE overlap \cup beside \cup {b}
  BY DEF BeginPublication, GotoFor, Goto
<1>2. UNCHANGED <<dest, backup, stage, content, undo, damage, candidates,
                  lockfile, seen, locked, artifact, hashed, probed, undone, touches,
                  lpc, target, ran>>
  BY DEF BeginPublication, paths, candidates, edits, Verified, launchVars
<1>3. found \in [Kinds -> [at : Anywhere, files : SUBSET (Files \cup Scaffold)]]
  <2>1. ASSUME NEW k \in Kinds
        PROVE  Bundle(k, dest[k]).files \in SUBSET (Files \cup Scaffold)
    <3>1. CASE dest[k] = Absent
      BY <3>1 DEF Bundle, EmptyBundle
    <3>2. CASE dest[k] # Absent
      <4>1. content[k][dest[k]] \in Bundles
        BY <1>0, <3>2 DEF Types, Anywhere
      <4>2. QED
        BY <3>2, <4>1 DEF Bundle, Bundles
    <3>3. QED
      BY <3>1, <3>2
  <2>2. QED
    BY <1>0, <2>1 DEF Types
<1>4. \A k \in Kinds : /\ found[k].at = dest[k]
                       /\ found[k].files = Bundle(k, dest[k]).files
  OBVIOUS
<1> HIDE DEF found, beside
<1>5. /\ pc'[b] = "admitStaged" /\ side'[b] = "acquisition"
      /\ before'[b] = found
  BY <1>0, <1>1 DEF Types
<1>6. ASSUME NEW c \in Builds \ {b}
      PROVE  SameOwn(c) /\ StagedApart(c)
  BY <1>0, <1>1, <1>2 DEF SameOwn, StagedApart, Types, Placed
<1>7. Types' /\ Others'
  <2>1. before' \in [Builds -> [Kinds -> [at : Anywhere,
                                      files : SUBSET (Files \cup Scaffold)]]]
    BY <1>0, <1>1, <1>3 DEF Types
  <2>2. pc' \in [Builds -> PCs] /\ side' \in [Builds -> Kinds]
    BY <1>0, <1>1, TwoKinds DEF Types, PCs, Publishing
  <2>3. overlap' \subseteq Builds
    BY <1>0, <1>1 DEF Types, beside
  <2>4. QED
    BY <1>0, <1>2, <2>1, <2>2, <2>3 DEF Types, IInv, Others
<1>8. ASSUME NEW c \in Builds \ {b}
      PROVE  Sole(c)' /\ (Alone(c)' => Publication(c)')
  <2>1. ~ Alone(c)' /\ latest' # c
    BY <1>1 DEF Alone
  <2>2. pc[c] \in Publishing => c \in overlap'
    BY <1>1 DEF beside
  <2>3. QED
    BY <1>6, <2>1, <2>2 DEF Sole, SameOwn
<1>9. overlap \subseteq overlap'
  BY <1>1
<1>10. ASSUME NEW k \in Kinds
       PROVE  stage[b][k] = Staged(b) /\ Complete(b, k) /\ ~ Placed(k, Staged(b))
  <2>1. stage[b][k] = Staged(b) /\ Complete(b, k)
    BY <1>0, <1>1 DEF BuildInv, Staging, Held
  <2>2. QED
    BY <1>0, <2>1, Distinct DEF BuildInv, Staging
<1>11. BuildInv(b)'
  <2>1. Locks(b)'
    BY <1>0, <1>1, <1>2, <1>5 DEF BuildInv, Locks, Resolved, Compiled, Ended
  <2>2. Artifact(b)'
    BY <1>0, <1>1, <1>2, <1>5 DEF BuildInv, Artifact, Vouched, Compiled, Checked, Ended
  <2>3. Staging(b)'
    <3>1. ASSUME NEW k \in Kinds
          PROVE  /\ stage'[b][k] = Staged(b) /\ Complete(b, k)'
                 /\ ~ Placed(k, Staged(b))'
                 /\ before'[b][k].at # Staged(b)
      BY <1>2, <1>4, <1>5, <1>10 DEF Complete, Honest, Vouched, Verified, Placed
    <3>2. QED
      BY <1>5, <3>1 DEF Staging
  <2>4. Sole(b)'
    <3>1. Alone(b)' => beside = {}
      BY <1>1 DEF Alone
    <3>2. beside = {} => \A c \in Builds \ {b} : pc'[c] \notin Publishing
      BY <1>6 DEF beside, SameOwn
    <3>3. QED
      BY <1>1, <1>5, <3>1, <3>2 DEF Sole, Early
  <2>5. Undoing(b)' /\ Harmless(b)'
    BY <1>5 DEF Undoing, Harmless, Early
  <2>6. ASSUME Alone(b)' PROVE Publication(b)'
    <3>1. b \notin overlap /\ ~ (b \in overlap')
      BY <1>9, <2>6 DEF Alone
    <3>2. ASSUME NEW k \in Kinds PROVE Untouched(b, k)' /\ Kept(b, k)'
      <4>1. Stood(b, k, dest[k])' /\ Kept(b, k)'
        BY <1>2, <1>4, <1>5 DEF Stood, Kept, Bundle
      <4>2. backup[b][k] = Absent
        BY <1>0, <1>1 DEF BuildInv, Undoing
      <4>3. QED
        BY <1>2, <4>1, <4>2 DEF Untouched
    <3>3. QED
      BY <1>5, <3>2 DEF Publication, Position, Untouched, AtHand, Forward
  <2>7. QED
    BY <2>1, <2>2, <2>3, <2>4, <2>5, <2>6 DEF BuildInv
<1>12. pc[b] \notin Early => pc'[b] \notin Early /\ Verified(b)
  BY <1>2, <1>5 DEF Early, Verified
<1>13. QED
  BY <1>2, <1>6, <1>7, <1>8, <1>9, <1>11, <1>12, Frame

-----------------------------------------------------------------------------
(* What a step of a publication leaves alone                               *)

PublishMoves(b) ==
  /\ pc[b] \in Publishing /\ pc'[b] \in Publishing \cup {"failed", "ok"}
  /\ UNCHANGED <<before, latest, overlap, candidates, lockfile, seen, locked,
                 artifact, hashed, probed, undone, touches, lpc, target, ran>>
  /\ \A c \in Builds \ {b} : SameOwn(c)

LEMMA PublishFrame ==
  ASSUME IInv, NEW b \in Builds, PublishMoves(b), Types', Others',
         \A c \in Builds \ {b} : StagedApart(c),
         Staging(b)', Undoing(b)', Harmless(b)', Alone(b) => Publication(b)'
  PROVE  IInv'
<1>1. BuildInv(b) /\ pc[b] \in Publishing
  BY DEF IInv, PublishMoves
<1>2. \A c \in Builds : Alone(c)' <=> Alone(c)
  BY DEF PublishMoves, Alone
<1>3. pc[b] \notin Early \cup {"publish"} /\ pc'[b] \notin Early \cup {"publish"}
  BY DEF PublishMoves, Publishing, Early
<1>4. ASSUME NEW c \in Builds \ {b}
      PROVE  Sole(c)' /\ (Alone(c)' => Publication(c)')
  <2>1. BuildInv(c) /\ SameOwn(c)
    BY DEF IInv, PublishMoves
  <2>2. ~ Alone(c)
    BY <1>1, <2>1 DEF BuildInv, Sole
  <2>3. QED
    BY <1>2, <2>1, <2>2 DEF BuildInv, Sole, SameOwn, PublishMoves
<1>5. BuildInv(b)'
  <2>1. Locks(b)'
    <3>1. \A k \in Kinds : Compiled(b, k)
      BY <1>1 DEF Compiled, Publishing, Ended
    <3>2. pc[b] \notin {"start", "cargo", "locked"} \cup Ended
          /\ pc'[b] # "locked"
      BY <1>1, <1>3 DEF Publishing, Ended, Early
    <3>3. QED
      BY <1>1, <3>1, <3>2 DEF BuildInv, Locks, Resolved, PublishMoves
  <2>2. Artifact(b)'
    <3>1. \A k \in Kinds : Compiled(b, k) /\ Checked(b, k)
      BY <1>1 DEF Compiled, Checked, Publishing, Ended
    <3>2. pc'[b] \notin {"probe", "rehash"}
      BY <1>3 DEF Early
    <3>3. QED
      BY <1>1, <3>1, <3>2 DEF BuildInv, Artifact, Vouched, PublishMoves
  <2>3. Sole(b)'
    <3>1. Alone(b)' => \A c \in Builds \ {b} : pc'[c] \notin Publishing
      BY <1>1, <1>2 DEF BuildInv, Sole, PublishMoves, SameOwn
    <3>2. QED
      BY <1>1, <1>3, <3>1 DEF BuildInv, Sole, PublishMoves
  <2>4. QED
    BY <1>2, <2>1, <2>2, <2>3 DEF BuildInv
<1>6. /\ UNCHANGED <<lockfile, undone, touches, lpc, target, ran>> /\ overlap' = overlap
      /\ pc[b] \notin Early => pc'[b] \notin Early /\ Verified(b)
      /\ \A c \in Builds \ {b} : SameOwn(c)
  BY <1>3 DEF PublishMoves, Verified
<1>7. QED
  BY <1>4, <1>5, <1>6, Frame

\* What the publication of one kind was, it is as long as its paths and its
\* bundles are the same.
LEMMA KindStays ==
  ASSUME NEW b \in Builds, NEW k \in Kinds, dest'[k] = dest[k],
         backup'[b][k] = backup[b][k], content'[k] = content[k],
         before'[b] = before[b], Verified(b), damage \subseteq damage'
  PROVE  /\ Untouched(b, k) => Untouched(b, k)'
         /\ Away(b, k) => Away(b, k)'
         /\ Ready(b, k) => Ready(b, k)'
         /\ Installed(b, k) => Installed(b, k)'
         /\ Removed(b, k) => Removed(b, k)'
         /\ AtHand(b, k) => AtHand(b, k)'
         /\ Settled(b, k) => Settled(b, k)'
         /\ Complete(b, k) => Complete(b, k)'
         /\ Kept(b, k) => Kept(b, k)'
<1>1. /\ Stood(b, k, dest[k]) <=> Stood(b, k, dest[k])'
      /\ Stood(b, k, backup[b][k]) <=> Stood(b, k, backup[b][k])'
  BY DEF Stood
<1>2. /\ Untouched(b, k) => Untouched(b, k)'
      /\ Away(b, k) => Away(b, k)'
      /\ Installed(b, k) => Installed(b, k)'
      /\ Removed(b, k) => Removed(b, k)'
      /\ AtHand(b, k) => AtHand(b, k)'
  BY <1>1 DEF Untouched, Away, Installed, Removed, AtHand
<1>3. /\ Ready(b, k) => Ready(b, k)'
      /\ Settled(b, k) => Settled(b, k)'
  BY <1>2 DEF Ready, Settled
<1>4. /\ Complete(b, k) => Complete(b, k)'
      /\ Kept(b, k) => Kept(b, k)'
  BY DEF Complete, Honest, Vouched, Verified, Kept
<1>5. QED
  BY <1>2, <1>3, <1>4

\* A step that moves nothing has only to be where it should.
LEMMA StandStill ==
  ASSUME NEW b \in Builds, UNCHANGED <<dest, backup, content, before>>, Verified(b),
         damage \subseteq damage', Publication(b),
         pc[b] \in Publishing \ {"cleanup"}, pc'[b] # "killed",
         \A k \in Kinds : Position(b, k)'
  PROVE  Publication(b)'
<1>1. ASSUME NEW k \in Kinds PROVE Kept(b, k)' /\ AtHand(b, k)'
  <2>1. Kept(b, k) /\ AtHand(b, k)
    BY DEF Publication, Publishing
  <2>2. QED
    BY <2>1, KindStays
<1>2. QED
  BY <1>1 DEF Publication

\* Where nothing is renamed and nothing is removed, the others keep theirs.
LEMMA PathsStay ==
  ASSUME UNCHANGED <<dest, backup, content>>, Others
  PROVE  Others' /\ \A c \in Builds : StagedApart(c)
  BY DEF Others, StagedApart, Placed

\* The staged bundle of a build that publishes: it goes, or it is moved in.
LEMMA PublishedStaging ==
  ASSUME NEW b \in Builds, Staging(b), PublishMoves(b),
         \A k \in Kinds :
           /\ stage'[b][k] \in {stage[b][k], Absent}
           /\ Held(b, k)' => /\ Held(b, k) /\ stage'[b][k] = stage[b][k]
                             /\ content'[k][Staged(b)] = content[k][Staged(b)]
           /\ Placed(k, Staged(b))' =>
                \/ Placed(k, Staged(b))
                \/ stage'[b][k] = Absent /\ Complete(b, k)
           /\ content'[k][Staged(b)].exe = content[k][Staged(b)].exe
           /\ content'[k][Staged(b)].digest = content[k][Staged(b)].digest
  PROVE  Staging(b)'
<1>1. pc'[b] \notin Early /\ pc'[b] # "manifest"
  BY DEF PublishMoves, Publishing, Early
<1>2. ASSUME NEW k \in Kinds
      PROVE  /\ stage'[b][k] \in {Absent, Staged(b)}
             /\ Held(b, k)' => stage'[b][k] = Staged(b) /\ Complete(b, k)'
             /\ Placed(k, Staged(b))' =>
                  stage'[b][k] = Absent /\ Honest(b, k)'
             /\ before'[b][k].at # Staged(b)
  <2>1. Honest(b, k) => Honest(b, k)'
    BY DEF Honest, Vouched, Verified, PublishMoves
  <2>2. Held(b, k)' => stage'[b][k] = Staged(b) /\ Complete(b, k)'
    BY <2>1 DEF Staging, Complete
  <2>3. Placed(k, Staged(b))' => stage'[b][k] = Absent /\ Honest(b, k)'
    BY <2>1, Distinct DEF Staging, Complete
  <2>4. QED
    BY <2>2, <2>3 DEF Staging, PublishMoves
<1>3. QED
  BY <1>1, <1>2 DEF Staging

\* Without a fault of its own, and nobody beside it, a build publishes alone.
LEMMA FaultlessIsAlone ==
  ASSUME NEW b \in Builds, BuildInv(b), pc[b] \in Publishing, b \notin overlap
  PROVE  Alone(b) /\ Publication(b)
  BY DEF BuildInv, Sole, Alone

-----------------------------------------------------------------------------
(* A preparation that fails                                                *)

\* What an error in the preparation of side[b] does to the build.
LEMMA Failing ==
  ASSUME Types, NEW b \in Builds, NEW leftover, PrepareFails(b, side[b], leftover),
         leftover \in {stage[b][side[b]], Absent}, side' = side
  PROVE  /\ pc' \in [Builds -> PCs] /\ undo' \in [Builds -> UndoLists]
         /\ stage' \in [Builds -> [Kinds -> Anywhere]]
         /\ \A c \in Builds \ {b} : /\ pc'[c] = pc[c] /\ undo'[c] = undo[c]
                                    /\ stage'[c] = stage[c]
         /\ \A k \in Kinds : stage'[b][k] \in {stage[b][k], Absent}
         /\ \/ side[b] = "acquisition" /\ pc'[b] = "failed"
            \/ /\ side[b] = "processing" /\ pc'[b] = "remove"
               /\ undo'[b] = <<"acquisition">>
<1>1. leftover \in Anywhere
  BY TwoKinds, Distinct DEF Types
<1>2. CASE /\ side[b] = "acquisition"
           /\ stage' = [stage EXCEPT ![b] =
                [acquisition |-> leftover, processing |-> Absent]]
           /\ Goto(b, "failed")
           /\ UNCHANGED undo
  <2> DEFINE left == [acquisition |-> leftover, processing |-> Absent]
  <2>1. left \in [Kinds -> Anywhere] /\ left["acquisition"] = leftover
        /\ left["processing"] = Absent
    BY <1>1, Distinct DEF Kinds
  <2> HIDE DEF left
  <2>2. stage' = [stage EXCEPT ![b] = left] /\ pc' = [pc EXCEPT ![b] = "failed"]
    BY <1>2 DEF left, Goto
  <2>3. stage' \in [Builds -> [Kinds -> Anywhere]] /\ stage'[b] = left
    BY <2>1, <2>2 DEF Types
  <2>4. pc' \in [Builds -> PCs] /\ pc'[b] = "failed"
    BY <2>2 DEF Types, PCs, Finished
  <2>5. \A k \in Kinds : stage'[b][k] \in {stage[b][k], Absent}
    BY <1>2, <2>1, <2>3, TwoKinds
  <2>6. QED
    BY <1>2, <2>2, <2>3, <2>4, <2>5 DEF Types
<1>3. CASE /\ side[b] = "processing"
           /\ stage' = [stage EXCEPT ![b].processing = leftover]
           /\ Rollback(b, <<"acquisition">>)
  <2>1. /\ pc' = [pc EXCEPT ![b] = "remove"]
        /\ undo' = [undo EXCEPT ![b] = <<"acquisition">>]
        /\ stage' = [stage EXCEPT ![b]["processing"] = leftover]
    BY <1>3 DEF Rollback, Goto
  <2>2. stage' \in [Builds -> [Kinds -> Anywhere]]
        /\ stage'[b] = [stage[b] EXCEPT !["processing"] = leftover]
    BY <1>1, <2>1, TwoKinds DEF Types
  <2>3. /\ pc' \in [Builds -> PCs] /\ pc'[b] = "remove"
        /\ undo' \in [Builds -> UndoLists] /\ undo'[b] = <<"acquisition">>
    BY <2>1 DEF Types, PCs, Publishing, UndoLists
  <2>4. \A k \in Kinds : stage'[b][k] \in {stage[b][k], Absent}
    BY <1>3, <2>2, TwoKinds DEF Types
  <2>5. QED
    BY <1>3, <2>1, <2>2, <2>3, <2>4 DEF Types
<1>4. QED
  BY <1>2, <1>3 DEF PrepareFails

\* It is where it should be if the kind it was about is settled.
LEMMA FailedPreparation ==
  ASSUME IInv, NEW b \in Builds, pc[b] \in Forward,
         NEW leftover, PrepareFails(b, side[b], leftover),
         leftover \in {stage[b][side[b]], Absent},
         UNCHANGED <<dest, backup, content, side, before, latest, overlap,
                     candidates, launchVars>>,
         damage \subseteq damage', damage' \subseteq Builds,
         b \in FaultProne \cup SyncProne \cup overlap,
         Alone(b) /\ Publication(b) => Settled(b, side[b])'
  PROVE  IInv'
<1>0. Types /\ BuildInv(b) /\ Others /\ pc[b] \in Publishing
  BY DEF IInv, Forward, Publishing
<1>1. /\ pc' \in [Builds -> PCs] /\ undo' \in [Builds -> UndoLists]
      /\ stage' \in [Builds -> [Kinds -> Anywhere]]
      /\ \A c \in Builds \ {b} : /\ pc'[c] = pc[c] /\ undo'[c] = undo[c]
                                 /\ stage'[c] = stage[c]
      /\ \A k \in Kinds : stage'[b][k] \in {stage[b][k], Absent}
      /\ \/ side[b] = "acquisition" /\ pc'[b] = "failed"
         \/ /\ side[b] = "processing" /\ pc'[b] = "remove"
            /\ undo'[b] = <<"acquisition">>
  BY <1>0, Failing
<1>2. \A c \in Builds \ {b} : SameOwn(c)
  BY <1>1 DEF SameOwn, candidates, edits, Verified
<1>3. PublishMoves(b)
  BY <1>0, <1>1, <1>2 DEF PublishMoves, Publishing, candidates, edits, Verified, launchVars
<1>4. Types'
  BY <1>0, <1>1 DEF Types, candidates, edits, Verified, launchVars
<1>5. Others' /\ \A c \in Builds : StagedApart(c)
  BY <1>0, PathsStay
<1>6. Staging(b)'
  <2>1. \A k \in Kinds : ~ Held(b, k)'
    BY <1>1 DEF Held
  <2>2. \A k \in Kinds : Placed(k, Staged(b))' => Placed(k, Staged(b))
    BY DEF Placed
  <2>3. QED
    BY <1>0, <1>1, <1>3, <2>1, <2>2, PublishedStaging DEF BuildInv
<1>7. Undoing(b)'
  BY <1>1, UndoOrder DEF Undoing, Early
<1>8. Harmless(b)'
  BY DEF Harmless
<1>9. ASSUME Alone(b) PROVE Publication(b)'
  <2>1. Publication(b)
    BY <1>0, <1>9 DEF BuildInv
  <2>2. Settled(b, side[b])'
    BY <1>9, <2>1
  <2>3. ASSUME NEW k \in Kinds PROVE Position(b, k)'
    <3>1. Position(b, k)
      BY <2>1 DEF Publication
    <3>2. CASE side[b] = "acquisition" /\ pc'[b] = "failed"
      <4>1. CASE k = side[b]
        BY <2>2, <3>2, <4>1 DEF Position, Forward
      <4>2. CASE k # side[b]
        <5>1. Untouched(b, k)
          BY <3>1, <3>2, <4>2 DEF Position, Past
        <5>2. Settled(b, k)'
          BY <5>1, KindStays DEF Settled, candidates, edits, Verified
        <5>3. QED
          BY <3>2, <5>2 DEF Position, Forward
      <4>3. QED
        BY <4>1, <4>2
    <3>3. CASE /\ side[b] = "processing" /\ pc'[b] = "remove"
               /\ undo'[b] = <<"acquisition">>
      <4>1. CASE k = side[b]
        BY <2>2, <3>3, <4>1 DEF Position, Forward
      <4>2. CASE k # side[b]
        <5>1. Installed(b, k) /\ k = "acquisition"
          BY <3>1, <3>3, <4>2, TwoKinds DEF Position, Past
        <5>2. Installed(b, k)'
          BY <5>1, KindStays DEF candidates, edits, Verified
        <5>3. QED
          BY <3>3, <5>1, <5>2 DEF Position, Forward
      <4>3. QED
        BY <4>1, <4>2
    <3>4. QED
      BY <1>1, <3>2, <3>3
  <2>4. QED
    BY <1>0, <1>1, <2>1, <2>3, StandStill DEF Forward, candidates, edits, Verified
<1>10. QED
  BY <1>3, <1>4, <1>5, <1>6, <1>7, <1>8, <1>9, PublishFrame

-----------------------------------------------------------------------------
(* The steps that move nothing                                             *)

LEMMA Onward ==
  ASSUME IInv, NEW b \in Builds, pc[b] \in Publishing \ {"cleanup"},
         NEW next \in Publishing \ {"remove", "putBack"}, NEW m \in Kinds,
         pc' = [pc EXCEPT ![b] = next], side' = [side EXCEPT ![b] = m],
         UNCHANGED <<paths, undo, history, candidates, launchVars>>,
         next \in {"restore", "discard"} => b \in FaultProne \cup overlap,
         \A k \in Kinds : Held(b, k)' => Held(b, k),
         Alone(b) /\ Publication(b) => \A k \in Kinds : Position(b, k)'
  PROVE  IInv'
<1>0. Types /\ BuildInv(b) /\ Others
  BY DEF IInv
<1>1. pc'[b] = next /\ side'[b] = m
  BY <1>0 DEF Types
<1>2. UNCHANGED <<dest, backup, stage, content, before, latest, overlap, damage>>
  BY DEF paths, history
<1>3. \A c \in Builds \ {b} : SameOwn(c)
  BY <1>0, <1>2 DEF SameOwn, Types, candidates, edits, Verified
<1>4. PublishMoves(b)
  BY <1>1, <1>2, <1>3 DEF PublishMoves, candidates, edits, Verified, launchVars
<1>5. Types'
  BY <1>0, <1>2 DEF Types, PCs, candidates, edits, Verified, launchVars
<1>6. Others' /\ \A c \in Builds : StagedApart(c)
  BY <1>0, <1>2, PathsStay
<1>7. Staging(b)'
  <2>1. \A k \in Kinds : Placed(k, Staged(b))' => Placed(k, Staged(b))
    BY <1>2 DEF Placed
  <2>2. QED
    BY <1>0, <1>2, <1>4, <2>1, PublishedStaging DEF BuildInv
<1>8. Undoing(b)' /\ Harmless(b)'
  <2>1. Harmless(b)'
    BY <1>1, <1>2 DEF Harmless, Publishing
  <2>2. Undoing(b)'
    BY <1>1 DEF Undoing, Early, Publishing
  <2>3. QED
    BY <2>1, <2>2
<1>9. ASSUME Alone(b) PROVE Publication(b)'
  <2>1. Publication(b)
    BY <1>0, <1>9 DEF BuildInv
  <2>2. pc'[b] # "killed" /\ Verified(b)
    BY <1>1 DEF Publishing, candidates, edits, Verified
  <2>3. QED
    BY <1>2, <1>9, <2>1, <2>2, StandStill
<1>10. QED
  BY <1>4, <1>5, <1>6, <1>7, <1>8, <1>9, PublishFrame

LEMMA CompleteIsAdmissible ==
  ASSUME NEW b \in Builds, NEW k \in Kinds, Complete(b, k)
  PROVE  Admissible(Bundle(k, Staged(b)))
  BY Distinct DEF Complete, Honest, Vouched, Verified, Admissible, OnlyBundleFiles, Bundle

LEMMA AdmitStagedStep ==
  ASSUME IInv, NEW b \in Builds, AdmitStaged(b),
         UNCHANGED <<candidates, launchVars>>
  PROVE  IInv'
<1>0. Types /\ BuildInv(b) /\ Others
  BY DEF IInv
<1>1. pc[b] = "admitStaged" /\ side[b] \in Kinds
  BY <1>0 DEF AdmitStaged, Types
<1>2. UNCHANGED <<dest, backup, content, undo, history, before, latest, overlap,
                  damage>>
  BY DEF AdmitStaged, history
<1>3. ASSUME stage' = stage, NEW next \in {"admitStaged", "inspect"},
             NEW m \in Kinds, GotoFor(b, next, m),
             \/ side[b] = "acquisition" /\ next = "admitStaged" /\ m = "processing"
             \/ side[b] # "acquisition" /\ next = "inspect" /\ m = "acquisition"
      PROVE  IInv'
  <2>1. pc' = [pc EXCEPT ![b] = next] /\ side' = [side EXCEPT ![b] = m]
    BY <1>3 DEF GotoFor, Goto
  <2>2. pc'[b] = next /\ side'[b] = m
    BY <1>0, <2>1 DEF Types
  <2>3. \A k \in Kinds : Held(b, k)' => Held(b, k)
    BY <1>1 DEF Held
  <2>4. ASSUME Publication(b), NEW k \in Kinds PROVE Position(b, k)'
    <3>1. Untouched(b, k)
      BY <1>1, <2>4 DEF Publication, Position
    <3>2. Untouched(b, k)'
      BY <1>2, <3>1 DEF Untouched, Stood
    <3>3. ~ Past(b, k)' \/ next = "admitStaged"
      BY <1>3, <2>2 DEF Past
    <3>4. QED
      BY <2>2, <3>2, <3>3 DEF Position, AtSide, Forward
  <2>5. pc[b] \in Publishing \ {"cleanup"} /\ next \in Publishing \ {"remove", "putBack"}
        /\ next \notin {"restore", "discard"}
    BY <1>1 DEF Publishing
  <2>6. QED
    BY <1>2, <1>3, <2>1, <2>3, <2>4, <2>5, Onward DEF paths
<1>4. CASE /\ b \in FaultProne \/ ~ Admissible(Bundle(side[b], stage[b][side[b]]))
           /\ Abort(b, Kinds) /\ UNCHANGED side
  <2>1. /\ pc' = [pc EXCEPT ![b] = "failed"]
        /\ stage' = [stage EXCEPT ![b] =
             [k \in Kinds |-> IF k \in Kinds THEN Absent ELSE stage[b][k]]]
    BY <1>4 DEF Abort, Goto
  <2>2. pc'[b] = "failed" /\ \A k \in Kinds : stage'[b][k] = Absent
    BY <1>0, <2>1 DEF Types
  <2>3. \A c \in Builds \ {b} : SameOwn(c)
    BY <1>0, <1>2, <1>4, <2>1 DEF SameOwn, Types, candidates, edits, Verified
  <2>4. Types'
    <3>1. stage' \in [Builds -> [Kinds -> Anywhere]]
      BY <1>0, <2>1, Distinct DEF Types
    <3>2. QED
      BY <1>0, <1>2, <1>4, <2>1, <3>1 DEF Types, PCs, Finished, candidates, edits, Verified, launchVars
  <2>5. b \in FaultProne
    <3>1. Held(b, side[b])
      BY <1>1 DEF Held
    <3>2. stage[b][side[b]] = Staged(b) /\ Complete(b, side[b])
      BY <1>0, <1>1, <3>1 DEF BuildInv, Staging
    <3>3. QED
      BY <1>1, <1>4, <3>2, CompleteIsAdmissible
  <2>6. PublishMoves(b)
    BY <1>1, <1>2, <2>2, <2>3 DEF PublishMoves, Publishing, candidates, edits, Verified, launchVars
  <2>7. Others' /\ \A c \in Builds : StagedApart(c)
    BY <1>0, <1>2, PathsStay
  <2>8. Staging(b)'
    <3>1. \A k \in Kinds : ~ Held(b, k)'
      BY <2>2 DEF Held
    <3>2. \A k \in Kinds : Placed(k, Staged(b))' => Placed(k, Staged(b))
      BY <1>2 DEF Placed
    <3>3. QED
      BY <1>0, <1>2, <2>2, <2>6, <3>1, <3>2, PublishedStaging DEF BuildInv
  <2>9. Undoing(b)' /\ Harmless(b)'
    BY <2>2, <2>5 DEF Undoing, Harmless, Early
  <2>10. ASSUME Alone(b) PROVE Publication(b)'
    <3>1. Publication(b)
      BY <1>0, <2>10 DEF BuildInv
    <3>2. ASSUME NEW k \in Kinds PROVE Position(b, k)'
      <4>1. Untouched(b, k)
        BY <1>1, <3>1 DEF Publication, Position
      <4>2. Settled(b, k)'
        BY <1>2, <4>1 DEF Settled, Untouched, Stood
      <4>3. QED
        BY <2>2, <4>2 DEF Position, Forward
    <3>3. QED
      BY <1>1, <1>2, <2>2, <3>1, <3>2, StandStill DEF Publishing, candidates, edits, Verified
  <2>11. QED
    BY <2>4, <2>6, <2>7, <2>8, <2>9, <2>10, PublishFrame
<1>5. QED
  BY <1>3, <1>4, TwoKinds DEF AdmitStaged

LEMMA InspectStep ==
  ASSUME IInv, NEW b \in Builds, Inspect(b), UNCHANGED <<candidates, launchVars>>
  PROVE  IInv'
<1>0. Types /\ BuildInv(b)
  BY DEF IInv
<1>1. pc[b] = "inspect" /\ side[b] \in Kinds
  BY <1>0 DEF Inspect, Types
<1>2. UNCHANGED <<dest, backup, content, side, history, before, latest, overlap,
                  damage>>
  BY DEF Inspect, history
<1>3. ASSUME NEW next \in {"install", "moveAway"}, Goto(b, next),
             stage' = stage, undo' = undo,
             dest[side[b]] = Absent <=> next = "install"
      PROVE  IInv'
  <2>1. pc' = [pc EXCEPT ![b] = next] /\ side' = [side EXCEPT ![b] = side[b]]
    BY <1>0, <1>2, <1>3 DEF Goto, Types
  <2>2. pc'[b] = next
    BY <1>0, <2>1 DEF Types
  <2>3. \A k \in Kinds : Held(b, k)' => Held(b, k)
    BY <1>1, <1>2, <2>2 DEF Held, Past
  <2>4. ASSUME Publication(b), NEW k \in Kinds PROVE Position(b, k)'
    <3>1. Position(b, k)
      BY <2>4 DEF Publication
    <3>2. CASE k = side[b]
      <4>1. Untouched(b, k)
        BY <1>1, <3>1, <3>2 DEF Position, AtSide, Forward
      <4>2. next = "install" => before[b][k].at = Absent
        BY <1>3, <3>2, <4>1, Distinct DEF Untouched, Stood
      <4>3. Untouched(b, k)'
        BY <1>2, <4>1 DEF Untouched, Stood
      <4>4. AtSide(b, k)'
        BY <1>2, <1>3, <2>2, <3>2, <4>2, <4>3 DEF AtSide, Ready
      <4>5. QED
        BY <1>2, <2>2, <3>2, <4>4 DEF Position, Forward
    <3>3. CASE k # side[b]
      <4>1. IF Past(b, k) THEN Installed(b, k) /\ Complete(b, k)
                          ELSE Untouched(b, k)
        BY <1>1, <3>1, <3>3 DEF Position, Forward
      <4>2. IF Past(b, k)' THEN Installed(b, k)' /\ Complete(b, k)'
                           ELSE Untouched(b, k)'
        BY <1>2, <4>1, KindStays DEF Past, candidates, edits, Verified
      <4>3. QED
        BY <1>2, <2>2, <3>3, <4>2 DEF Position, Forward
    <3>4. QED
      BY <3>2, <3>3
  <2>5. pc[b] \in Publishing \ {"cleanup"} /\ next \in Publishing \ {"remove", "putBack"}
        /\ next \notin {"restore", "discard"}
    BY <1>1, <1>3 DEF Publishing
  <2>6. QED
    BY <1>1, <1>2, <1>3, <2>1, <2>3, <2>4, <2>5, Onward DEF paths
<1>4. CASE b \in FaultProne /\ PrepareFails(b, side[b], stage[b][side[b]])
  <2>1. Alone(b) /\ Publication(b) => Settled(b, side[b])'
    <3>1. ASSUME Publication(b) PROVE Untouched(b, side[b])
      BY <1>1, <3>1 DEF Publication, Position, AtSide, Forward
    <3>2. QED
      BY <1>2, <3>1 DEF Settled, Untouched, Stood
  <2>2. pc[b] \in Forward
    BY <1>1 DEF Forward
  <2>3. damage \subseteq damage' /\ damage' \subseteq Builds
    BY <1>0, <1>2 DEF Types
  <2>4. QED
    BY <1>2, <1>4, <2>1, <2>2, <2>3, FailedPreparation
<1>5. QED
  BY <1>3, <1>4 DEF Inspect

-----------------------------------------------------------------------------
(* Renames between a destination and its backup                            *)

MovedAway(b, k) ==
  /\ dest' = [dest EXCEPT ![k] = Absent]
  /\ backup' = [backup EXCEPT ![b][k] = dest[k]]
MovedBack(b, k) ==
  /\ dest' = [dest EXCEPT ![k] = backup[b][k]]
  /\ backup' = [backup EXCEPT ![b][k] = Absent]

LEMMA Transfer ==
  ASSUME Types, Others, NEW b \in Builds, NEW k \in Kinds, content' = content,
         MovedAway(b, k) \/ MovedBack(b, k) \/ UNCHANGED <<dest, backup>>
  PROVE  /\ dest' \in [Kinds -> Anywhere]
         /\ backup' \in [Builds -> [Kinds -> Anywhere]]
         /\ \A c \in Builds \ {b} : backup'[c] = backup[c]
         /\ \A j \in Kinds \ {k} : dest'[j] = dest[j] /\ backup'[b][j] = backup[b][j]
         /\ \A j \in Kinds, c \in Builds : Placed(j, Staged(c))' => Placed(j, Staged(c))
         /\ Others' /\ \A c \in Builds : StagedApart(c)
         /\ MovedAway(b, k) => dest'[k] = Absent /\ backup'[b][k] = dest[k]
         /\ MovedBack(b, k) => dest'[k] = backup[b][k] /\ backup'[b][k] = Absent
<1>1. /\ dest' \in [Kinds -> Anywhere]
      /\ backup' \in [Builds -> [Kinds -> Anywhere]]
  <2>1. CASE MovedAway(b, k)
    <3>1. dest[k] \in Anywhere
      BY DEF Types
    <3>2. QED
      BY <2>1, <3>1, Distinct DEF MovedAway, Types
  <2>2. CASE MovedBack(b, k)
    <3>1. backup[b][k] \in Anywhere
      BY DEF Types
    <3>2. QED
      BY <2>2, <3>1, Distinct DEF MovedBack, Types
  <2>3. CASE UNCHANGED <<dest, backup>>
    BY <2>3 DEF Types
  <2>4. QED
    BY <2>1, <2>2, <2>3
<1>2. \A c \in Builds \ {b} : backup'[c] = backup[c]
  BY DEF MovedAway, MovedBack, Types
<1>3. \A j \in Kinds \ {k} : dest'[j] = dest[j] /\ backup'[b][j] = backup[b][j]
  BY DEF MovedAway, MovedBack, Types
<1>4. /\ MovedAway(b, k) => dest'[k] = Absent /\ backup'[b][k] = dest[k]
      /\ MovedBack(b, k) => dest'[k] = backup[b][k] /\ backup'[b][k] = Absent
  BY DEF MovedAway, MovedBack, Types
<1>5. ASSUME NEW j \in Kinds, NEW c \in Builds, Placed(j, Staged(c))'
      PROVE  Placed(j, Staged(c))
  <2>1. CASE j # k
    BY <1>2, <1>3, <1>5, <2>1 DEF Placed
  <2>2. CASE j = k
    BY <1>2, <1>4, <1>5, <2>2, Distinct DEF Placed
  <2>3. QED
    BY <2>1, <2>2
<1>6. Others' /\ \A c \in Builds : StagedApart(c)
  BY <1>5 DEF Others, StagedApart
<1>7. QED
  BY <1>1, <1>2, <1>3, <1>4, <1>5, <1>6

\* The kind a forward step is not about.
LEMMA OtherKind ==
  ASSUME NEW b \in Builds, NEW k \in Kinds, Position(b, k), k # side[b],
         pc[b] \in Forward, pc'[b] \in Forward, side' = side,
         dest'[k] = dest[k], backup'[b][k] = backup[b][k], content'[k] = content[k],
         before'[b] = before[b], Verified(b), damage \subseteq damage'
  PROVE  Position(b, k)'
<1>1. IF Past(b, k) THEN Installed(b, k) /\ Complete(b, k) ELSE Untouched(b, k)
  BY DEF Position
<1>2. IF Past(b, k)' THEN Installed(b, k)' /\ Complete(b, k)' ELSE Untouched(b, k)'
  BY <1>1, KindStays DEF Past
<1>3. QED
  BY <1>2 DEF Position, Forward

\* A forward step that renames, or fails to.
LEMMA ForwardMove ==
  ASSUME IInv, NEW b \in Builds, pc[b] \in Forward, NEW next \in Forward,
         pc' = [pc EXCEPT ![b] = next],
         MovedAway(b, side[b]) \/ MovedBack(b, side[b]) \/ UNCHANGED <<dest, backup>>,
         UNCHANGED <<stage, content, side, undo, before, latest, overlap,
                     candidates, launchVars>>,
         damage \subseteq damage', damage' \subseteq Builds,
         next \in {"restore", "discard"} => b \in FaultProne \cup SyncProne \cup overlap,
         \A k \in Kinds : Held(b, k)' => Held(b, k),
         Publication(b) => AtSide(b, side[b])' /\ AtHand(b, side[b])'
  PROVE  IInv'
<1>0. Types /\ BuildInv(b) /\ Others /\ side[b] \in Kinds
  BY DEF IInv, Types
<1>1. pc'[b] = next
  BY <1>0 DEF Types
<1>2. /\ dest' \in [Kinds -> Anywhere]
      /\ backup' \in [Builds -> [Kinds -> Anywhere]]
      /\ \A c \in Builds \ {b} : backup'[c] = backup[c]
      /\ \A j \in Kinds \ {side[b]} : dest'[j] = dest[j] /\ backup'[b][j] = backup[b][j]
      /\ \A j \in Kinds, c \in Builds : Placed(j, Staged(c))' => Placed(j, Staged(c))
      /\ Others' /\ \A c \in Builds : StagedApart(c)
  BY <1>0, Transfer
<1>3. \A c \in Builds \ {b} : SameOwn(c)
  BY <1>0, <1>2 DEF SameOwn, Types, candidates, edits, Verified
<1>4. PublishMoves(b)
  BY <1>1, <1>3 DEF PublishMoves, Publishing, Forward, candidates, edits, Verified, launchVars
<1>5. Types'
  BY <1>0, <1>2 DEF Types, PCs, Publishing, Forward, candidates, edits, Verified, launchVars
<1>6. Staging(b)'
  BY <1>0, <1>2, <1>4, PublishedStaging DEF BuildInv
<1>7. Undoing(b)'
  BY <1>1 DEF Undoing, Early, Forward
<1>8. Harmless(b)'
  BY <1>1 DEF Harmless, Forward
<1>9. ASSUME Alone(b) PROVE Publication(b)'
  <2>1. Publication(b)
    BY <1>0, <1>9 DEF BuildInv
  <2>2. \A k \in Kinds : Position(b, k) /\ Kept(b, k) /\ AtHand(b, k)
    BY <2>1 DEF Publication, Forward
  <2>3. ASSUME NEW k \in Kinds, k # side[b]
        PROVE  Position(b, k)' /\ AtHand(b, k)'
    <3>1. dest'[k] = dest[k] /\ backup'[b][k] = backup[b][k]
      BY <1>2, <2>3
    <3>2. Verified(b)
      BY DEF candidates, edits, Verified
    <3>3. Position(b, k)'
      BY <1>1, <2>2, <2>3, <3>1, <3>2, OtherKind
    <3>4. AtHand(b, k)'
      BY <2>2, <3>1 DEF AtHand, Stood
    <3>5. QED
      BY <3>3, <3>4
  <2>4. Position(b, side[b])' /\ AtHand(b, side[b])'
    BY <1>1, <2>1 DEF Position, Forward
  <2>5. \A k \in Kinds : Kept(b, k)'
    BY <2>2 DEF Kept
  <2>6. QED
    BY <1>1, <2>3, <2>4, <2>5 DEF Publication, Forward
<1>10. QED
  BY <1>2, <1>4, <1>5, <1>6, <1>7, <1>8, <1>9, PublishFrame

LEMMA MoveAwayStep ==
  ASSUME IInv, NEW b \in Builds, MoveAway(b), UNCHANGED <<candidates, launchVars>>
  PROVE  IInv'
<1>0. Types /\ BuildInv(b)
  BY DEF IInv
<1>1. pc[b] = "moveAway" /\ side[b] \in Kinds /\ pc[b] \in Forward
  BY <1>0 DEF MoveAway, Types, Forward
<1>2. UNCHANGED <<content, side, before, latest, overlap, damage>>
      /\ damage' \subseteq Builds
  BY <1>0 DEF MoveAway, history, Types
<1>3. CASE /\ dest[side[b]] # Absent
           /\ MovedAway(b, side[b])
           /\ Goto(b, "install")
           /\ UNCHANGED <<stage, undo>>
  <2>1. pc' = [pc EXCEPT ![b] = "install"] /\ pc'[b] = "install"
    BY <1>0, <1>3 DEF Goto, Types
  <2>2. \A k \in Kinds : Held(b, k)' => Held(b, k)
    BY <1>1, <1>2, <2>1 DEF Held, Past
  <2>3. ASSUME Publication(b) PROVE AtSide(b, side[b])' /\ AtHand(b, side[b])'
    <3>1. Untouched(b, side[b])
      BY <1>1, <2>3 DEF Publication, Position, AtSide
    <3>2. dest'[side[b]] = Absent /\ backup'[b][side[b]] = dest[side[b]]
      BY <1>0, <1>1, <1>3 DEF MovedAway, Types
    <3>3. Stood(b, side[b], backup[b][side[b]])' /\ Away(b, side[b])'
      BY <1>2, <1>3, <3>1, <3>2, Distinct DEF Untouched, Away, Stood
    <3>4. QED
      BY <2>1, <3>3 DEF AtSide, Ready, AtHand
  <2>4. "install" \in Forward /\ "install" \notin {"restore", "discard"}
    BY DEF Forward
  <2>5. QED
    BY <1>1, <1>2, <1>3, <2>1, <2>2, <2>3, <2>4, ForwardMove
<1>4. CASE /\ b \in FaultProne \/ dest[side[b]] = Absent
           /\ PrepareFails(b, side[b], stage[b][side[b]])
           /\ UNCHANGED <<dest, backup>>
  <2>1. ASSUME Publication(b)
        PROVE  Untouched(b, side[b]) /\ dest[side[b]] # Absent
    BY <1>1, <2>1 DEF Publication, Position, AtSide
  <2>2. Alone(b) /\ Publication(b) => Settled(b, side[b])'
    BY <1>2, <1>4, <2>1 DEF Settled, Untouched, Stood
  <2>3. b \in FaultProne \cup SyncProne \cup overlap
    BY <1>0, <1>1, <1>4, <2>1, FaultlessIsAlone DEF Publishing
  <2>4. QED
    BY <1>1, <1>2, <1>4, <2>2, <2>3, FailedPreparation
<1>5. QED
  BY <1>3, <1>4 DEF MoveAway, MovedAway

LEMMA RestoreStep ==
  ASSUME IInv, NEW b \in Builds, Restore(b), UNCHANGED <<candidates, launchVars>>
  PROVE  IInv'
<1>0. Types /\ BuildInv(b)
  BY DEF IInv
<1>1. pc[b] = "restore" /\ side[b] \in Kinds /\ pc[b] \in Forward
  BY <1>0 DEF Restore, Types, Forward
<1>2. UNCHANGED <<stage, content, side, undo, before, latest, overlap>>
      /\ pc' = [pc EXCEPT ![b] = "discard"]
  BY DEF Restore, Goto
<1>3. \/ MovedBack(b, side[b]) /\ UNCHANGED damage
      \/ damage' = damage \cup {b} /\ UNCHANGED <<dest, backup>>
  BY DEF Restore, MovedBack
<1>4. pc'[b] = "discard" /\ "discard" \in Forward
      /\ damage \subseteq damage' /\ damage' \subseteq Builds
  BY <1>0, <1>2, <1>3 DEF Types, Forward
<1>5. b \in FaultProne \cup SyncProne \cup overlap
  BY <1>0, <1>1 DEF BuildInv, Harmless
<1>6. \A k \in Kinds : Held(b, k)' => Held(b, k)
  BY <1>4 DEF Held
<1>7. ASSUME Publication(b) PROVE AtSide(b, side[b])' /\ AtHand(b, side[b])'
  <2>1. Away(b, side[b])
    BY <1>1, <1>7 DEF Publication, Position, AtSide
  <2>2. Settled(b, side[b])'
    <3>1. CASE MovedBack(b, side[b])
      <4>1. dest'[side[b]] = backup[b][side[b]] /\ backup'[b][side[b]] = Absent
        BY <1>0, <1>1, <3>1 DEF MovedBack, Types
      <4>2. QED
        BY <1>2, <2>1, <4>1 DEF Away, Settled, Untouched, Stood
    <3>2. CASE damage' = damage \cup {b} /\ UNCHANGED <<dest, backup>>
      BY <1>2, <2>1, <3>2 DEF Away, Settled, AtHand, Stood
    <3>3. QED
      BY <1>3, <3>1, <3>2
  <2>3. QED
    BY <1>2, <1>4, <2>2 DEF AtSide, Settled, Untouched, AtHand
<1>8. MovedBack(b, side[b]) \/ UNCHANGED <<dest, backup>>
  BY <1>3
<1>9. QED
  BY <1>1, <1>2, <1>4, <1>5, <1>6, <1>7, <1>8, ForwardMove

-----------------------------------------------------------------------------
(* The staged bundle is moved in                                           *)

LEMMA InstallStep ==
  ASSUME IInv, NEW b \in Builds, Install(b), UNCHANGED <<candidates, launchVars>>
  PROVE  IInv'
<1>0. Types /\ BuildInv(b) /\ Others
  BY DEF IInv
<1> DEFINE k == side[b]
<1>1. pc[b] = "install" /\ k \in Kinds /\ pc[b] \in Forward
  BY <1>0 DEF Install, Types, Forward
<1>2. UNCHANGED <<backup, content, side, undo, history, before, latest, overlap,
                  damage>>
  BY DEF Install, history
<1>3. stage[b][k] = Staged(b) /\ Complete(b, k)
  <2>1. Held(b, k)
    BY <1>1 DEF Held, Past
  <2>2. QED
    BY <1>0, <1>1, <2>1 DEF BuildInv, Staging
<1>4. ASSUME Publication(b) PROVE Ready(b, k)
  BY <1>1, <1>4 DEF Publication, Position, AtSide
<1>5. CASE /\ dest' = [dest EXCEPT ![k] = stage[b][k]]
           /\ stage' = [stage EXCEPT ![b][k] = Absent]
           /\ Goto(b, "sync")
  <2>1. pc' = [pc EXCEPT ![b] = "sync"] /\ pc'[b] = "sync"
    BY <1>0, <1>5 DEF Goto, Types
  <2>2. /\ stage'[b][k] = Absent /\ dest'[k] = Staged(b)
        /\ \A j \in Kinds : j # k => dest'[j] = dest[j] /\ stage'[b][j] = stage[b][j]
        /\ dest' \in [Kinds -> Anywhere] /\ stage' \in [Builds -> [Kinds -> Anywhere]]
    BY <1>0, <1>1, <1>3, <1>5, Distinct DEF Types
  <2>3. \A c \in Builds \ {b} : SameOwn(c)
    BY <1>0, <1>2, <1>5, <2>1 DEF SameOwn, Types, candidates, edits, Verified
  <2>4. PublishMoves(b)
    BY <1>1, <1>2, <2>1, <2>3 DEF PublishMoves, Publishing, candidates, edits, Verified, launchVars
  <2>5. Types'
    BY <1>0, <1>2, <2>1, <2>2 DEF Types, PCs, Publishing, candidates, edits, Verified, launchVars
  <2>6. Others'
    BY <1>0, <1>2 DEF Others
  <2>7. ASSUME NEW c \in Builds \ {b} PROVE StagedApart(c)
    <3>1. \A j \in Kinds : Placed(j, Staged(c))' => Placed(j, Staged(c))
      BY <1>2, <2>2, Distinct DEF Placed
    <3>2. QED
      BY <1>2, <3>1 DEF StagedApart
  <2>8. Staging(b)'
    <3>1. ASSUME NEW j \in Kinds, Placed(j, Staged(b))'
          PROVE  \/ Placed(j, Staged(b))
                 \/ stage'[b][j] = Absent /\ Complete(b, j)
      BY <1>2, <1>3, <2>2, <3>1 DEF Placed
    <3>2. \A j \in Kinds : Held(b, j)' => Held(b, j) /\ stage'[b][j] = stage[b][j]
      <4>1. \A j \in Kinds : Held(b, j)' => Held(b, j) /\ j # k
        BY <1>1, <1>2, <2>1 DEF Held, Past
      <4>2. QED
        BY <2>2, <4>1
    <3>3. \A j \in Kinds : stage'[b][j] \in {stage[b][j], Absent}
      BY <2>2
    <3>4. QED
      BY <1>0, <1>2, <2>4, <3>1, <3>2, <3>3, PublishedStaging DEF BuildInv
  <2>9. Undoing(b)' /\ Harmless(b)'
    BY <2>1 DEF Undoing, Harmless, Early
  <2>10. ASSUME Alone(b) PROVE Publication(b)'
    <3>1. Publication(b)
      BY <1>0, <2>10 DEF BuildInv
    <3>2. \A j \in Kinds : Position(b, j) /\ Kept(b, j) /\ AtHand(b, j)
      BY <1>1, <3>1 DEF Publication
    <3>3. Stood(b, k, backup[b][k])'
      BY <1>2, <1>4, <3>1 DEF Ready, Away, Untouched, Stood
    <3>4. Installed(b, k)' /\ Complete(b, k)' /\ AtHand(b, k)'
      BY <1>2, <1>3, <2>2, <3>3 DEF Installed, Complete, Honest, Vouched, AtHand, candidates, edits, Verified
    <3>5. Position(b, k)'
      BY <1>2, <2>1, <3>4 DEF Position, AtSide, Forward
    <3>6. ASSUME NEW j \in Kinds, j # k PROVE Position(b, j)' /\ AtHand(b, j)'
      <4>1. Position(b, j)'
        <5>1. /\ dest'[j] = dest[j] /\ backup'[b][j] = backup[b][j]
              /\ content'[j] = content[j] /\ before'[b] = before[b]
              /\ Verified(b) /\ damage \subseteq damage'
              /\ side' = side /\ pc'[b] \in Forward
          BY <1>2, <2>1, <2>2, <3>6 DEF Forward, candidates, edits, Verified
        <5>2. QED
          BY <1>1, <3>2, <3>6, <5>1, OtherKind
      <4>2. AtHand(b, j)'
        BY <1>2, <2>2, <3>2, <3>6 DEF AtHand, Stood
      <4>3. QED
        BY <4>1, <4>2
    <3>7. \A j \in Kinds : Kept(b, j)'
      BY <1>2, <3>2 DEF Kept
    <3>8. QED
      BY <1>2, <2>1, <3>4, <3>5, <3>6, <3>7 DEF Publication
  <2>11. QED
    BY <2>4, <2>5, <2>6, <2>7, <2>8, <2>9, <2>10, PublishFrame
<1>6. ASSUME b \in FaultProne \/ ~ MayReplace(k, dest[k]),
             UNCHANGED <<dest, stage>>,
             NEW next \in {"restore", "discard"}, Goto(b, next),
             next = "discard" <=> backup[b][k] = Absent
      PROVE  IInv'
  <2>1. pc' = [pc EXCEPT ![b] = next] /\ pc'[b] = next
    BY <1>0, <1>6 DEF Goto, Types
  <2>2. ASSUME Publication(b) PROVE MayReplace(k, dest[k])
    <3>1. dest[k] \in Empties
      BY <1>4, <2>2, Distinct DEF Ready, Away, Untouched, Stood
    <3>2. QED
      BY <1>0, <1>1, <3>1, EmptiesMayBeReplaced
  <2>3. b \in FaultProne \cup SyncProne \cup overlap
    BY <1>0, <1>1, <1>6, <2>2, FaultlessIsAlone DEF Publishing
  <2>4. \A j \in Kinds : Held(b, j)' => Held(b, j)
    BY <2>1 DEF Held
  <2>5. ASSUME Publication(b) PROVE AtSide(b, side[b])' /\ AtHand(b, side[b])'
    <3>1. Ready(b, k)
      BY <1>4, <2>5
    <3>2. IF next = "discard" THEN Untouched(b, k) ELSE Away(b, k)
      BY <1>6, <3>1 DEF Ready, Away, Untouched
    <3>3. IF next = "discard" THEN Untouched(b, k)' ELSE Away(b, k)'
      BY <1>2, <1>6, <3>2 DEF Away, Untouched, Stood
    <3>4. QED
      BY <1>2, <2>1, <3>3 DEF AtSide, Settled, Untouched, Away, AtHand
  <2>6. next \in Forward /\ damage \subseteq damage' /\ damage' \subseteq Builds
    BY <1>0, <1>2 DEF Forward, Types
  <2>7. QED
    BY <1>1, <1>2, <1>6, <2>1, <2>3, <2>4, <2>5, <2>6, ForwardMove
<1>7. QED
  BY <1>5, <1>6 DEF Install

LEMMA DiscardStep ==
  ASSUME IInv, NEW b \in Builds, Discard(b), UNCHANGED <<candidates, launchVars>>
  PROVE  IInv'
<1>0. Types /\ BuildInv(b)
  BY DEF IInv
<1>1. pc[b] = "discard" /\ side[b] \in Kinds /\ pc[b] \in Forward
  BY <1>0 DEF Discard, Types, Forward
<1>2. UNCHANGED <<dest, backup, content, side, before, latest, overlap, damage>>
      /\ damage \subseteq damage' /\ damage' \subseteq Builds
  BY <1>0 DEF Discard, history, Types
<1>3. PICK leftover \in {Absent, stage[b][side[b]]} :
        PrepareFails(b, side[b], leftover)
  BY DEF Discard
<1>4. b \in FaultProne \cup SyncProne \cup overlap
  BY <1>0, <1>1 DEF BuildInv, Harmless
<1>5. Alone(b) /\ Publication(b) => Settled(b, side[b])'
  <2>1. ASSUME Publication(b) PROVE Settled(b, side[b])
    BY <1>1, <2>1 DEF Publication, Position, AtSide
  <2>2. QED
    BY <1>2, <2>1 DEF Settled, Untouched, AtHand, Stood
<1>6. QED
  BY <1>1, <1>2, <1>3, <1>4, <1>5, FailedPreparation

LEMMA SyncParentStep ==
  ASSUME IInv, NEW b \in Builds, SyncParent(b), UNCHANGED <<candidates, launchVars>>
  PROVE  IInv'
<1>0. Types /\ BuildInv(b)
  BY DEF IInv
<1>1. pc[b] = "sync" /\ side[b] \in Kinds /\ pc[b] \in Forward
  BY <1>0 DEF SyncParent, Types, Forward
<1>2. UNCHANGED <<dest, backup, content, before, latest, overlap>>
  BY DEF SyncParent
<1>a. ASSUME Publication(b) PROVE Installed(b, side[b]) /\ Complete(b, side[b])
  BY <1>1, <1>a DEF Publication, Position, AtSide
<1>3. ASSUME UNCHANGED <<stage, undo, damage>>,
             NEW next \in {"inspect", "admit"}, NEW m \in Kinds, GotoFor(b, next, m),
             \/ side[b] = "acquisition" /\ next = "inspect" /\ m = "processing"
             \/ side[b] # "acquisition" /\ next = "admit" /\ m = "acquisition"
      PROVE  IInv'
  <2>1. pc' = [pc EXCEPT ![b] = next] /\ side' = [side EXCEPT ![b] = m]
    BY <1>3 DEF GotoFor, Goto
  <2>2. pc'[b] = next /\ side'[b] = m
    BY <1>0, <2>1 DEF Types
  <2>3. \A k \in Kinds : Held(b, k)' => Held(b, k)
    BY <1>1, <1>3, <2>2, TwoKinds DEF Held, Past
  <2>4. ASSUME Publication(b), NEW k \in Kinds PROVE Position(b, k)'
    <3>1. Position(b, k) /\ Verified(b) /\ damage \subseteq damage'
      BY <1>3, <2>4 DEF Publication, candidates, edits, Verified
    <3>2. CASE side[b] = "acquisition" /\ next = "inspect" /\ m = "processing"
      <4>1. CASE k = "acquisition"
        <5>1. Installed(b, k)' /\ Complete(b, k)'
          BY <1>2, <1>a, <2>4, <3>1, <3>2, <4>1, KindStays
        <5>2. QED
          BY <2>2, <3>2, <4>1, <5>1 DEF Position, Past, Forward
      <4>2. CASE k = "processing"
        <5>1. Untouched(b, k)
          BY <1>1, <3>1, <3>2, <4>2 DEF Position, Past
        <5>2. Untouched(b, k)'
          BY <1>2, <3>1, <5>1, KindStays
        <5>3. QED
          BY <2>2, <3>2, <4>2, <5>2 DEF Position, AtSide, Forward
      <4>3. QED
        BY <4>1, <4>2, TwoKinds
    <3>3. CASE side[b] # "acquisition" /\ next = "admit" /\ m = "acquisition"
      <4>1. Installed(b, k) /\ Complete(b, k)
        BY <1>1, <1>a, <2>4, <3>1, <3>3, TwoKinds DEF Position, Past
      <4>2. Installed(b, k)' /\ Complete(b, k)'
        BY <1>2, <3>1, <4>1, KindStays
      <4>3. QED
        BY <2>2, <3>3, <4>2 DEF Position, Forward
    <3>4. QED
      BY <1>3, <3>2, <3>3
  <2>5. /\ pc[b] \in Publishing \ {"cleanup"}
        /\ next \in Publishing \ {"remove", "putBack"}
        /\ next \notin {"restore", "discard"}
    BY <1>1 DEF Publishing
  <2>6. QED
    BY <1>2, <1>3, <2>1, <2>3, <2>4, <2>5, Onward DEF paths, history
<1>4. CASE /\ b \in SyncProne /\ damage' = damage \cup {b}
           /\ PrepareFails(b, side[b], Absent)
           /\ UNCHANGED side
  <2>1. damage \subseteq damage' /\ damage' \subseteq Builds
    BY <1>0, <1>4 DEF Types
  <2>2. Alone(b) /\ Publication(b) => Settled(b, side[b])'
    BY <1>2, <1>4, <1>a DEF Installed, Settled, AtHand, Stood
  <2>3. QED
    BY <1>1, <1>2, <1>4, <2>1, <2>2, FailedPreparation
<1>5. QED
  BY <1>3, <1>4, TwoKinds DEF SyncParent

LEMMA AdmitStep ==
  ASSUME IInv, NEW b \in Builds, Admit(b), UNCHANGED <<candidates, launchVars>>
  PROVE  IInv'
<1>0. Types /\ BuildInv(b) /\ Others
  BY DEF IInv
<1>1. pc[b] = "admit" /\ side[b] \in Kinds
  BY <1>0 DEF Admit, Types
<1>2. UNCHANGED <<dest, backup, stage, content, history, before, latest, overlap,
                  damage>>
  BY DEF Admit, paths, history
<1>a. ASSUME Publication(b), NEW k \in Kinds
      PROVE  Installed(b, k) /\ Complete(b, k)
  BY <1>1, <1>a DEF Publication, Position
<1>3. ASSUME undo' = undo, NEW next \in {"admit", "cleanup"}, NEW m \in Kinds,
             GotoFor(b, next, m)
      PROVE  IInv'
  <2>1. pc' = [pc EXCEPT ![b] = next] /\ side' = [side EXCEPT ![b] = m]
    BY <1>3 DEF GotoFor, Goto
  <2>2. pc'[b] = next
    BY <1>0, <2>1 DEF Types
  <2>3. \A k \in Kinds : Held(b, k)' => Held(b, k)
    BY <2>2 DEF Held
  <2>4. ASSUME Publication(b), NEW k \in Kinds PROVE Position(b, k)'
    <3>1. Installed(b, k) /\ Complete(b, k)
      BY <1>a, <2>4
    <3>2. Installed(b, k)' /\ Complete(b, k)'
      BY <1>2, <3>1, KindStays DEF candidates, edits, Verified
    <3>3. backup[b][k] # Staged(b)
      BY <1>0, <3>1, Distinct DEF BuildInv, Staging, Installed, Stood
    <3>4. QED
      BY <1>2, <2>2, <3>2, <3>3 DEF Position, Installed, Forward
  <2>5. /\ pc[b] \in Publishing \ {"cleanup"}
        /\ next \in Publishing \ {"remove", "putBack"}
        /\ next \notin {"restore", "discard"}
    BY <1>1 DEF Publishing
  <2>6. QED
    BY <1>2, <1>3, <2>1, <2>3, <2>4, <2>5, Onward DEF paths
<1>4. CASE /\ b \in FaultProne \/ ~ Admissible(Bundle(side[b], dest[side[b]]))
           /\ Rollback(b, <<"processing", "acquisition">>)
           /\ UNCHANGED side
  <2>1. /\ pc' = [pc EXCEPT ![b] = "remove"]
        /\ undo' = [undo EXCEPT ![b] = <<"processing", "acquisition">>]
    BY <1>4 DEF Rollback, Goto
  <2>2. pc'[b] = "remove" /\ undo'[b] = <<"processing", "acquisition">>
    BY <1>0, <2>1 DEF Types
  <2>3. \A c \in Builds \ {b} : SameOwn(c)
    BY <1>0, <1>2, <1>4, <2>1 DEF SameOwn, Types, candidates, edits, Verified
  <2>4. Types'
    BY <1>0, <1>2, <1>4, <2>1 DEF Types, PCs, Publishing, UndoLists, candidates, edits, Verified,
                                  launchVars
  <2>5. PublishMoves(b)
    BY <1>1, <1>2, <2>2, <2>3 DEF PublishMoves, Publishing, candidates, edits, Verified, launchVars
  <2>6. Others' /\ \A c \in Builds : StagedApart(c)
    BY <1>0, <1>2, PathsStay
  <2>7. Staging(b)'
    <3>1. \A k \in Kinds : ~ Held(b, k)'
      BY <2>2 DEF Held
    <3>2. \A k \in Kinds : Placed(k, Staged(b))' => Placed(k, Staged(b))
      BY <1>2 DEF Placed
    <3>3. QED
      BY <1>0, <1>2, <2>5, <3>1, <3>2, PublishedStaging DEF BuildInv
  <2>8. b \in FaultProne \cup SyncProne \cup overlap
    <3>1. ASSUME Publication(b) PROVE Admissible(Bundle(side[b], dest[side[b]]))
      <4>1. Installed(b, side[b]) /\ Complete(b, side[b])
        BY <1>1, <1>a, <3>1
      <4>2. QED
        BY <1>1, <4>1, CompleteIsAdmissible DEF Installed
    <3>2. QED
      BY <1>0, <1>1, <1>4, <3>1, FaultlessIsAlone DEF Publishing
  <2>9. Undoing(b)' /\ Harmless(b)'
    BY <1>2, <2>2, <2>8, UndoOrder DEF Undoing, Harmless, Early
  <2>10. ASSUME Alone(b) PROVE Publication(b)'
    <3>1. Publication(b)
      BY <1>0, <2>10 DEF BuildInv
    <3>2. ASSUME NEW k \in Kinds PROVE Position(b, k)'
      <4>1. Installed(b, k)
        BY <1>a, <3>1
      <4>2. Installed(b, k)'
        BY <1>2, <4>1 DEF Installed, Stood
      <4>3. undo'[b] # <<"acquisition">>
        BY <2>2, UndoOrder
      <4>4. QED
        BY <2>2, <4>2, <4>3 DEF Position, Forward
    <3>3. QED
      BY <1>1, <1>2, <2>2, <3>1, <3>2, StandStill DEF Publishing, candidates, edits, Verified
  <2>11. QED
    BY <2>4, <2>5, <2>6, <2>7, <2>9, <2>10, PublishFrame
<1>5. QED
  BY <1>3, <1>4, TwoKinds DEF Admit

-----------------------------------------------------------------------------
(* Removal: of a backup, and of a published bundle                         *)

\* A bundle that is placed loses files.
LEMMA FilesLost ==
  ASSUME Types, Others, NEW k \in Kinds, NEW d \in Directories, Placed(k, d),
         NEW less \in Bundles, less.files \subseteq content[k][d].files,
         less.exe = content[k][d].exe, less.digest = content[k][d].digest,
         content' = [content EXCEPT ![k][d] = less],
         UNCHANGED <<dest, backup>>
  PROVE  /\ content' \in [Kinds -> [Directories -> Bundles]]
         /\ \A j \in Kinds \ {k} : content'[j] = content[j]
         /\ \A e \in Directories \ {d} : content'[k][e] = content[k][e]
         /\ \A j \in Kinds : \A e \in Directories :
              /\ content'[j][e].exe = content[j][e].exe
              /\ content'[j][e].digest = content[j][e].digest
         /\ Others' /\ \A c \in Builds : StagedApart(c)
<1>1. /\ content' \in [Kinds -> [Directories -> Bundles]]
      /\ \A j \in Kinds \ {k} : content'[j] = content[j]
      /\ \A e \in Directories \ {d} : content'[k][e] = content[k][e]
      /\ content'[k][d] = less
  BY DEF Types
<1>2. \A j \in Kinds : \A e \in Directories :
        /\ content'[j][e].exe = content[j][e].exe
        /\ content'[j][e].digest = content[j][e].digest
        /\ content'[j][e] = content[j][e] \/ (j = k /\ e = d)
        /\ content[j][e].files = {} => content'[j][e].files = {}
  BY <1>1
<1>3. Others'
  BY <1>2, Distinct DEF Others
<1>4. \A c \in Builds : StagedApart(c)
  <2>1. \A j \in Kinds, c \in Builds : Placed(j, Staged(c))' => Placed(j, Staged(c))
    BY DEF Placed
  <2>2. \A j \in Kinds, c \in Builds :
          ~ Placed(j, Staged(c)) => content'[j][Staged(c)] = content[j][Staged(c)]
    BY <1>2, Distinct
  <2>3. QED
    BY <1>2, <2>1, <2>2, Distinct DEF StagedApart
<1>5. QED
  BY <1>1, <1>2, <1>3, <1>4

\* One entry is removed from a directory.
LEMMA EntryRemoved ==
  ASSUME Types, NEW k \in Kinds, NEW d \in Directories, NEW f,
         content' = [content EXCEPT ![k][d].files = @ \ {f}]
  PROVE  \E less \in Bundles :
           /\ less.files \subseteq content[k][d].files
           /\ less.exe = content[k][d].exe /\ less.digest = content[k][d].digest
           /\ content' = [content EXCEPT ![k][d] = less]
<1> DEFINE bundle == content[k][d]
           less == [bundle EXCEPT !.files = @ \ {f}]
<1>1. bundle \in Bundles
  BY DEF Types
<1>2. /\ less \in Bundles /\ less.files = bundle.files \ {f}
      /\ less.exe = bundle.exe /\ less.digest = bundle.digest
  BY <1>1 DEF Bundles
<1>3. content' = [content EXCEPT ![k][d] = less]
  OBVIOUS
<1>4. less.files \subseteq content[k][d].files
  BY <1>2
<1> HIDE DEF less
<1>5. QED
  BY <1>2, <1>3, <1>4, Zenon

LEMMA CleanupStep ==
  ASSUME IInv, NEW b \in Builds, Cleanup(b), UNCHANGED <<candidates, launchVars>>
  PROVE  IInv'
<1>0. Types /\ BuildInv(b) /\ Others
  BY DEF IInv
<1> DEFINE k == side[b]
           d == backup[b][k]
<1>1. pc[b] = "cleanup" /\ k \in Kinds /\ d \in Anywhere
  BY <1>0 DEF Cleanup, Types
<1>2. UNCHANGED <<dest, stage, undo, before, latest, overlap, damage>>
  BY DEF Cleanup, history
<1>3. \/ /\ d # Absent
         /\ \E f \in content[k][d].files :
              content' = [content EXCEPT ![k][d].files = @ \ {f}]
         /\ UNCHANGED <<backup, pc, side>>
      \/ /\ backup' = [backup EXCEPT ![b][k] = Absent] \/ backup' = backup
         /\ Cleaned(b)
         /\ content' = content
  BY DEF Cleanup
<1>4. /\ pc' \in [Builds -> PCs] /\ side' \in [Builds -> Kinds]
      /\ \A c \in Builds \ {b} : pc'[c] = pc[c] /\ side'[c] = side[c]
      /\ pc'[b] \in {"cleanup", "ok"}
  <2>1. CASE UNCHANGED <<backup, pc, side>>
    BY <1>0, <1>1, <2>1 DEF Types
  <2>2. CASE Cleaned(b)
    <3>1. \/ /\ pc' = [pc EXCEPT ![b] = "cleanup"]
             /\ side' = [side EXCEPT ![b] = "processing"]
          \/ pc' = [pc EXCEPT ![b] = "ok"] /\ side' = side
      BY <2>2 DEF Cleaned, GotoFor, Goto
    <3>2. "cleanup" \in PCs /\ "ok" \in PCs
      BY DEF PCs, Publishing, Finished
    <3>3. pc \in [Builds -> PCs] /\ side \in [Builds -> Kinds]
      BY <1>0 DEF Types
    <3>4. QED
      BY <3>1, <3>2, <3>3, TwoKinds
  <2>3. QED
    BY <1>3, <2>1, <2>2
<1>5. /\ backup' \in [Builds -> [Kinds -> Anywhere]]
      /\ \A c \in Builds \ {b} : backup'[c] = backup[c]
      /\ \A j \in Kinds : backup'[b][j] \in {backup[b][j], Absent}
  <2>1. CASE backup' = backup
    BY <1>0, <2>1 DEF Types
  <2>2. CASE backup' = [backup EXCEPT ![b][k] = Absent]
    BY <1>0, <1>1, <2>2, Distinct DEF Types
  <2>3. QED
    BY <1>3, <2>1, <2>2
<1>6. \A j \in Kinds, c \in Builds : Placed(j, Staged(c))' => Placed(j, Staged(c))
  BY <1>2, <1>5, Distinct DEF Placed
<1>7. /\ content' \in [Kinds -> [Directories -> Bundles]]
      /\ \A j \in Kinds : \A e \in Directories :
           /\ content'[j][e].exe = content[j][e].exe
           /\ content'[j][e].digest = content[j][e].digest
           /\ e # backup[b][j] => content'[j][e] = content[j][e]
      /\ Others' /\ \A c \in Builds : StagedApart(c)
  <2>1. CASE content' = content
    BY <1>0, <1>6, <2>1 DEF Types, Others, StagedApart
  <2>2. CASE d # Absent /\ backup' = backup
             /\ \E f \in content[k][d].files :
                  content' = [content EXCEPT ![k][d].files = @ \ {f}]
    <3>1. PICK f \in content[k][d].files :
            content' = [content EXCEPT ![k][d].files = @ \ {f}]
      BY <2>2
    <3>2. d \in Directories /\ Placed(k, d)
      BY <1>1, <2>2 DEF Anywhere, Placed
    <3>3. UNCHANGED <<dest, backup>>
      BY <1>2, <2>2
    <3>a. PICK less \in Bundles :
            /\ less.files \subseteq content[k][d].files
            /\ less.exe = content[k][d].exe /\ less.digest = content[k][d].digest
            /\ content' = [content EXCEPT ![k][d] = less]
      BY <1>0, <1>1, <3>1, <3>2, EntryRemoved
    <3>4. /\ content' \in [Kinds -> [Directories -> Bundles]]
          /\ \A j \in Kinds \ {k} : content'[j] = content[j]
          /\ \A e \in Directories \ {d} : content'[k][e] = content[k][e]
          /\ \A j \in Kinds : \A e \in Directories :
               /\ content'[j][e].exe = content[j][e].exe
               /\ content'[j][e].digest = content[j][e].digest
          /\ Others' /\ \A c \in Builds : StagedApart(c)
      BY <1>0, <1>1, <3>2, <3>3, <3>a, FilesLost
    <3>5. QED
      BY <3>4
  <2>3. QED
    BY <1>3, <2>1, <2>2
<1>8. \A c \in Builds \ {b} : SameOwn(c)
  BY <1>2, <1>4, <1>5 DEF SameOwn, candidates, edits, Verified
<1>9. PublishMoves(b)
  BY <1>1, <1>2, <1>4, <1>8 DEF PublishMoves, Publishing, candidates, edits, Verified, launchVars
<1>10. Types'
  BY <1>0, <1>2, <1>4, <1>5, <1>7 DEF Types, candidates, edits, Verified, launchVars
<1>11. Staging(b)'
  <2>1. \A j \in Kinds : ~ Held(b, j)'
    BY <1>4 DEF Held
  <2>2. QED
    BY <1>0, <1>2, <1>6, <1>7, <1>9, <2>1, Distinct, PublishedStaging DEF BuildInv
<1>12. Undoing(b)' /\ Harmless(b)'
  BY <1>4 DEF Undoing, Harmless, Early
<1>13. ASSUME Alone(b) PROVE Publication(b)'
  <2>1. Publication(b)
    BY <1>0, <1>13 DEF BuildInv
  <2>2. ASSUME NEW j \in Kinds PROVE Position(b, j)'
    <3>1. dest[j] = Staged(b) /\ backup[b][j] # Staged(b) /\ Complete(b, j)
      BY <1>1, <2>1 DEF Publication, Position
    <3>2. backup'[b][j] # Staged(b)
      BY <1>5, <3>1, Distinct
    <3>3. Complete(b, j)'
      BY <1>7, <3>1, Distinct DEF Complete, Honest, Vouched, candidates, edits, Verified
    <3>4. QED
      BY <1>2, <1>4, <3>1, <3>2, <3>3 DEF Position, Forward
  <2>3. QED
    BY <1>4, <2>2 DEF Publication
<1>14. QED
  BY <1>7, <1>9, <1>10, <1>11, <1>12, <1>13, PublishFrame

-----------------------------------------------------------------------------
(* The rollback                                                            *)

LEMMA UndoCases ==
  ASSUME Types, NEW b \in Builds, Undoing(b), pc[b] \in {"remove", "putBack"}
  PROVE  /\ Head(undo[b]) \in Kinds
         /\ \/ /\ undo[b] = <<"acquisition">> /\ Head(undo[b]) = "acquisition"
               /\ Len(undo[b]) = 1
            \/ /\ undo[b] = <<"processing", "acquisition">>
               /\ Head(undo[b]) = "processing" /\ Len(undo[b]) = 2
               /\ Tail(undo[b]) = <<"acquisition">>
<1>1. undo[b] \in UndoLists /\ undo[b] # <<>>
  BY DEF Types, Undoing
<1>2. undo[b] = <<"acquisition">> \/ undo[b] = <<"processing", "acquisition">>
  BY <1>1 DEF UndoLists
<1>3. CASE undo[b] = <<"acquisition">>
  BY <1>3, UndoOrder, TwoKinds
<1>4. CASE undo[b] = <<"processing", "acquisition">>
  BY <1>4, UndoOrder, TwoKinds
<1>5. QED
  BY <1>2, <1>3, <1>4

LEMMA RemoveStep ==
  ASSUME IInv, NEW b \in Builds, Remove(b), UNCHANGED <<candidates, launchVars>>
  PROVE  IInv'
<1>0. Types /\ BuildInv(b) /\ Others
  BY DEF IInv
<1>1. pc[b] = "remove"
  BY DEF Remove
<1>2. /\ Head(undo[b]) \in Kinds
      /\ \/ undo[b] = <<"acquisition">> /\ Head(undo[b]) = "acquisition"
         \/ undo[b] = <<"processing", "acquisition">> /\ Head(undo[b]) = "processing"
  BY <1>0, <1>1, UndoCases DEF BuildInv
<1>3. PICK k \in Kinds : k = Head(undo[b])
  BY <1>2
<1>4. UNCHANGED <<backup, stage, side, undo, before, latest, overlap>>
  BY DEF Remove
<1>5. \/ /\ dest[k] # Absent
         /\ \E f \in content[k][dest[k]].files :
              content' = [content EXCEPT ![k][dest[k]].files = @ \ {f}]
         /\ UNCHANGED <<dest, pc, damage>>
      \/ /\ dest' = [dest EXCEPT ![k] = Absent]
         /\ pc' = [pc EXCEPT ![b] = "putBack"]
         /\ UNCHANGED <<content, damage>>
      \/ /\ b \in FaultProne
         /\ damage' = IF backup[b][k] = Absent THEN damage \cup {b} ELSE damage
         /\ pc' = [pc EXCEPT ![b] = "putBack"]
         /\ UNCHANGED <<dest, content>>
  BY <1>3 DEF Remove, Goto
<1>6. /\ pc' \in [Builds -> PCs] /\ \A c \in Builds \ {b} : pc'[c] = pc[c]
      /\ pc'[b] = "remove" \/ pc'[b] = "putBack"
      /\ damage \subseteq damage' /\ damage' \subseteq Builds
  <2>1. pc \in [Builds -> PCs] /\ damage \subseteq Builds /\ "putBack" \in PCs
    BY <1>0 DEF Types, PCs, Publishing
  <2>2. QED
    BY <1>1, <1>5, <2>1
<1>7. /\ dest' \in [Kinds -> Anywhere]
      /\ \A j \in Kinds \ {k} : dest'[j] = dest[j]
      /\ dest'[k] = dest[k] \/ dest'[k] = Absent
  BY <1>0, <1>5, Distinct DEF Types
<1>8. \A j \in Kinds, c \in Builds : Placed(j, Staged(c))' => Placed(j, Staged(c))
  BY <1>4, <1>7, Distinct DEF Placed
<1>9. /\ content' \in [Kinds -> [Directories -> Bundles]]
      /\ \A j \in Kinds : \A e \in Directories :
           /\ content'[j][e].exe = content[j][e].exe
           /\ content'[j][e].digest = content[j][e].digest
           /\ e # dest[j] => content'[j][e] = content[j][e]
      /\ \A j \in Kinds \ {k} : content'[j] = content[j]
      /\ Others' /\ \A c \in Builds : StagedApart(c)
  <2>1. CASE content' = content
    BY <1>0, <1>8, <2>1 DEF Types, Others, StagedApart
  <2>2. CASE /\ dest[k] # Absent /\ dest' = dest
             /\ \E f \in content[k][dest[k]].files :
                  content' = [content EXCEPT ![k][dest[k]].files = @ \ {f}]
    <3>1. PICK d \in Directories : d = dest[k]
      BY <1>0, <2>2 DEF Types, Anywhere
    <3>2. PICK f \in content[k][d].files :
            content' = [content EXCEPT ![k][d].files = @ \ {f}]
      BY <2>2, <3>1
    <3>3. UNCHANGED <<dest, backup>>
      BY <1>4, <2>2
    <3>4. PICK less \in Bundles :
            /\ less.files \subseteq content[k][d].files
            /\ less.exe = content[k][d].exe /\ less.digest = content[k][d].digest
            /\ content' = [content EXCEPT ![k][d] = less]
      BY <1>0, <3>2, EntryRemoved
    <3>5. /\ content' \in [Kinds -> [Directories -> Bundles]]
          /\ \A j \in Kinds \ {k} : content'[j] = content[j]
          /\ \A e \in Directories \ {d} : content'[k][e] = content[k][e]
          /\ \A j \in Kinds : \A e \in Directories :
               /\ content'[j][e].exe = content[j][e].exe
               /\ content'[j][e].digest = content[j][e].digest
          /\ Others' /\ \A c \in Builds : StagedApart(c)
      <4>1. Placed(k, d)
        BY <3>1 DEF Placed
      <4>2. QED
        BY <1>0, <3>3, <3>4, <4>1, FilesLost
    <3>6. QED
      BY <3>1, <3>5
  <2>3. QED
    BY <1>5, <2>1, <2>2
<1>10. \A c \in Builds \ {b} : SameOwn(c)
  BY <1>4, <1>6 DEF SameOwn, candidates, edits, Verified
<1>11. PublishMoves(b)
  BY <1>1, <1>4, <1>6, <1>10 DEF PublishMoves, Publishing, candidates, edits, Verified, launchVars
<1>12. Types'
  BY <1>0, <1>4, <1>6, <1>7, <1>9 DEF Types, candidates, edits, Verified, launchVars
<1>13. Staging(b)'
  <2>1. \A j \in Kinds : ~ Held(b, j)'
    BY <1>6 DEF Held
  <2>2. QED
    BY <1>0, <1>4, <1>8, <1>9, <1>11, <2>1, Distinct, PublishedStaging DEF BuildInv
<1>14. Undoing(b)'
  BY <1>0, <1>1, <1>4, <1>6 DEF BuildInv, Undoing, Early
<1>15. Harmless(b)'
  BY <1>0, <1>1, <1>4 DEF BuildInv, Harmless
<1>16. ASSUME Alone(b) PROVE Publication(b)'
  <2>1. Publication(b)
    BY <1>0, <1>16 DEF BuildInv
  <2>2. \A j \in Kinds : Position(b, j) /\ Kept(b, j) /\ AtHand(b, j)
    BY <1>1, <2>1 DEF Publication
  <2>3. Installed(b, k)
    BY <1>1, <1>2, <1>3, <2>2, UndoOrder DEF Position
  <2>4. IF pc'[b] = "remove" THEN Installed(b, k)' ELSE Removed(b, k)'
    <3>1. Stood(b, k, backup[b][k])'
      BY <1>4, <2>3 DEF Installed, Stood
    <3>2. CASE UNCHANGED <<dest, pc, damage>>
      BY <1>1, <2>3, <3>1, <3>2 DEF Installed
    <3>3. CASE /\ dest' = [dest EXCEPT ![k] = Absent]
               /\ pc' = [pc EXCEPT ![b] = "putBack"]
      <4>1. dest'[k] = Absent /\ pc'[b] = "putBack"
        BY <1>0, <3>3 DEF Types
      <4>2. QED
        BY <3>1, <4>1, Distinct DEF Removed
    <3>4. CASE /\ damage' = IF backup[b][k] = Absent THEN damage \cup {b} ELSE damage
               /\ pc' = [pc EXCEPT ![b] = "putBack"] /\ dest' = dest
      <4>1. pc'[b] = "putBack"
        BY <1>0, <3>4 DEF Types
      <4>2. QED
        BY <1>4, <2>3, <3>1, <3>4, <4>1 DEF Removed, Installed
    <3>5. QED
      BY <1>5, <3>2, <3>3, <3>4
  <2>5. ASSUME NEW j \in Kinds PROVE Position(b, j)'
    <3>1. CASE j = k
      BY <1>2, <1>3, <1>4, <1>6, <2>4, <3>1, UndoOrder DEF Position, Forward
    <3>2. CASE j # k
      <4>1. IF undo[b] = <<"acquisition">> /\ j = "processing" THEN Settled(b, j)
                                                              ELSE Installed(b, j)
        BY <1>1, <2>2 DEF Position
      <4>2. IF undo'[b] = <<"acquisition">> /\ j = "processing" THEN Settled(b, j)'
                                                               ELSE Installed(b, j)'
        BY <1>4, <1>6, <1>7, <1>9, <3>2, <4>1, KindStays DEF candidates, edits, Verified
      <4>3. QED
        BY <1>3, <1>4, <1>6, <3>2, <4>2 DEF Position, Forward
    <3>3. QED
      BY <3>1, <3>2
  <2>6. ASSUME NEW j \in Kinds PROVE Kept(b, j)' /\ AtHand(b, j)'
    <3>1. Kept(b, j)'
      <4>1. CASE j # k \/ before[b][j].at = Absent
        BY <1>4, <1>9, <2>2, <4>1 DEF Kept
      <4>2. CASE j = k /\ before[b][j].at # Absent
        <5>1. before[b][j].at # dest[j]
          BY <1>0, <2>3, <4>2 DEF Installed, BuildInv, Staging
        <5>2. before[b][j].at \in Directories
          BY <1>0, <4>2 DEF Types, Anywhere
        <5>3. QED
          BY <1>4, <1>9, <2>2, <5>1, <5>2 DEF Kept
      <4>3. QED
        BY <4>1, <4>2
    <3>2. AtHand(b, j)'
      <4>1. CASE j # k
        BY <1>4, <1>7, <2>2, <4>1 DEF AtHand, Stood
      <4>2. CASE j = k
        BY <1>4, <2>3, <4>2 DEF Installed, AtHand, Stood
      <4>3. QED
        BY <4>1, <4>2
    <3>3. QED
      BY <3>1, <3>2
  <2>7. QED
    BY <1>6, <2>5, <2>6 DEF Publication
<1>17. QED
  BY <1>9, <1>11, <1>12, <1>13, <1>14, <1>15, <1>16, PublishFrame

LEMMA PutBackStep ==
  ASSUME IInv, NEW b \in Builds, PutBack(b), UNCHANGED <<candidates, launchVars>>
  PROVE  IInv'
<1>0. Types /\ BuildInv(b) /\ Others
  BY DEF IInv
<1>1. pc[b] = "putBack"
  BY DEF PutBack
<1>2. /\ Head(undo[b]) \in Kinds
      /\ \/ /\ undo[b] = <<"acquisition">> /\ Head(undo[b]) = "acquisition"
            /\ Len(undo[b]) = 1
         \/ /\ undo[b] = <<"processing", "acquisition">>
            /\ Head(undo[b]) = "processing" /\ Len(undo[b]) = 2
            /\ Tail(undo[b]) = <<"acquisition">>
  BY <1>0, <1>1, UndoCases DEF BuildInv
<1>3. PICK k \in Kinds : k = Head(undo[b])
  BY <1>2
<1>4. UNCHANGED <<stage, content, side, before, latest, overlap>>
  BY DEF PutBack
<1>5. \/ backup[b][k] = Absent /\ UNCHANGED <<dest, backup, damage>>
      \/ backup[b][k] # Absent /\ MovedBack(b, k) /\ UNCHANGED damage
      \/ damage' = damage \cup {b} /\ UNCHANGED <<dest, backup>>
  BY <1>3 DEF PutBack, MovedBack
<1>6. /\ \/ /\ undo[b] = <<"acquisition">> /\ k = "acquisition"
            /\ pc' = [pc EXCEPT ![b] = "failed"]
         \/ /\ undo[b] = <<"processing", "acquisition">> /\ k = "processing"
            /\ pc' = [pc EXCEPT ![b] = "remove"]
            /\ Tail(undo[b]) = <<"acquisition">>
      /\ undo' = [undo EXCEPT ![b] = Tail(undo[b])]
  <2>1. /\ undo' = [undo EXCEPT ![b] = Tail(undo[b])]
        /\ pc' = [pc EXCEPT ![b] = IF Len(undo[b]) = 1 THEN "failed" ELSE "remove"]
    BY DEF PutBack, NextUndo, Goto
  <2>2. CASE undo[b] = <<"acquisition">> /\ k = "acquisition" /\ Len(undo[b]) = 1
    BY <2>1, <2>2
  <2>3. CASE /\ undo[b] = <<"processing", "acquisition">> /\ k = "processing"
             /\ Len(undo[b]) = 2 /\ Tail(undo[b]) = <<"acquisition">>
    <3>1. Len(undo[b]) # 1
      BY <2>3
    <3>2. pc' = [pc EXCEPT ![b] = "remove"]
      BY <2>1, <3>1
    <3>3. QED
      BY <2>1, <2>3, <3>2
  <2>4. QED
    BY <1>2, <1>3, <2>2, <2>3
<1>7. /\ pc' \in [Builds -> PCs] /\ undo' \in [Builds -> UndoLists]
      /\ \A c \in Builds \ {b} : pc'[c] = pc[c] /\ undo'[c] = undo[c]
      /\ \/ undo[b] = <<"acquisition">> /\ k = "acquisition" /\ pc'[b] = "failed"
         \/ /\ undo[b] = <<"processing", "acquisition">> /\ k = "processing"
            /\ pc'[b] = "remove" /\ undo'[b] = <<"acquisition">>
      /\ damage \subseteq damage' /\ damage' \subseteq Builds
  <2>1. /\ pc \in [Builds -> PCs] /\ undo \in [Builds -> UndoLists]
        /\ damage \subseteq Builds /\ "failed" \in PCs /\ "remove" \in PCs
    BY <1>0 DEF Types, PCs, Publishing, Finished
  <2>2. Tail(undo[b]) \in UndoLists
    BY <1>6, UndoOrder DEF UndoLists
  <2>3. QED
    BY <1>5, <1>6, <2>1, <2>2
<1>8. /\ dest' \in [Kinds -> Anywhere]
      /\ backup' \in [Builds -> [Kinds -> Anywhere]]
      /\ \A c \in Builds \ {b} : backup'[c] = backup[c]
      /\ \A j \in Kinds \ {k} : dest'[j] = dest[j] /\ backup'[b][j] = backup[b][j]
      /\ \A j \in Kinds, c \in Builds : Placed(j, Staged(c))' => Placed(j, Staged(c))
      /\ Others' /\ \A c \in Builds : StagedApart(c)
      /\ MovedBack(b, k) => dest'[k] = backup[b][k] /\ backup'[b][k] = Absent
  <2>1. MovedAway(b, k) \/ MovedBack(b, k) \/ UNCHANGED <<dest, backup>>
    BY <1>5
  <2>2. QED
    BY <1>0, <1>4, <2>1, Transfer
<1>9. \A c \in Builds \ {b} : SameOwn(c)
  BY <1>4, <1>7, <1>8 DEF SameOwn, candidates, edits, Verified
<1>10. PublishMoves(b)
  BY <1>1, <1>4, <1>7, <1>9 DEF PublishMoves, Publishing, candidates, edits, Verified, launchVars
<1>11. Types'
  BY <1>0, <1>4, <1>7, <1>8 DEF Types, candidates, edits, Verified, launchVars
<1>12. Staging(b)'
  <2>1. \A j \in Kinds : ~ Held(b, j)'
    BY <1>7 DEF Held
  <2>2. QED
    BY <1>0, <1>4, <1>8, <1>10, <2>1, PublishedStaging DEF BuildInv
<1>13. Undoing(b)'
  BY <1>7, UndoOrder DEF Undoing, Early
<1>14. Harmless(b)'
  BY <1>0, <1>1, <1>4 DEF BuildInv, Harmless
<1>15. ASSUME Alone(b) PROVE Publication(b)'
  <2>1. Publication(b)
    BY <1>0, <1>15 DEF BuildInv
  <2>2. \A j \in Kinds : Position(b, j) /\ Kept(b, j) /\ AtHand(b, j)
    BY <1>1, <2>1 DEF Publication
  <2>3. Removed(b, k)
    BY <1>1, <1>3, <1>7, <2>2, UndoOrder DEF Position
  <2>4. Settled(b, k)'
    <3>1. CASE backup[b][k] = Absent /\ UNCHANGED <<dest, backup, damage>>
      <4>1. Stood(b, k, backup[b][k])'
        BY <1>4, <2>3, <3>1 DEF Removed, Stood
      <4>2. CASE dest[k] \in Empties
        <5>1. before[b][k].at = Absent
          BY <2>3, <3>1 DEF Removed, Stood
        <5>2. QED
          BY <1>4, <3>1, <4>2, <5>1 DEF Settled, Untouched, Stood
      <4>3. CASE b \in damage
        BY <3>1, <4>1, <4>3 DEF Settled, AtHand
      <4>4. QED
        BY <2>3, <3>1, <4>2, <4>3 DEF Removed
    <3>2. CASE backup[b][k] # Absent /\ MovedBack(b, k)
      <4>1. dest'[k] = backup[b][k] /\ backup'[b][k] = Absent
        BY <1>8, <3>2
      <4>2. QED
        BY <1>4, <2>3, <4>1 DEF Removed, Settled, Untouched, Stood
    <3>3. CASE damage' = damage \cup {b} /\ UNCHANGED <<dest, backup>>
      BY <1>4, <2>3, <3>3 DEF Removed, Settled, AtHand, Stood
    <3>4. QED
      BY <1>5, <3>1, <3>2, <3>3
  <2>5. ASSUME NEW j \in Kinds, j # k
        PROVE  IF k = "acquisition" THEN Settled(b, j)' ELSE Installed(b, j)'
    <3>1. IF k = "acquisition" THEN Settled(b, j) ELSE Installed(b, j)
      BY <1>1, <1>3, <1>7, <2>2, <2>5, TwoKinds, UndoOrder DEF Position
    <3>2. QED
      BY <1>4, <1>7, <1>8, <2>5, <3>1, KindStays DEF candidates, edits, Verified
  <2>6. ASSUME NEW j \in Kinds PROVE Position(b, j)'
    BY <1>7, <2>4, <2>5, TwoKinds, UndoOrder DEF Position, Forward
  <2>7. ASSUME NEW j \in Kinds PROVE Kept(b, j)' /\ AtHand(b, j)'
    <3>1. Kept(b, j)'
      BY <1>4, <2>2 DEF Kept
    <3>2. CASE j = k
      BY <2>4, <3>1, <3>2 DEF Settled, Untouched, AtHand
    <3>3. CASE j # k
      BY <1>4, <1>8, <2>2, <3>1, <3>3 DEF AtHand, Stood
    <3>4. QED
      BY <3>2, <3>3
  <2>8. QED
    BY <1>7, <2>6, <2>7 DEF Publication
<1>16. QED
  BY <1>8, <1>10, <1>11, <1>12, <1>13, <1>14, <1>15, PublishFrame

-----------------------------------------------------------------------------
(* Edits, and the launches                                                 *)

\* A publication does not look at the candidates it was staged from.
LEMMA PairStays ==
  ASSUME UNCHANGED pairVars, NEW b \in Builds, Verified(b)
  PROVE  /\ Publication(b) => Publication(b)'
         /\ Sole(b) => Sole(b)'
         /\ Undoing(b) => Undoing(b)'
         /\ Alone(b)' => Alone(b)
<1>1. UNCHANGED <<dest, backup, stage, content, pc, side, undo, before, latest,
                  overlap, damage>>
  BY DEF pairVars, paths, control, history
<1>2. ASSUME NEW k \in Kinds
      PROVE  /\ Position(b, k) => Position(b, k)'
             /\ Kept(b, k) => Kept(b, k)'
             /\ AtHand(b, k) => AtHand(b, k)'
  <2>1. Past(b, k)' <=> Past(b, k)
    BY <1>1 DEF Past
  <2>2. /\ Untouched(b, k) => Untouched(b, k)'
        /\ Away(b, k) => Away(b, k)'
        /\ Ready(b, k) => Ready(b, k)'
        /\ Installed(b, k) => Installed(b, k)'
        /\ Removed(b, k) => Removed(b, k)'
        /\ AtHand(b, k) => AtHand(b, k)'
        /\ Settled(b, k) => Settled(b, k)'
        /\ Complete(b, k) => Complete(b, k)'
        /\ Kept(b, k) => Kept(b, k)'
    BY <1>1, KindStays
  <2>3. AtSide(b, k) => AtSide(b, k)'
    BY <1>1, <2>2 DEF AtSide
  <2>4. QED
    BY <1>1, <2>1, <2>2, <2>3 DEF Position
<1>3. Publication(b) => Publication(b)'
  BY <1>1, <1>2 DEF Publication
<1>4. QED
  BY <1>1, <1>3 DEF Sole, Undoing, Alone

\* Somebody edits a lockfile or an artifact; what a build looks at next is as it
\* was before only if that is noted.
LEMMA EditStep ==
  ASSUME IInv, UNCHANGED <<pairVars, seen, locked, hashed, probed, lpc, target, ran>>,
         touches' = touches + 1, undone \subseteq undone',
         lockfile' \in [Kinds -> Contents],
         artifact' \in [Builds -> [Kinds -> Bytes]],
         \A c \in Builds, k \in Kinds :
           /\ pc[c] \in {"cargo", "locked"} /\ lockfile'[k] = seen[c][k] =>
                lockfile'[k] = lockfile[k] \/ <<"lockfile", c, k>> \in undone'
           /\ pc[c] = "rehash" /\ side[c] = k /\ artifact'[c][k] = hashed[c][k] =>
                artifact'[c][k] = artifact[c][k] \/ <<"artifact", c, k>> \in undone'
  PROVE  IInv'
<1>0. Types /\ Others
  BY DEF IInv
<1>1. UNCHANGED <<dest, backup, stage, content, pc, side, undo, before, latest,
                  overlap, damage>>
  BY DEF pairVars, paths, control, history
<1>2. touches' > 0 /\ touches' \in Nat
  BY <1>0 DEF Types
<1>3. Types' /\ Others'
  BY <1>0, <1>1, <1>2 DEF Types, Others
<1>4. ASSUME NEW b \in Builds PROVE BuildInv(b)'
  <2>1. BuildInv(b)
    BY DEF IInv
  <2>a. Verified(b)
    BY DEF Verified
  <2>b. \A k \in Kinds : /\ Vouched(b, k) => Vouched(b, k)'
                         /\ Resolved(b, k) => Resolved(b, k)'
    BY DEF Vouched, Resolved
  <2>2. \A k \in Kinds : /\ Compiled(b, k)' <=> Compiled(b, k)
                         /\ Checked(b, k)' <=> Checked(b, k)
                         /\ Held(b, k)' <=> Held(b, k)
                         /\ Placed(k, Staged(b))' <=> Placed(k, Staged(b))
    BY <1>1 DEF Compiled, Checked, Held, Past, Placed
  <2>c. \A k \in Kinds : /\ Honest(b, k) => Honest(b, k)'
                         /\ Complete(b, k) => Complete(b, k)'
    BY <1>1, <2>b DEF Complete, Honest
  <2>3. Locks(b)'
    <3>1. ASSUME NEW k \in Kinds, Compiled(b, k)', pc'[b] \in {"cargo", "locked"},
                 lockfile'[k] = seen'[b][k]
          PROVE  Resolved(b, k)'
      <4>1. CASE lockfile'[k] = lockfile[k]
        BY <1>1, <2>1, <2>2, <2>b, <3>1, <4>1 DEF BuildInv, Locks
      <4>2. CASE <<"lockfile", b, k>> \in undone'
        BY <4>2 DEF Resolved
      <4>3. QED
        BY <1>1, <3>1, <4>1, <4>2
    <3>2. QED
      BY <1>1, <1>2, <2>1, <2>b, <3>1 DEF BuildInv, Locks
  <2>4. Artifact(b)'
    <3>1. ASSUME pc'[b] = "rehash", artifact'[b][side'[b]] = hashed'[b][side'[b]]
          PROVE  Vouched(b, side[b])'
      <4>1. side[b] \in Kinds /\ pc[b] = "rehash" /\ side' = side
            /\ artifact'[b][side[b]] = hashed[b][side[b]]
        BY <1>0, <1>1, <3>1 DEF Types
      <4>2. CASE artifact'[b][side[b]] = artifact[b][side[b]]
        BY <2>1, <2>b, <4>1, <4>2 DEF BuildInv, Artifact
      <4>3. CASE <<"artifact", b, side[b]>> \in undone'
        BY <4>1, <4>3 DEF Vouched
      <4>4. QED
        BY <4>1, <4>2, <4>3
    <3>2. QED
      BY <1>1, <1>2, <2>1, <2>2, <2>b, <3>1 DEF BuildInv, Artifact
  <2>5. Staging(b)'
    BY <1>1, <1>2, <2>1, <2>2, <2>c DEF BuildInv, Staging
  <2>6. Harmless(b)'
    BY <1>1, <1>2, <2>1 DEF BuildInv, Harmless
  <2>7. QED
    BY <2>1, <2>3, <2>4, <2>5, <2>6, <2>a, PairStays DEF BuildInv
<1>5. \A l \in Launches : Launched(l)'
  BY <1>1, LaunchesStay DEF IInv, Verified
<1>6. QED
  BY <1>3, <1>4, <1>5 DEF IInv

LEMMA DisturbStep ==
  ASSUME IInv, Disturb
  PROVE  IInv'
<1>0. Types
  BY DEF IInv
<1>1. ASSUME NEW k \in Kinds, EditLockfile(k)
      PROVE  IInv'
  <2>1. PICK version \in Contents :
          /\ lockfile' = [lockfile EXCEPT ![k] = version]
          /\ undone' = undone \cup
               {<<"lockfile", b, k>> : b \in {c \in Builds :
                  pc[c] \in {"cargo", "locked"} /\ seen[c][k] = version}}
    BY <1>1 DEF EditLockfile
  <2>2. /\ UNCHANGED <<pairVars, seen, artifact, locked, hashed, probed, lpc, target, ran>>
        /\ touches' = touches + 1 /\ undone \subseteq undone'
    BY <1>1, <2>1 DEF EditLockfile, launchVars
  <2>3. /\ lockfile' \in [Kinds -> Contents] /\ lockfile'[k] = version
        /\ \A j \in Kinds : j # k => lockfile'[j] = lockfile[j]
        /\ artifact' \in [Builds -> [Kinds -> Bytes]]
    BY <1>0, <2>1, <2>2 DEF Types
  <2>4. ASSUME NEW c \in Builds, NEW j \in Kinds, pc[c] \in {"cargo", "locked"},
               lockfile'[j] = seen[c][j]
        PROVE  lockfile'[j] = lockfile[j] \/ <<"lockfile", c, j>> \in undone'
    BY <2>1, <2>3, <2>4
  <2>5. QED
    BY <2>2, <2>3, <2>4, EditStep
<1>2. ASSUME NEW k \in Kinds, NEW b \in Builds, TouchArtifact(b, k)
      PROVE  IInv'
  <2>1. PICK bytes \in {<<"built", b>>, <<"touched", b>>} :
          /\ artifact' = [artifact EXCEPT ![b][k] = bytes]
          /\ undone' = undone \cup
               IF pc[b] = "rehash" /\ side[b] = k /\ hashed[b][k] = bytes
               THEN {<<"artifact", b, k>>} ELSE {}
    BY <1>2 DEF TouchArtifact
  <2>2. /\ UNCHANGED <<pairVars, lockfile, seen, locked, hashed, probed, lpc, target, ran>>
        /\ touches' = touches + 1 /\ undone \subseteq undone'
    BY <1>2, <2>1 DEF TouchArtifact, launchVars
  <2>3. /\ artifact' \in [Builds -> [Kinds -> Bytes]] /\ artifact'[b][k] = bytes
        /\ \A c \in Builds, j \in Kinds :
             c # b \/ j # k => artifact'[c][j] = artifact[c][j]
        /\ lockfile' \in [Kinds -> Contents]
    BY <1>0, <2>1, <2>2 DEF Types, Bytes
  <2>4. ASSUME NEW c \in Builds, NEW j \in Kinds, pc[c] = "rehash", side[c] = j,
               artifact'[c][j] = hashed[c][j]
        PROVE  artifact'[c][j] = artifact[c][j] \/ <<"artifact", c, j>> \in undone'
    BY <2>1, <2>3, <2>4
  <2>5. QED
    BY <2>2, <2>3, <2>4, EditStep
<1>3. QED
  BY <1>1, <1>2 DEF Disturb

\* A launch reads the published bundles and changes nothing.
LEMMA LaunchFrame ==
  ASSUME IInv, UNCHANGED <<pairVars, candidates>>, Types',
         \A l \in Launches : Launched(l)'
  PROVE  IInv'
<1>1. UNCHANGED <<dest, backup, stage, content, pc, side, undo, before, latest,
                  overlap, damage, lockfile, seen, artifact, locked, hashed,
                  probed, undone, touches>>
  BY DEF pairVars, paths, control, history, candidates, edits, Verified
<1>2. Others'
  BY <1>1 DEF IInv, Others
<1>3. ASSUME NEW b \in Builds PROVE BuildInv(b)'
  <2>1. BuildInv(b) /\ SameOwn(b) /\ StagedApart(b) /\ side[b] \in Kinds
    BY <1>1 DEF IInv, Types, SameOwn, StagedApart, Placed
  <2>2. Locks(b)' /\ Artifact(b)' /\ Undoing(b)'
    BY <1>1, <2>1, OtherCandidates DEF BuildInv
  <2>3. Staging(b)'
    BY <1>1, <2>1, OtherStaging DEF BuildInv, Early
  <2>4. Harmless(b)'
    BY <1>1, <2>1 DEF BuildInv, Harmless
  <2>5. QED
    BY <2>1, <2>2, <2>3, <2>4, <1>1, PairStays DEF BuildInv, SameOwn, Verified
<1>4. QED
  BY <1>2, <1>3 DEF IInv

LEMMA LaunchStep ==
  ASSUME IInv, NEW l \in Launches, LaunchData(l)
  PROVE  IInv'
<1>0. Types /\ \A m \in Launches : Launched(m)
  BY DEF IInv
<1>1. UNCHANGED <<pairVars, candidates>>
  BY DEF LaunchData, ReadManifest, HashAdmitted, RecheckExecutable, Spawn
<1>2. UNCHANGED <<dest, backup, stage, content, pc, side, undo, before, latest,
                  overlap, damage, lockfile, seen, artifact, locked, hashed,
                  probed, undone, touches>>
  BY <1>1 DEF pairVars, paths, control, history, candidates, edits, Verified
<1>3. CASE ReadManifest(l)
  <2>1. /\ lpc[l] = "start" /\ ran' = ran
        /\ \E k \in Kinds : target' = [target EXCEPT ![l] = k]
        /\ \E next \in {"hash", "refused"} : lpc' = [lpc EXCEPT ![l] = next]
    BY <1>3 DEF ReadManifest, Launch
  <2>2. Types'
    BY <1>0, <1>2, <2>1 DEF Types
  <2>3. \A m \in Launches : Launched(m)'
    BY <1>0, <1>2, <2>1 DEF Types, Launched, Vouched
  <2>4. QED
    BY <1>1, <2>2, <2>3, LaunchFrame
<1>4. CASE HashAdmitted(l) \/ RecheckExecutable(l)
  <2>1. /\ target' = target /\ ran' = ran
        /\ \E next \in {"recheck", "spawn", "refused"} : lpc' = [lpc EXCEPT ![l] = next]
    BY <1>4 DEF HashAdmitted, RecheckExecutable, Launch
  <2>2. Types'
    BY <1>0, <1>2, <2>1 DEF Types
  <2>3. \A m \in Launches : Launched(m)'
    BY <1>0, <1>2, <2>1 DEF Types, Launched, Vouched
  <2>4. QED
    BY <1>1, <2>2, <2>3, LaunchFrame
<1>5. CASE Spawn(l)
  <2>1. /\ target' = target
        /\ \/ /\ "exe" \in Published(l).files
              /\ ran' = [ran EXCEPT ![l] = Published(l).exe]
              /\ lpc' = [lpc EXCEPT ![l] = "ran"]
           \/ ran' = ran /\ lpc' = [lpc EXCEPT ![l] = "refused"]
    BY <1>5 DEF Spawn, Launch
  <2>2. CASE ran' = ran /\ lpc' = [lpc EXCEPT ![l] = "refused"]
    <3>1. Types'
      BY <1>0, <1>2, <2>1, <2>2 DEF Types
    <3>2. \A m \in Launches : Launched(m)'
      BY <1>0, <1>2, <2>1, <2>2 DEF Types, Launched, Vouched
    <3>3. QED
      BY <1>1, <3>1, <3>2, LaunchFrame
  <2>3. CASE /\ "exe" \in Published(l).files
             /\ ran' = [ran EXCEPT ![l] = Published(l).exe]
             /\ lpc' = [lpc EXCEPT ![l] = "ran"]
    <3> DEFINE k == target[l]
    <3>1. k \in Kinds /\ dest[k] \in Anywhere
      BY <1>0 DEF Types
    <3>2. dest[k] # Absent
      BY <2>3 DEF Published, Bundle, EmptyBundle
    <3>3. /\ dest[k] \in Directories /\ Placed(k, dest[k])
          /\ Published(l) = content[k][dest[k]]
      BY <3>1, <3>2 DEF Anywhere, Placed, Published, Bundle
    <3>4. Published(l).exe \in Bytes
      BY <1>0, <3>1, <3>3 DEF Types, Bundles
    <3>5. \/ Published(l).exe = NoBytes
          \/ \E b \in Builds : /\ pc[b] \notin Early /\ Published(l).exe = hashed[b][k]
                                 /\ Vouched(b, k)
      <4>1. CASE dest[k] = Original
        BY <3>1, <3>3, <4>1 DEF IInv, Others
      <4>2. CASE \E b \in Builds : dest[k] = Made(b)
        BY <3>1, <3>3, <4>2 DEF IInv, Others
      <4>3. ASSUME NEW b \in Builds, dest[k] = Staged(b)
            PROVE  /\ pc[b] \notin Early /\ Published(l).exe = hashed[b][k]
                   /\ Vouched(b, k)
        BY <3>1, <3>3, <4>3 DEF IInv, BuildInv, Staging, Honest, Vouched, Verified
      <4>4. QED
        BY <3>3, <4>1, <4>2, <4>3, DirectoryKinds
    <3>6. Types'
      <4>1. ran' \in [Launches -> Bytes]
        BY <1>0, <2>3, <3>4 DEF Types
      <4>2. QED
        BY <1>0, <1>2, <2>1, <2>3, <4>1 DEF Types
    <3>7. ASSUME NEW m \in Launches PROVE Launched(m)'
      <4>1. CASE m = l
        <5>1. ran'[l] = Published(l).exe /\ lpc'[l] = "ran"
          BY <1>0, <2>3 DEF Types
        <5>2. QED
          BY <1>2, <2>1, <3>5, <4>1, <5>1 DEF Launched, Vouched
      <4>2. CASE m # l
        BY <1>0, <1>2, <2>1, <2>3, <4>2 DEF Types, Launched, Vouched
      <4>3. QED
        BY <4>1, <4>2
    <3>8. QED
      BY <1>1, <3>6, <3>7, LaunchFrame
  <2>4. QED
    BY <2>1, <2>2, <2>3
<1>6. QED
  BY <1>3, <1>4, <1>5 DEF LaunchData

-----------------------------------------------------------------------------
(* The invariant                                                           *)

LEMMA InitInv ==
  ASSUME Init
  PROVE  IInv
<1>1. PICK found \in {Files, Scaffold} :
        content = [k \in Kinds |-> [d \in Directories |->
          [EmptyBundle EXCEPT !.files = IF d = Original THEN found ELSE {}]]]
  BY DEF Init, PairInit
<1>2. /\ dest = [k \in Kinds |-> Original]
      /\ backup = [b \in Builds |-> [k \in Kinds |-> Absent]]
      /\ stage = [b \in Builds |-> [k \in Kinds |-> Absent]]
      /\ side = [b \in Builds |-> "acquisition"] /\ undo = [b \in Builds |-> <<>>]
      /\ before = [b \in Builds |-> [k \in Kinds |-> [at |-> Absent, files |-> {}]]]
      /\ latest = None /\ overlap = {} /\ damage = {}
      /\ pc = [b \in Builds |-> "start"]
  BY DEF Init, PairInit
<1>3. /\ lockfile = [k \in Kinds |-> "resolved"]
      /\ seen = [b \in Builds |-> [k \in Kinds |-> "resolved"]]
      /\ artifact = [b \in Builds |-> [k \in Kinds |-> NoBytes]]
      /\ locked = [b \in Builds |-> [k \in Kinds |-> "resolved"]]
      /\ hashed = [b \in Builds |-> [k \in Kinds |-> NoBytes]]
      /\ probed = [b \in Builds |-> [k \in Kinds |-> NoBytes]]
      /\ touches = 0
      /\ lpc = [l \in Launches |-> "start"]
      /\ target = [l \in Launches |-> "acquisition"]
      /\ ran = [l \in Launches |-> NoBytes]
  BY DEF Init
<1>4. ASSUME NEW k \in Kinds, NEW d \in Directories
      PROVE  /\ content[k][d] \in Bundles /\ content[k][d].exe = NoBytes
             /\ d # Original => content[k][d].files = {}
  <2>1. content[k][d] = [files |-> IF d = Original THEN found ELSE {},
                         exe |-> NoBytes, digest |-> NoBytes]
    BY <1>1 DEF EmptyBundle, NoBytes
  <2>2. (IF d = Original THEN found ELSE {}) \in SUBSET (Files \cup Scaffold)
    OBVIOUS
  <2>3. QED
    BY <2>1, <2>2, BytesOf DEF Bundles
<1>5. content \in [Kinds -> [Directories -> Bundles]]
  <2>1. content = [k \in Kinds |-> [d \in Directories |-> content[k][d]]]
    BY <1>1
  <2>2. QED
    BY <1>4, <2>1
<1>6. Types
  <2>1. before \in [Builds -> [Kinds -> [at : Anywhere,
                                      files : SUBSET (Files \cup Scaffold)]]]
    BY <1>2, Distinct
  <2>2. /\ dest \in [Kinds -> Anywhere]
        /\ backup \in [Builds -> [Kinds -> Anywhere]]
        /\ stage \in [Builds -> [Kinds -> Anywhere]]
    BY <1>2, Distinct
  <2>3. pc \in [Builds -> PCs] /\ side \in [Builds -> Kinds]
        /\ undo \in [Builds -> UndoLists]
    BY <1>2, TwoKinds DEF PCs, Early, UndoLists
  <2>4. overlap \subseteq Builds /\ damage \subseteq Builds
    BY <1>2
  <2>5. QED
    BY <1>3, <1>5, <2>1, <2>2, <2>3, <2>4, TwoKinds, BytesOf DEF Types, Contents
<1>7. Others
  BY <1>4, Distinct DEF Others
<1>8. ASSUME NEW b \in Builds PROVE BuildInv(b)
  <2>1. /\ pc[b] = "start" /\ side[b] = "acquisition" /\ latest # b
        /\ \A k \in Kinds : /\ stage[b][k] = Absent /\ backup[b][k] = Absent
                            /\ before[b][k].at = Absent
    BY <1>2, PublicationAssumption
  <2>2. Locks(b)
    BY <1>3, <2>1 DEF Locks, Compiled
  <2>3. Artifact(b)
    BY <2>1 DEF Artifact, Compiled, Checked
  <2>4. Staging(b)
    <3>1. ASSUME NEW k \in Kinds PROVE ~ Held(b, k) /\ ~ Placed(k, Staged(b))
      BY <1>2, <2>1, Distinct DEF Held, Placed
    <3>2. QED
      BY <2>1, <3>1, Distinct DEF Staging
  <2>5. Sole(b) /\ Undoing(b) /\ Harmless(b) /\ ~ Alone(b)
    BY <2>1 DEF Sole, Undoing, Harmless, Alone, Publishing
  <2>6. QED
    BY <2>2, <2>3, <2>4, <2>5 DEF BuildInv
<1>9. \A l \in Launches : Launched(l)
  BY <1>3 DEF Launched
<1>10. QED
  BY <1>6, <1>7, <1>8, <1>9 DEF IInv

LEMMA Stutter ==
  ASSUME IInv, UNCHANGED vars
  PROVE  IInv'
<1>1. UNCHANGED <<pairVars, candidates, lpc, target, ran>>
  BY DEF vars, launchVars
<1>2. UNCHANGED <<dest, backup, stage, content, pc, side, undo, before, latest,
                  overlap, damage, lockfile, seen, artifact, locked, hashed,
                  probed, undone, touches>>
  BY <1>1 DEF pairVars, paths, control, history, candidates, edits, Verified
<1>3. Types' /\ \A l \in Launches : Launched(l)'
  BY <1>1, <1>2 DEF IInv, Types, Launched, Vouched
<1>4. QED
  BY <1>1, <1>3, LaunchFrame

LEMMA InductiveStep ==
  ASSUME IInv, [Next]_vars
  PROVE  IInv'
<1>1. ASSUME NEW b \in Builds, BuildSource(b)
      PROVE  IInv'
  <2>1. CASE Configure(b)
    BY <2>1, ConfigureStep
  <2>2. CASE BuildManagedRunner(b)
    BY <2>2, BuildManagedRunnerStep
  <2>3. CASE EnsureLockfileUnchanged(b)
    BY <2>3, EnsureLockfileUnchangedStep
  <2>4. CASE HashBefore(b)
    BY <2>4, HashBeforeStep
  <2>5. CASE ProbeArtifact(b)
    BY <2>5, ProbeArtifactStep
  <2>6. CASE HashAfter(b)
    BY <2>6, HashAfterStep
  <2>7. CASE EnsureRuntimeDirectories(b)
    BY <2>7, EnsureRuntimeDirectoriesStep
  <2>8. CASE StageExecutable(b)
    BY <2>8, StageExecutableStep
  <2>9. CASE StageManifest(b)
    BY <2>9, StageManifestStep
  <2>10. CASE Publish(b) /\ UNCHANGED <<candidates, launchVars>>
    <3>1. CASE BeginPublication(b)
      BY <2>10, <3>1, BeginPublicationStep
    <3>2. CASE AdmitStaged(b)
      BY <2>10, <3>2, AdmitStagedStep
    <3>3. CASE Inspect(b)
      BY <2>10, <3>3, InspectStep
    <3>4. CASE MoveAway(b)
      BY <2>10, <3>4, MoveAwayStep
    <3>5. CASE Install(b)
      BY <2>10, <3>5, InstallStep
    <3>6. CASE Restore(b)
      BY <2>10, <3>6, RestoreStep
    <3>7. CASE Discard(b)
      BY <2>10, <3>7, DiscardStep
    <3>8. CASE SyncParent(b)
      BY <2>10, <3>8, SyncParentStep
    <3>9. CASE Admit(b)
      BY <2>10, <3>9, AdmitStep
    <3>10. CASE Cleanup(b)
      BY <2>10, <3>10, CleanupStep
    <3>11. CASE Remove(b)
      BY <2>10, <3>11, RemoveStep
    <3>12. CASE PutBack(b)
      BY <2>10, <3>12, PutBackStep
    <3>13. QED
      BY <2>10, <3>1, <3>2, <3>3, <3>4, <3>5, <3>6, <3>7, <3>8, <3>9, <3>10,
         <3>11, <3>12 DEF Publish
  <2>11. CASE Kill(b) /\ UNCHANGED <<candidates, launchVars>>
    BY <2>11, KillStep
  <2>12. QED
    BY <1>1, <2>1, <2>2, <2>3, <2>4, <2>5, <2>6, <2>7, <2>8, <2>9, <2>10, <2>11
       DEF BuildSource
<1>2. ASSUME NEW l \in Launches, LaunchData(l)
      PROVE  IInv'
  BY <1>2, LaunchStep
<1>3. CASE Disturb
  BY <1>3, DisturbStep
<1>4. CASE UNCHANGED vars
  BY <1>4, Stutter
<1>5. QED
  BY <1>1, <1>2, <1>3, <1>4 DEF Next

LEMMA Invariance == Spec => []IInv
<1>1. Init => IInv
  BY InitInv
<1>2. IInv /\ [Next]_vars => IInv'
  BY InductiveStep
<1>3. QED
  BY <1>1, <1>2, PTL DEF Spec

-----------------------------------------------------------------------------
(* The theorems                                                            *)

\* Until a publication commits, and after it failed or was killed, each bundle
\* it found is at its destination or at its backup path with all its files, or
\* the build's own pair stands, whatever fails (runtime_bundle_replacement.rs).
THEOREM PreviousPairIsKept == Spec => []PreviousBundleKept
<1>1. IInv => PreviousBundleKept
  <2> SUFFICES ASSUME IInv, NEW b \in Builds \ overlap,
                      pc[b] \in (Publishing \ Committed) \cup {"failed", "killed"},
                      latest = b
               PROVE  \/ \A k \in Kinds : PreviousAtHand(b, k)
                      \/ pc[b] = "killed" /\ \A k \in Kinds : dest[k] = Staged(b)
    BY DEF PreviousBundleKept
  <2>1. Publication(b)
    BY DEF IInv, BuildInv, Alone
  <2>2. pc[b] \notin {"cleanup", "ok"}
    BY DEF Committed, Publishing
  <2>3. ASSUME NEW k \in Kinds, Kept(b, k), AtHand(b, k) PROVE PreviousAtHand(b, k)
    BY <2>3 DEF Kept, AtHand, Stood, PreviousAtHand
  <2>4. QED
    BY <2>1, <2>2, <2>3 DEF Publication
<1>2. QED
  BY <1>1, Invariance, PTL

\* A publication that fails leaves both destinations as they were, one that
\* succeeds both bundles of its own, resolved with the lockfiles it saw or with
\* one that was edited and restored (publish_runtime_pair,
\* ensure_lockfile_unchanged).
THEOREM PublicationIsAllOrNothing == Spec => []PublicationAllOrNothing
<1>1. IInv => PublicationAllOrNothing
  <2> SUFFICES ASSUME IInv, NEW b \in Builds \ overlap, latest = b
               PROVE  /\ pc[b] = "failed" /\ b \notin damage =>
                           \A k \in Kinds : AsBefore(b, k)
                      /\ pc[b] = "ok" =>
                           /\ \A k \in Kinds : Resolved(b, k)
                           /\ \A k \in Kinds : /\ dest[k] = Staged(b)
                                               /\ content[k][dest[k]].files = Files
    BY DEF PublicationAllOrNothing, Resolved
  <2>1. BuildInv(b) /\ Publication(b) /\ Others
    BY DEF IInv, BuildInv, Alone
  <2>2. ASSUME pc[b] = "failed", b \notin damage, NEW k \in Kinds
        PROVE  AsBefore(b, k)
    <3>1. Stood(b, k, dest[k])
      BY <2>1, <2>2 DEF Publication, Position, Settled, Untouched
    <3>2. dest[k] \in Empties => MayReplace(k, dest[k])
      BY <2>1, EmptiesMayBeReplaced
    <3>3. QED
      BY <3>1, <3>2 DEF Stood, AsBefore
  <2>3. ASSUME pc[b] = "ok"
        PROVE  /\ \A k \in Kinds : Resolved(b, k)
               /\ \A k \in Kinds : /\ dest[k] = Staged(b)
                                   /\ content[k][dest[k]].files = Files
    BY <2>1, <2>3 DEF BuildInv, Locks, Resolved, Ended, Publication, Position, Complete
  <2>4. QED
    BY <2>2, <2>3
<1>2. QED
  BY <1>1, Invariance, PTL

\* A build that meets no fault of its own, with nobody beside it and no edit,
\* does not fail, whatever killed or failed builds left behind.
THEOREM LeftoversAreHarmless == Spec => []LeftoversHarmless
<1>1. IInv => LeftoversHarmless
  BY DEF IInv, BuildInv, Harmless, LeftoversHarmless
<1>2. QED
  BY <1>1, Invariance, PTL

\* A launch executes bytes that stood there before any build, or that a build
\* hashed before and after its probe, which ran them too unless others were put
\* in their place for that time (verify_http_runtime_candidate_owned,
\* recheck_executable_integrity and launcher.spawn).
THEOREM LaunchesRunVerifiedBytes == Spec => []LaunchRunsVerifiedBytes
<1>1. IInv => LaunchRunsVerifiedBytes
  BY DEF IInv, Launched, Vouched, LaunchRunsVerifiedBytes
<1>2. QED
  BY <1>1, Invariance, PTL
=============================================================================
