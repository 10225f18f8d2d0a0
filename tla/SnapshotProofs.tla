--------------------------- MODULE SnapshotProofs ---------------------------
(***************************************************************************)
(* What a snapshot captures, for any paths, contents, exclude rules and    *)
(* number of steps of the developer.                                       *)
(***************************************************************************)
EXTENDS Selection, TLAPS

(* What the capture knows of a path that was neither staged nor committed  *)
(* meanwhile.                                                              *)
Created == {"diff", "apply", "list", "copy", "done"}

BaseIsHead(p) == ~unborn /\ stage \in Created => base[p] = head[p]

CloneIsHead(p) == stage \in {"diff", "apply"} => copy[p] = head[p]

PatchIsSeen(p) ==
    stage = "apply" =>
        /\ patch[p][1] = head[p]
        /\ IF index[p] = None THEN patch[p][2] = None ELSE patch[p][2] \in seen[p]

TrackedIsApplied(p) ==
    /\ stage = "list initial" => copy[p] = None
    /\ stage = "list" => IF index[p] = None THEN copy[p] = None ELSE copy[p] \in seen[p]

RestIsListed(p) ==
    stage \in {"copy", "done"} =>
        /\ IF stage = "copy" /\ p \in listed
           THEN index[p] # None \/ p \notin Ignored
           ELSE copy[p] \in seen[p]
        /\ p \in Ignored /\ index[p] = None => copy[p] = None

Followed(p) ==
    /\ BaseIsHead(p)
    /\ CloneIsHead(p)
    /\ PatchIsSeen(p)
    /\ TrackedIsApplied(p)
    /\ RestIsListed(p)

(* What was found of a path that was left alone since the run began, or    *)
(* lost.                                                                   *)
Known(p) ==
    /\ seen[p] = {Worth(p)}
    /\ stage \notin {"head", "base", "tracked"} /\ p \in Modified =>
          p \in changed \cup missed \/ (stage = "cached" /\ head[p] = None)
    /\ stage \notin {"head", "base", "tracked", "cached", "committed"} /\ origin # None /\ origin[p] # head[p] =>
          p \in changed \cup missed
    /\ stage \notin Finding /\ p \in Others => p \in changed \cup missed

(* Nothing is copied before Create begins, and nothing is cloned where     *)
(* there was no commit.                                                    *)
Beginning ==
    /\ ~born => head = Nothing
    /\ stage # "head" /\ ~unborn => born
    /\ stage \in Finding \cup {"clone", "list initial"} => copy = Nothing /\ base = Nothing
    /\ unborn => base = Nothing
    /\ stage \in {"clone", "diff", "apply", "list"} => ~unborn
    /\ stage = "head" => ~unborn
    /\ stage = "list initial" => unborn

(* The commit holds what was captured.                                     *)
CommitIsSnapshot == stage = "done" => commit = AddAll \/ commit = base

(* While the developer rests, every step finds what it needs.              *)
Quiet ==
    moves = 0 =>
        /\ stage \in {"diff", "apply"} => copy = head
        /\ stage = "apply" => \A p \in Path : patch[p] = Difference(p)
        /\ stage = "copy" => \A p \in listed : work[p] # None \/ (unborn /\ index[p] # None)

SnapshotInv ==
    /\ SnapshotTypeOK
    /\ \A p \in Path : Worth(p) \in seen[p]
    /\ \A p \in Path \ moved : Followed(p)
    /\ \A p \in Path \ touched : Known(p)
    /\ Beginning
    /\ CommitIsSnapshot
    /\ Quiet
    /\ QuietCaptureSucceeds

(* The bound on the developer's steps.                                     *)
LEMMA MovesAreCounted == SnapshotTypeOK => moves \in Nat /\ moves <= MaxMoves
<1> SUFFICES ASSUME SnapshotTypeOK PROVE moves \in Nat /\ moves <= MaxMoves
  OBVIOUS
<1>1. moves \in 0..MaxMoves
  BY DEF SnapshotTypeOK
<1> QED
  BY <1>1, SnapshotAssumption

LEMMA SnapshotStarts == SnapshotInit => SnapshotInv
<1> SUFFICES ASSUME SnapshotInit PROVE SnapshotInv
  OBVIOUS
<1> USE SnapshotAssumption DEF SnapshotInit, Tree, File, Nothing
<1>1. \A p \in Path : Worth(p) \in File
  BY DEF Worth
<1>2. SnapshotTypeOK
  <2>1. moves \in 0..MaxMoves
    <3>1. moves = 0 /\ MaxMoves \in Nat
      OBVIOUS
    <3> HIDE SnapshotAssumption DEF SnapshotInit
    <3> QED
      BY <3>1
  <2>2. seen \in [Path -> SUBSET File]
    BY <1>1
  <2>3. patch \in [Path -> File \X File]
    OBVIOUS
  <2> QED
    BY <2>1, <2>2, <2>3 DEF SnapshotTypeOK
<1>3. \A p \in Path : Worth(p) \in seen[p]
  OBVIOUS
<1>4. \A p \in Path \ moved : Followed(p)
  BY DEF Followed, BaseIsHead, Created, CloneIsHead, PatchIsSeen, TrackedIsApplied, RestIsListed
<1>5. \A p \in Path \ touched : Known(p)
  BY DEF Known, Finding
<1>6. Beginning
  BY DEF Beginning, Finding
<1> QED
  BY <1>2, <1>3, <1>4, <1>5, <1>6 DEF SnapshotInv, CommitIsSnapshot, Quiet, QuietCaptureSucceeds

(* The developer's steps leave what was captured of the other paths valid. *)
LEMMA DeveloperStep == SnapshotInv /\ Developer => SnapshotInv'
<1> SUFFICES ASSUME SnapshotInv, Developer PROVE SnapshotInv'
  OBVIOUS
<1> USE SnapshotAssumption
<1>0. SnapshotTypeOK /\ Capturing /\ moves \in Nat /\ moves < MaxMoves
  BY MovesAreCounted DEF SnapshotInv, Developer
<1>1. UNCHANGED <<unborn, origin, changed, missed, stage, base, patch, listed, copy, commit>>
  BY DEF Developer, capture, found
<1>2. head' \in Tree /\ index' \in Tree /\ work' \in Tree /\ born' \in BOOLEAN
  <2>1. born' \in BOOLEAN /\ head' \in Tree
    BY <1>0 DEF Developer, Edit, Stage, Untrack, Commit, SnapshotTypeOK
  <2>2. index' \in Tree
    BY <1>0 DEF Developer, Edit, Stage, Untrack, Commit, SnapshotTypeOK, Tree, File
  <2>3. work' \in Tree
    <3>1. work \in [Path -> File]
      BY <1>0 DEF SnapshotTypeOK, Tree
    <3>2. ASSUME NEW p \in Path, NEW file \in File, Edit(p, file) PROVE work' \in [Path -> File]
      BY <3>1, <3>2 DEF Edit
    <3>3. (\E p \in Path : \E file \in File : Edit(p, file)) \/ work' = work
      BY DEF Developer, Stage, Untrack, Commit
    <3> QED
      BY <3>1, <3>2, <3>3 DEF Tree
  <2> QED
    BY <2>1, <2>2, <2>3
<1>3. /\ moves' = moves + 1
      /\ seen' = [p \in Path |-> seen[p] \cup {Worth(p)'}]
      /\ moved' = moved \cup {p \in Path : index'[p] # index[p] \/ head'[p] # head[p]}
      /\ touched' = touched \cup moved' \cup {p \in Path : work'[p] # work[p]}
  BY DEF Developer, Watch
<1>4. \A p \in Path : Worth(p)' \in File
  BY <1>2 DEF Worth, Tree, File
<1>5. SnapshotTypeOK'
  <2>1. seen' \in [Path -> SUBSET File]
    BY <1>0, <1>3, <1>4 DEF SnapshotTypeOK
  <2>2. moved' \subseteq touched' /\ touched' \subseteq Path
    BY <1>0, <1>3 DEF SnapshotTypeOK
  <2>3. moves' \in 0..MaxMoves
    BY <1>0, <1>3
  <2> QED
    BY <1>0, <1>1, <1>2, <2>1, <2>2, <2>3 DEF SnapshotTypeOK
<1>6. (\A p \in Path : Worth(p) \in seen[p])'
  BY <1>3
<1>7. \A p \in Path \ moved' : Followed(p)'
  <2> TAKE p \in Path \ moved'
  <2>1. p \in Path \ moved /\ index'[p] = index[p] /\ head'[p] = head[p]
    BY <1>3
  <2>2. seen[p] \subseteq seen'[p]
    BY <1>3
  <2>3. Followed(p)
    BY <2>1 DEF SnapshotInv
  <2> QED
    BY <1>1, <2>1, <2>2, <2>3
       DEF Followed, BaseIsHead, CloneIsHead, PatchIsSeen, TrackedIsApplied, RestIsListed
<1>10. \A p \in Path \ touched' : Known(p)'
  <2> TAKE p \in Path \ touched'
  <2>1. p \in Path \ touched /\ index'[p] = index[p] /\ head'[p] = head[p] /\ work'[p] = work[p]
    BY <1>3
  <2>2. Known(p)
    BY <2>1 DEF SnapshotInv
  <2>3. Worth(p)' = Worth(p) /\ (p \in Modified' <=> p \in Modified) /\ (p \in Others' <=> p \in Others)
    BY <2>1 DEF Worth, Modified, Difference, Others
  <2>4. seen'[p] = {Worth(p)'}
    BY <1>3, <2>2, <2>3 DEF Known
  <2> QED
    BY <1>1, <2>1, <2>2, <2>3, <2>4 DEF Known
<1>11. Beginning'
  <2>1. (born' = born /\ head' = head) \/ born' = TRUE
    BY DEF Developer, Edit, Stage, Untrack, Commit
  <2> QED
    BY <1>1, <2>1 DEF SnapshotInv, Beginning, Nothing
<1>8. moves' # 0 /\ stage' \notin {"done", "failed"}
  BY <1>0, <1>1, <1>3 DEF Capturing
<1>9. CommitIsSnapshot' /\ Quiet' /\ QuietCaptureSucceeds'
  BY <1>8 DEF CommitIsSnapshot, Quiet, QuietCaptureSucceeds
<1> QED
  BY <1>5, <1>6, <1>7, <1>9, <1>10, <1>11 DEF SnapshotInv

(* A step of Create leads on from what was captured.                       *)
LEMMA CreateStep == SnapshotInv /\ Create => SnapshotInv'
<1> SUFFICES ASSUME SnapshotInv, Create PROVE SnapshotInv'
  OBVIOUS
<1> USE SnapshotAssumption
<1>0. /\ SnapshotTypeOK
      /\ UNCHANGED <<born, head, index, work, unborn, origin, changed, missed, seen, moved, touched, moves>>
  BY DEF SnapshotInv, Create, checkout, found, history
<1>1. (\A p \in Path : Worth(p) \in seen[p])'
  BY <1>0 DEF SnapshotInv, Worth
<1>2. Beginning /\ \A p \in Path \ moved : Followed(p) /\ Worth(p) \in seen[p]
  BY DEF SnapshotInv
<1>14. /\ stage \notin Finding
       /\ stage' \notin Finding \cup {"clone", "list initial"}
       /\ stage' \in {"diff", "apply", "list"} => stage \in {"clone", "diff", "apply"}
  BY DEF Create, Clone, Diff, Apply, ApplyFails, List, ListInitial, CopyPath, CopyFails, Synthesize, CommandFails, Capturing, Finding
<1>15. base' = base \/ stage = "clone"
  BY DEF Create, Clone, Diff, Apply, ApplyFails, List, ListInitial, CopyPath, CopyFails, Synthesize, CommandFails
<1>16. Beginning'
  BY <1>0, <1>2, <1>14, <1>15 DEF Beginning, Finding, Nothing
<1>17. \A p \in Path \ touched : Known(p)'
  <2> TAKE p \in Path \ touched
  <2>1. Known(p)
    BY DEF SnapshotInv
  <2>2. Worth(p)' = Worth(p) /\ (p \in Modified' <=> p \in Modified) /\ (p \in Others' <=> p \in Others)
    BY <1>0 DEF Worth, Modified, Difference, Others
  <2> QED
    BY <1>0, <1>2, <1>14, <2>1, <2>2 DEF Known, Finding, Beginning
<1> DEFINE Rest == SnapshotTypeOK' /\ (\A p \in Path \ moved : Followed(p)') /\ CommitIsSnapshot'
                   /\ Quiet' /\ QuietCaptureSucceeds'
<1> USE DEF Followed, BaseIsHead, Created, CloneIsHead, PatchIsSeen, TrackedIsApplied, RestIsListed
<1>3. ASSUME Clone PROVE Rest
  <2>1. SnapshotTypeOK'
    BY <1>0, <1>3 DEF Clone, SnapshotTypeOK
  <2>2. \A p \in Path \ moved : Followed(p)'
    BY <1>0, <1>3 DEF Clone
  <2> QED
    BY <1>0, <1>3, <2>1, <2>2 DEF Clone, CommitIsSnapshot, Quiet, QuietCaptureSucceeds
<1>4. ASSUME Diff PROVE Rest
  <2>0. \A p \in Path : Difference(p) \in File \X File
    BY <1>0 DEF SnapshotTypeOK, Difference, Tree, File
  <2>1. SnapshotTypeOK'
    BY <1>0, <1>4, <2>0 DEF Diff, SnapshotTypeOK
  <2>2. \A p \in Path \ moved : Followed(p)'
    <3> TAKE p \in Path \ moved
    <3>1. patch'[p] = Difference(p)
      BY <1>4 DEF Diff
    <3>2. index[p] # None => work[p] \in seen[p]
      BY <1>2 DEF Worth
    <3> QED
      BY <1>0, <1>2, <1>4, <3>1, <3>2 DEF Diff, Difference
  <2>3. Quiet'
    BY <1>0, <1>4 DEF Diff, Quiet, Difference, SnapshotInv
  <2> QED
    BY <1>0, <1>4, <2>1, <2>2, <2>3 DEF Diff, CommitIsSnapshot, QuietCaptureSucceeds
<1>5. ASSUME Apply PROVE Rest
  <2>1. SnapshotTypeOK'
    BY <1>0, <1>5 DEF Apply, SnapshotTypeOK, Tree
  <2>2. \A p \in Path \ moved : Followed(p)'
    <3> TAKE p \in Path \ moved
    <3>1. copy'[p] = IF p \in Changed THEN patch[p][2] ELSE copy[p]
      BY <1>5 DEF Apply
    <3>2. copy'[p] = patch[p][2]
      BY <1>2, <1>5, <3>1 DEF Apply, Changed
    <3> QED
      BY <1>0, <1>2, <1>5, <3>2 DEF Apply
  <2> QED
    BY <1>0, <1>5, <2>1, <2>2 DEF Apply, CommitIsSnapshot, Quiet, QuietCaptureSucceeds
<1>6. ASSUME ApplyFails PROVE Rest
  <2>1. SnapshotTypeOK' /\ (\A p \in Path \ moved : Followed(p)')
    BY <1>0, <1>2, <1>6 DEF ApplyFails, SnapshotTypeOK
  <2>2. moves # 0
    <3> SUFFICES ASSUME moves = 0 PROVE FALSE
      OBVIOUS
    <3>1. copy = head /\ \A p \in Path : patch[p][1] = head[p]
      BY <1>6 DEF SnapshotInv, Quiet, ApplyFails, Difference
    <3> QED
      BY <1>6, <3>1 DEF ApplyFails, Changed
  <2>3. moves > 0
    BY <1>0, <2>2, MovesAreCounted
  <2> QED
    BY <1>0, <1>6, <2>1, <2>3 DEF ApplyFails, CommitIsSnapshot, Quiet, QuietCaptureSucceeds
<1>7. ASSUME List PROVE Rest
  <2>1. SnapshotTypeOK'
    BY <1>0, <1>7 DEF List, Others, SnapshotTypeOK
  <2>2. \A p \in Path \ moved : Followed(p)'
    BY <1>0, <1>2, <1>7 DEF List, Others, Worth
  <2> QED
    BY <1>0, <1>7, <2>1, <2>2 DEF List, Others, CommitIsSnapshot, Quiet, QuietCaptureSucceeds
<1>8. ASSUME ListInitial PROVE Rest
  <2>1. SnapshotTypeOK'
    BY <1>0, <1>8 DEF ListInitial, Others, Cached, SnapshotTypeOK
  <2>2. \A p \in Path \ moved : Followed(p)'
    <3>1. unborn
      BY <1>2, <1>8 DEF ListInitial, Beginning
    <3> QED
      BY <1>0, <1>2, <1>8, <3>1 DEF ListInitial, Others, Cached, Worth
  <2>3. Quiet'
    BY <1>0, <1>8 DEF SnapshotInv, Beginning, ListInitial, Others, Cached, Quiet
  <2> QED
    BY <1>0, <1>8, <2>1, <2>2, <2>3 DEF ListInitial, CommitIsSnapshot, QuietCaptureSucceeds
<1>9. ASSUME NEW q \in Path, CopyPath(q) PROVE Rest
  <2>1. SnapshotTypeOK'
    BY <1>0, <1>9 DEF CopyPath, SnapshotTypeOK, Tree
  <2>2. \A p \in Path \ moved : Followed(p)'
    BY <1>0, <1>2, <1>9 DEF CopyPath, Worth, SnapshotTypeOK, Tree
  <2> QED
    BY <1>0, <1>9, <2>1, <2>2 DEF CopyPath, CommitIsSnapshot, Quiet, QuietCaptureSucceeds, SnapshotInv
<1>10. ASSUME NEW q \in Path, CopyFails(q) PROVE Rest
  <2>1. SnapshotTypeOK' /\ (\A p \in Path \ moved : Followed(p)')
    BY <1>0, <1>2, <1>10 DEF CopyFails, SnapshotTypeOK
  <2>2. moves = 0 => unborn /\ index[q] # None
    BY <1>10 DEF CopyFails, SnapshotInv, Quiet
  <2>3. QuietCaptureSucceeds'
    <3>1. moves > 0 \/ moves = 0
      BY <1>0, MovesAreCounted
    <3> QED
      BY <1>0, <1>10, <2>2, <3>1 DEF CopyFails, QuietCaptureSucceeds
  <2> QED
    BY <1>0, <1>10, <2>1, <2>3 DEF CopyFails, CommitIsSnapshot, Quiet
<1>11. ASSUME Synthesize PROVE Rest
  <2>0. AddAll \in Tree
    BY <1>0 DEF AddAll, SnapshotTypeOK, Tree, File
  <2>1. SnapshotTypeOK'
    BY <1>0, <1>11, <2>0 DEF Synthesize, SnapshotTypeOK
  <2>2. \A p \in Path \ moved : Followed(p)'
    BY <1>0, <1>2, <1>11 DEF Synthesize
  <2>3. AddAll' = AddAll
    BY <1>11 DEF Synthesize, AddAll
  <2> QED
    BY <1>0, <1>11, <2>1, <2>2, <2>3 DEF Synthesize, CommitIsSnapshot, Quiet, QuietCaptureSucceeds
<1>12. ASSUME CommandFails PROVE Rest
  <2>1. SnapshotTypeOK' /\ (\A p \in Path \ moved : Followed(p)')
    BY <1>0, <1>2, <1>12 DEF CommandFails, Capturing, SnapshotTypeOK
  <2> QED
    BY <1>0, <1>12, <2>1 DEF CommandFails, CommitIsSnapshot, Quiet, QuietCaptureSucceeds
<1>13. Rest
  BY <1>3, <1>4, <1>5, <1>6, <1>7, <1>8, <1>9, <1>10, <1>11, <1>12 DEF Create
<1> QED
  BY <1>0, <1>1, <1>13, <1>16, <1>17 DEF SnapshotInv

(* A step of Discover finds what changed so far.                           *)
LEMMA DiscoverStep == SnapshotInv /\ Discover => SnapshotInv'
<1> SUFFICES ASSUME SnapshotInv, Discover PROVE SnapshotInv'
  OBVIOUS
<1> USE SnapshotAssumption
<1>0. /\ SnapshotTypeOK /\ Beginning
      /\ UNCHANGED <<born, head, index, work, base, patch, listed, copy, commit>>
  BY DEF SnapshotInv, Discover, checkout, capture
<1>1. /\ touched' = touched /\ moves' = moves
      /\ stage \in Finding
      /\ stage' \in (Finding \cup {"clone", "list initial"}) \ {"head"}
  BY DEF Discover, FindHead, FindBase, FindTracked, FindCached, FindCommitted, FindUntracked, BeginCreate, history, Finding
<1>2. \/ seen' = seen /\ moved' = moved
      \/ seen' = [p \in Path |-> {Worth(p)}] /\ moved' = {}
  BY DEF Discover, FindHead, FindBase, FindTracked, FindCached, FindCommitted, FindUntracked, BeginCreate, history
<1>3. \A p \in Path : Worth(p)' = Worth(p) /\ Worth(p) \in File
  BY <1>0 DEF Worth, SnapshotTypeOK, Tree, File
<1>4. unborn' \in BOOLEAN /\ origin' \in Tree \cup {None} /\ changed' \subseteq Path /\ missed' \subseteq Path
  BY <1>0 DEF Discover, FindHead, FindBase, FindTracked, FindCached, FindCommitted, FindUntracked, BeginCreate, history,
              SnapshotTypeOK, Tree, File, Lists, Modified, Cached, Others
<1>5. SnapshotTypeOK'
  <2>1. [p \in Path |-> {Worth(p)}] \in [Path -> SUBSET File]
    BY <1>3
  <2>2. seen' \in [Path -> SUBSET File]
    BY <1>0, <1>2, <2>1 DEF SnapshotTypeOK
  <2>3. moved' \subseteq touched
    BY <1>0, <1>2 DEF SnapshotTypeOK
  <2> QED
    BY <1>0, <1>1, <1>4, <2>2, <2>3 DEF SnapshotTypeOK, Finding
<1>6. (\A p \in Path : Worth(p) \in seen[p])'
  BY <1>2, <1>3 DEF SnapshotInv
<1>7. Beginning'
  <2> USE <1>0 DEF Beginning, Finding, Nothing
  <2>1. CASE FindHead
    BY <2>1 DEF FindHead
  <2>2. CASE FindBase
    BY <2>2 DEF FindBase
  <2>3. CASE FindTracked \/ FindCached
    BY <2>3 DEF FindTracked, FindCached
  <2>4. CASE FindCommitted
    BY <2>4 DEF FindCommitted
  <2>5. CASE FindUntracked
    BY <2>5 DEF FindUntracked, BeginCreate
  <2> QED
    BY <2>1, <2>2, <2>3, <2>4, <2>5 DEF Discover
<1>8. \A p \in Path \ moved' : Followed(p)'
  BY <1>0, <1>1 DEF Finding, Beginning, Nothing, Followed, BaseIsHead, Created, CloneIsHead, PatchIsSeen,
                    TrackedIsApplied, RestIsListed
<1>9. \A p \in Path \ touched' : Known(p)'
  <2> TAKE p \in Path \ touched'
  <2>0. p \in Path /\ p \notin touched /\ Known(p)
    BY <1>1 DEF SnapshotInv
  <2>1. (p \in Modified' <=> p \in Modified) /\ (p \in Others' <=> p \in Others)
    BY <1>0 DEF Modified, Difference, Others
  <2>2. seen'[p] = {Worth(p)'}
    BY <1>2, <1>3, <2>0 DEF Known
  <2> USE <1>0, <1>1, <2>0, <2>1, <2>2 DEF Known, Finding
  <2>3. CASE FindHead
    BY <2>3 DEF FindHead
  <2>4. CASE FindBase
    BY <2>4 DEF FindBase
  <2>5. CASE FindTracked
    BY <2>5 DEF FindTracked, Beginning, Nothing
  <2>6. CASE FindCached
    <3>1. p \in Modified /\ head[p] = None => p \in Cached
      BY DEF Modified, Difference, Cached
    <3> QED
      BY <2>6, <3>1 DEF FindCached, Lists
  <2>7. CASE FindCommitted
    BY <2>7 DEF FindCommitted, Lists
  <2>8. CASE FindUntracked
    BY <2>8 DEF FindUntracked, Lists, BeginCreate
  <2> QED
    BY <2>3, <2>4, <2>5, <2>6, <2>7, <2>8 DEF Discover
<1>10. CommitIsSnapshot' /\ Quiet' /\ QuietCaptureSucceeds'
  BY <1>1 DEF Finding, CommitIsSnapshot, Quiet, QuietCaptureSucceeds
<1> QED
  BY <1>5, <1>6, <1>7, <1>8, <1>9, <1>10 DEF SnapshotInv

LEMMA SnapshotStep == SnapshotInv /\ [SnapshotNext]_snapshotVars => SnapshotInv'
<1> SUFFICES ASSUME SnapshotInv, UNCHANGED snapshotVars PROVE SnapshotInv'
  BY DeveloperStep, CreateStep, DiscoverStep DEF SnapshotNext
<1> USE DEF SnapshotInv, snapshotVars
<1>1. SnapshotTypeOK'
  BY DEF SnapshotTypeOK
<1>2. \A p \in Path : Worth(p)' = Worth(p)
  BY DEF Worth
<1>3. (\A p \in Path : Worth(p) \in seen[p])'
  BY <1>2
<1>4. \A p \in Path \ moved' : Followed(p)'
  BY DEF Followed, BaseIsHead, Created, CloneIsHead, PatchIsSeen, TrackedIsApplied, RestIsListed
<1>5. \A p \in Path \ touched' : Known(p)'
  BY <1>2 DEF Known, Modified, Difference, Others
<1>6. Beginning' /\ CommitIsSnapshot' /\ Quiet' /\ QuietCaptureSucceeds'
  BY DEF Beginning, CommitIsSnapshot, AddAll, Quiet, Difference, QuietCaptureSucceeds
<1> QED
  BY <1>1, <1>3, <1>4, <1>5, <1>6

LEMMA SnapshotInvariant == SnapshotSpec => []SnapshotInv
BY SnapshotStarts, SnapshotStep, PTL DEF SnapshotSpec

(* Type correctness of the capture.                                        *)
THEOREM SnapshotTypeCorrect == SnapshotSpec => []SnapshotTypeOK
<1>1. SnapshotInv => SnapshotTypeOK
  BY DEF SnapshotInv
<1> QED
  BY <1>1, SnapshotInvariant, PTL

(* Whatever the developer edits meanwhile, a file of a finished snapshot   *)
(* is one that the checkout held during the capture, unless it was staged, *)
(* untracked or committed then.                                            *)
THEOREM SnapshotIsCheckout == SnapshotSpec => []CapturedAsSeen
<1>1. SnapshotInv => CapturedAsSeen
  BY DEF SnapshotInv, CapturedAsSeen, Followed, RestIsListed
<1> QED
  BY <1>1, SnapshotInvariant, PTL

(* The synthetic commit holds the snapshot but for forced ignored files.   *)
THEOREM CommitIsWhatRuns == SnapshotSpec => []CommitHoldsSnapshot
<1>1. SnapshotInv => CommitHoldsSnapshot
  BY DEF SnapshotInv, CommitHoldsSnapshot, Followed, RestIsListed, CommitIsSnapshot, AddAll
<1> QED
  BY <1>1, SnapshotInvariant, PTL

(* Left alone, a capture succeeds.                                         *)
THEOREM QuietSnapshotSucceeds == SnapshotSpec => []QuietCaptureSucceeds
<1>1. SnapshotInv => QuietCaptureSucceeds
  BY DEF SnapshotInv
<1> QED
  BY <1>1, SnapshotInvariant, PTL

(* What differs in the snapshot from the reference and was left alone      *)
(* since the run began is a changed file, but for the lost ones.           *)
THEOREM PathFiltersSeeTheSnapshot == SnapshotSpec => []ChangesAreKnown
<1>1. SnapshotInv => ChangesAreKnown
  <2> SUFFICES ASSUME SnapshotInv, stage = "done", NEW p \in Path \ touched, copy[p] # Reference(p)
               PROVE  p \in changed \cup missed
    BY DEF ChangesAreKnown
  <2>1. p \in Path \ moved
    BY DEF SnapshotInv, SnapshotTypeOK
  <2>2. Known(p) /\ Followed(p)
    BY <2>1 DEF SnapshotInv
  <2>3. copy[p] = Worth(p)
    BY <2>2 DEF Known, Followed, RestIsListed
  <2>4. Worth(p) # head[p] => p \in changed \cup missed
    BY <2>2 DEF Known, Finding, Worth, Modified, Difference, Others
  <2> QED
    BY <2>2, <2>3, <2>4 DEF Known, Finding, Reference
<1> QED
  BY <1>1, SnapshotInvariant, PTL

(* The triggers ask of the changed files only that one of them matches.    *)
LEMMA MoreFilesSelectMore ==
    ASSUME NEW declared, NEW event, NEW few, NEW many, few \subseteq many,
           Workflow!MatchesEvent(declared, event, few)
    PROVE  Workflow!MatchesEvent(declared, event, many)
<1>1. \A paths, ignore : Workflow!MatchPaths(paths, ignore, few) => Workflow!MatchPaths(paths, ignore, many)
  BY DEF Workflow!MatchPaths
<1> QED
  BY <1>1 DEF Workflow!MatchesEvent

(* Whatever the path filters, the event and the developer's steps, no      *)
(* workflow is passed over that the files left alone since the run began   *)
(* would trigger as the snapshot holds them, those aside that only a       *)
(* listing that failed would have named.                                   *)
THEOREM EveryWorkflowIsSelected == SnapshotSpec => []NoWorkflowMissed
<1>1. ChangesAreKnown => NoWorkflowMissed
  <2> SUFFICES ASSUME ChangesAreKnown, stage = "done",
                      NEW event \in Workflow!Events, NEW declared \in Declarations,
                      Workflow!MatchesEvent(declared, event, Differing)
               PROVE  Workflow!MatchesEvent(declared, event, changed)
    BY DEF NoWorkflowMissed, Selected
  <2>1. Differing \subseteq changed
    BY DEF ChangesAreKnown, Differing
  <2> QED
    BY <2>1, MoreFilesSelectMore
<1> QED
  BY <1>1, PathFiltersSeeTheSnapshot, PTL
=============================================================================
