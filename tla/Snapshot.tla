------------------------------ MODULE Snapshot ------------------------------
(***************************************************************************)
(* What a run knows of a checkout, and the isolated copy of it that it     *)
(* executes: Discover finds the commits and the changed files by which     *)
(* path filters are judged (internal/repo/repo.go); Create clones HEAD,    *)
(* applies the difference between HEAD and the working tree, copies what   *)
(* is untracked and commits the whole (internal/snapshot/snapshot.go).     *)
(* Neither takes a lock: the developer edits, stages and commits between   *)
(* any two of their git commands and copies.                               *)
(*                                                                         *)
(* A file is a content or None; each git command is one step.              *)
(***************************************************************************)
EXTENDS Naturals

CONSTANTS Path,
          Content,
          Ignored,  \* the paths that the exclude rules of git match
          None,     \* no such file, no such commit
          Bases,    \* the trees that a merge base other than HEAD may have
          MaxMoves  \* bound: the developer's steps during the capture

ASSUME SnapshotAssumption ==
    /\ Ignored \subseteq Path
    /\ None \notin Content
    /\ Bases \subseteq [Path -> Content \cup {None}]
    /\ None \notin [Path -> Content \cup {None}]
    /\ MaxMoves \in Nat

File == Content \cup {None}
Tree == [Path -> File]

VARIABLES born,   \* is there a commit?
          head,   \* the tree of the commit HEAD
          index,  \* the index; an entry other than None is a tracked file
          work,   \* the working tree
          stage,  \* what Discover or Create does next, or how it ended
          unborn, \* Discover found no HEAD
          origin, \* the tree of the merge base it found, or None
          changed,\* the changed files it found
          missed, \* history: the files that a listing of Discover did not name
                  \* because it failed, and that no other named
          base,   \* the tree that was cloned
          patch,  \* the captured difference: <<old, new>> per path
          listed, \* the paths that remain to be copied
          copy,   \* the working tree of the snapshot
          commit, \* the tree of the snapshot's synthetic commit
          seen,   \* history: what the checkout held of each path since Create began
          moved,  \* history: the paths staged, untracked or committed since then
          touched,\* history: the paths edited, staged ... since Discover began
          moves

checkout == <<born, head, index, work>>
found    == <<unborn, origin, changed, missed>>
capture  == <<base, patch, listed, copy, commit>>
history  == <<seen, moved, touched, moves>>
snapshotVars == <<born, head, index, work, stage, unborn, origin, changed, missed,
                  base, patch, listed, copy, commit, seen, moved, touched, moves>>

Nothing == [p \in Path |-> None]

(* What a snapshot should hold of a path: the file, unless git ignores it. *)
Worth(p) == IF index[p] # None \/ p \notin Ignored THEN work[p] ELSE None

SnapshotInit ==
    /\ born \in BOOLEAN
    /\ head \in IF born THEN Tree ELSE {Nothing}
    /\ index \in Tree /\ work \in Tree
    /\ stage = "head"
    /\ unborn = FALSE /\ origin = None /\ changed = {} /\ missed = {}
    /\ base = Nothing /\ copy = Nothing /\ commit = Nothing
    /\ patch = [p \in Path |-> <<None, None>>]
    /\ listed = {}
    /\ seen = [p \in Path |-> {Worth(p)}]
    /\ moved = {} /\ touched = {}
    /\ moves = 0

Capturing == stage \notin {"done", "failed", "broken"}

----------------------------------------------------------------------------
(* The developer.                                                          *)

(* Observe what the checkout holds after a step.                           *)
Watch ==
    /\ moves' = moves + 1
    /\ seen' = [p \in Path |-> seen[p] \cup {Worth(p)'}]
    /\ moved' = moved \cup {p \in Path : index'[p] # index[p] \/ head'[p] # head[p]}
    /\ touched' = touched \cup moved' \cup {p \in Path : work'[p] # work[p]}

Edit(p, file) ==
    /\ work' = [work EXCEPT ![p] = file]
    /\ UNCHANGED <<born, head, index>>

Stage(p) ==
    /\ index' = [index EXCEPT ![p] = work[p]]
    /\ UNCHANGED <<born, head, work>>

Untrack(p) ==
    /\ index' = [index EXCEPT ![p] = None]
    /\ UNCHANGED <<born, head, work>>

Commit ==
    /\ born' = TRUE
    /\ head' = index
    /\ UNCHANGED <<index, work>>

Developer ==
    /\ Capturing
    /\ moves < MaxMoves
    /\ \/ \E p \in Path : (\E file \in File : Edit(p, file)) \/ Stage(p) \/ Untrack(p)
       \/ Commit
    /\ Watch
    /\ UNCHANGED <<stage, found, capture>>

----------------------------------------------------------------------------
(* The answers of git.                                                     *)

(* Mutant: git diff, without HEAD.                                         *)
DifferenceUnstaged(p) == <<index[p], IF index[p] = None THEN None ELSE work[p]>>

(* git diff HEAD: a path without an index entry counts as deleted.         *)
Difference(p) == <<head[p], IF index[p] = None THEN None ELSE work[p]>>

Cached == {p \in Path : index[p] # None}

Others == {p \in Path \ Ignored : index[p] = None /\ work[p] # None}

----------------------------------------------------------------------------
(* Discover.  A command that fails is taken for one that prints nothing.   *)

Finding == {"head", "base", "tracked", "cached", "committed", "untracked"}

(* A failure is not told from the absence of a commit.                     *)
FindHead ==
    /\ stage = "head"
    /\ unborn' \in IF born THEN BOOLEAN ELSE {TRUE}
    /\ stage' = "base"
    /\ UNCHANGED <<origin, changed, missed, history>>

(* The merge base with the default branch is HEAD itself, an older commit, *)
(* or unknown, as when git fails.                                          *)
FindBase ==
    /\ stage = "base"
    /\ origin' \in IF born THEN {None, head} \cup Bases ELSE {None}
    /\ stage' = "tracked"
    /\ UNCHANGED <<unborn, changed, missed, history>>

(* A git command lists files, or fails and no file is listed.              *)
Lists(files) ==
    \/ changed' = changed \cup files /\ missed' = missed \ files
    \/ changed' = changed /\ missed' = missed \cup (files \ changed)

Modified == {p \in Path : Difference(p)[1] # Difference(p)[2]}

(* git diff HEAD, which fails where there is no commit, or by itself.      *)
FindTracked ==
    /\ stage = "tracked"
    /\ \/ born /\ changed' = Modified /\ stage' = "committed" /\ UNCHANGED missed
       \/ stage' = "cached" /\ missed' = (IF born THEN Modified ELSE {}) /\ UNCHANGED changed
    /\ UNCHANGED <<unborn, origin, history>>

(* In its place everything that git does not ignore.                       *)
FindCached ==
    /\ stage = "cached"
    /\ Lists(Cached \cup Others)
    /\ stage' = "committed"
    /\ UNCHANGED <<unborn, origin, history>>

FindCommitted ==
    /\ stage = "committed"
    /\ Lists(IF origin = None THEN {} ELSE {p \in Path : origin[p] # head[p]})
    /\ stage' = "untracked"
    /\ UNCHANGED <<unborn, origin, history>>

(* Create begins: what the checkout holds from here on may be captured.    *)
BeginCreate ==
    /\ stage' = IF unborn THEN "list initial" ELSE "clone"
    /\ seen' = [p \in Path |-> {Worth(p)}]
    /\ moved' = {}
    /\ UNCHANGED <<unborn, origin, touched, moves>>

(* Mutant: untracked files are not changed files.                          *)
IgnoreUntracked ==
    /\ stage = "untracked"
    /\ UNCHANGED <<changed, missed>>
    /\ BeginCreate

FindUntracked ==
    /\ stage = "untracked"
    /\ Lists(Others)
    /\ BeginCreate

Discover ==
    /\ FindHead \/ FindBase \/ FindTracked \/ FindCached \/ FindCommitted \/ FindUntracked
    /\ UNCHANGED <<checkout, capture>>

----------------------------------------------------------------------------
(* Create.                                                                 *)

Clone ==
    /\ stage = "clone"
    /\ base' = head
    /\ copy' = head
    /\ stage' = "diff"
    /\ UNCHANGED <<patch, listed, commit>>

Diff ==
    /\ stage = "diff"
    /\ patch' = [p \in Path |-> Difference(p)]
    /\ stage' = "apply"
    /\ UNCHANGED <<base, listed, copy, commit>>

Changed == {p \in Path : patch[p][1] # patch[p][2]}

(* git apply changes every file of the patch or none.                      *)
Apply ==
    /\ stage = "apply"
    /\ \A p \in Changed : copy[p] = patch[p][1]
    /\ copy' = [p \in Path |-> IF p \in Changed THEN patch[p][2] ELSE copy[p]]
    /\ stage' = "list"
    /\ UNCHANGED <<base, patch, listed, commit>>

ApplyFails ==
    /\ stage = "apply"
    /\ \E p \in Changed : copy[p] # patch[p][1]
    /\ stage' = "failed"
    /\ UNCHANGED <<base, patch, listed, copy, commit>>

(* Mutant: the tracked files are copied too.                               *)
ListCached ==
    /\ stage = "list"
    /\ listed' = Others \cup Cached
    /\ stage' = "copy"
    /\ UNCHANGED <<base, patch, copy, commit>>

List ==
    /\ stage = "list"
    /\ listed' = Others
    /\ stage' = "copy"
    /\ UNCHANGED <<base, patch, copy, commit>>

ListInitial ==
    /\ stage = "list initial"
    /\ listed' = Others \cup Cached
    /\ stage' = "copy"
    /\ UNCHANGED <<base, patch, copy, commit>>

CopyPath(p) ==
    /\ stage = "copy" /\ p \in listed
    /\ work[p] # None
    /\ copy' = [copy EXCEPT ![p] = work[p]]
    /\ listed' = listed \ {p}
    /\ UNCHANGED <<stage, base, patch, commit>>

CopyFails(p) ==
    /\ stage = "copy" /\ p \in listed
    /\ work[p] = None
    /\ stage' = "failed"
    /\ UNCHANGED <<base, patch, listed, copy, commit>>

(* Mutant: git add -u.                                                     *)
AddTracked == [p \in Path |-> IF base[p] # None THEN copy[p] ELSE None]

(* git add -A leaves out a new file that git ignores.                      *)
AddAll == [p \in Path |-> IF base[p] # None \/ p \notin Ignored THEN copy[p] ELSE None]

(* A commit that fails goes unnoticed, where the clone has a HEAD.         *)
Synthesize ==
    /\ stage = "copy" /\ listed = {}
    /\ commit' = AddAll \/ (~unborn /\ commit' = base)
    /\ stage' = "done"
    /\ UNCHANGED <<base, patch, listed, copy>>

(* A command of Create is interrupted by the user, or fails for its own    *)
(* reasons.                                                                *)
CommandFails ==
    /\ Capturing /\ stage \notin Finding
    /\ stage' = "broken"
    /\ UNCHANGED <<base, patch, listed, copy, commit>>

Create ==
    /\ \/ Clone \/ Diff \/ Apply \/ ApplyFails \/ List \/ ListInitial
       \/ \E p \in Path : CopyPath(p) \/ CopyFails(p)
       \/ Synthesize \/ CommandFails
    /\ UNCHANGED <<checkout, found, history>>

SnapshotNext == Discover \/ Create \/ Developer

SnapshotSpec == SnapshotInit /\ [][SnapshotNext]_snapshotVars

----------------------------------------------------------------------------

SnapshotTypeOK ==
    /\ born \in BOOLEAN
    /\ head \in Tree /\ index \in Tree /\ work \in Tree
    /\ stage \in {"head", "base", "tracked", "cached", "committed", "untracked", "clone", "diff",
                  "apply", "list", "list initial", "copy", "done", "failed", "broken"}
    /\ unborn \in BOOLEAN
    /\ origin \in Tree \cup {None}
    /\ changed \subseteq Path /\ missed \subseteq Path
    /\ base \in Tree /\ copy \in Tree /\ commit \in Tree
    /\ patch \in [Path -> File \X File]
    /\ listed \subseteq Path
    /\ seen \in [Path -> SUBSET File]
    /\ moved \subseteq touched /\ touched \subseteq Path
    /\ moves \in 0..MaxMoves

(* While files are edited under it, each file of a snapshot is one that    *)
(* the checkout held during the capture (and one that was not edited is    *)
(* exactly captured), unless it was staged, untracked or committed         *)
(* meanwhile.                                                              *)
CapturedAsSeen ==
    stage = "done" => \A p \in Path \ moved : copy[p] \in seen[p]

(* What runs is what the event calls the pushed commit: the synthetic      *)
(* commit leaves out nothing of the snapshot but new files that were       *)
(* staged although git ignores them.                                       *)
CommitHoldsSnapshot ==
    stage = "done" /\ commit # base =>
        \A p \in Path \ moved :
            commit[p] = copy[p] \/ (p \in Ignored /\ index[p] # None /\ base[p] = None)

(* A capture fails only when the developer interferes, or when no commit   *)
(* was found and a staged file was deleted again.                          *)
QuietCaptureSucceeds ==
    stage = "failed" => moves > 0 \/ (unborn /\ \E p \in Path : index[p] # None /\ work[p] = None)

(* What the changed files are changed against: the merge base that was     *)
(* found, or HEAD.                                                         *)
Reference(p) == IF origin = None THEN head[p] ELSE origin[p]

(* Path filters see what runs: a file left alone since the run began that  *)
(* differs in the snapshot from the reference is among the changed files,  *)
(* unless only a listing that failed would have named it.  No file falls   *)
(* between the listings.                                                   *)
ChangesAreKnown ==
    stage = "done" =>
        \A p \in Path \ touched : copy[p] # Reference(p) => p \in changed \cup missed
=============================================================================
