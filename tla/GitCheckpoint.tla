--------------------------- MODULE GitCheckpoint ---------------------------
(***************************************************************************)
(* The Git checkpoint engine: CreateCheckpoint, Inspect and Restore on one *)
(* work tree, next to a user or a CLI that edits the same files, index and *)
(* branches.  A capture reads index, status, HEAD and trees one after the  *)
(* other, and a restore removes, writes and renames files one by one, so   *)
(* edits, failed commands and a crash come between any two of these steps. *)
(*                                                                         *)
(* A file's mode is part of its content; submodules, which Restore skips,  *)
(* are left out.  Objects are immutable and protected by refs, so a tree   *)
(* or an index stands for its object id and a capture for its fingerprint. *)
(***************************************************************************)
EXTENDS Naturals, FiniteSets

CONSTANTS
  Paths, Root, Parent,   \* slash-separated paths; the directory of each
  TempOf,                \* the .specrelay-restore-* name used in a directory
  Contents,              \* blobs
  IgnoreFile, RulesOf,   \* .gitignore; the paths a content of it ignores
  Branches, Main,
  Starts,                \* work trees to start from
  MaxEdits, MaxFaults    \* bounds

Temps == {TempOf[d] : d \in DOMAIN TempOf}
UserPaths == Paths \ Temps

ASSUME PathAssumption ==
  /\ Root \notin Paths /\ Parent \in [Paths -> Paths \cup {Root}]
  /\ DOMAIN TempOf = {Parent[p] : p \in Paths} /\ Temps \subseteq Paths
  /\ \A d \in DOMAIN TempOf : Parent[TempOf[d]] = d
  /\ IgnoreFile \in Paths /\ Main \in Branches
  /\ {"none", "dir"} \cap Contents = {}
  /\ MaxEdits \in Nat /\ MaxFaults \in Nat

\* A file or directory is in a directory.
Nodes == Contents \cup {"none", "dir"}
IsWorkTree(f) ==
  /\ f \in [Paths -> Nodes]
  /\ \A p \in Paths : f[p] # "none" /\ Parent[p] # Root => f[Parent[p]] = "dir"
  /\ \A p \in Temps : f[p] # "dir"

\* Two levels of directories, which is how far Ancestors and Under look; a
\* temporary name is never a directory's, and no work tree starts with one.
ASSUME WorkTreeAssumption ==
  /\ \A p \in Paths : Parent[p] # Root /\ Parent[Parent[p]] # Root => Parent[Parent[Parent[p]]] = Root
  /\ Temps \cap DOMAIN TempOf = {}
  /\ RulesOf \in [Contents -> SUBSET Paths]
  /\ \A f \in Starts : IsWorkTree(f) /\ \A p \in Temps : f[p] = "none"

VARIABLES
  fs,           \* the work tree
  index, lock,  \* the index file; index.lock exists
  branches, HEAD,
  checkpoint,   \* the published checkpoint, a set of at most one
  approved,     \* the fingerprint the caller passes, a set of at most one
  op, pc,       \* what the engine was called for, and where it is
  cap,          \* what captureState has read so far
  todo, cur,    \* paths left in the loop of applyWorktreeRestore; the one in work
  result,       \* how the last Restore ended
  edited,       \* an edit came after the engine was called
  excused,      \* this Restore met a fault or a state it cannot undo
  edits, faults

workspace == <<fs, index, lock, branches, HEAD>>
vars == <<workspace, checkpoint, approved, op, pc, cap, todo, cur, result,
          edited, excused, edits, faults>>

Empty == [p \in Paths |-> "none"]
IsFile(node) == node \in Contents

\* A commit is told apart by its number; number 0 is the unborn branch.
Unborn == [id |-> 0, tree |-> Empty]
HeadCommit == IF HEAD.ref = "detached" THEN HEAD.commit ELSE branches[HEAD.ref]

\* A capture that has read nothing yet.
Blank == [index |-> [present |-> FALSE, tree |-> Empty], status |-> {},
          head |-> [ref |-> Main, commit |-> Unborn], wtree |-> Empty]

\* Either nothing was ever added, or all but the ignored files is committed.
Init ==
  /\ fs \in Starts
  /\ \E born \in BOOLEAN :
       LET tree == [p \in Paths |->
                      IF IsFile(fs[p]) /\ p \notin RulesOf[fs[IgnoreFile]]
                      THEN fs[p] ELSE "none"]
       IN IF born
          THEN /\ index = [present |-> TRUE, tree |-> tree]
               /\ branches = [b \in Branches |->
                                IF b = Main THEN [id |-> 1, tree |-> tree] ELSE Unborn]
          ELSE /\ index = [present |-> FALSE, tree |-> Empty]
               /\ branches = [b \in Branches |-> Unborn]
  /\ HEAD = [ref |-> Main, commit |-> Unborn]
  /\ lock = FALSE
  /\ checkpoint = {} /\ approved = {}
  /\ op = "none" /\ pc = "idle" /\ todo = {} /\ cur = Root
  /\ cap = Blank
  /\ result = "none" /\ edited = FALSE /\ excused = FALSE
  /\ edits = 0 /\ faults = 0

-----------------------------------------------------------------------------
(* The file system and Git, as far as the engine relies on them.           *)

Children(f, d) == {p \in Paths : Parent[p] = d /\ f[p] # "none"}
Under(d) ==
  {p \in Paths : Parent[p] = d \/ (Parent[p] # Root /\ Parent[Parent[p]] = d)}
Ancestors(p) ==
  LET up == IF Parent[p] = Root THEN {} ELSE {Parent[p]}
  IN up \cup ({Parent[q] : q \in up} \ {Root})
Depth(p) == Cardinality(Ancestors(p))
MkdirAll(f, p) == [q \in Paths |-> IF q \in Ancestors(p) THEN "dir" ELSE f[q]]

Ignored(f) == IF IsFile(f[IgnoreFile]) THEN RulesOf[f[IgnoreFile]] ELSE {}

\* treeFromIndex: "git add -A" into a copy of the index takes tracked files,
\* and untracked ones unless they are ignored.
treeFromIndex(tracked, f) ==
  [p \in Paths |-> IF IsFile(f[p]) /\ (tracked[p] # "none" \/ p \notin Ignored(f))
                   THEN f[p] ELSE "none"]

\* readStatus: per path, how the index differs from HEAD and the work tree
\* from the index.
Change(old, new) == CASE old = new -> " "
                      [] old = "none" -> "A"
                      [] new = "none" -> "D"
                      [] OTHER -> "M"
readStatus(commit, tracked, tree) ==
  {<<p, Change(commit.tree[p], tracked[p]), Change(tracked[p], tree[p])>> :
     p \in {q \in Paths : ~ (commit.tree[q] = tracked[q] /\ tracked[q] = tree[q])}}

\* Mutant: the fingerprint covers the trees only.
FingerprintOfTrees(c) == <<c.index.tree, c.wtree>>
\* gitStateFingerprint: a digest over everything a capture holds.
gitStateFingerprint(c) == <<c.index, c.status, c.head, c.wtree>>

-----------------------------------------------------------------------------
(* The user, or a CLI, at the same work tree.                              *)

Edited ==
  /\ edits < MaxEdits /\ edits' = edits + 1 /\ edited' = TRUE
  /\ UNCHANGED <<checkpoint, approved, op, pc, cap, todo, cur, result, excused,
                 faults, lock>>

\* A file is written, with its directories; or a directory makes way for it.
WriteFile(p, c) ==
  /\ Edited /\ fs[p] \notin {c, "dir"}
  /\ \A q \in Ancestors(p) : ~ IsFile(fs[q])
  /\ fs' = [MkdirAll(fs, p) EXCEPT ![p] = c]
  /\ UNCHANGED <<index, branches, HEAD>>
ReplaceDirectory(p, c) ==
  /\ Edited /\ fs[p] = "dir"
  /\ fs' = [q \in Paths |-> IF q = p THEN c ELSE IF q \in Under(p) THEN "none" ELSE fs[q]]
  /\ UNCHANGED <<index, branches, HEAD>>
MakeDirectory(p) ==
  /\ Edited /\ fs[p] = "none"
  /\ \A q \in Ancestors(p) : ~ IsFile(fs[q])
  /\ fs' = [MkdirAll(fs, p) EXCEPT ![p] = "dir"]
  /\ UNCHANGED <<index, branches, HEAD>>
RemoveFile(p) ==
  /\ Edited /\ IsFile(fs[p])
  /\ fs' = [fs EXCEPT ![p] = "none"]
  /\ UNCHANGED <<index, branches, HEAD>>

\* git add -f or git rm --cached, git commit, git checkout -b, --detach.
Stage(p) ==
  /\ Edited /\ ~ lock
  /\ LET new == IF IsFile(fs[p]) THEN fs[p] ELSE "none"
     IN /\ index.tree[p] # new
        /\ index' = [present |-> TRUE, tree |-> [index.tree EXCEPT ![p] = new]]
  /\ UNCHANGED <<fs, branches, HEAD>>
Commit ==
  /\ Edited /\ ~ lock /\ index.tree # HeadCommit.tree
  /\ LET new == [id |-> edits + 2, tree |-> index.tree]
     IN IF HEAD.ref = "detached"
        THEN HEAD' = [HEAD EXCEPT !.commit = new] /\ UNCHANGED branches
        ELSE branches' = [branches EXCEPT ![HEAD.ref] = new] /\ UNCHANGED HEAD
  /\ UNCHANGED <<fs, index>>
CheckoutNew(b) ==
  /\ Edited /\ ~ lock /\ branches[b] = Unborn /\ HeadCommit # Unborn
  /\ branches' = [branches EXCEPT ![b] = HeadCommit]
  /\ HEAD' = [ref |-> b, commit |-> Unborn]
  /\ UNCHANGED <<fs, index>>
Detach ==
  /\ Edited /\ ~ lock /\ HeadCommit # Unborn /\ HEAD.ref # "detached"
  /\ HEAD' = [ref |-> "detached", commit |-> HeadCommit]
  /\ UNCHANGED <<fs, index, branches>>

-----------------------------------------------------------------------------
(* captureState, part of every call of the engine.                         *)

Calm == UNCHANGED <<edits, faults, edited>>
Capturing == /\ UNCHANGED <<workspace, checkpoint, approved, op, todo, cur, result,
                            excused>>
             /\ Calm

ReadIndex ==
  /\ pc = "index" /\ pc' = "status"
  /\ cap' = [cap EXCEPT !.index = index]
  /\ Capturing
ReadStatus ==
  /\ pc = "status" /\ pc' = "head"
  /\ cap' = [cap EXCEPT !.status = readStatus(HeadCommit, index.tree,
                                              treeFromIndex(index.tree, fs))]
  /\ Capturing
ReadHead ==
  /\ pc = "head" /\ pc' = "trees"
  /\ cap' = [cap EXCEPT !.head = [ref |-> HEAD.ref, commit |-> HeadCommit]]
  /\ Capturing
WriteTrees ==
  /\ pc = "trees" /\ pc' = "captured"
  /\ cap' = [cap EXCEPT !.wtree = treeFromIndex(cap.index.tree, fs)]
  /\ Capturing

Call(name) ==
  /\ pc = "idle" /\ pc' = "index" /\ op' = name /\ cap' = Blank
  /\ result' = "none" /\ edited' = FALSE /\ excused' = FALSE
  /\ UNCHANGED <<workspace, checkpoint, todo, cur, edits, faults>>
Return(how) ==
  /\ pc' = "idle" /\ op' = "none" /\ cap' = Blank /\ todo' = {} /\ cur' = Root
  /\ result' = how

\* One checkpoint is enough: another one shares nothing with it.
CreateCheckpoint == checkpoint = {} /\ Call("checkpoint") /\ UNCHANGED approved
PublishCheckpoint ==
  /\ pc = "captured" /\ op = "checkpoint"
  /\ checkpoint' = {cap} /\ Return("none")
  /\ UNCHANGED <<workspace, approved, excused>> /\ Calm

Inspect == checkpoint # {} /\ Call("inspect") /\ UNCHANGED approved
Inspected ==
  /\ pc = "captured" /\ op = "inspect"
  /\ approved' = {gitStateFingerprint(cap)} /\ Return("none")
  /\ UNCHANGED <<workspace, checkpoint, excused>> /\ Calm

-----------------------------------------------------------------------------
(* Restore.                                                                *)

Target == (CHOOSE c \in checkpoint : TRUE)
Present(tree) == {p \in Paths : tree[p] # "none"}
Extra == Present(cap.wtree) \ Present(Target.wtree)

\* The caller passes the fingerprint it has inspected, or none.
Restore ==
  /\ checkpoint # {} /\ Call("restore")
  /\ approved' \in {{}, approved}

\* Mutant: a directory is replaced whatever it holds.
preflightAncestorsOnly(extra) ==
  \A p \in Present(Target.wtree), q \in Paths :
     IsFile(fs[q]) /\ q \in Ancestors(p) => q \in extra
\* preflightRestoreAncestors and directoryContainsOnlyControlledExtras: what
\* stands in the way of a target, above it or below it, must be an extra.
preflightRestore(extra) ==
  \A p \in Present(Target.wtree), q \in Paths :
     IsFile(fs[q]) /\ (q \in Ancestors(p) \/ q \in Under(p)) => q \in extra

\* States that a restore cannot bring back exactly, or not at this attempt: a
\* checkpoint whose status and trees were read before and after an edit, a
\* lock left by a crash, an empty directory (invisible to preflight), and a
\* file that this capture leaves out but the restored rules do not.
Sound(c) == c.status = readStatus(c.head.commit, c.index.tree, c.wtree)
LeavesOut(tracked, tree) == {p \in Paths : tracked[p] = "none" /\ p \in Ignored(tree)}
Restorable ==
  /\ Sound(Target) /\ ~ lock
  /\ \A d \in Paths : fs[d] = "dir" => Children(fs, d) # {}
  /\ {p \in Paths : IsFile(fs[p])}
       \subseteq Present(cap.wtree) \cup Present(Target.wtree)
                 \cup LeavesOut(Target.index.tree, Target.wtree)

Refused ==
  \/ approved # {} /\ gitStateFingerprint(cap) \notin approved
  \/ ~ preflightRestore(Extra)
RefuseRestore ==
  /\ pc = "captured" /\ op = "restore" /\ Refused
  /\ Return("refused")
  /\ UNCHANGED <<workspace, checkpoint, approved, excused>> /\ Calm
BeginRestore ==
  /\ pc = "captured" /\ op = "restore" /\ ~ Refused
  /\ pc' = "remove" /\ todo' = Extra
  /\ excused' = ~ Restorable
  /\ UNCHANGED <<workspace, checkpoint, approved, op, cap, cur, result>> /\ Calm

Applying == UNCHANGED <<checkpoint, approved, op, cap, excused>> /\ Calm
Fails == /\ Return("failed")
         /\ UNCHANGED <<checkpoint, approved, excused>> /\ Calm

\* Paths at one depth are sorted by name; here they come in any order.
Deepest(S) == {p \in S : \A q \in S : Depth(q) <= Depth(p)}
Shallowest(S) == {p \in S : \A q \in S : Depth(p) <= Depth(q)}
FileAbove(p) == \E q \in Ancestors(p) : IsFile(fs[q])

\* removeEmptyParents after p has gone.
removeEmptyParents(f, p) ==
  LET left(d) == {q \in Under(d) : f[q] # "none"}
  IN [q \in Paths |-> IF q \in Ancestors(p) /\ left(q) \subseteq Ancestors(p)
                      THEN "none" ELSE f[q]]

RemoveExtra(p) ==
  /\ pc = "remove" /\ p \in Deepest(todo)
  /\ IF FileAbove(p) \/ (fs[p] = "dir" /\ Children(fs, p) # {})
     THEN Fails /\ UNCHANGED workspace
     ELSE /\ fs' = IF IsFile(fs[p])
                   THEN removeEmptyParents([fs EXCEPT ![p] = "none"], p)
                   ELSE [fs EXCEPT ![p] = "none"]
          /\ todo' = todo \ {p}
          /\ UNCHANGED <<index, lock, branches, HEAD, pc, cur, result>> /\ Applying
RemoveDone ==
  /\ pc = "remove" /\ todo = {}
  /\ pc' = "replace" /\ todo' = Present(Target.wtree)
  /\ UNCHANGED <<workspace, cur, result>> /\ Applying

\* Mutant: the directory goes with everything in it.
ReplaceableAlways(p) == TRUE
\* removeReplaceablePath refuses a directory that is not empty.
Replaceable(p) == fs[p] # "dir" \/ Children(fs, p) = {}
Cleared(p) ==
  [q \in Paths |-> IF q = p \/ (fs[p] = "dir" /\ q \in Under(p)) THEN "none"
                   ELSE MkdirAll(fs, p)[q]]

\* ensureSafeParentDirectories and removeReplaceablePath for the next target.
ClearTarget(p) ==
  /\ pc = "replace" /\ p \in Shallowest(todo)
  /\ IF FileAbove(p) \/ ~ Replaceable(p)
     THEN Fails /\ UNCHANGED workspace
     ELSE /\ fs' = Cleared(p) /\ cur' = p /\ pc' = "temp"
          /\ UNCHANGED <<index, lock, branches, HEAD, todo, result>> /\ Applying

Temp == TempOf[Parent[cur]]
WriteTemp ==
  /\ pc = "temp"
  /\ IF Parent[cur] # Root /\ fs[Parent[cur]] # "dir"
     THEN Fails /\ UNCHANGED workspace
     ELSE /\ fs' = [fs EXCEPT ![Temp] = Target.wtree[cur]] /\ pc' = "rename"
          /\ UNCHANGED <<index, lock, branches, HEAD, todo, cur, result>> /\ Applying

\* Mutant: the temporary file stays.
TidiedNever(f) == f
\* The deferred removal of the temporary file on a way out with an error.
Tidied(f) == IF pc = "rename" THEN [f EXCEPT ![Temp] = "none"] ELSE f
RenameTarget ==
  /\ pc = "rename"
  /\ IF fs[Temp] = "none" \/ fs[cur] = "dir"
     THEN fs' = Tidied(fs) /\ Fails
     ELSE /\ fs' = [fs EXCEPT ![Temp] = "none", ![cur] = fs[Temp]]
          /\ pc' = "replace" /\ todo' = todo \ {cur} /\ cur' = Root
          /\ UNCHANGED result /\ Applying
  /\ UNCHANGED <<index, lock, branches, HEAD>>
ReplaceDone ==
  /\ pc = "replace" /\ todo = {} /\ pc' = "lock"
  /\ UNCHANGED <<workspace, todo, cur, result>> /\ Applying

\* restoreIndexAtomically: O_EXCL on index.lock, then a rename.  For a
\* checkpoint without an index both files are removed instead.
LockIndex ==
  /\ pc = "lock"
  /\ IF lock
     THEN Fails /\ UNCHANGED workspace
     ELSE /\ lock' = TRUE /\ pc' = "swap"
          /\ UNCHANGED <<fs, index, branches, HEAD, todo, cur, result>> /\ Applying
SwapIndex ==
  /\ pc = "swap" /\ pc' = "ref"
  /\ index' = Target.index /\ lock' = FALSE
  /\ UNCHANGED <<fs, branches, HEAD, todo, cur, result>> /\ Applying

\* restoreHead: the branch, then the symbolic ref, or the detached HEAD at
\* once.  Then the state is captured again.  A failure to delete the branch
\* of an unborn checkpoint is dropped.
Recapture ==
  /\ pc' = "index" /\ op' = "verify" /\ cap' = Blank
  /\ UNCHANGED <<fs, index, lock, todo, cur, result, checkpoint, approved, excused>>
  /\ Calm
RestoreRef ==
  /\ pc = "ref"
  /\ IF Target.head.ref = "detached"
     THEN HEAD' = Target.head /\ UNCHANGED branches /\ Recapture
     ELSE /\ branches' = [branches EXCEPT ![Target.head.ref] = Target.head.commit]
          /\ pc' = "symref"
          /\ UNCHANGED <<fs, index, lock, HEAD, todo, cur, result>> /\ Applying
DeleteRefFails ==
  /\ pc = "ref" /\ faults < MaxFaults /\ faults' = faults + 1
  /\ Target.head.commit = Unborn /\ excused' = TRUE
  /\ pc' = "symref"
  /\ UNCHANGED <<workspace, checkpoint, approved, op, cap, todo, cur, result, edited,
                 edits>>
SymbolicRef ==
  /\ pc = "symref"
  /\ HEAD' = [ref |-> Target.head.ref, commit |-> Unborn]
  /\ UNCHANGED branches /\ Recapture
VerifyRestored ==
  /\ pc = "captured" /\ op = "verify"
  /\ Return(IF gitStateFingerprint(cap) = gitStateFingerprint(Target)
            THEN "ok" ELSE "failed")
  /\ UNCHANGED <<workspace, checkpoint, approved, excused>> /\ Calm

\* A command or a system call fails or times out.
Fault ==
  /\ pc # "idle" /\ faults < MaxFaults /\ faults' = faults + 1
  /\ ~ (pc = "ref" /\ Target.head.commit = Unborn)
  /\ fs' = Tidied(fs)
  /\ lock' = (lock /\ pc # "swap")
  /\ Return("failed") /\ excused' = TRUE
  /\ UNCHANGED <<index, branches, HEAD, checkpoint, approved, edits, edited>>

\* The backend dies: nothing is tidied.
Crash ==
  /\ pc # "idle" /\ faults < MaxFaults /\ faults' = faults + 1
  /\ Return("crashed") /\ excused' = TRUE
  /\ UNCHANGED <<workspace, checkpoint, approved, edits, edited>>

Edit ==
  \/ \E p \in UserPaths, c \in Contents : WriteFile(p, c) \/ ReplaceDirectory(p, c)
  \/ \E p \in UserPaths : MakeDirectory(p) \/ RemoveFile(p) \/ Stage(p)
  \/ Commit \/ Detach
  \/ \E b \in Branches : CheckoutNew(b)
Capture == ReadIndex \/ ReadStatus \/ ReadHead \/ WriteTrees
Apply ==
  \/ BeginRestore \/ RemoveDone \/ WriteTemp \/ RenameTarget \/ ReplaceDone
  \/ \E p \in Paths : RemoveExtra(p) \/ ClearTarget(p)
  \/ LockIndex \/ SwapIndex \/ RestoreRef \/ SymbolicRef
Engine ==
  \/ CreateCheckpoint \/ PublishCheckpoint \/ Inspect \/ Inspected
  \/ Restore \/ RefuseRestore \/ VerifyRestored
  \/ Capture \/ Apply \/ DeleteRefFails \/ Fault \/ Crash
Next == Edit \/ Engine
Spec == Init /\ [][Next]_vars

-----------------------------------------------------------------------------
(* What must hold.                                                         *)

\* A Restore that reports success, and that nobody edited under, has brought
\* back every part of the checkpoint: files, index, branch and HEAD, with no
\* temporary file of an earlier, crashed attempt left over.
ExactRestore ==
  result = "ok" /\ ~ edited =>
    \A c \in checkpoint :
      /\ index = c.index
      /\ [ref |-> HEAD.ref, commit |-> HeadCommit] = c.head
      /\ treeFromIndex(index.tree, fs) = c.wtree
      /\ \A p \in Temps : fs[p] = "none"

\* What preflightRestore lets through can be done: a Restore that has begun to
\* remove files does not stop half-way by itself, from any state that edits,
\* failed attempts and crashes have left (Restorable names the exceptions).
PreflightSuffices ==
  result = "failed" => edited \/ excused

\* A call that returns, with success or with an error, leaves neither its
\* index.lock nor a temporary file behind; only a crash does.
ReturnsTidy ==
  pc = "idle" /\ faults = 0 => ~ lock /\ \A p \in Temps : fs[p] = "none"

\* No step of the engine removes or overwrites a file that neither the
\* checkpoint nor its own capture of the current state contains: an ignored
\* file, or one that appears while the restore is under way, survives.
UncapturedSurvives ==
  [][edits' = edits =>
       \A p \in UserPaths :
          IsFile(fs[p]) /\ fs'[p] # fs[p]
            => \E c \in checkpoint \cup {cap} : c.wtree[p] # "none"]_vars
=============================================================================
