------------------------ MODULE GitCheckpointProofs ------------------------
(***************************************************************************)
(* Proofs about GitCheckpoint, for any files, contents, ignore rules and   *)
(* branches and any number of edits, failed commands and crashes.          *)
(***************************************************************************)
EXTENDS GitCheckpoint, TLAPS

-----------------------------------------------------------------------------
(* Paths.                                                                  *)

LEMMA AncestorsOf ==
  ASSUME NEW p \in Paths
  PROVE  /\ Parent[p] = Root \/ Parent[p] \in Ancestors(p)
         /\ p \notin Ancestors(p)
         /\ \A q \in Ancestors(p) : /\ q \in Paths \ Temps
                                    /\ Parent[q] = Root \/ Parent[q] \in Ancestors(p)
<1>1. \A q : q \in Ancestors(p) <=>
               \/ Parent[p] # Root /\ q = Parent[p]
               \/ Parent[p] # Root /\ Parent[Parent[p]] # Root /\ q = Parent[Parent[p]]
  BY DEF Ancestors
<1>2. \A q \in Paths : Parent[q] # Root => Parent[q] \in Paths
  BY PathAssumption
<1>3. \A q \in Paths : Parent[q] \in DOMAIN TempOf
  BY PathAssumption
<1>4. \A q \in Paths : Parent[q] \notin Temps
  BY <1>3, WorkTreeAssumption
<1>5. Parent[p] # Root /\ Parent[Parent[p]] # Root => Parent[Parent[Parent[p]]] = Root
  BY WorkTreeAssumption
<1>6. Root \notin Paths
  BY PathAssumption
<1>7. \A q \in Ancestors(p) : /\ q \in Paths \ Temps
                              /\ Parent[q] = Root \/ Parent[q] \in Ancestors(p)
  BY <1>1, <1>2, <1>4, <1>5
<1>8. p \notin Ancestors(p)
  BY <1>1, <1>2, <1>5, <1>6
<1> QED
  BY <1>1, <1>7, <1>8

LEMMA UnderOf ==
  ASSUME NEW d \in Paths
  PROVE  /\ \A q \in Paths : Parent[q] = d => q \in Under(d)
         /\ \A q \in Paths : Parent[q] # Root /\ Parent[q] \in Under(d) => q \in Under(d)
         /\ d \notin Under(d) /\ \A q \in Ancestors(d) : q \notin Under(d)
<1>1. \A q : q \in Under(d) <=> /\ q \in Paths
                                /\ Parent[q] = d \/ (Parent[q] # Root /\ Parent[Parent[q]] = d)
  BY DEF Under
<1>2. \A q \in Paths : Parent[q] # Root => Parent[q] \in Paths
  BY PathAssumption
<1>3. \A q \in Paths : Parent[q] # Root /\ Parent[Parent[q]] # Root => Parent[Parent[Parent[q]]] = Root
  BY WorkTreeAssumption
<1>4. Root \notin Paths
  BY PathAssumption
<1>5. \A q : q \in Ancestors(d) <=>
               \/ Parent[d] # Root /\ q = Parent[d]
               \/ Parent[d] # Root /\ Parent[Parent[d]] # Root /\ q = Parent[Parent[d]]
  BY DEF Ancestors
<1>6. \A q \in Paths : Parent[q] # Root /\ Parent[q] \in Under(d) => q \in Under(d)
  BY <1>1, <1>2, <1>3, <1>4
<1>7. d \notin Under(d)
  BY <1>1, <1>2, <1>3, <1>4
<1>8. ASSUME NEW q \in Ancestors(d), q \in Under(d) PROVE FALSE
  <2>1. CASE Parent[d] # Root /\ q = Parent[d]
    BY <1>1, <1>2, <1>3, <1>4, <1>8, <2>1
  <2>2. CASE Parent[d] # Root /\ Parent[Parent[d]] # Root /\ q = Parent[Parent[d]]
    BY <1>1, <1>2, <1>3, <1>4, <1>8, <2>2
  <2> QED
    BY <1>5, <2>1, <2>2
<1> QED
  BY <1>1, <1>6, <1>7, <1>8

-----------------------------------------------------------------------------
(* What the steps do to a work tree.                                       *)

LEMMA NodesDiffer == /\ \A c \in Contents : c # "none" /\ c # "dir"
                     /\ \A n \in Nodes : n = "none" \/ n = "dir" \/ n \in Contents
BY PathAssumption DEF Nodes

\* There is nothing below what is not a directory, or is an empty one.
LEMMA NothingBelow ==
  ASSUME NEW f, IsWorkTree(f), NEW p \in Paths, f[p] # "dir" \/ Children(f, p) = {}
  PROVE  \A q \in Under(p) : f[q] = "none"
<1> SUFFICES ASSUME NEW q \in Under(p), f[q] # "none" PROVE FALSE
  OBVIOUS
<1>1. q \in Paths /\ (Parent[q] = p \/ (Parent[q] # Root /\ Parent[Parent[q]] = p))
  BY DEF Under
<1>2. \A r \in Paths : Parent[r] = p => f[r] = "none"
  <2>1. p # Root
    BY PathAssumption
  <2> QED
    BY <2>1 DEF IsWorkTree, Children
<1>3. CASE Parent[q] # Root /\ Parent[Parent[q]] = p
  <2>1. Parent[q] \in Paths /\ f[Parent[q]] = "dir"
    BY <1>1, <1>3, PathAssumption DEF IsWorkTree
  <2> QED
    BY <1>2, <1>3, <2>1
<1> QED
  BY <1>1, <1>2, <1>3

\* A file is put into its directory, or goes.
LEMMA SetFile ==
  ASSUME NEW f, IsWorkTree(f), NEW p \in Paths, f[p] # "dir", NEW c \in Contents \cup {"none"},
         c = "none" \/ Parent[p] = Root \/ f[Parent[p]] = "dir"
  PROVE  IsWorkTree([f EXCEPT ![p] = c])
<1> DEFINE g == [f EXCEPT ![p] = c]
<1>1. g \in [Paths -> Nodes] /\ g[p] = c /\ \A q \in Paths \ {p} : g[q] = f[q]
  BY DEF IsWorkTree, Nodes
<1>2. \A q \in Paths : f[q] # "none" /\ Parent[q] # Root => f[Parent[q]] = "dir" /\ Parent[q] # p
  BY DEF IsWorkTree
<1>3. \A q \in Paths : Parent[q] # Root => Parent[q] \in Paths
  BY PathAssumption
<1>4. c # "dir"
  BY NodesDiffer
<1>5. ASSUME NEW q \in Paths, g[q] # "none", Parent[q] # Root PROVE g[Parent[q]] = "dir"
  <2>1. CASE q = p
    <3>1. f[Parent[p]] = "dir"
      BY <1>1, <1>5, <2>1
    <3> QED
      BY <1>1, <1>3, <1>5, <2>1, <3>1
  <2>2. CASE q # p
    BY <1>1, <1>2, <1>3, <1>5, <2>2
  <2> QED
    BY <2>1, <2>2
<1>6. \A t \in Temps : g[t] # "dir"
  <2>1. Temps \subseteq Paths
    BY PathAssumption
  <2> QED
    BY <1>1, <1>4, <2>1 DEF IsWorkTree
<1> HIDE DEF g
<1>7. IsWorkTree(g)
  BY <1>1, <1>5, <1>6 DEF IsWorkTree
<1> QED
  BY <1>7 DEF g

LEMMA RemoveDirectory ==
  ASSUME NEW f, IsWorkTree(f), NEW p \in Paths, Children(f, p) = {}
  PROVE  IsWorkTree([f EXCEPT ![p] = "none"])
<1> DEFINE g == [f EXCEPT ![p] = "none"]
<1>1. g \in [Paths -> Nodes] /\ g[p] = "none" /\ \A q \in Paths \ {p} : g[q] = f[q]
  BY DEF IsWorkTree, Nodes
<1>2. \A q \in Paths : Parent[q] # Root => Parent[q] \in Paths
  BY PathAssumption
<1>3. ASSUME NEW q \in Paths, g[q] # "none", Parent[q] # Root PROVE g[Parent[q]] = "dir"
  <2>1. q # p /\ f[q] # "none" /\ f[Parent[q]] = "dir"
    BY <1>1, <1>3 DEF IsWorkTree
  <2>2. Parent[q] # p
    BY <2>1 DEF Children
  <2> QED
    BY <1>1, <1>2, <1>3, <2>1, <2>2
<1>4. \A t \in Temps : g[t] # "dir"
  <2>1. Temps \subseteq Paths
    BY PathAssumption
  <2> QED
    BY <1>1, <2>1 DEF IsWorkTree
<1> HIDE DEF g
<1>5. IsWorkTree(g)
  BY <1>1, <1>3, <1>4 DEF IsWorkTree
<1> QED
  BY <1>5 DEF g

\* A path is set, with the directories above it, and all below it goes.
LEMMA SetPath ==
  ASSUME NEW f, IsWorkTree(f), NEW p \in Paths, NEW c \in Nodes,
         p \in Temps => c # "dir",
         \A q \in Ancestors(p) : ~IsFile(f[q]),
         NEW g, g = [q \in Paths |-> IF q = p THEN c ELSE IF q \in Under(p) THEN "none"
                                     ELSE MkdirAll(f, p)[q]]
  PROVE  IsWorkTree(g)
<1>1. /\ g[p] = c /\ \A q \in Under(p) : g[q] = "none"
      /\ \A q \in Ancestors(p) : g[q] = "dir"
      /\ \A q \in Paths \ ({p} \cup Under(p) \cup Ancestors(p)) : g[q] = f[q]
      /\ g \in [Paths -> Nodes]
  <2>1. Ancestors(p) \subseteq Paths /\ Under(p) \subseteq Paths
    BY AncestorsOf DEF Under
  <2>2. p \notin Ancestors(p) /\ p \notin Under(p) /\ \A q \in Ancestors(p) : q \notin Under(p)
    BY AncestorsOf, UnderOf
  <2>3. \A q \in Paths : MkdirAll(f, p)[q] = IF q \in Ancestors(p) THEN "dir" ELSE f[q]
    BY DEF MkdirAll
  <2>4. \A q \in Paths : f[q] \in Nodes /\ "dir" \in Nodes /\ "none" \in Nodes
    BY DEF IsWorkTree, Nodes
  <2> QED
    BY <2>1, <2>2, <2>3, <2>4
<1>2. \A q \in Paths : Parent[q] # Root => Parent[q] \in Paths
  BY PathAssumption
<1>3. ASSUME NEW q \in Paths, g[q] # "none", Parent[q] # Root PROVE g[Parent[q]] = "dir"
  <2>1. CASE q = p \/ q \in Ancestors(p)
    BY <1>1, <1>3, <2>1, AncestorsOf
  <2>2. CASE q \notin {p} \cup Ancestors(p)
    <3>1. q \notin Under(p) /\ f[q] # "none"
      BY <1>1, <1>3, <2>2
    <3>2. f[Parent[q]] = "dir" /\ Parent[q] # p /\ Parent[q] \notin Under(p)
      BY <1>3, <3>1, UnderOf DEF IsWorkTree
    <3> QED
      BY <1>1, <1>2, <1>3, <3>2
  <2> QED
    BY <2>1, <2>2
<1>4. \A t \in Temps : g[t] # "dir"
  <2>1. Temps \subseteq Paths
    BY PathAssumption
  <2> QED
    BY <1>1, <2>1, AncestorsOf DEF IsWorkTree
<1> QED
  BY <1>1, <1>3, <1>4 DEF IsWorkTree

LEMMA RemoveParents ==
  ASSUME NEW f, IsWorkTree(f), NEW p \in Paths
  PROVE  IsWorkTree(removeEmptyParents(f, p))
<1> DEFINE left(d) == {q \in Under(d) : f[q] # "none"}
           g == removeEmptyParents(f, p)
<1>1. \A q \in Paths : g[q] = IF q \in Ancestors(p) /\ left(q) \subseteq Ancestors(p) THEN "none" ELSE f[q]
  BY DEF removeEmptyParents
<1>2. g \in [Paths -> Nodes]
  BY DEF removeEmptyParents, IsWorkTree, Nodes
<1>3. ASSUME NEW q \in Paths, g[q] # "none", Parent[q] # Root PROVE g[Parent[q]] = "dir"
  <2>1. Parent[q] \in Paths /\ f[q] # "none" /\ f[Parent[q]] = "dir"
    BY <1>1, <1>3, PathAssumption DEF IsWorkTree
  <2>2. CASE Parent[q] \in Ancestors(p) /\ left(Parent[q]) \subseteq Ancestors(p)
    <3>1. q \in Ancestors(p)
      BY <2>1, <2>2, UnderOf
    <3>2. \A r \in Under(q) : r \in Paths /\ r \in Under(Parent[q])
      <4> TAKE r \in Under(q)
      <4>1. r \in Paths /\ (Parent[r] = q \/ (Parent[r] # Root /\ Parent[Parent[r]] = q))
        BY DEF Under
      <4>2. q # Root /\ q \in Under(Parent[q])
        BY <2>1, UnderOf, PathAssumption
      <4>3. CASE Parent[r] = q
        BY <2>1, <4>1, <4>2, <4>3, UnderOf
      <4>4. CASE Parent[r] # Root /\ Parent[Parent[r]] = q
        <5>1. Parent[r] \in Paths /\ Parent[r] \in Under(Parent[q])
          BY <2>1, <4>1, <4>2, <4>4, UnderOf, PathAssumption
        <5> QED
          BY <2>1, <4>1, <4>4, <5>1, UnderOf
      <4> QED
        BY <4>1, <4>3, <4>4
    <3>3. left(q) \subseteq Ancestors(p)
      BY <2>2, <3>2
    <3> QED
      BY <1>1, <1>3, <3>1, <3>3
  <2> QED
    BY <1>1, <2>1, <2>2
<1>4. \A t \in Temps : g[t] # "dir"
  <2>1. Temps \subseteq Paths
    BY PathAssumption
  <2> QED
    BY <1>1, <2>1 DEF IsWorkTree
<1> QED
  BY <1>2, <1>3, <1>4 DEF IsWorkTree

-----------------------------------------------------------------------------
(* Where the engine is.                                                    *)

\* applyWorktreeRestore, restoreIndexAtomically and restoreHead.
Restoring == {"remove", "replace", "temp", "rename", "lock", "swap", "ref", "symref"}
Reading == {"index", "status", "head", "trees", "captured"}

\* A tree that captureState has written.
IsCapturedTree(w) == w \in [Paths -> Contents \cup {"none"}]
NoTemps(f) == \A t \in Temps : f[t] = "none"

EngineInv ==
  /\ edits \in Nat /\ faults \in Nat
  /\ pc \in {"idle"} \cup Reading \cup Restoring
  /\ op \in {"none", "checkpoint", "inspect", "restore", "verify"}
  /\ (op \in {"inspect", "restore", "verify"} => checkpoint # {}) /\ (op = "checkpoint" => checkpoint = {})
  /\ pc \in Restoring => op = "restore"
  /\ \A c, d \in checkpoint : c = d
  /\ \A c \in checkpoint : IsCapturedTree(c.wtree) /\ NoTemps(c.wtree)
  /\ DOMAIN cap = {"index", "status", "head", "wtree"} /\ IsCapturedTree(cap.wtree)
  /\ op = "checkpoint" => NoTemps(cap.wtree)
  /\ pc = "remove" => todo \subseteq Present(cap.wtree)
  /\ pc \in {"replace", "temp", "rename"} => todo \subseteq Present(Target.wtree)
  /\ pc \in {"temp", "rename"} => cur \in Present(Target.wtree)
  /\ result = "ok" => pc = "idle"

\* Before there is a checkpoint there is no temporary file.
FilesInv == IsWorkTree(fs) /\ (checkpoint = {} => NoTemps(fs))

LEMMA InitEngine == Init => EngineInv /\ FilesInv
<1> SUFFICES ASSUME Init PROVE EngineInv /\ FilesInv
  OBVIOUS
<1>1. fs \in Starts /\ pc = "idle" /\ op = "none" /\ checkpoint = {} /\ cap = Blank /\ result = "none"
      /\ edits = 0 /\ faults = 0
  BY DEF Init
<1>2. FilesInv
  BY <1>1, WorkTreeAssumption DEF FilesInv, NoTemps
<1>3. DOMAIN Blank = {"index", "status", "head", "wtree"} /\ IsCapturedTree(Blank.wtree)
  BY DEF Blank, Empty, IsCapturedTree
<1> QED
  BY <1>1, <1>2, <1>3 DEF EngineInv, Restoring, Reading

LEMMA TargetIn == ASSUME checkpoint # {} PROVE Target \in checkpoint
BY DEF Target

\* The path in work is a path of the checkpoint, and no temporary one; its temporary
\* file is a file next to it.
LEMMA Working ==
  ASSUME EngineInv, pc \in {"temp", "rename"}
  PROVE  /\ cur \in Paths \ Temps /\ Target.wtree[cur] \in Contents /\ Target \in checkpoint
         /\ Temp \in Temps /\ Temp \in Paths /\ Temp # cur /\ Parent[Temp] = Parent[cur]
<1>1. checkpoint # {} /\ cur \in Present(Target.wtree)
  BY DEF EngineInv, Restoring
<1>2. Target \in checkpoint
  BY <1>1, TargetIn
<1>3. IsCapturedTree(Target.wtree) /\ NoTemps(Target.wtree)
  BY <1>2 DEF EngineInv
<1>4. cur \in Paths /\ Target.wtree[cur] # "none"
  BY <1>1 DEF Present
<1>5. cur \notin Temps /\ Target.wtree[cur] \in Contents
  BY <1>3, <1>4 DEF IsCapturedTree, NoTemps
<1>6. Parent[cur] \in DOMAIN TempOf
  BY <1>4, PathAssumption
<1>7. Temp \in Temps /\ Temp \in Paths /\ Parent[Temp] = Parent[cur]
  BY <1>6, PathAssumption DEF Temp, Temps
<1> QED
  BY <1>2, <1>4, <1>5, <1>7

-----------------------------------------------------------------------------
(* An edit.                                                                *)

Editing ==
  /\ edits' = edits + 1 /\ edited' = TRUE /\ IsWorkTree(fs')
  /\ \A t \in Temps : fs'[t] \in {fs[t], "none"}
  /\ UNCHANGED <<checkpoint, approved, op, pc, cap, todo, cur, result, excused, faults, lock>>

LEMMA UserPath == ASSUME NEW p \in UserPaths PROVE p \in Paths /\ p \notin Temps /\ Temps \subseteq Paths
BY PathAssumption DEF UserPaths

\* What SetPath does, for a path without a temporary name.
LEMMA SetUserPath ==
  ASSUME FilesInv, NEW p \in UserPaths, NEW c \in Nodes, \A q \in Ancestors(p) : ~IsFile(fs[q]),
         fs' = [q \in Paths |-> IF q = p THEN c ELSE IF q \in Under(p) THEN "none"
                                ELSE MkdirAll(fs, p)[q]]
  PROVE  IsWorkTree(fs') /\ \A t \in Temps : fs'[t] \in {fs[t], "none"}
<1>1. p \in Paths /\ p \notin Temps /\ Temps \subseteq Paths
  BY UserPath
<1>2. IsWorkTree(fs')
  BY <1>1, SetPath DEF FilesInv
<1>3. \A t \in Temps : t \notin Ancestors(p)
  BY <1>1, AncestorsOf
<1>4. \A t \in Temps : MkdirAll(fs, p)[t] = fs[t]
  BY <1>1, <1>3 DEF MkdirAll
<1> QED
  BY <1>1, <1>2, <1>4

LEMMA SetAbove ==
  ASSUME FilesInv, NEW p \in UserPaths, NEW c \in Nodes, \A q \in Ancestors(p) : ~IsFile(fs[q]),
         fs[p] # "dir", fs' = [MkdirAll(fs, p) EXCEPT ![p] = c]
  PROVE  IsWorkTree(fs') /\ \A t \in Temps : fs'[t] \in {fs[t], "none"}
<1>1. p \in Paths
  BY UserPath
<1>2. \A q \in Under(p) : fs[q] = "none" /\ q \notin Ancestors(p)
  BY <1>1, NothingBelow, UnderOf DEF FilesInv
<1>3. fs' = [q \in Paths |-> IF q = p THEN c ELSE IF q \in Under(p) THEN "none" ELSE MkdirAll(fs, p)[q]]
  BY <1>1, <1>2 DEF MkdirAll
<1> QED
  BY <1>3, SetUserPath

LEMMA EditEdits == ASSUME FilesInv, Edit PROVE Editing
<1>1. ASSUME NEW p \in UserPaths, NEW c \in Contents, WriteFile(p, c) PROVE Editing
  BY <1>1, SetAbove DEF WriteFile, Edited, Editing, Nodes
<1>2. ASSUME NEW p \in UserPaths, NEW c \in Contents, ReplaceDirectory(p, c) PROVE Editing
  <2>1. p \in Paths /\ fs[p] = "dir"
    BY <1>2, UserPath DEF ReplaceDirectory
  <2>2. \A q \in Ancestors(p) : q \in Paths /\ fs[q] = "dir"
    <3>1. \A q \in Paths : fs[q] = "dir" /\ Parent[q] # Root => Parent[q] \in Paths /\ fs[Parent[q]] = "dir"
      BY PathAssumption DEF FilesInv, IsWorkTree
    <3> QED
      BY <2>1, <3>1 DEF Ancestors
  <2>3. MkdirAll(fs, p) = fs
    BY <2>2 DEF MkdirAll, FilesInv, IsWorkTree
  <2>4. fs' = [q \in Paths |-> IF q = p THEN c ELSE IF q \in Under(p) THEN "none" ELSE MkdirAll(fs, p)[q]]
    BY <1>2, <2>3 DEF ReplaceDirectory
  <2>5. \A q \in Ancestors(p) : ~IsFile(fs[q])
    BY <2>2, NodesDiffer DEF IsFile
  <2> QED
    BY <1>2, <2>4, <2>5, SetUserPath DEF ReplaceDirectory, Edited, Editing, Nodes
<1>3. ASSUME NEW p \in UserPaths, MakeDirectory(p) PROVE Editing
  BY <1>3, SetAbove DEF MakeDirectory, Edited, Editing, Nodes
<1>4. ASSUME NEW p \in UserPaths, RemoveFile(p) PROVE Editing
  <2>1. p \in Paths /\ p \notin Temps /\ Temps \subseteq Paths /\ fs[p] # "dir" /\ fs' = [fs EXCEPT ![p] = "none"]
    BY <1>4, UserPath, NodesDiffer DEF RemoveFile, IsFile
  <2>2. IsWorkTree(fs')
    BY <2>1, SetFile DEF FilesInv
  <2>3. \A t \in Temps : fs'[t] = fs[t]
    BY <2>1 DEF FilesInv, IsWorkTree
  <2> QED
    BY <1>4, <2>2, <2>3 DEF RemoveFile, Edited, Editing
<1>5. ASSUME fs' = fs, Edited PROVE Editing
  BY <1>5 DEF Edited, Editing, FilesInv
<1>6. ASSUME NEW p \in UserPaths, Stage(p) PROVE Editing
  BY <1>5, <1>6 DEF Stage
<1>7. CASE Commit \/ Detach \/ \E b \in Branches : CheckoutNew(b)
  BY <1>5, <1>7 DEF Commit, Detach, CheckoutNew
<1> QED
  BY <1>1, <1>2, <1>3, <1>4, <1>6, <1>7 DEF Edit

LEMMA EditKeeps == ASSUME EngineInv, FilesInv, Editing PROVE EngineInv' /\ FilesInv'
<1>1. EngineInv'
  BY DEF Editing, EngineInv, Target, Present
<1>2. FilesInv'
  BY DEF Editing, FilesInv, NoTemps
<1> QED
  BY <1>1, <1>2

-----------------------------------------------------------------------------
(* The steps of the engine.                                                *)

LEMMA BlankCapture == DOMAIN Blank = {"index", "status", "head", "wtree"} /\ IsCapturedTree(Blank.wtree) /\ NoTemps(Blank.wtree)
BY PathAssumption DEF Blank, Empty, IsCapturedTree, NoTemps

LEMMA CapturedTree ==
  ASSUME NEW tracked
  PROVE  /\ IsCapturedTree(treeFromIndex(tracked, fs))
         /\ NoTemps(fs) => NoTemps(treeFromIndex(tracked, fs))
<1>1. \A p \in Paths : /\ treeFromIndex(tracked, fs)[p] \in Contents \cup {"none"}
                       /\ fs[p] = "none" => treeFromIndex(tracked, fs)[p] = "none"
  BY PathAssumption DEF treeFromIndex, IsFile
<1>2. IsCapturedTree(treeFromIndex(tracked, fs))
  BY <1>1 DEF treeFromIndex, IsCapturedTree
<1> QED
  BY <1>1, <1>2, PathAssumption DEF NoTemps

\* The engine returns.
LEMMA ReturnKeeps ==
  ASSUME EngineInv, NEW how, Return(how), edits' \in Nat, faults' \in Nat,
         UNCHANGED checkpoint \/ (op = "checkpoint" /\ checkpoint' = {cap})
  PROVE  EngineInv'
<1>1. /\ pc' = "idle" /\ op' = "none" /\ cap' = Blank
  BY DEF Return
<1>2. /\ \A c, d \in checkpoint' : c = d
      /\ \A c \in checkpoint' : IsCapturedTree(c.wtree) /\ NoTemps(c.wtree)
  BY DEF EngineInv
<1>3. DOMAIN cap' = {"index", "status", "head", "wtree"} /\ IsCapturedTree(cap'.wtree)
  BY <1>1, BlankCapture
<1> QED
  BY <1>1, <1>2, <1>3 DEF EngineInv, Reading, Restoring, IsCapturedTree, NoTemps

\* A step that goes on and leaves checkpoint and capture alone.
LEMMA GoesOn ==
  ASSUME EngineInv, UNCHANGED <<checkpoint, op, cap, result>>, edits' \in Nat, faults' \in Nat,
         result # "ok", pc' \in Restoring, op = "restore",
         pc' = "remove" => todo' \subseteq Present(cap.wtree),
         pc' \in {"replace", "temp", "rename"} => todo' \subseteq Present(Target.wtree),
         pc' \in {"temp", "rename"} => cur' \in Present(Target.wtree)
  PROVE  EngineInv'
<1>1. Target' = Target
  BY DEF Target
<1>2. pc' # "idle" /\ pc' \in {"idle"} \cup Reading \cup Restoring
  BY DEF Restoring
<1>3. /\ (pc' = "remove" => todo' \subseteq Present(cap'.wtree))
      /\ (pc' \in {"replace", "temp", "rename"} => todo' \subseteq Present(Target'.wtree))
      /\ (pc' \in {"temp", "rename"} => cur' \in Present(Target'.wtree))
  BY <1>1
<1> QED
  BY <1>2, <1>3 DEF EngineInv, Present

LEMMA CaptureKeeps == ASSUME EngineInv, FilesInv, Capture PROVE EngineInv' /\ UNCHANGED <<fs, checkpoint>>
<1>1. /\ UNCHANGED <<fs, checkpoint, op, result, edits, faults>>
      /\ pc \in Reading /\ pc' \in Reading
  BY DEF Capture, ReadIndex, ReadStatus, ReadHead, WriteTrees, Capturing, Calm, workspace, Reading
<1>2. /\ DOMAIN cap' = {"index", "status", "head", "wtree"}
      /\ cap'.wtree = cap.wtree \/ cap'.wtree = treeFromIndex(cap.index.tree, fs)
  BY DEF Capture, ReadIndex, ReadStatus, ReadHead, WriteTrees, EngineInv
<1>3. IsCapturedTree(cap'.wtree)
  BY <1>2, CapturedTree DEF EngineInv
<1>4. op = "checkpoint" => NoTemps(cap'.wtree)
  BY <1>2, CapturedTree DEF EngineInv, FilesInv
<1>5. pc' \notin Restoring /\ pc' # "idle" /\ pc # "idle"
  BY <1>1 DEF Reading, Restoring
<1> QED
  BY <1>1, <1>2, <1>3, <1>4, <1>5 DEF EngineInv, Reading, Restoring, IsCapturedTree, NoTemps

LEMMA CallKeeps ==
  ASSUME EngineInv, NEW name \in {"checkpoint", "inspect", "restore"}, Call(name),
         name = "checkpoint" <=> checkpoint = {}
  PROVE  EngineInv' /\ UNCHANGED <<fs, checkpoint>>
<1>1. /\ pc' = "index" /\ op' = name /\ cap' = Blank /\ result' = "none"
      /\ UNCHANGED <<fs, checkpoint, edits, faults>>
  BY DEF Call, workspace
<1> QED
  BY <1>1, BlankCapture DEF EngineInv, Reading, Restoring, IsCapturedTree, NoTemps

LEMMA RecaptureKeeps ==
  ASSUME EngineInv, Recapture, op = "restore", result # "ok"
  PROVE  EngineInv' /\ UNCHANGED <<fs, checkpoint>>
<1>1. /\ pc' = "index" /\ op' = "verify" /\ cap' = Blank
      /\ UNCHANGED <<fs, checkpoint, edits, faults, result>>
  BY DEF Recapture, Calm
<1> QED
  BY <1>1, BlankCapture DEF EngineInv, Reading, Restoring, IsCapturedTree, NoTemps

LEMMA QuietKeeps ==
  ASSUME FilesInv, UNCHANGED fs, UNCHANGED checkpoint \/ checkpoint' # {}
  PROVE  FilesInv'
BY DEF FilesInv, NoTemps

-----------------------------------------------------------------------------
(* The steps that change files.                                            *)

Survives ==
  \A p \in UserPaths :
    IsFile(fs[p]) /\ fs'[p] # fs[p] => \E c \in checkpoint \cup {cap} : c.wtree[p] # "none"

\* Temporary files stay as they are or go.
TempsOnlyGo == \A t \in Temps : fs'[t] \in {fs[t], "none"}

LEMMA SameFiles == ASSUME FilesInv, UNCHANGED fs PROVE IsWorkTree(fs') /\ Survives /\ TempsOnlyGo
BY DEF FilesInv, Survives, TempsOnlyGo

LEMMA ChangesInView ==
  ASSUME EngineInv, checkpoint # {},
         \A p \in UserPaths : IsFile(fs[p]) /\ fs'[p] # fs[p] =>
                                p \in Present(Target.wtree) \/ p \in Present(cap.wtree)
  PROVE  Survives
<1>1. Target \in checkpoint
  BY TargetIn
<1> QED
  BY <1>1 DEF Survives, Present

LEMMA FailKeeps ==
  ASSUME EngineInv, Fails
  PROVE  EngineInv' /\ UNCHANGED <<checkpoint, edits, faults>> /\ pc' = "idle"
<1>1. Return("failed") /\ UNCHANGED <<checkpoint, edits, faults>>
  BY DEF Fails, Calm
<1>2. EngineInv'
  BY <1>1, ReturnKeeps DEF EngineInv
<1> QED
  BY <1>1, <1>2 DEF Return

LEMMA InRestore ==
  ASSUME EngineInv, pc \in Restoring
  PROVE  op = "restore" /\ checkpoint # {} /\ result # "ok" /\ Target \in checkpoint
<1>1. op = "restore" /\ checkpoint # {} /\ result # "ok"
  BY DEF EngineInv, Restoring
<1> QED
  BY <1>1, TargetIn

LEMMA RemoveExtraSteps ==
  ASSUME EngineInv, FilesInv, NEW p \in Paths, RemoveExtra(p)
  PROVE  EngineInv' /\ IsWorkTree(fs') /\ Survives /\ TempsOnlyGo /\ UNCHANGED <<checkpoint, edits>>
<1>1. pc = "remove" /\ p \in todo /\ pc \in Restoring
  BY DEF RemoveExtra, Deepest, Restoring
<1>2. op = "restore" /\ checkpoint # {} /\ result # "ok" /\ todo \subseteq Present(cap.wtree)
  BY <1>1, InRestore DEF EngineInv
<1>3. CASE Fails /\ UNCHANGED workspace
  <2>1. UNCHANGED fs
    BY <1>3 DEF workspace
  <2> QED
    BY <1>3, <2>1, FailKeeps, SameFiles
<1>4. CASE ~(FileAbove(p) \/ (fs[p] = "dir" /\ Children(fs, p) # {}))
  <2>1. /\ fs' = IF IsFile(fs[p]) THEN removeEmptyParents([fs EXCEPT ![p] = "none"], p)
                 ELSE [fs EXCEPT ![p] = "none"]
        /\ todo' = todo \ {p}
        /\ UNCHANGED <<pc, cur, result, checkpoint, op, cap, edits, faults>>
    BY <1>4 DEF RemoveExtra, Applying, Calm
  <2>2. EngineInv'
    <3>1. todo' \subseteq Present(cap.wtree)
      BY <1>2, <2>1
    <3> QED
      BY <1>1, <1>2, <2>1, <3>1, GoesOn DEF EngineInv
  <2> DEFINE g == [fs EXCEPT ![p] = "none"]
  <2>3. IsWorkTree(g)
    <3>1. CASE fs[p] = "dir"
      BY <1>4, <3>1, RemoveDirectory DEF FilesInv
    <3>2. CASE fs[p] # "dir"
      BY <3>2, SetFile DEF FilesInv
    <3> QED
      BY <3>1, <3>2
  <2>4. g[p] = "none" /\ \A q \in Paths \ {p} : g[q] = fs[q]
    BY DEF FilesInv, IsWorkTree
  <2> HIDE DEF g
  <2>5. fs' = g \/ fs' = removeEmptyParents(g, p)
    BY <2>1 DEF g
  <2>6. IsWorkTree(fs')
    BY <2>3, <2>5, RemoveParents
  <2>7. \A q \in Paths : fs'[q] = fs[q] \/ fs'[q] = "none"
    BY <2>4, <2>5 DEF removeEmptyParents
  <2>8. \A q \in Paths \ {p} : fs'[q] # fs[q] => q \in Ancestors(p)
    BY <2>4, <2>5 DEF removeEmptyParents
  <2>9. \A q \in Ancestors(p) : ~IsFile(fs[q])
    BY <1>4 DEF FileAbove
  <2>10. UserPaths \subseteq Paths /\ Temps \subseteq Paths
    BY PathAssumption DEF UserPaths
  <2>11. Survives
    BY <1>1, <1>2, <2>8, <2>9, <2>10, ChangesInView
  <2> QED
    BY <2>1, <2>2, <2>6, <2>7, <2>10, <2>11 DEF TempsOnlyGo
<1> QED
  BY <1>3, <1>4 DEF RemoveExtra

LEMMA ClearTargetSteps ==
  ASSUME EngineInv, FilesInv, NEW p \in Paths, ClearTarget(p)
  PROVE  EngineInv' /\ IsWorkTree(fs') /\ Survives /\ TempsOnlyGo /\ UNCHANGED <<checkpoint, edits>>
<1>1. pc = "replace" /\ p \in todo /\ pc \in Restoring
  BY DEF ClearTarget, Shallowest, Restoring
<1>2. /\ op = "restore" /\ checkpoint # {} /\ result # "ok" /\ Target \in checkpoint
      /\ p \in Present(Target.wtree)
  BY <1>1, InRestore DEF EngineInv
<1>3. CASE Fails /\ UNCHANGED workspace
  <2>1. UNCHANGED fs
    BY <1>3 DEF workspace
  <2> QED
    BY <1>3, <2>1, FailKeeps, SameFiles
<1>4. CASE ~(FileAbove(p) \/ ~Replaceable(p))
  <2>1. /\ fs' = Cleared(p) /\ cur' = p /\ pc' = "temp"
        /\ UNCHANGED <<todo, result, checkpoint, op, cap, edits, faults>>
    BY <1>4 DEF ClearTarget, Applying, Calm
  <2>2. EngineInv'
    <3>1. pc' \in Restoring /\ pc' # "remove"
      BY <2>1 DEF Restoring
    <3>2. todo' \subseteq Present(Target.wtree) /\ cur' \in Present(Target.wtree)
      BY <1>1, <1>2, <2>1 DEF EngineInv
    <3>3. edits' \in Nat /\ faults' \in Nat
      BY <2>1 DEF EngineInv
    <3> QED
      BY <1>2, <2>1, <3>1, <3>2, <3>3, GoesOn
  <2>3. p \notin Temps
    BY <1>2, PathAssumption DEF EngineInv, NoTemps, Present
  <2>4. p \in UserPaths /\ \A q \in Ancestors(p) : ~IsFile(fs[q])
    BY <1>4, <2>3 DEF FileAbove, UserPaths
  <2>5. \A q \in Under(p) : fs[q] = "none" /\ q \notin Ancestors(p)
    BY <1>4, NothingBelow, UnderOf DEF FilesInv, Replaceable
  <2>6. fs' = [q \in Paths |-> IF q = p THEN "none" ELSE IF q \in Under(p) THEN "none"
                               ELSE MkdirAll(fs, p)[q]]
    BY <2>1, <2>5 DEF Cleared, MkdirAll
  <2>7. IsWorkTree(fs') /\ TempsOnlyGo
    BY <2>4, <2>6, SetUserPath DEF Nodes, TempsOnlyGo
  <2>8. \A q \in Paths \ {p} : IsFile(fs[q]) => fs'[q] = fs[q]
    <3>1. \A q \in Under(p) : ~IsFile(fs[q])
      BY <2>5, NodesDiffer DEF IsFile
    <3>2. \A q \in Paths \ {p} : q \notin Under(p) /\ q \notin Ancestors(p) => fs'[q] = fs[q]
      BY <2>6 DEF MkdirAll
    <3> QED
      BY <2>4, <3>1, <3>2
  <2>9. Survives
    BY <1>2, <2>8, ChangesInView DEF UserPaths
  <2> QED
    BY <2>1, <2>2, <2>7, <2>9
<1> QED
  BY <1>3, <1>4 DEF ClearTarget

LEMMA WriteTempSteps ==
  ASSUME EngineInv, FilesInv, WriteTemp
  PROVE  /\ EngineInv' /\ IsWorkTree(fs') /\ Survives /\ UNCHANGED <<checkpoint, edits>>
         /\ TempsOnlyGo \/ (pc' = "rename" /\ Temp' = Temp /\ \A t \in Temps \ {Temp} : fs'[t] = fs[t])
<1>1. pc = "temp" /\ pc \in Restoring
  BY DEF WriteTemp, Restoring
<1>2. op = "restore" /\ checkpoint # {} /\ result # "ok" /\ cur \in Present(Target.wtree)
  BY <1>1, InRestore DEF EngineInv
<1>3. CASE Fails /\ UNCHANGED workspace
  <2>1. UNCHANGED fs
    BY <1>3 DEF workspace
  <2> QED
    BY <1>3, <2>1, FailKeeps, SameFiles
<1>4. CASE ~(Parent[cur] # Root /\ fs[Parent[cur]] # "dir")
  <2>1. /\ fs' = [fs EXCEPT ![Temp] = Target.wtree[cur]] /\ pc' = "rename"
        /\ UNCHANGED <<todo, cur, result, checkpoint, op, cap, edits, faults>>
    BY <1>4 DEF WriteTemp, Applying, Calm
  <2>2. EngineInv'
    <3>1. pc' \in Restoring /\ pc' # "remove"
      BY <2>1 DEF Restoring
    <3>2. todo' \subseteq Present(Target.wtree) /\ cur' \in Present(Target.wtree)
      BY <1>1, <1>2, <2>1 DEF EngineInv
    <3>3. edits' \in Nat /\ faults' \in Nat
      BY <2>1 DEF EngineInv
    <3> QED
      BY <1>2, <2>1, <3>1, <3>2, <3>3, GoesOn
  <2>3. /\ cur \in Paths \ Temps /\ Target.wtree[cur] \in Contents
        /\ Temp \in Temps /\ Temp \in Paths /\ Parent[Temp] = Parent[cur]
    BY <1>1, Working
  <2>4. fs[Temp] # "dir"
    BY <2>3 DEF FilesInv, IsWorkTree
  <2>5. IsWorkTree(fs')
    BY <1>4, <2>1, <2>3, <2>4, SetFile DEF FilesInv
  <2>6. \A q \in Paths \ {Temp} : fs'[q] = fs[q]
    BY <2>1 DEF FilesInv, IsWorkTree
  <2>7. Survives
    BY <2>3, <2>6 DEF Survives, UserPaths
  <2>8. \A t \in Temps \ {Temp} : fs'[t] = fs[t]
    BY <2>6, PathAssumption
  <2>9. Temp' = Temp
    BY <2>1 DEF Temp
  <2> QED
    BY <2>1, <2>2, <2>5, <2>7, <2>8, <2>9
<1> QED
  BY <1>3, <1>4 DEF WriteTemp

\* The temporary file goes, as in Tidied and in the rename.
LEMMA TidiedFiles ==
  ASSUME EngineInv, FilesInv, pc = "rename", NEW f, f = [fs EXCEPT ![Temp] = "none"]
  PROVE  /\ IsWorkTree(f) /\ f[Temp] = "none" /\ \A q \in Paths \ {Temp} : f[q] = fs[q]
         /\ Temp \in Paths /\ Temp \in Temps
<1>1. Temp \in Temps /\ Temp \in Paths
  BY Working
<1>2. fs[Temp] # "dir"
  BY <1>1 DEF FilesInv, IsWorkTree
<1>3. IsWorkTree(f)
  BY <1>1, <1>2, SetFile DEF FilesInv
<1> QED
  BY <1>1, <1>3 DEF FilesInv, IsWorkTree

LEMMA RenameTargetSteps ==
  ASSUME EngineInv, FilesInv, RenameTarget
  PROVE  /\ EngineInv' /\ IsWorkTree(fs') /\ Survives /\ TempsOnlyGo /\ UNCHANGED <<checkpoint, edits>>
         /\ fs'[Temp] = "none"
<1>1. pc = "rename" /\ pc \in Restoring
  BY DEF RenameTarget, Restoring
<1>2. op = "restore" /\ checkpoint # {} /\ result # "ok" /\ cur \in Present(Target.wtree)
  BY <1>1, InRestore DEF EngineInv
<1> DEFINE g == [fs EXCEPT ![Temp] = "none"]
<1>3. /\ IsWorkTree(g) /\ g[Temp] = "none" /\ \A q \in Paths \ {Temp} : g[q] = fs[q]
      /\ Temp \in Paths /\ Temp \in Temps
  BY <1>1, TidiedFiles
<1>4. Temps \subseteq Paths /\ UserPaths \subseteq Paths /\ Temp \notin UserPaths
  BY <1>3, PathAssumption DEF UserPaths
<1>5. CASE fs[Temp] = "none" \/ fs[cur] = "dir"
  <2>1. fs' = g /\ Fails
    BY <1>1, <1>5 DEF RenameTarget, Tidied
  <2> HIDE DEF g
  <2>2. Survives /\ TempsOnlyGo
    BY <1>3, <1>4, <2>1 DEF Survives, TempsOnlyGo
  <2> QED
    BY <1>3, <2>1, <2>2, FailKeeps
<1>6. CASE ~(fs[Temp] = "none" \/ fs[cur] = "dir")
  <2>1. /\ fs' = [fs EXCEPT ![Temp] = "none", ![cur] = fs[Temp]]
        /\ pc' = "replace" /\ todo' = todo \ {cur}
        /\ UNCHANGED <<result, checkpoint, op, cap, edits, faults>>
    BY <1>6 DEF RenameTarget, Applying, Calm
  <2>2. fs' = [g EXCEPT ![cur] = fs[Temp]]
    BY <2>1
  <2> HIDE DEF g
  <2>3. cur \in Paths \ Temps /\ Temp # cur /\ Parent[Temp] = Parent[cur]
    BY <1>1, Working
  <2>4. fs[Temp] \in Contents /\ (Parent[cur] = Root \/ fs[Parent[cur]] = "dir")
    <3>1. fs[Temp] \in Nodes /\ fs[Temp] # "none" /\ fs[Temp] # "dir"
      BY <1>3, <1>6 DEF FilesInv, IsWorkTree
    <3> QED
      BY <1>3, <2>3, <3>1, NodesDiffer DEF FilesInv, IsWorkTree
  <2>5. Parent[cur] = Root \/ g[Parent[cur]] = "dir"
    <3>1. Parent[cur] # Root => Parent[cur] \in Paths
      BY <2>3, PathAssumption
    <3>2. Parent[cur] # Temp
      BY <1>3, <2>3, PathAssumption, WorkTreeAssumption
    <3> QED
      BY <1>3, <2>4, <3>1, <3>2
  <2>6. g[cur] # "dir"
    BY <1>3, <1>6, <2>3
  <2>7. IsWorkTree(fs')
    BY <1>3, <2>2, <2>3, <2>4, <2>5, <2>6, SetFile
  <2>8. fs'[Temp] = "none" /\ \A q \in Paths \ {Temp, cur} : fs'[q] = fs[q]
    BY <1>3, <2>2, <2>3 DEF IsWorkTree
  <2>9. Survives
    BY <1>2, <1>4, <2>8, ChangesInView
  <2>10. TempsOnlyGo
    BY <1>4, <2>3, <2>8 DEF TempsOnlyGo
  <2>11. EngineInv'
    <3>1. pc' \in Restoring
      BY <2>1 DEF Restoring
    <3>2. todo \subseteq Present(Target.wtree) /\ todo' \subseteq todo
      BY <1>1, <2>1 DEF EngineInv
    <3> QED
      BY <1>2, <2>1, <3>1, <3>2, GoesOn DEF EngineInv
  <2> QED
    BY <2>1, <2>7, <2>8, <2>9, <2>10, <2>11
<1> QED
  BY <1>5, <1>6

\* A failed command: only the deferred removal touches a file.
LEMMA FaultSteps ==
  ASSUME EngineInv, FilesInv, Fault
  PROVE  /\ EngineInv' /\ IsWorkTree(fs') /\ Survives /\ TempsOnlyGo /\ UNCHANGED <<checkpoint, edits>>
         /\ pc = "rename" => fs'[Temp] = "none"
<1>1. /\ Return("failed") /\ UNCHANGED <<checkpoint, edits>> /\ faults' = faults + 1 /\ fs' = Tidied(fs)
  BY DEF Fault
<1>2. EngineInv'
  <2>1. edits' \in Nat /\ faults' \in Nat
    BY <1>1 DEF EngineInv
  <2> QED
    BY <1>1, <2>1, ReturnKeeps
<1>3. CASE pc = "rename"
  <2>1. fs' = [fs EXCEPT ![Temp] = "none"]
    BY <1>1, <1>3 DEF Tidied
  <2>2. /\ IsWorkTree(fs') /\ fs'[Temp] = "none" /\ \A q \in Paths \ {Temp} : fs'[q] = fs[q]
        /\ Temp \in Temps
    BY <1>3, <2>1, TidiedFiles
  <2>3. Temps \subseteq Paths /\ UserPaths \subseteq Paths /\ Temp \notin UserPaths
    BY <2>2, PathAssumption DEF UserPaths
  <2> QED
    BY <1>1, <1>2, <2>2, <2>3 DEF Survives, TempsOnlyGo
<1>4. CASE pc # "rename"
  <2>1. UNCHANGED fs
    BY <1>1, <1>4 DEF Tidied
  <2> QED
    BY <1>1, <1>2, <1>4, <2>1, SameFiles
<1> QED
  BY <1>3, <1>4

-----------------------------------------------------------------------------
(* The steps that leave the files alone.                                   *)

Calls == CreateCheckpoint \/ Inspect \/ Restore
Returns == PublishCheckpoint \/ Inspected \/ RefuseRestore \/ VerifyRestored \/ Crash
Advances == BeginRestore \/ RemoveDone \/ ReplaceDone \/ LockIndex \/ SwapIndex \/ RestoreRef
            \/ SymbolicRef \/ DeleteRefFails

LEMMA CallsSteps ==
  ASSUME EngineInv, Calls
  PROVE  EngineInv' /\ UNCHANGED <<fs, checkpoint>>
<1>1. CASE CreateCheckpoint
  BY <1>1, CallKeeps DEF CreateCheckpoint
<1>2. CASE Inspect
  BY <1>2, CallKeeps DEF Inspect
<1>3. CASE Restore
  BY <1>3, CallKeeps DEF Restore
<1> QED
  BY <1>1, <1>2, <1>3 DEF Calls

LEMMA ReturnsSteps ==
  ASSUME EngineInv, Returns
  PROVE  EngineInv' /\ UNCHANGED fs /\ (UNCHANGED checkpoint \/ checkpoint' # {})
<1>1. edits \in Nat /\ faults \in Nat
  BY DEF EngineInv
<1>2. CASE PublishCheckpoint
  <2>1. /\ Return("none") /\ op = "checkpoint" /\ checkpoint' = {cap} /\ UNCHANGED <<fs, edits, faults>>
    BY <1>2 DEF PublishCheckpoint, workspace, Calm
  <2> QED
    BY <1>1, <2>1, ReturnKeeps
<1>3. CASE Inspected
  <2>1. Return("none") /\ UNCHANGED <<fs, checkpoint, edits, faults>>
    BY <1>3 DEF Inspected, workspace, Calm
  <2> QED
    BY <1>1, <2>1, ReturnKeeps
<1>4. CASE RefuseRestore
  <2>1. Return("refused") /\ UNCHANGED <<fs, checkpoint, edits, faults>>
    BY <1>4 DEF RefuseRestore, workspace, Calm
  <2> QED
    BY <1>1, <2>1, ReturnKeeps
<1>5. CASE VerifyRestored
  <2>1. /\ Return(IF gitStateFingerprint(cap) = gitStateFingerprint(Target) THEN "ok" ELSE "failed")
        /\ UNCHANGED <<fs, checkpoint, edits, faults>>
    BY <1>5 DEF VerifyRestored, workspace, Calm
  <2> QED
    BY <1>1, <2>1, ReturnKeeps
<1>6. CASE Crash
  <2>1. Return("crashed") /\ UNCHANGED <<fs, checkpoint, edits>> /\ faults' = faults + 1
    BY <1>6 DEF Crash, workspace
  <2>2. edits' \in Nat /\ faults' \in Nat
    BY <1>1, <2>1
  <2> QED
    BY <2>1, <2>2, ReturnKeeps
<1> QED
  BY <1>2, <1>3, <1>4, <1>5, <1>6 DEF Returns

LEMMA AdvancesSteps ==
  ASSUME EngineInv, Advances
  PROVE  EngineInv' /\ UNCHANGED <<fs, checkpoint>>
<1>1. edits \in Nat /\ faults \in Nat
  BY DEF EngineInv
<1>2. CASE BeginRestore
  <2>1. /\ pc = "captured" /\ op = "restore" /\ pc' = "remove" /\ todo' = Extra
        /\ UNCHANGED <<fs, checkpoint, op, cap, result, edits, faults>>
    BY <1>2 DEF BeginRestore, workspace, Calm
  <2>2. result # "ok" /\ todo' \subseteq Present(cap.wtree) /\ pc' \in Restoring
    BY <2>1 DEF EngineInv, Extra, Restoring
  <2> QED
    BY <1>1, <2>1, <2>2, GoesOn
<1>3. CASE RemoveDone \/ ReplaceDone
  <2>1. /\ pc \in {"remove", "replace"} /\ pc' \in {"replace", "lock"}
        /\ pc' = "replace" => todo' = Present(Target.wtree)
        /\ UNCHANGED <<fs, checkpoint, op, cap, result, edits, faults>>
    BY <1>3 DEF RemoveDone, ReplaceDone, workspace, Applying, Calm
  <2>2. pc \in Restoring /\ pc' \in Restoring
    BY <2>1 DEF Restoring
  <2>3. op = "restore" /\ result # "ok"
    BY <2>2, InRestore
  <2> QED
    BY <1>1, <2>1, <2>2, <2>3, GoesOn
<1>4. CASE LockIndex
  <2>1. pc = "lock" /\ pc \in Restoring /\ UNCHANGED fs
    BY <1>4 DEF LockIndex, Restoring, workspace
  <2>2. op = "restore" /\ result # "ok"
    BY <2>1, InRestore
  <2>3. CASE Fails
    BY <2>1, <2>3, FailKeeps
  <2>4. CASE ~lock
    <3>1. pc' = "swap" /\ UNCHANGED <<checkpoint, op, cap, result, edits, faults>>
      BY <1>4, <2>4 DEF LockIndex, Applying, Calm
    <3> QED
      BY <1>1, <2>1, <2>2, <3>1, GoesOn DEF Restoring
  <2> QED
    BY <1>4, <2>3, <2>4 DEF LockIndex
<1>5. CASE SwapIndex \/ DeleteRefFails
  <2>1. /\ pc \in {"swap", "ref"} /\ pc' \in {"ref", "symref"}
        /\ UNCHANGED <<fs, checkpoint, op, cap, result, edits>> /\ faults' \in {faults, faults + 1}
    BY <1>5 DEF SwapIndex, DeleteRefFails, workspace, Applying, Calm
  <2>2. pc \in Restoring /\ pc' \in Restoring /\ faults' \in Nat
    BY <1>1, <2>1 DEF Restoring
  <2>3. op = "restore" /\ result # "ok"
    BY <2>2, InRestore
  <2> QED
    BY <1>1, <2>1, <2>2, <2>3, GoesOn
<1>6. CASE RestoreRef
  <2>1. pc \in Restoring
    BY <1>6 DEF RestoreRef, Restoring
  <2>2. op = "restore" /\ result # "ok"
    BY <2>1, InRestore
  <2>3. CASE Recapture
    BY <2>2, <2>3, RecaptureKeeps
  <2>4. CASE Target.head.ref # "detached"
    <3>1. pc' = "symref" /\ UNCHANGED <<fs, checkpoint, op, cap, result, edits, faults>>
      BY <1>6, <2>4 DEF RestoreRef, Applying, Calm
    <3> QED
      BY <1>1, <2>2, <3>1, GoesOn DEF Restoring
  <2> QED
    BY <1>6, <2>3, <2>4 DEF RestoreRef
<1>7. CASE SymbolicRef
  <2>1. pc \in Restoring /\ Recapture
    BY <1>7 DEF SymbolicRef, Restoring
  <2> QED
    BY <2>1, InRestore, RecaptureKeeps
<1> QED
  BY <1>2, <1>3, <1>4, <1>5, <1>6, <1>7 DEF Advances

\* The actions of the engine, by what they do to the files.
Quiet == Calls \/ Returns \/ Advances \/ Capture

LEMMA EngineSplit ==
  ASSUME Engine
  PROVE  \/ Quiet \/ WriteTemp \/ RenameTarget \/ Fault
         \/ \E p \in Paths : RemoveExtra(p) \/ ClearTarget(p)
BY DEF Engine, Apply, Quiet, Calls, Returns, Advances

LEMMA QuietSteps ==
  ASSUME EngineInv, FilesInv, Quiet
  PROVE  EngineInv' /\ UNCHANGED fs /\ (UNCHANGED checkpoint \/ checkpoint' # {})
BY CallsSteps, ReturnsSteps, AdvancesSteps, CaptureKeeps DEF Quiet

LEMMA EngineSteps ==
  ASSUME EngineInv, FilesInv, Engine
  PROVE  EngineInv' /\ FilesInv' /\ Survives
<1>1. ASSUME IsWorkTree(fs'), TempsOnlyGo, UNCHANGED checkpoint PROVE FilesInv'
  BY <1>1 DEF FilesInv, NoTemps, TempsOnlyGo
<1>2. CASE Quiet
  BY <1>2, QuietSteps, QuietKeeps, SameFiles
<1>3. CASE WriteTemp
  <2>1. pc \in Restoring
    BY <1>3 DEF WriteTemp, Restoring
  <2>2. checkpoint # {}
    BY <2>1, InRestore
  <2>3. EngineInv' /\ IsWorkTree(fs') /\ Survives /\ UNCHANGED checkpoint
    BY <1>3, WriteTempSteps
  <2> QED
    BY <2>2, <2>3 DEF FilesInv
<1>4. CASE RenameTarget
  BY <1>1, <1>4, RenameTargetSteps
<1>5. CASE Fault
  BY <1>1, <1>5, FaultSteps
<1>6. ASSUME NEW p \in Paths, RemoveExtra(p) PROVE EngineInv' /\ FilesInv' /\ Survives
  BY <1>1, <1>6, RemoveExtraSteps
<1>7. ASSUME NEW p \in Paths, ClearTarget(p) PROVE EngineInv' /\ FilesInv' /\ Survives
  BY <1>1, <1>7, ClearTargetSteps
<1> QED
  BY <1>2, <1>3, <1>4, <1>5, <1>6, <1>7, EngineSplit

LEMMA StutterKeeps ==
  ASSUME EngineInv, FilesInv, UNCHANGED vars
  PROVE  EngineInv' /\ FilesInv'
<1>1. UNCHANGED <<fs, checkpoint, op, pc, cap, todo, cur, result, edits, faults>>
  BY DEF vars, workspace
<1> QED
  BY <1>1 DEF EngineInv, FilesInv, NoTemps, Target, Present

LEMMA NextKeeps ==
  ASSUME EngineInv, FilesInv, [Next]_vars
  PROVE  EngineInv' /\ FilesInv'
BY EditEdits, EditKeeps, EngineSteps, StutterKeeps DEF Next

\* No step of the engine removes or overwrites a file that neither the checkpoint nor the
\* capture of this Restore contains: preflight and removeReplaceablePath let nothing
\* through, whatever edits, failed commands and crashes come between the steps.
THEOREM UncapturedFilesSurvive == Spec => UncapturedSurvives
<1>1. EngineInv /\ FilesInv /\ [Next]_vars =>
        [edits' = edits =>
           \A p \in UserPaths :
              IsFile(fs[p]) /\ fs'[p] # fs[p]
                => \E c \in checkpoint \cup {cap} : c.wtree[p] # "none"]_vars
  <2> SUFFICES ASSUME EngineInv, FilesInv, Next, edits' = edits PROVE Survives
    BY DEF Survives
  <2>1. CASE Edit
    <3>1. edits' = edits + 1 /\ edits \in Nat
      BY <2>1, EditEdits DEF Editing, EngineInv
    <3> QED
      BY <3>1
  <2> QED
    BY <2>1, EngineSteps DEF Next
<1>2. EngineInv /\ FilesInv /\ [Next]_vars => EngineInv' /\ FilesInv'
  BY NextKeeps
<1> QED
  BY <1>1, <1>2, InitEngine, PTL DEF Spec, UncapturedSurvives

-----------------------------------------------------------------------------
(* What a call leaves behind.                                              *)

\* As long as nothing has failed, the lock is there for the swap only, and a
\* temporary file for its rename only.
TidyInv ==
  faults = 0 => /\ lock => pc = "swap"
                /\ \A t \in Temps : fs[t] # "none" => pc = "rename" /\ t = Temp

LEMMA QuietTidies ==
  ASSUME EngineInv, FilesInv, TidyInv, Quiet, faults' = 0
  PROVE  TidyInv'
<1>1. faults \in Nat /\ UNCHANGED fs
  BY QuietSteps DEF EngineInv
<1>2. ~Crash /\ ~DeleteRefFails
  BY <1>1 DEF Crash, DeleteRefFails
<1>3. /\ faults = 0 /\ pc # "rename"
      /\ (UNCHANGED lock /\ pc # "swap") \/ (lock' => pc' = "swap")
  <2>1. CASE Calls
    BY <2>1 DEF Calls, CreateCheckpoint, Inspect, Restore, Call, workspace
  <2>2. CASE Returns
    BY <1>2, <2>2 DEF Returns, PublishCheckpoint, Inspected, RefuseRestore, VerifyRestored, workspace, Calm
  <2>3. CASE Capture
    BY <2>3 DEF Capture, ReadIndex, ReadStatus, ReadHead, WriteTrees, Capturing, Calm, workspace
  <2>4. CASE BeginRestore \/ RemoveDone \/ ReplaceDone
    BY <2>4 DEF BeginRestore, RemoveDone, ReplaceDone, Applying, Calm, workspace
  <2>5. CASE LockIndex
    BY <2>5 DEF LockIndex, Fails, Applying, Calm, workspace
  <2>6. CASE SwapIndex
    BY <2>6 DEF SwapIndex, Applying, Calm
  <2>7. CASE RestoreRef \/ SymbolicRef
    BY <2>7 DEF RestoreRef, SymbolicRef, Recapture, Applying, Calm
  <2> QED
    BY <1>2, <2>1, <2>2, <2>3, <2>4, <2>5, <2>6, <2>7 DEF Quiet, Advances
<1> QED
  BY <1>1, <1>3 DEF TidyInv

LEMMA NextTidies ==
  ASSUME EngineInv, FilesInv, TidyInv, [Next]_vars
  PROVE  TidyInv'
<1> SUFFICES ASSUME faults' = 0 PROVE TidyInv'
  BY DEF TidyInv
<1>1. faults \in Nat
  BY DEF EngineInv
<1>2. ASSUME UNCHANGED <<pc, cur, lock, faults>>, TempsOnlyGo PROVE TidyInv'
  BY <1>2 DEF TidyInv, TempsOnlyGo, Temp
<1>3. ASSUME UNCHANGED <<lock, faults>>, TempsOnlyGo, pc \notin {"rename", "swap"} PROVE TidyInv'
  BY <1>3 DEF TidyInv, TempsOnlyGo
<1>4. CASE UNCHANGED vars
  BY <1>2, <1>4 DEF vars, workspace, TempsOnlyGo
<1>5. CASE Edit
  BY <1>2, <1>5, EditEdits DEF Editing, TempsOnlyGo
<1>6. CASE Quiet
  BY <1>6, QuietTidies
<1>7. CASE Fault
  BY <1>1, <1>7 DEF Fault
<1>8. ASSUME NEW p \in Paths, RemoveExtra(p) PROVE TidyInv'
  <2>1. UNCHANGED <<lock, faults>> /\ pc = "remove"
    BY <1>8 DEF RemoveExtra, Fails, Applying, Calm, workspace
  <2> QED
    BY <1>3, <1>8, <2>1, RemoveExtraSteps
<1>9. ASSUME NEW p \in Paths, ClearTarget(p) PROVE TidyInv'
  <2>1. UNCHANGED <<lock, faults>> /\ pc = "replace"
    BY <1>9 DEF ClearTarget, Fails, Applying, Calm, workspace
  <2> QED
    BY <1>3, <1>9, <2>1, ClearTargetSteps
<1>10. CASE WriteTemp
  <2>1. UNCHANGED <<lock, faults>> /\ pc = "temp"
    BY <1>10 DEF WriteTemp, Fails, Applying, Calm, workspace
  <2>2. CASE pc' = "rename" /\ Temp' = Temp /\ \A t \in Temps \ {Temp} : fs'[t] = fs[t]
    BY <2>1, <2>2 DEF TidyInv
  <2> QED
    BY <1>3, <1>10, <2>1, <2>2, WriteTempSteps
<1>11. CASE RenameTarget
  <2>1. UNCHANGED <<lock, faults>> /\ pc = "rename"
    BY <1>11 DEF RenameTarget, Fails, Applying, Calm
  <2>2. TempsOnlyGo /\ fs'[Temp] = "none"
    BY <1>11, RenameTargetSteps
  <2> QED
    BY <2>1, <2>2 DEF TidyInv, TempsOnlyGo
<1> QED
  BY <1>4, <1>5, <1>6, <1>7, <1>8, <1>9, <1>10, <1>11, EngineSplit DEF Next

\* CreateCheckpoint, Inspect and Restore return without an index.lock and without a
\* temporary file, on every way out of the loops of applyWorktreeRestore that no failed
\* command or crash caused.
THEOREM CallsLeaveNothing == Spec => []ReturnsTidy
<1>1. Init => TidyInv
  <2> SUFFICES ASSUME Init PROVE TidyInv
    OBVIOUS
  <2>1. FilesInv /\ checkpoint = {} /\ lock = FALSE
    BY InitEngine DEF Init
  <2> QED
    BY <2>1 DEF FilesInv, NoTemps, TidyInv
<1>2. EngineInv /\ FilesInv /\ TidyInv /\ [Next]_vars => EngineInv' /\ FilesInv' /\ TidyInv'
  BY NextKeeps, NextTidies
<1>3. TidyInv => ReturnsTidy
  BY DEF TidyInv, ReturnsTidy
<1> QED
  BY <1>1, <1>2, <1>3, InitEngine, PTL DEF Spec

-----------------------------------------------------------------------------
(* What a successful Restore has checked.                                  *)

\* What captureState has read is still so, unless someone has edited since
\* the call: the engine itself changes nothing while it reads.
ReadInv ==
  ~edited /\ pc \in Reading =>
    /\ pc # "index" => cap.index = index
    /\ pc \in {"head", "trees", "captured"} =>
         cap.status = readStatus(HeadCommit, index.tree, treeFromIndex(index.tree, fs))
    /\ pc \in {"trees", "captured"} => cap.head = [ref |-> HEAD.ref, commit |-> HeadCommit]
    /\ pc = "captured" => cap.wtree = treeFromIndex(index.tree, fs)

LEMMA OnlyCaptureReads ==
  ASSUME Engine
  PROVE  Capture \/ pc' \in {"idle", "index"} \cup Restoring
<1>1. CASE Calls
  BY <1>1 DEF Calls, CreateCheckpoint, Inspect, Restore, Call
<1>2. CASE Returns
  BY <1>2 DEF Returns, PublishCheckpoint, Inspected, RefuseRestore, VerifyRestored, Crash, Return
<1>3. CASE Advances
  BY <1>3 DEF Advances, BeginRestore, RemoveDone, ReplaceDone, LockIndex, SwapIndex, RestoreRef,
              SymbolicRef, DeleteRefFails, Recapture, Fails, Return, Restoring
<1>4. CASE WriteTemp \/ RenameTarget \/ Fault
  BY <1>4 DEF WriteTemp, RenameTarget, Fault, Fails, Return, Restoring
<1>5. CASE \E p \in Paths : RemoveExtra(p) \/ ClearTarget(p)
  BY <1>5 DEF RemoveExtra, ClearTarget, Fails, Return, Restoring
<1> QED
  BY <1>1, <1>2, <1>3, <1>4, <1>5, EngineSplit DEF Quiet

LEMMA OnlyVerifySucceeds ==
  ASSUME EngineInv, Engine, result' = "ok"
  PROVE  VerifyRestored
<1>1. CASE Calls
  BY <1>1 DEF Calls, CreateCheckpoint, Inspect, Restore, Call
<1>2. CASE Returns
  BY <1>2 DEF Returns, PublishCheckpoint, Inspected, RefuseRestore, Crash, Return
<1>3. pc # "idle" /\ UNCHANGED result => FALSE
  BY DEF EngineInv
<1>4. CASE Capture
  BY <1>3, <1>4 DEF Capture, ReadIndex, ReadStatus, ReadHead, WriteTrees, Capturing
<1>5. CASE Advances
  BY <1>3, <1>5 DEF Advances, BeginRestore, RemoveDone, ReplaceDone, LockIndex, SwapIndex, RestoreRef,
              SymbolicRef, DeleteRefFails, Recapture, Fails, Return
<1>6. CASE WriteTemp \/ RenameTarget \/ Fault
  BY <1>3, <1>6 DEF WriteTemp, RenameTarget, Fault, Fails, Return
<1>7. CASE \E p \in Paths : RemoveExtra(p) \/ ClearTarget(p)
  BY <1>3, <1>7 DEF RemoveExtra, ClearTarget, Fails, Return
<1> QED
  BY <1>1, <1>2, <1>4, <1>5, <1>6, <1>7, EngineSplit DEF Quiet

LEMMA NextReads ==
  ASSUME EngineInv, FilesInv, ReadInv, [Next]_vars
  PROVE  ReadInv'
<1>1. CASE UNCHANGED vars
  BY <1>1 DEF vars, workspace, ReadInv, HeadCommit
<1>2. CASE Edit
  BY <1>2, EditEdits DEF Editing, ReadInv
<1>3. CASE pc' \in {"idle", "index"} \cup Restoring
  BY <1>3 DEF ReadInv, Reading, Restoring
<1>4. CASE Capture
  <2>1. UNCHANGED <<fs, index, branches, HEAD, edited>>
    BY <1>4 DEF Capture, ReadIndex, ReadStatus, ReadHead, WriteTrees, Capturing, Calm, workspace
  <2>2. HeadCommit' = HeadCommit
    BY <2>1 DEF HeadCommit
  <2>3. DOMAIN cap = {"index", "status", "head", "wtree"}
    BY DEF EngineInv
  <2>4. CASE ReadIndex
    BY <2>1, <2>3, <2>4 DEF ReadIndex, ReadInv, Reading
  <2>5. CASE ReadStatus
    <3>1. /\ pc = "status" /\ pc' = "head" /\ cap'.index = cap.index
          /\ cap'.status = readStatus(HeadCommit, index.tree, treeFromIndex(index.tree, fs))
      BY <2>3, <2>5 DEF ReadStatus
    <3> QED
      BY <2>1, <2>2, <3>1 DEF ReadInv, Reading
  <2>6. CASE ReadHead
    <3>1. /\ pc = "head" /\ pc' = "trees" /\ cap'.index = cap.index /\ cap'.status = cap.status
          /\ cap'.head = [ref |-> HEAD.ref, commit |-> HeadCommit]
      BY <2>3, <2>6 DEF ReadHead
    <3> QED
      BY <2>1, <2>2, <3>1 DEF ReadInv, Reading
  <2>7. CASE WriteTrees
    <3>1. /\ pc = "trees" /\ pc' = "captured" /\ cap'.index = cap.index /\ cap'.head = cap.head
          /\ cap'.status = cap.status
          /\ cap'.wtree = treeFromIndex(cap.index.tree, fs)
      BY <2>3, <2>7 DEF WriteTrees
    <3> QED
      BY <2>1, <2>2, <3>1 DEF ReadInv, Reading
  <2> QED
    BY <1>4, <2>4, <2>5, <2>6, <2>7 DEF Capture
<1> QED
  BY <1>1, <1>2, <1>3, <1>4, OnlyCaptureReads DEF Next

\* A file that no rule ignores would have been captured.
LEMMA NoTempsLeft ==
  ASSUME FilesInv, \A c \in Contents : RulesOf[c] \cap Temps = {},
         NEW tracked, NoTemps(treeFromIndex(tracked, fs))
  PROVE  \A t \in Temps : fs[t] = "none"
<1> SUFFICES ASSUME NEW t \in Temps PROVE fs[t] = "none"
  OBVIOUS
<1>1. t \in Paths /\ t \notin Ignored(fs)
  BY PathAssumption DEF Ignored, IsFile
<1>2. treeFromIndex(tracked, fs)[t] = "none"
  BY DEF NoTemps
<1>3. ~IsFile(fs[t])
  BY <1>1, <1>2, NodesDiffer DEF treeFromIndex, IsFile
<1> QED
  BY <1>1, <1>3, NodesDiffer DEF FilesInv, IsWorkTree, IsFile

\* A Restore that reports success has brought back files, index, branch and HEAD of the
\* checkpoint, and no temporary file of an earlier crashed attempt is left: the comparison
\* in VerifyRestored is enough, wherever faults and crashes came before.  An ignore rule
\* that hides a temporary name would hide such a file from the second capture.
THEOREM RestoresExactly ==
  ASSUME \A c \in Contents : RulesOf[c] \cap Temps = {}
  PROVE  Spec => []ExactRestore
<1>1. Init => ReadInv /\ ExactRestore
  BY DEF Init, ReadInv, ExactRestore, Reading
<1>2. EngineInv /\ FilesInv /\ ReadInv /\ ExactRestore /\ [Next]_vars => ExactRestore'
  <2> SUFFICES ASSUME EngineInv, FilesInv, ReadInv, ExactRestore, [Next]_vars PROVE ExactRestore'
    OBVIOUS
  <2>1. CASE UNCHANGED vars
    BY <2>1 DEF vars, workspace, ExactRestore, HeadCommit, treeFromIndex, Ignored
  <2>2. CASE Edit
    BY <2>2, EditEdits DEF Editing, ExactRestore
  <2>3. CASE Engine
    <3> SUFFICES ASSUME result' = "ok", ~edited' PROVE ExactRestore'
      BY DEF ExactRestore
    <3>1. VerifyRestored
      BY <2>3, OnlyVerifySucceeds
    <3>2. /\ pc = "captured" /\ op = "verify" /\ UNCHANGED <<fs, index, branches, HEAD, checkpoint, edited>>
          /\ gitStateFingerprint(cap) = gitStateFingerprint(Target)
      BY <3>1 DEF VerifyRestored, Return, workspace, Calm
    <3>3. cap.index = Target.index /\ cap.head = Target.head /\ cap.wtree = Target.wtree
      BY <3>2 DEF gitStateFingerprint
    <3>4. /\ cap.index = index /\ cap.head = [ref |-> HEAD.ref, commit |-> HeadCommit]
          /\ cap.wtree = treeFromIndex(index.tree, fs)
      BY <3>2 DEF ReadInv, Reading
    <3>5. Target \in checkpoint
      BY <3>2, TargetIn DEF EngineInv
    <3>6. NoTemps(treeFromIndex(index.tree, fs)) /\ \A c \in checkpoint : c = Target
      BY <3>3, <3>4, <3>5 DEF EngineInv
    <3>7. \A t \in Temps : fs[t] = "none"
      BY <3>6, NoTempsLeft
    <3>8. HeadCommit' = HeadCommit /\ treeFromIndex(index.tree, fs)' = treeFromIndex(index.tree, fs)
      BY <3>2 DEF HeadCommit, treeFromIndex, Ignored
    <3> QED
      BY <3>2, <3>3, <3>4, <3>6, <3>7, <3>8 DEF ExactRestore
  <2> QED
    BY <2>1, <2>2, <2>3 DEF Next
<1>3. /\ Init => EngineInv /\ FilesInv
      /\ EngineInv /\ FilesInv /\ [Next]_vars => EngineInv' /\ FilesInv'
      /\ EngineInv /\ FilesInv /\ ReadInv /\ [Next]_vars => ReadInv'
  BY InitEngine, NextKeeps, NextReads
<1> QED
  BY <1>1, <1>2, <1>3, PTL DEF Spec

-----------------------------------------------------------------------------
(* What a capture of a work tree looks like.                               *)

LEMMA AboveFiles ==
  ASSUME NEW f, IsWorkTree(f), NEW p \in Paths, f[p] # "none"
  PROVE  \A q \in Ancestors(p) : q \in Paths /\ f[q] = "dir"
<1>1. \A q \in Paths : f[q] # "none" /\ Parent[q] # Root => Parent[q] \in Paths /\ f[Parent[q]] = "dir"
  BY PathAssumption DEF IsWorkTree
<1>2. \A q \in Ancestors(p) : \/ Parent[p] # Root /\ q = Parent[p]
                              \/ Parent[p] # Root /\ Parent[Parent[p]] # Root /\ q = Parent[Parent[p]]
  BY DEF Ancestors
<1> QED
  BY <1>1, <1>2

\* No file is above another one, and each is tracked or not ignored.
TreeOK(c) ==
  \A p \in Present(c.wtree) : /\ c.index.tree[p] # "none" \/ p \notin Ignored(c.wtree)
                              /\ \A q \in Ancestors(p) : c.wtree[q] = "none"
HeadOK(h) == h = [ref |-> h.ref, commit |-> h.commit] /\ h.ref \in Branches \cup {"detached"}

LEMMA TreeCaptured ==
  ASSUME IsWorkTree(fs), NEW c, c.wtree = treeFromIndex(c.index.tree, fs)
  PROVE  TreeOK(c)
<1> DEFINE w == c.wtree
<1>1. \A p \in Paths : w[p] = IF IsFile(fs[p]) /\ (c.index.tree[p] # "none" \/ p \notin Ignored(fs))
                              THEN fs[p] ELSE "none"
  BY DEF treeFromIndex
<1>2. IgnoreFile \in Paths /\ ~IsFile("none") /\ ~IsFile("dir")
  BY PathAssumption, NodesDiffer DEF IsFile
<1>3. Ignored(w) = Ignored(fs) \/ Ignored(w) = {}
  BY <1>1, <1>2 DEF Ignored
<1> SUFFICES ASSUME NEW p \in Present(w)
             PROVE  /\ c.index.tree[p] # "none" \/ p \notin Ignored(w)
                    /\ \A q \in Ancestors(p) : w[q] = "none"
  BY DEF TreeOK
<1>4. p \in Paths /\ w[p] # "none"
  BY DEF Present
<1>5. IsFile(fs[p]) /\ (c.index.tree[p] # "none" \/ p \notin Ignored(fs)) /\ fs[p] # "none"
  BY <1>1, <1>2, <1>4
<1>6. \A q \in Ancestors(p) : q \in Paths /\ fs[q] = "dir"
  BY <1>4, <1>5, AboveFiles
<1>7. \A q \in Ancestors(p) : w[q] = "none"
  BY <1>1, <1>2, <1>6
<1> QED
  BY <1>3, <1>5, <1>7

\* Refs and captures.
RefInv ==
  /\ HeadOK(HEAD) /\ branches = [b \in Branches |-> branches[b]]
  /\ \A c \in checkpoint : TreeOK(c) /\ HeadOK(c.head)
  /\ pc \in {"trees", "captured"} => HeadOK(cap.head)
  /\ pc = "captured" => TreeOK(cap)

LEMMA InitRefs == Init => RefInv
<1> SUFFICES ASSUME Init PROVE RefInv
  OBVIOUS
<1>1. branches = [b \in Branches |-> branches[b]]
  BY DEF Init
<1>2. HeadOK(HEAD)
  BY PathAssumption DEF Init, HeadOK
<1> QED
  BY <1>1, <1>2 DEF Init, RefInv

LEMMA EditRefs ==
  ASSUME Edit, HeadOK(HEAD), branches = [b \in Branches |-> branches[b]]
  PROVE  HeadOK(HEAD') /\ branches' = [b \in Branches |-> branches'[b]]
<1>1. CASE UNCHANGED <<branches, HEAD>>
  BY <1>1
<1>2. CASE Commit
  BY <1>2 DEF Commit, HeadOK
<1>3. CASE Detach
  BY <1>3 DEF Detach, HeadOK
<1>4. ASSUME NEW b \in Branches, CheckoutNew(b)
      PROVE  HeadOK(HEAD') /\ branches' = [d \in Branches |-> branches'[d]]
  BY <1>4 DEF CheckoutNew, HeadOK
<1> QED
  BY <1>1, <1>2, <1>3, <1>4 DEF Edit, WriteFile, ReplaceDirectory, MakeDirectory, RemoveFile, Stage

LEMMA EngineRefs ==
  ASSUME EngineInv, RefInv, Engine
  PROVE  HeadOK(HEAD') /\ branches' = [b \in Branches |-> branches'[b]]
<1>1. CASE UNCHANGED <<branches, HEAD>>
  BY <1>1 DEF RefInv
<1>2. CASE RestoreRef
  <2>1. pc \in Restoring
    BY <1>2 DEF RestoreRef, Restoring
  <2>2. HeadOK(Target.head)
    BY <2>1, InRestore DEF RefInv
  <2> QED
    BY <1>2, <2>2 DEF RestoreRef, RefInv
<1>3. CASE SymbolicRef
  <2>1. pc \in Restoring
    BY <1>3 DEF SymbolicRef, Restoring
  <2>2. HeadOK(Target.head)
    BY <2>1, InRestore DEF RefInv
  <2> QED
    BY <1>3, <2>2 DEF SymbolicRef, RefInv, HeadOK
<1>4. CASE Calls \/ Returns \/ Capture
  BY <1>1, <1>4 DEF Calls, CreateCheckpoint, Inspect, Restore, Call, Returns, PublishCheckpoint, Inspected,
       RefuseRestore, VerifyRestored, Crash, Capture, ReadIndex, ReadStatus, ReadHead, WriteTrees, Capturing, workspace
<1>5. CASE Advances
  BY <1>1, <1>2, <1>3, <1>5 DEF Advances, BeginRestore, RemoveDone, ReplaceDone, LockIndex, SwapIndex,
       DeleteRefFails, workspace
<1>6. CASE WriteTemp \/ RenameTarget \/ Fault \/ \E p \in Paths : RemoveExtra(p) \/ ClearTarget(p)
  BY <1>1, <1>6 DEF WriteTemp, RenameTarget, Fault, RemoveExtra, ClearTarget, workspace
<1> QED
  BY <1>4, <1>5, <1>6, EngineSplit DEF Quiet

LEMMA NextRefs ==
  ASSUME EngineInv, FilesInv, RefInv, [Next]_vars
  PROVE  RefInv'
<1>1. CASE UNCHANGED vars
  BY <1>1 DEF vars, workspace, RefInv
<1>2. CASE Edit
  BY <1>2, EditEdits, EditRefs DEF Editing, RefInv
<1>3. CASE Engine
  <2>1. HeadOK(HEAD') /\ branches' = [b \in Branches |-> branches'[b]]
    BY <1>3, EngineRefs
  <2>2. \A c \in checkpoint' : TreeOK(c) /\ HeadOK(c.head)
    <3>1. CASE PublishCheckpoint
      BY <3>1 DEF PublishCheckpoint, RefInv
    <3>2. CASE UNCHANGED checkpoint
      BY <3>2 DEF RefInv
    <3>3. CASE Calls \/ Advances \/ Capture
      BY <3>2, <3>3, CallsSteps, AdvancesSteps, CaptureKeeps
    <3>4. CASE Returns
      BY <3>1, <3>2, <3>4 DEF Returns, Inspected, RefuseRestore, VerifyRestored, Crash
    <3>5. CASE WriteTemp \/ RenameTarget \/ Fault \/ \E p \in Paths : RemoveExtra(p) \/ ClearTarget(p)
      BY <3>2, <3>5, WriteTempSteps, RenameTargetSteps, FaultSteps, RemoveExtraSteps, ClearTargetSteps
    <3> QED
      BY <1>3, <3>3, <3>4, <3>5, EngineSplit DEF Quiet
  <2>3. /\ pc' \in {"trees", "captured"} => HeadOK(cap'.head)
        /\ pc' = "captured" => TreeOK(cap')
    <3>1. CASE Capture
      <4>1. DOMAIN cap = {"index", "status", "head", "wtree"}
        BY DEF EngineInv
      <4>2. CASE ReadIndex \/ ReadStatus
        BY <4>2 DEF ReadIndex, ReadStatus
      <4>3. CASE ReadHead
        BY <4>1, <4>3 DEF ReadHead, RefInv, HeadOK
      <4>4. CASE WriteTrees
        <5>1. /\ pc = "trees" /\ cap'.head = cap.head
              /\ cap'.wtree = treeFromIndex(cap'.index.tree, fs)
          BY <4>1, <4>4 DEF WriteTrees
        <5>2. TreeOK(cap')
          BY <5>1, TreeCaptured DEF FilesInv
        <5> QED
          BY <5>1, <5>2 DEF RefInv
      <4> QED
        BY <3>1, <4>2, <4>3, <4>4 DEF Capture
    <3>2. CASE pc' \in {"idle", "index"} \cup Restoring
      BY <3>2 DEF Restoring
    <3> QED
      BY <1>3, <3>1, <3>2, OnlyCaptureReads
  <2> QED
    BY <2>1, <2>2, <2>3 DEF RefInv
<1> QED
  BY <1>1, <1>2, <1>3 DEF Next

-----------------------------------------------------------------------------
(* The loops of applyWorktreeRestore, for work tree f and checkpoint c.    *)

\* The files that neither the checkpoint holds nor its second capture shows.
Hidden(c) == LeavesOut(c.index.tree, c.wtree)

NoEmptyDirectory(f) == \A d \in Paths : f[d] = "dir" => Children(f, d) # {}

\* While the extras in left are removed: only they stand in the way.
Removing(f, left, c) ==
  /\ NoEmptyDirectory(f)
  /\ \A q \in left : q \in Paths /\ IsFile(f[q])
  /\ \A q \in Paths : IsFile(f[q]) => q \in left \/ q \in Present(c.wtree) \/ q \in Hidden(c)
  /\ \A p \in Present(c.wtree), q \in Paths :
       IsFile(f[q]) /\ (q \in Ancestors(p) \/ q \in Under(p)) => q \in left

\* While the targets in left are written: nothing stands in the way.
Replacing(f, left, c, temps) ==
  /\ \A p \in Present(c.wtree) : f[p] # "dir" /\ \A q \in Ancestors(p) : ~IsFile(f[q])
  /\ \A p \in Present(c.wtree) : p \in left \/ f[p] = c.wtree[p]
  /\ \A q \in Paths : IsFile(f[q]) => q \in temps \/ q \in Present(c.wtree) \/ q \in Hidden(c)

LEMMA FileBelow ==
  ASSUME NEW f, IsWorkTree(f), NoEmptyDirectory(f), NEW p \in Paths, f[p] = "dir"
  PROVE  \E q \in Under(p) : IsFile(f[q])
<1>1. \A d \in Paths : f[d] = "dir" => \E r \in Paths : Parent[r] = d /\ f[r] # "none"
  BY DEF NoEmptyDirectory, Children
<1>2. \A r \in Paths : f[r] # "none" /\ f[r] # "dir" => IsFile(f[r])
  BY NodesDiffer DEF IsWorkTree, IsFile
<1>3. Root \notin Paths
  BY PathAssumption
<1>4. PICK r \in Paths : Parent[r] = p /\ f[r] # "none"
  BY <1>1
<1>5. CASE f[r] = "dir"
  <2>1. PICK s \in Paths : Parent[s] = r /\ f[s] # "none"
    BY <1>1, <1>5
  <2>2. s \in Under(p)
    BY <1>3, <1>4, <2>1 DEF Under
  <2>3. ASSUME f[s] = "dir" PROVE FALSE
    <3>1. PICK t \in Paths : Parent[t] = s
      BY <1>1, <2>3
    <3> QED
      BY <1>3, <1>4, <2>1, <3>1, WorkTreeAssumption
  <2> QED
    BY <1>2, <2>1, <2>2, <2>3
<1>6. CASE f[r] # "dir"
  BY <1>2, <1>4, <1>6 DEF Under
<1> QED
  BY <1>5, <1>6

\* One extra goes, and with it the directories it leaves empty.
LEMMA RemovingGoesOn ==
  ASSUME NEW f, IsWorkTree(f), NEW left, NEW c, Removing(f, left, c), NEW p \in left,
         NEW h, h = removeEmptyParents([f EXCEPT ![p] = "none"], p)
  PROVE  Removing(h, left \ {p}, c)
<1>1. p \in Paths /\ IsFile(f[p]) /\ f[p] # "none" /\ f[p] # "dir"
  BY NodesDiffer DEF Removing, IsFile
<1>2. \A q \in Ancestors(p) : q \in Paths /\ f[q] = "dir"
  BY <1>1, AboveFiles
<1> DEFINE g == [f EXCEPT ![p] = "none"]
<1>3. g[p] = "none" /\ \A q \in Paths \ {p} : g[q] = f[q]
  BY <1>1 DEF IsWorkTree
<1>4. IsWorkTree(g)
  BY <1>1, SetFile
<1> HIDE DEF g
<1>5. IsWorkTree(h)
  BY <1>1, <1>4, RemoveParents DEF g
<1>6. /\ \A q \in Paths \ Ancestors(p) : h[q] = g[q]
      /\ \A q \in Ancestors(p) : h[q] = "none" \/ h[q] = "dir"
      /\ \A q \in Ancestors(p) : h[q] # "none" =>
                                   \E r \in Under(q) : g[r] # "none" /\ r \notin Ancestors(p)
  <2>1. h = removeEmptyParents(g, p)
    BY DEF g
  <2>2. p \notin Ancestors(p)
    BY <1>1, AncestorsOf
  <2> QED
    BY <1>2, <1>3, <2>1, <2>2 DEF removeEmptyParents
<1>7. p \notin Ancestors(p) /\ ~IsFile("none") /\ ~IsFile("dir")
  BY <1>1, AncestorsOf, NodesDiffer DEF IsFile
<1>8. \A q \in Paths : /\ IsFile(h[q]) => IsFile(f[q]) /\ q # p
                       /\ IsFile(f[q]) /\ q # p => IsFile(h[q])
  BY <1>2, <1>3, <1>6, <1>7
<1>9. NoEmptyDirectory(h)
  <2> SUFFICES ASSUME NEW d \in Paths, h[d] = "dir"
               PROVE  \E s \in Paths : Parent[s] = d /\ h[s] # "none"
    BY DEF NoEmptyDirectory, Children
  <2>1. CASE d \in Ancestors(p)
    <3>1. PICK r \in Under(d) : g[r] # "none" /\ r \notin Ancestors(p)
      BY <1>6, <2>1
    <3>2. r \in Paths /\ (Parent[r] = d \/ (Parent[r] # Root /\ Parent[Parent[r]] = d)) /\ h[r] # "none"
      BY <1>6, <3>1 DEF Under
    <3>3. Parent[r] # Root => Parent[r] \in Paths /\ h[Parent[r]] = "dir"
      BY <1>5, <3>2, PathAssumption DEF IsWorkTree
    <3> QED
      BY <3>2, <3>3
  <2>2. CASE d \notin Ancestors(p)
    <3>1. f[d] = "dir" /\ d # Root
      BY <1>3, <1>6, <2>2, PathAssumption
    <3>2. PICK r \in Paths : Parent[r] = d /\ f[r] # "none"
      BY <3>1 DEF Removing, NoEmptyDirectory, Children
    <3>3. r # p /\ r \notin Ancestors(p)
      BY <1>1, <2>2, <3>1, <3>2, AncestorsOf
    <3> QED
      BY <1>3, <1>6, <3>2, <3>3
  <2> QED
    BY <2>1, <2>2
<1> QED
  BY <1>8, <1>9 DEF Removing

LEMMA RemovingEnds ==
  ASSUME NEW f, IsWorkTree(f), NEW c, Removing(f, {}, c)
  PROVE  Replacing(f, Present(c.wtree), c, {})
<1>1. ASSUME NEW p \in Present(c.wtree) PROVE f[p] # "dir" /\ \A q \in Ancestors(p) : ~IsFile(f[q])
  <2>1. p \in Paths /\ Ancestors(p) \subseteq Paths /\ Under(p) \subseteq Paths
    BY AncestorsOf DEF Present, Under
  <2>2. \A q \in Ancestors(p) \cup Under(p) : ~IsFile(f[q])
    BY <2>1 DEF Removing
  <2> QED
    BY <2>1, <2>2, FileBelow DEF Removing
<1> QED
  BY <1>1 DEF Removing, Replacing

LEMMA ReplacingEnds ==
  ASSUME NEW f, NEW c, IsCapturedTree(c.wtree), TreeOK(c), Replacing(f, {}, c, {})
  PROVE  treeFromIndex(c.index.tree, f) = c.wtree
<1> DEFINE w == c.wtree
<1>1. /\ \A p \in Paths : w[p] # "none" => f[p] = w[p] /\ IsFile(w[p])
                                           /\ (c.index.tree[p] # "none" \/ p \notin Ignored(w))
      /\ \A p \in Paths : IsFile(f[p]) /\ w[p] = "none" => c.index.tree[p] = "none" /\ p \in Ignored(w)
  BY DEF Replacing, Present, TreeOK, IsCapturedTree, IsFile, Hidden, LeavesOut
<1>2. IgnoreFile \in Paths /\ ~IsFile("none")
  BY PathAssumption, NodesDiffer DEF IsFile
<1>3. Ignored(f) = Ignored(w)
  <2>1. CASE w[IgnoreFile] # "none"
    BY <1>1, <1>2, <2>1 DEF Ignored
  <2>2. CASE w[IgnoreFile] = "none"
    <3>1. Ignored(w) = {}
      BY <1>2, <2>2 DEF Ignored
    <3> QED
      BY <1>1, <1>2, <2>2, <3>1 DEF Ignored
  <2> QED
    BY <2>1, <2>2
<1>4. \A p \in Paths : treeFromIndex(c.index.tree, f)[p] = w[p]
  BY <1>1, <1>3 DEF treeFromIndex
<1>5. w = [p \in Paths |-> w[p]]
  BY DEF IsCapturedTree
<1> QED
  BY <1>4, <1>5 DEF treeFromIndex

LEMMA ReplacingClears ==
  ASSUME FilesInv, NEW left, NEW c, TreeOK(c), Replacing(fs, left, c, {}), NEW p \in left,
         p \in Present(c.wtree), NEW h, h = Cleared(p)
  PROVE  /\ Replacing(h, left, c, {}) /\ h[p] = "none"
         /\ Parent[p] = Root \/ h[Parent[p]] = "dir"
<1>1. p \in Paths /\ fs[p] # "dir"
  BY DEF Replacing, Present
<1>2. /\ h[p] = "none" /\ \A q \in Ancestors(p) : q \in Paths /\ h[q] = "dir"
      /\ \A q \in Paths : q # p /\ q \notin Ancestors(p) => h[q] = fs[q]
  BY <1>1, AncestorsOf DEF Cleared, MkdirAll
<1>3. ~IsFile("none") /\ ~IsFile("dir")
  BY NodesDiffer DEF IsFile
<1>4. \A q \in Paths : IsFile(h[q]) => IsFile(fs[q])
  BY <1>2, <1>3
<1>5. \A r \in Present(c.wtree) : r \in Paths /\ r \notin Ancestors(p) /\ Ancestors(r) \subseteq Paths
  BY AncestorsOf DEF TreeOK, Present
<1>6. Replacing(h, left, c, {})
  BY <1>2, <1>4, <1>5 DEF Replacing
<1> QED
  BY <1>1, <1>2, <1>6, AncestorsOf

LEMMA ReplacingStores ==
  ASSUME NEW f, NEW left, NEW c, NoTemps(c.wtree), Replacing(f, left, c, {}),
         NEW t \in Temps, NEW h, \A q \in Paths \ {t} : h[q] = f[q]
  PROVE  Replacing(h, left, c, {t})
<1>1. \A r \in Present(c.wtree) : r \in Paths /\ r # t /\ \A q \in Ancestors(r) : q \in Paths /\ q # t
  BY AncestorsOf DEF NoTemps, Present
<1> QED
  BY <1>1 DEF Replacing

LEMMA ReplacingRenames ==
  ASSUME NEW f, IsWorkTree(f), NEW left, NEW c, NoTemps(c.wtree), TreeOK(c), IsCapturedTree(c.wtree),
         NEW t \in Temps, Replacing(f, left, c, {t}), NEW p \in Present(c.wtree), f[t] = c.wtree[p],
         NEW h, h = [f EXCEPT ![t] = "none", ![p] = f[t]]
  PROVE  Replacing(h, left \ {p}, c, {})
<1>1. t \in Paths /\ p \in Paths /\ p # t /\ c.wtree[p] \in Contents
  BY PathAssumption DEF Present, NoTemps, IsCapturedTree
<1>2. h[t] = "none" /\ h[p] = c.wtree[p] /\ \A q \in Paths \ {t, p} : h[q] = f[q]
  BY <1>1 DEF IsWorkTree
<1>3. \A r \in Present(c.wtree) : r \in Paths /\ r # t /\ \A q \in Ancestors(r) : q \in Paths /\ q # t /\ q # p
  BY AncestorsOf DEF NoTemps, Present, TreeOK
<1>4. c.wtree[p] # "dir" /\ ~IsFile("none")
  BY <1>1, NodesDiffer DEF IsFile
<1> QED
  BY <1>2, <1>3, <1>4 DEF Replacing

-----------------------------------------------------------------------------
(* A Restore that nobody disturbs.                                         *)

Smooth == ~edited /\ ~excused

\* What has been achieved at each step of it.
StageInv ==
  Smooth =>
    /\ result # "failed" /\ (op = "verify" => pc \in Reading)
    /\ pc \in Restoring \/ op = "verify" => Sound(Target)
    /\ pc \in {"remove", "replace", "temp", "rename", "lock"} => ~lock
    /\ pc = "remove" => Removing(fs, todo, Target)
    /\ pc \in {"replace", "temp"} => Replacing(fs, todo, Target, {})
    /\ pc \in {"temp", "rename"} => /\ fs[cur] = "none"
                                    /\ Parent[cur] = Root \/ fs[Parent[cur]] = "dir"
    /\ pc = "rename" => Replacing(fs, todo, Target, {Temp}) /\ fs[Temp] = Target.wtree[cur]
    /\ pc \in {"lock", "swap", "ref", "symref"} \/ op = "verify" =>
         treeFromIndex(Target.index.tree, fs) = Target.wtree
    /\ pc \in {"ref", "symref"} \/ op = "verify" => index = Target.index
    /\ pc = "symref" => Target.head.ref # "detached" /\ branches[Target.head.ref] = Target.head.commit
    /\ op = "verify" => [ref |-> HEAD.ref, commit |-> HeadCommit] = Target.head

LEMMA StageReturns ==
  ASSUME NEW how, Return(how), Smooth' => how # "failed"
  PROVE  StageInv'
BY DEF Return, StageInv, Restoring, Reading

\* What every step of the loops knows.
LEMMA StageFacts ==
  ASSUME EngineInv, RefInv, pc \in Restoring \/ op = "verify"
  PROVE  /\ Target \in checkpoint /\ IsCapturedTree(Target.wtree) /\ NoTemps(Target.wtree)
         /\ TreeOK(Target) /\ HeadOK(Target.head)
<1>1. checkpoint # {}
  BY DEF EngineInv
<1> QED
  BY <1>1, TargetIn DEF EngineInv, RefInv

\* No result before the end.
Unfinished == pc # "idle" => result = "none"

LEMMA NextUnfinished ==
  ASSUME FilesInv, Unfinished, [Next]_vars
  PROVE  Unfinished'
<1>1. CASE UNCHANGED vars
  BY <1>1 DEF vars, Unfinished
<1>2. CASE Edit
  BY <1>2, EditEdits DEF Editing, Unfinished
<1>3. CASE pc # "idle" /\ UNCHANGED result
  BY <1>3 DEF Unfinished
<1>4. CASE Calls \/ Returns
  BY <1>4 DEF Calls, CreateCheckpoint, Inspect, Restore, Call, Unfinished, Returns, PublishCheckpoint,
       Inspected, RefuseRestore, VerifyRestored, Crash, Return
<1>5. CASE Capture
  BY <1>3, <1>5 DEF Capture, ReadIndex, ReadStatus, ReadHead, WriteTrees, Capturing
<1>6. CASE Advances
  BY <1>3, <1>6 DEF Unfinished, Advances, BeginRestore, RemoveDone, ReplaceDone, LockIndex, SwapIndex,
       RestoreRef, SymbolicRef, DeleteRefFails, Recapture, Fails, Return
<1>7. CASE WriteTemp \/ RenameTarget \/ Fault
  BY <1>3, <1>7 DEF Unfinished, WriteTemp, RenameTarget, Fault, Fails, Return
<1>8. CASE \E p \in Paths : RemoveExtra(p) \/ ClearTarget(p)
  BY <1>3, <1>8 DEF Unfinished, RemoveExtra, ClearTarget, Fails, Return
<1> QED
  BY <1>1, <1>2, <1>4, <1>5, <1>6, <1>7, <1>8, EngineSplit DEF Quiet, Next

LEMMA BeginStage ==
  ASSUME EngineInv, FilesInv, ReadInv, Unfinished, BeginRestore
  PROVE  StageInv'
<1> SUFFICES ASSUME Smooth' PROVE StageInv'
  BY DEF StageInv
<1>1. /\ pc = "captured" /\ op = "restore" /\ pc' = "remove" /\ todo' = Extra /\ ~Refused
      /\ excused' = ~Restorable
      /\ UNCHANGED <<fs, index, lock, branches, HEAD, checkpoint, op, cap, cur, result, edited>>
  BY DEF BeginRestore, workspace, Calm
<1>2. ~edited /\ Restorable /\ result # "failed"
  BY <1>1 DEF Smooth, Unfinished
<1>3. Target' = Target
  BY <1>1 DEF Target
<1>4. cap.wtree = treeFromIndex(index.tree, fs)
  BY <1>1, <1>2 DEF ReadInv, Reading
<1>5. \A q \in Extra : q \in Paths /\ IsFile(fs[q])
  <2>1. \A q \in Extra : q \in Paths /\ treeFromIndex(index.tree, fs)[q] # "none"
    BY <1>4 DEF Extra, Present
  <2> QED
    BY <2>1 DEF treeFromIndex
<1>6. \A q \in Paths : IsFile(fs[q]) => q \in Extra \/ q \in Present(Target.wtree) \/ q \in Hidden(Target)
  BY <1>2 DEF Restorable, Extra, Hidden
<1>7. \A p \in Present(Target.wtree), q \in Paths :
        IsFile(fs[q]) /\ (q \in Ancestors(p) \/ q \in Under(p)) => q \in Extra
  BY <1>1 DEF Refused, preflightRestore
<1>8. Removing(fs, Extra, Target)
  BY <1>2, <1>5, <1>6, <1>7 DEF Removing, Restorable, NoEmptyDirectory
<1>9. Sound(Target) /\ ~lock
  BY <1>2 DEF Restorable
<1> QED
  BY <1>1, <1>2, <1>3, <1>8, <1>9 DEF StageInv

LEMMA RemoveStage ==
  ASSUME EngineInv, FilesInv, StageInv, NEW p \in Paths, RemoveExtra(p)
  PROVE  StageInv'
<1>1. pc = "remove" /\ p \in todo /\ UNCHANGED <<edited, excused>>
  BY DEF RemoveExtra, Deepest, Fails, Applying, Calm
<1> SUFFICES ASSUME Smooth' PROVE StageInv'
  BY DEF StageInv
<1>2. Smooth /\ Removing(fs, todo, Target) /\ op = "restore" /\ ~lock /\ Sound(Target) /\ result # "failed"
  BY <1>1 DEF Smooth, StageInv, EngineInv, Restoring
<1>3. IsFile(fs[p]) /\ fs[p] # "dir" /\ fs[p] # "none"
  BY <1>1, <1>2, NodesDiffer DEF Removing, IsFile
<1>4. ~FileAbove(p)
  <2>1. \A q \in Ancestors(p) : fs[q] = "dir"
    BY <1>3, AboveFiles DEF FilesInv
  <2> QED
    BY <2>1, NodesDiffer DEF FileAbove, IsFile
<1>5. /\ fs' = removeEmptyParents([fs EXCEPT ![p] = "none"], p) /\ todo' = todo \ {p}
      /\ UNCHANGED <<lock, pc, result, op, checkpoint>>
  BY <1>3, <1>4 DEF RemoveExtra, Applying
<1>6. Removing(fs', todo', Target)
  BY <1>1, <1>2, <1>5, RemovingGoesOn DEF FilesInv
<1>7. Target' = Target
  BY <1>5 DEF Target
<1> QED
  BY <1>1, <1>2, <1>5, <1>6, <1>7 DEF StageInv

LEMMA ClearStage ==
  ASSUME EngineInv, FilesInv, RefInv, StageInv, NEW p \in Paths, ClearTarget(p)
  PROVE  StageInv'
<1>1. pc = "replace" /\ p \in todo /\ UNCHANGED <<edited, excused>>
  BY DEF ClearTarget, Shallowest, Fails, Applying, Calm
<1> SUFFICES ASSUME Smooth' PROVE StageInv'
  BY DEF StageInv
<1>2. /\ Smooth /\ Replacing(fs, todo, Target, {}) /\ op = "restore" /\ ~lock /\ Sound(Target)
      /\ result # "failed" /\ p \in Present(Target.wtree)
  BY <1>1 DEF Smooth, StageInv, EngineInv, Restoring
<1>3. ~FileAbove(p) /\ Replaceable(p)
  BY <1>2 DEF Replacing, FileAbove, Replaceable
<1>4. /\ fs' = Cleared(p) /\ cur' = p /\ pc' = "temp" /\ UNCHANGED <<lock, todo, result, op, checkpoint>>
  BY <1>3 DEF ClearTarget, Applying
<1>5. TreeOK(Target)
  BY <1>1, StageFacts DEF Restoring
<1>6. Replacing(fs', todo, Target, {}) /\ fs'[p] = "none" /\ (Parent[p] = Root \/ fs'[Parent[p]] = "dir")
  BY <1>1, <1>2, <1>4, <1>5, ReplacingClears
<1>7. Target' = Target
  BY <1>4 DEF Target
<1> QED
  BY <1>2, <1>4, <1>6, <1>7 DEF StageInv

LEMMA WriteStage ==
  ASSUME EngineInv, FilesInv, RefInv, StageInv, WriteTemp
  PROVE  StageInv'
<1>1. pc = "temp" /\ UNCHANGED <<edited, excused>>
  BY DEF WriteTemp, Fails, Applying, Calm
<1> SUFFICES ASSUME Smooth' PROVE StageInv'
  BY DEF StageInv
<1>2. /\ Smooth /\ Replacing(fs, todo, Target, {}) /\ op = "restore" /\ ~lock /\ Sound(Target)
      /\ result # "failed" /\ fs[cur] = "none" /\ (Parent[cur] = Root \/ fs[Parent[cur]] = "dir")
  BY <1>1 DEF Smooth, StageInv, EngineInv, Restoring
<1>3. /\ fs' = [fs EXCEPT ![Temp] = Target.wtree[cur]] /\ pc' = "rename"
      /\ UNCHANGED <<lock, todo, cur, result, op, checkpoint>>
  BY <1>2 DEF WriteTemp, Applying
<1>4. cur \in Paths \ Temps /\ Target.wtree[cur] \in Contents /\ Temp \in Temps
  BY <1>1, Working
<1>5. NoTemps(Target.wtree)
  BY <1>1, StageFacts DEF Restoring
<1>6. /\ Replacing(fs', todo, Target, {Temp}) /\ fs'[Temp] = Target.wtree[cur]
      /\ \A q \in Paths \ Temps : fs'[q] = fs[q]
  <2>1. fs'[Temp] = Target.wtree[cur] /\ \A q \in Paths \ {Temp} : fs'[q] = fs[q]
    BY <1>3, <1>4, PathAssumption DEF FilesInv, IsWorkTree
  <2>2. Replacing(fs', todo, Target, {Temp})
    BY <1>2, <1>4, <1>5, <2>1, ReplacingStores
  <2> QED
    BY <1>4, <2>1, <2>2
<1>7. Parent[cur] # Root => Parent[cur] \in Paths \ Temps
  BY <1>4, PathAssumption, WorkTreeAssumption
<1>8. Target' = Target /\ Temp' = Temp
  BY <1>3 DEF Target, Temp
<1> QED
  BY <1>2, <1>3, <1>4, <1>6, <1>7, <1>8 DEF StageInv

LEMMA RenameStage ==
  ASSUME EngineInv, FilesInv, RefInv, StageInv, RenameTarget
  PROVE  StageInv'
<1>1. pc = "rename" /\ UNCHANGED <<edited, excused>>
  BY DEF RenameTarget, Fails, Applying, Calm
<1> SUFFICES ASSUME Smooth' PROVE StageInv'
  BY DEF StageInv
<1>2. /\ Smooth /\ Replacing(fs, todo, Target, {Temp}) /\ op = "restore" /\ ~lock /\ Sound(Target)
      /\ result # "failed" /\ fs[cur] = "none" /\ fs[Temp] = Target.wtree[cur] /\ cur \in Present(Target.wtree)
  BY <1>1 DEF Smooth, StageInv, EngineInv, Restoring
<1>3. cur \in Paths \ Temps /\ Target.wtree[cur] \in Contents /\ Temp \in Temps
  BY <1>1, Working
<1>4. /\ fs' = [fs EXCEPT ![Temp] = "none", ![cur] = fs[Temp]] /\ pc' = "replace" /\ todo' = todo \ {cur}
      /\ UNCHANGED <<lock, result, op, checkpoint>>
  BY <1>2, <1>3, NodesDiffer DEF RenameTarget, Applying
<1>5. NoTemps(Target.wtree) /\ TreeOK(Target) /\ IsCapturedTree(Target.wtree)
  BY <1>1, StageFacts DEF Restoring
<1>6. Replacing(fs', todo', Target, {})
  BY <1>2, <1>3, <1>4, <1>5, ReplacingRenames DEF FilesInv
<1>7. Target' = Target
  BY <1>4 DEF Target
<1> QED
  BY <1>2, <1>4, <1>6, <1>7 DEF StageInv

LEMMA LoopsDoneStage ==
  ASSUME EngineInv, FilesInv, RefInv, StageInv, RemoveDone \/ ReplaceDone
  PROVE  StageInv'
<1>1. /\ pc \in {"remove", "replace"} /\ todo = {}
      /\ UNCHANGED <<fs, lock, cur, result, op, checkpoint, edited, excused>>
  BY DEF RemoveDone, ReplaceDone, workspace, Applying, Calm
<1> SUFFICES ASSUME Smooth' PROVE StageInv'
  BY DEF StageInv
<1>2. Smooth /\ op = "restore" /\ ~lock /\ Sound(Target) /\ result # "failed"
  BY <1>1 DEF Smooth, StageInv, EngineInv, Restoring
<1>3. Target' = Target
  BY <1>1 DEF Target
<1>4. CASE RemoveDone
  <2>1. pc = "remove" /\ pc' = "replace" /\ todo' = Present(Target.wtree)
    BY <1>4 DEF RemoveDone
  <2>2. Removing(fs, {}, Target)
    BY <1>1, <1>2, <2>1 DEF StageInv
  <2>3. Replacing(fs, Present(Target.wtree), Target, {})
    BY <2>2, RemovingEnds DEF FilesInv
  <2> QED
    BY <1>1, <1>2, <1>3, <2>1, <2>3 DEF StageInv
<1>5. CASE ReplaceDone
  <2>1. pc = "replace" /\ pc' = "lock"
    BY <1>5 DEF ReplaceDone
  <2>2. Replacing(fs, {}, Target, {})
    BY <1>1, <1>2, <2>1 DEF StageInv
  <2>3. IsCapturedTree(Target.wtree) /\ TreeOK(Target)
    BY <2>1, StageFacts DEF Restoring
  <2>4. treeFromIndex(Target.index.tree, fs) = Target.wtree
    BY <2>2, <2>3, ReplacingEnds
  <2> QED
    BY <1>1, <1>2, <1>3, <2>1, <2>4 DEF StageInv
<1> QED
  BY <1>4, <1>5

LEMMA IndexStage ==
  ASSUME EngineInv, StageInv, LockIndex \/ SwapIndex
  PROVE  StageInv'
<1>1. pc \in {"lock", "swap"} /\ UNCHANGED <<fs, checkpoint, edited, excused>>
  BY DEF LockIndex, SwapIndex, Fails, workspace, Applying, Calm
<1> SUFFICES ASSUME Smooth' PROVE StageInv'
  BY DEF StageInv
<1>2. /\ Smooth /\ op = "restore" /\ (pc = "lock" => ~lock) /\ Sound(Target) /\ result # "failed"
      /\ treeFromIndex(Target.index.tree, fs) = Target.wtree
  BY <1>1 DEF Smooth, StageInv, EngineInv, Restoring
<1>3. Target' = Target
  BY <1>1 DEF Target
<1>4. CASE LockIndex
  <2>1. pc' = "swap" /\ UNCHANGED <<op, result>>
    BY <1>2, <1>4 DEF LockIndex, Applying
  <2> QED
    BY <1>1, <1>2, <1>3, <2>1 DEF StageInv
<1>5. CASE SwapIndex
  <2>1. pc' = "ref" /\ index' = Target.index /\ UNCHANGED <<op, result>>
    BY <1>5 DEF SwapIndex, Applying
  <2> QED
    BY <1>1, <1>2, <1>3, <2>1 DEF StageInv
<1> QED
  BY <1>4, <1>5

LEMMA HeadStage ==
  ASSUME EngineInv, RefInv, StageInv, RestoreRef \/ SymbolicRef
  PROVE  StageInv'
<1>1. pc \in {"ref", "symref"} /\ UNCHANGED <<fs, index, checkpoint, result, edited, excused>>
  BY DEF RestoreRef, SymbolicRef, Recapture, Applying, Calm
<1> SUFFICES ASSUME Smooth' PROVE StageInv'
  BY DEF StageInv
<1>2. /\ Smooth /\ op = "restore" /\ Sound(Target) /\ result # "failed"
      /\ treeFromIndex(Target.index.tree, fs) = Target.wtree /\ index = Target.index
  BY <1>1 DEF Smooth, StageInv, EngineInv, Restoring
<1>3. Target' = Target
  BY <1>1 DEF Target
<1>4. HeadOK(Target.head)
  BY <1>1, StageFacts DEF Restoring
<1>5. ASSUME Recapture, [ref |-> HEAD.ref, commit |-> HeadCommit]' = Target.head PROVE StageInv'
  <2>1. pc' = "index" /\ op' = "verify"
    BY <1>5 DEF Recapture
  <2> QED
    BY <1>1, <1>2, <1>3, <1>5, <2>1 DEF StageInv, Reading
<1>6. CASE RestoreRef /\ Target.head.ref = "detached"
  <2>1. Recapture /\ HEAD' = Target.head
    BY <1>6 DEF RestoreRef
  <2>2. [ref |-> HEAD.ref, commit |-> HeadCommit]' = Target.head
    BY <1>4, <1>6, <2>1 DEF HeadCommit, HeadOK
  <2> QED
    BY <1>5, <2>1, <2>2
<1>7. CASE RestoreRef /\ Target.head.ref # "detached"
  <2>1. /\ branches' = [branches EXCEPT ![Target.head.ref] = Target.head.commit]
        /\ pc' = "symref" /\ op' = op
    BY <1>7 DEF RestoreRef, Applying
  <2>2. branches'[Target.head.ref] = Target.head.commit
    BY <1>4, <1>7, <2>1 DEF HeadOK, RefInv
  <2> QED
    BY <1>1, <1>2, <1>3, <1>7, <2>1, <2>2 DEF StageInv
<1>8. CASE SymbolicRef
  <2>1. pc = "symref" /\ Recapture /\ HEAD' = [ref |-> Target.head.ref, commit |-> Unborn] /\ branches' = branches
    BY <1>8 DEF SymbolicRef
  <2>2. Target.head.ref # "detached" /\ branches[Target.head.ref] = Target.head.commit
    BY <1>2, <2>1 DEF StageInv
  <2>3. [ref |-> HEAD.ref, commit |-> HeadCommit]' = Target.head
    BY <1>4, <2>1, <2>2 DEF HeadCommit, HeadOK
  <2> QED
    BY <1>5, <2>1, <2>3
<1> QED
  BY <1>6, <1>7, <1>8

LEMMA VerifyStage ==
  ASSUME EngineInv, ReadInv, StageInv, VerifyRestored
  PROVE  StageInv'
<1>1. /\ pc = "captured" /\ op = "verify" /\ UNCHANGED <<edited, excused>>
      /\ Return(IF gitStateFingerprint(cap) = gitStateFingerprint(Target) THEN "ok" ELSE "failed")
  BY DEF VerifyRestored, Calm
<1>2. ASSUME Smooth PROVE gitStateFingerprint(cap) = gitStateFingerprint(Target)
  <2>1. /\ cap.index = index /\ cap.head = [ref |-> HEAD.ref, commit |-> HeadCommit]
        /\ cap.status = readStatus(HeadCommit, index.tree, treeFromIndex(index.tree, fs))
        /\ cap.wtree = treeFromIndex(index.tree, fs)
    BY <1>1, <1>2 DEF ReadInv, Reading, Smooth
  <2>2. /\ index = Target.index /\ [ref |-> HEAD.ref, commit |-> HeadCommit] = Target.head
        /\ treeFromIndex(Target.index.tree, fs) = Target.wtree /\ Sound(Target)
    BY <1>1, <1>2 DEF StageInv
  <2>3. HeadCommit = Target.head.commit
    BY <2>2
  <2>4. cap.status = Target.status
    BY <2>1, <2>2, <2>3 DEF Sound
  <2> QED
    BY <2>1, <2>2, <2>4 DEF gitStateFingerprint
<1>3. Smooth' => Smooth
  BY <1>1 DEF Smooth
<1> DEFINE how == IF gitStateFingerprint(cap) = gitStateFingerprint(Target) THEN "ok" ELSE "failed"
<1>4. Smooth' => how # "failed"
  BY <1>2, <1>3
<1>5. Return(how)
  BY <1>1
<1> HIDE DEF how
<1> QED
  BY <1>4, <1>5, StageReturns

LEMMA NextStage ==
  ASSUME EngineInv, FilesInv, RefInv, ReadInv, Unfinished, StageInv, [Next]_vars
  PROVE  StageInv'
<1>1. CASE UNCHANGED vars
  BY <1>1 DEF vars, workspace, StageInv, Smooth, Target, Temp, HeadCommit
<1>2. CASE Edit
  BY <1>2, EditEdits DEF Editing, StageInv, Smooth
<1>3. CASE Calls
  <2>1. pc' = "index" /\ op' # "verify" /\ result' = "none"
    BY <1>3 DEF Calls, CreateCheckpoint, Inspect, Restore, Call
  <2> QED
    BY <2>1 DEF StageInv, Restoring
<1>4. CASE Capture
  <2>1. /\ pc \in Reading /\ pc' \in Reading
        /\ UNCHANGED <<fs, index, lock, branches, HEAD, checkpoint, op, result, edited, excused>>
    BY <1>4 DEF Capture, ReadIndex, ReadStatus, ReadHead, WriteTrees, Capturing, Calm, workspace, Reading
  <2>2. Target' = Target /\ HeadCommit' = HeadCommit
    BY <2>1 DEF Target, HeadCommit
  <2>3. pc' \notin Restoring
    BY <2>1 DEF Reading, Restoring
  <2> QED
    BY <2>1, <2>2, <2>3 DEF StageInv, Smooth, Restoring
<1>5. CASE VerifyRestored
  BY <1>5, VerifyStage
<1>6. CASE PublishCheckpoint \/ Inspected
  BY <1>6, StageReturns DEF PublishCheckpoint, Inspected
<1>7. CASE RefuseRestore
  BY <1>7, StageReturns DEF RefuseRestore
<1>8. CASE Crash \/ Fault \/ DeleteRefFails
  <2>1. excused' = TRUE
    BY <1>8 DEF Crash, Fault, DeleteRefFails
  <2> QED
    BY <2>1 DEF StageInv, Smooth
<1>9. CASE Advances
  BY <1>8, <1>9, BeginStage, LoopsDoneStage, IndexStage, HeadStage DEF Advances
<1>10. CASE WriteTemp \/ RenameTarget
  BY <1>10, WriteStage, RenameStage
<1>11. ASSUME NEW p \in Paths, RemoveExtra(p) \/ ClearTarget(p) PROVE StageInv'
  BY <1>11, RemoveStage, ClearStage
<1> QED
  BY <1>1, <1>2, <1>3, <1>4, <1>5, <1>6, <1>7, <1>8, <1>9, <1>10, <1>11, EngineSplit DEF Quiet, Returns, Next

\* What preflightRestore lets through can be done: a Restore that has begun to remove files
\* runs to the end and is verified, unless a command fails, somebody edits meanwhile, or it
\* began in one of the states that Restorable names.  The loops of applyWorktreeRestore
\* cannot get in each other's way.
THEOREM PreflightIsEnough == Spec => []PreflightSuffices
<1> DEFINE Inv == EngineInv /\ FilesInv /\ RefInv /\ ReadInv /\ Unfinished /\ StageInv
<1>1. Init => Inv
  <2>1. Init => ReadInv /\ Unfinished /\ StageInv
    BY DEF Init, ReadInv, Unfinished, StageInv, Reading, Restoring
  <2> QED
    BY <2>1, InitEngine, InitRefs
<1>2. Inv /\ [Next]_vars => Inv'
  BY NextKeeps, NextRefs, NextReads, NextUnfinished, NextStage
<1>3. Inv => PreflightSuffices
  BY DEF StageInv, Smooth, PreflightSuffices
<1> QED
  BY <1>1, <1>2, <1>3, PTL DEF Spec
=============================================================================
