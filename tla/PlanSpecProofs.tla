--------------------------- MODULE PlanSpecProofs ---------------------------
(***************************************************************************)
(* Proofs about PlanSpec, for documents of any number of tasks with any    *)
(* keys and any dependencies.                                              *)
(***************************************************************************)
EXTENDS PlanSpec, FiniteSetTheorems, SequenceTheorems, NaturalsInduction, WellFoundedInduction, TLAPS

-----------------------------------------------------------------------------
(* What prepareSpec makes of a document.                                   *)

NormalKeys == {k \in RawKeys : Normal[k] = k}

Prepared(s) ==
  /\ s.tasks \in Seq([key : NormalKeys, dependsOn : SUBSET (NormalKeys \ {""})])
  /\ s.compat \in BOOLEAN

LEMMA Document ==
  ASSUME NEW r \in RawSpecs
  PROVE  /\ Len(r.tasks) \in Nat /\ DOMAIN r.tasks = 1..Len(r.tasks)
         /\ \A i \in DOMAIN r.tasks : /\ r.tasks[i].key \subseteq RawKeys
                                      /\ r.tasks[i].dependsOn \subseteq SUBSET RawKeys
                                      /\ DefaultKey[i] \in NormalKeys
<1> DEFINE Set == [key : SUBSET RawKeys, dependsOn : SUBSET SUBSET RawKeys]
<1>1. r.tasks \in Seq(Set) /\ 1..Len(r.tasks) + 1 \subseteq DOMAIN DefaultKey
  BY DocumentAssumption
<1>2. \A t \in Set : t.key \subseteq RawKeys /\ t.dependsOn \subseteq SUBSET RawKeys
  OBVIOUS
<1> HIDE DEF Set
<1>3. /\ Len(r.tasks) \in Nat /\ DOMAIN r.tasks = 1..Len(r.tasks)
      /\ \A i \in DOMAIN r.tasks : r.tasks[i] \in Set
  BY <1>1, ElementOfSeq, LenProperties
<1>4. \A i \in 1..Len(r.tasks) : i \in DOMAIN DefaultKey
  BY <1>1, <1>3
<1>5. \A i \in DOMAIN DefaultKey : DefaultKey[i] \in NormalKeys
  BY PlanSpecAssumption DEF NormalKeys
<1> QED
  BY <1>2, <1>3, <1>4, <1>5

LEMMA PreparedKeyNormal ==
  ASSUME NEW r \in RawSpecs, NEW i \in DOMAIN r.tasks
  PROVE  PreparedKey(r, i) \in NormalKeys
<1>1. /\ r.tasks[i].key \subseteq RawKeys /\ DefaultKey[i] \in NormalKeys
  BY Document
<1>2. Text(r.tasks[i].key) \in RawKeys
  BY <1>1, PlanSpecAssumption DEF Text
<1>3. \A k \in RawKeys : Normal[k] \in NormalKeys
  BY PlanSpecAssumption DEF NormalKeys
<1> QED
  BY <1>1, <1>2, <1>3 DEF PreparedKey

LEMMA PreparedDependsOnNormal ==
  ASSUME NEW r \in RawSpecs, NEW i \in DOMAIN r.tasks
  PROVE  PreparedDependsOn(r, i) \subseteq NormalKeys \ {""}
<1> DEFINE field == r.tasks[i].dependsOn
<1>1. /\ field \subseteq SUBSET RawKeys /\ Len(r.tasks) \in Nat /\ DOMAIN r.tasks = 1..Len(r.tasks)
  BY Document
<1>2. \A k \in RawKeys : Normal[k] \in NormalKeys
  BY PlanSpecAssumption DEF NormalKeys
<1>3. {Normal[k] : k \in UNION field} \subseteq NormalKeys
  BY <1>1, <1>2
<1>4. i # 1 => PreparedKey(r, i - 1) \in NormalKeys
  <2>1. i # 1 => i - 1 \in DOMAIN r.tasks
    BY <1>1
  <2> QED
    BY <2>1, PreparedKeyNormal
<1> HIDE DEF field
<1> QED
  BY <1>3, <1>4 DEF PreparedDependsOn, field

LEMMA SpecPrepared ==
  ASSUME NEW r \in RawSpecs
  PROVE  Prepared(prepareSpec(r)) /\ Len(prepareSpec(r).tasks) = Len(r.tasks)
<1>1. /\ Len(r.tasks) \in Nat /\ DOMAIN r.tasks = 1..Len(r.tasks)
  BY Document
<1> DEFINE Task(i) == [key |-> PreparedKey(r, i), dependsOn |-> PreparedDependsOn(r, i)]
           Set == [key : NormalKeys, dependsOn : SUBSET (NormalKeys \ {""})]
<1>2. prepareSpec(r).tasks = [i \in DOMAIN r.tasks |-> Task(i)]
  BY DEF prepareSpec
<1>3. \A i \in DOMAIN r.tasks : Task(i) \in Set
  BY PreparedKeyNormal, PreparedDependsOnNormal
<1> HIDE DEF Task, Set
<1>4. /\ prepareSpec(r).tasks \in [1..Len(r.tasks) -> Set]
  BY <1>1, <1>2, <1>3
<1>5. prepareSpec(r).tasks \in Seq(Set) /\ Len(prepareSpec(r).tasks) = Len(r.tasks)
  BY <1>1, <1>4, SeqDef, LenProperties
<1>6. prepareSpec(r).compat \in BOOLEAN
  BY DEF prepareSpec, Compatibility
<1> QED
  BY <1>5, <1>6 DEF Prepared, Set

LEMMA PreparedTasks ==
  ASSUME NEW s, Prepared(s)
  PROVE  /\ Len(s.tasks) \in Nat /\ DOMAIN s.tasks = 1..Len(s.tasks)
         /\ \A i \in DOMAIN s.tasks : /\ s.tasks[i].key \in NormalKeys
                                      /\ s.tasks[i].dependsOn \subseteq NormalKeys \ {""}
<1> DEFINE Set == [key : NormalKeys, dependsOn : SUBSET (NormalKeys \ {""})]
<1>1. s.tasks \in Seq(Set)
  BY DEF Prepared
<1>2. \A t \in Set : t.key \in NormalKeys /\ t.dependsOn \subseteq NormalKeys \ {""}
  OBVIOUS
<1> HIDE DEF Set
<1>3. /\ Len(s.tasks) \in Nat /\ DOMAIN s.tasks = 1..Len(s.tasks)
      /\ \A i \in DOMAIN s.tasks : s.tasks[i] \in Set
  BY <1>1, ElementOfSeq, LenProperties
<1> QED
  BY <1>2, <1>3

\* What is stored is read back as it was.
LEMMA ReadsBack ==
  ASSUME NEW r \in RawSpecs, Sound(prepareSpec(r))
  PROVE  prepareSpec(MarshalJSON(prepareSpec(r))) = prepareSpec(r)
<1> DEFINE s == prepareSpec(r)
           m == MarshalJSON(s)
<1>1. Prepared(s) /\ s.version = 2
  BY SpecPrepared DEF Sound
<1>2. s = [version |-> s.version, compat |-> s.compat, complete |-> s.complete, tasks |-> s.tasks]
  BY DEF prepareSpec
<1>3. s.tasks = [i \in DOMAIN s.tasks |-> [key |-> s.tasks[i].key, dependsOn |-> s.tasks[i].dependsOn]]
  BY DEF prepareSpec
<1>4. \A i \in DOMAIN s.tasks : s.tasks[i].key # ""
  BY DEF Sound
<1> HIDE DEF s
<1>5. /\ m.version = s.version /\ m.compat = {s.compat} /\ m.legacy = FALSE /\ m.complete = s.complete
      /\ DOMAIN m.tasks = DOMAIN s.tasks
      /\ \A i \in DOMAIN s.tasks : /\ m.tasks[i].key = {s.tasks[i].key}
                                   /\ m.tasks[i].dependsOn = {s.tasks[i].dependsOn}
  BY DEF MarshalJSON
<1> HIDE DEF m
<1>6. Compatibility(m) = s.compat
  <2>1. s.compat = TRUE \/ s.compat = FALSE
    BY <1>1 DEF Prepared
  <2>2. m.version \notin {0, 1}
    BY <1>1, <1>5
  <2>3. \A i \in DOMAIN m.tasks : m.tasks[i].key # {} /\ m.tasks[i].dependsOn # {}
    BY <1>5
  <2>4. CASE s.compat = TRUE
    <3>1. m.compat # {FALSE}
      BY <1>5, <2>4
    <3>2. Compatibility(m)
      BY <3>1 DEF Compatibility
    <3> QED
      BY <2>4, <3>2 DEF Compatibility
  <2>5. CASE s.compat = FALSE
    <3>1. m.compat = {FALSE} /\ ~m.legacy
      BY <1>5, <2>5
    <3>2. ~Compatibility(m)
      BY <2>2, <2>3, <3>1 DEF Compatibility
    <3> QED
      BY <2>5, <3>2 DEF Compatibility
  <2> QED
    BY <2>1, <2>4, <2>5
<1>7. ASSUME NEW i \in DOMAIN s.tasks
      PROVE  PreparedKey(m, i) = s.tasks[i].key /\ PreparedDependsOn(m, i) = s.tasks[i].dependsOn
  <2>1. /\ s.tasks[i].key \in NormalKeys /\ s.tasks[i].dependsOn \subseteq NormalKeys \ {""}
    BY <1>1, PreparedTasks
  <2>2. Text(m.tasks[i].key) = s.tasks[i].key
    BY <1>5 DEF Text
  <2>3. PreparedKey(m, i) = s.tasks[i].key
    BY <1>4, <2>1, <2>2 DEF PreparedKey, NormalKeys
  <2>4. {Normal[k] : k \in UNION {s.tasks[i].dependsOn}} = s.tasks[i].dependsOn
    <3>1. UNION {s.tasks[i].dependsOn} = s.tasks[i].dependsOn
      OBVIOUS
    <3>2. \A k \in s.tasks[i].dependsOn : Normal[k] = k
      BY <2>1 DEF NormalKeys
    <3> QED
      BY <3>1, <3>2
  <2>5. PreparedDependsOn(m, i) = s.tasks[i].dependsOn
    BY <1>5, <2>1, <2>4 DEF PreparedDependsOn
  <2> QED
    BY <2>3, <2>5
<1>8. [i \in DOMAIN m.tasks |-> [key |-> PreparedKey(m, i), dependsOn |-> PreparedDependsOn(m, i)]] = s.tasks
  BY <1>3, <1>5, <1>7
<1> QED
  BY <1>1, <1>2, <1>5, <1>6, <1>8 DEF prepareSpec, s, m

-----------------------------------------------------------------------------
(* Keys of a sound spec.                                                   *)

LEMMA IndexOfKey ==
  ASSUME NEW s, Prepared(s), Sound(s), NEW i \in DOMAIN s.tasks
  PROVE  IndexOf(s, s.tasks[i].key) = i
<1> DEFINE P(j) == s.tasks[j].key = s.tasks[i].key /\ \A l \in 1..j - 1 : s.tasks[l].key # s.tasks[i].key
<1>1. Len(s.tasks) \in Nat /\ DOMAIN s.tasks = 1..Len(s.tasks)
  BY PreparedTasks
<1>2. \A j \in DOMAIN s.tasks : s.tasks[j].key = s.tasks[i].key => j = i
  BY DEF Sound
<1>3. P(i)
  BY <1>1, <1>2
<1>4. IndexOf(s, s.tasks[i].key) = CHOOSE j \in DOMAIN s.tasks : P(j)
  BY DEF IndexOf
<1>5. \A j \in DOMAIN s.tasks : P(j) => j = i
  BY <1>2
<1> HIDE DEF P
<1> QED
  BY <1>3, <1>4, <1>5

LEMMA DependsOnKey ==
  ASSUME NEW s, Prepared(s), Sound(s), NEW k \in Keys(s)
  PROVE  /\ IndexOf(s, k) \in DOMAIN s.tasks /\ s.tasks[IndexOf(s, k)].key = k
         /\ DependsOn(s, k) \subseteq Keys(s) \ {k}
<1>1. PICK i \in DOMAIN s.tasks : s.tasks[i].key = k
  BY DEF Keys
<1>2. IndexOf(s, k) = i
  BY <1>1, IndexOfKey
<1> QED
  BY <1>1, <1>2 DEF DependsOn, Sound

-----------------------------------------------------------------------------
(* Types.                                                                  *)

\* The document has passed ValidateProblems; its rows are stored.
Usable == {"order", "save_failed", "saved", "completed"}
Stored == {"saved", "completed"}

TypeInv ==
  /\ raw \in RawSpecs
  /\ pc \in {"raw", "cycle", "rejected"} \cup Usable
  /\ spec = IF pc = "raw" THEN NoSpec ELSE prepareSpec(raw)
  /\ stack \in Seq(Keys(spec)) /\ order \in Seq(Keys(spec))
  /\ pc # "raw" => color \in [Keys(spec) -> 0..2]
  /\ pc = "raw" => stack = <<>>
  /\ pc \notin Usable => order = <<>>
  /\ pc \notin Stored => rows = <<>> /\ done = <<>>
  /\ pc \in Usable => Sound(spec)

LEMMA InitTypes == Init => TypeInv
BY DEF Init, TypeInv, Usable, Stored

LEMMA SpecFixed == ASSUME TypeInv, pc # "raw" PROVE Prepared(spec)
BY SpecPrepared DEF TypeInv

\* A key that is pushed.
LEMMA PushTypes ==
  ASSUME TypeInv, pc = "cycle", NEW k \in Keys(spec), Push(k),
         UNCHANGED <<raw, spec, pc, indegree, order, rows, done>>
  PROVE  TypeInv'
<1>1. color' \in [Keys(spec) -> 0..2]
  BY DEF TypeInv, Push
<1>2. stack' \in Seq(Keys(spec))
  BY AppendProperties DEF TypeInv, Push
<1>3. Keys(spec)' = Keys(spec)
  BY DEF Keys
<1> QED
  BY <1>1, <1>2, <1>3 DEF TypeInv, Usable, Stored

LEMMA TopKey == ASSUME TypeInv, stack # <<>>
                PROVE  Top \in Keys(spec) /\ Len(stack) \in Nat \ {0} /\ Len(stack) \in 1..Len(stack)
<1>1. stack \in Seq(Keys(spec))
  BY DEF TypeInv
<1>2. Len(stack) \in Nat \ {0}
  BY <1>1, EmptySeq, LenProperties
<1>3. Len(stack) \in 1..Len(stack)
  BY <1>2
<1> QED
  BY <1>1, <1>2, <1>3, ElementOfSeq DEF Top

LEMMA LeaveTypes == ASSUME TypeInv, Leave PROVE TypeInv'
<1>1. Top \in Keys(spec) /\ Len(stack) \in Nat \ {0} /\ color' = [color EXCEPT ![Top] = 2]
  BY TopKey DEF Leave
<1>2. color' \in [Keys(spec) -> 0..2]
  BY <1>1 DEF TypeInv, Leave
<1>3. stack' \in Seq(Keys(spec))
  <2>1. stack \in Seq(Keys(spec)) /\ stack' = SubSeq(stack, 1, Len(stack) - 1)
    BY DEF TypeInv, Leave
  <2>2. \A i \in 1..Len(stack) - 1 : stack[i] \in Keys(spec)
    BY <1>1, <2>1, ElementOfSeq
  <2> QED
    BY <1>1, <2>1, <2>2, SubSeqProperties
<1>4. Keys(spec)' = Keys(spec) /\ UNCHANGED <<raw, spec, pc, order, rows, done>> /\ pc = "cycle"
  BY DEF Keys, Leave
<1> QED
  BY <1>2, <1>3, <1>4 DEF TypeInv, Usable, Stored

LEMMA PlaceTypes == ASSUME TypeInv, Place PROVE TypeInv'
<1>1. PICK i \in DOMAIN spec.tasks : order' = Append(order, spec.tasks[i].key)
  BY DEF Place, Ready
<1>2. spec.tasks[i].key \in Keys(spec)
  BY DEF Keys
<1>3. order' \in Seq(Keys(spec))
  BY <1>1, <1>2, AppendProperties DEF TypeInv
<1>4. Keys(spec)' = Keys(spec) /\ UNCHANGED <<raw, spec, pc, color, stack, rows, done>> /\ pc = "order"
  BY DEF Keys, Place
<1> QED
  BY <1>3, <1>4 DEF TypeInv, Usable, Stored

LEMMA NextTypes == ASSUME TypeInv, [Next]_vars PROVE TypeInv'
<1>1. CASE Parse
  <2>1. /\ pc = "raw" /\ pc' = "cycle" /\ spec' = prepareSpec(raw) /\ stack = <<>> /\ order = <<>>
        /\ color' = [k \in Keys(spec') |-> 0]
        /\ UNCHANGED <<raw, stack, order, rows, done>>
    BY <1>1 DEF Parse, TypeInv, Usable
  <2>2. color' \in [Keys(spec') -> 0..2]
    BY <2>1
  <2>3. Keys(spec)' = Keys(spec')
    BY DEF Keys
  <2> QED
    BY <2>1, <2>2, <2>3 DEF TypeInv, Usable, Stored
<1>2. CASE VisitRoot
  <2>1. PICK i \in DOMAIN spec.tasks : Push(spec.tasks[i].key)
    BY <1>2 DEF VisitRoot, Roots
  <2>2. spec.tasks[i].key \in Keys(spec)
    BY DEF Keys
  <2> QED
    BY <1>2, <2>1, <2>2, PushTypes DEF VisitRoot
<1>3. CASE VisitDependency
  <2>1. PICK d \in Keys(spec) : Push(d)
    BY <1>3 DEF VisitDependency, Followed
  <2> QED
    BY <1>3, <2>1, PushTypes DEF VisitDependency
<1>4. CASE FindCycle
  BY <1>4 DEF FindCycle, TypeInv, Usable, Stored, Keys
<1>5. CASE Leave
  BY <1>5, LeaveTypes
<1>6. CASE Validate
  BY <1>6 DEF Validate, TypeInv, Usable, Stored, Keys
<1>7. CASE Place
  BY <1>7, PlaceTypes
<1>8. CASE SaveGeneratedPlan
  BY <1>8 DEF SaveGeneratedPlan, TypeInv, Usable, Stored, Keys
<1>9. CASE RunTask
  BY <1>9 DEF RunTask, TypeInv, Usable, Stored, Keys
<1>10. CASE CompletePlan
  BY <1>10 DEF CompletePlan, TypeInv, Usable, Stored, Keys
<1>11. CASE UNCHANGED vars
  BY <1>11 DEF vars, TypeInv, Keys
<1> QED
  BY <1>1, <1>2, <1>3, <1>4, <1>5, <1>6, <1>7, <1>8, <1>9, <1>10, <1>11 DEF Next

\* The stored plan reads back as it was saved (StoredSpecReadsBack): marshalling
\* writes every field, and prepareSpec leaves alone what it has prepared before.
THEOREM StoredPlansReadBack == Spec => []StoredSpecReadsBack
<1>1. TypeInv => StoredSpecReadsBack
  BY ReadsBack DEF TypeInv, StoredSpecReadsBack, Usable
<1> QED
  BY <1>1, InitTypes, NextTypes, PTL DEF Spec

-----------------------------------------------------------------------------
(* The depth-first search.                                                 *)

Left == {k \in Keys(spec) : color[k] = 2}

\* The keys on the stack are those with color 1, each there once, and each is a
\* dependency of the one below it.
StackIsPath ==
  /\ \A k \in Keys(spec) : color[k] = 1 <=> \E n \in 1..Len(stack) : stack[n] = k
  /\ \A m, n \in 1..Len(stack) : stack[m] = stack[n] => m = n
  /\ \A n \in 1..Len(stack) - 1 : stack[n + 1] \in Followed(stack[n])

\* Whatever was left depends only on what was left, and there is no cycle in it:
\* some key of any set of such keys depends on none of the set.
LeftInOrder ==
  /\ \A k \in Left : Followed(k) \subseteq Left
  /\ \A T \in SUBSET Left : T # {} => \E k \in T : \A d \in T : d \notin Followed(k)

SearchInv == pc = "cycle" => StackIsPath /\ LeftInOrder

LEMMA SameFollowed == ASSUME UNCHANGED spec
                      PROVE  Keys(spec)' = Keys(spec) /\ \A k : Followed(k)' = Followed(k)
BY DEF Keys, Followed, DependsOn, IndexOf

LEMMA PushSearch ==
  ASSUME TypeInv, StackIsPath, LeftInOrder, pc = "cycle",
         NEW k \in Keys(spec), color[k] = 0, stack # <<>> => k \in Followed(Top),
         Push(k), UNCHANGED spec
  PROVE  StackIsPath' /\ LeftInOrder'
<1>1. /\ stack \in Seq(Keys(spec)) /\ Len(stack) \in Nat /\ color \in [Keys(spec) -> 0..2]
  BY LenProperties DEF TypeInv
<1>2. /\ Len(stack') = Len(stack) + 1 /\ stack'[Len(stack) + 1] = k
      /\ \A n \in 1..Len(stack) : stack'[n] = stack[n]
      /\ stack' = Append(stack, k)
  BY <1>1, AppendProperties DEF Push
<1>3. /\ color'[k] = 1 /\ \A l \in Keys(spec) \ {k} : color'[l] = color[l]
  BY <1>1 DEF Push
<1>4. \A n \in 1..Len(stack) : stack[n] # k /\ stack[n] \in Keys(spec)
  <2>1. \A n \in 1..Len(stack) : stack[n] \in Keys(spec)
    BY <1>1, ElementOfSeq
  <2>2. \A n \in 1..Len(stack) : color[stack[n]] = 1
    BY <2>1 DEF StackIsPath
  <2> QED
    BY <2>1, <2>2
<1>5. \A n \in 1..Len(stack') : n \in 1..Len(stack) \/ n = Len(stack) + 1
  BY <1>1, <1>2
<1>6. Len(stack) + 1 \in 1..Len(stack') /\ \A n \in 1..Len(stack) : n \in 1..Len(stack')
  BY <1>1, <1>2
<1>7. \A l \in Keys(spec) : color'[l] = 1 <=> \E n \in 1..Len(stack') : stack'[n] = l
  <2>1. ASSUME NEW l \in Keys(spec), l # k
        PROVE  color'[l] = 1 <=> \E n \in 1..Len(stack') : stack'[n] = l
    <3>1. color'[l] = 1 <=> \E n \in 1..Len(stack) : stack[n] = l
      BY <1>3, <2>1 DEF StackIsPath
    <3> QED
      BY <1>2, <1>5, <1>6, <2>1, <3>1
  <2> QED
    BY <1>2, <1>3, <1>6, <2>1
<1>8. \A m, n \in 1..Len(stack') : stack'[m] = stack'[n] => m = n
  BY <1>2, <1>4, <1>5 DEF StackIsPath
<1>9. ASSUME NEW n \in 1..Len(stack') - 1 PROVE stack'[n + 1] \in Followed(stack'[n])
  <2>1. CASE n \in 1..Len(stack) - 1
    <3>1. n \in 1..Len(stack) /\ n + 1 \in 1..Len(stack)
      BY <1>1, <2>1
    <3> QED
      BY <1>2, <2>1, <3>1 DEF StackIsPath
  <2>2. CASE n = Len(stack)
    <3>1. n \in 1..Len(stack) /\ stack # <<>>
      BY <1>1, <1>2, <2>2
    <3> QED
      BY <1>2, <2>2, <3>1 DEF Top
  <2> QED
    BY <1>1, <1>2, <2>1, <2>2
<1>10. {l \in Keys(spec) : color'[l] = 2} = Left
  BY <1>3 DEF Left
<1>11. StackIsPath'
  BY <1>7, <1>8, <1>9, SameFollowed DEF StackIsPath
<1>12. Left' = Left
  BY <1>10, SameFollowed DEF Left
<1>13. LeftInOrder'
  BY <1>12, SameFollowed DEF LeftInOrder
<1> QED
  BY <1>11, <1>13

LEMMA LeaveSearch ==
  ASSUME TypeInv, StackIsPath, LeftInOrder, Leave
  PROVE  StackIsPath' /\ LeftInOrder'
<1>1. /\ stack \in Seq(Keys(spec)) /\ color \in [Keys(spec) -> 0..2] /\ UNCHANGED spec
      /\ stack # <<>> /\ \A d \in Followed(Top) : color[d] = 2
  BY DEF TypeInv, Leave
<1>2. /\ Top \in Keys(spec) /\ Len(stack) \in Nat \ {0} /\ Len(stack) \in 1..Len(stack)
  BY <1>1, TopKey
<1>3. /\ Len(stack') = Len(stack) - 1
      /\ \A n \in 1..Len(stack) - 1 : stack'[n] = stack[n]
  <2>1. \A i \in 1..Len(stack) - 1 : stack[i] \in Keys(spec)
    BY <1>1, <1>2, ElementOfSeq
  <2>2. stack' = SubSeq(stack, 1, Len(stack) - 1)
    BY DEF Leave
  <2>3. 1 \in Int /\ Len(stack) - 1 \in Int
    BY <1>2
  <2>4. /\ Len(stack') = IF 1 <= Len(stack) - 1 THEN Len(stack) - 1 - 1 + 1 ELSE 0
        /\ \A i \in 1..Len(stack) - 1 - 1 + 1 : stack'[i] = stack[1 + i - 1]
    BY <2>1, <2>2, <2>3, SubSeqProperties
  <2>5. Len(stack') = Len(stack) - 1
    <3>1. \A n \in Nat \ {0} : (IF 1 <= n - 1 THEN n - 1 - 1 + 1 ELSE 0) = n - 1
      OBVIOUS
    <3> QED
      BY <1>2, <2>4, <3>1, Zenon
  <2>6. ASSUME NEW n \in 1..Len(stack) - 1 PROVE stack'[n] = stack[n]
    <3>1. n \in 1..Len(stack) - 1 - 1 + 1 /\ 1 + n - 1 = n
      BY <1>2
    <3> QED
      BY <2>4, <3>1
  <2> QED
    BY <2>5, <2>6
<1>4. color'[Top] = 2 /\ \A l \in Keys(spec) \ {Top} : color'[l] = color[l]
  BY <1>1, <1>2 DEF Leave
<1>5. \A n \in 1..Len(stack) : n \in 1..Len(stack') \/ (n = Len(stack) /\ stack[n] = Top)
  BY <1>2, <1>3 DEF Top
<1>6. \A n \in 1..Len(stack') : n \in 1..Len(stack) /\ stack'[n] = stack[n] /\ n # Len(stack)
  BY <1>2, <1>3
<1>7. \A n \in 1..Len(stack') : stack'[n] # Top
  BY <1>2, <1>6 DEF StackIsPath, Top
<1>8. \A l \in Keys(spec) : color'[l] = 1 <=> \E n \in 1..Len(stack') : stack'[n] = l
  <2>1. ASSUME NEW l \in Keys(spec), l # Top
        PROVE  color'[l] = 1 <=> \E n \in 1..Len(stack') : stack'[n] = l
    <3>1. color'[l] = 1 <=> \E n \in 1..Len(stack) : stack[n] = l
      BY <1>4, <2>1 DEF StackIsPath
    <3> QED
      BY <1>5, <1>6, <2>1, <3>1
  <2> QED
    BY <1>4, <1>7, <2>1
<1>9. \A m, n \in 1..Len(stack') : stack'[m] = stack'[n] => m = n
  BY <1>6 DEF StackIsPath
<1>10. ASSUME NEW n \in 1..Len(stack') - 1 PROVE stack'[n + 1] \in Followed(stack'[n])
  <2>1. n \in 1..Len(stack) - 1 /\ n \in 1..Len(stack') /\ n + 1 \in 1..Len(stack')
    BY <1>2, <1>3
  <2> QED
    BY <1>6, <2>1 DEF StackIsPath
<1>11. StackIsPath'
  BY <1>1, <1>8, <1>9, <1>10, SameFollowed DEF StackIsPath
<1>12. Left' = Left \cup {Top} /\ Top \notin Left
  <2>1. color[Top] = 1
    BY <1>2 DEF StackIsPath, Top
  <2>2. {l \in Keys(spec) : color'[l] = 2} = Left \cup {Top}
    BY <1>2, <1>4 DEF Left
  <2> QED
    BY <1>1, <2>1, <2>2, SameFollowed DEF Left
<1>13. Followed(Top) \subseteq Left
  BY <1>1 DEF Left, Followed
<1>14. \A k \in Left \cup {Top} : Followed(k) \subseteq Left \cup {Top}
  BY <1>13 DEF LeftInOrder
<1>15. ASSUME NEW T \in SUBSET (Left \cup {Top}), T # {}
       PROVE  \E k \in T : \A d \in T : d \notin Followed(k)
  <2>1. CASE T \subseteq {Top}
    <3>1. Top \notin Followed(Top)
      BY DEF Followed
    <3> QED
      BY <1>15, <2>1, <3>1
  <2>2. CASE ~(T \subseteq {Top})
    <3>1. T \ {Top} \in SUBSET Left /\ T \ {Top} # {}
      BY <1>15, <2>2
    <3>2. PICK k \in T \ {Top} : \A d \in T \ {Top} : d \notin Followed(k)
      BY <3>1 DEF LeftInOrder
    <3>3. Top \notin Followed(k)
      BY <1>12, <3>1, <3>2 DEF LeftInOrder
    <3> QED
      BY <3>2, <3>3
  <2> QED
    BY <2>1, <2>2
<1>16. LeftInOrder'
  BY <1>1, <1>12, <1>14, <1>15, SameFollowed DEF LeftInOrder
<1> QED
  BY <1>11, <1>16

LEMMA NextSearch == ASSUME TypeInv, SearchInv, [Next]_vars PROVE SearchInv'
<1> SUFFICES ASSUME pc' = "cycle" PROVE StackIsPath' /\ LeftInOrder'
  BY DEF SearchInv
<1>1. CASE Parse
  <2>1. /\ color' = [k \in Keys(spec') |-> 0] /\ stack' = <<>>
    BY <1>1 DEF Parse, TypeInv
  <2>2. Keys(spec)' = Keys(spec')
    BY DEF Keys
  <2>3. StackIsPath'
    BY <2>1, <2>2 DEF StackIsPath
  <2>4. Left' = {}
    BY <2>1, <2>2 DEF Left
  <2> QED
    BY <2>3, <2>4 DEF LeftInOrder
<1>2. CASE VisitRoot
  <2>1. PICK i \in Roots : Push(spec.tasks[i].key)
    BY <1>2 DEF VisitRoot
  <2>2. /\ spec.tasks[i].key \in Keys(spec) /\ color[spec.tasks[i].key] = 0
    BY DEF Keys, Roots
  <2> QED
    BY <1>2, <2>1, <2>2, PushSearch DEF VisitRoot, SearchInv
<1>3. CASE VisitDependency
  <2>1. PICK d \in Followed(Top) : color[d] = 0 /\ Push(d)
    BY <1>3 DEF VisitDependency
  <2>2. d \in Keys(spec)
    BY DEF Followed
  <2> QED
    BY <1>3, <2>1, <2>2, PushSearch DEF VisitDependency, SearchInv
<1>4. CASE Leave
  BY <1>4, LeaveSearch DEF SearchInv, Leave
<1>5. CASE UNCHANGED vars
  <2>1. UNCHANGED <<spec, color, stack, pc>>
    BY <1>5 DEF vars
  <2>2. Left' = Left
    BY <2>1, SameFollowed DEF Left
  <2> QED
    BY <2>1, <2>2, SameFollowed DEF SearchInv, StackIsPath, LeftInOrder
<1>6. CASE FindCycle \/ Validate \/ Place \/ SaveGeneratedPlan \/ RunTask \/ CompletePlan
  BY <1>6 DEF FindCycle, Validate, Place, SaveGeneratedPlan, RunTask, CompletePlan
<1> QED
  BY <1>1, <1>2, <1>3, <1>4, <1>5, <1>6 DEF Next

-----------------------------------------------------------------------------
(* The verdict.                                                            *)

\* On a sound spec the search sees all dependencies.
LEMMA FollowedAll ==
  ASSUME Prepared(spec), Sound(spec), NEW i \in DOMAIN spec.tasks
  PROVE  Followed(spec.tasks[i].key) = spec.tasks[i].dependsOn
<1>1. IndexOf(spec, spec.tasks[i].key) = i
  BY IndexOfKey
<1>2. spec.tasks[i].key \notin spec.tasks[i].dependsOn /\ spec.tasks[i].dependsOn \subseteq Keys(spec)
  BY DEF Sound
<1> QED
  BY <1>1, <1>2 DEF Followed, DependsOn

\* Nothing is left to visit: there is no cycle.
LEMMA SearchedOrderable ==
  ASSUME Prepared(spec), Sound(spec), LeftInOrder, Keys(spec) \subseteq Left
  PROVE  Orderable(spec)
<1> SUFFICES ASSUME NEW S \in SUBSET DOMAIN spec.tasks, S # {}
             PROVE  \E i \in S : \A j \in S : spec.tasks[j].key \notin spec.tasks[i].dependsOn
  BY DEF Orderable
<1> DEFINE T == {spec.tasks[i].key : i \in S}
<1>1. T \in SUBSET Left /\ T # {}
  BY DEF Keys
<1>2. PICK k \in T : \A d \in T : d \notin Followed(k)
  BY <1>1 DEF LeftInOrder
<1>3. PICK i \in S : k = spec.tasks[i].key
  BY <1>2
<1>4. Followed(k) = spec.tasks[i].dependsOn
  BY <1>3, FollowedAll
<1> QED
  BY <1>2, <1>3, <1>4

\* A dependency on the stack: there is one.
LEMMA CycleNotOrderable ==
  ASSUME TypeInv, Prepared(spec), Sound(spec), StackIsPath, stack # <<>>,
         NEW d \in Followed(Top), color[d] = 1
  PROVE  ~Orderable(spec)
<1>1. /\ stack \in Seq(Keys(spec)) /\ Len(stack) \in Nat \ {0} /\ Len(stack) \in 1..Len(stack)
      /\ \A n \in 1..Len(stack) : stack[n] \in Keys(spec)
  BY TopKey, ElementOfSeq DEF TypeInv
<1>2. PICK m \in 1..Len(stack) : stack[m] = d
  BY DEF StackIsPath, Followed
<1> DEFINE T == {stack[n] : n \in m..Len(stack)}
           S == {i \in DOMAIN spec.tasks : spec.tasks[i].key \in T}
<1>3. \A n \in m..Len(stack) : n \in 1..Len(stack)
  BY <1>1
<1>4. T \subseteq Keys(spec)
  BY <1>1, <1>3
<1>5. \A n \in m..Len(stack) : \E k \in T : k \in Followed(stack[n])
  <2> TAKE n \in m..Len(stack)
  <2>1. CASE n = Len(stack)
    <3>1. m \in m..Len(stack)
      BY <1>1
    <3> QED
      BY <1>2, <2>1, <3>1 DEF Top
  <2>2. CASE n # Len(stack)
    <3>1. n \in 1..Len(stack) - 1 /\ n + 1 \in m..Len(stack)
      BY <1>1, <2>2
    <3> QED
      BY <3>1 DEF StackIsPath
  <2> QED
    BY <2>1, <2>2
<1>6. ASSUME NEW i \in S PROVE \E j \in S : spec.tasks[j].key \in spec.tasks[i].dependsOn
  <2>1. PICK n \in m..Len(stack) : spec.tasks[i].key = stack[n]
    OBVIOUS
  <2>2. PICK k \in T : k \in spec.tasks[i].dependsOn
    BY <1>5, <2>1, FollowedAll
  <2>3. PICK j \in DOMAIN spec.tasks : spec.tasks[j].key = k
    BY <1>4 DEF Keys
  <2> QED
    BY <2>2, <2>3
<1>7. S # {}
  <2>1. m \in m..Len(stack)
    BY <1>1
  <2>2. d \in T /\ d \in Keys(spec)
    BY <1>2, <1>4, <2>1
  <2> QED
    BY <2>2 DEF Keys
<1>8. S \in SUBSET DOMAIN spec.tasks
  OBVIOUS
<1> HIDE DEF S
<1> QED
  BY <1>6, <1>7, <1>8 DEF Orderable

\* The verdict stands to the end.
VerdictInv ==
  /\ pc \in Usable => Sound(spec) /\ Orderable(spec)
  /\ pc = "rejected" => ~(Sound(spec) /\ Orderable(spec))

LEMMA SameVerdict == ASSUME UNCHANGED spec
                     PROVE  (Sound(spec)' <=> Sound(spec)) /\ (Orderable(spec)' <=> Orderable(spec))
<1>1. Sound(spec)' <=> Sound(spec)
  BY DEF Sound, Keys
<1>2. Orderable(spec)' <=> Orderable(spec)
  BY DEF Orderable
<1> QED
  BY <1>1, <1>2

LEMMA NextVerdict == ASSUME TypeInv, SearchInv, VerdictInv, [Next]_vars PROVE VerdictInv'
<1>1. CASE FindCycle
  <2>1. PICK d \in Followed(Top) : color[d] = 1
    BY <1>1 DEF FindCycle
  <2>2. /\ pc = "cycle" /\ stack # <<>> /\ pc' = "rejected" /\ UNCHANGED spec
    BY <1>1 DEF FindCycle
  <2>3. Prepared(spec)
    BY <2>2, SpecFixed
  <2>4. Sound(spec) => ~Orderable(spec)
    BY <2>1, <2>2, <2>3, CycleNotOrderable DEF SearchInv
  <2> QED
    BY <2>2, <2>4, SameVerdict DEF VerdictInv, Usable
<1>2. CASE Validate
  <2>1. /\ pc = "cycle" /\ stack = <<>> /\ Roots = {} /\ UNCHANGED spec
        /\ pc' = IF Sound(spec) THEN "order" ELSE "rejected"
    BY <1>2 DEF Validate
  <2>2. Prepared(spec) /\ StackIsPath /\ LeftInOrder /\ color \in [Keys(spec) -> 0..2]
    BY <2>1, SpecFixed DEF SearchInv, TypeInv
  <2>3. ASSUME Sound(spec) PROVE Keys(spec) \subseteq Left
    <3> SUFFICES ASSUME NEW k \in Keys(spec) PROVE color[k] = 2
      BY DEF Left
    <3>1. PICK i \in DOMAIN spec.tasks : spec.tasks[i].key = k
      BY DEF Keys
    <3>2. color[k] # 0
      BY <2>1, <2>3, <3>1 DEF Roots, Sound
    <3>3. color[k] # 1
      BY <2>1, <2>2 DEF StackIsPath
    <3> QED
      BY <2>2, <3>2, <3>3
  <2>4. Sound(spec) => Orderable(spec)
    BY <2>2, <2>3, SearchedOrderable
  <2> QED
    BY <2>1, <2>4, SameVerdict DEF VerdictInv, Usable
<1>3. CASE UNCHANGED spec /\ (pc' \in Usable <=> pc \in Usable) /\ (pc' = "rejected" => pc = "rejected")
  BY <1>3, SameVerdict DEF VerdictInv, Usable
<1>4. CASE Parse
  BY <1>4 DEF Parse, VerdictInv, Usable
<1>5. CASE UNCHANGED vars
  BY <1>3, <1>5 DEF vars
<1>6. CASE VisitRoot \/ VisitDependency \/ Leave \/ Place \/ SaveGeneratedPlan \/ RunTask \/ CompletePlan
  BY <1>3, <1>6 DEF VisitRoot, VisitDependency, Leave, Place, SaveGeneratedPlan, RunTask, CompletePlan, Usable
<1> QED
  BY <1>1, <1>2, <1>4, <1>5, <1>6 DEF Next

\* ValidateProblems refuses exactly the documents that break a rule or whose tasks wait
\* for each other (RejectedIffUnusable): of any number of tasks, with the dependencies
\* in any order, the depth-first search of dependencyCycle misses no cycle and
\* invents none.
THEOREM Verdict == Spec => []RejectedIffUnusable
<1> DEFINE Inv == TypeInv /\ SearchInv /\ VerdictInv
<1>1. Init => Inv
  BY InitTypes DEF Init, SearchInv, VerdictInv, Usable
<1>2. Inv /\ [Next]_vars => Inv'
  BY NextTypes, NextSearch, NextVerdict
<1>3. Inv => RejectedIffUnusable
  BY DEF VerdictInv, RejectedIffUnusable, Usable
<1> HIDE DEF Inv
<1> QED
  BY <1>1, <1>2, <1>3, PTL DEF Spec

-----------------------------------------------------------------------------
(* The order.                                                              *)

LEMMA KeysFinite == ASSUME NEW s, Prepared(s) PROVE IsFiniteSet(Keys(s))
<1> DEFINE f == [i \in 1..Len(s.tasks) |-> s.tasks[i].key]
<1>1. Len(s.tasks) \in Nat /\ DOMAIN s.tasks = 1..Len(s.tasks)
  BY PreparedTasks
<1>2. f \in Surjection(1..Len(s.tasks), Keys(s))
  BY <1>1 DEF Surjection, Keys
<1>3. IsFiniteSet(1..Len(s.tasks))
  <2>1. 1 \in Int /\ Len(s.tasks) \in Int
    BY <1>1
  <2> QED
    BY <2>1, FS_Interval, Zenon
<1> HIDE DEF f
<1> QED
  BY <1>2, <1>3, FS_Surjection, Zenon

\* The keys before position n of an order.
PlacedIn(o, n) == {o[l] : l \in 1..n - 1}

\* indegree counts the dependencies that are not placed; a key is placed once, after
\* everything it depends on, and before any key that could have been placed then but
\* comes later in the document.
OrderInv ==
  pc \in Usable =>
    /\ DOMAIN indegree = Keys(spec)
    /\ \A k \in Keys(spec) : indegree[k] = Cardinality(DependsOn(spec, k) \ Placed)
    /\ \A m, n \in 1..Len(order) : order[m] = order[n] => m = n
    /\ \A n \in 1..Len(order) : DependsOn(spec, order[n]) \subseteq PlacedIn(order, n)
    /\ \A n \in 1..Len(order), k \in Keys(spec) :
         k \notin PlacedIn(order, n + 1) /\ IndexOf(spec, k) < IndexOf(spec, order[n])
           => ~(DependsOn(spec, k) \subseteq PlacedIn(order, n))

\* A key whose dependencies are placed has the indegree 0, and no other has.
LEMMA ReadyKeys ==
  ASSUME TypeInv, OrderInv, pc \in Usable, NEW k \in Keys(spec)
  PROVE  /\ IsFiniteSet(DependsOn(spec, k) \ Placed)
         /\ indegree[k] = 0 <=> DependsOn(spec, k) \subseteq Placed
<1>1. Prepared(spec) /\ Sound(spec)
  BY SpecFixed DEF TypeInv, Usable
<1>2. DependsOn(spec, k) \subseteq Keys(spec)
  BY <1>1, DependsOnKey
<1>3. IsFiniteSet(DependsOn(spec, k) \ Placed)
  <2>1. DependsOn(spec, k) \ Placed \subseteq Keys(spec)
    BY <1>2
  <2> QED
    BY <1>1, <2>1, KeysFinite, FS_Subset
<1>4. indegree[k] = Cardinality(DependsOn(spec, k) \ Placed)
  BY DEF OrderInv
<1>5. Cardinality(DependsOn(spec, k) \ Placed) = 0 <=> DependsOn(spec, k) \ Placed = {}
  BY <1>3, FS_EmptySet
<1> QED
  BY <1>3, <1>4, <1>5

LEMMA PlaceOrder == ASSUME TypeInv, OrderInv, Place PROVE OrderInv'
<1>1. pc = "order" /\ pc \in Usable /\ UNCHANGED <<spec, pc>>
  BY DEF Place, Usable
<1>2. Prepared(spec) /\ Sound(spec)
  BY <1>1, SpecFixed DEF TypeInv
<1>3. PICK i \in Ready :
        /\ \A j \in Ready : i <= j
        /\ order' = Append(order, spec.tasks[i].key)
        /\ indegree' = [k \in DOMAIN indegree |->
             IF spec.tasks[i].key \in DependsOn(spec, k) THEN indegree[k] - 1 ELSE indegree[k]]
  BY DEF Place
<1> DEFINE key == spec.tasks[i].key
<1>4. /\ key \in Keys(spec) /\ key \notin Placed /\ indegree[key] = 0 /\ IndexOf(spec, key) = i
      /\ i \in DOMAIN spec.tasks
  BY <1>2, IndexOfKey DEF Ready, Keys
<1> HIDE DEF key
<1>5. /\ order \in Seq(Keys(spec)) /\ Len(order) \in Nat /\ DOMAIN order = 1..Len(order)
  BY LenProperties DEF TypeInv
<1>6. /\ Len(order') = Len(order) + 1 /\ order'[Len(order) + 1] = key
      /\ \A n \in 1..Len(order) : order'[n] = order[n]
      /\ order' \in Seq(Keys(spec)) /\ DOMAIN order' = 1..Len(order')
  BY <1>3, <1>4, <1>5, AppendProperties, LenProperties DEF key
<1>7. \A n \in 1..Len(order') : n \in 1..Len(order) \/ n = Len(order) + 1
  BY <1>5, <1>6
<1>8. {order'[n] : n \in DOMAIN order'} = Placed \cup {key}
  <2>1. \A n \in 1..Len(order) : n \in 1..Len(order')
    BY <1>5, <1>6
  <2>2. Len(order) + 1 \in 1..Len(order')
    BY <1>5, <1>6
  <2> QED
    BY <1>5, <1>6, <1>7, <2>1, <2>2 DEF Placed
<1>9. /\ \A n \in 1..Len(order) : {order'[l] : l \in 1..n - 1} = PlacedIn(order, n)
      /\ \A n \in 1..Len(order) : {order'[l] : l \in 1..n + 1 - 1} = PlacedIn(order, n + 1)
      /\ {order'[l] : l \in 1..Len(order) + 1 - 1} = Placed
      /\ {order'[l] : l \in 1..Len(order) + 1 + 1 - 1} = Placed \cup {key}
  <2>1. \A n \in 1..Len(order) : /\ \A l \in 1..n - 1 : order'[l] = order[l]
                                 /\ \A l \in 1..n + 1 - 1 : order'[l] = order[l]
    <3>1. \A n \in 1..Len(order) : /\ \A l \in 1..n - 1 : l \in 1..Len(order)
                                   /\ \A l \in 1..n + 1 - 1 : l \in 1..Len(order)
      BY <1>5
    <3> QED
      BY <1>6, <3>1
  <2>2. 1..Len(order) + 1 - 1 = 1..Len(order) /\ 1..Len(order) + 1 + 1 - 1 = 1..Len(order')
    BY <1>5, <1>6
  <2>3. {order'[l] : l \in 1..Len(order)} = Placed
    BY <1>5, <1>6 DEF Placed
  <2>4. \A n \in 1..Len(order) : {order'[l] : l \in 1..n - 1} = {order[l] : l \in 1..n - 1}
    BY <2>1
  <2>5. \A n \in 1..Len(order) : {order'[l] : l \in 1..n + 1 - 1} = {order[l] : l \in 1..n + 1 - 1}
    BY <2>1
  <2> QED
    BY <1>6, <1>8, <2>2, <2>3, <2>4, <2>5 DEF PlacedIn
<1>10. DependsOn(spec, key) \subseteq Placed
  BY <1>1, <1>4, ReadyKeys
<1>11. DOMAIN indegree' = Keys(spec)
  BY <1>1, <1>3 DEF OrderInv
<1>12. ASSUME NEW k \in Keys(spec)
       PROVE  indegree'[k] = Cardinality(DependsOn(spec, k) \ (Placed \cup {key}))
  <2> DEFINE D == DependsOn(spec, k) \ Placed
  <2>1. IsFiniteSet(D) /\ indegree[k] = Cardinality(D)
    BY <1>1, ReadyKeys DEF OrderInv
  <2>2. DependsOn(spec, k) \ (Placed \cup {key}) = D \ {key}
    OBVIOUS
  <2>3. key \in D <=> key \in DependsOn(spec, k)
    BY <1>4
  <2>4. indegree'[k] = IF key \in DependsOn(spec, k) THEN indegree[k] - 1 ELSE indegree[k]
    BY <1>1, <1>3 DEF OrderInv, key
  <2> HIDE DEF D
  <2>5. Cardinality(D \ {key}) = IF key \in D THEN Cardinality(D) - 1 ELSE Cardinality(D)
    BY <2>1, FS_RemoveElement
  <2> QED
    BY <2>1, <2>2, <2>3, <2>4, <2>5
<1>13. \A m, n \in 1..Len(order') : order'[m] = order'[n] => m = n
  <2>1. \A n \in 1..Len(order) : order[n] # key
    BY <1>4, <1>5 DEF Placed
  <2>2. \A m, n \in 1..Len(order) : order[m] = order[n] => m = n
    BY <1>1 DEF OrderInv
  <2> QED
    BY <1>6, <1>7, <2>1, <2>2
<1>14. ASSUME NEW n \in 1..Len(order')
       PROVE  DependsOn(spec, order'[n]) \subseteq {order'[l] : l \in 1..n - 1}
  <2>1. CASE n \in 1..Len(order)
    BY <1>1, <1>6, <1>9, <2>1 DEF OrderInv
  <2>2. CASE n = Len(order) + 1
    BY <1>6, <1>9, <1>10, <2>2
  <2> QED
    BY <1>7, <2>1, <2>2
<1>15. ASSUME NEW n \in 1..Len(order'), NEW k \in Keys(spec),
              k \notin {order'[l] : l \in 1..n + 1 - 1}, IndexOf(spec, k) < IndexOf(spec, order'[n])
       PROVE  ~(DependsOn(spec, k) \subseteq {order'[l] : l \in 1..n - 1})
  <2>1. CASE n \in 1..Len(order)
    <3>1. order'[n] = order[n] /\ k \notin PlacedIn(order, n + 1) /\ {order'[l] : l \in 1..n - 1} = PlacedIn(order, n)
      BY <1>6, <1>9, <1>15, <2>1
    <3> QED
      BY <1>1, <1>15, <2>1, <3>1 DEF OrderInv
  <2>2. CASE n = Len(order) + 1
    <3>1. IndexOf(spec, k) < i /\ k \notin Placed /\ {order'[l] : l \in 1..n - 1} = Placed
      BY <1>4, <1>6, <1>9, <1>15, <2>2
    <3>2. IndexOf(spec, k) \in DOMAIN spec.tasks /\ spec.tasks[IndexOf(spec, k)].key = k
      BY <1>2, DependsOnKey
    <3>3. IndexOf(spec, k) \in Nat /\ i \in Nat
      <4>1. DOMAIN spec.tasks = 1..Len(spec.tasks)
        BY <1>2, PreparedTasks
      <4> QED
        BY <1>4, <3>2, <4>1
    <3>4. IndexOf(spec, k) \notin Ready
      BY <1>3, <3>1, <3>3
    <3>5. indegree[k] # 0
      BY <3>1, <3>2, <3>4 DEF Ready
    <3> QED
      BY <1>1, <3>1, <3>5, ReadyKeys
  <2> QED
    BY <1>7, <2>1, <2>2
<1>16. spec' = spec /\ Placed' = Placed \cup {key}
  BY <1>1, <1>8 DEF Placed
<1>17. \A n \in 1..Len(order') : DependsOn(spec', order'[n]) \subseteq PlacedIn(order', n)
  BY <1>14, <1>16 DEF PlacedIn
<1>18. \A n \in 1..Len(order'), k \in Keys(spec') :
         k \notin PlacedIn(order', n + 1) /\ IndexOf(spec', k) < IndexOf(spec', order'[n])
           => ~(DependsOn(spec', k) \subseteq PlacedIn(order', n))
  BY <1>15, <1>16 DEF PlacedIn
<1>19. \A k \in Keys(spec') : indegree'[k] = Cardinality(DependsOn(spec', k) \ Placed')
  BY <1>12, <1>16
<1>20. DOMAIN indegree' = Keys(spec')
  BY <1>11, <1>16
<1> QED
  BY <1>13, <1>17, <1>18, <1>19, <1>20 DEF OrderInv

LEMMA NextOrder == ASSUME TypeInv, OrderInv, [Next]_vars PROVE OrderInv'
<1>1. CASE Place
  BY <1>1, PlaceOrder
<1>2. CASE Validate
  <2>1. /\ pc = "cycle" /\ order = <<>> /\ UNCHANGED <<spec, order>>
    BY <1>2 DEF Validate, TypeInv, Usable
  <2> SUFFICES ASSUME pc' \in Usable PROVE OrderInv'
    BY DEF OrderInv
  <2>2. indegree' = [k \in Keys(spec) |-> Cardinality(DependsOn(spec, k))]
    BY <1>2 DEF Validate, Usable
  <2>3. Placed' = {} /\ Len(order') = 0
    BY <2>1 DEF Placed
  <2>4. Keys(spec)' = Keys(spec) /\ \A k : DependsOn(spec, k)' = DependsOn(spec, k)
    BY <2>1 DEF Keys, DependsOn, IndexOf
  <2> QED
    BY <2>2, <2>3, <2>4 DEF OrderInv
<1>3. CASE UNCHANGED <<spec, indegree, order>> /\ (pc' \in Usable => pc \in Usable)
  <2>1. /\ Keys(spec)' = Keys(spec) /\ \A k : DependsOn(spec, k)' = DependsOn(spec, k)
        /\ \A k : IndexOf(spec, k)' = IndexOf(spec, k)
    BY <1>3 DEF Keys, DependsOn, IndexOf
  <2>2. Placed' = Placed /\ \A n : PlacedIn(order', n) = PlacedIn(order, n)
    BY <1>3 DEF Placed, PlacedIn
  <2> QED
    BY <1>3, <2>1, <2>2 DEF OrderInv
<1>4. CASE Parse \/ VisitRoot \/ VisitDependency \/ FindCycle \/ Leave
  <2>1. pc' \notin Usable
    BY <1>4 DEF Parse, VisitRoot, VisitDependency, FindCycle, Leave, Usable
  <2> QED
    BY <2>1 DEF OrderInv
<1>5. CASE SaveGeneratedPlan \/ RunTask \/ CompletePlan \/ UNCHANGED vars
  BY <1>3, <1>5 DEF SaveGeneratedPlan, RunTask, CompletePlan, vars, Usable
<1> QED
  BY <1>1, <1>2, <1>4, <1>5 DEF Next

LEMMA InitOrder == Init => OrderInv
BY DEF Init, OrderInv, Usable

\* The order is the one closest to the document (TiesKeepPosition): whatever the graph,
\* a task moves behind a later one only while one of its dependencies is not placed.
THEOREM TiesByPosition == Spec => []TiesKeepPosition
<1> DEFINE Inv == TypeInv /\ OrderInv
<1>1. Init => Inv
  BY InitTypes, InitOrder
<1>2. Inv /\ [Next]_vars => Inv'
  BY NextTypes, NextOrder
<1>3. ASSUME Inv PROVE TiesKeepPosition
  <2> SUFFICES ASSUME NEW m \in DOMAIN order, NEW n \in DOMAIN order, m < n,
                      IndexOf(spec, order[n]) < IndexOf(spec, order[m])
               PROVE  ~(DependsOn(spec, order[n]) \subseteq {order[l] : l \in 1 .. m - 1})
    BY DEF TiesKeepPosition
  <2>1. /\ order \in Seq(Keys(spec)) /\ Len(order) \in Nat /\ DOMAIN order = 1..Len(order)
    BY <1>3, LenProperties DEF TypeInv
  <2>2. pc \in Usable
    BY <1>3, <2>1 DEF TypeInv
  <2>3. order[n] \in Keys(spec)
    BY <2>1, ElementOfSeq
  <2>4. order[n] \notin PlacedIn(order, m + 1)
    <3>0. m \in 1..Len(order) /\ n \in 1..Len(order) /\ m + 1 - 1 = m
      BY <2>1
    <3>1. \A l \in 1..m : l \in 1..Len(order) /\ l # n
      BY <2>1, <3>0
    <3>2. \A l \in 1..m : order[l] # order[n]
      BY <1>3, <2>1, <2>2, <3>1 DEF OrderInv
    <3> QED
      BY <3>0, <3>2 DEF PlacedIn
  <2>5. ~(DependsOn(spec, order[n]) \subseteq PlacedIn(order, m))
    BY <1>3, <2>1, <2>2, <2>3, <2>4 DEF OrderInv
  <2> QED
    BY <2>5 DEF PlacedIn
<1> HIDE DEF Inv
<1> QED
  BY <1>1, <1>2, <1>3, PTL DEF Spec

-----------------------------------------------------------------------------
(* The rows, and the order in which they run.                              *)

RowKeys == {rows[n].key : n \in DOMAIN rows}

RunInv ==
  pc \in Stored =>
    /\ rows = NumberedTasks /\ finalKey(spec) \notin Keys(spec)
    /\ done \in Seq(RowKeys)
    /\ DependenciesFirst

\* The rows are the tasks in order, and the final validation.
LEMMA Rows ==
  ASSUME TypeInv, OrderInv, RunInv, pc \in Stored
  PROVE  /\ Len(order) \in Nat /\ DOMAIN order = 1..Len(order) /\ DOMAIN rows = 1..Len(order) + 1
         /\ \A n \in 1..Len(order) :
              /\ order[n] \in Keys(spec) /\ rows[n].key = order[n]
              /\ rows[n].position = IndexOf(spec, order[n])
              /\ rows[n].dependencies = DependsOn(spec, order[n])
         /\ rows[Len(order) + 1].key = finalKey(spec)
         /\ rows[Len(order) + 1].position = Len(spec.tasks) + 1
         /\ rows[Len(order) + 1].dependencies = Placed
<1> DEFINE Row(n) == [key |-> order[n], position |-> IndexOf(spec, order[n]),
                      dependencies |-> DependsOn(spec, order[n]), final |-> FALSE]
           last == [key |-> finalKey(spec), position |-> Len(spec.tasks) + 1,
                    dependencies |-> Placed, final |-> TRUE]
           tasks == [n \in DOMAIN order |-> Row(n)]
           Set == {Row(n) : n \in DOMAIN order} \cup {last}
<1>1. /\ order \in Seq(Keys(spec)) /\ Len(order) \in Nat /\ DOMAIN order = 1..Len(order)
  BY LenProperties DEF TypeInv
<1>2. \A n \in 1..Len(order) : order[n] \in Keys(spec)
  BY <1>1, ElementOfSeq
<1>3. rows = Append(tasks, last)
  BY DEF RunInv, NumberedTasks
<1>4. /\ \A n \in DOMAIN order : /\ Row(n).key = order[n] /\ Row(n).position = IndexOf(spec, order[n])
                                 /\ Row(n).dependencies = DependsOn(spec, order[n])
      /\ last.key = finalKey(spec) /\ last.position = Len(spec.tasks) + 1 /\ last.dependencies = Placed
  OBVIOUS
<1> HIDE DEF Row, last
<1>5. tasks \in [1..Len(order) -> Set] /\ last \in Set /\ \A n \in 1..Len(order) : tasks[n] = Row(n)
  BY <1>1
<1> HIDE DEF Set, tasks
<1>6. tasks \in Seq(Set) /\ Len(tasks) = Len(order)
  BY <1>1, <1>5, SeqDef, LenProperties
<1>7. /\ rows \in Seq(Set) /\ Len(rows) = Len(order) + 1
      /\ rows[Len(order) + 1] = last /\ \A n \in 1..Len(order) : rows[n] = tasks[n]
  BY <1>3, <1>5, <1>6, AppendProperties
<1>8. DOMAIN rows = 1..Len(order) + 1
  BY <1>7, LenProperties
<1> QED
  BY <1>1, <1>2, <1>4, <1>5, <1>7, <1>8

\* Neither two keys nor two positions are the same.
LEMMA RowsDistinct ==
  ASSUME TypeInv, OrderInv, RunInv, pc \in Stored
  PROVE  /\ \A m, n \in DOMAIN rows : rows[m].key = rows[n].key => m = n
         /\ \A n \in DOMAIN rows : rows[n].position \in Nat
         /\ \A m, n \in DOMAIN rows : rows[m].position = rows[n].position => m = n
<1>1. /\ Len(order) \in Nat /\ DOMAIN order = 1..Len(order) /\ DOMAIN rows = 1..Len(order) + 1
      /\ \A n \in 1..Len(order) :
           /\ order[n] \in Keys(spec) /\ rows[n].key = order[n]
           /\ rows[n].position = IndexOf(spec, order[n])
      /\ rows[Len(order) + 1].key = finalKey(spec)
      /\ rows[Len(order) + 1].position = Len(spec.tasks) + 1
  BY Rows
<1>2. Prepared(spec) /\ Sound(spec) /\ pc \in Usable /\ finalKey(spec) \notin Keys(spec)
  BY SpecFixed DEF TypeInv, Stored, Usable, RunInv
<1>3. Len(spec.tasks) \in Nat /\ DOMAIN spec.tasks = 1..Len(spec.tasks)
  BY <1>2, PreparedTasks
<1>4. \A n \in DOMAIN rows : n \in 1..Len(order) \/ n = Len(order) + 1
  BY <1>1
<1>5. \A m, n \in 1..Len(order) : order[m] = order[n] => m = n
  BY <1>2 DEF OrderInv
<1>6. \A k \in Keys(spec) : /\ IndexOf(spec, k) \in 1..Len(spec.tasks)
                            /\ spec.tasks[IndexOf(spec, k)].key = k
  BY <1>2, <1>3, DependsOnKey
<1>7. \A m, n \in DOMAIN rows : rows[m].key = rows[n].key => m = n
  BY <1>1, <1>2, <1>4, <1>5
<1>8. \A n \in 1..Len(order) : rows[n].position \in 1..Len(spec.tasks)
  BY <1>1, <1>6
<1>9. \A n \in DOMAIN rows : rows[n].position \in Nat
  BY <1>1, <1>3, <1>4, <1>8
<1>10. ASSUME NEW m \in DOMAIN rows, NEW n \in DOMAIN rows, rows[m].position = rows[n].position
       PROVE  m = n
  <2>1. CASE m \in 1..Len(order) /\ n \in 1..Len(order)
    <3>1. order[m] = order[n]
      BY <1>1, <1>6, <1>10, <2>1
    <3> QED
      BY <1>5, <2>1, <3>1
  <2>2. Len(spec.tasks) + 1 \notin 1..Len(spec.tasks)
    BY <1>3
  <2> QED
    BY <1>1, <1>4, <1>8, <1>10, <2>1, <2>2
<1> QED
  BY <1>7, <1>9, <1>10

\* There is a first row among any.
LEMMA LeastRank ==
  ASSUME NEW S, S # {}, NEW f, \A n \in S : f[n] \in Nat
  PROVE  \E n \in S : \A m \in S : f[n] <= f[m]
<1> DEFINE Less == {ss \in Nat \X Nat : ss[1] < ss[2]}
           T == {f[n] : n \in S}
<1>1. IsWellFoundedOn(Less, Nat)
  BY NatLessThanWellFounded DEF OpToRel
<1>2. \A a, b \in Nat : a < b => <<a, b>> \in Less
  OBVIOUS
<1> HIDE DEF Less
<1>3. T \subseteq Nat /\ T # {}
  OBVIOUS
<1>4. \E d \in T : \A e \in T : ~(<<e, d>> \in Less)
  <2> HIDE DEF T
  <2> QED
    BY <1>1, <1>3, WFMin, Zenon
<1>5. PICK n \in S : \A m \in S : ~(<<f[m], f[n]>> \in Less)
  BY <1>4
<1>6. \A m \in S : ~(f[m] < f[n])
  BY <1>2, <1>5
<1> QED
  BY <1>6

LEMMA NextTaskFirst ==
  ASSUME TypeInv, OrderInv, RunInv, pc \in Stored, Unfinished # {}
  PROVE  NextTask \in Unfinished /\ \A m \in Unfinished \ {NextTask} : Before(NextTask, m)
<1> DEFINE rank == [n \in DOMAIN rows |-> IF spec.compat THEN rows[n].position ELSE n]
<1>1. Unfinished \subseteq DOMAIN rows
  BY DEF Unfinished
<1>2. \A n \in DOMAIN rows : rank[n] \in Nat
  BY Rows, RowsDistinct
<1>3. \A m, n \in DOMAIN rows : rank[m] = rank[n] => m = n
  BY RowsDistinct
<1>4. \A m, n \in DOMAIN rows : rank[m] < rank[n] => Before(m, n)
  BY DEF Before
<1> HIDE DEF rank
<1>5. PICK n \in Unfinished : \A m \in Unfinished : rank[n] <= rank[m]
  <2>1. \A n \in Unfinished : rank[n] \in Nat
    BY <1>1, <1>2
  <2> QED
    BY <2>1, LeastRank
<1>6. \A m \in Unfinished \ {n} : Before(n, m)
  <2> TAKE m \in Unfinished \ {n}
  <2>1. /\ m \in DOMAIN rows /\ n \in DOMAIN rows /\ rank[m] \in Nat /\ rank[n] \in Nat
        /\ rank[n] <= rank[m] /\ rank[n] # rank[m]
    BY <1>1, <1>2, <1>3, <1>5
  <2>2. rank[n] < rank[m]
    BY <2>1
  <2> QED
    BY <1>4, <2>1, <2>2
<1> QED
  BY <1>6 DEF NextTask

\* In a legacy plan each task depends on the one before it, which is read first.
LEMMA LegacyBefore ==
  ASSUME TypeInv, OrderInv, RunInv, pc \in Stored, NEW t \in DOMAIN rows, NEW d \in rows[t].dependencies,
         \A i \in DOMAIN raw.tasks : raw.tasks[i].dependsOn = {}
  PROVE  \E q \in DOMAIN rows : rows[q].key = d /\ rows[q].position < rows[t].position
<1>1. /\ Len(order) \in Nat /\ DOMAIN order = 1..Len(order) /\ DOMAIN rows = 1..Len(order) + 1
      /\ \A n \in 1..Len(order) :
           /\ order[n] \in Keys(spec) /\ rows[n].key = order[n]
           /\ rows[n].position = IndexOf(spec, order[n])
           /\ rows[n].dependencies = DependsOn(spec, order[n])
      /\ rows[Len(order) + 1].position = Len(spec.tasks) + 1
      /\ rows[Len(order) + 1].dependencies = Placed
  BY Rows
<1>2. Prepared(spec) /\ Sound(spec) /\ pc \in Usable /\ spec = prepareSpec(raw) /\ raw \in RawSpecs
  BY SpecFixed DEF TypeInv, Stored, Usable
<1>3. Len(spec.tasks) \in Nat /\ DOMAIN spec.tasks = 1..Len(spec.tasks)
  BY <1>2, PreparedTasks
<1>4. \A k \in Keys(spec) : IndexOf(spec, k) \in 1..Len(spec.tasks)
  BY <1>2, <1>3, DependsOnKey
<1>5. CASE t = Len(order) + 1
  <2>1. PICK q \in 1..Len(order) : d = order[q]
    BY <1>1, <1>5 DEF Placed
  <2>2. q \in DOMAIN rows /\ rows[q].key = d /\ rows[q].position \in 1..Len(spec.tasks)
    BY <1>1, <1>4, <2>1
  <2>3. rows[q].position < rows[t].position
    BY <1>1, <1>3, <1>5, <2>2
  <2> QED
    BY <2>2, <2>3
<1>6. CASE t \in 1..Len(order)
  <2> DEFINE i == IndexOf(spec, order[t])
  <2>1. i \in 1..Len(spec.tasks) /\ rows[t].position = i /\ d \in spec.tasks[i].dependsOn
    BY <1>1, <1>4, <1>6 DEF DependsOn
  <2> HIDE DEF i
  <2>2. /\ DOMAIN raw.tasks = 1..Len(spec.tasks)
        /\ \A j \in 1..Len(spec.tasks) : /\ spec.tasks[j].key = PreparedKey(raw, j)
                                         /\ spec.tasks[j].dependsOn = PreparedDependsOn(raw, j)
    <3>1. DOMAIN raw.tasks = 1..Len(spec.tasks)
      BY <1>2, SpecPrepared, Document
    <3> QED
      BY <1>2, <3>1 DEF prepareSpec
  <2>3. i # 1 /\ d = PreparedKey(raw, i - 1)
    <3>1. raw.tasks[i].dependsOn = {} /\ d \in PreparedDependsOn(raw, i)
      BY <2>1, <2>2
    <3>2. PreparedDependsOn(raw, i) = (IF i = 1 THEN {} ELSE {PreparedKey(raw, i - 1)}) \ {""}
      BY <3>1 DEF PreparedDependsOn
    <3> QED
      BY <3>1, <3>2
  <2>4. i - 1 \in 1..Len(spec.tasks)
    BY <1>3, <2>1, <2>3
  <2>5. IndexOf(spec, d) = i - 1
    BY <1>2, <1>3, <2>2, <2>3, <2>4, IndexOfKey
  <2>6. d \in PlacedIn(order, t)
    BY <1>1, <1>2, <1>6 DEF OrderInv
  <2>7. PICK q \in 1..t - 1 : d = order[q]
    BY <2>6 DEF PlacedIn
  <2>8. q \in 1..Len(order) /\ q \in DOMAIN rows
    BY <1>1, <1>6, <2>7
  <2>9. rows[q].key = d /\ rows[q].position = i - 1
    BY <1>1, <2>5, <2>7, <2>8
  <2> QED
    BY <1>3, <2>1, <2>8, <2>9
<1> QED
  BY <1>1, <1>5, <1>6

LEMMA SameNumbered ==
  ASSUME UNCHANGED <<spec, order>>
  PROVE  NumberedTasks' = NumberedTasks /\ finalKey(spec)' = finalKey(spec) /\ Keys(spec)' = Keys(spec)
BY DEF NumberedTasks, finalKey, Keys, IndexOf, DependsOn, Placed

LEMMA RunTaskFirst == ASSUME TypeInv, OrderInv, RunInv, RunTask PROVE RunInv'
<1>1. /\ pc \in Stored /\ Unfinished # {} /\ Unblocked(NextTask)
      /\ done' = Append(done, rows[NextTask].key)
      /\ UNCHANGED <<raw, spec, pc, order, rows>>
  BY DEF RunTask, Stored
<1> DEFINE t == NextTask
<1>2. t \in Unfinished /\ t \in DOMAIN rows /\ \A m \in Unfinished \ {t} : Before(t, m)
  BY <1>1, NextTaskFirst DEF Unfinished
<1>3. /\ done \in Seq(RowKeys) /\ rows[t].key \in RowKeys
  BY <1>1, <1>2 DEF RunInv, RowKeys
<1> HIDE DEF t
<1>4. /\ done' \in Seq(RowKeys) /\ Len(done) \in Nat /\ Len(done') = Len(done) + 1
      /\ done'[Len(done) + 1] = rows[t].key /\ \A n \in 1..Len(done) : done'[n] = done[n]
      /\ DOMAIN done = 1..Len(done) /\ DOMAIN done' = 1..Len(done')
  BY <1>1, <1>3, AppendProperties, LenProperties DEF t
<1>5. {done'[l] : l \in 1..Len(done)} = Succeeded
  BY <1>4 DEF Succeeded
<1>6. ASSUME ~spec.compat \/ \A i \in DOMAIN raw.tasks : raw.tasks[i].dependsOn = {}
      PROVE  rows[t].dependencies \subseteq Succeeded
  <2>1. CASE ~spec.compat
    BY <1>1, <2>1 DEF Unblocked, t
  <2>2. CASE spec.compat /\ \A i \in DOMAIN raw.tasks : raw.tasks[i].dependsOn = {}
    <3> SUFFICES ASSUME NEW d \in rows[t].dependencies PROVE d \in Succeeded
      OBVIOUS
    <3>1. PICK q \in DOMAIN rows : rows[q].key = d /\ rows[q].position < rows[t].position
      BY <1>1, <1>2, <2>2, LegacyBefore
    <3>2. rows[q].position \in Nat /\ rows[t].position \in Nat
      BY <1>1, <1>2, RowsDistinct
    <3>3. q # t /\ ~(rows[t].position < rows[q].position)
      BY <3>1, <3>2
    <3>4. q \notin Unfinished
      BY <1>2, <2>2, <3>3 DEF Before
    <3> QED
      BY <3>1, <3>4 DEF Unfinished
  <2> QED
    BY <1>6, <2>1, <2>2
<1>7. ASSUME NEW n \in DOMAIN done', NEW m \in DOMAIN rows, rows[m].key = done'[n],
             ~spec.compat \/ \A i \in DOMAIN raw.tasks : raw.tasks[i].dependsOn = {}
      PROVE  rows[m].dependencies \subseteq {done'[l] : l \in 1..n - 1}
  <2>1. CASE n \in 1..Len(done)
    <3>1. \A l \in 1..n - 1 : done'[l] = done[l]
      <4>1. \A l \in 1..n - 1 : l \in 1..Len(done)
        BY <1>4, <2>1
      <4> QED
        BY <1>4, <4>1
    <3>2. {done'[l] : l \in 1..n - 1} = {done[l] : l \in 1..n - 1}
      BY <3>1
    <3>3. rows[m].dependencies \subseteq {done[l] : l \in 1..n - 1}
      BY <1>1, <1>4, <1>7, <2>1 DEF RunInv, DependenciesFirst
    <3> QED
      BY <3>2, <3>3
  <2>2. CASE n = Len(done) + 1
    <3>1. m = t
      BY <1>1, <1>2, <1>4, <1>7, <2>2, RowsDistinct
    <3>2. n - 1 = Len(done)
      BY <1>4, <2>2
    <3> QED
      BY <1>5, <1>6, <1>7, <3>1, <3>2
  <2> QED
    BY <1>4, <2>1, <2>2
<1>8. DependenciesFirst'
  BY <1>1, <1>7 DEF DependenciesFirst
<1>9. RowKeys' = RowKeys
  BY <1>1 DEF RowKeys
<1>10. NumberedTasks' = NumberedTasks /\ finalKey(spec)' = finalKey(spec) /\ Keys(spec)' = Keys(spec)
  BY <1>1, SameNumbered
<1> QED
  BY <1>1, <1>4, <1>8, <1>9, <1>10 DEF RunInv

LEMMA NextRun == ASSUME TypeInv, OrderInv, RunInv, [Next]_vars PROVE RunInv'
<1>1. CASE RunTask
  BY <1>1, RunTaskFirst
<1>2. CASE SaveGeneratedPlan
  <2> SUFFICES ASSUME pc' \in Stored PROVE RunInv'
    BY DEF RunInv
  <2>1. /\ rows' = NumberedTasks /\ finalKey(spec) \notin Keys(spec) /\ done' = <<>>
        /\ UNCHANGED <<spec, order>>
    BY <1>2 DEF SaveGeneratedPlan, TypeInv, Stored
  <2>2. NumberedTasks' = NumberedTasks /\ finalKey(spec)' = finalKey(spec) /\ Keys(spec)' = Keys(spec)
    BY <2>1, SameNumbered
  <2>3. DependenciesFirst'
    BY <2>1 DEF DependenciesFirst
  <2>4. done' \in Seq(RowKeys')
    BY <2>1
  <2> QED
    BY <2>1, <2>2, <2>3, <2>4 DEF RunInv
<1>3. CASE UNCHANGED <<raw, spec, order, rows, done>> /\ (pc' \in Stored => pc \in Stored)
  <2>1. NumberedTasks' = NumberedTasks /\ finalKey(spec)' = finalKey(spec) /\ Keys(spec)' = Keys(spec)
    BY <1>3, SameNumbered
  <2>2. (DependenciesFirst' <=> DependenciesFirst) /\ RowKeys' = RowKeys
    BY <1>3 DEF DependenciesFirst, RowKeys
  <2> QED
    BY <1>3, <2>1, <2>2 DEF RunInv
<1>4. CASE Parse \/ VisitRoot \/ VisitDependency \/ FindCycle \/ Leave \/ Validate \/ Place
  <2>1. pc' \notin Stored
    BY <1>4 DEF Parse, VisitRoot, VisitDependency, FindCycle, Leave, Validate, Place, Stored
  <2> QED
    BY <2>1 DEF RunInv
<1>5. CASE CompletePlan \/ UNCHANGED vars
  BY <1>3, <1>5 DEF CompletePlan, vars, Stored
<1> QED
  BY <1>1, <1>2, <1>4, <1>5 DEF Next

\* A task runs after everything it depends on (DependenciesFirst), in a structured plan
\* of any shape and in a legacy plan of any length: the rows of a plan have different
\* keys and positions, and a legacy task's only dependency is read directly before it.
THEOREM RunsAfterDependencies == Spec => []DependenciesFirst
<1> DEFINE Inv == TypeInv /\ OrderInv /\ RunInv
<1>1. Init => Inv
  BY InitTypes, InitOrder DEF Init, RunInv, Stored
<1>2. Inv /\ [Next]_vars => Inv'
  BY NextTypes, NextOrder, NextRun
<1>3. ASSUME Inv PROVE DependenciesFirst
  <2>1. pc \notin Stored => done = <<>>
    BY <1>3 DEF TypeInv
  <2>2. done = <<>> => DependenciesFirst
    BY DEF DependenciesFirst
  <2> QED
    BY <1>3, <2>1, <2>2 DEF RunInv
<1> HIDE DEF Inv
<1> QED
  BY <1>1, <1>2, <1>3, PTL DEF Spec
=============================================================================
