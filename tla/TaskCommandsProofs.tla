-------------------------- MODULE TaskCommandsProofs --------------------------
(***************************************************************************)
(* What the handlers' pure functions preserve, for every payload, command  *)
(* and table.                                                              *)
(***************************************************************************)
EXTENDS TaskCommands, TLAPS, FiniteSetTheorems, WellFoundedInduction

-----------------------------------------------------------------------------
(* The allocator, for every store, prefix, pad and width.                   *)

(* A nonempty set of naturals has a least element: what replaces induction  *)
(* here, by a least counterexample.                                         *)
LEMMA LeastOf ==
    ASSUME NEW S, S # {}, S \subseteq Nat
    PROVE  \E n \in S : \A k \in S : n <= k
<1>1. PICK n \in S : \A k \in S : ~ (<<k, n>> \in OpToRel(<, Nat))
  BY NatLessThanWellFounded, WFMin
<1>2. \A k \in S : ~ (k < n)
  BY <1>1 DEF OpToRel
<1> QED  BY <1>2

(* A nonempty set of naturals below a bound has a largest element: the     *)
(* `.max()` of next_sequential_id is defined for u32 values.               *)
LEMMA BoundedMax ==
    ASSUME NEW bound \in Nat, NEW S, S # {}, S \subseteq Nat, \A s \in S : s <= bound
    PROVE  /\ Max(S) \in S
           /\ \A s \in S : s <= Max(S)
<1> DEFINE Gap == {bound - s : s \in S}
<1>1. Gap \subseteq Nat /\ Gap # {}
  <2>1. \A s \in S : bound - s \in Nat
    OBVIOUS
  <2> QED  BY <2>1
<1>2. PICK g \in Gap : \A h \in Gap : g <= h
  <2> HIDE DEF Gap
  <2> QED  BY <1>1, LeastOf
<1>3. PICK m \in S : g = bound - m
  BY <1>2
<1>4. \A s \in S : s <= m
  <2> SUFFICES ASSUME NEW s \in S PROVE s <= m
    OBVIOUS
  <2>1. bound - s \in Gap
    OBVIOUS
  <2> QED  BY <1>2, <1>3, <2>1
<1>5. \E x \in S : \A y \in S : x >= y
  BY <1>4
<1>6. Max(S) \in S /\ \A y \in S : Max(S) >= y
  BY <1>5 DEF Max
<1> QED  BY <1>6

(* What the allocator parses are u32 numbers.                               *)
LEMMA ParsedSeqsType ==
    ASSUME NEW existing \in SUBSET Id
    PROVE  ParsedSeqs(existing) \subseteq Nat /\ \A s \in ParsedSeqs(existing) : s <= U32Max
BY DEF ParsedSeqs, Id

(* The number handed out is a u32 that no parsed id has, unless there is    *)
(* none left.                                                              *)
LEMMA NextSeqType ==
    ASSUME NEW seqs, seqs \subseteq Nat, \A s \in seqs : s <= U32Max
    PROVE  /\ NextSeq(seqs) \in Nat
           /\ NextSeq(seqs) <= U32Max
           /\ NextSeq(seqs) \notin seqs \/ NextSeq(seqs) = U32Max
<1>1. U32Max \in Nat \ {0}
  BY TaskIdsAssumption
<1>2. CASE seqs = {}
  BY <1>1, <1>2 DEF NextSeq
<1>3. CASE seqs # {}
  <2>1. Max(seqs) \in seqs /\ \A s \in seqs : s <= Max(seqs)
    BY <1>1, <1>3, BoundedMax
  <2>2. Max(seqs) \in Nat /\ Max(seqs) <= U32Max
    BY <2>1
  <2>3. CASE Max(seqs) = U32Max
    <3>1. NextSeq(seqs) = U32Max
      BY <1>3, <2>3 DEF NextSeq
    <3> QED  BY <1>1, <3>1
  <2>4. CASE Max(seqs) # U32Max
    <3>1. NextSeq(seqs) = Max(seqs) + 1
      BY <1>3, <2>4 DEF NextSeq
    <3>2. NextSeq(seqs) \in Nat /\ NextSeq(seqs) <= U32Max
      BY <1>1, <2>2, <2>4, <3>1
    <3>3. NextSeq(seqs) \notin seqs
      BY <2>1, <2>2, <3>1
    <3> QED  BY <3>2, <3>3
  <2> QED  BY <2>3, <2>4
<1> QED  BY <1>2, <1>3

(* A padded number is an id of the store's own family, with its digits.    *)
LEMMA ZeroPaddedType ==
    ASSUME NEW n \in Nat
    PROVE  /\ ZeroPadded(n) \in Id
           /\ ZeroPadded(n).num = n
           /\ IsSequential(ZeroPadded(n))
<1>1. Digits(n) \in Nat \ {0}
  <2> DEFINE Powers == {k \in 1 .. 9 : 10 ^ k <= n}
  <2>1. IsFiniteSet(1 .. 9)
    <3>1. \A a, b \in Int : IsFiniteSet(a .. b)
      BY FS_Interval
    <3>2. 1 \in Int /\ 9 \in Int
      OBVIOUS
    <3> QED  BY <3>1, <3>2, Zenon
  <2>2. IsFiniteSet(Powers)
    BY <2>1, FS_Subset, Powers \subseteq 1 .. 9
  <2>3. Cardinality(Powers) \in Nat
    BY <2>2, FS_CardinalityType
  <2> HIDE DEF Powers
  <2>4. 1 + Cardinality(Powers) \in Nat \ {0}
    BY <2>3
  <2> QED  BY <2>4 DEF Digits, Powers
<1>2. IdPrefix \in Families /\ Pad \in Nat
  BY TaskIdsAssumption
<1> QED  BY <1>1, <1>2 DEF ZeroPadded, Id, IsSequential

(* The id create is about to store is new: unless the numbers are used up, *)
(* no row of the store it was computed from has that id, whatever other    *)
(* families, forms and paddings are stored beside it.                      *)
THEOREM NextIdFresh ==
    ASSUME NEW existing \in SUBSET Id
    PROVE  /\ NextSequentialId(existing) \in Id
           /\ \/ NextSequentialId(existing) \notin existing
              \/ NextSequentialId(existing) = ZeroPadded(U32Max)
<1> DEFINE seqs == ParsedSeqs(existing)
           n == NextSeq(seqs)
<1>1. seqs \subseteq Nat /\ \A s \in seqs : s <= U32Max
  BY ParsedSeqsType
<1>2. n \in Nat /\ n <= U32Max /\ (n \notin seqs \/ n = U32Max)
  BY <1>1, NextSeqType
<1>3. /\ ZeroPadded(n) \in Id
      /\ ZeroPadded(n).num = n
      /\ IsSequential(ZeroPadded(n))
  BY <1>2, ZeroPaddedType
<1>4. NextSequentialId(existing) = ZeroPadded(n)
  BY DEF NextSequentialId
<1>5. ZeroPadded(n) \in existing => n \in seqs
  BY <1>2, <1>3 DEF ParsedSeqs
<1> QED  BY <1>2, <1>3, <1>4, <1>5

-----------------------------------------------------------------------------
(* The id of a payload.                                                     *)

(* INSERT OR REPLACE keeps the table keyed by its payloads.                 *)
LEMMA PutKeyed ==
    ASSUME NEW table, WellKeyed(table), NEW t, "id" \in DOMAIN t, t.id \in Id
    PROVE  WellKeyed(Put(table, t))
BY DEF WellKeyed, Put

(* DELETE keeps the table keyed by its payloads.                            *)
LEMMA DropKeyed ==
    ASSUME NEW table, WellKeyed(table), NEW key
    PROVE  WellKeyed(Drop(table, key))
BY DEF WellKeyed, Drop

(* A status write leaves the id alone.                                      *)
LEMMA SetStatusKeepsId ==
    ASSUME NEW t, "id" \in DOMAIN t, NEW s
    PROVE  "id" \in DOMAIN SetStatusField(t, s) /\ SetStatusField(t, s).id = t.id
BY DEF SetStatusField

(* A create's payload has the id it was given.                              *)
LEMMA NewTaskKeepsId ==
    ASSUME NEW c, NEW id
    PROVE  "id" \in DOMAIN NewTask(c, id) /\ NewTask(c, id).id = id
<1> DEFINE t == BuildNewTask(id, c.priority)
<1>1. "id" \in DOMAIN t /\ t.id = id
  BY DEF BuildNewTask
<1> HIDE DEF t
<1>2. NewTask(c, id) \in {t, SetStatusField(t, c.status)}
  BY DEF NewTask, t
<1> QED  BY <1>1, <1>2, SetStatusKeepsId

(* A patch that does not rename the task leaves the id alone.               *)
LEMMA ApplyPatchKeepsId ==
    ASSUME NEW t, "id" \in DOMAIN t, NEW patch,
           "custom" \in DOMAIN patch => "id" \notin DOMAIN patch["custom"]
    PROVE  "id" \in DOMAIN ApplyPatch(t, patch) /\ ApplyPatch(t, patch).id = t.id
<1> DEFINE Given(field, default) == IF field \in DOMAIN patch THEN patch[field] ELSE default
           moved == IF "status" \in DOMAIN patch THEN SetStatusField(t, patch["status"]) ELSE t
           plain == [moved EXCEPT
                       !.priority = IF "priority" \in DOMAIN patch
                                    THEN CanonicalPriority(patch["priority"]) ELSE @,
                       !.tags     = (Given("labels", @) \ Given("labels_remove", {}))
                                        \cup Given("labels_add", {}),
                       !.assignee = Given("assignee", @)]
           flat  == [field \in FlatFields \cap DOMAIN patch |-> patch[field]]
           custom == Given("custom", <<>>)
<1>1. "id" \in DOMAIN moved /\ moved.id = t.id
  BY SetStatusKeepsId
<1>2. "id" \in DOMAIN plain /\ plain.id = t.id
  <2> HIDE DEF moved
  <2> QED  BY <1>1
<1>3. "id" \notin DOMAIN flat
  BY DEF FlatFields
<1>4. "id" \notin DOMAIN custom
  <2>1. DOMAIN << >> = 1 .. 0
    BY SMT
  <2>2. "id" \notin 1 .. 0
    BY SMT
  <2> QED  BY <2>1, <2>2
<1>5. ApplyPatch(t, patch) = Overlay(flat, Overlay(custom, plain))
  BY DEF ApplyPatch
<1> HIDE DEF flat, custom, plain
<1> QED  BY <1>2, <1>3, <1>4, <1>5 DEF Overlay

(* Whatever its verb, a modifier writes back the row it has read.           *)
LEMMA ModifiedKeepsId ==
    ASSUME NEW c, NamesItsRow(c), c.verb \in Modifiers, NEW t, "id" \in DOMAIN t
    PROVE  "id" \in DOMAIN Modified(c, t) /\ Modified(c, t).id = t.id
<1>1. "id" \in DOMAIN Edited(c, t) /\ Edited(c, t).id = t.id
  <2>1. CASE c.verb = "update"
    <3>1. Edited(c, t) = ApplyPatch(t, c.patch)
      BY <2>1 DEF Edited
    <3> QED  BY <2>1, <3>1, ApplyPatchKeepsId DEF NamesItsRow
  <2>2. CASE c.verb = "subject_update"
    <3> DEFINE p == SubjectPatchToValue(c.patch)
    <3>1. Edited(c, t) = ApplyPatch(t, p)
      BY <2>2 DEF Edited
    <3>2. "custom" \in DOMAIN p => "custom" \in DOMAIN c.patch /\ p["custom"] = c.patch["custom"]
      BY DEF SubjectPatchToValue
    <3>3. "custom" \in DOMAIN p => "id" \notin DOMAIN p["custom"]
      BY <2>2, <3>2 DEF NamesItsRow
    <3> HIDE DEF p
    <3> QED  BY <3>1, <3>3, ApplyPatchKeepsId
  <2>3. CASE c.verb = "assign"
    BY <2>3 DEF Edited
  <2>4. CASE c.verb = "status"
    <3>1. Edited(c, t) = SetStatusField(t, c.status)
      BY <2>4 DEF Edited
    <3> QED  BY <3>1, SetStatusKeepsId
  <2>5. CASE c.verb = "add_checklist_item"
    BY <2>5 DEF Edited, AddChecklistItem
  <2>6. CASE c.verb = "update_checklist_item"
    BY <2>6 DEF Edited, UpdateChecklistItem
  <2>7. CASE c.verb = "add_dependency"
    BY <2>7 DEF Edited, AddDependency
  <2>8. CASE c.verb = "remove_dependency"
    BY <2>8 DEF Edited, RemoveDependency
  <2> QED  BY <2>1, <2>2, <2>3, <2>4, <2>5, <2>6, <2>7, <2>8 DEF Modifiers
<1> DEFINE e == Edited(c, t)
<1>2. Modified(c, t) = StampUpdate(e)
  BY DEF Modified
<1> HIDE DEF e
<1> QED  BY <1>1, <1>2 DEF StampUpdate, e

-----------------------------------------------------------------------------
(* Orders and lists.                                                        *)

IsStrictTotalOrder(before, S) ==
    /\ \A x \in S : <<x, x>> \notin before
    /\ \A x, y, z \in S : <<x, y>> \in before /\ <<y, z>> \in before => <<x, z>> \in before
    /\ \A x, y \in S : x = y \/ <<x, y>> \in before \/ <<y, x>> \in before

(* Every element of a finite set has one place in its order, and the places *)
(* are in that order.                                                       *)
LEMMA InOrderSorts ==
    ASSUME NEW S, IsFiniteSet(S), NEW before, IsStrictTotalOrder(before, S)
    PROVE  LET list == InOrder(S, before)
           IN  /\ Cardinality(S) \in Nat
               /\ list \in [1 .. Cardinality(S) -> S]
               /\ \A x \in S : \E n \in DOMAIN list : list[n] = x
               /\ \A m, n \in DOMAIN list : <<list[m], list[n]>> \in before <=> m < n
<1> DEFINE list == InOrder(S, before)
           size == Cardinality(S)
           Below(x) == {y \in S : <<y, x>> \in before}
           rank == [x \in S |-> Cardinality(Below(x)) + 1]
<1>1. size \in Nat
  BY FS_CardinalityType
<1>2. \A x \in S : /\ IsFiniteSet(Below(x)) /\ Cardinality(Below(x)) \in Nat
                   /\ Cardinality(Below(x)) < size
  <2> SUFFICES ASSUME NEW x \in S
               PROVE  /\ IsFiniteSet(Below(x)) /\ Cardinality(Below(x)) \in Nat
                      /\ Cardinality(Below(x)) < size
    OBVIOUS
  <2>1. Below(x) \in SUBSET S /\ Below(x) # S
    BY DEF IsStrictTotalOrder
  <2> HIDE DEF Below
  <2>2. /\ IsFiniteSet(Below(x))
        /\ Cardinality(Below(x)) <= size
        /\ Cardinality(Below(x)) # size
    BY <2>1, FS_Subset
  <2>3. Cardinality(Below(x)) \in Nat
    BY <2>2, FS_CardinalityType
  <2> HIDE DEF size
  <2> QED  BY <1>1, <2>2, <2>3
<1>3. ASSUME NEW x \in S, NEW y \in S, <<x, y>> \in before
      PROVE  Cardinality(Below(x)) < Cardinality(Below(y))
  <2>1. Below(x) \in SUBSET Below(y) /\ Below(x) # Below(y)
    BY <1>3 DEF IsStrictTotalOrder
  <2> HIDE DEF Below
  <2>2. /\ Cardinality(Below(x)) <= Cardinality(Below(y))
        /\ Cardinality(Below(x)) # Cardinality(Below(y))
    BY <1>2, <2>1, FS_Subset
  <2> QED  BY <1>2, <2>2
<1> HIDE DEF Below, size
<1>4. /\ rank \in [S -> 1 .. size]
      /\ \A x \in S : rank[x] = Cardinality(Below(x)) + 1
      /\ \A x, y \in S : <<x, y>> \in before => rank[x] < rank[y]
  BY <1>1, <1>2, <1>3
<1> HIDE DEF rank
<1>5. rank \in Injection(S, 1 .. size) /\ rank \in Surjection(S, 1 .. size)
  <2>1. ASSUME NEW x \in S, NEW y \in S, x # y PROVE rank[x] # rank[y]
    <3>1. rank[x] \in Int /\ rank[y] \in Int
      BY <1>1, <1>4
    <3>2. <<x, y>> \in before \/ <<y, x>> \in before
      BY <2>1 DEF IsStrictTotalOrder
    <3>3. rank[x] < rank[y] \/ rank[y] < rank[x]
      BY <1>4, <3>2
    <3> QED  BY <3>1, <3>3
  <2>3. rank \in Injection(S, 1 .. size)
    BY <1>4, <2>1 DEF Injection, IsInjective
  <2>4. IsFiniteSet(1 .. size) /\ Cardinality(1 .. size) = size
    <3>1. \A a, b \in Int : IsFiniteSet(a .. b) /\ Cardinality(a .. b) = IF a > b THEN 0 ELSE b - a + 1
      BY FS_Interval
    <3> QED  BY <1>1, <3>1
  <2> QED  BY <2>3, <2>4, FS_Injection DEF size
<1>6. \A n \in 1 .. size : \E x \in S : rank[x] = n
  BY <1>5 DEF Surjection
<1>7. ASSUME NEW n \in 1 .. size PROVE list[n] \in S /\ rank[list[n]] = n
  <2>1. \E x \in S : Cardinality(Below(x)) = n - 1
    <3>1. PICK x \in S : rank[x] = n
      BY <1>6
    <3>2. Cardinality(Below(x)) \in Nat /\ n = Cardinality(Below(x)) + 1
      BY <1>2, <1>4, <3>1
    <3> QED  BY <3>2
  <2>2. list[n] = CHOOSE x \in S : Cardinality(Below(x)) = n - 1
    BY DEF InOrder, Below, size
  <2>3. list[n] \in S /\ Cardinality(Below(list[n])) = n - 1
    BY <2>1, <2>2
  <2> QED  BY <1>1, <1>2, <1>4, <2>3
<1>8. DOMAIN list = 1 .. size /\ list \in [1 .. size -> S]
  <2> DEFINE pick(n) == CHOOSE x \in S : Cardinality(Below(x)) = n - 1
  <2>1. list = [n \in 1 .. size |-> pick(n)]
    BY DEF InOrder, size, Below
  <2> HIDE DEF list
  <2> QED  BY <1>7, <2>1
<1> HIDE DEF list
<1>9. ASSUME NEW x \in S PROVE \E n \in DOMAIN list : list[n] = x
  <2>1. rank[x] \in 1 .. size
    BY <1>4
  <2>2. list[rank[x]] \in S /\ rank[list[rank[x]]] = rank[x]
    BY <1>7, <2>1
  <2>3. list[rank[x]] = x
    BY <1>5, <2>2 DEF Injection, IsInjective
  <2> QED  BY <1>8, <2>1, <2>3
<1>10. ASSUME NEW m \in DOMAIN list, NEW n \in DOMAIN list
      PROVE  <<list[m], list[n]>> \in before <=> m < n
  <2>1. list[m] \in S /\ rank[list[m]] = m /\ list[n] \in S /\ rank[list[n]] = n
    BY <1>7, <1>8
  <2>2. <<list[m], list[n]>> \in before => m < n
    BY <1>4, <2>1
  <2>3. <<list[n], list[m]>> \in before => n < m
    BY <1>4, <2>1
  <2> QED  BY <1>1, <1>2, <1>8, <2>1, <2>2, <2>3 DEF IsStrictTotalOrder
<1> QED  BY <1>1, <1>8, <1>9, <1>10 DEF list, size

(* Indices in their order are as many as they were, each once, ascending.   *)
LEMMA IndicesInOrder ==
    ASSUME NEW indices, indices \subseteq Int, IsFiniteSet(indices)
    PROVE  LET kept == InOrder(indices, {p \in indices \X indices : p[1] < p[2]})
               size == Cardinality(indices)
           IN  /\ size \in Nat /\ kept \in [1 .. size -> indices]
               /\ \A k \in indices : \E n \in 1 .. size : kept[n] = k
               /\ \A m, n \in 1 .. size : kept[m] < kept[n] <=> m < n
<1> DEFINE before == {p \in indices \X indices : p[1] < p[2]}
           kept == InOrder(indices, before)
           size == Cardinality(indices)
<1>1. \A x, y \in indices : <<x, y>> \in before <=> x < y
  OBVIOUS
<1> HIDE DEF before
<1>2. IsStrictTotalOrder(before, indices)
  BY <1>1 DEF IsStrictTotalOrder
<1>3. /\ size \in Nat /\ kept \in [1 .. size -> indices]
      /\ \A k \in indices : \E n \in DOMAIN kept : kept[n] = k
      /\ \A m, n \in DOMAIN kept : <<kept[m], kept[n]>> \in before <=> m < n
  BY <1>2, InOrderSorts
<1> HIDE DEF kept, size
<1>4. DOMAIN kept = 1 .. size /\ \A n \in 1 .. size : kept[n] \in indices
  BY <1>3
<1>5. \A m, n \in 1 .. size : kept[m] < kept[n] <=> m < n
  BY <1>1, <1>3, <1>4
<1> QED  BY <1>3, <1>4, <1>5 DEF kept, size, before

(* Retaining some elements of a list keeps those and no others, and brings  *)
(* no duplicate where there was none.                                       *)
LEMMA SubsequenceRetains ==
    ASSUME NEW T, NEW list \in Seq(T), NEW indices \in SUBSET DOMAIN list
    PROVE  LET sub == Subsequence(list, indices)
           IN  /\ sub \in Seq(T)
               /\ \A k \in indices : \E n \in DOMAIN sub : sub[n] = list[k]
               /\ \A n \in DOMAIN sub : \E k \in indices : sub[n] = list[k]
               /\ IsInjective(list) => IsInjective(sub)
<1> DEFINE kept == InOrder(indices, {p \in indices \X indices : p[1] < p[2]})
           size == Cardinality(indices)
           sub == Subsequence(list, indices)
<1>1. DOMAIN list = 1 .. Len(list) /\ Len(list) \in Nat
  OBVIOUS
<1>2. indices \subseteq Int
  BY <1>1
<1>3. IsFiniteSet(indices)
  <2>1. \A n \in Nat : IsFiniteSet(1 .. n)
    BY FS_Interval
  <2> QED  BY <1>1, <2>1, FS_Subset
<1>4. /\ size \in Nat /\ kept \in [1 .. size -> indices]
      /\ \A k \in indices : \E n \in 1 .. size : kept[n] = k
      /\ \A m, n \in 1 .. size : kept[m] < kept[n] <=> m < n
  BY <1>2, <1>3, IndicesInOrder
<1>5. sub = [n \in DOMAIN kept |-> list[kept[n]]]
  BY DEF Subsequence
<1> HIDE DEF kept, size, sub
<1>6. DOMAIN sub = 1 .. size /\ DOMAIN kept = 1 .. size
  BY <1>4, <1>5
<1>7. \A n \in DOMAIN sub : kept[n] \in indices /\ sub[n] = list[kept[n]]
  BY <1>4, <1>5, <1>6
<1>8. sub \in Seq(T)
  <2>1. \A k \in indices : list[k] \in T
    BY <1>1
  <2>2. sub \in [1 .. size -> T]
    BY <1>5, <1>6, <1>7, <2>1
  <2> QED  BY <1>4, <2>2
<1>9. ASSUME IsInjective(list) PROVE IsInjective(sub)
  <2> SUFFICES ASSUME NEW m \in DOMAIN sub, NEW n \in DOMAIN sub, sub[m] = sub[n]
               PROVE  m = n
    BY DEF IsInjective
  <2>1. kept[m] = kept[n]
    BY <1>7, <1>9 DEF IsInjective
  <2>2. kept[n] \in Int /\ m \in Int /\ n \in Int
    BY <1>2, <1>4, <1>6, <1>7
  <2>3. ~ (m < n) /\ ~ (n < m)
    BY <1>4, <1>6, <2>1, <2>2
  <2> QED  BY <2>2, <2>3
<1>10. \A k \in indices : \E n \in DOMAIN sub : sub[n] = list[k]
  BY <1>4, <1>6, <1>7
<1> QED  BY <1>7, <1>8, <1>9, <1>10 DEF sub

-----------------------------------------------------------------------------
(* The type of a payload.                                                   *)

Fields == {"id", "status", "priority", "assignee", "tags", "paused", "cancelled", "blocked_at",
           "blocked_reason", "checklist", "dependencies", "metadata"}

(* A task is the record of its fields, each of its own type.                *)
LEMMA TaskFields ==
    ASSUME NEW t, t = [k \in DOMAIN t |-> t[k]]
    PROVE  t \in Task <=>
             /\ DOMAIN t = Fields
             /\ t.id \in Id /\ t.status \in STRING /\ t.priority \in STRING
             /\ t.assignee \in STRING /\ t.tags \in SUBSET STRING
             /\ t.paused \in BOOLEAN /\ t.cancelled \in BOOLEAN
             /\ t.blocked_at \in BOOLEAN /\ t.blocked_reason \in BOOLEAN
             /\ t.checklist \in Seq(ChecklistItem) /\ t.dependencies \in Seq(Id)
             /\ t.metadata \in Metadata
BY DEF Task, Fields

(* A canonical priority is a text.                                          *)
LEMMA PriorityIsText ==
    ASSUME NEW priority \in STRING
    PROVE  CanonicalPriority(priority) \in STRING
<1>1. CanonicalPriority(priority) \in {"critical", "high", "medium", "low", priority}
  BY DEF CanonicalPriority
<1> QED  BY <1>1, LiteralsAreTexts

(* The payload a create builds is a task.                                   *)
LEMMA BuiltIsTask ==
    ASSUME NEW id \in Id, NEW priority \in STRING
    PROVE  BuildNewTask(id, priority) \in Task
<1>1. CanonicalPriority(priority) \in STRING /\ "backlog" \in STRING /\ "" \in STRING
  BY PriorityIsText, LiteralsAreTexts
<1>2. << >> \in Seq(ChecklistItem) /\ << >> \in Seq(Id)
  OBVIOUS
<1>3. [present |-> TRUE, stamps |-> {"created_at", "updated_at"}] \in Metadata
  BY DEF Metadata, Stamps
<1> QED  BY <1>1, <1>2, <1>3 DEF BuildNewTask, Task

(* A status write leaves a task.                                            *)
LEMMA StatusIsTask ==
    ASSUME NEW t \in Task, NEW s \in STRING
    PROVE  SetStatusField(t, s) \in Task
<1> DEFINE u == SetStatusField(t, s)
           stamps == IF s \in Finished /\ t.metadata.present
                     THEN t.metadata.stamps \cup {"completed_at"} ELSE t.metadata.stamps
           metadata == [t.metadata EXCEPT !.stamps = stamps]
<1>1. metadata \in Metadata
  BY DEF Task, Metadata, Stamps
<1>2. t.blocked_at \in BOOLEAN /\ t.blocked_reason \in BOOLEAN /\ t.paused \in BOOLEAN
      /\ t.cancelled \in BOOLEAN
  BY DEF Task
<1>3. u = [t EXCEPT !.status = s, 
                    !.blocked_at = (s = "blocked") \/ (t.blocked_at /\ s \notin Active),
                    !.blocked_reason = t.blocked_reason /\ s \notin Active,
                    !.paused = t.paused /\ s \notin Active,
                    !.cancelled = t.cancelled \/ s = "cancelled",
                    !.metadata = metadata]
  BY DEF SetStatusField
<1>4. \E a, b, p, c \in BOOLEAN : u = [t EXCEPT !.status = s, !.blocked_at = a, !.blocked_reason = b, !.paused = p, !.cancelled = c, !.metadata = metadata]
  BY <1>2, <1>3
<1> HIDE DEF metadata, u
<1> QED  BY <1>1, <1>4 DEF Task, u

(* Stamping the update time leaves a task.                                  *)
LEMMA StampedIsTask ==
    ASSUME NEW t \in Task
    PROVE  StampUpdate(t) \in Task
<1>1. [present |-> TRUE, stamps |-> t.metadata.stamps \cup {"updated_at"}] \in Metadata
  BY DEF Task, Metadata, Stamps
<1> QED  BY <1>1 DEF StampUpdate, Task

(* Custom fields that leave one task a task leave any task one.             *)
LEMMA OverlayIsTask ==
    ASSUME NEW t \in Task, NEW f, NEW u \in Task, Overlay(f, u) \in Task
    PROVE  Overlay(f, t) \in Task
<1> DEFINE v == Overlay(f, t)
           w == Overlay(f, u)
<1>1. DOMAIN t = Fields /\ DOMAIN u = Fields /\ DOMAIN w = Fields
  BY DEF Task, Fields
<1>2. DOMAIN w = DOMAIN f \cup DOMAIN u /\ DOMAIN v = DOMAIN f \cup DOMAIN t
      /\ v = [k \in DOMAIN v |-> v[k]]
  BY DEF Overlay
<1>3. \A k \in Fields : v[k] = w[k] \/ v[k] = t[k]
  BY <1>1, <1>2 DEF Overlay
<1>4. DOMAIN v = Fields
  BY <1>1, <1>2
<1> HIDE DEF v, w
<1>5. /\ v.id \in {w.id, t.id} /\ v.status \in {w.status, t.status}
      /\ v.priority \in {w.priority, t.priority} /\ v.assignee \in {w.assignee, t.assignee}
      /\ v.tags \in {w.tags, t.tags} /\ v.paused \in {w.paused, t.paused}
      /\ v.cancelled \in {w.cancelled, t.cancelled}
      /\ v.blocked_at \in {w.blocked_at, t.blocked_at}
      /\ v.blocked_reason \in {w.blocked_reason, t.blocked_reason}
      /\ v.checklist \in {w.checklist, t.checklist}
      /\ v.dependencies \in {w.dependencies, t.dependencies}
      /\ v.metadata \in {w.metadata, t.metadata}
  BY <1>3 DEF Fields
<1>6. w \in Task
  BY DEF w
<1>7. /\ v.id \in Id /\ v.status \in STRING /\ v.priority \in STRING
      /\ v.assignee \in STRING /\ v.tags \in SUBSET STRING
      /\ v.paused \in BOOLEAN /\ v.cancelled \in BOOLEAN
      /\ v.blocked_at \in BOOLEAN /\ v.blocked_reason \in BOOLEAN
      /\ v.checklist \in Seq(ChecklistItem) /\ v.dependencies \in Seq(Id)
      /\ v.metadata \in Metadata
  BY <1>5, <1>6 DEF Task
<1>8. v \in Task
  BY <1>2, <1>4, <1>7, TaskFields DEF Fields
<1> QED  BY <1>8 DEF v

(* A typed patch leaves a task.                                             *)
LEMMA PatchIsTask ==
    ASSUME NEW t \in Task, NEW patch, TypedPatch(patch)
    PROVE  ApplyPatch(t, patch) \in Task
<1> DEFINE Given(field, default) == IF field \in DOMAIN patch THEN patch[field] ELSE default
           moved == IF "status" \in DOMAIN patch THEN SetStatusField(t, patch["status"]) ELSE t
           plain == [moved EXCEPT
                       !.priority = IF "priority" \in DOMAIN patch
                                    THEN CanonicalPriority(patch["priority"]) ELSE @,
                       !.tags     = (Given("labels", @) \ Given("labels_remove", {}))
                                        \cup Given("labels_add", {}),
                       !.assignee = Given("assignee", @)]
           flat  == [field \in FlatFields \cap DOMAIN patch |-> patch[field]]
           custom == Given("custom", <<>>)
           over == Overlay(custom, plain)
<1>1. moved \in Task
  BY StatusIsTask DEF TypedPatch
<1> HIDE DEF moved
<1>2. plain \in Task
  <2>1. Given("assignee", moved.assignee) \in STRING
    BY <1>1 DEF TypedPatch, Task
  <2>2. (Given("labels", moved.tags) \ Given("labels_remove", {})) \cup Given("labels_add", {})
           \in SUBSET STRING
    BY <1>1 DEF TypedPatch, Task
  <2>3. (IF "priority" \in DOMAIN patch
         THEN CanonicalPriority(patch["priority"]) ELSE moved.priority) \in STRING
    BY <1>1, PriorityIsText DEF TypedPatch, Task
  <2> QED  BY <1>1, <2>1, <2>2, <2>3 DEF Task
<1> HIDE DEF plain
<1>3. over \in Task
  <2>1. CASE "custom" \in DOMAIN patch
    <3>1. BuildNewTask(ZeroPadded(1), "medium") \in Task
      BY BuiltIsTask, ZeroPaddedType, LiteralsAreTexts
    <3> QED  BY <1>2, <2>1, <3>1, OverlayIsTask DEF TypedPatch
  <2>2. CASE "custom" \notin DOMAIN patch
    <3>1. DOMAIN << >> = {}
      <4>1. DOMAIN << >> = 1 .. 0
        BY SMT
      <4> QED  BY <4>1
    <3>2. over = [k \in DOMAIN plain |-> plain[k]]
      BY <2>2, <3>1 DEF Overlay
    <3> QED  BY <1>2, <3>2 DEF Task
  <2> QED  BY <2>1, <2>2
<1> HIDE DEF over
<1>4. Overlay(flat, over) \in Task
  <2>1. DOMAIN over = Fields
    BY <1>3 DEF Task, Fields
  <2>2. /\ DOMAIN flat \subseteq FlatFields /\ FlatFields \subseteq Fields
        /\ \A k \in DOMAIN flat : flat[k] \in BOOLEAN
    BY DEF TypedPatch, FlatFields, Fields
  <2> DEFINE v == Overlay(flat, over)
  <2>3. DOMAIN v = Fields /\ v = [k \in Fields |-> v[k]]
    BY <2>1, <2>2 DEF Overlay
  <2>4. \A k \in Fields \ FlatFields : v[k] = over[k]
    BY <2>1, <2>2 DEF Overlay
  <2>5. \A k \in FlatFields : v[k] \in BOOLEAN
    <3>1. \A k \in FlatFields : over[k] \in BOOLEAN
      BY <1>3 DEF Task, FlatFields
    <3> QED  BY <2>1, <2>2, <3>1 DEF Overlay
  <2> HIDE DEF v, flat
  <2>6. /\ v.id = over.id /\ v.status = over.status /\ v.priority = over.priority
        /\ v.assignee = over.assignee /\ v.tags = over.tags /\ v.checklist = over.checklist
        /\ v.dependencies = over.dependencies /\ v.metadata = over.metadata
    BY <2>4 DEF Fields, FlatFields
  <2>7. v.paused \in BOOLEAN /\ v.cancelled \in BOOLEAN /\ v.blocked_at \in BOOLEAN
        /\ v.blocked_reason \in BOOLEAN
    BY <2>5 DEF FlatFields
  <2>8. v \in Task
    BY <1>3, <2>3, <2>6, <2>7 DEF Task, Fields
  <2> QED  BY <2>8 DEF v
<1> QED  BY <1>4 DEF ApplyPatch, over, plain, moved

(* An id without its kind prefix is an id.                                  *)
LEMMA StripIsId ==
    ASSUME NEW wire \in Id
    PROVE  StripKindPrefix(wire) \in Id
BY DEF StripKindPrefix, Id

(* What the protocol's patch becomes is as typed as it was.                 *)
LEMMA SubjectPatchTyped ==
    ASSUME NEW patch, TypedPatch(patch)
    PROVE  TypedPatch(SubjectPatchToValue(patch))
<1> DEFINE p == SubjectPatchToValue(patch)
           texts == {"status", "priority", "assignee"}
           sets == {"labels", "labels_add", "labels_remove"}
<1>2. /\ DOMAIN p = DOMAIN patch \cap {"status", "assignee", "labels_add", "labels_remove", "custom"}
      /\ \A f \in DOMAIN p : f # "status" => p[f] = patch[f]
      /\ "status" \in DOMAIN p => p["status"] = NativeStatus(patch["status"])
  BY DEF SubjectPatchToValue
<1> HIDE DEF p
<1>3. "status" \in DOMAIN p => p["status"] \in STRING
  BY <1>2, LiteralsAreTexts DEF TypedPatch, NativeStatus
<1>4. \A f \in texts \cap DOMAIN p : p[f] \in STRING
  BY <1>2, <1>3 DEF TypedPatch
<1>5. \A f \in sets \cap DOMAIN p : p[f] \in SUBSET STRING
  BY <1>2 DEF TypedPatch
<1>6. FlatFields \cap DOMAIN p = {}
  BY <1>2 DEF FlatFields
<1>7. "custom" \in DOMAIN p => "custom" \in DOMAIN patch /\ p["custom"] = patch["custom"]
  BY <1>2
<1> QED  BY <1>4, <1>5, <1>6, <1>7 DEF TypedPatch, p

(* Whatever its verb, a typed modifier makes a task of a task.              *)
LEMMA EditedIsTask ==
    ASSUME NEW t \in Task, NEW c, TypedCommand(c), c.verb \in Modifiers
    PROVE  Edited(c, t) \in Task
<1> DEFINE e == Edited(c, t)
<1>0. /\ t.checklist \in Seq(ChecklistItem) /\ t.dependencies \in Seq(Id)
      /\ t.checklist = [k \in DOMAIN t.checklist |-> t.checklist[k]]
  BY DEF Task
<1>1. CASE c.verb = "update"
  BY <1>1, PatchIsTask DEF Edited, TypedCommand
<1>2. CASE c.verb = "subject_update"
  <2>1. TypedPatch(SubjectPatchToValue(c.patch))
    BY <1>2, SubjectPatchTyped DEF TypedCommand
  <2> QED  BY <1>2, <2>1, PatchIsTask DEF Edited
<1>3. CASE c.verb = "assign"
  BY <1>3 DEF Edited, TypedCommand, Task
<1>4. CASE c.verb = "status"
  BY <1>4, StatusIsTask DEF Edited, TypedCommand
<1>5. CASE c.verb = "add_checklist_item"
  <2>1. [item |-> Len(t.checklist) + 1, completed |-> FALSE] \in ChecklistItem
    BY <1>0 DEF ChecklistItem
  <2>2. Append(t.checklist, [item |-> Len(t.checklist) + 1, completed |-> FALSE]) \in Seq(ChecklistItem)
    BY <1>0, <2>1
  <2> QED  BY <1>5, <2>2 DEF Edited, AddChecklistItem, Task
<1>6. CASE c.verb = "update_checklist_item"
  <2> DEFINE m == Min(ItemIndices(t, c.item))
             list == [t.checklist EXCEPT ![m].completed = c.completed]
  <2>1. e = [t EXCEPT !.checklist = list]
    BY <1>6 DEF Edited, UpdateChecklistItem
  <2>2. list \in Seq(ChecklistItem)
    <3> HIDE DEF m
    <3>1. \A x \in ChecklistItem : [x EXCEPT !.completed = c.completed] \in ChecklistItem
      BY <1>6 DEF TypedCommand, ChecklistItem
    <3>2. /\ DOMAIN list = 1 .. Len(t.checklist) /\ Len(t.checklist) \in Nat
          /\ \A k \in 1 .. Len(t.checklist) : t.checklist[k] \in ChecklistItem
      BY <1>0
    <3>3. \A k \in 1 .. Len(t.checklist) :
             list[k] \in {t.checklist[k], [t.checklist[k] EXCEPT !.completed = c.completed]}
      BY <3>2
    <3>4. list \in [1 .. Len(t.checklist) -> ChecklistItem]
      BY <3>1, <3>2, <3>3
    <3> HIDE DEF list
    <3> QED  BY <3>2, <3>4
  <2> HIDE DEF e, list
  <2>3. e \in Task
    BY <2>1, <2>2 DEF Task
  <2> QED  BY <2>3 DEF e
<1>7. CASE c.verb = "add_dependency"
  <2>1. Append(t.dependencies, StripKindPrefix(c.dependency)) \in Seq(Id)
    BY <1>0, <1>7, StripIsId DEF TypedCommand
  <2> QED  BY <1>7, <2>1 DEF Edited, AddDependency, Task
<1>8. CASE c.verb = "remove_dependency"
  <2> DEFINE kept == {k \in DOMAIN t.dependencies : t.dependencies[k] # StripKindPrefix(c.dependency)}
  <2>1. Subsequence(t.dependencies, kept) \in Seq(Id)
    BY <1>0, SubsequenceRetains
  <2> QED  BY <1>8, <2>1 DEF Edited, RemoveDependency, Task
<1> QED  BY <1>1, <1>2, <1>3, <1>4, <1>5, <1>6, <1>7, <1>8 DEF Modifiers

-----------------------------------------------------------------------------
(* What modifiers keep.                                                     *)

(* A patch whose custom fields leave the lists and the metadata alone keeps *)
(* both, up to the time of completion.                                      *)
LEMMA PatchKeepsLists ==
    ASSUME NEW t \in Task, NEW patch, TypedPatch(patch),
           "custom" \in DOMAIN patch =>
               DOMAIN patch["custom"] \cap {"checklist", "dependencies", "metadata"} = {}
    PROVE  LET u == ApplyPatch(t, patch)
           IN  /\ u.checklist = t.checklist /\ u.dependencies = t.dependencies
               /\ t.metadata.stamps \subseteq u.metadata.stamps
<1> DEFINE Given(field, default) == IF field \in DOMAIN patch THEN patch[field] ELSE default
           moved == IF "status" \in DOMAIN patch THEN SetStatusField(t, patch["status"]) ELSE t
           plain == [moved EXCEPT
                       !.priority = IF "priority" \in DOMAIN patch
                                    THEN CanonicalPriority(patch["priority"]) ELSE @,
                       !.tags     = (Given("labels", @) \ Given("labels_remove", {}))
                                        \cup Given("labels_add", {}),
                       !.assignee = Given("assignee", @)]
           flat  == [field \in FlatFields \cap DOMAIN patch |-> patch[field]]
           custom == Given("custom", <<>>)
           u == ApplyPatch(t, patch)
<1>1. /\ moved \in Task
      /\ moved.checklist = t.checklist /\ moved.dependencies = t.dependencies
      /\ t.metadata.stamps \subseteq moved.metadata.stamps
  <2>1. moved \in Task
    BY StatusIsTask DEF TypedPatch
  <2>2. t \in Task => t.metadata \in Metadata
    BY DEF Task
  <2> QED  BY <2>1, <2>2 DEF SetStatusField, Task, Metadata
<1> HIDE DEF moved
<1>2. /\ plain.checklist = moved.checklist /\ plain.dependencies = moved.dependencies
      /\ plain.metadata = moved.metadata /\ DOMAIN plain = DOMAIN moved
  BY <1>1 DEF Task
<1>3. {"checklist", "dependencies", "metadata"} \cap (DOMAIN flat \cup DOMAIN custom) = {}
  <2>1. DOMAIN << >> = {}
    <3>1. DOMAIN << >> = 1 .. 0
      BY SMT
    <3> QED  BY <3>1
  <2> QED  BY <2>1 DEF FlatFields
<1>4. u = Overlay(flat, Overlay(custom, plain))
  BY DEF ApplyPatch, moved
<1>5. {"checklist", "dependencies", "metadata"} \subseteq DOMAIN plain
  BY <1>1, <1>2 DEF Task
<1> HIDE DEF plain, flat, custom, u
<1>6. \A f \in {"checklist", "dependencies", "metadata"} : u[f] = plain[f]
  BY <1>3, <1>4, <1>5 DEF Overlay
<1>7. u.checklist = plain.checklist /\ u.dependencies = plain.dependencies
      /\ u.metadata = plain.metadata
  BY <1>6
<1> QED  BY <1>1, <1>2, <1>7 DEF u

(* What a modifier of a tidy caller makes of a tidy task is tidy, has lost  *)
(* no timestamp, and no dependency but the one that is removed.             *)
LEMMA ModifiedIsTidy ==
    ASSUME NEW t, TidyTask(t), NEW c, TidyCommand(c), c.verb \in Modifiers
    PROVE  LET u == Modified(c, t)
           IN  /\ TidyTask(u)
               /\ t.metadata.stamps \subseteq u.metadata.stamps
               /\ \A d : /\ Contains(t.dependencies, d)
                         /\ c.verb = "remove_dependency" => StripKindPrefix(c.dependency) # d
                         => Contains(u.dependencies, d)
               /\ c.verb = "add_dependency" =>
                     Contains(u.dependencies, StripKindPrefix(c.dependency))
<1> DEFINE e == Edited(c, t)
           u == Modified(c, t)
           bare == StripKindPrefix(c.dependency)
           Numbered(list) == \A k \in DOMAIN list : list[k].item = k
           Left(list) ==
               /\ IsInjective(list)
               /\ \A d : /\ Contains(t.dependencies, d)
                         /\ c.verb = "remove_dependency" => bare # d
                         => Contains(list, d)
               /\ c.verb = "add_dependency" => Contains(list, bare)
<1>0. /\ t \in Task /\ Numbered(t.checklist) /\ IsInjective(t.dependencies)
      /\ t.checklist \in Seq(ChecklistItem) /\ t.dependencies \in Seq(Id)
      /\ t.metadata \in Metadata /\ TypedCommand(c)
  BY DEF TidyTask, TidyCommand, Task
<1>2. /\ Numbered(e.checklist) /\ Left(e.dependencies)
      /\ t.metadata.stamps \subseteq e.metadata.stamps
  <2>1. CASE c.verb = "update"
    <3>1. /\ e.checklist = t.checklist /\ e.dependencies = t.dependencies
          /\ t.metadata.stamps \subseteq e.metadata.stamps
      BY <1>0, <2>1, PatchKeepsLists DEF Edited, TypedCommand, TidyCommand, CustomFields
    <3> HIDE DEF e
    <3> QED  BY <1>0, <2>1, <3>1
  <2>2. CASE c.verb = "subject_update"
    <3> DEFINE p == SubjectPatchToValue(c.patch)
    <3>1. TypedPatch(p)
      BY <1>0, <2>2, SubjectPatchTyped DEF TypedCommand
    <3>2. "custom" \in DOMAIN p => "custom" \in DOMAIN c.patch /\ p["custom"] = c.patch["custom"]
      BY DEF SubjectPatchToValue
    <3>3. "custom" \in DOMAIN p =>
             DOMAIN p["custom"] \cap {"checklist", "dependencies", "metadata"} = {}
      BY <2>2, <3>2 DEF TidyCommand, CustomFields
    <3>4. e = ApplyPatch(t, p)
      BY <2>2 DEF Edited
    <3> HIDE DEF p, e
    <3>5. /\ e.checklist = t.checklist /\ e.dependencies = t.dependencies
          /\ t.metadata.stamps \subseteq e.metadata.stamps
      BY <1>0, <3>1, <3>3, <3>4, PatchKeepsLists
    <3> QED  BY <1>0, <2>2, <3>5
  <2>3. CASE c.verb = "assign"
    <3>1. e.checklist = t.checklist /\ e.dependencies = t.dependencies /\ e.metadata = t.metadata
      BY <1>0, <2>3 DEF Edited, Task
    <3> HIDE DEF e
    <3> QED  BY <1>0, <2>3, <3>1
  <2>4. CASE c.verb = "status"
    <3>1. /\ e.checklist = t.checklist /\ e.dependencies = t.dependencies
          /\ t.metadata.stamps \subseteq e.metadata.stamps
      BY <1>0, <2>4 DEF Edited, SetStatusField, Task, Metadata
    <3> HIDE DEF e
    <3> QED  BY <1>0, <2>4, <3>1
  <2>5. CASE c.verb = "add_checklist_item"
    <3> DEFINE n == Len(t.checklist) + 1
               list == Append(t.checklist, [item |-> n, completed |-> FALSE])
    <3>1. e.checklist = list /\ e.dependencies = t.dependencies /\ e.metadata = t.metadata
      BY <1>0, <2>5 DEF Edited, AddChecklistItem, Task
    <3>2. Numbered(list)
      BY <1>0
    <3> HIDE DEF e, list
    <3> QED  BY <1>0, <2>5, <3>1, <3>2
  <2>6. CASE c.verb = "update_checklist_item"
    <3> DEFINE m == Min(ItemIndices(t, c.item))
               list == [t.checklist EXCEPT ![m].completed = c.completed]
    <3>1. e.checklist = list /\ e.dependencies = t.dependencies /\ e.metadata = t.metadata
      BY <1>0, <2>6 DEF Edited, UpdateChecklistItem, Task
    <3>2. Numbered(list)
      <4> HIDE DEF m
      <4>1. \A x \in ChecklistItem : [x EXCEPT !.completed = c.completed].item = x.item
        BY DEF ChecklistItem
      <4>2. DOMAIN list = DOMAIN t.checklist /\ \A k \in DOMAIN list : t.checklist[k] \in ChecklistItem
        BY <1>0
      <4>3. \A k \in DOMAIN list :
               list[k] \in {t.checklist[k], [t.checklist[k] EXCEPT !.completed = c.completed]}
        BY <4>2
      <4> QED  BY <1>0, <4>1, <4>2, <4>3
    <3> HIDE DEF e, list
    <3> QED  BY <1>0, <2>6, <3>1, <3>2
  <2>7. CASE c.verb = "add_dependency"
    <3> DEFINE list == IF Contains(t.dependencies, bare) THEN t.dependencies
                       ELSE Append(t.dependencies, bare)
    <3>1. e.checklist = t.checklist /\ e.dependencies = list /\ e.metadata = t.metadata
      BY <1>0, <2>7 DEF Edited, AddDependency, Task
    <3>2. Left(list)
      <4> HIDE DEF bare
      <4>1. CASE Contains(t.dependencies, bare)
        BY <1>0, <2>7, <4>1
      <4>2. CASE ~ Contains(t.dependencies, bare)
        <5> DEFINE l == Len(t.dependencies)
        <5>1. /\ l \in Nat /\ DOMAIN list = 1 .. l + 1 /\ Len(list) = l + 1
              /\ list[l + 1] = bare
              /\ \A k \in 1 .. l : list[k] = t.dependencies[k] /\ k \in DOMAIN t.dependencies
          BY <1>0, <4>2
        <5>2. \A k \in 1 .. l : list[k] # bare
          BY <4>2, <5>1 DEF Contains
        <5> HIDE DEF l, list
        <5>3. IsInjective(list)
          BY <1>0, <5>1, <5>2 DEF IsInjective
        <5>4. Contains(list, bare)
          BY <5>1 DEF Contains
        <5>5. \A d : Contains(t.dependencies, d) => Contains(list, d)
          BY <5>1 DEF Contains, l
        <5> QED  BY <2>7, <5>3, <5>4, <5>5
      <4> QED  BY <4>1, <4>2
    <3> HIDE DEF e, list
    <3> QED  BY <1>0, <2>7, <3>1, <3>2
  <2>8. CASE c.verb = "remove_dependency"
    <3> DEFINE kept == {k \in DOMAIN t.dependencies : t.dependencies[k] # bare}
               list == Subsequence(t.dependencies, kept)
    <3>1. e.checklist = t.checklist /\ e.dependencies = list /\ e.metadata = t.metadata
      BY <1>0, <2>8 DEF Edited, RemoveDependency, Task
    <3>2. Left(list)
      <4> HIDE DEF bare
      <4>1. /\ list \in Seq(Id) /\ IsInjective(list)
            /\ \A k \in kept : \E n \in DOMAIN list : list[n] = t.dependencies[k]
        <5>1. kept \in SUBSET DOMAIN t.dependencies
          OBVIOUS
        <5> HIDE DEF kept
        <5> QED  BY <1>0, <5>1, SubsequenceRetains
      <4>2. ASSUME NEW d, Contains(t.dependencies, d), bare # d PROVE Contains(list, d)
        <5>1. PICK k \in kept : t.dependencies[k] = d
          BY <1>0, <4>2 DEF Contains
        <5> HIDE DEF list, kept
        <5>2. PICK n \in DOMAIN list : list[n] = d
          BY <4>1, <5>1
        <5> QED  BY <4>1, <5>2 DEF Contains
      <4> QED  BY <2>8, <4>1, <4>2
    <3> HIDE DEF e, list
    <3> QED  BY <1>0, <2>8, <3>1, <3>2
  <2> QED  BY <2>1, <2>2, <2>3, <2>4, <2>5, <2>6, <2>7, <2>8 DEF Modifiers
<1>3. u \in Task /\ e \in Task
  BY <1>0, EditedIsTask, StampedIsTask DEF Modified
<1>4. /\ u.checklist = e.checklist /\ u.dependencies = e.dependencies
      /\ e.metadata.stamps \subseteq u.metadata.stamps
  <2> HIDE DEF e
  <2>1. u = StampUpdate(e)
    BY DEF Modified, e
  <2> QED  BY <1>3, <2>1 DEF StampUpdate, Task
<1> HIDE DEF e, u
<1> QED  BY <1>2, <1>3, <1>4 DEF TidyTask, u

(* A create's task is tidy and can be decoded.                              *)
LEMMA NewTaskIsTidy ==
    ASSUME NEW c, TypedCommand(c), c.verb = "create", NEW id \in Id
    PROVE  TidyTask(NewTask(c, id)) /\ Decodable(NewTask(c, id))
<1> DEFINE t == BuildNewTask(id, c.priority)
           u == SetStatusField(t, c.status)
<1>1. c.priority \in STRING /\ c.status \in STRING
  BY DEF TypedCommand
<1>2. t \in Task /\ u \in Task
  BY <1>1, BuiltIsTask, StatusIsTask
<1>3. /\ t.checklist = <<>> /\ t.dependencies = <<>>
      /\ t.metadata = [present |-> TRUE, stamps |-> {"created_at", "updated_at"}]
  BY DEF BuildNewTask
<1> HIDE DEF t
<1>4. /\ u.checklist = t.checklist /\ u.dependencies = t.dependencies
      /\ t.metadata.stamps \subseteq u.metadata.stamps
  BY <1>2, <1>3 DEF SetStatusField, Task
<1>5. DOMAIN << >> = 1 .. 0
  BY SMT
<1>6. NewTask(c, id) \in {t, u}
  BY DEF NewTask, t
<1> HIDE DEF u
<1> QED  BY <1>2, <1>3, <1>4, <1>5, <1>6 DEF TidyTask, Decodable, IsInjective
=============================================================================
