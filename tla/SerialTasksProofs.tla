-------------------------- MODULE SerialTasksProofs ---------------------------
(***************************************************************************)
(* Any sequence of commands, of any length, on a table of any size: ids    *)
(* are allocated above all others, and the life of a task leaves no mark   *)
(* and no timestamp behind that does not belong to it.                     *)
(***************************************************************************)
EXTENDS SerialTasks, TaskCommandsProofs

-----------------------------------------------------------------------------
(* Identifiers.                                                             *)

Keyed == WellKeyed(rows)

(* No command stores a row under another id than its payload's.             *)
LEMMA StepKeyed ==
    ASSUME Keyed, [Next]_rows
    PROVE  Keyed'
<1>1. ASSUME NEW c \in Commands, Create(c) PROVE Keyed'
  <2>1. NextSequentialId(DOMAIN rows) \in Id
    BY NextIdFresh DEF Keyed, WellKeyed
  <2> QED  BY <1>1, <2>1, NewTaskKeepsId, PutKeyed DEF Create, Keyed
<1>2. ASSUME NEW c \in Commands, Modify(c) PROVE Keyed'
  <2> DEFINE t == rows[RowKey(c)]
  <2>1. RowKey(c) \in DOMAIN rows /\ "id" \in DOMAIN t /\ t.id \in Id
    BY <1>2 DEF Modify, Keyed, WellKeyed
  <2>2. "id" \in DOMAIN Modified(c, t) /\ Modified(c, t).id = t.id
    BY <1>2, <2>1, SerialTasksAssumption, ModifiedKeepsId DEF Modify
  <2>3. rows' = Put(rows, Modified(c, t))
    BY <1>2 DEF Modify
  <2> HIDE DEF t
  <2> QED  BY <2>1, <2>2, <2>3, PutKeyed DEF Keyed
<1>3. ASSUME NEW c \in Commands, Replace(c) PROVE Keyed'
  BY <1>3, SerialTasksAssumption, PutKeyed DEF Replace, Keyed, NamesItsRow
<1>4. ASSUME NEW c \in Commands, Delete(c) PROVE Keyed'
  BY <1>4, DropKeyed DEF Delete, Keyed
<1>5. CASE UNCHANGED rows
  BY <1>5 DEF Keyed
<1> QED  BY <1>1, <1>2, <1>3, <1>4, <1>5 DEF Next

(* Every row is stored under the id its payload carries.                    *)
THEOREM RowsAreKeyed == Spec => []Keyed
<1>1. Init => Keyed
  BY SerialTasksAssumption DEF Init, Keyed
<1> QED  BY <1>1, StepKeyed, PTL DEF Spec

(* The next id is above every id of the store that a u32 can count past,    *)
(* whatever families, widths and sizes are stored.                          *)
THEOREM NextIdIsAboveAll == Spec => []NextIdAboveAll
<1>1. ASSUME Keyed PROVE NextIdAboveAll
  <2> DEFINE seqs == ParsedSeqs(DOMAIN rows)
             n == NextSeq(seqs)
  <2> SUFFICES ASSUME NEW i \in DOMAIN rows, IsSequential(i), i.num < U32Max
               PROVE  n > i.num
    <3>1. DOMAIN rows \in SUBSET Id
      BY <1>1 DEF Keyed, WellKeyed
    <3>2. seqs \subseteq Nat /\ \A s \in seqs : s <= U32Max
      BY <3>1, ParsedSeqsType
    <3>3. ZeroPadded(n).num = n
      BY DEF ZeroPadded
    <3> QED  BY <3>3 DEF NextIdAboveAll, NextSequentialId
  <2>1. DOMAIN rows \in SUBSET Id /\ i \in Id /\ i.num \in Nat
    BY <1>1 DEF Keyed, WellKeyed, Id
  <2>2. seqs \subseteq Nat /\ \A s \in seqs : s <= U32Max
    BY <2>1, ParsedSeqsType
  <2>3. U32Max \in Nat
    BY TaskIdsAssumption
  <2>4. i.num \in seqs
    BY <2>1, <2>3 DEF ParsedSeqs
  <2> HIDE DEF seqs
  <2>5. Max(seqs) \in seqs /\ \A s \in seqs : s <= Max(seqs)
    BY <2>2, <2>4, BoundedMax, TaskIdsAssumption
  <2>6. n \in {U32Max, Max(seqs) + 1}
    BY <2>4 DEF NextSeq
  <2>7. Max(seqs) \in Nat /\ i.num <= Max(seqs)
    BY <2>2, <2>4, <2>5
  <2> HIDE DEF n
  <2> QED  BY <2>1, <2>3, <2>6, <2>7
<1> QED  BY <1>1, RowsAreKeyed, PTL

(* As long as the u32 numbers last, a create inserts one row and leaves     *)
(* every other as it is.                                                    *)
THEOREM CreatesAddARow == Spec => CreateAddsARow
<1>1. ASSUME Keyed, NEW c \in Commands, Create(c), ~ Saturated(DOMAIN rows)
      PROVE  \E id \in DOMAIN rows' \ DOMAIN rows :
                \A i \in DOMAIN rows' : i = id \/ (i \in DOMAIN rows /\ rows'[i] = rows[i])
  <2> DEFINE id == NextSequentialId(DOMAIN rows)
             t == NewTask(c, id)
  <2>1. DOMAIN rows \in SUBSET Id
    BY <1>1 DEF Keyed, WellKeyed
  <2>2. ZeroPadded(U32Max) \notin DOMAIN rows
    <3>1. U32Max \in Nat
      BY TaskIdsAssumption
    <3> QED  BY <1>1, <3>1, ZeroPaddedType DEF Saturated, ParsedSeqs
  <2>3. id \notin DOMAIN rows
    BY <2>1, <2>2, NextIdFresh
  <2>4. t.id = id /\ rows' = Put(rows, t)
    BY <1>1, NewTaskKeepsId DEF Create
  <2> HIDE DEF id, t
  <2> QED  BY <2>3, <2>4 DEF Put
<1>2. ASSUME Keyed, [Next]_rows
      PROVE  [\A c \in Commands : Create(c) /\ ~ Saturated(DOMAIN rows) =>
                \E id \in DOMAIN rows' \ DOMAIN rows :
                   \A i \in DOMAIN rows' : i = id \/ (i \in DOMAIN rows /\ rows'[i] = rows[i])]_rows
  BY <1>1, <1>2
<1> QED  BY <1>2, RowsAreKeyed, PTL DEF Spec, CreateAddsARow

Bare == \A i \in DOMAIN rows : i.prefixes = 0

(* No row is ever stored under a prefixed id, unless a caller stores one.   *)
THEOREM IdsStayBare == ASSUME BareCallers PROVE Spec => []Bare
<1>1. Init => Bare
  BY DEF Init, Bare, BareCallers
<1>2. ASSUME Keyed, Bare, [Next]_rows PROVE Bare'
  <2>1. ASSUME NEW t, rows' = Put(rows, t), t.id.prefixes = 0 PROVE Bare'
    BY <1>2, <2>1 DEF Put, Bare
  <2>2. ASSUME NEW c \in Commands, Create(c) PROVE Bare'
    <3>1. NextSequentialId(DOMAIN rows).prefixes = 0
      BY DEF NextSequentialId, ZeroPadded
    <3> QED  BY <2>1, <2>2, <3>1, NewTaskKeepsId DEF Create
  <2>3. ASSUME NEW c \in Commands, Modify(c) PROVE Bare'
    <3> DEFINE t == rows[RowKey(c)]
    <3>1. RowKey(c) \in DOMAIN rows /\ "id" \in DOMAIN t /\ t.id = RowKey(c)
      BY <1>2, <2>3 DEF Modify, Keyed, WellKeyed
    <3>2. Modified(c, t).id = t.id
      BY <2>3, <3>1, SerialTasksAssumption, ModifiedKeepsId DEF Modify
    <3>3. rows' = Put(rows, Modified(c, t))
      BY <2>3 DEF Modify
    <3> HIDE DEF t
    <3> QED  BY <1>2, <2>1, <3>1, <3>2, <3>3 DEF Bare
  <2>4. ASSUME NEW c \in Commands, Replace(c) PROVE Bare'
    BY <2>1, <2>4 DEF Replace, BareCallers
  <2>5. ASSUME NEW c \in Commands, Delete(c) PROVE Bare'
    BY <1>2, <2>5 DEF Delete, Drop, Bare
  <2>6. CASE UNCHANGED rows
    BY <1>2, <2>6 DEF Bare
  <2> QED  BY <1>2, <2>2, <2>3, <2>4, <2>5, <2>6 DEF Next
<1> QED  BY <1>1, <1>2, RowsAreKeyed, PTL DEF Spec

(* Every task is then found under the id it is listed under.                *)
THEOREM ListedIdsAreReachable == ASSUME BareCallers PROVE Spec => []ListedIdsReachable
<1>1. ASSUME Keyed, Bare PROVE ListedIdsReachable
  <2> SUFFICES ASSUME NEW i \in DOMAIN rows PROVE StripKindPrefix(SubjectView(rows[i]).id) = i
    BY DEF ListedIdsReachable
  <2>1. i \in Id /\ rows[i].id = i /\ i.prefixes = 0
    BY <1>1 DEF Keyed, WellKeyed, Bare
  <2>2. SubjectView(rows[i]).id = AddKindPrefix(i)
    BY <2>1 DEF SubjectView
  <2>3. AddKindPrefix(i) = [i EXCEPT !.prefixes = 1]
    BY <2>1 DEF AddKindPrefix
  <2>4. StripKindPrefix([i EXCEPT !.prefixes = 1]) = i
    <3> DEFINE wire == [i EXCEPT !.prefixes = 1]
    <3>1. wire \in Id /\ wire.prefixes = 1 /\ i = [wire EXCEPT !.prefixes = 0]
      BY <2>1 DEF Id
    <3> HIDE DEF wire
    <3>2. StripKindPrefix(wire) = [wire EXCEPT !.prefixes = 0]
      BY <3>1 DEF StripKindPrefix
    <3> QED  BY <3>1, <3>2 DEF wire
  <2> QED  BY <2>2, <2>3, <2>4
<1> QED  BY <1>1, RowsAreKeyed, IdsStayBare, PTL

-----------------------------------------------------------------------------
(* The life of a task.                                                      *)

\* u is t after an edit that loses no timestamp of it.
KeepsStamps(t, u) == t.metadata.stamps \subseteq u.metadata.stamps

(* Whatever status it had, a status write leaves the marks and the stamp of *)
(* the new one.                                                             *)
LEMMA StatusFits ==
    ASSUME NEW t, OrderlyTask(t), NEW s
    PROVE  LET u == SetStatusField(t, s)
           IN  OrderlyTask(u) /\ KeepsStamps(t, u) /\ u.status = s
<1> DEFINE u == SetStatusField(t, s)
<1>1. /\ DOMAIN u = DOMAIN t
      /\ u.status = s
      /\ u.checklist = t.checklist
      /\ u.blocked_at = ((s = "blocked") \/ (t.blocked_at /\ s \notin Active))
      /\ u.blocked_reason = (t.blocked_reason /\ s \notin Active)
      /\ u.cancelled = (t.cancelled \/ s = "cancelled")
      /\ u.metadata = [t.metadata EXCEPT !.stamps = IF s \in Finished /\ t.metadata.present
                                                  THEN @ \cup {"completed_at"} ELSE @]
  BY DEF SetStatusField, OrderlyTask, OwnFields
<1>2. /\ u.metadata \in Metadata /\ u.metadata.present
      /\ KeepsStamps(t, u)
      /\ s \in Finished => "completed_at" \in u.metadata.stamps
  BY <1>1 DEF OrderlyTask, Metadata, Stamps, KeepsStamps
<1>3. "blocked" \notin Active
  BY DEF Active
<1> HIDE DEF u
<1>4. MarksFit(u)
  BY <1>1, <1>3 DEF MarksFit
<1> QED  BY <1>1, <1>2, <1>4 DEF OrderlyTask, CompletionFits, u

(* A create's payload is orderly.                                           *)
LEMMA NewTaskFits ==
    ASSUME NEW c, NEW id
    PROVE  OrderlyTask(NewTask(c, id)) /\ Decodable(NewTask(c, id))
<1> DEFINE t == BuildNewTask(id, c.priority)
<1>1. OrderlyTask(t) /\ Decodable(t)
  BY DEF BuildNewTask, OrderlyTask, OwnFields, Metadata, Stamps, MarksFit, CompletionFits,
         Active, Finished, Decodable
<1> HIDE DEF t
<1>2. OrderlyTask(SetStatusField(t, c.status)) /\ KeepsStamps(t, SetStatusField(t, c.status))
  BY <1>1, StatusFits
<1>3. NewTask(c, id) \in {t, SetStatusField(t, c.status)}
  BY DEF NewTask, t
<1> QED  BY <1>1, <1>2, <1>3 DEF Decodable, KeepsStamps

(* An orderly patch leaves an orderly task, in the status it asks for.      *)
LEMMA PatchFits ==
    ASSUME NEW t, OrderlyTask(t), NEW patch, OrderlyPatch(patch)
    PROVE  LET u == ApplyPatch(t, patch)
           IN  /\ OrderlyTask(u) /\ KeepsStamps(t, u)
               /\ "status" \in DOMAIN patch => u.status = patch["status"]
<1> DEFINE Given(field, default) == IF field \in DOMAIN patch THEN patch[field] ELSE default
           moved == IF "status" \in DOMAIN patch THEN SetStatusField(t, patch["status"]) ELSE t
           plain == [moved EXCEPT
                       !.priority = IF "priority" \in DOMAIN patch
                                    THEN CanonicalPriority(patch["priority"]) ELSE @,
                       !.tags     = (Given("labels", @) \ Given("labels_remove", {}))
                                        \cup Given("labels_add", {}),
                       !.assignee = Given("assignee", @)]
           flat  == [field \in FlatFields \cap DOMAIN patch |-> patch[field]]
           custom == Given("custom", <<>>)
           u == ApplyPatch(t, patch)
<1>1. /\ OrderlyTask(moved) /\ KeepsStamps(t, moved)
      /\ "status" \in DOMAIN patch => moved.status = patch["status"]
  BY StatusFits DEF KeepsStamps
<1>2. u = Overlay(flat, Overlay(custom, plain))
  BY DEF ApplyPatch
<1>3. /\ DOMAIN plain = DOMAIN moved
      /\ \A f \in OwnFields \cup {"id", "blocked_reason"} : plain[f] = moved[f]
  <2> HIDE DEF moved
  <2> QED  BY DEF OwnFields
<1>4. OwnFields \cap (DOMAIN flat \cup DOMAIN custom) = {}
  BY DEF OrderlyPatch, OwnFields, FlatFields
<1>5. "blocked_reason" \in DOMAIN flat \cup DOMAIN custom =>
         "status" \in DOMAIN patch /\ patch["status"] \notin Active
  BY DEF OrderlyPatch, FlatFields
<1> HIDE DEF flat, custom, plain, moved, u
<1>6. /\ OwnFields \cup {"id", "blocked_reason"} \subseteq DOMAIN u
      /\ \A f \in OwnFields : u[f] = moved[f]
      /\ "blocked_reason" \notin DOMAIN flat \cup DOMAIN custom =>
            u.blocked_reason = moved.blocked_reason
  BY <1>1, <1>2, <1>3, <1>4 DEF Overlay, OrderlyTask
<1>7. /\ u.status = moved.status /\ u.cancelled = moved.cancelled
      /\ u.blocked_at = moved.blocked_at /\ u.metadata = moved.metadata
      /\ u.checklist = moved.checklist
  BY <1>6 DEF OwnFields
<1>8. MarksFit(u)
  BY <1>1, <1>5, <1>6, <1>7 DEF MarksFit, OrderlyTask
<1>9. OrderlyTask(u)
  BY <1>1, <1>6, <1>7, <1>8 DEF OrderlyTask, CompletionFits
<1> QED  BY <1>1, <1>7, <1>9 DEF KeepsStamps, u

(* What the protocol's patch becomes is as orderly, and its status is shown *)
(* as it was asked for.                                                     *)
LEMMA SubjectPatchFits ==
    ASSUME NEW patch, OrderlyPatch(patch),
           "status" \in DOMAIN patch => patch["status"] \in ProtocolStatuses
    PROVE  LET p == SubjectPatchToValue(patch)
           IN  /\ OrderlyPatch(p)
               /\ "status" \in DOMAIN patch =>
                     "status" \in DOMAIN p /\ NormalizeStatus(p["status"]) = patch["status"]
<1> DEFINE p == SubjectPatchToValue(patch)
<1>1. /\ DOMAIN p = DOMAIN patch \cap {"status", "assignee", "labels_add", "labels_remove", "custom"}
      /\ "custom" \in DOMAIN p => p["custom"] = patch["custom"]
      /\ "status" \in DOMAIN p => p["status"] = NativeStatus(patch["status"])
  BY DEF SubjectPatchToValue
<1>2. "custom" \in DOMAIN p <=> "custom" \in DOMAIN patch
  BY <1>1
<1>3. "status" \in DOMAIN p <=> "status" \in DOMAIN patch
  BY <1>1
<1> HIDE DEF p
<1>4. \A s \in ProtocolStatuses : /\ NormalizeStatus(NativeStatus(s)) = s
                                  /\ s \notin Active => NativeStatus(s) \notin Active
  BY DEF ProtocolStatuses, NativeStatus, NormalizeStatus, Finished, Active
<1>5. OrderlyPatch(p)
  BY <1>1, <1>2, <1>3, <1>4 DEF OrderlyPatch
<1> QED  BY <1>1, <1>3, <1>4, <1>5 DEF p

(* Whatever its verb, a modifier leaves an orderly task orderly.            *)
LEMMA ModifiedFits ==
    ASSUME NEW t, OrderlyTask(t), NEW c, OrderlyCommand(c), c.verb \in Modifiers
    PROVE  OrderlyTask(Modified(c, t)) /\ KeepsStamps(t, Modified(c, t))
<1> DEFINE e == Edited(c, t)
<1>0. /\ "checklist" \in DOMAIN t /\ t.checklist \in Seq(ChecklistItem)
      /\ \A k \in DOMAIN t.checklist : t.checklist[k].item = k
  BY DEF OrderlyTask, OwnFields
<1>1. OrderlyTask(e) /\ KeepsStamps(t, e)
  <2>1. CASE c.verb = "update"
    <3>1. e = ApplyPatch(t, c.patch)
      BY <2>1 DEF Edited
    <3> HIDE DEF e
    <3> QED  BY <2>1, <3>1, PatchFits DEF OrderlyCommand
  <2>2. CASE c.verb = "subject_update"
    <3>1. e = ApplyPatch(t, SubjectPatchToValue(c.patch))
      BY <2>2 DEF Edited
    <3> HIDE DEF e
    <3> QED  BY <2>2, <3>1, PatchFits, SubjectPatchFits DEF OrderlyCommand
  <2>3. CASE c.verb = "assign"
    BY <2>3 DEF Edited, OrderlyTask, OwnFields, MarksFit, CompletionFits, KeepsStamps
  <2>4. CASE c.verb = "status"
    BY <2>4, StatusFits DEF Edited
  <2>5. CASE c.verb = "add_checklist_item"
    <3> DEFINE n == Len(t.checklist) + 1
               list == Append(t.checklist, [item |-> n, completed |-> FALSE])
    <3>1. e = [t EXCEPT !.checklist = list]
      BY <2>5 DEF Edited, AddChecklistItem
    <3>2. list \in Seq(ChecklistItem) /\ \A k \in DOMAIN list : list[k].item = k
      <4>1. n \in Nat /\ [item |-> n, completed |-> FALSE] \in ChecklistItem
        BY <1>0 DEF ChecklistItem
      <4> QED  BY <1>0, <4>1
    <3> HIDE DEF list, e
    <3> QED  BY <3>1, <3>2 DEF OrderlyTask, OwnFields, MarksFit, CompletionFits, KeepsStamps
  <2>6. CASE c.verb = "update_checklist_item"
    <3> DEFINE m == Min(ItemIndices(t, c.item))
               list == [t.checklist EXCEPT ![m].completed = c.completed]
    <3>1. e = [t EXCEPT !.checklist = list]
      BY <2>6 DEF Edited, UpdateChecklistItem
    <3>2. c.completed \in BOOLEAN
      BY <2>6 DEF OrderlyCommand
    <3> HIDE DEF m
    <3>3. list \in Seq(ChecklistItem) /\ \A k \in DOMAIN list : list[k].item = k
      <4>1. DOMAIN list = DOMAIN t.checklist /\ DOMAIN list = 1 .. Len(t.checklist)
        BY <1>0
      <4>2. \A k \in DOMAIN list : t.checklist[k] \in ChecklistItem
        BY <1>0, <4>1
      <4>3. \A k \in DOMAIN list :
               list[k] = t.checklist[k] \/ list[k] = [t.checklist[k] EXCEPT !.completed = c.completed]
        BY <4>1
      <4>4. \A k \in DOMAIN list : list[k] \in ChecklistItem /\ list[k].item = t.checklist[k].item
        BY <3>2, <4>2, <4>3 DEF ChecklistItem
      <4>5. Len(t.checklist) \in Nat
        BY <1>0
      <4>6. list \in [1 .. Len(t.checklist) -> ChecklistItem]
        BY <4>1, <4>4
      <4> HIDE DEF list
      <4>7. list \in Seq(ChecklistItem)
        BY <4>5, <4>6
      <4> QED  BY <1>0, <4>1, <4>4, <4>7
    <3> HIDE DEF list, e
    <3> QED  BY <3>1, <3>3 DEF OrderlyTask, OwnFields, MarksFit, CompletionFits, KeepsStamps
  <2>7. CASE c.verb \in {"add_dependency", "remove_dependency"}
    <3>1. e = t \/ \E list : e = [t EXCEPT !.dependencies = list]
      BY <2>7 DEF Edited, AddDependency, RemoveDependency
    <3> HIDE DEF e
    <3> QED  BY <3>1 DEF OrderlyTask, OwnFields, MarksFit, CompletionFits, KeepsStamps
  <2> QED  BY <2>1, <2>2, <2>3, <2>4, <2>5, <2>6, <2>7 DEF Modifiers
<1>2. Modified(c, t) = StampUpdate(e)
  BY DEF Modified
<1> HIDE DEF e
<1> QED
  BY <1>1, <1>2 DEF StampUpdate, OrderlyTask, OwnFields, Metadata, Stamps, MarksFit,
                    CompletionFits, KeepsStamps

Orderly == \A i \in DOMAIN rows : OrderlyTask(rows[i])

(* Hence every table that orderly callers can reach is orderly.             *)
LEMMA StepOrderly ==
    ASSUME OrderlyCallers, Orderly, [Next]_rows
    PROVE  Orderly'
<1>1. ASSUME NEW t, OrderlyTask(t), rows' = Put(rows, t) PROVE Orderly'
  BY <1>1 DEF Orderly, Put
<1>2. ASSUME NEW c \in Commands, Create(c) PROVE Orderly'
  BY <1>1, <1>2, NewTaskFits DEF Create
<1>3. ASSUME NEW c \in Commands, Modify(c) PROVE Orderly'
  BY <1>1, <1>3, ModifiedFits DEF Modify, Orderly, OrderlyCallers
<1>4. ASSUME NEW c \in Commands, Replace(c) PROVE Orderly'
  BY <1>1, <1>4 DEF Replace, OrderlyCallers, OrderlyCommand
<1>5. ASSUME NEW c \in Commands, Delete(c) PROVE Orderly'
  BY <1>5 DEF Delete, Drop, Orderly
<1>6. CASE UNCHANGED rows
  BY <1>6 DEF Orderly
<1> QED  BY <1>2, <1>3, <1>4, <1>5, <1>6 DEF Next

(* What orderly callers' tasks look like they go on looking like, whatever  *)
(* the sequence of their commands.                                          *)
THEOREM TasksStayOrderly == ASSUME OrderlyCallers PROVE Spec => []Orderly
<1>1. Init => Orderly
  BY DEF Init, Orderly, OrderlyCallers
<1>2. Orderly /\ [Next]_rows => Orderly'
  BY StepOrderly
<1> QED  BY <1>1, <1>2, PTL DEF Spec

(* The marks of a status are there with it and gone with the next one,      *)
(* along every sequence of commands of orderly callers.                     *)
THEOREM MarksAlwaysFollowStatus == ASSUME OrderlyCallers PROVE Spec => []MarksFollowStatus
<1>1. Orderly => MarksFollowStatus
  BY DEF Orderly, OrderlyTask, MarksFollowStatus
<1> QED  BY <1>1, TasksStayOrderly, PTL

(* A finished task has the time it was finished, by whichever verb.         *)
THEOREM CompletionIsStamped == ASSUME OrderlyCallers PROVE Spec => []CompletionStamped
<1>1. Orderly => CompletionStamped
  BY DEF Orderly, OrderlyTask, CompletionStamped
<1> QED  BY <1>1, TasksStayOrderly, PTL

(* No two checklist items of a task ever share an id: the k-th has id k.    *)
THEOREM ChecklistIdsAreUnique == ASSUME OrderlyCallers PROVE Spec => []ChecklistIdsUnique
<1>1. Orderly => ChecklistIdsUnique
  BY DEF Orderly, OrderlyTask, ChecklistIdsUnique
<1> QED  BY <1>1, TasksStayOrderly, PTL

(* What a modifier does to the table, with the task it read and the task it *)
(* stores.                                                                  *)
LEMMA ModifyWrites ==
    ASSUME OrderlyCallers, Keyed, Orderly, NEW c \in Commands, Modify(c)
    PROVE  LET t == rows[RowKey(c)] u == Modified(c, t)
           IN  /\ RowKey(c) \in DOMAIN rows
               /\ OrderlyTask(t) /\ OrderlyTask(u) /\ KeepsStamps(t, u)
               /\ DOMAIN rows' = DOMAIN rows
               /\ \A i \in DOMAIN rows : rows'[i] = IF i = RowKey(c) THEN u ELSE rows[i]
<1> DEFINE t == rows[RowKey(c)]
           u == Modified(c, t)
<1>1. /\ RowKey(c) \in DOMAIN rows /\ "id" \in DOMAIN t /\ t.id = RowKey(c)
      /\ OrderlyTask(t) /\ c.verb \in Modifiers
      /\ rows' = Put(rows, u)
  BY DEF Modify, Keyed, WellKeyed, Orderly
<1>2. u.id = t.id
  BY <1>1, SerialTasksAssumption, ModifiedKeepsId
<1>3. OrderlyTask(u) /\ KeepsStamps(t, u)
  BY <1>1, ModifiedFits DEF OrderlyCallers
<1> HIDE DEF t, u
<1>4. /\ DOMAIN rows' = DOMAIN rows
      /\ \A i \in DOMAIN rows : rows'[i] = IF i = RowKey(c) THEN u ELSE rows[i]
  BY <1>1, <1>2 DEF Put
<1> QED  BY <1>1, <1>3, <1>4 DEF t, u

(* No edit loses the time a task was created or completed, while creates    *)
(* have ids of their own.                                                   *)
THEOREM StampsAreAlwaysKept ==
    ASSUME OrderlyCallers
    PROVE  Spec /\ [](~ Saturated(DOMAIN rows)) => StampsAreKept
<1>1. ASSUME Keyed, Orderly, ~ Saturated(DOMAIN rows), NEW c \in Commands, Modify(c) \/ Create(c),
             NEW i \in DOMAIN rows \cap DOMAIN rows'
      PROVE  rows[i].metadata.stamps \subseteq rows'[i].metadata.stamps
  <2>1. CASE Modify(c)
    BY <1>1, <2>1, ModifyWrites DEF KeepsStamps
  <2>2. CASE Create(c)
    <3> DEFINE id == NextSequentialId(DOMAIN rows)
               t == NewTask(c, id)
    <3>1. DOMAIN rows \in SUBSET Id
      BY <1>1 DEF Keyed, WellKeyed
    <3>2. ZeroPadded(U32Max) \notin DOMAIN rows
      BY <1>1, ZeroPaddedType, TaskIdsAssumption DEF Saturated, ParsedSeqs
    <3>3. id \notin DOMAIN rows
      BY <3>1, <3>2, NextIdFresh
    <3>4. t.id = id /\ rows' = Put(rows, t)
      BY <2>2, NewTaskKeepsId DEF Create
    <3> HIDE DEF id, t
    <3>5. rows'[i] = rows[i]
      BY <3>3, <3>4 DEF Put
    <3> QED  BY <3>5
  <2> QED  BY <1>1, <2>1, <2>2
<1>2. ASSUME Keyed, Orderly, ~ Saturated(DOMAIN rows), [Next]_rows
      PROVE  [\A c \in Commands : Modify(c) \/ Create(c) =>
                 \A i \in DOMAIN rows \cap DOMAIN rows' :
                    rows[i].metadata.stamps \subseteq rows'[i].metadata.stamps]_rows
  BY <1>1, <1>2
<1> QED  BY <1>2, RowsAreKeyed, TasksStayOrderly, PTL DEF Spec, StampsAreKept

(* No edit makes a task undecodable.                                        *)
THEOREM DecodableIsAlwaysKept == ASSUME OrderlyCallers PROVE Spec => DecodableIsKept
<1>1. ASSUME Keyed, Orderly, NEW c \in Commands, Modify(c) \/ Create(c), NEW i \in DOMAIN rows'
      PROVE  (i \in DOMAIN rows /\ ~ Decodable(rows[i])) \/ Decodable(rows'[i])
  <2>1. CASE Modify(c)
    BY <1>1, <2>1, ModifyWrites DEF KeepsStamps, Decodable
  <2>2. CASE Create(c)
    <3> DEFINE t == NewTask(c, NextSequentialId(DOMAIN rows))
    <3>1. Decodable(t) /\ rows' = Put(rows, t)
      BY <2>2, NewTaskFits DEF Create
    <3> HIDE DEF t
    <3>2. rows'[i] = t \/ (i \in DOMAIN rows /\ rows'[i] = rows[i])
      BY <3>1 DEF Put
    <3> QED  BY <3>1, <3>2 DEF Decodable
  <2> QED  BY <1>1, <2>1, <2>2
<1>2. ASSUME Keyed, Orderly, [Next]_rows
      PROVE  [\A c \in Commands : Modify(c) \/ Create(c) =>
                 \A i \in DOMAIN rows' :
                    (i \in DOMAIN rows /\ ~ Decodable(rows[i])) \/ Decodable(rows'[i])]_rows
  BY <1>1, <1>2
<1> QED  BY <1>2, RowsAreKeyed, TasksStayOrderly, PTL DEF Spec, DecodableIsKept

(* The status that a subject/update asks for is the status the task shows,  *)
(* through the native spelling and back.                                    *)
THEOREM RequestedStatusAlwaysShows == ASSUME OrderlyCallers PROVE Spec => RequestedStatusShows
<1>1. ASSUME Keyed, Orderly, NEW c \in Commands, Modify(c), c.verb = "subject_update",
             "status" \in DOMAIN c.patch
      PROVE  SubjectView(rows'[RowKey(c)]).status = c.patch["status"]
  <2> DEFINE t == rows[RowKey(c)]
             p == SubjectPatchToValue(c.patch)
             e == ApplyPatch(t, p)
  <2>1. OrderlyCommand(c) /\ OrderlyTask(t)
    BY <1>1 DEF OrderlyCallers, Modify, Orderly
  <2>2. /\ OrderlyPatch(p) /\ "status" \in DOMAIN p
        /\ NormalizeStatus(p["status"]) = c.patch["status"]
    BY <1>1, <2>1, SubjectPatchFits DEF OrderlyCommand
  <2>3. OrderlyTask(e) /\ e.status = p["status"]
    BY <2>1, <2>2, PatchFits
  <2>4. Modified(c, t) = StampUpdate(e)
    BY <1>1 DEF Modified, Edited
  <2>5. rows'[RowKey(c)] = Modified(c, t)
    BY <1>1, ModifyWrites
  <2>6. NormalizeStatus("backlog") = NormalizeStatus(NoStatus)
    BY DEF NormalizeStatus, NoStatus, Finished
  <2> HIDE DEF e, p
  <2>7. StampUpdate(e).status = e.status
    BY <2>3 DEF StampUpdate, OrderlyTask, OwnFields
  <2> QED  BY <2>2, <2>3, <2>4, <2>5, <2>6, <2>7 DEF SubjectView
<1>2. ASSUME Keyed, Orderly, [Next]_rows
      PROVE  [\A c \in Commands :
                 Modify(c) /\ c.verb = "subject_update" /\ "status" \in DOMAIN c.patch =>
                    SubjectView(rows'[RowKey(c)]).status = c.patch["status"]]_rows
  BY <1>1, <1>2
<1> QED  BY <1>2, RowsAreKeyed, TasksStayOrderly, PTL DEF Spec, RequestedStatusShows

-----------------------------------------------------------------------------
(* Types and lists.                                                         *)

Typed == \A i \in DOMAIN rows : rows[i] \in Task

(* No command of typed callers stores what is not a task.                   *)
LEMMA StepTyped ==
    ASSUME TypedCallers, Keyed, Typed, [Next]_rows
    PROVE  Typed'
<1>1. ASSUME NEW t \in Task, rows' = Put(rows, t) PROVE Typed'
  BY <1>1 DEF Typed, Put
<1>2. ASSUME NEW c \in Commands, Create(c) PROVE Typed'
  <2>1. NextSequentialId(DOMAIN rows) \in Id
    BY NextIdFresh DEF Keyed, WellKeyed
  <2> QED  BY <1>1, <1>2, <2>1, NewTaskIsTidy DEF Create, TypedCallers, TidyTask
<1>3. ASSUME NEW c \in Commands, Modify(c) PROVE Typed'
  <2> DEFINE t == rows[RowKey(c)]
  <2>1. t \in Task /\ TypedCommand(c) /\ c.verb \in Modifiers /\ rows' = Put(rows, Modified(c, t))
    BY <1>3 DEF Modify, Typed, TypedCallers
  <2>2. Modified(c, t) \in Task
    BY <2>1, EditedIsTask, StampedIsTask DEF Modified
  <2> QED  BY <1>1, <2>1, <2>2
<1>4. ASSUME NEW c \in Commands, Replace(c) PROVE Typed'
  BY <1>1, <1>4 DEF Replace, TypedCallers, TypedCommand
<1>5. ASSUME NEW c \in Commands, Delete(c) PROVE Typed'
  BY <1>5 DEF Delete, Drop, Typed
<1>6. CASE UNCHANGED rows
  BY <1>6 DEF Typed
<1> QED  BY <1>2, <1>3, <1>4, <1>5, <1>6 DEF Next

(* Every stored payload is a task under its own id, whatever the sequence   *)
(* of the commands, when what callers send has the types of its fields.     *)
THEOREM TypeCorrect == ASSUME TypedCallers PROVE Spec => []TypeOK
<1>1. Init => Typed
  BY DEF Init, Typed, TypedCallers
<1>2. Keyed /\ Typed /\ [Next]_rows => Typed'
  BY StepTyped
<1>3. Keyed /\ Typed => TypeOK
  BY DEF Keyed, Typed, TypeOK
<1> QED  BY <1>1, <1>2, <1>3, RowsAreKeyed, PTL DEF Spec

Tidy == \A i \in DOMAIN rows : TidyTask(rows[i])

(* No command of tidy callers untidies a list.                              *)
LEMMA StepTidy ==
    ASSUME TidyCallers, Keyed, Tidy, [Next]_rows
    PROVE  Tidy'
<1>1. ASSUME NEW t, TidyTask(t), rows' = Put(rows, t) PROVE Tidy'
  BY <1>1 DEF Tidy, Put
<1>2. ASSUME NEW c \in Commands, Create(c) PROVE Tidy'
  <2>1. NextSequentialId(DOMAIN rows) \in Id
    BY NextIdFresh DEF Keyed, WellKeyed
  <2> QED  BY <1>1, <1>2, <2>1, NewTaskIsTidy DEF Create, TidyCallers, TidyCommand
<1>3. ASSUME NEW c \in Commands, Modify(c) PROVE Tidy'
  BY <1>1, <1>3, ModifiedIsTidy DEF Modify, Tidy, TidyCallers
<1>4. ASSUME NEW c \in Commands, Replace(c) PROVE Tidy'
  BY <1>1, <1>4 DEF Replace, TidyCallers, TidyCommand
<1>5. ASSUME NEW c \in Commands, Delete(c) PROVE Tidy'
  BY <1>5 DEF Delete, Drop, Tidy
<1>6. CASE UNCHANGED rows
  BY <1>6 DEF Tidy
<1> QED  BY <1>2, <1>3, <1>4, <1>5, <1>6 DEF Next

(* No task ever lists a dependency twice, however its id was spelled when   *)
(* it was added: one remove_dependency always removes it.                   *)
THEOREM DependenciesStayUnique == ASSUME TidyCallers PROVE Spec => []DependenciesUnique
<1>1. Init => Tidy
  BY DEF Init, Tidy, TidyCallers
<1>2. Keyed /\ Tidy /\ [Next]_rows => Tidy'
  BY StepTidy
<1>3. Tidy => DependenciesUnique
  BY DEF Tidy, TidyTask, DependenciesUnique
<1> QED  BY <1>1, <1>2, <1>3, RowsAreKeyed, PTL DEF Spec
=============================================================================
