----------------------------- MODULE TaskPayload -----------------------------
(***************************************************************************)
(* The task payload (the `json` column, the source of truth) and the pure  *)
(* functions of methods.rs and crud.rs that build, patch and project it.   *)
(*                                                                         *)
(* Timestamps and free text are kept as "null or not".  blocked_by is      *)
(* treated everywhere as blocked_reason is, and is not repeated; an absent *)
(* array is an empty one (the code tells them apart in one error code      *)
(* only).  Title, description, scope, risk, deadline, task type and the    *)
(* linked lists are stored and shown as they are sent, and are left out.   *)
(***************************************************************************)
EXTENDS TaskIds, Sequences, SequencesExt

NoStatus == "absent"        \* a payload without a "status" string
Active   == {"ready", "in-progress", "in_progress"}
Finished == {"completed", "done"}
Stamps   == {"created_at", "updated_at", "completed_at"}

\* The metadata object, and which of its timestamps are non-null.
Metadata == [present : BOOLEAN, stamps : SUBSET Stamps]

ChecklistItem == [item : Nat, completed : BOOLEAN]

Task == [id : Id, status : STRING, priority : STRING, assignee : STRING,
         tags : SUBSET STRING, paused : BOOLEAN, cancelled : BOOLEAN,
         blocked_at : BOOLEAN, blocked_reason : BOOLEAN,
         checklist : Seq(ChecklistItem), dependencies : Seq(Id),
         metadata : Metadata]

\* A fact about STRING that the prover does not have: literals are texts.
ASSUME LiteralsAreTexts ==
    {"", "backlog", "completed", "critical", "high", "medium", "low"} \subseteq STRING

-----------------------------------------------------------------------------
(* Writing a payload.                                                       *)

\* Blanks around a priority and the case of its letters do not count; "P1" and
\* " High " stand for the spellings that differ in them, and any text that is
\* not named here is its own lower case.
CanonicalPriority(raw) ==
    CASE raw = "p0"                       -> "critical"
      [] raw \in {"p1", "P1", " High "}   -> "high"
      [] raw = "p2"                       -> "medium"
      [] raw = "p3"                       -> "low"
      [] OTHER                            -> raw

\* Mistakes: the alias in_progress forgotten; "done" not taken as completed.
SetStatusField_NoAlias(t, status) ==
    [t EXCEPT
        !.status         = status,
        !.blocked_at     = (status = "blocked") \/ (@ /\ status \notin Active \ {"in_progress"}),
        !.blocked_reason = @ /\ status \notin Active \ {"in_progress"}]
SetStatusField_OnlyCompleted(t, status) ==
    [t EXCEPT
        !.status          = status,
        !.metadata.stamps = IF status = "completed" THEN @ \cup {"completed_at"} ELSE @]

\* The status and every side effect that goes with it.
SetStatusField(t, status) ==
    [t EXCEPT
        !.status          = status,
        !.blocked_at      = (status = "blocked") \/ (@ /\ status \notin Active),
        !.blocked_reason  = @ /\ status \notin Active,
        !.paused          = @ /\ status \notin Active,
        !.cancelled       = @ \/ status = "cancelled",
        !.metadata.stamps = IF status \in Finished /\ t.metadata.present
                            THEN @ \cup {"completed_at"} ELSE @]

BuildNewTask(id, priority) ==
    [id |-> id, status |-> "backlog", priority |-> CanonicalPriority(priority),
     assignee |-> "", tags |-> {}, paused |-> FALSE, cancelled |-> FALSE,
     blocked_at |-> FALSE, blocked_reason |-> FALSE,
     checklist |-> <<>>, dependencies |-> <<>>,
     metadata |-> [present |-> TRUE, stamps |-> {"created_at", "updated_at"}]]

\* Mistakes: the metadata object rebuilt instead of extended; a wrong key.
StampUpdate_Rebuilds(t) ==
    [t EXCEPT !.metadata = [present |-> TRUE, stamps |-> {"updated_at"}]]
StampUpdate_WrongKey(t) ==
    [t EXCEPT !.metadata = [present |-> TRUE, stamps |-> @.stamps \cup {"updated"}]]

StampUpdate(t) ==
    [t EXCEPT !.metadata = [present |-> TRUE,
                            stamps  |-> @.stamps \cup {"updated_at"}]]

-----------------------------------------------------------------------------
(* Patches.  A patch is a partial function: the fields it gives, and their  *)
(* new values.  Custom fields land in the payload verbatim, whatever their  *)
(* key; the flat fields of older clients land after them.                   *)

Overlay(f, g) ==
    [k \in DOMAIN f \cup DOMAIN g |-> IF k \in DOMAIN f THEN f[k] ELSE g[k]]

FlatFields == {"paused", "cancelled", "blocked_reason", "blocked_at"}

ApplyPatch(t, patch) ==
    LET Given(field, default) ==
            IF field \in DOMAIN patch THEN patch[field] ELSE default
        moved == IF "status" \in DOMAIN patch
                 THEN SetStatusField(t, patch["status"]) ELSE t
        plain == [moved EXCEPT
                    !.priority = IF "priority" \in DOMAIN patch
                                 THEN CanonicalPriority(patch["priority"]) ELSE @,
                    !.tags     = (Given("labels", @) \ Given("labels_remove", {}))
                                     \cup Given("labels_add", {}),
                    !.assignee = Given("assignee", @)]
        flat  == [field \in FlatFields \cap DOMAIN patch |-> patch[field]]
    IN  Overlay(flat, Overlay(Given("custom", <<>>), plain))

ProtocolStatuses == {"ready", "in-progress", "blocked", "done", "cancelled"}

\* A protocol status, as the payload spells it.
NativeStatus(status) == IF status = "done" THEN "completed" ELSE status

\* The protocol's patch has no priority and no flat fields.
SubjectPatchToValue(patch) ==
    [field \in DOMAIN patch \cap
               {"status", "assignee", "labels_add", "labels_remove", "custom"} |->
        IF field = "status" THEN NativeStatus(patch[field]) ELSE patch[field]]

-----------------------------------------------------------------------------
(* Checklist and dependencies.                                              *)

\* Mistake: the second item reuses the first one's id.
AddChecklistItem_Reuses(t) ==
    [t EXCEPT !.checklist =
        Append(@, [item |-> IF @ = <<>> THEN 1 ELSE Len(@), completed |-> FALSE])]

AddChecklistItem(t) ==
    [t EXCEPT !.checklist =
        Append(@, [item |-> Len(@) + 1, completed |-> FALSE])]

ItemIndices(t, item) == {k \in DOMAIN t.checklist : t.checklist[k].item = item}

\* The first item with that id; the caller has checked there is one.
UpdateChecklistItem(t, item, completed) ==
    [t EXCEPT !.checklist[Min(ItemIndices(t, item))].completed = completed]

\* Mistakes: looking for the wire form among bare ids; storing the wire form.
AddDependency_LooksForWire(t, wire) ==
    IF Contains(t.dependencies, wire) THEN t
    ELSE [t EXCEPT !.dependencies = Append(@, StripKindPrefix(wire))]
AddDependency_StoresWire(t, wire) ==
    IF Contains(t.dependencies, wire) THEN t
    ELSE [t EXCEPT !.dependencies = Append(@, wire)]

AddDependency(t, wire) ==
    LET bare == StripKindPrefix(wire)
    IN  IF Contains(t.dependencies, bare) THEN t
        ELSE [t EXCEPT !.dependencies = Append(@, bare)]

\* The elements of a finite set S in a strict total order of S, a set of pairs.
InOrder(S, before) ==
    [n \in 1 .. Cardinality(S) |->
        CHOOSE x \in S : Cardinality({y \in S : <<y, x>> \in before}) = n - 1]

\* What is left of a list when only these indices are retained.
Subsequence(list, indices) ==
    LET kept == InOrder(indices, {p \in indices \X indices : p[1] < p[2]})
    IN  [n \in DOMAIN kept |-> list[kept[n]]]

RemoveDependency(t, wire) ==
    [t EXCEPT !.dependencies =
        Subsequence(@, {k \in DOMAIN @ : @[k] # StripKindPrefix(wire)})]

-----------------------------------------------------------------------------
(* Reading a payload.                                                       *)

\* Mistake: only the protocol's own spelling of a finished task is known.
NormalizeStatus_NoCompleted(native) ==
    IF native \in {"in-progress", "blocked", "done", "cancelled"} THEN native ELSE "ready"

NormalizeStatus(native) ==
    CASE native = "in_progress"         -> "in-progress"
      [] native \in Finished            -> "done"
      [] native \in {"in-progress", "blocked", "cancelled"} -> native
      [] OTHER                          -> "ready"

PriorityBucket(priority) ==
    CASE priority = "critical" -> 4
      [] priority = "high"     -> 3
      [] priority = "low"      -> 1
      [] OTHER                 -> 2

\* The cross-backend Subject the handlers answer with.
SubjectView(t) ==
    LET native == IF t.status = NoStatus THEN "backlog" ELSE t.status
    IN  [id |-> AddKindPrefix(t.id), status |-> NormalizeStatus(native),
         native_status |-> native, priority |-> PriorityBucket(t.priority),
         labels |-> t.tags, assignee |-> t.assignee, paused |-> t.paused,
         cancelled |-> t.cancelled, blocked_at |-> t.blocked_at,
         blocked_reason |-> t.blocked_reason, checklist |-> t.checklist,
         dependencies |-> t.dependencies]

\* The view decodes as a protocol Subject only with both its timestamps.  (It
\* also needs them to be dates and the other fields to have their types, which
\* the model's payloads have.)
Decodable(t) == {"created_at", "updated_at"} \subseteq t.metadata.stamps
=============================================================================
