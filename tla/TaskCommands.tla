---------------------------- MODULE TaskCommands ----------------------------
(***************************************************************************)
(* The commands a caller can send, and what each handler computes from the *)
(* row it has read.  A command is a record: its verb and its parameters.   *)
(*   create                              priority, status                  *)
(*   replace                             task                              *)
(*   update, subject_update              id, patch                         *)
(*   assign                              id, assignee                      *)
(*   status                              id, status                        *)
(*   add_checklist_item                  id                                *)
(*   update_checklist_item               id, item, completed               *)
(*   add_dependency, remove_dependency   id, dependency                    *)
(*   delete, get, subject_get            id                                *)
(* The stdio loop answers task/delete and subject/delete alike, so there   *)
(* is one delete.                                                          *)
(* A call without a required parameter, or whose id is blank, is refused   *)
(* before the store is touched and is left out.                            *)
(***************************************************************************)
EXTENDS TaskPayload

Modifiers == {"update", "subject_update", "assign", "status",
              "add_checklist_item", "update_checklist_item",
              "add_dependency", "remove_dependency"}
Readers   == {"get", "subject_get"}
Verbs     == {"create", "replace", "delete"} \cup Modifiers \cup Readers

\* The row a command is about.  A replace is keyed by its payload as it is; of
\* the others the id comes without the blanks around it.
RowKey(c) == IF c.verb = "replace" THEN c.task.id ELSE StripKindPrefix(c.id)

\* The payload a create inserts under a fresh id.
NewTask(c, id) ==
    LET t == BuildNewTask(id, c.priority)
    IN  IF c.status = NoStatus THEN t ELSE SetStatusField(t, c.status)

\* What a modifier computes from the payload t it has read.
Edited(c, t) ==
    CASE c.verb = "update"                -> ApplyPatch(t, c.patch)
      [] c.verb = "subject_update"        -> ApplyPatch(t, SubjectPatchToValue(c.patch))
      [] c.verb = "assign"                -> [t EXCEPT !.assignee = c.assignee]
      [] c.verb = "status"                -> SetStatusField(t, c.status)
      [] c.verb = "add_checklist_item"    -> AddChecklistItem(t)
      [] c.verb = "update_checklist_item" -> UpdateChecklistItem(t, c.item, c.completed)
      [] c.verb = "add_dependency"        -> AddDependency(t, c.dependency)
      [] c.verb = "remove_dependency"     -> RemoveDependency(t, c.dependency)

Modified(c, t) == StampUpdate(Edited(c, t))

\* A modifier that gives up before it writes.
Rejects(c, t) == c.verb = "update_checklist_item" /\ ItemIndices(t, c.item) = {}

-----------------------------------------------------------------------------
(* The table: a partial function from ids to payloads.                      *)

\* Mistake: the id column bound to the wire form.
Put_ByWireId(table, t) ==
    [i \in DOMAIN table \cup {AddKindPrefix(t.id)} |->
        IF i = AddKindPrefix(t.id) THEN t ELSE table[i]]

\* INSERT OR REPLACE, keyed by the id inside the payload.
Put(table, t) == [i \in DOMAIN table \cup {t.id} |-> IF i = t.id THEN t ELSE table[i]]

\* Mistake: the wire form bound in the WHERE clause.
Drop_ByWireId(table, key) == [i \in DOMAIN table \ {AddKindPrefix(key)} |-> table[i]]

\* DELETE ... WHERE id.
Drop(table, key) == [i \in DOMAIN table \ {key} |-> table[i]]

\* Every row is stored under the id its payload carries, the id the
\* denormalized columns and every later read go by.
WellKeyed(table) ==
    /\ DOMAIN table \subseteq Id
    /\ \A i \in DOMAIN table : "id" \in DOMAIN table[i] /\ table[i].id = i

\* A patch whose custom fields rename the row ("id") would store it under the
\* new id, over whatever is there; callers are taken not to send one.
NamesItsRow(c) ==
    /\ c.verb \in Verbs
    /\ c.verb = "replace" => "id" \in DOMAIN c.task /\ c.task.id \in Id
    /\ c.verb \in {"update", "subject_update"} /\ "custom" \in DOMAIN c.patch
          => "id" \notin DOMAIN c.patch["custom"]

-----------------------------------------------------------------------------
(* Callers, as some of the theorems suppose them.                           *)

\* The fields a command writes verbatim.
CustomFields(c) ==
    IF c.verb \in {"update", "subject_update"} /\ "custom" \in DOMAIN c.patch
    THEN DOMAIN c.patch["custom"] ELSE {}

\* A patch whose values have the types of the fields they are written to, and
\* whose custom fields are fields of a task (laid over one, they leave one).
TypedPatch(patch) ==
    /\ \A f \in {"status", "priority", "assignee"} \cap DOMAIN patch : patch[f] \in STRING
    /\ \A f \in {"labels", "labels_add", "labels_remove"} \cap DOMAIN patch :
          patch[f] \in SUBSET STRING
    /\ \A f \in FlatFields \cap DOMAIN patch : patch[f] \in BOOLEAN
    /\ "custom" \in DOMAIN patch =>
          Overlay(patch["custom"], BuildNewTask(ZeroPadded(1), "medium")) \in Task

TypedCommand(c) ==
    /\ c.verb = "create" => c.priority \in STRING /\ c.status \in STRING
    /\ c.verb = "replace" => c.task \in Task
    /\ c.verb \in {"update", "subject_update"} => TypedPatch(c.patch)
    /\ c.verb = "assign" => c.assignee \in STRING
    /\ c.verb = "status" => c.status \in STRING
    /\ c.verb = "update_checklist_item" => c.completed \in BOOLEAN
    /\ c.verb \in {"add_dependency", "remove_dependency"} => c.dependency \in Id

\* A task whose lists are as the plugin makes them.
TidyTask(t) ==
    /\ t \in Task
    /\ \A k \in DOMAIN t.checklist : t.checklist[k].item = k
    /\ IsInjective(t.dependencies)

\* A caller who leaves the lists and the metadata to the verbs that keep them.
TidyCommand(c) ==
    /\ TypedCommand(c)
    /\ c.verb = "replace" => TidyTask(c.task)
    /\ CustomFields(c) \cap {"checklist", "dependencies", "metadata"} = {}
=============================================================================
