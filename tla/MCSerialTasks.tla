---------------------------- MODULE MCSerialTasks ----------------------------
(***************************************************************************)
(* A small instance of SerialTasks: one task, whose status and fields are  *)
(* written, or another, whose lists are.                                   *)
(***************************************************************************)
EXTENDS SerialTasks

SeqId(n, w) == [prefixes |-> 0, family |-> "TASK-", num |-> n, width |-> w]
Wire(id)    == [id EXCEPT !.prefixes = 1]
T1 == SeqId(1, 1)
T2 == SeqId(2, 1)
T3 == SeqId(3, 1)

\* A payload as an external client would write it for a replace.
Payload(id, status) == [BuildNewTask(id, "medium") EXCEPT !.status = status]

-----------------------------------------------------------------------------
(* The life of one task.                                                    *)

Statuses == {"backlog", "ready", "in-progress", "in_progress", "blocked",
             "completed", "done", "cancelled", "triage"}

StatusWrites ==
    {[verb |-> "create", priority |-> "p0", status |-> s] :
        s \in {NoStatus, "blocked", "done", "cancelled"}}
    \cup {[verb |-> "status", id |-> Wire(T1), status |-> s] : s \in Statuses}
    \cup {[verb |-> "update", id |-> T1, patch |-> [status |-> s]] :
            s \in {"completed", "triage"}}
    \cup {[verb |-> "subject_update", id |-> Wire(T1), patch |-> [status |-> s]] :
            s \in {"ready", "in-progress", "blocked", "done", "cancelled"}}

FieldWrites ==
    {[verb |-> "update", id |-> T1, patch |-> [paused |-> TRUE, priority |-> " High "]],
     [verb |-> "update", id |-> T1,
         patch |-> [labels_add |-> {"a", "b"}, labels_remove |-> {"b"}]],
     [verb |-> "update", id |-> T1, patch |-> [labels |-> {}, assignee |-> "ann"]],
     [verb |-> "subject_update", id |-> Wire(T1),
         patch |-> [status |-> "blocked", custom |-> [blocked_reason |-> TRUE]]],
     [verb |-> "assign", id |-> Wire(T1), assignee |-> "bob"],
     [verb |-> "delete", id |-> Wire(T1)]}

-----------------------------------------------------------------------------
(* The lists of another task.                                               *)

ListWrites ==
    {[verb |-> "add_checklist_item", id |-> T2]}
    \cup {[verb |-> "update_checklist_item", id |-> Wire(T2), item |-> k, completed |-> b] :
            k \in 1 .. 3, b \in BOOLEAN}
    \cup {[verb |-> v, id |-> T2, dependency |-> d] :
            v \in {"add_dependency", "remove_dependency"},
            d \in {T1, Wire(T1), Wire(T3)}}

\* No table of the instance holds both tasks.
LifeTables   == {<<>>, T1 :> Payload(T1, "backlog"), T2 :> Payload(T2, "ready")}
LifeCommands == StatusWrites \cup FieldWrites \cup ListWrites

\* The theorems about the life of a task are about this instance, too.
ASSUME LifeIsOrderly == OrderlyCallers /\ TypedCallers /\ TidyCallers
=============================================================================
