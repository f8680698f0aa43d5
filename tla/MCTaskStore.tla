----------------------------- MODULE MCTaskStore -----------------------------
(***************************************************************************)
(* Small instances of TaskStore: two stored tasks, one of them with the    *)
(* highest number, and two or three requests.                              *)
(***************************************************************************)
EXTENDS TaskStore

SeqId(n)  == [prefixes |-> 0, family |-> "TASK-", num |-> n, width |-> 1]
Wire(id)  == [id EXCEPT !.prefixes = 1]
T1 == SeqId(1)
T2 == SeqId(2)
Stored(id) == BuildNewTask(id, "medium")

TwoTasks == {(T1 :> Stored(T1)) @@ (T2 :> Stored(T2))}

\* A row some client stored without a metadata object.
Bare(id) == [Stored(id) EXCEPT !.metadata = [present |-> FALSE, stamps |-> {}]]
OneBareTask == {(T1 :> Stored(T1)) @@ (T2 :> Bare(T2))}

NewTaskCommand == [verb |-> "create", priority |-> "p1", status |-> NoStatus]
Depend(v)      == [verb |-> v, id |-> Wire(T1), dependency |-> Wire(T2)]
SubjectUpdate(s) == [verb |-> "subject_update", id |-> Wire(T1), patch |-> [status |-> s]]

\* Every kind of handler, most of them about the same row.
AllCommands ==
    {NewTaskCommand,
     [verb |-> "replace", task |-> [Stored(T2) EXCEPT !.status = "ready"]],
     Depend("add_dependency"), Depend("remove_dependency"),
     SubjectUpdate("blocked"),
     [verb |-> "assign", id |-> T2, assignee |-> "ann"],
     [verb |-> "delete", id |-> Wire(T1)],
     [verb |-> "delete", id |-> T2],
     [verb |-> "get", id |-> T1],
     [verb |-> "subject_get", id |-> T2],
     [SubjectUpdate("ready") EXCEPT !.id = T2]}

\* Handlers that edit the lists of one row, both forms of the dependency id,
\* and the ways a request can fail.
ListCommands ==
    {[verb |-> "add_checklist_item", id |-> T1],
     [verb |-> "update_checklist_item", id |-> T1, item |-> 1, completed |-> TRUE],
     [verb |-> "add_dependency", id |-> T1, dependency |-> T2],
     Depend("add_dependency"),
     SubjectUpdate("done"),
     [SubjectUpdate("ready") EXCEPT !.id = T2],
     [verb |-> "subject_get", id |-> T2],
     [verb |-> "delete", id |-> Wire(T1)]}

\* Every way an answer can be reached, undecodable payloads included.
AnswerCommands ==
    AllCommands \cup ListCommands \cup {[verb |-> "replace", task |-> Bare(T1)]}

\* The commands of the documented disagreements.
CreateOnly     == {NewTaskCommand}
DependAndMove  == {Depend("add_dependency"), SubjectUpdate("blocked")}

Symmetry == Permutations(Requests)

\* The theorems about tidy callers are about these instances, too.
ASSUME StoreIsTidy == TidyCallers
=============================================================================
