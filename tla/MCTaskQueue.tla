----------------------------- MODULE MCTaskQueue -----------------------------
(***************************************************************************)
(* Small instances of TaskQueue: tables with ids of other widths, other    *)
(* families, other numbers, and the largest numbers, beside the ids the    *)
(* store allocates itself, and tasks of every status and priority.         *)
(***************************************************************************)
EXTENDS TaskQueue

SeqId(n, w) == [prefixes |-> 0, family |-> "TASK-", num |-> n, width |-> w]
Wire(id)    == [id EXCEPT !.prefixes = 1]
Order       == ("REQ-" :> 1) @@ ("TASK-" :> 2)

\* A payload as an external client would write it for a replace.
Payload(id, status, priority) == [BuildNewTask(id, priority) EXCEPT !.status = status]

\* Ids beside those the store allocates, each with a status and a priority.
Foreign ==
    {Payload(SeqId(2, 1), "ready", "low"),
     Payload(SeqId(7, 3), "triage", "critical"),
     Payload(SeqId(U32Max + 1, 3), "ready", "urgent"),
     Payload([SeqId(4, 2) EXCEPT !.family = "REQ-"], "blocked", "low")}

IdCommands ==
    {[verb |-> "create", priority |-> "P1", status |-> NoStatus]}
    \cup {[verb |-> "replace", task |-> t] : t \in Foreign}
    \cup {[verb |-> "delete", id |-> Wire(id)] :
            id \in {t.id : t \in Foreign} \cup {SeqId(n, 2) : n \in 1 .. 5}}
    \cup {[verb |-> "status", id |-> Wire(SeqId(2, 2)), status |-> s] :
            s \in {"done", "in_progress"}}

\* The same with a payload stored under the id the answers show.
WireIdCommands ==
    IdCommands \cup {[verb |-> "replace", task |-> Payload(Wire(SeqId(1, 2)), "ready", "medium")]}

EmptyTable == {<<>>}

ASSUME QueueIsBare == Commands = IdCommands => BareCallers
=============================================================================
