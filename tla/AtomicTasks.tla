----------------------------- MODULE AtomicTasks -----------------------------
(***************************************************************************)
(* What the task store promises a caller: every command takes effect on    *)
(* the table at one moment between its request and its answer, and the     *)
(* answer tells that effect.  A command answered with an error had none,   *)
(* except a subject/update of a task that does not decode: it has its      *)
(* effect, and its answer says only that it cannot be told.                *)
(*                                                                         *)
(* An id handed out by a create was nobody's, unless the database failed   *)
(* that very create or the numbers are used up.  Such a create may write   *)
(* over a task, and a modifier that was under way by then may know only    *)
(* the task that was written over, which it brings back.                   *)
(*                                                                         *)
(* How the handlers read, compute and write is left to TaskStore, which    *)
(* implements this specification.                                          *)
(***************************************************************************)
EXTENDS TaskCommands

CONSTANTS
    Requests,       \* the requests of the behaviour
    Commands,       \* what they may ask
    InitialTables,  \* what the database file may hold at start
    IdPool,         \* the ids a create may hand out
    LastId,         \* the one a create hands out when the numbers are used up
    MayFail         \* whether the database may fail a statement

VARIABLES
    rows,     \* the table
    phase,    \* of each request: idle, pending, performed, returned, lost
    call,     \* the command of each request
    reply,    \* the answer of each request
    cut,      \* the creates the database has failed
    overwritten   \* the tasks creates wrote over, and the requests then pending

vars == <<rows, phase, call, reply, cut, overwritten>>

Nothing   == [verb |-> "none"]
NoReply   == [kind |-> "none"]
Subject(t)  == [kind |-> "subject", subject |-> SubjectView(t)]
Deleted     == [kind |-> "deleted"]
Error(code) == [kind |-> "error", code |-> code]

\* What a command is told about the task t: the subject verbs decode it.
Told(c, t) == IF c.verb \in {"subject_get", "subject_update"} /\ ~ Decodable(t)
              THEN Error("internal") ELSE Subject(t)

Init ==
    /\ rows \in InitialTables
    /\ phase = [r \in Requests |-> "idle"]
    /\ call = [r \in Requests |-> Nothing]
    /\ reply = [r \in Requests |-> NoReply]
    /\ cut = {}
    /\ overwritten = {}

Submit(r, c) ==
    /\ phase[r] = "idle"
    /\ phase' = [phase EXCEPT ![r] = "pending"]
    /\ call' = [call EXCEPT ![r] = c]
    /\ UNCHANGED <<rows, reply, cut, overwritten>>

\* The one moment a command takes effect: the table becomes `table` and the
\* answer is settled.
Effect(r, table, a) ==
    /\ phase[r] = "pending"
    /\ phase' = [phase EXCEPT ![r] = "performed"]
    /\ rows' = table
    /\ reply' = [reply EXCEPT ![r] = a]
    /\ UNCHANGED <<call, cut>>

\* The database fails a create, which does not know of some of the tasks then.
Mislead(r) ==
    /\ MayFail
    /\ phase[r] = "pending" /\ call[r].verb = "create"
    /\ cut' = cut \cup {r}
    /\ UNCHANGED <<rows, phase, call, reply, overwritten>>

Pending == {q \in Requests : phase[q] = "pending"}

Create(r) ==
    /\ call[r].verb = "create"
    /\ \E id \in IdPool :
         /\ LET t == NewTask(call[r], id) IN Effect(r, Put(rows, t), Subject(t))
         /\ \/ id \notin DOMAIN rows /\ UNCHANGED overwritten
            \/ /\ id \in DOMAIN rows
               /\ r \in cut \/ id = LastId
               /\ overwritten' = overwritten \cup {[task |-> rows[id], during |-> Pending]}

Replace(r) ==
    /\ call[r].verb = "replace"
    /\ Effect(r, Put(rows, call[r].task), Subject(call[r].task))
    /\ UNCHANGED overwritten

\* What r may know as the task `key`: the task, or one that a create wrote over
\* while r was pending.
Versions(r, key) ==
    {rows[key]} \cup
    {o.task : o \in {p \in overwritten : p.task.id = key /\ r \in p.during}}

Modify(r) ==
    LET c == call[r] key == RowKey(c) IN
    /\ c.verb \in Modifiers
    /\ key \in DOMAIN rows
    /\ \E known \in Versions(r, key) :
         /\ ~ Rejects(c, known)
         /\ LET t == Modified(c, known) IN Effect(r, Put(rows, t), Told(c, t))
    /\ UNCHANGED overwritten

DeleteRow(r) ==
    LET c == call[r] key == RowKey(c) IN
    /\ c.verb = "delete"
    /\ key \in DOMAIN rows
    /\ Effect(r, Drop(rows, key), Deleted)
    /\ UNCHANGED overwritten

Read(r) ==
    LET c == call[r] key == RowKey(c) IN
    /\ c.verb \in Readers
    /\ key \in DOMAIN rows
    /\ Effect(r, rows, Told(c, rows[key]))
    /\ UNCHANGED overwritten

\* The row, or the checklist item, is not there.
Miss(r) ==
    LET c == call[r] key == RowKey(c) IN
    /\ c.verb \in Modifiers \cup Readers \cup {"delete"}
    /\ key \in DOMAIN rows => Rejects(c, rows[key])
    /\ Effect(r, rows, Error("not_found"))
    /\ UNCHANGED overwritten

Fail(r) ==
    /\ MayFail
    /\ \E code \in {"not_found", "internal"} : Effect(r, rows, Error(code))
    /\ UNCHANGED overwritten

Perform(r) == \/ Create(r) \/ Replace(r) \/ Modify(r) \/ DeleteRow(r)
              \/ Read(r) \/ Miss(r) \/ Fail(r)

Return(r) ==
    /\ phase[r] = "performed"
    /\ phase' = [phase EXCEPT ![r] = "returned"]
    /\ UNCHANGED <<rows, call, reply, cut, overwritten>>

\* The process ends: no request under way is answered any more, and the
\* table keeps the effects of those that were performed.
Stop ==
    /\ phase' = [r \in Requests |->
                    IF phase[r] \in {"pending", "performed"} THEN "lost" ELSE phase[r]]
    /\ UNCHANGED <<rows, call, reply, cut, overwritten>>

Next ==
    \/ \E r \in Requests : (\E c \in Commands : Submit(r, c)) \/ Mislead(r) \/ Perform(r) \/ Return(r)
    \/ Stop

Spec == Init /\ [][Next]_vars
=============================================================================
