----------------------------- MODULE SerialTasks -----------------------------
(***************************************************************************)
(* The task table under any sequence of commands, one at a time: each      *)
(* handler runs from its first read to its last write before the next one  *)
(* starts.  This is what a caller that waits for every answer sees; what   *)
(* handlers that overlap do is the subject of TaskStore.                   *)
(***************************************************************************)
EXTENDS TaskCommands

CONSTANTS
    Commands,       \* what callers may send
    InitialTables,  \* what the database file may hold at start
    MaxItems,       \* bound of the model: checklist items per task
    MaxRows         \* bound of the model: rows a create still adds to

ASSUME SerialTasksAssumption ==
    /\ \A table \in InitialTables : WellKeyed(table)
    /\ \A c \in Commands : NamesItsRow(c)

VARIABLE rows

Init == rows \in InitialTables

Create(c) ==
    /\ c.verb = "create"
    /\ Cardinality(DOMAIN rows) < MaxRows
    /\ rows' = Put(rows, NewTask(c, NextSequentialId(DOMAIN rows)))

Modify(c) ==
    /\ c.verb \in Modifiers
    /\ RowKey(c) \in DOMAIN rows
    /\ LET t == rows[RowKey(c)]
       IN  /\ ~ Rejects(c, t)
           /\ c.verb = "add_checklist_item" => Len(t.checklist) < MaxItems
           /\ rows' = Put(rows, Modified(c, t))

Replace(c) ==
    /\ c.verb = "replace"
    /\ rows' = Put(rows, c.task)

Delete(c) ==
    /\ c.verb = "delete"
    /\ rows' = Drop(rows, RowKey(c))

Next == \E c \in Commands : Create(c) \/ Modify(c) \/ Replace(c) \/ Delete(c)

Spec == Init /\ [][Next]_rows

-----------------------------------------------------------------------------
(* Rows are well formed and stored under the id their payload carries.      *)
TypeOK == WellKeyed(rows) /\ \A i \in DOMAIN rows : rows[i] \in Task

-----------------------------------------------------------------------------
(* Identifiers.                                                             *)

(* A create inserts exactly one row and leaves every other row alone, as    *)
(* long as the u32 numbers last: next_sequential_id never answers an id     *)
(* that INSERT OR REPLACE would take as an overwrite.                       *)
CreateAddsARow ==
    [][\A c \in Commands : Create(c) /\ ~ Saturated(DOMAIN rows) =>
         \E id \in DOMAIN rows' \ DOMAIN rows :
             \A i \in DOMAIN rows' : i = id \/ (i \in DOMAIN rows /\ rows'[i] = rows[i])]_rows

(* "the next id is the highest numeric suffix + 1" (id_gen.rs): the fresh   *)
(* id is above every id of the store that is the prefix and then digits, of *)
(* any width, as far as a u32 counts: the parser ignores larger numbers.    *)
NextIdAboveAll ==
    LET next == NextSequentialId(DOMAIN rows)
    IN  \A i \in DOMAIN rows : IsSequential(i) /\ i.num < U32Max => next.num > i.num

(* Sending back the id a task is listed under finds that task: adding the   *)
(* kind prefix for the answer and stripping it off the next request cancel. *)
ListedIdsReachable ==
    \A i \in DOMAIN rows : StripKindPrefix(SubjectView(rows[i]).id) = i

-----------------------------------------------------------------------------
(* The life of a task.                                                      *)

MarksFit(t) ==
    /\ t.status = "blocked" => t.blocked_at
    /\ t.status \in Active => ~ t.blocked_at /\ ~ t.blocked_reason
    /\ t.status = "cancelled" => t.cancelled

CompletionFits(t) == t.status \in Finished => "completed_at" \in t.metadata.stamps

(* The marks of README's status side effects hold at every moment, whatever *)
(* came between, when callers write them with the status they belong to: a  *)
(* blocked task has its blocked_at, a task that is ready or in progress has *)
(* no blocked mark left, a cancelled one has its flag.                      *)
MarksFollowStatus == \A i \in DOMAIN rows : MarksFit(rows[i])

(* "completed stamps metadata.completed_at" (README): a finished task has   *)
(* the time it was finished, by whichever verb its status was written.      *)
CompletionStamped == \A i \in DOMAIN rows : CompletionFits(rows[i])

(* No edit of a task loses the time it was completed or created: only a     *)
(* replace or a delete can.                                                 *)
StampsAreKept ==
    [][\A c \in Commands : Modify(c) \/ Create(c) =>
         \A i \in DOMAIN rows \cap DOMAIN rows' :
             rows[i].metadata.stamps \subseteq rows'[i].metadata.stamps]_rows

(* A row the protocol can decode stays decodable under every edit.  One     *)
(* undecodable row fails the whole of subject/list.                         *)
DecodableIsKept ==
    [][\A c \in Commands : Modify(c) \/ Create(c) =>
         \A i \in DOMAIN rows' :
             (i \in DOMAIN rows /\ ~ Decodable(rows[i])) \/ Decodable(rows'[i])]_rows

(* A subject/update that asks for a status answers with, and leaves behind, *)
(* a task shown in that status, through the native spelling and back.       *)
RequestedStatusShows ==
    [][\A c \in Commands :
         Modify(c) /\ c.verb = "subject_update" /\ "status" \in DOMAIN c.patch =>
             SubjectView(rows'[RowKey(c)]).status = c.patch["status"]]_rows

(* Checklist items of a task have distinct ids, so that                     *)
(* update_checklist_item means the item its caller saw.                     *)
ChecklistIdsUnique ==
    \A i \in DOMAIN rows : LET list == rows[i].checklist IN
        \A j, k \in DOMAIN list : list[j].item = list[k].item => j = k

(* A task lists a dependency at most once, in whichever of its two forms    *)
(* the callers spelled it, so that one remove_dependency removes it.        *)
DependenciesUnique ==
    \A i \in DOMAIN rows : IsInjective(rows[i].dependencies)

-----------------------------------------------------------------------------
(* The callers of which these hold: what they store themselves is as the    *)
(* plugin would have stored it, and they write no mark by hand but a reason *)
(* along with a status that may have one.                                   *)

\* What only a status, or a verb of their own, writes.
OwnFields == {"status", "cancelled", "blocked_at", "metadata", "checklist"}

OrderlyTask(t) ==
    /\ OwnFields \cup {"id", "blocked_reason"} \subseteq DOMAIN t
    /\ t.metadata \in Metadata /\ t.metadata.present
    /\ t.checklist \in Seq(ChecklistItem)
    /\ \A k \in DOMAIN t.checklist : t.checklist[k].item = k
    /\ MarksFit(t) /\ CompletionFits(t)

OrderlyPatch(patch) ==
    LET custom == IF "custom" \in DOMAIN patch THEN patch["custom"] ELSE <<>>
    IN  /\ {"cancelled", "blocked_at"} \cap DOMAIN patch = {}
        /\ OwnFields \cap DOMAIN custom = {}
        /\ "blocked_reason" \in DOMAIN patch \cup DOMAIN custom =>
              "status" \in DOMAIN patch /\ patch["status"] \notin Active

OrderlyCommand(c) ==
    /\ c.verb = "replace" => OrderlyTask(c.task)
    /\ c.verb \in {"update", "subject_update"} => OrderlyPatch(c.patch)
    /\ c.verb = "subject_update" /\ "status" \in DOMAIN c.patch =>
          c.patch["status"] \in ProtocolStatuses
    /\ c.verb = "update_checklist_item" => c.completed \in BOOLEAN

OrderlyCallers ==
    /\ \A table \in InitialTables : \A i \in DOMAIN table : OrderlyTask(table[i])
    /\ \A c \in Commands : OrderlyCommand(c)

\* Those who store a payload under a bare id, without a kind prefix.
BareCallers ==
    /\ \A table \in InitialTables : \A i \in DOMAIN table : i.prefixes = 0
    /\ \A c \in Commands : c.verb = "replace" => c.task.id.prefixes = 0

\* Those who send what has the type of the fields it is written to; and those
\* who, moreover, leave the lists to the verbs that keep them.
TypedCallers ==
    /\ \A table \in InitialTables : \A i \in DOMAIN table : table[i] \in Task
    /\ \A c \in Commands : TypedCommand(c)

TidyCallers ==
    /\ \A table \in InitialTables : \A i \in DOMAIN table : TidyTask(table[i])
    /\ \A c \in Commands : TidyCommand(c)
=============================================================================
