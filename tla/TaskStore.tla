------------------------------ MODULE TaskStore ------------------------------
(***************************************************************************)
(* The task store under concurrent requests.  The stdio loop spawns one    *)
(* task per request line, so handlers overlap; each database statement     *)
(* takes the connection's mutex for itself, and nothing holds it from a    *)
(* handler's read to its write.  A handler therefore runs as separate      *)
(* steps: read (row, or ids), write, publish a change event, answer.       *)
(*                                                                         *)
(* Serialized says how the callers behave: TRUE when nobody sends a        *)
(* command before the commands it conflicts with are answered, FALSE when  *)
(* requests are pipelined freely, as the protocol allows.                  *)
(***************************************************************************)
EXTENDS TaskCommands

CONSTANTS
    Requests,       \* the requests of the behaviour, each used once
    Commands,       \* what they may ask
    InitialTables,  \* what the database file may hold at start
    Serialized,     \* whether callers wait for conflicting commands
    MaxFaults       \* bound of the model: database statements that fail

ASSUME TaskStoreAssumption ==
    /\ Serialized \in BOOLEAN
    /\ MaxFaults \in Nat
    /\ \A table \in InitialTables : WellKeyed(table)
    /\ \A c \in Commands : NamesItsRow(c)

VARIABLES
    rows,     \* the tasks table
    pc,       \* where the handler of each request is
    call,     \* its command
    base,     \* the payload a modifier has read
    draft,    \* the payload it is about to write
    reply,    \* what it answers
    events,   \* the change events broadcast by this process
    faults,       \* how many statements have failed
    cut,          \* history: the creates whose scan of the ids was cut short
    overwritten   \* history: what creates have written over, see WriteOver

vars == <<rows, pc, call, base, draft, reply, events, faults, cut, overwritten>>

Nothing   == [verb |-> "none"]
NoTask    == [id |-> "none"]
NoReply   == [kind |-> "none"]
Subject(t)  == [kind |-> "subject", subject |-> SubjectView(t)]
Deleted     == [kind |-> "deleted"]
Error(code) == [kind |-> "error", code |-> code]

InFlight(r) == pc[r] \in {"read", "write", "publish", "reply"}

\* Two commands whose handlers may not overlap without harm: two that insert
\* (both would pick an id), and two that change the same row.
InsertsRow(c) == c.verb \in {"create", "replace"}
ChangesRow(c, key) == c.verb \notin Readers \cup {"create"} /\ RowKey(c) = key
Conflict(c, d) ==
    \/ InsertsRow(c) /\ InsertsRow(d)
    \/ /\ c.verb \notin Readers \cup {"create"}
       /\ ChangesRow(d, RowKey(c))

Init ==
    /\ rows \in InitialTables
    /\ pc = [r \in Requests |-> "idle"]
    /\ call = [r \in Requests |-> Nothing]
    /\ base = [r \in Requests |-> NoTask]
    /\ draft = [r \in Requests |-> NoTask]
    /\ reply = [r \in Requests |-> NoReply]
    /\ events = <<>>
    /\ faults = 0
    /\ cut = {}
    /\ overwritten = {}

-----------------------------------------------------------------------------
(* The steps of a request.                                                  *)

\* A request line is read and a handler spawned for it.
Receive(r, c) ==
    /\ pc[r] = "idle"
    /\ Serialized => \A s \in Requests : InFlight(s) => ~ Conflict(c, call[s])
    /\ call' = [call EXCEPT ![r] = c]
    /\ pc' = [pc EXCEPT ![r] = IF c.verb = "replace" THEN "write" ELSE "read"]
    /\ draft' = [draft EXCEPT ![r] = IF c.verb = "replace" THEN c.task ELSE NoTask]
    /\ UNCHANGED <<rows, base, reply, events, faults, cut, overwritten>>

\* The handler has its answer a; it still has to write the frame.
Settle(r, a) ==
    /\ pc' = [pc EXCEPT ![r] = "reply"]
    /\ reply' = [reply EXCEPT ![r] = a]

\* create: Store::next_id on the ids that were read, then the payload is built.
Allot(r, existing) ==
    /\ pc[r] = "read"
    /\ call[r].verb = "create"
    /\ draft' = [draft EXCEPT ![r] = NewTask(call[r], NextSequentialId(existing))]
    /\ pc' = [pc EXCEPT ![r] = "write"]
    /\ UNCHANGED <<rows, call, base, reply, events, overwritten>>

Allocate(r) ==
    /\ Allot(r, DOMAIN rows)
    /\ UNCHANGED <<faults, cut>>

\* A modifier reads its row and computes the new payload from it.
Fetch(r) ==
    LET c == call[r] key == RowKey(c) IN
    /\ pc[r] = "read"
    /\ c.verb \in Modifiers
    /\ key \in DOMAIN rows
    /\ ~ Rejects(c, rows[key])
    /\ base' = [base EXCEPT ![r] = rows[key]]
    /\ draft' = [draft EXCEPT ![r] = Modified(c, rows[key])]
    /\ pc' = [pc EXCEPT ![r] = "write"]
    /\ UNCHANGED <<rows, call, reply, events, faults, cut, overwritten>>

\* Mistake: no answer when the row is there but the checklist item is not.
Miss_OnlyMissingRow(r) ==
    /\ pc[r] = "read"
    /\ call[r].verb \in Modifiers \cup Readers
    /\ RowKey(call[r]) \notin DOMAIN rows
    /\ Settle(r, Error("not_found"))
    /\ UNCHANGED <<rows, call, base, draft, events, faults, cut, overwritten>>

\* The row, or the checklist item, is not there: the handler gives up.
Miss(r) ==
    LET c == call[r] key == RowKey(c) IN
    /\ pc[r] = "read"
    /\ c.verb \in Modifiers \cup Readers
    /\ key \in DOMAIN rows => Rejects(c, rows[key])
    /\ Settle(r, Error("not_found"))
    /\ UNCHANGED <<rows, call, base, draft, events, faults, cut, overwritten>>

Get(r) ==
    LET c == call[r] key == RowKey(c) IN
    /\ pc[r] = "read"
    /\ c.verb \in Readers
    /\ key \in DOMAIN rows
    /\ Settle(r, IF c.verb = "subject_get" /\ ~ Decodable(rows[key])
                 THEN Error("internal") ELSE Subject(rows[key]))
    /\ UNCHANGED <<rows, call, base, draft, events, faults, cut, overwritten>>

\* Mistake: the delete of the task surface, which sends no event.
DeleteRow_Legacy(r) ==
    LET key == RowKey(call[r]) IN
    /\ pc[r] = "read"
    /\ call[r].verb = "delete"
    /\ rows' = Drop(rows, key)
    /\ Settle(r, IF key \in DOMAIN rows THEN Deleted ELSE Error("not_found"))
    /\ UNCHANGED <<call, base, draft, events, faults, cut, overwritten>>

\* DELETE and its row count.  When no row was there the delete fails; when
\* there was one it has an event to publish.
DeleteRow(r) ==
    LET key == RowKey(call[r]) IN
    /\ pc[r] = "read"
    /\ call[r].verb = "delete"
    /\ \/ /\ key \in DOMAIN rows
          /\ rows' = Drop(rows, key)
          /\ pc' = [pc EXCEPT ![r] = "publish"]
          /\ reply' = [reply EXCEPT ![r] = Deleted]
       \/ /\ key \notin DOMAIN rows
          /\ Settle(r, Error("not_found"))
          /\ UNCHANGED rows
    /\ UNCHANGED <<call, base, draft, events, faults, cut, overwritten>>

\* The id past which the allocator cannot count.
LastId == ZeroPadded(U32Max)

\* The id a create was given may have a row.
MayBeTaken(r) == r \in cut \/ draft[r].id = LastId

\* What a create with such an id writes over, if there is a row: the task, and
\* the requests that were under way and had yet to take effect.
WriteOver(r) ==
    LET id == draft[r].id
        pending == {q \in Requests : pc[q] \in {"read", "write"}}
    IN  IF call[r].verb = "create" /\ MayBeTaken(r) /\ id \in DOMAIN rows
        THEN {[task |-> rows[id], during |-> pending]} ELSE {}

\* INSERT OR REPLACE of the whole payload.  Only then does subject/update
\* decode it, and only if that succeeds is there an event to publish.
Upsert(r) ==
    LET t == draft[r] broadcasts == call[r].verb = "subject_update" IN
    /\ pc[r] = "write"
    /\ rows' = Put(rows, t)
    /\ \/ /\ broadcasts /\ Decodable(t)
          /\ pc' = [pc EXCEPT ![r] = "publish"]
          /\ reply' = [reply EXCEPT ![r] = Subject(t)]
       \/ /\ broadcasts /\ ~ Decodable(t)
          /\ Settle(r, Error("internal"))
       \/ /\ ~ broadcasts
          /\ Settle(r, Subject(t))
    /\ base' = [base EXCEPT ![r] = NoTask]
    /\ draft' = [draft EXCEPT ![r] = NoTask]
    /\ overwritten' = overwritten \cup WriteOver(r)
    /\ UNCHANGED <<call, events, faults, cut>>

\* Mistake: deletions are not broadcast.
Publish_OnlyUpdates(r) ==
    /\ pc[r] = "publish"
    /\ pc' = [pc EXCEPT ![r] = "reply"]
    /\ events' = IF reply[r] = Deleted THEN events
                 ELSE Append(events, [id |-> RowKey(call[r]), change |-> reply[r]])
    /\ UNCHANGED <<rows, call, base, draft, reply, faults, cut, overwritten>>

\* The event is sent after the connection's mutex was released.
Publish(r) ==
    /\ pc[r] = "publish"
    /\ pc' = [pc EXCEPT ![r] = "reply"]
    /\ events' = Append(events, [id |-> RowKey(call[r]), change |-> reply[r]])
    /\ UNCHANGED <<rows, call, base, draft, reply, faults, cut, overwritten>>

Answer(r) ==
    /\ pc[r] = "reply"
    /\ pc' = [pc EXCEPT ![r] = "done"]
    /\ UNCHANGED <<rows, call, base, draft, reply, events, faults, cut, overwritten>>

-----------------------------------------------------------------------------
(* What goes wrong around the handlers.                                     *)

\* A statement fails and the store reports it (the file is locked for too long,
\* the disk is full).  Store::get's callers take any failure for a missing row.
Fault(r) ==
    /\ faults < MaxFaults
    /\ pc[r] \in {"read", "write"}
    /\ faults' = faults + 1
    /\ Settle(r, Error(IF pc[r] = "read" /\ call[r].verb \in Modifiers \cup Readers
                       THEN "not_found" ELSE "internal"))
    /\ base' = [base EXCEPT ![r] = NoTask]
    /\ draft' = [draft EXCEPT ![r] = NoTask]
    /\ UNCHANGED <<rows, call, events, cut, overwritten>>

\* A create's scan of the ids fails once it is under way.  Store::ids drops the
\* error and has the ids read until then, some part of them as the statement
\* promises no order, for all there are.
CutScan(r) ==
    /\ faults < MaxFaults
    /\ faults' = faults + 1
    /\ cut' = cut \cup {r}
    /\ \E seen \in SUBSET DOMAIN rows : Allot(r, seen)

\* The process ends (killed, or its stdin closed) and is started again: the
\* handlers and the subscribers are gone, the table is what it was.
Crash ==
    /\ \E r \in Requests : InFlight(r)
    /\ pc' = [r \in Requests |-> IF InFlight(r) THEN "lost" ELSE pc[r]]
    /\ base' = [r \in Requests |-> NoTask]
    /\ draft' = [r \in Requests |-> NoTask]
    /\ events' = <<>>
    /\ UNCHANGED <<rows, call, reply, faults, cut, overwritten>>

Step(r) == \/ Allocate(r) \/ Fetch(r) \/ Miss(r) \/ Get(r) \/ DeleteRow(r)
           \/ Upsert(r) \/ Publish(r) \/ Answer(r)

Next ==
    \/ \E r \in Requests : \/ \E c \in Commands : Receive(r, c)
                           \/ Step(r) \/ Fault(r) \/ CutScan(r)
    \/ Crash

Spec == Init /\ [][Next]_vars

\* The runtime polls every spawned handler until it is done.
FairSpec == Spec /\ \A r \in Requests : WF_vars(Step(r))

-----------------------------------------------------------------------------
(* Safety of the table, when callers are Serialized.                        *)

(* The table is keyed by its payloads and every handler is somewhere in its *)
(* own command.                                                             *)
TypeOK ==
    /\ WellKeyed(rows)
    /\ pc \in [Requests -> {"idle", "read", "write", "publish", "reply", "done", "lost"}]
    /\ call \in [Requests -> Commands \cup {Nothing}]
    /\ \A r \in Requests : InFlight(r) => call[r] \in Commands
    /\ DOMAIN base = Requests /\ DOMAIN draft = Requests
    /\ faults \in 0 .. MaxFaults
    /\ cut \subseteq Requests

\* The handler of r may have read t as row `key`: it is the row, or what a
\* create wrote over since r was received.
Known(r, key, t) ==
    \/ t = rows[key]
    \/ \E o \in overwritten : o.task = t /\ t.id = key /\ r \in o.during

(* A modifier writes over exactly the payload it computed its own from: the *)
(* row was neither changed nor deleted between Store::get and Store::upsert,*)
(* unless a create was given its id, by a scan that was cut short or because*)
(* the u32 numbers are used up.                                             *)
NoStaleWrite ==
    Serialized => \A r \in Requests :
        pc[r] = "write" /\ call[r].verb \in Modifiers =>
            LET key == RowKey(call[r])
            IN  key \in DOMAIN rows /\ Known(r, key, base[r])

(* A create inserts: the id it took from next_id is still nobody's when it  *)
(* writes, unless its scan of the ids was cut short or the u32 numbers are  *)
(* used up.                                                                 *)
InsertsAreNew ==
    Serialized => \A r \in Requests :
        pc[r] = "write" /\ call[r].verb = "create" =>
            MayBeTaken(r) \/ draft[r].id \notin DOMAIN rows

(* "Return all existing task ids" (crud.rs): the number a create was given  *)
(* is above that of every stored task.                                      *)
NextIdCountsAll ==
    Serialized => \A r \in Requests :
        pc[r] = "write" /\ call[r].verb = "create" =>
            \A i \in DOMAIN rows :
                IsSequential(i) /\ i.num < U32Max => draft[r].id.num > i.num

-----------------------------------------------------------------------------
(* What callers rely on.                                                    *)

Acked(r) == pc[r] = "done" /\ reply[r].kind # "error"

(* "Task ids are sequential" (lib.rs): as long as nothing is deleted, no    *)
(* two creates are answered with the same id, unless the scan of one of them*)
(* was cut short or the u32 numbers are used up.                            *)
AckedCreatesDistinct ==
    (\A q \in Requests : call[q].verb # "delete") =>
        \A r, s \in Requests :
            /\ r # s
            /\ Acked(r) /\ call[r].verb = "create"
            /\ Acked(s) /\ call[s].verb = "create"
            => \/ reply[r].subject.id # reply[s].subject.id
               \/ r \in cut \/ s \in cut
               \/ reply[r].subject.id = AddKindPrefix(LastId)

\* Command d may take dependency `dep` of row `key` away.
DropsDependency(d, key, dep) ==
    /\ ChangesRow(d, key)
    /\ \/ d.verb \in {"delete", "replace"}
       \/ d.verb = "remove_dependency" /\ StripKindPrefix(d.dependency) = dep

(* An acknowledged add_dependency stays: the dependency is on the task until*)
(* a caller sends a command that takes it away, or a create writes over the *)
(* task (InsertsAreNew says when one may).                                  *)
AckedDependencyKept ==
    \A r \in Requests :
        Acked(r) /\ call[r].verb = "add_dependency" =>
            LET key == RowKey(call[r]) dep == StripKindPrefix(call[r].dependency)
            IN  \/ \E q \in Requests : pc[q] # "idle" /\ DropsDependency(call[q], key, dep)
                \/ \E o \in overwritten : o.task.id = key /\ Contains(o.task.dependencies, dep)
                \/ key \in DOMAIN rows /\ Contains(rows[key].dependencies, dep)

(* An acknowledged delete stays: the task is gone until a caller sends a    *)
(* command that inserts rows.                                               *)
AckedDeleteStaysDeleted ==
    \A r \in Requests :
        Acked(r) /\ call[r].verb = "delete" =>
            \/ \E q \in Requests : pc[q] # "idle" /\ InsertsRow(call[q])
            \/ RowKey(call[r]) \notin DOMAIN rows

(* A request that is answered with an error has not changed the table, with *)
(* one exception: subject/update decodes a row only once it has written it, *)
(* so on a row that could not be decoded it writes and then fails.          *)
ErrorMeansNoEffect ==
    [][\A r \in Requests :
         reply'[r] # reply[r] /\ reply'[r].kind = "error" =>
             \/ rows' = rows
             \/ call[r].verb = "subject_update" /\ ~ Decodable(base[r])]_vars

(* Whatever overlaps, checklist ids and dependencies of a task stay unique: *)
(* a payload is computed from one that was stored, never from a mixture.    *)
ListsStayUnique ==
    \A i \in DOMAIN rows :
        /\ IsInjective(rows[i].dependencies)
        /\ IsInjective([k \in DOMAIN rows[i].checklist |-> rows[i].checklist[k].item])

(* The change events of a task end with its present state once nothing is   *)
(* under way for it, if it is changed through the subject verbs only (the   *)
(* task verbs broadcast nothing): a watcher that applies them in order and  *)
(* the table agree.                                                         *)
LastEventCurrent ==
    \A k \in DOMAIN events :
        LET key == events[k].id IN
        \/ \E j \in DOMAIN events : j > k /\ events[j].id = key
        \/ \E r \in Requests :
              /\ pc[r] # "idle"
              /\ \/ InFlight(r) /\ ChangesRow(call[r], key)
                 \/ call[r].verb = "create"
                 \/ /\ ChangesRow(call[r], key)
                    /\ call[r].verb \notin {"subject_update", "delete"}
        \/ events[k].change = IF key \in DOMAIN rows THEN Subject(rows[key])
                             ELSE Deleted

\* The callers of which some of these hold: what they store is as the plugin
\* would have stored it, and they leave the lists and the metadata to the verbs
\* that keep them.
TidyCallers ==
    /\ \A table \in InitialTables : \A i \in DOMAIN table : TidyTask(table[i])
    /\ \A c \in Commands : TidyCommand(c)

(* Every request that is received is answered, unless the process ends.     *)
EveryRequestAnswered ==
    \A r \in Requests : InFlight(r) ~> pc[r] \in {"done", "lost"}

-----------------------------------------------------------------------------
(* The store implements AtomicTasks: a modifier, a replace or a create      *)
(* takes effect when it writes, everything else when it reads.              *)
PhaseOf(at) ==
    CASE at \in {"read", "write"}    -> "pending"
      [] at \in {"publish", "reply"} -> "performed"
      [] at = "done"                 -> "returned"
      [] OTHER                       -> at

Atomic == INSTANCE AtomicTasks WITH
    IdPool  <- {ZeroPadded(n) : n \in 1 .. U32Max},
    MayFail <- MaxFaults > 0,
    phase   <- [r \in Requests |-> PhaseOf(pc[r])]

(* Serialized callers see a table on which every command is one atomic      *)
(* step, crashes and failing statements included; what a failed scan of the *)
(* ids may do to it is part of what AtomicTasks promises.                   *)
ImplementsAtomicTasks == Atomic!Spec
=============================================================================
