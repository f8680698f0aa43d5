# Verification of animus-subject-default

TLA+ models of the task plugin in `src/`, model-checked with TLC, and theorems
about them checked by TLAPS. The plugin is a stdio JSON-RPC process that keeps
tasks in one SQLite table and answers the verbs of the task and subject
protocols. Paths below are relative to the crate (`methods.rs` is
`src/methods.rs` of the repository).

## 1. The system

| Part | Code | State | Operations |
|---|---|---|---|
| Task identifiers | `store/id_gen.rs`, `methods.rs` 24-39 | none | strip and add the `task:` prefix; next sequential id |
| Task payload | `store/crud.rs` 158-237, `methods.rs` 515-851, `backend.rs` 331-372 | one JSON object per task | build, stamp, set status, patch, checklist, dependencies, project to a Subject |
| Task verbs | `methods.rs` 186-512 | none of their own | create, update, replace, assign, status, add/update checklist item, add/remove dependency, get |
| Task queue | `methods.rs` 78-180, `backend.rs` 85-138 | none | list, list_filtered, list_prioritized, next, statistics, subject/list |
| Subject backend | `backend.rs` | the broadcast sender | list, get, update, delete, watch, schema, health |
| Store | `store/crud.rs`, `store/file_layout.rs` | the table, behind one mutex | list_all, get, upsert, delete, ids, next_id |
| Watch subscriptions | `main.rs` 231-311, `backend.rs` 32-80, 171-175 | broadcast ring of 256 events, one forwarder per watch, registry of forwarders | watch, unwatch, forward |
| Stdio loop and routing | `main.rs` 43-202, 313-437, 525-532 | the stdout mutex | read a line, spawn a handler, route, answer |
| Configuration, manifest | `config.rs`, `main.rs` 439-523 | constants | read at start |

How they interact. `main` reads one request per line and spawns a task per
request on a multi-threaded runtime, so **handlers overlap**. A handler calls
the store; each store call takes the connection's mutex for itself and releases
it, so no handler holds the mutex from its read to its write. `subject/update`
and both deletes send a change event *after* the write released the mutex; the
other verbs send none. Forwarder tasks drain the events into notifications on
the same stdout the answers go to. The process may be killed at any point, and
when stdin ends `main` returns with handlers still running.

What is hard here, and what makes each part correct:

* *Identifiers*: a fresh id is nobody's, whatever rows of other widths, prefixes
  and sizes there are; the id a caller is shown finds the task.
* *Payload*: marks and timestamps follow the status along any sequence of
  writes through five verbs; an edit keeps a task decodable, because one
  undecodable row fails the whole of `subject/list`.
* *Verbs*: checklist ids and dependencies stay unique.
* *Queue*: five readings of one table agree with each other on order, filter
  and number, past the pad width and with priorities nobody knows.
* *Store and handlers*: what was acknowledged stays, what was refused had no
  effect, every request is answered, the last event of a task shows its present
  state.
* *Watches*: no forwarder leaks, an unwatch stops what it names, events arrive
  once and in order, and a watch that lost some learns of it.
* *Stdio loop*: every line is answered, every advertised method has a handler,
  and a client that watches and then reads ends up with the present state
  although answers and notifications overtake each other on stdout.

`PROJECT.json` lists the hazards line by line, with the property that covers
each or the reason none does.

## 2. The modules

| Module | What it is |
|---|---|
| `TaskIds` | id forms and allocation |
| `TaskPayload` | the pure functions over one payload |
| `TaskCommands` | commands, what a handler computes, the table's `Put` and `Drop` |
| `SerialTasks` | state machine: the table, one command at a time |
| `TaskQueue` | the readings of the whole table, over the tables of `SerialTasks` |
| `AtomicTasks` | abstract specification: what a caller is promised |
| `TaskStore` | state machine: overlapping handlers, failing statements, process ends |
| `WatchHub` | state machine: watches, unwatches, forwarders, the broadcast channel |
| `Routing` | from a request line to the handler and the command it makes |
| `Plugin` | the composition: stdin, routing, `TaskStore`, `WatchHub`, one stdout |
| `MCSerialTasks`, `MCTaskQueue`, `MCTaskStore`, `MCWatchHub`, `MCPlugin` | the instances TLC checks |
| `TaskCommandsProofs`, `SerialTasksProofs`, `TaskQueueProofs`, `TaskStoreProofs`, `AtomicTasksProofs`, `AckedTasksProofs`, `WatchHubProofs`, `PluginProofs` | theorems |

**Ids** are records, not strings: how many `task:` prefixes a text starts with,
the family before the digits, the number the digits spell and how many digits
there are. That is all `strip_kind_prefix`, `add_kind_prefix` and
`next_sequential_id` look at. `U32Max` is a constant, so that the range of the
counter is reached in small instances.

**Payloads** keep what a rule of the code depends on. A timestamp or a free text
is "null or not". `blocked_by` is always written along with `blocked_reason` and
is not repeated. Labels are a set (`apply_patch` adds a label only once; nothing
depends on their order). An absent array is an empty one; the code tells them
apart in one error code of `update_checklist_item`. A patch is a partial
function; custom fields are overlaid verbatim, flat fields after them, as in
`apply_patch`. `remove_dependency`'s `retain` is `Subsequence`: the elements of a
list at some of its indices, in the order they had (`InOrder` lists a finite set
by a given order).

**TaskQueue**. Each of these verbs is one SELECT and a pure function of its
result, so it is an operator of `rows` and not an action. `ORDER BY id` compares
texts: `TextBefore` compares the kind prefix, then the family (`FamilyOrder`
gives the place of each family among the texts), then the digits from the left,
so that past the pad width 1000 comes before 999 as it does in SQLite.
Digits are compared by writing both numbers out to the greater width (`Scaled`).
`ListAll`, `ByRank` and the filters are all said by `InOrder` and `Subsequence`:
what is listed, and in which order. `ByRank` is the stable `sort_by_key` over
`Reverse`, by rank and, of one rank, by place. The parameters of a list
are a partial function; a status given as one string is `shorthand`, one given
as an array is `status`, because the two lists read them differently.
`SubjectFilter` is the parse of `subject/list`, which takes whatever it cannot
parse for the empty filter.

**TaskStore** maps to the code thus:

| Action | Code |
|---|---|
| `Receive` | `main.rs` 69-92: a line is read, a handler is spawned |
| `Allot` | `methods.rs` 214-233: an id by the ids that were seen, and the payload with it |
| `Allocate` | `Allot` with all of the stored ids, as `next_id` means to |
| `Fetch` | the `store.get` of every modifier and the edit of the payload |
| `Miss`, `Get` | a read that ends the handler |
| `DeleteRow` | `backend.rs` 177-185: DELETE and its row count |
| `Upsert` | `store.upsert`; for `subject/update` also the decoding after it |
| `Publish` | `backend.rs` 167, 210: the event, after the mutex was released |
| `Answer` | `write_frame` |
| `Fault` | a database statement fails and the store says so; `Store::get` failures read as `not_found` |
| `CutScan` | the SELECT of `Store::ids` fails once it is under way (`crud.rs` 141 drops the error): `Allot` with any part of the stored ids |
| `Crash` | killed or end of input, and started again on the same file |

`pc` says which statement the handler runs next, `base` and `draft` are the
payload it has read and the one it is about to write (`base` is history: only
properties read it, as are `cut`, the creates whose scan was cut short, and
`overwritten`, the tasks that a create wrote over because its scan was cut or its
id was the last number's, each with the requests that had yet to take effect).
A scan that is cut short may have seen any part of the ids, because a SELECT
without ORDER BY promises no order. A mutex-protected statement is one step. `BackendError`
belongs to the protocol crate; its `Other` is taken as an internal error.

**WatchHub** models the tasks of `handle_subject_watch` and
`handle_subject_unwatch` and of the forwarders. `Subscribe` is `backend.watch()`
and the spawn, `Register` and `Unregister` are the critical sections of the
registry (the abort happens inside them), `Answer` and `Notify` write a frame.
Events are numbers in the order they were broadcast; `cursor` is the receiver's
position in tokio's ring, and `Skip` what a receiver does that fell out of it.
Aborting marks a task; one that is being polled may go on until it next waits,
so an aborted forwarder may still take and write, and `End` comes at any time
later. `out` keeps the frames of each request apart; `Plugin` has them on one
stdout. `start`, `skipped` and `seen` are history that only properties read. Ids
are a JSON kind and a text, and `WatchKey` keeps the text.

**Routing**. A method is the pair of what stands before its first slash and what
stands behind. `Route` asks the handlers in the order of `handle_request`: the
lifecycle methods, the silent `$/` ones, delete/watch/unwatch of task and
subject, the task dispatcher, and last the standard subject verbs, which any
other kind is served, too. `StoreVerb`, `Required`, `Patch`, `SubjectPatch` and
`Command` are what the handlers ask of the parameters and make of them before
they touch the store, the defaults of a create and the patch that does not parse
and becomes the empty one included.

**Plugin** joins them. `ReadLine` reads one line: it is a handler of the store
(`TaskStore!Receive`), one of the watches (`WatchHub!Receive`), or one that
touches neither and is answered by itself (`direct`). `StoreStep`, `HubStep`,
`ForwardStep` and `DirectAnswer` are the steps of the spawned tasks; each frame
is appended to `stdout` in one step, as `write_frame` holds the mutex for a whole
frame. `Publish` of the store and `Broadcast` of the hub are one step here: the
event a handler publishes is the one the ring takes, so the hub's `sent` is
`Len(events)`. `Close` is the end of stdin: `main` returns and whatever runs is
dropped. Starting again on the same file is `Crash` of `TaskStore`; `Plugin` has
one life of the process. The callers are part of the system: `Script` says what
line each request may be, and `After` for whose answers its caller waits.
`asked` is history: how much of stdout a client had when it sent its read.

**AtomicTasks** is the promise: each command takes effect in one step between
its request and its answer; an error had no effect, but for a `subject/update` of a
task that does not decode; an id handed out by a create was nobody's. What a
caller must put up with is part of it: the database may fail a statement (`Fail`),
or mislead a create about the tasks there are (`Mislead`, which `CutScan` maps
to). Only a create that was misled, or has the last number, may write over a
task, and only a modifier that was pending then may know the task that was written
over, and bring it back (`Versions`). `TaskStore` implements it for serialized
callers (`ImplementsAtomicTasks`): writes take effect at `Upsert` or `DeleteRow`,
the rest where they read.

### What the callers are taken to do

These conditions on callers appear in properties and assumptions; none of them
is about the plugin's code.

* `NamesItsRow` (assumed in `SerialTasks` and `TaskStore`): a replace has an id,
  without which the handler refuses it, and no patch has a custom field named
  `id`, which `apply_custom_field` would write verbatim and so move the edit to
  another row. `WellKeyed`: the rows of the file at start are keyed by their
  payloads, as every `upsert` keys them.
* `Serialized`: when TRUE, a command is sent only when no command it *conflicts*
  with is unanswered (two that insert rows; two that change one row). When FALSE
  requests are pipelined freely, which the protocol allows and `main.rs` serves
  in parallel. The `racing_*` runs show what the absence of this discipline
  costs.
* `OrderlyCallers` (hypothesis of the theorems on `SerialTasks`, and checked of
  the instance by an ASSUME of `MCSerialTasks`): what callers store themselves
  by a replace is as the plugin would have stored it, and they write no mark by
  hand but a blocked reason along with a status that may have one.
* `TypedCallers` and `TidyCallers` (hypotheses of theorems, and checked of the
  instances by ASSUMEs of the MC modules): payloads and patches have the fields
  of a task with values of their types; and, for `TidyCallers`, stored payloads
  list no dependency twice and number their checklist, and no custom field of a
  patch is named `dependencies`, `checklist` or `metadata`. These are genuine
  conditions: `apply_custom_field` writes any value under any key, so a custom
  field named `dependencies` may list one twice.
* `BareCallers` (hypothesis of two theorems, ASSUMEd of the instance of
  `task_queue`): payloads are stored under ids without a kind prefix. The run
  `wire_ids` shows what happens without it.
* What a client of a watch does, in `MirrorConverges`: it waits for the answer
  of its watch before it reads, it prefers notifications that came in since it
  sent the read to the answer, and it learns nothing from a read that was
  refused.

## 3. The runs

| Run | Bounds | Shows |
|---|---|---|
| `task_life` | two tasks, never together: one with nine native statuses by four verbs, five protocol statuses, patches and delete; the other with 3 checklist items and two dependencies, one of them spelled both ways | `TypeOK`, `MarksFollowStatus`, `CompletionStamped`, `ChecklistIdsUnique`, `DependenciesUnique`, `StampsAreKept`, `DecodableIsKept`, `RequestedStatusShows` |
| `task_queue` | up to 4 allocated rows and 4 foreign ones, two families, widths 1 to 3, known and unknown priorities and statuses, `U32Max` 12, pad 2 | `NextIdAboveAll`, `CreateAddsARow` up to saturation; `QueueShowsItsOrder`, `NextHeadsQueue`, `StatisticsMatchLists`, `DialectsAgree` |
| `store_serialized` | 3 requests, 11 commands on 2 rows, `U32Max` 4, 1 statement that fails or scan that is cut, crashes | `TypeOK`, `NoStaleWrite`, `InsertsAreNew`, `AckedCreatesDistinct`, `AckedDependencyKept`, `AckedDeleteStaysDeleted`, `LastEventCurrent`, `ImplementsAtomicTasks` |
| `store_answers` | 2 requests sent freely, every verb and error path, an undecodable row, 1 failing statement, crashes, fairness | `ListsStayUnique`, `ErrorMeansNoEffect`, `EveryRequestAnswered` |
| `watch_keys` | ids `1`, `"1"` and `2`; 3 requests and 1 event, or 2 and 2, ring of 1 | `TypeOK`, `ForwarderReachable`, `UnwatchStops` |
| `plugin` | a row with or without a metadata object; 4 requests: a watch or one of eight other lines, a read, and two changes or an unwatch; ring of 1, 2 events, 1 failing statement, end of input, fairness | `AdvertisedServed`, `MirrorConverges`, `EachEventOnceInOrder`, `EveryLineAnswered`, `EventsArrive` |
| `racing_creates`, `racing_update` | 2 requests, `Serialized` FALSE | two of the ways overlapping handlers lose acknowledged work |
| `cut_scan` | 2 requests, creates only, 1 scan cut short | a create told the id of a stored task |
| `wire_ids` | as `task_queue`, with a replace of an id as it is shown | a row no call by its shown id reaches |
| `watch_lag`, `watch_leak` | 1 or 2 requests, up to 3 events | two disagreements of the watches with their comments |

Why these bounds are enough. The payload functions look at one task and compare
statuses only with the strings the instances contain, so one task and each of
those strings, plus one unknown (`triage`), reach every branch; statuses of one
task only interact along sequences, and those are unbounded. Three checklist
items show the first, a middle and the last index. In `task_queue` two widths,
two families and twelve numbers put every comparison of the allocator and of the
textual order on both sides, a number beyond `U32Max` is among them, and
saturation at 12 is reached; the allocated tasks share a priority, and so do
two foreign ones, so ties and their order occur. The
filters and counts compare a task with the parameters and not with other tasks.
An interference between handlers involves two of them; the third request lets a
property refer to an answer given before the two overlap. `MaxFaults` 1 lets each
statement fail; faults are independent. For the watches, leaks and replacements
involve two watches of one key and an unwatch, and a lag needs one event more
than the capacity; 256 is replaced by 1 since only being inside or outside
of the ring matters. In `plugin`, a read that is overtaken needs a watch, a read
and a change, and the second change lets a notification be of an older state
than the answer; the eight other lines are one for each way a line reaches
neither the store nor the hub, or reaches them changed by the routing (an unknown
status in a patch, another kind's get). The row without a metadata object is
there for the read that does not decode.
`SYMMETRY` permutes the request names, which no definition tells apart, and is
used only in runs without liveness.

Bounds of the model, not of the code: `MaxItems` and `MaxRows` (an addition
beyond them is not taken), `MaxFaults`, `MaxEvents`, and that each request name
is used once. `FewAtOnce` of `MCWatchHub` leaves
out what needs three requests and a lag at once: a lag disturbs one receiver, and
no handler looks at it.

`CHECK_DEADLOCK FALSE` stands in the `TaskStore`, `WatchHub` and `Plugin` runs
only: once every request of the instance is answered the process waits for input,
and once stdin ends it stops.

**Restrictions the properties state.** `MarksFollowStatus` is for
callers that write the `blocked_*` marks along with the status they belong to
(a patch may set any mark by hand). `CompletionStamped`, `DecodableIsKept` and
`StampsAreKept` hold of stored payloads with a metadata object, which every
create makes: a payload stored without one (by a replace, or migrated) is
completed without `completed_at`, since `set_status_field` runs before
`stamp_update` makes the object. `NextIdAboveAll` states the range of a u32,
which `id_gen.rs` does not mention. `QueueShowsItsOrder` promises the order of
numbers among ids of equally many digits, which is what a textual order gives,
and excepts priorities the code does not know: they rank last and show as
medium. `NextHeadsQueue` excepts tables with a payload that has no status: it
shows as `backlog` in the queue, and `next` passes it over. `DialectsAgree` is
about the one filter the dialects share and rows that have a status.
`ErrorMeansNoEffect` names its one exception: `subject/update` on a row that
cannot be decoded writes first and fails then. `InsertsAreNew` excepts a create
whose own scan of the ids was cut short, and the id of the last u32 number: past
it the counter saturates and creates do overwrite. `AckedCreatesDistinct` excepts
the same creates. `NoStaleWrite` and `AckedDependencyKept` except a row that such a
create wrote over, and nothing else: of a modifier, that it was under way by then
and read exactly the task written over; of a dependency, that the task written
over had it. Without these exceptions each of the four would be false of a scan that is cut
short; `NextIdCountsAll`, which states what `Store::ids` promises, has none, and
the run `cut_scan` refutes it.
`LastEventCurrent` and `MirrorConverges` are about tasks changed through
`subject/update` and delete only, since no other verb sends events; a create may
reuse the id of a deleted task, and sends none. `MirrorConverges` excepts a read
that failed: the client has nothing to start from, and a task that cannot be
decoded has no view it could converge to. `EveryLineAnswered` and
`EventsArrive` except a process whose stdin has ended.

**Fairness.** `FairSpec` of `TaskStore` has weak fairness of each handler's own
steps and nothing else: the runtime polls every spawned handler, every step of a
handler is a mutex acquisition or a write that is released again by its holder,
and a handler waits for nothing but these. `FairPluginSpec` assumes the same of
each handler and of each forwarder of the whole plugin. Receiving, reading
lines, faults, crashes, the end of aborted tasks and the end of input are not
fair. `EveryLineAnswered` and `EventsArrive` are written as "always again, all of
it is done"; since each line is read once, each event is broadcast once, and what
is answered or notified stays so, that is the same as "whatever comes is answered
in the end".

## 4. What is proved

Every property that a passing run checks is also proved, for every value of the
constants, except the three about liveness. Two remarks on method. What other
provers do by induction over numbers is done here by a least counterexample: a
nonempty set of naturals has a least element (`LeastOf`, from the library's
well-foundedness of `<`), so if a statement fails, it fails first somewhere, and
the number before is the contradiction. And what the models say of lists they
say by `InOrder`, of which one lemma does the work: in a finite set with a
strict total order every element has one place, and the places are in that order
(`InOrderSorts`), so what is retained of a list keeps what was wanted, once each
(`SubsequenceRetains`).

Of `TaskIds` and the table's commands, for every set of ids, prefix, pad and
`U32Max`:

* `NextIdFresh`: the next id is not among the existing ids unless the counter is
  saturated. `Digits` stays unexpanded; that a width is a positive number is all
  it needs.

Of `TaskStore`, for every number of requests, every set of commands, initial
table and any number of faults and crashes:

* `TypeCorrect`: `Spec => []TypeOK`. Every row is stored under the id in its
  payload, although `upsert` takes the key from the payload and not from the
  row that was read; this rests on lemmas that each payload function keeps the id.
* `UpdatesAreNotStale`, `CreatesInsert`: for serialized callers no modifier
  writes over a row it has not read and no create overwrites a row, with the
  exceptions of section 3: a create whose scan was cut short or who has the last
  number.
* `ListsAlwaysUnique`, for `TidyCallers`, and however handlers overlap: no task
  ever lists a dependency twice or has two checklist items with one id. The
  invariant is `TidyInv`: the rows, and with them the payloads the handlers hold,
  are tidy, wherever they come from. A lost update loses an item; it does not
  double one.
* `ErrorsHaveNoEffect`, for `TidyCallers`: a handler that answers an error has
  not written, but for `subject/update` on a row that does not decode. Tidiness is
  what makes an edit keep the timestamps (`ModifiedIsTidy`), so that the decoding
  after the write fails only if it had failed before.
* `SerializedIsAtomic`: for serialized callers `TaskStore` implements
  `AtomicTasks`, with failing statements, scans cut short and used up numbers.
* `DeletedStaysDeleted`, `CreatesAreDistinct`: for them an acknowledged delete is
  not undone, and no two acknowledged creates have one id while nothing is
  deleted, but for a create whose scan was cut short and the last number's id.
* `EventsAreCurrent` (`LastEventCurrent`), for serialized `TidyCallers`: once no
  handler is at work on a task that is changed by the
  subject verbs only, its last event shows its present state.
* `DependenciesAreKept` (`AckedDependencyKept`), likewise: an acknowledged
  `add_dependency` is in the row until a command that may remove it is sent, or a
  create as above writes over the task that has it.

The argument. None of the invariants is inductive: `NoStaleWrite` says nothing
of two handlers at once. `IndInv` adds that a handler about to write holds the
payload of its own row or a fresh id (`Drafted`) and that no two requests under
way conflict (`NoConflict`, kept by `Receive`'s guard). The step then is: a
statement of another request that changes the row in `base`, or takes the id in
`draft`, conflicts with the request that holds it, which `NoConflict` excludes
(`SameRowConflict`, `InsertsConflict`); only a create is in conflict with no
modifier, and since by `InsertsAreNew` it takes an id with a row only if its scan
was cut or its number is the last, the record it leaves in `overwritten` is what
`NoStaleWrite` then points to. `HistoryOK` says of the two histories that a cut
costs a failure and that only creates write over tasks. The refinement needs more of a handler
about to write (`Ready`, for all of them `Prepared`): that its draft is what its
command makes of the row it read, and that the command would not be refused on
it; since the row is still the one it read, or one of `Versions`, that is what the
atomic command does. The two
specifications compute with separate instances of the same operators, and the
lemmas `Same...` show that they agree. `AckInv` adds what is true
*between* the write and the answer: a delete that dropped its row leaves no row
until somebody inserts (`GoneStays`), and a create that inserted finds its id
stored (`MadeStored`) and apart from every other create's (`MadeApart`). In the
same way `EventsInv` carries an event over the gap between the write and
`Publish`: of each task that has had an event, and is changed by the subject
verbs only, either the last event shows the row or the handler that changed it
is about to publish; and `DependencyHeld` carries a dependency over the gap
between the write and the answer, into the payload every modifier of the task has
read (`Carried`). The condition `Serialized` stands in the statements; that the
numbers last does not, and `store_serialized` reaches their end.

Of `SerialTasks`, for every set of commands, table and any length of the
sequence:

* `NextIdIsAboveAll`, `CreatesAddARow`, from `Keyed` (every row is stored under
  its payload's id);
* `TypeCorrect`, for `TypedCallers`: each of the eight modifiers, the creates and
  the deletes leave well-typed payloads under their own ids; `DependenciesStayUnique`
  for `TidyCallers`;
* `ListedIdsAreReachable`, for `BareCallers`: the id a task is shown under finds
  it. This is the property `wire_ids` violates, with the one condition that it
  needs;
* for `OrderlyCallers`: `MarksAlwaysFollowStatus`, `CompletionIsStamped`,
  `ChecklistIdsAreUnique`, `StampsAreAlwaysKept`, `DecodableIsAlwaysKept`,
  `RequestedStatusAlwaysShows`, all from the invariant `Orderly`: each stored
  task has a metadata object, its marks and its completion time fit its status,
  and the k-th item of its checklist has the id k. `CompletionStamped`
  is not inductive alone, because `set_status_field` stamps only into a metadata
  object that is there; `ChecklistIdsUnique` is not, because the next id is the
  length plus one.

Of `TaskQueue`, for every table those commands reach, of any size, with ids of any
family, width and number:

* `NextIsHeadOfQueue` (`NextHeadsQueue`): filtering before the stable sort and
  after it come to the same first task (`FirstOpenByRank`, of any list).
* `QueueAlwaysShowsItsOrder` (`QueueShowsItsOrder`), for `BareCallers`.
* `StatisticsAlwaysMatch` (`StatisticsMatchLists`): the list of all tasks has every
  row in one place (`PlacesOfRows`), so that counting rows and counting the
  elements of a list come to the same number.
* `DialectsAlwaysAgree` (`DialectsAgree`): cutting, filtering and viewing commute.

They rest on two invariants, that the table is keyed and that it is finite
(`TableIsFinite`), and on `TextIsOrder`: the comparison of texts, by which rows are
listed, is a strict total order of any set of ids. For the digits that is so
because numbers written out to one width compare as they do at any greater one
(`AnyWidth`, from the powers of ten that `TenTo` defines and `TenToAdds`), so that
three ids can be compared at one width.

Of `WatchHub`, for every number of requests, set of ids, capacity and number of
events: `TypeCorrect` (`TypeOK`), `NoForwarderLeaks` (`ForwarderReachable`),
`AnsweredUnwatchStops` (`UnwatchStops`) and `EventsOnceInOrder`
(`EachEventOnceInOrder`). The inductive invariant adds that a
forwarder exists exactly from its watch's subscription on (`Subscribed`) and that
a watch seen answered stays answered (`SeenAnswered`). The argument: a watch that
is answered has left `Register`, so by `ForwarderReachable` a forwarder of it
that is still live is the one the unwatch finds under its key. For the events a
ledger is kept (`Booked`): whatever lies between the subscription and the cursor
is notified, skipped or in the forwarder's hand, and everything notified is
below what it holds.

Of `Plugin`: `PluginImplementsStore` and `PluginImplementsHub`, that inside the
plugin the store's variables behave as `TaskStore` and the watches' as
`WatchHub`, whatever lines come in, so that what is proved of the parts holds of
the whole: `PluginUpdatesAreNotStale`, `PluginIsAtomic` (the plugin from stdin to
stdout implements `AtomicTasks`, for serialized callers),
`PluginKeepsItsWord` (the acknowledged creates, deletes and dependencies and the
last events, likewise) and `PluginEventsOnceInOrder`. The joint
step `Publish`/`Broadcast` is where it needs an argument: exactly the events
published are the ones sent. `AdvertisedIsServed` (`AdvertisedServed`): no method of the
capabilities falls through the dispatch; `Marker`, the entry that tells the daemon
of the subject kind, is no method. The run sees the methods of its
lines; the theorem is about every method of either dialect.

`ClientsConverge` is the theorem about the whole: for `TidyCallers`, `[]MirrorConverges`. A client that watches, then
reads, and takes what was notified since for newer than the answer, ends up with
the state of the task once everything due has been written, although the
answer may be of an older state than notifications before it and of a newer one
than notifications after it. The argument runs over four invariants.
`LoopInv`: which request is where, and that the answers on stdout are those the
handlers gave. `Ledgers`: of each forwarder, that whatever lies between its
subscription and its cursor is notified, skipped or in its hand. `FramesInv`: the
frames on stdout are the frames of the hub in their order, so that what the
forwarder has delivered is found on stdout. `MirrorInv`: from the moment the read
took its row, either the row is still as the answer has it, or an event newer
than the read is written, or is still to be published or delivered. When nothing
is due only the first two are left, and `EventsInv` says that the last event
shows the row. The proof found a state the property had not considered, a read that
fails on a row that does not decode; the property now excepts it, and the run
includes such a row.

The assumptions are those of the modules (`TaskIdsAssumption`,
`SerialTasksAssumption`, `TaskQueueAssumption`, `TaskStoreAssumption`,
`WatchHubAssumption`, `PluginAssumption`); TLC evaluates each on the instances.
`TaskQueueAssumption` says of the tables at start that they are finite and of
`FamilyOrder` that it orders the families. `LiteralsAreTexts` of `TaskPayload` says
that the seven texts the payload functions write are strings, which the provers
do not know of a literal. The conditions on callers are hypotheses of the theorems,
and are assumed of the instances, which shows that they can be met.

Only model-checked: `EveryRequestAnswered`, `EveryLineAnswered` and `EventsArrive`,
since liveness under fairness is out of the prover's reach; and that the violations
of section 5 happen.

## 5. Findings

Each `violation` run checks one statement of the repository and TLC finds it
violated; `PROJECT.json` quotes the statements. Pipelined requests can get the
same id twice and lose an acknowledged edit (and, by the same path, revive a
deleted task); a scan of the ids that fails half-way counts as a complete one, and
the create it is for writes over a stored task; `task/replace` with
the id the plugin shows stores an unreachable row; a lagging watch loses events
without notice; an unwatch can overtake its watch, whose forwarder then stays.
Smaller disagreements are noted at their hazards: `subject/list` takes the status
shorthand of `task/list`, whose alias the repository's README calls it, for no
filter at all; suffixes beyond u32, completion without a metadata object, events
written before the watch's acknowledgement, unknown priorities that rank and show
differently.

## 6. Not modelled

* SQLite itself: a statement is atomic and outlives the process, or fails; a scan
  may fail on the way. Only the scan of the ids is cut short in the models:
  `list_all` drops errors in the same way, and rows whose json does not parse,
  and answers a shorter list, which changes no state. (The
  loss of power, after which `synchronous=NORMAL` may roll back the last statements,
  is not modelled.) `Database file`
  (opening, pragmas, the table's creation) is its I/O; the models start from any
  table it may hold. Two processes on one database file are not modelled: the
  plugin is launched once per project.
* Configuration: read from the environment once before any request; the prefix
  and the pad it yields are constants of the models.
* The manifest, the schema, health and capability answers: constants without
  state. Their routing, and that they are answered, is in `Plugin`.
* Calls refused before they reach the store, for a missing or a blank id, other
  than those of the `plugin` run; the blanks around an id, which `require_id` trims.
  Blanks and capitals of a priority are modelled by two spellings (`CanonicalPriority`).
* What else can keep a row from decoding as a Subject: `Decodable` looks at the two
  timestamps, the one part an edit of the plugin could lose.
* Logging, the wording of errors, and fields no rule depends on (title,
  description, the texts of checklist items).
* The contract tests and the release workflow: no behaviour of the program.
