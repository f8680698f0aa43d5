------------------------------ MODULE TaskQueue ------------------------------
(***************************************************************************)
(* The verbs that read the whole table: task/list (and list_filtered,      *)
(* which is the same), list_prioritized, next, statistics, and the         *)
(* subject/list of the other dialect.  Each is one SELECT and a pure       *)
(* function of its result; the table moves as in SerialTasks.              *)
(*                                                                         *)
(* The parameters of a list are a partial function, as a patch is.  The    *)
(* JSON field `status` is "status" when it is an array and "shorthand"     *)
(* when it is one string.                                                  *)
(***************************************************************************)
EXTENDS SerialTasks

CONSTANT FamilyOrder    \* the place of each family in the order of texts,
                        \* none of which begins another

ASSUME TaskQueueAssumption ==
    /\ FamilyOrder \in [Families -> Nat]
    /\ IsInjective(FamilyOrder)
    /\ \A table \in InitialTables : IsFiniteSet(DOMAIN table)

-----------------------------------------------------------------------------
(* ORDER BY id: SQLite compares the texts byte by byte.                     *)

TenTo[n \in Nat] == IF n = 0 THEN 1 ELSE 10 * TenTo[n - 1]

Scaled(id, width) == id.num * TenTo[width - id.width]

\* Digits are compared from the left; of two that agree the shorter is first.
DigitsBefore(a, b) ==
    LET width == IF a.width > b.width THEN a.width ELSE b.width
    IN  \/ Scaled(a, width) < Scaled(b, width)
        \/ Scaled(a, width) = Scaled(b, width) /\ a.width < b.width

\* The kind prefix is in lower case, after every family.
TextBefore(a, b) ==
    \/ a.prefixes < b.prefixes
    \/ /\ a.prefixes = b.prefixes
       /\ \/ FamilyOrder[a.family] < FamilyOrder[b.family]
          \/ a.family = b.family /\ DigitsBefore(a, b)

TextOrder(ids) == {p \in ids \X ids : TextBefore(p[1], p[2])}

\* The table as a scan that runs to its end has it: rows whose json does not
\* parse, which the plugin does not write, would be passed over.
ListAll == LET ids == InOrder(DOMAIN rows, TextOrder(DOMAIN rows))
           IN  [k \in DOMAIN ids |-> rows[ids[k]]]

-----------------------------------------------------------------------------
(* The lists.                                                               *)

Views(tasks) == [k \in DOMAIN tasks |-> SubjectView(tasks[k])]

FirstOf(list) == IF list = <<>> THEN <<>> ELSE <<Head(list)>>

Limited(list, params) ==
    SubSeq(list, 1, IF "limit" \in DOMAIN params /\ params["limit"] < Len(list)
                    THEN params["limit"] ELSE Len(list))

\* The status task/list filters by: of an array it reads the first only.
FirstStatus(params) ==
    IF "shorthand" \in DOMAIN params THEN <<params["shorthand"]>>
    ELSE IF "status" \in DOMAIN params THEN FirstOf(params["status"])
    ELSE <<>>

\* The indices of the tasks with a wanted status; all of them if none is named.
Wanted(tasks, want) == {k \in DOMAIN tasks : want = <<>> \/ want = <<tasks[k].status>>}

\* Mistake: the limit cuts the table before the filter.
List_LimitsFirst(params) ==
    LET cut == Limited(ListAll, params)
    IN  Views(Subsequence(cut, Wanted(cut, FirstStatus(params))))

List(params) ==
    LET all == ListAll
    IN  Views(Limited(Subsequence(all, Wanted(all, FirstStatus(params))), params))

PriorityRank(priority) ==
    CASE priority = "critical" -> 4
      [] priority = "high"     -> 3
      [] priority = "medium"   -> 2
      [] priority = "low"      -> 1
      [] OTHER                 -> 0

\* Mistake: sorted upwards and then reversed, which reverses ties too.
ByRank_Reversed(tasks) ==
    LET Rank(k) == PriorityRank(tasks[k].priority)
        order   == InOrder(DOMAIN tasks,
                       {p \in (DOMAIN tasks) \X (DOMAIN tasks) :
                           \/ Rank(p[1]) > Rank(p[2])
                           \/ Rank(p[1]) = Rank(p[2]) /\ p[1] > p[2]})
    IN  [k \in DOMAIN order |-> tasks[order[k]]]

\* Highest rank first; of one rank in the order they had.
RankOrder(tasks) ==
    LET Rank(k) == PriorityRank(tasks[k].priority)
    IN  {p \in (DOMAIN tasks) \X (DOMAIN tasks) :
            \/ Rank(p[1]) > Rank(p[2])
            \/ Rank(p[1]) = Rank(p[2]) /\ p[1] < p[2]}

\* sort_by_key with Reverse, which is stable.
ByRank(tasks) ==
    LET order == InOrder(DOMAIN tasks, RankOrder(tasks))
    IN  [k \in DOMAIN order |-> tasks[order[k]]]

ListPrioritized == Views(ByRank(ListAll))

Open == {"ready", "backlog", "in-progress"}

OpenTasks(tasks) == Subsequence(tasks, {k \in DOMAIN tasks : tasks[k].status \in Open})

\* Mistake: the first of the table, as it was read.
NextTask_Unsorted == Views(FirstOf(OpenTasks(ListAll)))

\* One task, or none.
NextTask == Views(FirstOf(ByRank(OpenTasks(ListAll))))

-----------------------------------------------------------------------------
(* subject/list.                                                            *)

\* The filter may come in an envelope.  One that is not a SubjectFilter is
\* taken for the empty one: nothing is filtered, and nothing limited.
SubjectFilter(params) ==
    LET given == IF "filter" \in DOMAIN params THEN params["filter"] ELSE params
    IN  IF \/ "shorthand" \in DOMAIN given
           \/ "status" \in DOMAIN given /\ ~ ToSet(given["status"]) \subseteq ProtocolStatuses
        THEN <<>> ELSE given

Keeps(filter, subject) ==
    /\ "status" \in DOMAIN filter /\ filter["status"] # <<>> =>
           Contains(filter["status"], subject.status)
    /\ "kind" \in DOMAIN filter /\ filter["kind"] # {} => "task" \in filter["kind"]
    /\ "native_status" \in DOMAIN filter => subject.native_status = filter["native_status"]
    /\ "labels_any" \in DOMAIN filter /\ filter["labels_any"] # {} =>
           subject.labels \cap filter["labels_any"] # {}
    /\ "labels_all" \in DOMAIN filter => filter["labels_all"] \subseteq subject.labels

NeverEmitted == {"dispatch_label", "has_attachment_kind"}

Undecodable == [kind |-> "error", code |-> "internal"]

\* No subject has a dispatch label or an attachment.  A row that does not decode
\* fails the whole list, whether the filter would keep it or not.
SubjectList(params) ==
    LET filter == SubjectFilter(params)
        shown  == Views(ListAll)
    IN  IF DOMAIN filter \cap NeverEmitted # {} THEN [kind |-> "list", subjects |-> <<>>]
        ELSE IF \E i \in DOMAIN rows : ~ Decodable(rows[i]) THEN Undecodable
        ELSE [kind |-> "list",
              subjects |-> Limited(Subsequence(shown, {k \in DOMAIN shown : Keeps(filter, shown[k])}),
                                   filter)]

-----------------------------------------------------------------------------
(* statistics.                                                              *)

Count(Is(_)) == Cardinality({i \in DOMAIN rows : Is(SubjectView(rows[i]).native_status)})

Tally(Of(_)) ==
    [v \in {Of(rows[i]) : i \in DOMAIN rows} |->
        Cardinality({i \in DOMAIN rows : Of(rows[i]) = v})]

\* Mistake: the spelling in_progress is not counted.
Statistics_OneSpelling ==
    [total       |-> Cardinality(DOMAIN rows),
     by_status   |-> Tally(LAMBDA t : SubjectView(t).native_status),
     by_priority |-> Tally(LAMBDA t : t.priority),
     in_progress |-> Count(LAMBDA s : s = "in-progress"),
     blocked     |-> Count(LAMBDA s : s = "blocked"),
     completed   |-> Count(LAMBDA s : s \in Finished \cup {"cancelled"})]

Statistics ==
    [total       |-> Cardinality(DOMAIN rows),
     by_status   |-> Tally(LAMBDA t : SubjectView(t).native_status),
     by_priority |-> Tally(LAMBDA t : t.priority),
     in_progress |-> Count(LAMBDA s : s \in {"in-progress", "in_progress"}),
     blocked     |-> Count(LAMBDA s : s = "blocked"),
     completed   |-> Count(LAMBDA s : s \in Finished \cup {"cancelled"})]

-----------------------------------------------------------------------------
(* The reads agree with each other.                                         *)

KnownPriority(id) == PriorityRank(rows[id].priority) > 0

(* The order of list_prioritized is the one its answers show: a task with a *)
(* greater bucket is never behind one with a smaller, and tasks of one      *)
(* bucket come by number while their ids have equally many digits.  A       *)
(* priority the code does not know is excepted: it ranks last and shows as  *)
(* medium.                                                                  *)
QueueShowsItsOrder ==
    LET queue == ListPrioritized IN
    \A j, k \in DOMAIN queue :
        LET a == queue[j] b == queue[k]
            x == StripKindPrefix(a.id) y == StripKindPrefix(b.id)
        IN  j < k /\ KnownPriority(x) /\ KnownPriority(y) =>
                /\ a.priority >= b.priority
                /\ a.priority = b.priority /\ x.family = y.family /\ x.width = y.width
                      => x.num < y.num

(* task/next is the first task of list_prioritized that is open, as its     *)
(* native status tells: the two handlers never disagree on the order.  (A   *)
(* payload stored without a status is excepted: it shows as "backlog" in    *)
(* the list, and next passes it over.)                                      *)
NextHeadsQueue ==
    LET queue == ListPrioritized
        open  == Subsequence(queue, {k \in DOMAIN queue : queue[k].native_status \in Open})
    IN  (\A i \in DOMAIN rows : rows[i].status # NoStatus) => NextTask = FirstOf(open)

(* The numbers of task/statistics are the lengths of the lists: of          *)
(* subject/list by protocol status, and of task/list by native status.      *)
StatisticsMatchLists ==
    LET Shown(s) == Len(SubjectList([status |-> <<s>>]).subjects)
    IN  (\A i \in DOMAIN rows : Decodable(rows[i])) =>
            /\ Statistics.total = Len(List(<<>>))
            /\ Statistics.in_progress = Shown("in-progress")
            /\ Statistics.blocked = Shown("blocked")
            /\ Statistics.completed = Shown("done") + Shown("cancelled")
            /\ \A s \in DOMAIN Statistics.by_status :
                   Statistics.by_status[s] = Len(SubjectList([native_status |-> s]).subjects)

(* The two dialects have one filter in common: task/list by a native status *)
(* and subject/list by native_status list the same tasks in the same order, *)
(* cut at the same limit, when every row has a status and decodes.          *)
DialectsAgree ==
    \A s \in {rows[i].status : i \in DOMAIN rows}, n \in 0 .. MaxRows :
        (\A i \in DOMAIN rows : Decodable(rows[i]) /\ rows[i].status # NoStatus) =>
            SubjectList([native_status |-> s, limit |-> n]).subjects
                = List([shorthand |-> s, limit |-> n])
=============================================================================
