--------------------------- MODULE AckedTasksProofs ---------------------------
(***************************************************************************)
(* What TaskStore has acknowledged to serialized callers stays so, for any *)
(* number of requests, faults and crashes: a deleted task stays deleted, an*)
(* added dependency stays, no two creates are told the same id, and the    *)
(* last event of a task is its state.  Each says what a scan of the ids    *)
(* that was cut short, or the end of the u32 numbers, may do to it.        *)
(***************************************************************************)
EXTENDS AtomicTasksProofs

-----------------------------------------------------------------------------
(* The inductive invariants.                                                *)

\* Some caller has sent a command that inserts rows.
InsertSent == \E q \in Requests : pc[q] # "idle" /\ InsertsRow(call[q])

\* From the moment its row is dropped, a delete that succeeds leaves no row.
GoneStays ==
    \A r \in Requests :
        /\ pc[r] \in {"publish", "reply", "done"}
        /\ call[r].verb = "delete"
        /\ reply[r].kind # "error"
        => InsertSent \/ RowKey(call[r]) \notin DOMAIN rows

NoDelete == \A q \in Requests : call[q].verb # "delete"

\* A create that has inserted its row.
Made(r) ==
    /\ pc[r] \in {"publish", "reply", "done"}
    /\ call[r].verb = "create"
    /\ reply[r].kind # "error"

\* The id answered is the stored one with its kind prefix.
ToldAs(r, id) == id.prefixes = 0 /\ reply[r].subject.id = AddKindPrefix(id)

MadeStored == \A r \in Requests : Made(r) => \E id \in DOMAIN rows : ToldAs(r, id)

MadeApart ==
    \A r, s \in Requests :
        r # s /\ Made(r) /\ Made(s) =>
            \/ reply[r].subject.id # reply[s].subject.id
            \/ r \in cut \/ s \in cut
            \/ reply[r].subject.id = AddKindPrefix(LastId)

\* A request not yet sent asks nothing.
IdleAsksNothing ==
    /\ DOMAIN reply = Requests
    /\ \A r \in Requests : pc[r] = "idle" => call[r] = Nothing

AckInv ==
    /\ IdleAsksNothing
    /\ GoneStays
    /\ NoDelete => MadeStored /\ MadeApart

-----------------------------------------------------------------------------
(* Deletes.                                                                 *)

(* What a request has asked it goes on asking, and what was sent stays sent.*)
LEMMA AsksOnce ==
    ASSUME TypeOK, IdleAsksNothing, [Next]_vars
    PROVE  /\ IdleAsksNothing'
           /\ \A r \in Requests : pc[r] # "idle" => pc'[r] # "idle" /\ call'[r] = call[r]
           /\ InsertSent => InsertSent'
           /\ NoDelete' => NoDelete
<1> DEFINE Keeps == \A r \in Requests : pc[r] # "idle" => pc'[r] # "idle" /\ call'[r] = call[r]
<1>1. ASSUME NEW q \in Requests, NEW c \in Commands, Receive(q, c)
      PROVE  IdleAsksNothing' /\ Keeps
  BY <1>1 DEF Receive, TypeOK, IdleAsksNothing
<1>2. ASSUME NEW q \in Requests, Step(q) \/ Fault(q) \/ CutScan(q)
      PROVE  IdleAsksNothing' /\ Keeps
  <2>1. /\ call' = call /\ DOMAIN reply' = DOMAIN reply
        /\ pc[q] # "idle" /\ pc' = [pc EXCEPT ![q] = pc'[q]] /\ pc'[q] # "idle"
    BY <1>2 DEF Step, Allocate, CutScan, Allot, Fetch, Miss, Get, DeleteRow, Upsert, Publish,
                Answer, Fault, Settle, TypeOK
  <2> QED  BY <2>1 DEF TypeOK, IdleAsksNothing
<1>3. ASSUME Crash PROVE IdleAsksNothing' /\ Keeps
  <2>1. UNCHANGED <<call, reply>> /\ \A r \in Requests : pc'[r] = "idle" <=> pc[r] = "idle"
    BY <1>3 DEF Crash, TypeOK, InFlight
  <2> QED  BY <2>1 DEF IdleAsksNothing, Nothing
<1>4. ASSUME UNCHANGED vars PROVE IdleAsksNothing' /\ Keeps
  BY <1>4 DEF vars, IdleAsksNothing, Nothing
<1>5. IdleAsksNothing' /\ Keeps
  BY <1>1, <1>2, <1>3, <1>4 DEF Next
<1>6. InsertSent => InsertSent'
  BY <1>5 DEF InsertSent
<1>7. NoDelete' => NoDelete
  BY <1>5 DEF NoDelete, IdleAsksNothing, Nothing
<1> QED  BY <1>5, <1>6, <1>7

(* A handler's step is about its own request.                               *)
LEMMA OthersStay ==
    ASSUME TypeOK, IdleAsksNothing, NEW q \in Requests, Step(q) \/ Fault(q) \/ CutScan(q),
           NEW r \in Requests, r # q
    PROVE  pc'[r] = pc[r] /\ call'[r] = call[r] /\ reply'[r] = reply[r]
<1>1. ASSUME Allocate(q) \/ CutScan(q) \/ Fetch(q) \/ Publish(q) \/ Answer(q)
      PROVE  UNCHANGED <<call, reply>> /\ pc'[r] = pc[r]
  BY <1>1 DEF Allocate, CutScan, Allot, Fetch, Publish, Answer, TypeOK
<1>2. ASSUME Miss(q) \/ Get(q) \/ DeleteRow(q) \/ Upsert(q) \/ Fault(q)
      PROVE  UNCHANGED call /\ pc'[r] = pc[r] /\ reply'[r] = reply[r]
  <2>1. /\ UNCHANGED call
        /\ \E at : pc' = [pc EXCEPT ![q] = at]
        /\ \E a : reply' = [reply EXCEPT ![q] = a]
    BY <1>2 DEF Miss, Get, DeleteRow, Upsert, Fault, Settle
  <2> QED  BY <2>1 DEF TypeOK, IdleAsksNothing
<1> QED  BY <1>1, <1>2 DEF Step

(* Only a command that inserts makes a row appear: a serialized modifier    *)
(* writes a row that is still there.                                        *)
LEMMA RowsAppear ==
    ASSUME Serialized, IndInv, Prepared, [Next]_vars,
           NEW key \in DOMAIN rows', key \notin DOMAIN rows
    PROVE  InsertSent
<1>1. PICK q \in Requests : Upsert(q)
  <2>1. ASSUME NEW q \in Requests, DeleteRow(q) PROVE DOMAIN rows' \subseteq DOMAIN rows
    BY <2>1 DEF DeleteRow, Drop
  <2>2. ASSUME NEW q \in Requests, NEW c \in Commands, Receive(q, c) PROVE rows' = rows
    BY <2>2 DEF Receive
  <2>3. ASSUME NEW q \in Requests,
               \/ Allocate(q) \/ CutScan(q) \/ Fetch(q) \/ Miss(q) \/ Get(q)
               \/ Publish(q) \/ Answer(q) \/ Fault(q)
        PROVE  rows' = rows
    BY <2>3 DEF Allocate, CutScan, Allot, Fetch, Miss, Get, Publish, Answer, Fault
  <2>4. ASSUME Crash \/ UNCHANGED vars PROVE rows' = rows
    BY <2>4 DEF Crash, vars
  <2> QED  BY <2>1, <2>2, <2>3, <2>4 DEF Next, Step
<1>2. pc[q] = "write" /\ rows' = Put(rows, draft[q]) /\ Drafted(q) /\ Ready(q)
  BY <1>1 DEF Upsert, IndInv, Prepared
<1>3. key = draft[q].id
  BY <1>2 DEF Put
<1>4. call[q].verb \notin Modifiers
  BY <1>2, <1>3 DEF IndInv, NoStaleWrite, Drafted, Ready, Modifiers
<1> QED  BY <1>2, <1>4 DEF Drafted, InsertSent, InsertsRow

(* A delete that succeeded leaves no row until somebody inserts.            *)
LEMMA GoneStep ==
    ASSUME Serialized, IndInv, Prepared, AckInv, [Next]_vars
    PROVE  GoneStays'
<1> SUFFICES ASSUME NEW r \in Requests,
                    pc'[r] \in {"publish", "reply", "done"},
                    call'[r].verb = "delete", reply'[r].kind # "error", ~ InsertSent'
             PROVE  RowKey(call'[r]) \notin DOMAIN rows'
  BY DEF GoneStays
<1>0. TypeOK /\ IdleAsksNothing /\ ~ InsertSent
  BY AsksOnce DEF IndInv, AckInv
<1>1. DOMAIN rows' \subseteq DOMAIN rows
  BY <1>0, RowsAppear
<1>2. ASSUME pc[r] \in {"publish", "reply", "done"}, call'[r] = call[r], reply'[r] = reply[r]
      PROVE  RowKey(call'[r]) \notin DOMAIN rows'
  BY <1>0, <1>1, <1>2 DEF AckInv, GoneStays
<1>3. ASSUME NEW q \in Requests, NEW c \in Commands, Receive(q, c)
      PROVE  RowKey(call'[r]) \notin DOMAIN rows'
  <2>1. q # r
    BY <1>0, <1>3 DEF Receive, TypeOK
  <2> QED  BY <1>0, <1>2, <1>3, <2>1 DEF Receive, TypeOK
<1>4. ASSUME NEW q \in Requests, DeleteRow(q)
      PROVE  RowKey(call'[r]) \notin DOMAIN rows'
  <2>1. CASE q = r
    <3>1. CASE RowKey(call[r]) \in DOMAIN rows
      BY <1>4, <2>1, <3>1 DEF DeleteRow, Drop
    <3>2. CASE RowKey(call[r]) \notin DOMAIN rows
      BY <1>1, <1>4, <2>1, <3>2 DEF DeleteRow
    <3> QED  BY <3>1, <3>2
  <2>2. CASE q # r
    BY <1>0, <1>2, <1>4, <2>2, OthersStay DEF Step
  <2> QED  BY <2>1, <2>2
<1>5. ASSUME NEW q \in Requests,
             Allocate(q) \/ CutScan(q) \/ Fetch(q) \/ Miss(q) \/ Get(q) \/ Upsert(q)
      PROVE  RowKey(call'[r]) \notin DOMAIN rows'
  <2>1. UNCHANGED call /\ (q = r => call[r].verb # "delete")
    <3>1. ASSUME Upsert(q) PROVE call[q].verb # "delete"
      BY <3>1 DEF Upsert, IndInv, Drafted, Modifiers
    <3> QED  BY <1>5, <3>1 DEF Allocate, CutScan, Allot, Fetch, Miss, Get, Upsert, Modifiers, Readers
  <2>2. q # r
    BY <2>1
  <2> QED  BY <1>0, <1>2, <1>5, <2>2, OthersStay DEF Step
<1>6. ASSUME NEW q \in Requests, Publish(q) \/ Answer(q)
      PROVE  RowKey(call'[r]) \notin DOMAIN rows'
  <2>1. pc[r] \in {"publish", "reply", "done"} /\ UNCHANGED <<call, reply>>
    BY <1>0, <1>6 DEF Publish, Answer, TypeOK
  <2> QED  BY <1>2, <2>1
<1>7. ASSUME NEW q \in Requests, Fault(q)
      PROVE  RowKey(call'[r]) \notin DOMAIN rows'
  <2>1. CASE q # r
    BY <1>0, <1>2, <1>7, <2>1, OthersStay
  <2>2. CASE q = r
    BY <1>0, <1>7, <2>2 DEF Fault, Settle, Error, IdleAsksNothing
  <2> QED  BY <2>1, <2>2
<1>8. CASE Crash
  BY <1>0, <1>2, <1>8 DEF Crash, TypeOK, InFlight
<1>9. CASE UNCHANGED vars
  BY <1>2, <1>9 DEF vars
<1> QED  BY <1>3, <1>4, <1>5, <1>6, <1>7, <1>8, <1>9 DEF Next, Step

-----------------------------------------------------------------------------
(* Creates.                                                                 *)

(* Two ids without a kind prefix are shown alike only when they are equal.  *)
LEMMA ShownApart ==
    ASSUME NEW i \in Id, NEW j \in Id, i.prefixes = 0, j.prefixes = 0,
           AddKindPrefix(i) = AddKindPrefix(j)
    PROVE  i = j
<1>1. /\ AddKindPrefix(i) = [i EXCEPT !.prefixes = 1]
      /\ AddKindPrefix(j) = [j EXCEPT !.prefixes = 1]
  BY DEF AddKindPrefix, Id
<1>2. i.family = j.family /\ i.num = j.num /\ i.width = j.width
  BY <1>1 DEF Id
<1> QED  BY <1>2 DEF Id

(* A create becomes made by inserting a row under an id nobody had, or one  *)
(* it should not have been given.                                           *)
Inserted(r) ==
    LET t == draft[r] IN
    /\ Upsert(r)
    /\ reply'[r].subject.id = AddKindPrefix(t.id)
    /\ t.id \in Id /\ t.id.prefixes = 0
    /\ t.id \in DOMAIN rows'
    /\ t.id \notin DOMAIN rows \/ t.id = LastId \/ r \in cut

(* The write of a serialized create is such an insert.                      *)
LEMMA UpsertInserts ==
    ASSUME Serialized, IndInv, Prepared, AckInv,
           NEW r \in Requests, Upsert(r), call[r].verb = "create"
    PROVE  Inserted(r)
<1>1. /\ TypeOK /\ Drafted(r) /\ Ready(r) /\ pc[r] = "write"
      /\ rows' = Put(rows, draft[r]) /\ reply' = [reply EXCEPT ![r] = Subject(draft[r])]
  BY DEF Upsert, Settle, IndInv, Prepared
<1>2. draft[r].id \in Id /\ draft[r].id.prefixes = 0
  BY <1>1 DEF Drafted, Ready, Pool, ZeroPadded
<1>3. draft[r].id \notin DOMAIN rows \/ draft[r].id = LastId \/ r \in cut
  BY <1>1 DEF IndInv, InsertsAreNew, MayBeTaken
<1>4. draft[r].id \in DOMAIN rows'
  BY <1>1 DEF Put
<1>5. reply'[r].subject.id = AddKindPrefix(draft[r].id)
  BY <1>1 DEF AckInv, IdleAsksNothing, Subject, SubjectView
<1> QED  BY <1>2, <1>3, <1>4, <1>5 DEF Inserted

(* A create that is made was made before or inserts in this step.           *)
LEMMA MadeBefore ==
    ASSUME Serialized, IndInv, Prepared, AckInv, [Next]_vars,
           NEW r \in Requests, Made(r)'
    PROVE  (Made(r) /\ reply'[r] = reply[r]) \/ Inserted(r)
<1> DEFINE Before == Made(r) /\ reply'[r] = reply[r]
<1>0. TypeOK /\ IdleAsksNothing
  BY DEF IndInv, AckInv
<1>1. ASSUME NEW q \in Requests, NEW c \in Commands, Receive(q, c) PROVE Before
  <2>1. q # r
    BY <1>0, <1>1 DEF Receive, TypeOK, Made
  <2> QED  BY <1>0, <1>1, <2>1 DEF Receive, TypeOK, Made
<1>2. ASSUME NEW q \in Requests, Step(q) \/ Fault(q) \/ CutScan(q), q # r PROVE Before
  BY <1>0, <1>2, OthersStay DEF Made
<1>3. ASSUME Allocate(r) \/ CutScan(r) \/ Fetch(r) \/ Miss(r) \/ Get(r) \/ DeleteRow(r)
      PROVE  FALSE
  BY <1>0, <1>3 DEF Allocate, CutScan, Allot, Fetch, Miss, Get, DeleteRow, Made, TypeOK, Modifiers, Readers
<1>4. ASSUME Upsert(r) PROVE Inserted(r)
  BY <1>4, UpsertInserts DEF Upsert, Made
<1>5. ASSUME Publish(r) \/ Answer(r) PROVE Before
  BY <1>0, <1>5 DEF Publish, Answer, Made
<1>6. ASSUME Fault(r) PROVE FALSE
  BY <1>0, <1>6 DEF Fault, Settle, Error, Made, IdleAsksNothing
<1>7. ASSUME Crash PROVE Before
  BY <1>0, <1>7 DEF Crash, TypeOK, InFlight, Made
<1>8. ASSUME UNCHANGED vars PROVE Before
  BY <1>8 DEF vars, Made
<1> QED  BY <1>1, <1>2, <1>3, <1>4, <1>5, <1>6, <1>7, <1>8 DEF Next, Step

(* While nothing is deleted, what creates were told stays in the table, and *)
(* stays apart.                                                             *)
LEMMA MadeStep ==
    ASSUME Serialized, IndInv, Prepared, AckInv, [Next]_vars,
           NoDelete'
    PROVE  MadeStored' /\ MadeApart'
<1>0. TypeOK /\ NoDelete /\ MadeStored /\ MadeApart
  BY AsksOnce DEF IndInv, AckInv
<1>1. DOMAIN rows \subseteq DOMAIN rows'
  <2>1. ASSUME NEW q \in Requests, Upsert(q) PROVE DOMAIN rows \subseteq DOMAIN rows'
    BY <2>1 DEF Upsert, Put
  <2>2. \A q \in Requests : ~ DeleteRow(q)
    BY <1>0 DEF DeleteRow, NoDelete
  <2>3. ASSUME NEW q \in Requests, NEW c \in Commands, Receive(q, c) PROVE rows' = rows
    BY <2>3 DEF Receive
  <2>4. ASSUME NEW q \in Requests,
               \/ Allocate(q) \/ CutScan(q) \/ Fetch(q) \/ Miss(q) \/ Get(q)
               \/ Publish(q) \/ Answer(q) \/ Fault(q)
        PROVE  rows' = rows
    BY <2>4 DEF Allocate, CutScan, Allot, Fetch, Miss, Get, Publish, Answer, Fault
  <2>5. ASSUME Crash \/ UNCHANGED vars PROVE rows' = rows
    BY <2>5 DEF Crash, vars
  <2> QED  BY <2>1, <2>2, <2>3, <2>4, <2>5 DEF Next, Step
<1>2. DOMAIN rows \subseteq Id
  BY <1>0 DEF TypeOK, WellKeyed
<1>3. MadeStored'
  <2> SUFFICES ASSUME NEW r \in Requests, Made(r)'
               PROVE  \E id \in DOMAIN rows' : id.prefixes = 0 /\ reply'[r].subject.id = AddKindPrefix(id)
    BY DEF MadeStored, ToldAs, AddKindPrefix
  <2>1. CASE Made(r) /\ reply'[r] = reply[r]
    BY <1>0, <1>1, <2>1 DEF MadeStored, ToldAs
  <2>2. CASE Inserted(r)
    BY <2>2 DEF Inserted
  <2> QED  BY <2>1, <2>2, MadeBefore
<1>4. MadeApart'
  <2> SUFFICES ASSUME NEW r \in Requests, NEW s \in Requests, r # s, Made(r)', Made(s)'
               PROVE  \/ reply'[r].subject.id # reply'[s].subject.id
                      \/ r \in cut' \/ s \in cut'
                      \/ reply'[r].subject.id = AddKindPrefix(LastId)
    BY DEF MadeApart, LastId, AddKindPrefix
  <2>0. cut \subseteq cut'
    BY <1>0, HistoryGrows
  <2>1. ASSUME NEW x \in Requests, NEW y \in Requests, Inserted(x),
               Made(y) /\ reply'[y] = reply[y]
        PROVE  \/ reply'[x].subject.id # reply'[y].subject.id
               \/ x \in cut
               \/ reply'[x].subject.id = AddKindPrefix(LastId)
    <3>1. PICK id \in DOMAIN rows : id.prefixes = 0 /\ reply'[y].subject.id = AddKindPrefix(id)
      BY <1>0, <2>1 DEF MadeStored, ToldAs
    <3>2. id \in Id
      BY <1>2
    <3>3. CASE draft[x].id # id
      BY <2>1, <3>1, <3>2, <3>3, ShownApart DEF Inserted
    <3>4. CASE draft[x].id = id
      BY <2>1, <3>1, <3>4 DEF Inserted
    <3> QED  BY <3>3, <3>4
  <2>2. ~ (Inserted(r) /\ Inserted(s))
    <3> SUFFICES ASSUME Inserted(r), Inserted(s) PROVE FALSE
      OBVIOUS
    <3>1. pc[s] = "write" /\ pc'[s] = pc[s]
      BY <1>0, OthersStay DEF AckInv, Inserted, Upsert, Step
    <3> QED  BY <3>1 DEF Made
  <2>3. CASE Made(r) /\ reply'[r] = reply[r] /\ Made(s) /\ reply'[s] = reply[s]
    BY <1>0, <2>0, <2>3 DEF MadeApart
  <2> QED  BY <2>0, <2>1, <2>2, <2>3, MadeBefore
<1> QED  BY <1>3, <1>4

-----------------------------------------------------------------------------

(* What was acknowledged stays true of the table, along any behaviour in    *)
(* which callers wait for conflicting commands.                             *)
THEOREM AckInductive ==
    Serialized /\ Spec => []AckInv
<1> SUFFICES ASSUME Serialized
             PROVE  Spec => []AckInv
  OBVIOUS
<1>1. Init => Prepared /\ AckInv
  BY DEF Init, Prepared, Ready, AckInv, IdleAsksNothing, GoneStays, MadeStored, MadeApart, Made
<1>2. IndInv /\ Prepared /\ [Next]_vars => Prepared'
  BY PreparedStep
<1>3. IndInv /\ Prepared /\ AckInv /\ [Next]_vars => AckInv'
  <2> SUFFICES ASSUME IndInv, Prepared, AckInv, [Next]_vars
               PROVE  AckInv'
    OBVIOUS
  <2>1. IdleAsksNothing'
    BY AsksOnce DEF AckInv, IndInv
  <2>2. GoneStays' /\ (NoDelete' => MadeStored' /\ MadeApart')
    BY GoneStep, MadeStep
  <2> QED  BY <2>1, <2>2 DEF AckInv
<1> QED  BY <1>1, <1>2, <1>3, Inductive, PTL DEF Spec

(* An acknowledged delete is not undone: a modifier that overlaps it does   *)
(* not bring the row back, and neither does a restart.                      *)
THEOREM DeletedStaysDeleted ==
    Serialized /\ Spec => []AckedDeleteStaysDeleted
<1>1. AckInv => AckedDeleteStaysDeleted
  BY DEF AckInv, GoneStays, InsertSent, AckedDeleteStaysDeleted, Acked
<1> QED  BY <1>1, AckInductive, PTL

(* Creates are told ids of their own: no two acknowledged creates name one  *)
(* task, unless a delete freed its number in between, the scan of one was   *)
(* cut short, or the numbers are used up.                                   *)
THEOREM CreatesAreDistinct ==
    Serialized /\ Spec => []AckedCreatesDistinct
<1>1. AckInv => AckedCreatesDistinct
  BY DEF AckInv, NoDelete, MadeApart, Made, AckedCreatesDistinct, Acked
<1> QED  BY <1>1, AckInductive, PTL

-----------------------------------------------------------------------------
(* Events.                                                                  *)

\* A command that may change row key and broadcasts nothing has been sent.
Unheard(r, key) ==
    /\ pc[r] # "idle"
    /\ \/ call[r].verb = "create"
       \/ /\ ChangesRow(call[r], key)
          /\ call[r].verb \notin {"subject_update", "delete"}

\* Row key is changed through the subject verbs only.
Quiet(key) == \A r \in Requests : ~ Unheard(r, key)

\* This change is the last one of row key, and the next one will be broadcast.
Current(key, change) ==
    /\ change = (IF key \in DOMAIN rows THEN Subject(rows[key]) ELSE Deleted)
    /\ key \in DOMAIN rows => Decodable(rows[key])

Publishing(r, key) == pc[r] = "publish" /\ RowKey(call[r]) = key

\* What a watcher is told of a row: the task as it is now, or that it is gone.
Changes == {Subject(t) : t \in Task} \cup {Deleted}
Event   == [id : {RowKey(c) : c \in Commands}, change : Changes]

\* The last event of a quiet row is current, or its publisher's answer is.
EventsInv ==
    /\ events \in Seq(Event)
    /\ \A r \in Requests : pc[r] = "publish" =>
          LET key == RowKey(call[r]) IN
          /\ call[r].verb \in {"subject_update", "delete"}
          /\ reply[r] \in Changes
          /\ Quiet(key) => Current(key, reply[r])
    /\ \A k \in DOMAIN events :
          LET key == events[k].id IN
          \/ \E j \in DOMAIN events : j > k /\ events[j].id = key
          \/ \E r \in Requests : Publishing(r, key)
          \/ Quiet(key) => Current(key, events[k].change)

(* A write to a quiet row is a subject/update's, of a row that is there.    *)
LEMMA QuietWrite ==
    ASSUME Serialized, IndInv, Prepared, NEW q \in Requests, Upsert(q),
           NEW key, Quiet(key), draft[q].id = key
    PROVE  /\ call[q].verb = "subject_update" /\ RowKey(call[q]) = key
           /\ key \in DOMAIN rows /\ base[q] = rows[key]
<1>1. pc[q] = "write" /\ Drafted(q) /\ Ready(q) /\ ~ Unheard(q, key)
  BY DEF Upsert, IndInv, Prepared, Quiet
<1>2. call[q].verb # "create"
  BY <1>1 DEF Unheard
<1>3. RowKey(call[q]) = key /\ call[q].verb \in {"replace"} \cup Modifiers
  BY <1>1, <1>2 DEF Drafted
<1>4. call[q].verb \notin Readers \cup {"create"}
  BY <1>3 DEF Modifiers, Readers
<1>5. call[q].verb = "subject_update"
  BY <1>1, <1>3, <1>4 DEF Unheard, ChangesRow, Modifiers
<1>6. overwritten = {}
  BY DEF IndInv, HistoryOK, Quiet, Unheard
<1> QED  BY <1>1, <1>3, <1>5, <1>6 DEF IndInv, NoStaleWrite, Known, Modifiers

(* A handler that writes or deletes row key leaves the other rows alone, and*)
(* has something to publish or makes the row not quiet.                     *)
LEMMA WriterPublishes ==
    ASSUME Serialized, IndInv, Prepared, TidyInv, IdleAsksNothing,
           NEW q \in Requests, Upsert(q) \/ DeleteRow(q),
           NEW key, key = IF pc[q] = "write" THEN draft[q].id ELSE RowKey(call[q])
    PROVE  /\ \A x : x # key => /\ x \in DOMAIN rows' <=> x \in DOMAIN rows
                                /\ x \in DOMAIN rows => rows'[x] = rows[x]
           /\ pc'[q] = "publish" =>
                 /\ RowKey(call[q]) = key /\ call[q].verb \in {"subject_update", "delete"}
                 /\ reply'[q] \in Changes /\ Current(key, reply[q])'
           /\ pc'[q] # "publish" /\ Quiet(key) =>
                 \/ rows' = rows
                 \/ key \in DOMAIN rows /\ ~ Decodable(rows[key])
<1>0. TypeOK /\ DOMAIN reply = Requests
  BY DEF IndInv, IdleAsksNothing
<1>1. ASSUME Upsert(q)
      PROVE  /\ pc[q] = "write" /\ key = draft[q].id /\ rows' = Put(rows, draft[q])
             /\ key \in DOMAIN rows' /\ rows'[key] = draft[q]
  BY <1>1 DEF Upsert, Put
<1>2. ASSUME DeleteRow(q)
      PROVE  /\ pc[q] = "read" /\ key = RowKey(call[q]) /\ call[q].verb = "delete"
             /\ rows' \in {rows, Drop(rows, key)}
  BY <1>2 DEF DeleteRow
<1>3. ASSUME NEW x, x # key
      PROVE  (x \in DOMAIN rows' <=> x \in DOMAIN rows) /\ (x \in DOMAIN rows => rows'[x] = rows[x])
  <2>1. CASE Upsert(q)
    BY <1>1, <1>3, <2>1 DEF Put
  <2>2. CASE DeleteRow(q)
    BY <1>2, <1>3, <2>2 DEF Drop
  <2> QED  BY <2>1, <2>2
<1>4. ASSUME pc'[q] = "publish"
      PROVE  /\ RowKey(call[q]) = key /\ call[q].verb \in {"subject_update", "delete"}
             /\ reply'[q] \in Changes /\ Current(key, reply[q])'
  <2>1. CASE Upsert(q)
    <3>1. /\ call[q].verb = "subject_update" /\ Decodable(draft[q])
          /\ reply'[q] = Subject(draft[q])
      BY <1>0, <1>4, <2>1 DEF Upsert, Settle, TypeOK
    <3>2. RowKey(call[q]) = key
      BY <1>1, <2>1, <3>1 DEF IndInv, Drafted
    <3>3. draft[q] \in Task
      BY <1>1, <2>1 DEF TidyInv, Tidied, TidyTask
    <3> QED  BY <1>1, <2>1, <3>1, <3>2, <3>3 DEF Current, Changes
  <2>2. CASE DeleteRow(q)
    <3>1. rows' = Drop(rows, key) /\ reply'[q] = Deleted
      BY <1>0, <1>2, <1>4, <2>2 DEF DeleteRow, Settle, TypeOK
    <3>2. key \notin DOMAIN rows'
      BY <3>1 DEF Drop
    <3> QED  BY <1>2, <2>2, <3>1, <3>2 DEF Current, Changes
  <2> QED  BY <2>1, <2>2
<1>5. ASSUME pc'[q] # "publish", Quiet(key)
      PROVE  rows' = rows \/ (key \in DOMAIN rows /\ ~ Decodable(rows[key]))
  <2>1. CASE Upsert(q)
    <3>1. /\ call[q].verb = "subject_update"
          /\ key \in DOMAIN rows /\ base[q] = rows[key]
      BY <1>1, <1>5, <2>1, QuietWrite
    <3>2. ~ Decodable(draft[q])
      BY <1>0, <1>5, <2>1, <3>1 DEF Upsert, Settle, TypeOK
    <3> QED  BY <1>1, <2>1, <3>1, <3>2 DEF TidyInv, Tidied
  <2>2. CASE DeleteRow(q)
    BY <1>0, <1>5, <2>2 DEF DeleteRow, Settle, TypeOK
  <2> QED  BY <2>1, <2>2
<1> QED  BY <1>3, <1>4, <1>5

(* The last event of a quiet row stays current, or the next is on its way.  *)
LEMMA EventsStep ==
    ASSUME Serialized, IndInv, Prepared, TidyInv, IdleAsksNothing, EventsInv, [Next]_vars
    PROVE  EventsInv'
<1> DEFINE Heard(k) ==
             LET key == events[k].id IN
             \/ \E j \in DOMAIN events : j > k /\ events[j].id = key
             \/ \E r \in Requests : Publishing(r, key)
             \/ Quiet(key) => Current(key, events[k].change)
           Published(r) ==
             pc[r] = "publish" =>
                LET key == RowKey(call[r]) IN
                /\ call[r].verb \in {"subject_update", "delete"}
                /\ reply[r] \in Changes
                /\ Quiet(key) => Current(key, reply[r])
           Goal == /\ events' \in Seq(Event)
                   /\ \A r \in Requests : Published(r)'
                   /\ \A k \in DOMAIN events' : Heard(k)'
<1>0. /\ TypeOK /\ events \in Seq(Event)
      /\ \A r \in Requests : Published(r)
      /\ \A k \in DOMAIN events : Heard(k)
  BY DEF IndInv, EventsInv
<1>1. \A key : Quiet(key)' => Quiet(key)
  <2> SUFFICES ASSUME NEW key, NEW r \in Requests, Unheard(r, key) PROVE Unheard(r, key)'
    BY DEF Quiet
  <2>1. pc[r] # "idle" /\ pc'[r] # "idle" /\ call'[r] = call[r]
    BY <1>0, AsksOnce DEF Unheard
  <2> QED  BY <2>1 DEF Unheard, ChangesRow
<1>2. \A key, change : rows' = rows /\ Current(key, change) => Current(key, change)'
  BY DEF Current
<1>3. ASSUME rows' = rows, events' = events,
             \A r \in Requests : pc'[r] = "publish" <=> pc[r] = "publish",
             \A r \in Requests : pc[r] = "publish" =>
                 call'[r] = call[r] /\ reply'[r] = reply[r]
      PROVE  Goal
  <2>1. \A r \in Requests : Published(r)'
    BY <1>0, <1>1, <1>2, <1>3
  <2>2. \A key : \A r \in Requests : Publishing(r, key) => Publishing(r, key)'
    BY <1>3 DEF Publishing
  <2>3. \A k \in DOMAIN events' : Heard(k)'
    BY <1>0, <1>1, <1>2, <1>3, <2>2
  <2> QED  BY <1>0, <1>3, <2>1, <2>3
<1>4. ASSUME NEW q \in Requests, NEW c \in Commands, Receive(q, c) PROVE Goal
  BY <1>0, <1>3, <1>4 DEF Receive, TypeOK
<1>5. ASSUME NEW q \in Requests,
             \/ Allocate(q) \/ CutScan(q) \/ Fetch(q) \/ Miss(q) \/ Get(q)
             \/ Answer(q) \/ Fault(q)
      PROVE  Goal
  <2>1. /\ UNCHANGED <<rows, call, events>> /\ pc[q] # "publish" /\ pc'[q] # "publish"
    BY <1>0, <1>5 DEF Allocate, CutScan, Allot, Fetch, Miss, Get, Answer, Fault, Settle, TypeOK
  <2>2. \A r \in Requests : r # q => pc'[r] = pc[r] /\ reply'[r] = reply[r]
    BY <1>0, <1>5, OthersStay DEF Step
  <2> QED  BY <1>3, <2>1, <2>2
<1>6. ASSUME NEW q \in Requests, Publish(q) PROVE Goal
  <2>0. PICK key : key = RowKey(call[q])
    OBVIOUS
  <2>1. PICK e : e = [id |-> key, change |-> reply[q]]
    OBVIOUS
  <2>2. /\ UNCHANGED <<rows, call, reply>> /\ pc[q] = "publish"
        /\ pc' = [pc EXCEPT ![q] = "reply"] /\ events' = Append(events, e)
    BY <1>6, <2>0, <2>1 DEF Publish
  <2>3. \A r \in Requests : Published(r)'
    BY <1>0, <1>1, <1>2, <2>2 DEF TypeOK
  <2>4. e \in Event /\ e.id = key /\ (Quiet(key)' => Current(key, e.change)')
    <3>1. call[q] \in Commands
      BY <1>0, <2>2 DEF TypeOK, InFlight
    <3> QED  BY <1>0, <1>1, <1>2, <2>0, <2>1, <2>2, <3>1 DEF Event
  <2>5. PICK n \in Nat :
           /\ DOMAIN events = 1 .. n /\ DOMAIN events' = 1 .. n + 1
           /\ events' \in Seq(Event) /\ events'[n + 1] = e
           /\ \A k \in DOMAIN events : events'[k] = events[k]
    <3>1. /\ Len(events) \in Nat /\ DOMAIN events = 1 .. Len(events)
          /\ DOMAIN events' = 1 .. Len(events) + 1
          /\ events' \in Seq(Event) /\ events'[Len(events) + 1] = e
          /\ \A k \in DOMAIN events : events'[k] = events[k]
      BY <1>0, <2>2, <2>4
    <3> QED  BY <3>1
  <2>6. Heard(n + 1)'
    BY <2>4, <2>5
  <2>7. ASSUME NEW k \in DOMAIN events PROVE Heard(k)'
    <3>1. PICK id : id = events[k].id /\ events'[k] = events[k]
      BY <2>5
    <3>2. CASE \E j \in DOMAIN events : j > k /\ events[j].id = id
      BY <2>5, <3>1, <3>2
    <3>3. CASE \E r \in Requests : Publishing(r, id)
      <4>1. PICK r \in Requests : Publishing(r, id)
        BY <3>3
      <4>2. CASE r = q
        <5>1. n + 1 > k /\ n + 1 \in DOMAIN events' /\ events'[n + 1].id = id
          BY <2>0, <2>4, <2>5, <4>1, <4>2 DEF Publishing
        <5> QED  BY <3>1, <5>1
      <4>3. CASE r # q
        <5>1. Publishing(r, id)'
          BY <1>0, <2>2, <4>1, <4>3 DEF Publishing, TypeOK
        <5> QED  BY <3>1, <5>1
      <4> QED  BY <4>2, <4>3
    <3>4. CASE Quiet(id) => Current(id, events[k].change)
      <4>1. Quiet(id)' => Current(id, events[k].change)'
        BY <1>1, <1>2, <2>2, <3>1, <3>4
      <4> QED  BY <3>1, <4>1
    <3> QED  BY <1>0, <3>1, <3>2, <3>3, <3>4
  <2>8. \A k \in DOMAIN events' : k \in DOMAIN events \/ k = n + 1
    BY <2>5
  <2> QED  BY <2>3, <2>5, <2>6, <2>7, <2>8
<1>7. ASSUME NEW q \in Requests, Upsert(q) \/ DeleteRow(q) PROVE Goal
  <2>1. PICK key : key = IF pc[q] = "write" THEN draft[q].id ELSE RowKey(call[q])
    OBVIOUS
  <2>2. /\ UNCHANGED <<call, events>> /\ pc[q] \in {"read", "write"}
        /\ \A r \in Requests : r # q => pc'[r] = pc[r] /\ reply'[r] = reply[r]
    BY <1>0, <1>7, OthersStay DEF Upsert, DeleteRow, Settle, Step
  <2>3. /\ \A x : x # key => /\ x \in DOMAIN rows' <=> x \in DOMAIN rows
                             /\ x \in DOMAIN rows => rows'[x] = rows[x]
        /\ pc'[q] = "publish" =>
              /\ RowKey(call[q]) = key /\ call[q].verb \in {"subject_update", "delete"}
              /\ reply'[q] \in Changes /\ Current(key, reply[q])'
        /\ pc'[q] # "publish" /\ Quiet(key) =>
              rows' = rows \/ (key \in DOMAIN rows /\ ~ Decodable(rows[key]))
    BY <1>7, <2>1, WriterPublishes
  <2>4. \A x, change : x # key /\ Current(x, change) => Current(x, change)'
    BY <2>3 DEF Current
  <2>5. ASSUME NEW r \in Requests, pc[r] = "publish", r # q, Quiet(key)
        PROVE  RowKey(call[r]) # key
    <3>1. RowKey(call[q]) = key /\ call[q].verb \in {"subject_update", "delete"}
      <4>1. CASE Upsert(q)
        BY <2>1, <2>5, <4>1, QuietWrite DEF Upsert
      <4>2. CASE DeleteRow(q)
        BY <2>1, <4>2 DEF DeleteRow
      <4> QED  BY <1>7, <4>1, <4>2
    <3>2. ~ Conflict(call[q], call[r])
      BY <2>2, <2>5 DEF IndInv, NoConflict, InFlight
    <3>3. call[r].verb \in {"subject_update", "delete"}
      BY <1>0, <2>5
    <3> QED  BY <3>1, <3>2, <3>3, SameRowConflict DEF Modifiers
  <2>6. ASSUME NEW r \in Requests PROVE Published(r)'
    <3>1. CASE r = q
      BY <2>2, <2>3, <3>1
    <3>2. CASE r # q
      <4> SUFFICES ASSUME pc[r] = "publish" PROVE Published(r)'
        BY <2>2, <3>2
      <4>1. PICK x : x = RowKey(call[r])
        OBVIOUS
      <4>2. Quiet(x)' => Current(x, reply[r])'
        BY <1>0, <1>1, <2>2, <2>4, <2>5, <3>2, <4>1
      <4> QED  BY <1>0, <2>2, <3>2, <4>1, <4>2
    <3> QED  BY <3>1, <3>2
  <2>7. ASSUME NEW k \in DOMAIN events PROVE Heard(k)'
    <3>1. PICK id : id = events[k].id /\ events'[k] = events[k]
      BY <2>2
    <3>2. CASE \E j \in DOMAIN events : j > k /\ events[j].id = id
      BY <2>2, <3>1, <3>2
    <3>3. CASE \E r \in Requests : Publishing(r, id)
      <4>1. \E r \in Requests : Publishing(r, id)'
        BY <2>2, <3>3 DEF Publishing
      <4> QED  BY <3>1, <4>1
    <3>4. CASE Quiet(id) => Current(id, events[k].change)
      <4>1. (\E r \in Requests : Publishing(r, id)') \/ (Quiet(id)' => Current(id, events[k].change)')
        <5>1. CASE id # key
          BY <1>1, <2>2, <2>4, <3>4, <5>1
        <5>2. CASE pc'[q] = "publish" /\ id = key
          BY <2>2, <2>3, <5>2 DEF Publishing
        <5>3. CASE pc'[q] # "publish" /\ id = key
          BY <1>1, <1>2, <2>2, <2>3, <3>4, <5>3 DEF Current
        <5> QED  BY <5>1, <5>2, <5>3
      <4> QED  BY <3>1, <4>1
    <3> QED  BY <1>0, <3>1, <3>2, <3>3, <3>4
  <2> QED  BY <1>0, <2>2, <2>6, <2>7
<1>8. ASSUME Crash PROVE Goal
  <2>1. events' = << >> /\ \A r \in Requests : pc'[r] # "publish"
    BY <1>0, <1>8 DEF Crash, TypeOK, InFlight
  <2>2. events' \in Seq(Event) /\ DOMAIN events' = {}
    BY <2>1
  <2>3. \A r \in Requests : Published(r)'
    BY <2>1
  <2>4. \A k \in DOMAIN events' : Heard(k)'
    BY <2>2
  <2> QED  BY <2>2, <2>3, <2>4
<1>9. ASSUME UNCHANGED vars PROVE Goal
  <2>1. UNCHANGED <<rows, pc, call, reply, events>>
    BY <1>9 DEF vars
  <2> QED  BY <1>3, <2>1
<1>10. Goal
  <2> HIDE DEF Goal
  <2> QED  BY <1>4, <1>5, <1>6, <1>7, <1>8, <1>9 DEF Next, Step
<1> QED  BY <1>10 DEF EventsInv

-----------------------------------------------------------------------------
(* Dependencies.                                                            *)

\* A command that may take the dependency away has been sent.
DropSent(key, dep) == \E q \in Requests : pc[q] # "idle" /\ DropsDependency(call[q], key, dep)

HasDependency(key, dep) == key \in DOMAIN rows /\ Contains(rows[key].dependencies, dep)

\* The handlers about to write the row have read it with the dependency.
Carried(key, dep) ==
    \A m \in Requests :
        pc[m] = "write" /\ call[m].verb \in Modifiers /\ RowKey(call[m]) = key =>
            Contains(base[m].dependencies, dep)

\* A create has written over the task that had it.
WrittenOver(key, dep) ==
    \E o \in overwritten : o.task.id = key /\ Contains(o.task.dependencies, dep)

\* From the moment it is written, an added dependency stays.
DependencyHeld ==
    \A r \in Requests :
        /\ pc[r] \in {"publish", "reply", "done"}
        /\ call[r].verb = "add_dependency"
        /\ reply[r].kind # "error"
        => LET key == RowKey(call[r]) dep == StripKindPrefix(call[r].dependency)
           IN  \/ DropSent(key, dep) \/ WrittenOver(key, dep)
               \/ HasDependency(key, dep) /\ Carried(key, dep)

(* A step keeps the dependencies of a row unless its command drops them or  *)
(* it writes over the row.                                                  *)
LEMMA DependencyStays ==
    ASSUME Serialized, TidyCallers, IndInv, Prepared, TidyInv,
           NEW q \in Requests, Upsert(q) \/ DeleteRow(q),
           NEW key, NEW dep, HasDependency(key, dep), Carried(key, dep),
           ~ DropsDependency(call[q], key, dep), ~ WrittenOver(key, dep)'
    PROVE  HasDependency(key, dep)'
<1>0. TypeOK /\ key \in DOMAIN rows /\ Contains(rows[key].dependencies, dep)
  BY DEF IndInv, HasDependency
<1>1. CASE DeleteRow(q)
  <2>1. RowKey(call[q]) # key
    BY <1>1 DEF DeleteRow, DropsDependency, ChangesRow, Readers
  <2> QED  BY <1>0, <1>1, <2>1 DEF DeleteRow, Drop, HasDependency
<1>2. CASE Upsert(q)
  <2>1. /\ pc[q] = "write" /\ rows' = Put(rows, draft[q]) /\ Drafted(q) /\ Ready(q)
    BY <1>2 DEF Upsert, IndInv, Prepared
  <2>2. CASE draft[q].id # key
    BY <1>0, <2>1, <2>2 DEF Put, HasDependency
  <2>3. CASE draft[q].id = key
    <3>1. call[q].verb # "create"
      <4> SUFFICES ASSUME call[q].verb = "create" PROVE FALSE
        OBVIOUS
      <4> DEFINE o == [task |-> rows[key],
                       during |-> {p \in Requests : pc[p] \in {"read", "write"}}]
      <4>1. o \in overwritten'
        <5>1. MayBeTaken(q)
          BY <1>0, <2>1, <2>3 DEF IndInv, InsertsAreNew
        <5> QED  BY <1>0, <1>2, <2>3, <5>1 DEF Upsert, WriteOver
      <4>2. o.task.id = key /\ Contains(o.task.dependencies, dep)
        BY <1>0 DEF TypeOK, WellKeyed
      <4> HIDE DEF o
      <4> QED  BY <4>1, <4>2 DEF WrittenOver, Contains
    <3>2. RowKey(call[q]) = key /\ call[q].verb \in {"replace"} \cup Modifiers
      BY <2>1, <2>3, <3>1 DEF Drafted
    <3>3. call[q].verb # "replace"
      BY <3>2 DEF DropsDependency, ChangesRow, Readers
    <3>4. call[q].verb \in Modifiers /\ call[q] \in Commands
      BY <1>0, <2>1, <3>2, <3>3 DEF TypeOK, InFlight
    <3>5. /\ draft[q] = Modified(call[q], base[q])
          /\ TidyTask(base[q]) /\ Contains(base[q].dependencies, dep)
      BY <2>1, <3>2, <3>4 DEF Ready, TidyInv, Tidied, Carried
    <3>6. call[q].verb = "remove_dependency" => StripKindPrefix(call[q].dependency) # dep
      BY <3>2, <3>4 DEF DropsDependency, ChangesRow, Readers, Modifiers
    <3>7. Contains(Modified(call[q], base[q]).dependencies, dep)
      BY <3>4, <3>5, <3>6, ModifiedIsTidy DEF TidyCallers
    <3>8. key \in DOMAIN rows' /\ rows'[key] = draft[q]
      BY <2>1, <2>3 DEF Put
    <3> QED  BY <3>5, <3>7, <3>8 DEF HasDependency
  <2> QED  BY <2>2, <2>3
<1> QED  BY <1>1, <1>2

(* A modifier that reads the row reads the dependency.                      *)
LEMMA CarriedStays ==
    ASSUME TypeOK, [Next]_vars, NEW key, NEW dep, HasDependency(key, dep), Carried(key, dep)
    PROVE  Carried(key, dep)'
<1> SUFFICES ASSUME NEW m \in Requests, pc'[m] = "write", call'[m].verb \in Modifiers,
                    RowKey(call'[m]) = key
             PROVE  Contains(base'[m].dependencies, dep)
  BY DEF Carried, Contains
<1>1. ASSUME pc[m] = "write", call'[m] = call[m], base'[m] = base[m]
      PROVE  Contains(base'[m].dependencies, dep)
  BY <1>1 DEF Carried
<1>2. ASSUME NEW q \in Requests, NEW c \in Commands, Receive(q, c)
      PROVE  Contains(base'[m].dependencies, dep)
  BY <1>1, <1>2 DEF Receive, TypeOK, Modifiers
<1>3. ASSUME NEW q \in Requests, Fetch(q) PROVE Contains(base'[m].dependencies, dep)
  <2>1. CASE q = m
    BY <1>3, <2>1 DEF Fetch, TypeOK, HasDependency
  <2>2. CASE q # m
    BY <1>1, <1>3, <2>2 DEF Fetch, TypeOK
  <2> QED  BY <2>1, <2>2
<1>4. ASSUME NEW q \in Requests, Allocate(q) \/ CutScan(q)
      PROVE  Contains(base'[m].dependencies, dep)
  BY <1>1, <1>4 DEF Allocate, CutScan, Allot, TypeOK, Modifiers
<1>5. ASSUME NEW q \in Requests,
             \/ Miss(q) \/ Get(q) \/ DeleteRow(q) \/ Upsert(q) \/ Publish(q)
             \/ Answer(q) \/ Fault(q)
      PROVE  Contains(base'[m].dependencies, dep)
  BY <1>1, <1>5 DEF Miss, Get, DeleteRow, Upsert, Publish, Answer, Fault, Settle, TypeOK
<1>6. CASE Crash
  BY <1>6 DEF Crash, TypeOK, InFlight
<1>7. CASE UNCHANGED vars
  BY <1>1, <1>7 DEF vars
<1> QED  BY <1>2, <1>3, <1>4, <1>5, <1>6, <1>7 DEF Next, Step

(* The write of an add_dependency puts the dependency on a row that is      *)
(* there, and nobody else is about to write that row.                       *)
LEMMA DependencyWritten ==
    ASSUME Serialized, TidyCallers, IndInv, Prepared, TidyInv,
           NEW r \in Requests, Upsert(r), call[r].verb = "add_dependency",
           NEW key, key = RowKey(call[r]),
           NEW dep, dep = StripKindPrefix(call[r].dependency)
    PROVE  HasDependency(key, dep)' /\ Carried(key, dep)'
<1>1. /\ pc[r] = "write" /\ rows' = Put(rows, draft[r]) /\ Drafted(r) /\ Ready(r)
      /\ call' = call
  BY DEF Upsert, IndInv, Prepared
<1>2. call[r] \in Commands /\ call[r].verb \in Modifiers
  BY <1>1 DEF IndInv, TypeOK, InFlight, Modifiers
<1>3. /\ draft[r].id = key /\ draft[r] = Modified(call[r], base[r])
      /\ TidyTask(base[r])
  BY <1>1, <1>2 DEF Drafted, Ready, TidyInv, Tidied, Modifiers
<1>4. Contains(draft[r].dependencies, dep)
  BY <1>2, <1>3, ModifiedIsTidy DEF TidyCallers
<1>5. HasDependency(key, dep)'
  BY <1>1, <1>3, <1>4 DEF Put, HasDependency
<1>6. ASSUME NEW m \in Requests, pc'[m] = "write", call'[m].verb \in Modifiers,
             RowKey(call'[m]) = key
      PROVE  FALSE
  <2>1. m # r /\ pc[m] = "write" /\ call'[m] = call[m]
    BY <1>6 DEF Upsert, Settle, IndInv, TypeOK
  <2>2. ~ Conflict(call[m], call[r])
    BY <1>1, <2>1 DEF IndInv, NoConflict, InFlight
  <2> QED  BY <1>2, <1>6, <2>1, <2>2, SameRowConflict
<1>7. Carried(key, dep)'
  BY <1>6 DEF Carried
<1> QED  BY <1>5, <1>7

(* What add_dependency has written stays.                                   *)
LEMMA DependencyStep ==
    ASSUME Serialized, TidyCallers, IndInv, Prepared, TidyInv,
           IdleAsksNothing, DependencyHeld, [Next]_vars
    PROVE  DependencyHeld'
<1> SUFFICES ASSUME NEW r \in Requests,
                    pc'[r] \in {"publish", "reply", "done"},
                    call'[r].verb = "add_dependency", reply'[r].kind # "error",
                    NEW key, key = RowKey(call'[r]),
                    NEW dep, dep = StripKindPrefix(call'[r].dependency),
                    ~ DropSent(key, dep)', ~ WrittenOver(key, dep)'
             PROVE  HasDependency(key, dep)' /\ Carried(key, dep)'
  BY DEF DependencyHeld
<1> DEFINE Held == HasDependency(key, dep) /\ Carried(key, dep)
<1>0. /\ TypeOK /\ ~ DropSent(key, dep) /\ ~ WrittenOver(key, dep)
      /\ \A q \in Requests : pc[q] # "idle" => pc'[q] # "idle" /\ call'[q] = call[q]
  <2>1. overwritten \subseteq overwritten'
    BY HistoryGrows DEF IndInv, Upsert
  <2> QED  BY <2>1, AsksOnce DEF IndInv, DropSent, WrittenOver, Contains
<1>1. ASSUME Held PROVE Held'
  <2>1. CASE rows' = rows
    BY <1>0, <1>1, <2>1, CarriedStays DEF HasDependency
  <2>2. ASSUME NEW q \in Requests, Upsert(q) \/ DeleteRow(q) PROVE Held'
    <3>1. ~ DropsDependency(call[q], key, dep)
      BY <1>0, <2>2 DEF DropSent, Upsert, DeleteRow
    <3> QED  BY <1>0, <1>1, <2>2, <3>1, DependencyStays, CarriedStays
  <2>3. ASSUME NEW q \in Requests, NEW c \in Commands, Receive(q, c) PROVE rows' = rows
    BY <2>3 DEF Receive
  <2>4. ASSUME NEW q \in Requests,
               \/ Allocate(q) \/ CutScan(q) \/ Fetch(q) \/ Miss(q) \/ Get(q)
               \/ Publish(q) \/ Answer(q) \/ Fault(q)
        PROVE  rows' = rows
    BY <2>4 DEF Allocate, CutScan, Allot, Fetch, Miss, Get, Publish, Answer, Fault
  <2>5. ASSUME Crash \/ UNCHANGED vars PROVE rows' = rows
    BY <2>5 DEF Crash, vars
  <2> QED  BY <2>1, <2>2, <2>3, <2>4, <2>5 DEF Next, Step
<1>2. ASSUME pc[r] \in {"publish", "reply", "done"}, call'[r] = call[r], reply'[r] = reply[r]
      PROVE  Held'
  BY <1>0, <1>1, <1>2 DEF DependencyHeld
<1>3. ASSUME NEW q \in Requests, NEW c \in Commands, Receive(q, c)
      PROVE  Held'
  <2>1. q # r
    BY <1>0, <1>3 DEF Receive, TypeOK
  <2> QED  BY <1>0, <1>2, <1>3, <2>1 DEF Receive, TypeOK
<1>4. ASSUME NEW q \in Requests, Step(q) \/ Fault(q) \/ CutScan(q), q # r
      PROVE  Held'
  BY <1>0, <1>2, <1>4, OthersStay
<1>5. ASSUME Upsert(r) PROVE Held'
  <2>1. call' = call
    BY <1>5 DEF Upsert
  <2> QED  BY <1>5, <2>1, DependencyWritten
<1>6. ASSUME Publish(r) \/ Answer(r) PROVE Held'
  <2>1. pc[r] \in {"publish", "reply"} /\ UNCHANGED <<call, reply>>
    BY <1>6 DEF Publish, Answer
  <2> QED  BY <1>2, <2>1
<1>7. ASSUME \/ Allocate(r) \/ CutScan(r) \/ Fetch(r) \/ Miss(r) \/ Get(r)
             \/ DeleteRow(r) \/ Fault(r)
      PROVE  FALSE
  <2>1. call' = call
    BY <1>7 DEF Allocate, CutScan, Allot, Fetch, Miss, Get, DeleteRow, Fault
  <2>2. ~ (Miss(r) \/ Fault(r))
    BY DEF Miss, Fault, Settle, Error, IdleAsksNothing
  <2> QED  BY <1>0, <1>7, <2>1, <2>2
           DEF Allocate, CutScan, Allot, Fetch, Get, DeleteRow, TypeOK, Readers
<1>8. ASSUME Crash PROVE Held'
  BY <1>0, <1>2, <1>8 DEF Crash, TypeOK, InFlight
<1>9. ASSUME UNCHANGED vars PROVE Held'
  BY <1>2, <1>9 DEF vars
<1> QED  BY <1>3, <1>4, <1>5, <1>6, <1>7, <1>8, <1>9 DEF Next, Step

-----------------------------------------------------------------------------

(* Events and dependencies are kept along any behaviour in which callers    *)
(* wait for conflicting commands and are tidy.                              *)
THEOREM HeardInductive ==
    ASSUME TidyCallers
    PROVE  Serialized /\ Spec => [](EventsInv /\ DependencyHeld)
<1> SUFFICES ASSUME Serialized
             PROVE  Spec => [](EventsInv /\ DependencyHeld)
  OBVIOUS
<1> DEFINE Given == IndInv /\ Prepared /\ TidyInv /\ AckInv
           Kept == EventsInv /\ DependencyHeld
<1>1. Init => Prepared /\ Kept
  BY DEF Init, Prepared, Ready, EventsInv, DependencyHeld
<1>2. IndInv /\ Prepared /\ [Next]_vars => Prepared'
  BY PreparedStep
<1>3. Given /\ Kept /\ [Next]_vars => Kept'
  BY EventsStep, DependencyStep DEF AckInv
<1> QED  BY <1>1, <1>2, <1>3, Inductive, TidyInductive, AckInductive, PTL DEF Spec

(* A watcher is not left behind: while a task is changed through subject    *)
(* verbs only, the last change broadcast of it is its present state, or     *)
(* another one is under way.                                                *)
THEOREM EventsAreCurrent ==
    ASSUME TidyCallers
    PROVE  Serialized /\ Spec => []LastEventCurrent
<1>1. TypeOK /\ IdleAsksNothing /\ EventsInv => LastEventCurrent
  <2> SUFFICES ASSUME TypeOK, EventsInv, NEW k \in DOMAIN events,
                      NEW key, key = events[k].id,
                      ~ \E j \in DOMAIN events : j > k /\ events[j].id = key,
                      ~ \E r \in Requests :
                            /\ pc[r] # "idle"
                            /\ \/ InFlight(r) /\ ChangesRow(call[r], key)
                               \/ call[r].verb = "create"
                               \/ /\ ChangesRow(call[r], key)
                                  /\ call[r].verb \notin {"subject_update", "delete"}
               PROVE  events[k].change = IF key \in DOMAIN rows THEN Subject(rows[key])
                                         ELSE Deleted
    BY DEF LastEventCurrent
  <2>1. Quiet(key)
    BY DEF Quiet, Unheard
  <2>2. ASSUME NEW r \in Requests, Publishing(r, key) PROVE FALSE
    <3>1. call[r].verb \in {"subject_update", "delete"} /\ RowKey(call[r]) = key
      BY <2>2 DEF Publishing, EventsInv
    <3>2. InFlight(r) /\ pc[r] # "idle"
      BY <2>2 DEF Publishing, InFlight
    <3> QED  BY <3>1, <3>2 DEF ChangesRow, Readers
  <2>3. Current(key, events[k].change)
    BY <2>1, <2>2 DEF EventsInv
  <2> QED  BY <2>3 DEF Current
<1>2. AckInv => IdleAsksNothing
  BY DEF AckInv
<1> QED  BY <1>1, <1>2, TypeCorrect, AckInductive, HeardInductive, PTL

(* An acknowledged add_dependency is not lost to an update that overlaps it,*)
(* a failure or a restart, unless a create writes over the task.            *)
THEOREM DependenciesAreKept ==
    ASSUME TidyCallers
    PROVE  Serialized /\ Spec => []AckedDependencyKept
<1>1. DependencyHeld => AckedDependencyKept
  BY DEF DependencyHeld, DropSent, WrittenOver, HasDependency, AckedDependencyKept, Acked
<1> QED  BY <1>1, HeardInductive, PTL

=============================================================================
