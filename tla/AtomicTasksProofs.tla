-------------------------- MODULE AtomicTasksProofs --------------------------
(***************************************************************************)
(* TaskStore implements AtomicTasks for serialized callers, for any number *)
(* of requests, faults and crashes.                                        *)
(***************************************************************************)
EXTENDS TaskStoreProofs

-----------------------------------------------------------------------------
(* The two specifications compute with the same functions.                  *)

(* Lists are thinned out alike, by name or through the instance.            *)
LEMMA SameSubsequence ==
    ASSUME NEW list, NEW indices
    PROVE  Atomic!Subsequence(list, indices) = Subsequence(list, indices)
<1>1. \A S, before : Atomic!InOrder(S, before) = InOrder(S, before)
  BY DEF Atomic!InOrder, InOrder, Atomic!Cardinality, Cardinality
<1> QED  BY <1>1 DEF Atomic!Subsequence, Subsequence

(* A modifier computes the same payload.                                    *)
LEMMA SameModified ==
    ASSUME NEW c, NEW t
    PROVE  Atomic!Modified(c, t) = Modified(c, t)
<1>1. \A list, indices : Atomic!Subsequence(list, indices) = Subsequence(list, indices)
  BY SameSubsequence
<1>2. \A wire : Atomic!RemoveDependency(t, wire) = RemoveDependency(t, wire)
  BY <1>1 DEF Atomic!RemoveDependency, RemoveDependency, Atomic!StripKindPrefix, StripKindPrefix
<1> QED
  BY <1>2
     DEF Atomic!Modified, Modified, Atomic!Edited, Edited, Atomic!StampUpdate, StampUpdate,
         Atomic!ApplyPatch, ApplyPatch, Atomic!Overlay, Overlay,
         Atomic!FlatFields, FlatFields, Atomic!CanonicalPriority, CanonicalPriority,
         Atomic!SubjectPatchToValue, SubjectPatchToValue, Atomic!NativeStatus, NativeStatus,
         Atomic!SetStatusField, SetStatusField, Atomic!Active, Active,
         Atomic!Finished, Finished,
         Atomic!AddChecklistItem, AddChecklistItem, Atomic!UpdateChecklistItem,
         UpdateChecklistItem, Atomic!ItemIndices, ItemIndices, Atomic!Min, Min,
         Atomic!AddDependency, AddDependency,
         Atomic!StripKindPrefix, StripKindPrefix, Atomic!Contains, Contains

(* A create builds the same payload.                                        *)
LEMMA SameNewTask ==
    ASSUME NEW c, NEW id
    PROVE  Atomic!NewTask(c, id) = NewTask(c, id)
BY DEF Atomic!NewTask, NewTask, Atomic!BuildNewTask, BuildNewTask,
       Atomic!CanonicalPriority, CanonicalPriority, Atomic!NoStatus, NoStatus,
       Atomic!SetStatusField, SetStatusField, Atomic!Active, Active, Atomic!Finished, Finished

(* Rows are found, refused, written and removed alike.                      *)
LEMMA SameTable ==
    ASSUME NEW c, NEW t, NEW table, NEW key
    PROVE  /\ Atomic!RowKey(c) = RowKey(c)
           /\ Atomic!Rejects(c, t) = Rejects(c, t)
           /\ Atomic!Put(table, t) = Put(table, t)
           /\ Atomic!Drop(table, key) = Drop(table, key)
<1>1. Atomic!RowKey(c) = RowKey(c)
  BY DEF Atomic!RowKey, RowKey, Atomic!StripKindPrefix, StripKindPrefix
<1>2. Atomic!Rejects(c, t) = Rejects(c, t)
  BY DEF Atomic!Rejects, Rejects, Atomic!ItemIndices, ItemIndices
<1>3. Atomic!Put(table, t) = Put(table, t)
  BY DEF Atomic!Put, Put
<1>4. Atomic!Drop(table, key) = Drop(table, key)
  BY DEF Atomic!Drop, Drop
<1> QED  BY <1>1, <1>2, <1>3, <1>4

(* Tasks are shown, and decode, alike.                                      *)
LEMMA SameAnswers ==
    ASSUME NEW c, NEW t, NEW code
    PROVE  /\ Atomic!Subject(t) = Subject(t)
           /\ Atomic!Decodable(t) = Decodable(t)
           /\ Atomic!Error(code) = Error(code)
           /\ Atomic!Deleted = Deleted
<1>1. Atomic!Subject(t) = Subject(t)
  BY DEF Atomic!Subject, Subject, Atomic!SubjectView, SubjectView, Atomic!NoStatus, NoStatus,
         Atomic!AddKindPrefix, AddKindPrefix, Atomic!NormalizeStatus, NormalizeStatus,
         Atomic!Finished, Finished, Atomic!PriorityBucket, PriorityBucket
<1>2. Atomic!Decodable(t) = Decodable(t)
  BY DEF Atomic!Decodable, Decodable
<1>3. Atomic!Error(code) = Error(code) /\ Atomic!Deleted = Deleted
  BY DEF Atomic!Error, Error, Atomic!Deleted, Deleted
<1> QED  BY <1>1, <1>2, <1>3

(* Whatever part of the ids a create has seen, the id it takes is of the pool.*)
LEMMA PoolIds ==
    ASSUME NEW seen \in SUBSET Id
    PROVE  NextSequentialId(seen) \in {ZeroPadded(n) : n \in 1 .. U32Max}
<1> DEFINE seqs == ParsedSeqs(seen)
<1>1. seqs \subseteq Nat /\ \A s \in seqs : s <= U32Max
  BY ParsedSeqsType
<1>2. U32Max \in Nat \ {0}
  BY TaskIdsAssumption
<1>3. NextSeq(seqs) \in 1 .. U32Max
  <2> HIDE DEF seqs
  <2>1. NextSeq(seqs) \in Nat /\ NextSeq(seqs) <= U32Max
    BY <1>1, NextSeqType
  <2>2. seqs # {} => Max(seqs) \in Nat
    BY <1>1, BoundedMax, TaskIdsAssumption
  <2>3. NextSeq(seqs) # 0
    BY <1>2, <2>2 DEF NextSeq
  <2> QED  BY <1>2, <2>1, <2>3
<1> QED  BY <1>3 DEF NextSequentialId

-----------------------------------------------------------------------------
(* What a handler holds when it is about to write.                          *)

Pool == {ZeroPadded(n) : n \in 1 .. U32Max}

\* A modifier holds what its command makes of the row it has read; a create a
\* task under an id of the pool; a replace its own payload.
Ready(r) ==
    pc[r] = "write" =>
        /\ call[r].verb \in Modifiers =>
               /\ ~ Rejects(call[r], base[r])
               /\ draft[r] = Modified(call[r], base[r])
        /\ call[r].verb = "create" =>
               draft[r].id \in Pool /\ draft[r] = NewTask(call[r], draft[r].id)
        /\ call[r].verb = "replace" => draft[r] = call[r].task

Prepared == \A r \in Requests : Ready(r)

(* What a handler is about to write stays what its command computes.        *)
LEMMA PreparedStep ==
    ASSUME IndInv, Prepared, [Next]_vars
    PROVE  Prepared'
<1> SUFFICES ASSUME NEW r \in Requests, pc'[r] = "write" PROVE Ready(r)'
  BY DEF Prepared, Ready
<1>0. TypeOK
  BY DEF IndInv
<1>1. ASSUME pc[r] = "write",
             call'[r] = call[r], base'[r] = base[r], draft'[r] = draft[r]
      PROVE  Ready(r)'
  BY <1>1 DEF Prepared, Ready
<1>2. ASSUME NEW q \in Requests, NEW c \in Commands, Receive(q, c) PROVE Ready(r)'
  <2>1. CASE q = r
    <3>1. c.verb = "replace"
      BY <1>0, <1>2, <2>1 DEF Receive, TypeOK
    <3>2. call'[r] = c /\ draft'[r] = c.task
      BY <1>0, <1>2, <2>1, <3>1 DEF Receive, TypeOK
    <3> QED  BY <3>1, <3>2 DEF Ready, Modifiers
  <2>2. CASE q # r
    BY <1>0, <1>1, <1>2, <2>2 DEF Receive, TypeOK
  <2> QED  BY <2>1, <2>2
<1>3. ASSUME NEW q \in Requests, Allocate(q) \/ CutScan(q) PROVE Ready(r)'
  <2>0. PICK seen \in SUBSET DOMAIN rows : Allot(q, seen)
    BY <1>3, ScanAllots
  <2>1. CASE q = r
    <3> DEFINE id == NextSequentialId(seen)
    <3>1. NewTask(call[r], id).id = id /\ id \in Pool
      BY <1>0, NewTaskKeepsId, PoolIds DEF TypeOK, WellKeyed, Pool
    <3> HIDE DEF id
    <3>2. draft'[r] = NewTask(call[r], id) /\ call' = call /\ call[r].verb = "create"
      BY <1>0, <2>0, <2>1 DEF Allot, TypeOK, id
    <3> QED  BY <3>1, <3>2 DEF Ready, Modifiers, Pool
  <2>2. CASE q # r
    BY <1>0, <1>1, <2>0, <2>2 DEF Allot, TypeOK
  <2> QED  BY <2>1, <2>2
<1>4. ASSUME NEW q \in Requests, Fetch(q) PROVE Ready(r)'
  <2>1. CASE q = r
    <3> DEFINE key == RowKey(call[r])
               t == Modified(call[r], rows[key])
    <3>1. /\ call' = call /\ call[r].verb \in Modifiers
          /\ base'[r] = rows[key] /\ ~ Rejects(call[r], rows[key])
      BY <1>0, <1>4, <2>1 DEF Fetch, TypeOK
    <3> HIDE DEF t
    <3>2. draft'[r] = t
      BY <1>0, <1>4, <2>1 DEF Fetch, TypeOK, t
    <3> QED  BY <3>1, <3>2 DEF Ready, Modifiers, t
  <2>2. CASE q # r
    BY <1>0, <1>1, <1>4, <2>2 DEF Fetch, TypeOK
  <2> QED  BY <2>1, <2>2
<1>5. ASSUME NEW q \in Requests,
             Miss(q) \/ Get(q) \/ DeleteRow(q) \/ Upsert(q) \/ Publish(q) \/ Answer(q) \/ Fault(q)
      PROVE  Ready(r)'
  BY <1>0, <1>1, <1>5 DEF Miss, Get, DeleteRow, Upsert, Publish, Answer, Fault, Settle, TypeOK
<1>6. CASE Crash
  BY <1>0, <1>6 DEF Crash, TypeOK, InFlight
<1>7. CASE UNCHANGED vars
  BY <1>1, <1>7 DEF vars
<1> QED  BY <1>2, <1>3, <1>4, <1>5, <1>6, <1>7 DEF Next, Step

-----------------------------------------------------------------------------
(* The refinement.                                                          *)

\* The phases of AtomicTasks, as TaskStore's handlers are in them.
phase == [r \in Requests |-> PhaseOf(pc[r])]

(* A handler that moves moves its own phase only.                           *)
LEMMA PhaseMoves ==
    ASSUME TypeOK, NEW r \in Requests, NEW at, pc' = [pc EXCEPT ![r] = at]
    PROVE  /\ phase[r] = PhaseOf(pc[r])
           /\ phase' = [phase EXCEPT ![r] = PhaseOf(at)]
BY DEF TypeOK, phase

(* The names the instance gives the state.                                  *)
LEMMA AtomicVars == Atomic!vars = <<rows, phase, call, reply, cut, overwritten>>
BY DEF Atomic!vars, phase

(* A handler that settles its answer a performs its command, when that      *)
(* leaves the table as it has to be.                                        *)
LEMMA Performs ==
    ASSUME TypeOK, NEW r \in Requests, pc[r] \in {"read", "write"},
           NEW at \in {"publish", "reply"}, pc' = [pc EXCEPT ![r] = at],
           NEW a, reply' = [reply EXCEPT ![r] = a], UNCHANGED <<call, cut>>
    PROVE  Atomic!Effect(r, rows', a)
<1>1. phase[r] = "pending" /\ phase' = [phase EXCEPT ![r] = "performed"]
  BY PhaseMoves DEF PhaseOf
<1> QED  BY <1>1 DEF Atomic!Effect, phase

(* A write performs its command: no other handler has come between the read *)
(* and it, or else a create that AtomicTasks allows to.                     *)
LEMMA UpsertPerforms ==
    ASSUME Serialized, IndInv, Prepared, NEW r \in Requests, Upsert(r)
    PROVE  Atomic!Perform(r)
<1> DEFINE c == call[r]
           t == draft[r]
           a == Atomic!Told(c, t)
<1>1. /\ TypeOK /\ Drafted(r) /\ Ready(r)
      /\ pc[r] = "write" /\ rows' = Put(rows, t) /\ UNCHANGED <<call, cut>>
      /\ c.verb \in {"create", "replace"} \cup Modifiers
  BY DEF IndInv, Prepared, Upsert, Drafted
<1>2. \E at \in {"publish", "reply"} : pc' = [pc EXCEPT ![r] = at]
  BY DEF Upsert, Settle
<1>3. reply' = [reply EXCEPT ![r] = a]
  <2>1. c.verb # "subject_get"
    BY <1>1 DEF Modifiers
  <2>2. a = IF c.verb = "subject_update" /\ ~ Decodable(t) THEN Error("internal") ELSE Subject(t)
    BY <2>1, SameAnswers DEF Atomic!Told
  <2> QED  BY <2>2 DEF Upsert, Settle
<1>4. Atomic!Effect(r, rows', a)
  <2> HIDE DEF a
  <2> QED  BY <1>1, <1>2, <1>3, Performs
<1>5. c.verb # "create" => UNCHANGED overwritten
  BY DEF Upsert, WriteOver
<1>6. CASE c.verb = "create"
  <2>1. t.id \in Pool /\ t = NewTask(c, t.id)
    BY <1>1, <1>6 DEF Ready
  <2>2. t.id \in DOMAIN rows => MayBeTaken(r) /\ (r \in cut \/ t.id = LastId)
    BY <1>1, <1>6 DEF IndInv, InsertsAreNew, MayBeTaken
  <2>3. a = Atomic!Subject(t)
    BY <1>6 DEF Atomic!Told
  <2>4. Atomic!NewTask(c, t.id) = t /\ Atomic!Put(rows, t) = rows'
    BY <1>1, <2>1, SameNewTask, SameTable
  <2>5. \/ t.id \notin DOMAIN rows /\ UNCHANGED overwritten
        \/ /\ t.id \in DOMAIN rows
           /\ overwritten' = overwritten \cup
                                {[task |-> rows[t.id], during |-> Atomic!Pending]}
    <3>1. overwritten' = overwritten \cup WriteOver(r)
      BY DEF Upsert
    <3>2. Atomic!Pending = {q \in Requests : pc[q] \in {"read", "write"}}
      BY <1>1 DEF Atomic!Pending, PhaseOf, TypeOK
    <3> QED  BY <1>6, <2>2, <3>1, <3>2 DEF WriteOver
  <2>6. Atomic!Create(r)
    <3> HIDE DEF t, a
    <3> QED  BY <1>4, <1>6, <2>1, <2>2, <2>3, <2>4, <2>5 DEF Atomic!Create, Pool
  <2> QED  BY <2>6 DEF Atomic!Perform
<1>7. CASE c.verb = "replace"
  <2>1. t = c.task
    BY <1>1, <1>7 DEF Ready
  <2>2. a = Atomic!Subject(t)
    BY <1>7 DEF Atomic!Told
  <2>3. Atomic!Replace(r)
    BY <1>1, <1>4, <1>7, <1>5, <2>1, <2>2, SameTable DEF Atomic!Replace
  <2> QED  BY <2>3 DEF Atomic!Perform
<1>8. CASE c.verb \in Modifiers
  <2> DEFINE key == RowKey(c)
  <2>1. ~ Rejects(c, base[r]) /\ t = Modified(c, base[r])
    BY <1>1, <1>8 DEF Ready
  <2>2. key \in DOMAIN rows /\ Known(r, key, base[r])
    BY <1>1, <1>8 DEF IndInv, NoStaleWrite
  <2>3. /\ Atomic!RowKey(c) = key
        /\ ~ Atomic!Rejects(c, base[r])
        /\ Atomic!Modified(c, base[r]) = t
        /\ Atomic!Put(rows, t) = rows'
    BY <1>1, <2>1, SameTable, SameModified
  <2>4. base[r] \in Atomic!Versions(r, key)
    BY <2>2 DEF Known, Atomic!Versions
  <2>5. UNCHANGED overwritten
    BY <1>8, <1>5 DEF Modifiers
  <2> HIDE DEF a, t
  <2>6. Atomic!Modify(r)
    BY <1>4, <1>8, <2>2, <2>3, <2>4, <2>5 DEF Atomic!Modify, a, Modifiers, Atomic!Modifiers
  <2> QED  BY <2>6 DEF Atomic!Perform
<1> QED  BY <1>1, <1>6, <1>7, <1>8

(* Reading, missing and deleting a row perform their command at once.       *)
LEMMA ReadPerforms ==
    ASSUME TypeOK, NEW r \in Requests, Miss(r) \/ Get(r) \/ DeleteRow(r)
    PROVE  Atomic!Perform(r)
<1> DEFINE c == call[r]
           key == RowKey(c)
<1>0. UNCHANGED overwritten
  BY DEF Miss, Get, DeleteRow
<1>1. Atomic!RowKey(c) = key
  BY SameTable
<1>2. CASE Miss(r)
  <2>1. Atomic!Effect(r, rows, Atomic!Error("not_found"))
    BY <1>2, Performs, SameAnswers DEF Miss, Settle
  <2>2. key \in DOMAIN rows => Atomic!Rejects(c, rows[key])
    BY <1>2, SameTable DEF Miss
  <2>3. c.verb \in Modifiers \cup Readers
    BY <1>2 DEF Miss
  <2>4. Atomic!Miss(r)
    BY <1>0, <1>1, <2>1, <2>2, <2>3 DEF Atomic!Miss, Modifiers, Readers, Atomic!Modifiers, Atomic!Readers
  <2> QED  BY <2>4 DEF Atomic!Perform
<1>3. CASE Get(r)
  <2> DEFINE a == Atomic!Told(c, rows[key])
  <2>1. c.verb \in Readers /\ key \in DOMAIN rows
    BY <1>3 DEF Get
  <2>2. a = IF c.verb = "subject_get" /\ ~ Decodable(rows[key])
            THEN Error("internal") ELSE Subject(rows[key])
    BY <2>1, SameAnswers DEF Atomic!Told, Readers
  <2> HIDE DEF a
  <2>3. Atomic!Effect(r, rows, a)
    BY <1>3, <2>2, Performs DEF Get, Settle
  <2>4. Atomic!Read(r)
    BY <1>0, <1>1, <2>1, <2>3 DEF Atomic!Read, Readers, Atomic!Readers, a
  <2> QED  BY <2>4 DEF Atomic!Perform
<1>4. CASE DeleteRow(r)
  <2>1. c.verb = "delete" /\ pc[r] = "read" /\ UNCHANGED <<call, cut>>
    BY <1>4 DEF DeleteRow
  <2>2. CASE key \in DOMAIN rows
    <3>1. Atomic!Effect(r, rows', Atomic!Deleted) /\ rows' = Drop(rows, key)
      BY <1>4, <2>1, <2>2, Performs, SameAnswers DEF DeleteRow, Settle
    <3>2. Atomic!DeleteRow(r)
      BY <1>0, <1>1, <2>1, <2>2, <3>1, SameTable DEF Atomic!DeleteRow
    <3> QED  BY <3>2 DEF Atomic!Perform
  <2>3. CASE key \notin DOMAIN rows
    <3>1. Atomic!Effect(r, rows', Atomic!Error("not_found")) /\ rows' = rows
      BY <1>4, <2>1, <2>3, Performs, SameAnswers DEF DeleteRow, Settle
    <3>2. Atomic!Miss(r)
      BY <1>0, <1>1, <2>1, <2>3, <3>1 DEF Atomic!Miss
    <3> QED  BY <3>2 DEF Atomic!Perform
  <2> QED  BY <2>2, <2>3
<1> QED  BY <1>2, <1>3, <1>4

(* Every step of TaskStore is a step of AtomicTasks, or changes nothing of  *)
(* what AtomicTasks has: a handler that reads in order to write, or sends   *)
(* its event, is seen by nobody.                                            *)
LEMMA StepRefines ==
    ASSUME Serialized, IndInv, Prepared, [Next]_vars
    PROVE  [Atomic!Next]_(Atomic!vars)
<1>0. TypeOK
  BY DEF IndInv
<1>1. ASSUME NEW r \in Requests, NEW c \in Commands, Receive(r, c) PROVE Atomic!Next
  <2>1. \E at \in {"read", "write"} : pc' = [pc EXCEPT ![r] = at]
    BY <1>1 DEF Receive
  <2>2. phase[r] = "idle" /\ phase' = [phase EXCEPT ![r] = "pending"]
    BY <1>0, <1>1, <2>1, PhaseMoves DEF PhaseOf, Receive
  <2>3. Atomic!Submit(r, c)
    BY <1>1, <2>2 DEF Atomic!Submit, Receive, phase
  <2> QED  BY <2>3 DEF Atomic!Next
<1>2. ASSUME NEW r \in Requests, Allocate(r) \/ CutScan(r) \/ Fetch(r) \/ Publish(r)
      PROVE  [Atomic!Next]_(Atomic!vars)
  <2>1. \E at \in {"write", "reply"} :
           pc' = [pc EXCEPT ![r] = at] /\ PhaseOf(at) = PhaseOf(pc[r])
    BY <1>2 DEF Allocate, CutScan, Allot, Fetch, Publish, PhaseOf
  <2>2. phase' = [phase EXCEPT ![r] = phase[r]]
    BY <1>0, <2>1, PhaseMoves
  <2>3. phase' = phase
    BY <2>2 DEF phase
  <2>4. UNCHANGED <<rows, call, reply, overwritten>>
    BY <1>2 DEF Allocate, CutScan, Allot, Fetch, Publish
  <2>5. CASE cut' = cut
    BY <2>3, <2>4, <2>5, AtomicVars DEF Atomic!vars, phase
  <2>6. CASE cut' # cut
    <3>1. CutScan(r)
      BY <1>2, <2>6 DEF Allocate, Fetch, Publish
    <3>2. MaxFaults > 0 /\ pc[r] = "read" /\ call[r].verb = "create" /\ cut' = cut \cup {r}
      BY <1>0, <3>1, TaskStoreAssumption DEF CutScan, Allot, TypeOK
    <3>3. phase[r] = "pending"
      BY <3>2 DEF phase, PhaseOf
    <3>4. Atomic!Mislead(r)
      BY <2>3, <2>4, <3>2, <3>3 DEF Atomic!Mislead, phase
    <3> QED  BY <3>4 DEF Atomic!Next
  <2> QED  BY <2>5, <2>6
<1>3. ASSUME NEW r \in Requests, Miss(r) \/ Get(r) \/ DeleteRow(r) \/ Upsert(r)
      PROVE  Atomic!Next
  BY <1>0, <1>3, ReadPerforms, UpsertPerforms DEF Atomic!Next
<1>4. ASSUME NEW r \in Requests, Answer(r) PROVE Atomic!Next
  <2>1. phase[r] = "performed" /\ phase' = [phase EXCEPT ![r] = "returned"]
    BY <1>0, <1>4, PhaseMoves DEF PhaseOf, Answer
  <2>2. Atomic!Return(r)
    BY <1>4, <2>1 DEF Atomic!Return, Answer, phase
  <2> QED  BY <2>2 DEF Atomic!Next
<1>5. ASSUME NEW r \in Requests, Fault(r) PROVE Atomic!Next
  <2>1. MaxFaults > 0
    BY <1>0, <1>5, TaskStoreAssumption DEF Fault, TypeOK
  <2>2. PICK code \in {"not_found", "internal"} : Settle(r, Error(code))
    BY <1>5 DEF Fault
  <2>3. Atomic!Effect(r, rows, Atomic!Error(code))
    BY <1>0, <1>5, <2>2, Performs, SameAnswers DEF Fault, Settle
  <2>4. Atomic!Fail(r)
    BY <1>5, <2>1, <2>3 DEF Atomic!Fail, Fault
  <2> QED  BY <2>4 DEF Atomic!Next, Atomic!Perform
<1>6. CASE Crash
  <2>1. \A r \in Requests :
           PhaseOf(pc'[r]) = IF PhaseOf(pc[r]) \in {"pending", "performed"} THEN "lost"
                             ELSE PhaseOf(pc[r])
    BY <1>0, <1>6 DEF Crash, InFlight, PhaseOf, TypeOK
  <2>2. phase' = [r \in Requests |->
                     IF phase[r] \in {"pending", "performed"} THEN "lost" ELSE phase[r]]
    BY <2>1 DEF phase
  <2>3. Atomic!Stop
    BY <1>6, <2>2 DEF Atomic!Stop, Crash, phase
  <2> QED  BY <2>3 DEF Atomic!Next
<1>7. CASE UNCHANGED vars
  BY <1>7 DEF vars, Atomic!vars
<1> QED  BY <1>1, <1>2, <1>3, <1>4, <1>5, <1>6, <1>7 DEF Next, Step

(* What serialized callers see is AtomicTasks: each command takes effect at *)
(* one moment between its request and its answer, crashes, failing          *)
(* statements, scans cut short and used up numbers included.                *)
THEOREM SerializedIsAtomic == Serialized /\ Spec => ImplementsAtomicTasks
<1> SUFFICES ASSUME Serialized
             PROVE  Spec => ImplementsAtomicTasks
  OBVIOUS
<1>1. Init => Prepared
  BY DEF Init, Prepared, Ready
<1>2. Init => Atomic!Init
  BY DEF Init, Atomic!Init, PhaseOf, Atomic!Nothing, Nothing, Atomic!NoReply, NoReply
<1>3. IndInv /\ Prepared /\ [Next]_vars => Prepared'
  BY PreparedStep
<1>4. IndInv /\ Prepared /\ [Next]_vars => [Atomic!Next]_(Atomic!vars)
  BY StepRefines
<1> QED  BY <1>1, <1>2, <1>3, <1>4, Inductive, PTL DEF Spec, ImplementsAtomicTasks, Atomic!Spec

=============================================================================
