--------------------------- MODULE TaskStoreProofs ---------------------------
(***************************************************************************)
(* The table of TaskStore is safe for serialized callers, for any number   *)
(* of requests, any commands, any initial table and any number of faults   *)
(* and crashes: no modifier writes over a row it has not seen and no create*)
(* overwrites a row, but for what a scan of the ids that was cut short, or  *)
(* the end of the u32 numbers, brings about.                               *)
(***************************************************************************)
EXTENDS TaskStore, TaskCommandsProofs

-----------------------------------------------------------------------------
(* The inductive invariant.                                                 *)

\* A handler about to write holds a payload with an id: its own row's, or,
\* for a create, one nobody could have taken since.
Drafted(r) ==
    pc[r] = "write" =>
        /\ call[r].verb \in {"create", "replace"} \cup Modifiers
        /\ "id" \in DOMAIN draft[r]
        /\ draft[r].id \in Id
        /\ call[r].verb # "create" => draft[r].id = RowKey(call[r])

\* The callers' discipline, on the commands under way.
NoConflict ==
    Serialized => \A r, s \in Requests :
        r # s /\ InFlight(r) /\ InFlight(s) => ~ Conflict(call[r], call[s])

\* A scan is cut short by a failure only, and creates only write over tasks.
HistoryOK ==
    /\ cut # {} => faults > 0
    /\ overwritten # {} => \E r \in Requests : pc[r] # "idle" /\ call[r].verb = "create"

IndInv ==
    /\ TypeOK
    /\ HistoryOK
    /\ \A r \in Requests : Drafted(r)
    /\ NoConflict
    /\ NoStaleWrite
    /\ InsertsAreNew

(* However its scan went, a create is given an id by some of the stored ones.*)
LEMMA ScanAllots ==
    ASSUME NEW r, Allocate(r) \/ CutScan(r)
    PROVE  \E seen \in SUBSET DOMAIN rows : Allot(r, seen)
BY DEF Allocate, CutScan

(* Conflict does not depend on which command came first.                    *)
LEMMA ConflictSymmetric ==
    ASSUME NEW c, NEW d
    PROVE  Conflict(c, d) <=> Conflict(d, c)
BY DEF Conflict, ChangesRow

(* The type invariant: the table stays keyed by its payloads and every      *)
(* handler stays in its own command, whatever handlers overlap.             *)
LEMMA TypeStep ==
    ASSUME TypeOK, \A r \in Requests : Drafted(r), [Next]_vars
    PROVE  TypeOK' /\ \A r \in Requests : Drafted(r)'
<1> DEFINE Typed == TypeOK' /\ \A s \in Requests : Drafted(s)'
<1>1. ASSUME NEW r \in Requests, NEW c \in Commands, Receive(r, c) PROVE Typed
  <2>1. c.verb = "replace" => "id" \in DOMAIN c.task /\ c.task.id \in Id /\ c.task.id = RowKey(c)
    BY TaskStoreAssumption DEF RowKey, NamesItsRow
  <2>2. TypeOK'
    <3>1. pc' = [pc EXCEPT ![r] = pc'[r]] /\ pc'[r] \in {"read", "write"}
      BY <1>1 DEF Receive, TypeOK
    <3>2. /\ call' = [call EXCEPT ![r] = c] /\ UNCHANGED <<rows, faults, cut>>
          /\ DOMAIN base' = DOMAIN base /\ DOMAIN draft' = DOMAIN draft
      BY <1>1 DEF Receive
    <3> QED  BY <3>1, <3>2 DEF TypeOK, InFlight
  <2>3. \A s \in Requests : Drafted(s)'
    BY <1>1, <2>1 DEF TypeOK, Receive, Drafted
  <2> QED  BY <2>2, <2>3
<1>2. ASSUME NEW r \in Requests, Allocate(r) \/ CutScan(r) PROVE Typed
  <2>0. PICK seen \in SUBSET DOMAIN rows : Allot(r, seen)
    BY <1>2, ScanAllots
  <2> DEFINE id == NextSequentialId(seen)
             t == NewTask(call[r], id)
  <2>1. id \in Id
    BY NextIdFresh DEF TypeOK, WellKeyed
  <2>2. "id" \in DOMAIN t /\ t.id = id
    BY NewTaskKeepsId
  <2> HIDE DEF id, t
  <2>3. draft' = [draft EXCEPT ![r] = t]
    BY <2>0 DEF Allot, t, id
  <2>4. TypeOK'
    <3>1. /\ pc[r] = "read"
          /\ pc' = [pc EXCEPT ![r] = "write"]
          /\ UNCHANGED <<rows, call>>
          /\ DOMAIN base' = DOMAIN base /\ DOMAIN draft' = DOMAIN draft
      BY <2>0 DEF Allot
    <3>2. faults' \in 0 .. MaxFaults /\ cut' \subseteq Requests
      BY <1>2, TaskStoreAssumption DEF Allocate, CutScan, TypeOK
    <3> QED  BY <3>1, <3>2 DEF TypeOK, InFlight
  <2>5. \A s \in Requests : Drafted(s)'
    BY <2>0, <2>1, <2>2, <2>3 DEF TypeOK, Allot, Drafted
  <2> QED  BY <2>4, <2>5
<1>3. ASSUME NEW r \in Requests, Fetch(r) PROVE Typed
  <2> DEFINE key == RowKey(call[r])
             t == Modified(call[r], rows[key])
  <2>1. /\ call[r] \in Commands /\ call[r].verb \in Modifiers
        /\ key \in DOMAIN rows
    BY <1>3 DEF Fetch, TypeOK, InFlight
  <2>2. "id" \in DOMAIN rows[key] /\ rows[key].id = key /\ key \in Id
    BY <2>1 DEF TypeOK, WellKeyed
  <2>3. "id" \in DOMAIN t /\ t.id = key
    BY <2>1, <2>2, TaskStoreAssumption, ModifiedKeepsId
  <2> HIDE DEF t
  <2>4. draft' = [draft EXCEPT ![r] = t]
    BY <1>3 DEF Fetch, t
  <2>5. TypeOK'
    <3>1. /\ pc[r] = "read"
          /\ pc' = [pc EXCEPT ![r] = "write"]
          /\ UNCHANGED <<rows, call, faults, cut>>
          /\ DOMAIN base' = DOMAIN base /\ DOMAIN draft' = DOMAIN draft
      BY <1>3 DEF Fetch
    <3> QED  BY <3>1 DEF TypeOK, InFlight
  <2>6. \A s \in Requests : Drafted(s)'
    BY <1>3, <2>1, <2>2, <2>3, <2>4 DEF TypeOK, Fetch, Drafted
  <2> QED  BY <2>5, <2>6
<1>4. ASSUME NEW r \in Requests, Miss(r) \/ Get(r) PROVE Typed
  BY <1>4 DEF TypeOK, Drafted, Miss, Get, Settle, InFlight
<1>5. ASSUME NEW r \in Requests, DeleteRow(r) PROVE Typed
  <2>1. WellKeyed(rows')
    BY <1>5, DropKeyed DEF DeleteRow, TypeOK
  <2>2. TypeOK'
    BY <1>5, <2>1 DEF TypeOK, DeleteRow, Settle, InFlight
  <2>3. \A s \in Requests : Drafted(s)'
    BY <1>5 DEF TypeOK, DeleteRow, Settle, Drafted
  <2> QED  BY <2>2, <2>3
<1>6. ASSUME NEW r \in Requests, Upsert(r) PROVE Typed
  <2>1. "id" \in DOMAIN draft[r] /\ draft[r].id \in Id
    BY <1>6 DEF Upsert, Drafted
  <2>2. WellKeyed(rows')
    BY <1>6, <2>1, PutKeyed DEF Upsert, TypeOK
  <2>3. TypeOK'
    BY <1>6, <2>2 DEF TypeOK, Upsert, Settle, InFlight
  <2>4. \A s \in Requests : Drafted(s)'
    BY <1>6 DEF TypeOK, Upsert, Settle, Drafted
  <2> QED  BY <2>3, <2>4
<1>7. ASSUME NEW r \in Requests, Publish(r) \/ Answer(r) PROVE Typed
  BY <1>7 DEF TypeOK, Drafted, Publish, Answer, InFlight
<1>8. ASSUME NEW r \in Requests, Fault(r) PROVE Typed
  <2>1. TypeOK'
    BY <1>8, TaskStoreAssumption DEF TypeOK, Fault, Settle, InFlight
  <2>2. \A s \in Requests : Drafted(s)'
    BY <1>8 DEF TypeOK, Fault, Settle, Drafted
  <2> QED  BY <2>1, <2>2
<1>9. CASE Crash
  BY <1>9 DEF TypeOK, Drafted, Crash, InFlight
<1>10. CASE UNCHANGED vars
  BY <1>10 DEF TypeOK, Drafted, InFlight, vars
<1> QED  BY <1>1, <1>2, <1>3, <1>4, <1>5, <1>6, <1>7, <1>8, <1>9, <1>10 DEF Next, Step

(* Two commands that insert conflict.                                       *)
LEMMA InsertsConflict ==
    ASSUME NEW c, NEW d, c.verb \in {"create", "replace"}, d.verb \in {"create", "replace"}
    PROVE  Conflict(c, d)
BY DEF Conflict, InsertsRow

(* Two commands that change one row conflict.                               *)
LEMMA SameRowConflict ==
    ASSUME NEW c, NEW d, RowKey(c) = RowKey(d),
           c.verb \in Modifiers \cup {"replace", "delete"},
           d.verb \in Modifiers \cup {"replace", "delete"}
    PROVE  Conflict(c, d)
<1>1. \A verb \in Modifiers \cup {"replace", "delete"} : verb \notin Readers \cup {"create"}
  BY DEF Modifiers, Readers
<1> QED  BY <1>1 DEF Conflict, ChangesRow

(* No step brings two conflicting commands under way: only Receive starts   *)
(* one, and a serialized caller looks first.                                *)
LEMMA NoConflictStep ==
    ASSUME TypeOK, NoConflict, [Next]_vars
    PROVE  NoConflict'
<1> SUFFICES ASSUME Serialized,
                    NEW r \in Requests, NEW s \in Requests,
                    r # s, InFlight(r)', InFlight(s)'
             PROVE  ~ Conflict(call'[r], call'[s])
  BY DEF NoConflict
<1>1. ASSUME NEW q \in Requests, NEW c \in Commands, Receive(q, c)
      PROVE  ~ Conflict(call'[r], call'[s])
  <2>1. /\ call' = [call EXCEPT ![q] = c]
        /\ \A x \in Requests : InFlight(x) => ~ Conflict(c, call[x])
        /\ pc' = [pc EXCEPT ![q] = pc'[q]]
    BY <1>1 DEF Receive, TypeOK
  <2>2. \A x \in Requests : x # q /\ InFlight(x)' => InFlight(x) /\ call'[x] = call[x]
    BY <2>1 DEF TypeOK, InFlight
  <2>3. call'[q] = c
    BY <2>1 DEF TypeOK
  <2>4. CASE r = q
    BY <2>1, <2>2, <2>3, <2>4
  <2>5. CASE s = q
    BY <2>1, <2>2, <2>3, <2>5, ConflictSymmetric
  <2>6. CASE r # q /\ s # q
    BY <2>2, <2>6 DEF NoConflict
  <2> QED  BY <2>4, <2>5, <2>6
<1>2. ASSUME UNCHANGED call, InFlight(r), InFlight(s)
      PROVE  ~ Conflict(call'[r], call'[s])
  BY <1>2 DEF NoConflict
<1>3. ASSUME NEW q \in Requests, Step(q) \/ Fault(q) \/ CutScan(q)
      PROVE  UNCHANGED call /\ InFlight(r) /\ InFlight(s)
  BY <1>3 DEF Step, Allocate, CutScan, Allot, Fetch, Miss, Get, DeleteRow, Upsert, Publish,
              Answer, Fault, Settle, TypeOK, InFlight
<1>4. ASSUME Crash \/ UNCHANGED vars
      PROVE  UNCHANGED call /\ InFlight(r) /\ InFlight(s)
  BY <1>4 DEF Crash, TypeOK, InFlight, vars
<1> QED  BY <1>1, <1>2, <1>3, <1>4 DEF Next

(* The histories and the count of failures only grow, each by its own steps.*)
LEMMA HistoryGrows ==
    ASSUME TypeOK, [Next]_vars
    PROVE  /\ cut \subseteq cut' /\ faults' \in Nat /\ faults' >= faults
           /\ cut' # cut => faults' > faults
           /\ overwritten' # overwritten => \E r \in Requests : Upsert(r)
<1>1. faults \in Nat
  BY TaskStoreAssumption DEF TypeOK
<1>2. ASSUME NEW r \in Requests, NEW c \in Commands, Receive(r, c)
      PROVE  UNCHANGED <<cut, faults, overwritten>>
  BY <1>2 DEF Receive
<1>3. ASSUME NEW r \in Requests,
             \/ Allocate(r) \/ Fetch(r) \/ Miss(r) \/ Get(r) \/ DeleteRow(r)
             \/ Publish(r) \/ Answer(r)
      PROVE  UNCHANGED <<cut, faults, overwritten>>
  BY <1>3 DEF Allocate, Allot, Fetch, Miss, Get, DeleteRow, Publish, Answer
<1>4. ASSUME NEW r \in Requests, Upsert(r) PROVE UNCHANGED <<cut, faults>>
  BY <1>4 DEF Upsert
<1>5. ASSUME NEW r \in Requests, Fault(r) \/ CutScan(r)
      PROVE  cut \subseteq cut' /\ faults' = faults + 1 /\ overwritten' = overwritten
  BY <1>5 DEF Fault, CutScan, Allot
<1>6. ASSUME Crash \/ UNCHANGED vars PROVE UNCHANGED <<cut, faults, overwritten>>
  BY <1>6 DEF Crash, vars
<1> QED  BY <1>1, <1>2, <1>3, <1>4, <1>5, <1>6 DEF Next, Step

(* A request that was received stays received.                              *)
LEMMA StaysReceived ==
    ASSUME TypeOK, [Next]_vars, NEW r \in Requests, pc[r] # "idle"
    PROVE  pc'[r] # "idle" /\ call'[r] = call[r]
<1>1. ASSUME NEW q \in Requests, NEW c \in Commands, Receive(q, c)
      PROVE  pc'[r] # "idle" /\ call'[r] = call[r]
  BY <1>1 DEF Receive, TypeOK
<1>2. ASSUME NEW q \in Requests, Step(q) \/ Fault(q) \/ CutScan(q)
      PROVE  pc'[r] # "idle" /\ call'[r] = call[r]
  BY <1>2 DEF Step, Allocate, CutScan, Allot, Fetch, Miss, Get, DeleteRow, Upsert, Publish,
              Answer, Fault, Settle, TypeOK
<1>3. CASE Crash \/ UNCHANGED vars
  BY <1>3 DEF Crash, vars, TypeOK
<1> QED  BY <1>1, <1>2, <1>3 DEF Next

(* The histories stay what they are histories of.                           *)
LEMMA HistoryStep ==
    ASSUME TypeOK, HistoryOK, [Next]_vars
    PROVE  HistoryOK'
<1>1. cut' # {} => faults' > 0
  <2>1. faults \in Nat /\ faults' \in Nat
    BY HistoryGrows, TaskStoreAssumption DEF TypeOK
  <2>2. CASE cut = {}
    BY <2>1, <2>2, HistoryGrows
  <2>3. CASE cut # {}
    BY <2>1, <2>3, HistoryGrows DEF HistoryOK
  <2> QED  BY <2>2, <2>3
<1>2. ASSUME NEW r \in Requests, Upsert(r), overwritten' # overwritten
      PROVE  pc[r] # "idle" /\ call[r].verb = "create"
  BY <1>2 DEF Upsert, WriteOver
<1>3. overwritten' # {} => \E r \in Requests : pc[r] # "idle" /\ call[r].verb = "create"
  BY <1>2, HistoryGrows DEF HistoryOK
<1> QED  BY <1>1, <1>3, StaysReceived DEF HistoryOK

(* Between a serialized modifier's read and its write nobody writes its     *)
(* row but a create that should not have its id, which leaves a record: the *)
(* others are about other rows, or insert rows that are new.                *)
LEMMA NoStaleWriteStep ==
    ASSUME IndInv, [Next]_vars
    PROVE  NoStaleWrite'
<1> SUFFICES ASSUME Serialized, NEW r \in Requests,
                    pc'[r] = "write", call'[r].verb \in Modifiers
             PROVE  (RowKey(call[r]) \in DOMAIN rows /\ Known(r, RowKey(call[r]), base[r]))'
  BY DEF NoStaleWrite, Known
<1> DEFINE key == RowKey(call[r])
           Holds == /\ key \in DOMAIN rows
                    /\ \/ base[r] = rows[key]
                       \/ \E o \in overwritten :
                             o.task = base[r] /\ base[r].id = key /\ r \in o.during
<1>0. Holds' => (key \in DOMAIN rows /\ Known(r, key, base[r]))'
  BY DEF Known
<1>1. ASSUME pc[r] = "write", call[r].verb \in Modifiers PROVE Holds
  BY <1>1 DEF IndInv, NoStaleWrite, Known
<1>2. ASSUME NEW q \in Requests, NEW c \in Commands, Receive(q, c)
      PROVE  Holds'
  <2>1. q # r
    BY <1>2 DEF Receive, IndInv, TypeOK, Modifiers
  <2>2. call'[r] = call[r] /\ pc[r] = "write" /\ UNCHANGED <<rows, base, overwritten>>
    BY <1>2, <2>1 DEF Receive, IndInv, TypeOK
  <2> QED  BY <1>1, <2>2
<1>3. ASSUME NEW q \in Requests, Allocate(q) \/ CutScan(q) PROVE Holds'
  <2>1. q # r
    BY <1>3 DEF Allocate, CutScan, Allot, Modifiers
  <2>2. pc[r] = "write" /\ call' = call /\ UNCHANGED <<rows, base, overwritten>>
    BY <1>3, <2>1 DEF Allocate, CutScan, Allot, IndInv, TypeOK
  <2> QED  BY <1>1, <2>2
<1>4. ASSUME NEW q \in Requests, Fetch(q) PROVE Holds'
  <2>1. CASE q = r
    BY <1>4, <2>1 DEF Fetch, IndInv, TypeOK
  <2>2. CASE q # r
    <3>1. pc[r] = "write" /\ call' = call /\ UNCHANGED <<rows, overwritten>> /\ base'[r] = base[r]
      BY <1>4, <2>2 DEF Fetch, IndInv, TypeOK
    <3> QED  BY <1>1, <3>1
  <2> QED  BY <2>1, <2>2
<1>5. ASSUME NEW q \in Requests, Miss(q) \/ Get(q) \/ Publish(q) \/ Answer(q) PROVE Holds'
  <2>1. pc[r] = "write" /\ call' = call /\ UNCHANGED <<rows, base, overwritten>>
    BY <1>5 DEF Miss, Get, Publish, Answer, Settle, IndInv, TypeOK
  <2> QED  BY <1>1, <2>1
<1>6. ASSUME NEW q \in Requests, DeleteRow(q) PROVE Holds'
  <2>1. /\ pc[q] = "read" /\ call[q].verb = "delete"
        /\ pc[r] = "write" /\ UNCHANGED <<call, base, overwritten>> /\ q # r
    BY <1>6 DEF DeleteRow, Settle, IndInv, TypeOK
  <2>2. Holds
    BY <1>1, <2>1
  <2>3. ~ Conflict(call[q], call[r])
    BY <2>1 DEF IndInv, NoConflict, InFlight
  <2>4. RowKey(call[q]) # key
    BY <2>1, <2>3, SameRowConflict
  <2>5. rows' \in {rows, Drop(rows, RowKey(call[q]))}
    BY <1>6 DEF DeleteRow
  <2> QED  BY <2>1, <2>2, <2>4, <2>5 DEF Drop
<1>7. ASSUME NEW q \in Requests, Upsert(q) PROVE Holds'
  <2>1. pc[q] = "write" /\ pc[r] = "write" /\ call' = call /\ q # r
    BY <1>7 DEF Upsert, Settle, IndInv, TypeOK
  <2>2. Holds /\ base'[r] = base[r]
    BY <1>1, <1>7, <2>1 DEF Upsert, IndInv, TypeOK
  <2>3. ~ Conflict(call[q], call[r])
    BY <2>1 DEF IndInv, NoConflict, InFlight
  <2>4. rows' = Put(rows, draft[q]) /\ overwritten' = overwritten \cup WriteOver(q)
    BY <1>7 DEF Upsert
  <2>5. CASE draft[q].id # key
    BY <2>1, <2>2, <2>4, <2>5 DEF Put
  <2>6. CASE draft[q].id = key
    <3>1. Drafted(q) /\ WellKeyed(rows)
      BY DEF IndInv, TypeOK
    <3>2. call[q].verb = "create"
      BY <2>1, <2>3, <2>6, <3>1, SameRowConflict DEF Drafted
    <3> DEFINE o == [task |-> rows[key],
                     during |-> {p \in Requests : pc[p] \in {"read", "write"}}]
    <3>3. o \in overwritten'
      <4>1. MayBeTaken(q)
        BY <2>1, <2>2, <2>6, <3>2 DEF IndInv, InsertsAreNew
      <4> QED  BY <2>2, <2>4, <2>6, <3>2, <4>1 DEF WriteOver
    <3>4. o.task.id = key /\ r \in o.during /\ o.task = rows[key]
      BY <2>1, <2>2, <3>1 DEF WellKeyed
    <3>5. key \in DOMAIN rows'
      BY <2>4, <2>6 DEF Put
    <3> HIDE DEF o
    <3> QED  BY <2>1, <2>2, <2>4, <3>3, <3>4, <3>5
  <2> QED  BY <2>5, <2>6
<1>8. ASSUME NEW q \in Requests, Fault(q) PROVE Holds'
  <2>1. pc[r] = "write" /\ call' = call /\ UNCHANGED <<rows, overwritten>> /\ base'[r] = base[r]
    BY <1>8 DEF Fault, Settle, IndInv, TypeOK
  <2> QED  BY <1>1, <2>1
<1>9. CASE Crash
  BY <1>9 DEF Crash, IndInv, TypeOK, InFlight
<1>10. CASE UNCHANGED vars
  BY <1>0, <1>1, <1>10 DEF vars
<1> QED  BY <1>0, <1>2, <1>3, <1>4, <1>5, <1>6, <1>7, <1>8, <1>9, <1>10 DEF Next, Step

(* Between a serialized create's next_id and its insert no row appears      *)
(* under its id: nobody else inserts, and modifiers write rows that exist.  *)
LEMMA InsertsAreNewStep ==
    ASSUME IndInv, [Next]_vars
    PROVE  InsertsAreNew'
<1> SUFFICES ASSUME Serialized, NEW r \in Requests,
                    pc'[r] = "write", call'[r].verb = "create",
                    draft'[r].id # LastId, r \notin cut'
             PROVE  draft'[r].id \notin DOMAIN rows'
  BY DEF InsertsAreNew, MayBeTaken, LastId
<1> DEFINE New == draft[r].id \notin DOMAIN rows
<1>1. ASSUME pc[r] = "write", call[r].verb = "create", draft[r].id # LastId, r \notin cut
      PROVE  New
  BY <1>1 DEF IndInv, InsertsAreNew, MayBeTaken
<1>0. r \notin cut
  BY HistoryGrows DEF IndInv
<1>2. ASSUME NEW q \in Requests, NEW c \in Commands, Receive(q, c) PROVE New'
  <2>1. q # r
    BY <1>2 DEF Receive, IndInv, TypeOK
  <2>2. call'[r] = call[r] /\ pc[r] = "write" /\ rows' = rows /\ draft'[r] = draft[r]
    BY <1>2, <2>1 DEF Receive, IndInv, TypeOK
  <2> QED  BY <1>0, <1>1, <2>2
<1>3. ASSUME NEW q \in Requests, Allocate(q) \/ CutScan(q) PROVE New'
  <2>1. CASE q # r
    <3>1. pc[r] = "write" /\ call' = call /\ rows' = rows /\ draft'[r] = draft[r]
      BY <1>3, <2>1 DEF Allocate, CutScan, Allot, IndInv, TypeOK
    <3> QED  BY <1>0, <1>1, <3>1
  <2>2. CASE q = r
    <3>0. Allocate(r)
      BY <1>3, <2>2 DEF CutScan
    <3> DEFINE id == NextSequentialId(DOMAIN rows)
    <3>1. id = LastId \/ id \notin DOMAIN rows
      BY NextIdFresh DEF IndInv, TypeOK, WellKeyed, LastId
    <3>2. NewTask(call[r], id).id = id
      BY NewTaskKeepsId
    <3> HIDE DEF id
    <3>3. draft'[r] = NewTask(call[r], id) /\ rows' = rows
      BY <3>0 DEF Allocate, Allot, IndInv, TypeOK, id
    <3> QED  BY <3>1, <3>2, <3>3
  <2> QED  BY <2>1, <2>2
<1>4. ASSUME NEW q \in Requests, Fetch(q) PROVE New'
  <2>1. q # r
    BY <1>4 DEF Fetch, Modifiers
  <2>2. pc[r] = "write" /\ call' = call /\ rows' = rows /\ draft'[r] = draft[r]
    BY <1>4, <2>1 DEF Fetch, IndInv, TypeOK
  <2> QED  BY <1>0, <1>1, <2>2
<1>5. ASSUME NEW q \in Requests, Miss(q) \/ Get(q) \/ Publish(q) \/ Answer(q) PROVE New'
  <2>1. pc[r] = "write" /\ call' = call /\ rows' = rows /\ draft' = draft
    BY <1>5 DEF Miss, Get, Publish, Answer, Settle, IndInv, TypeOK
  <2> QED  BY <1>0, <1>1, <2>1
<1>6. ASSUME NEW q \in Requests, DeleteRow(q) PROVE New'
  <2>1. pc[r] = "write" /\ call' = call /\ draft' = draft
    BY <1>6 DEF DeleteRow, Settle, IndInv, TypeOK
  <2>2. New
    BY <1>0, <1>1, <2>1
  <2>3. rows' \in {rows, Drop(rows, RowKey(call[q]))}
    BY <1>6 DEF DeleteRow
  <2> QED  BY <2>1, <2>2, <2>3 DEF Drop
<1>7. ASSUME NEW q \in Requests, Upsert(q) PROVE New'
  <2>1. pc[q] = "write" /\ pc[r] = "write" /\ call' = call /\ q # r
    BY <1>7 DEF Upsert, Settle, IndInv, TypeOK
  <2>2. draft'[r] = draft[r]
    BY <1>7, <2>1 DEF Upsert, IndInv, TypeOK
  <2>3. New
    BY <1>0, <1>1, <2>1, <2>2
  <2>4. ~ Conflict(call[q], call[r])
    BY <2>1 DEF IndInv, NoConflict, InFlight
  <2>5. call[q].verb \in Modifiers /\ draft[q].id = RowKey(call[q])
    BY <2>1, <2>4, InsertsConflict DEF IndInv, Drafted, Modifiers
  <2>6. draft[q].id \in DOMAIN rows
    BY <2>1, <2>5 DEF IndInv, NoStaleWrite
  <2>7. rows' = Put(rows, draft[q])
    BY <1>7 DEF Upsert
  <2> QED  BY <2>2, <2>3, <2>6, <2>7 DEF Put
<1>8. ASSUME NEW q \in Requests, Fault(q) PROVE New'
  <2>1. pc[r] = "write" /\ call' = call /\ rows' = rows /\ draft'[r] = draft[r]
    BY <1>8 DEF Fault, Settle, IndInv, TypeOK
  <2> QED  BY <1>0, <1>1, <2>1
<1>9. CASE Crash
  BY <1>9 DEF Crash, IndInv, TypeOK, InFlight
<1>10. CASE UNCHANGED vars
  BY <1>0, <1>1, <1>10 DEF vars
<1> QED  BY <1>2, <1>3, <1>4, <1>5, <1>6, <1>7, <1>8, <1>9, <1>10 DEF Next, Step

-----------------------------------------------------------------------------

(* IndInv holds of every reachable state.                                   *)
THEOREM Inductive == Spec => []IndInv
<1>1. Init => IndInv
  <2> SUFFICES ASSUME Init PROVE IndInv
    OBVIOUS
  <2>1. TypeOK
    BY TaskStoreAssumption DEF Init, TypeOK, InFlight
  <2>2. \A r \in Requests : pc[r] = "idle"
    BY DEF Init
  <2> QED  BY <2>1, <2>2 DEF IndInv, HistoryOK, Drafted, NoConflict, NoStaleWrite, InsertsAreNew, InFlight, Init
<1>2. IndInv /\ [Next]_vars => IndInv'
  <2> SUFFICES ASSUME IndInv, [Next]_vars PROVE IndInv'
    OBVIOUS
  <2>1. TypeOK' /\ \A r \in Requests : Drafted(r)'
    BY TypeStep DEF IndInv
  <2>2. NoConflict' /\ HistoryOK'
    BY NoConflictStep, HistoryStep DEF IndInv
  <2>3. NoStaleWrite' /\ InsertsAreNew'
    BY NoStaleWriteStep, InsertsAreNewStep
  <2> QED  BY <2>1, <2>2, <2>3 DEF IndInv
<1> QED  BY <1>1, <1>2, PTL DEF Spec

(* The table stays keyed by its payloads, whatever handlers overlap.        *)
THEOREM TypeCorrect == Spec => []TypeOK
<1>1. IndInv => TypeOK
  BY DEF IndInv
<1> QED  BY <1>1, Inductive, PTL

(* Serialized callers lose no update to one another's modifiers, replaces   *)
(* and deletes: a modifier overwrites the row it has read, and it is there; *)
(* only a create with an id that was not free can come between.             *)
THEOREM UpdatesAreNotStale == Spec => []NoStaleWrite
<1>1. IndInv => NoStaleWrite
  BY DEF IndInv
<1> QED  BY <1>1, Inductive, PTL

(* Serialized creates never overwrite: an id stays free from next_id to the *)
(* insert, unless the scan that found it was cut short, or the u32 numbers  *)
(* are used up.                                                             *)
THEOREM CreatesInsert == Spec => []InsertsAreNew
<1>1. IndInv => InsertsAreNew
  BY DEF IndInv
<1> QED  BY <1>1, Inductive, PTL

-----------------------------------------------------------------------------
(* What holds of any callers who are tidy, however their requests overlap.  *)

\* What a handler is about to write is tidy, and decodes if what it read did.
Tidied(r) ==
    pc[r] = "write" =>
        /\ TidyTask(draft[r])
        /\ call[r].verb \in Modifiers => TidyTask(base[r])
        /\ call[r].verb = "subject_update" /\ Decodable(base[r]) => Decodable(draft[r])

TidyInv ==
    /\ DOMAIN reply = Requests
    /\ \A i \in DOMAIN rows : TidyTask(rows[i])
    /\ \A r \in Requests : Tidied(r)

(* No interleaving of handlers mixes two payloads: what is written was      *)
(* computed from one row as it was stored.                                  *)
LEMMA TidyStep ==
    ASSUME TidyCallers, TypeOK, TidyInv, [Next]_vars
    PROVE  TidyInv'
<1> DEFINE Rest == /\ DOMAIN reply' = Requests
                   /\ \A i \in DOMAIN rows' : TidyTask(rows'[i])
<1>1. ASSUME NEW r \in Requests, NEW c \in Commands, Receive(r, c) PROVE TidyInv'
  <2>1. Rest
    BY <1>1 DEF Receive, TidyInv
  <2>2. ASSUME NEW s \in Requests PROVE Tidied(s)'
    <3>1. CASE s = r
      BY <1>1, <3>1 DEF Receive, TypeOK, Tidied, TidyCallers, TidyCommand, Modifiers
    <3>2. CASE s # r
      BY <1>1, <3>2 DEF Receive, TypeOK, TidyInv, Tidied
    <3> QED  BY <3>1, <3>2
  <2> QED  BY <2>1, <2>2 DEF TidyInv
<1>2. ASSUME NEW r \in Requests, Allocate(r) \/ CutScan(r) PROVE TidyInv'
  <2>0. PICK seen \in SUBSET DOMAIN rows : Allot(r, seen)
    BY <1>2, ScanAllots
  <2> DEFINE t == NewTask(call[r], NextSequentialId(seen))
  <2>1. Rest
    BY <2>0 DEF Allot, TidyInv
  <2>2. call[r] \in Commands /\ call[r].verb = "create"
    BY <2>0 DEF Allot, TypeOK, InFlight
  <2>3. NextSequentialId(seen) \in Id
    BY NextIdFresh DEF TypeOK, WellKeyed
  <2>4. TidyTask(t)
    BY <2>2, <2>3, NewTaskIsTidy DEF TidyCallers, TidyCommand
  <2> HIDE DEF t
  <2>5. draft' = [draft EXCEPT ![r] = t]
    BY <2>0 DEF Allot, t
  <2>6. \A s \in Requests : Tidied(s)'
    BY <2>0, <2>2, <2>4, <2>5 DEF Allot, TypeOK, TidyInv, Tidied, Modifiers
  <2> QED  BY <2>1, <2>6 DEF TidyInv
<1>3. ASSUME NEW r \in Requests, Fetch(r) PROVE TidyInv'
  <2> DEFINE c == call[r]
             t == rows[RowKey(c)]
             u == Modified(c, t)
  <2>1. Rest
    BY <1>3 DEF Fetch, TidyInv
  <2>2. c \in Commands /\ c.verb \in Modifiers /\ TidyTask(t)
    BY <1>3 DEF Fetch, TypeOK, InFlight, TidyInv
  <2>3. TidyTask(u) /\ t.metadata.stamps \subseteq u.metadata.stamps
    BY <2>2, ModifiedIsTidy DEF TidyCallers
  <2>4. Decodable(t) => Decodable(u)
    BY <2>3 DEF Decodable
  <2>5. /\ call' = call /\ base' = [base EXCEPT ![r] = t] /\ draft' = [draft EXCEPT ![r] = u]
        /\ pc' = [pc EXCEPT ![r] = "write"]
    BY <1>3 DEF Fetch
  <2> HIDE DEF t, u, c
  <2>6. \A s \in Requests : Tidied(s)'
    BY <2>2, <2>3, <2>4, <2>5 DEF TypeOK, TidyInv, Tidied
  <2> QED  BY <2>1, <2>6 DEF TidyInv
<1>4. ASSUME NEW r \in Requests, Miss(r) \/ Get(r) \/ Publish(r) \/ Answer(r) PROVE TidyInv'
  BY <1>4 DEF Miss, Get, Publish, Answer, Settle, TypeOK, TidyInv, Tidied
<1>5. ASSUME NEW r \in Requests, DeleteRow(r) PROVE TidyInv'
  <2>1. Rest
    BY <1>5 DEF DeleteRow, Settle, Drop, TidyInv
  <2>2. \A s \in Requests : Tidied(s)'
    BY <1>5 DEF DeleteRow, Settle, TypeOK, TidyInv, Tidied
  <2> QED  BY <2>1, <2>2 DEF TidyInv
<1>6. ASSUME NEW r \in Requests, Upsert(r) PROVE TidyInv'
  <2>1. TidyTask(draft[r]) /\ rows' = Put(rows, draft[r])
    BY <1>6 DEF Upsert, TidyInv, Tidied
  <2>2. Rest
    BY <1>6, <2>1 DEF Upsert, Settle, Put, TidyInv
  <2>3. \A s \in Requests : Tidied(s)'
    BY <1>6 DEF Upsert, Settle, TypeOK, TidyInv, Tidied
  <2> QED  BY <2>2, <2>3 DEF TidyInv
<1>7. ASSUME NEW r \in Requests, Fault(r) PROVE TidyInv'
  BY <1>7 DEF Fault, Settle, TypeOK, TidyInv, Tidied
<1>8. CASE Crash
  BY <1>8 DEF Crash, InFlight, TypeOK, TidyInv, Tidied
<1>9. CASE UNCHANGED vars
  BY <1>9 DEF vars, TidyInv, Tidied
<1> QED  BY <1>1, <1>2, <1>3, <1>4, <1>5, <1>6, <1>7, <1>8, <1>9 DEF Next, Step

(* TidyInv holds of every reachable state.                                  *)
THEOREM TidyInductive == ASSUME TidyCallers PROVE Spec => []TidyInv
<1>1. Init => TidyInv
  BY DEF Init, TidyInv, Tidied, TidyCallers
<1>2. TypeOK /\ TidyInv /\ [Next]_vars => TidyInv'
  BY TidyStep
<1> QED  BY <1>1, <1>2, TypeCorrect, PTL DEF Spec

(* However the requests of tidy callers are pipelined, and whatever fails   *)
(* or crashes, no row ever has a checklist id or a dependency twice.        *)
THEOREM ListsAlwaysUnique == ASSUME TidyCallers PROVE Spec => []ListsStayUnique
<1>1. TidyInv => ListsStayUnique
  BY DEF TidyInv, TidyTask, ListsStayUnique, IsInjective
<1> QED  BY <1>1, TidyInductive, PTL

(* A caller who is told of an error may take it that nothing was stored, by *)
(* this request: only a subject/update of a row that could not be decoded   *)
(* writes before it fails.                                                  *)
THEOREM ErrorsHaveNoEffect == ASSUME TidyCallers PROVE Spec => ErrorMeansNoEffect
<1>1. ASSUME TypeOK, TidyInv, [Next]_vars, NEW r \in Requests,
             reply'[r] # reply[r], reply'[r].kind = "error"
      PROVE  rows' = rows \/ (call[r].verb = "subject_update" /\ ~ Decodable(base[r]))
  <2>1. ASSUME NEW q \in Requests, NEW c \in Commands, Receive(q, c) PROVE rows' = rows
    BY <2>1 DEF Receive
  <2>2. ASSUME NEW q \in Requests,
               \/ Allocate(q) \/ CutScan(q) \/ Fetch(q) \/ Miss(q) \/ Get(q)
               \/ Publish(q) \/ Answer(q) \/ Fault(q)
        PROVE  rows' = rows
    BY <2>2 DEF Allocate, CutScan, Allot, Fetch, Miss, Get, Publish, Answer, Fault
  <2>3. ASSUME NEW q \in Requests, DeleteRow(q) PROVE rows' = rows
    <3>1. q = r
      BY <1>1, <2>3 DEF DeleteRow, Settle, TidyInv
    <3> QED  BY <1>1, <2>3, <3>1 DEF DeleteRow, Settle, Deleted, TidyInv
  <2>4. ASSUME NEW q \in Requests, Upsert(q)
        PROVE  call[r].verb = "subject_update" /\ ~ Decodable(base[r])
    <3>1. q = r
      BY <1>1, <2>4 DEF Upsert, Settle, TidyInv
    <3>2. ~ (reply' = [reply EXCEPT ![r] = Subject(draft[r])])
      BY <1>1 DEF Subject, TidyInv
    <3>3. pc[r] = "write" /\ call[r].verb = "subject_update" /\ ~ Decodable(draft[r])
      BY <2>4, <3>1, <3>2 DEF Upsert, Settle
    <3> QED  BY <1>1, <3>3 DEF TidyInv, Tidied
  <2>5. ASSUME Crash \/ UNCHANGED vars PROVE rows' = rows
    BY <2>5 DEF Crash, vars
  <2> QED  BY <1>1, <2>1, <2>2, <2>3, <2>4, <2>5 DEF Next, Step
<1>2. ASSUME TypeOK, TidyInv, [Next]_vars
      PROVE  [\A r \in Requests :
                 reply'[r] # reply[r] /\ reply'[r].kind = "error" =>
                    \/ rows' = rows
                    \/ call[r].verb = "subject_update" /\ ~ Decodable(base[r])]_vars
  BY <1>1, <1>2
<1> QED  BY <1>2, TypeCorrect, TidyInductive, PTL DEF Spec, ErrorMeansNoEffect
=============================================================================
