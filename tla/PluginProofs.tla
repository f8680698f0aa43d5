---------------------------- MODULE PluginProofs -----------------------------
(***************************************************************************)
(* The plugin is made of its parts: inside it the store's variables behave *)
(* as TaskStore and the watches' as WatchHub, whatever lines come in, so   *)
(* that what is proved of the parts holds of the whole.                    *)
(***************************************************************************)
EXTENDS Plugin, AckedTasksProofs

Hub == INSTANCE WatchHubProofs WITH
    sent <- Len(events), pc <- watchPc, call <- watchCall

(* Every advertised method of either dialect has a handler: the list of the *)
(* capabilities and the chain of the dispatch agree.                        *)
LEMMA AdvertisedHasHandler ==
    \A m \in Advertised \ {Marker} : Route(m) \notin {"silent", "not_found"}
<1> DEFINE Methods == Advertised \ {Marker}
<1> DEFINE Shared == {"delete", "watch", "unwatch"}
<1>1. \A m \in Methods :
         \/ m.kind = "task" /\ m.verb \in TaskMethods
         \/ m.kind = "subject" /\ m.verb \in SubjectMethods
         \/ m.kind = "health" /\ m = Method("health", "check")
  <2> SUFFICES ASSUME NEW m \in Methods
               PROVE  \/ m.kind = "task" /\ m.verb \in TaskMethods
                      \/ m.kind = "subject" /\ m.verb \in SubjectMethods
                      \/ m.kind = "health" /\ m = Method("health", "check")
    OBVIOUS
  <2>1. \/ \E v \in TaskMethods : m = Method("task", v)
        \/ \E v \in SubjectMethods : m = Method("subject", v)
        \/ m = Method("health", "check")
    BY DEF Advertised
  <2>2. \A k, v : Method(k, v).kind = k /\ Method(k, v).verb = v
    BY DEF Method
  <2> QED  BY <2>1, <2>2
<1>2. TaskMethods \subseteq Shared \cup TaskVerbs \cup StandardVerbs
  BY DEF TaskMethods, TaskVerbs, Queries, StandardVerbs, Verbs, Modifiers, Readers
<1>3. SubjectMethods \subseteq Shared \cup StandardVerbs
  BY DEF SubjectMethods, StandardVerbs
<1>4. \A m \in Methods : m.kind = "health" => m \in Lifecycle
  BY <1>1 DEF Lifecycle
<1>5. \A m \in Methods : m # Method("", "initialized")
  <2>1. Method("", "initialized").kind = ""
    BY DEF Method
  <2> QED  BY <1>1, <2>1
<1>6. "silent" \notin Shared /\ "not_found" \notin Shared
  OBVIOUS
<1> HIDE DEF Shared, Methods
<1>7. ASSUME NEW m \in Methods, m \notin Lifecycle
      PROVE  Route(m) \in Shared \cup {"task", "standard"}
  <2>1. m.kind \in {"task", "subject"}
    BY <1>1, <1>4, <1>7
  <2>2. CASE m.verb \in Shared
    BY <1>5, <1>7, <2>1, <2>2 DEF Route, Shared
  <2>3. CASE m.verb \notin Shared /\ m.kind = "task" /\ m.verb \in TaskVerbs
    BY <1>5, <1>7, <2>1, <2>3 DEF Route, Shared
  <2>4. CASE m.verb \notin Shared /\ ~ (m.kind = "task" /\ m.verb \in TaskVerbs)
    <3>1. m.verb \in StandardVerbs
      BY <1>1, <1>2, <1>3, <2>1, <2>4
    <3> QED  BY <1>5, <1>7, <2>1, <2>4, <3>1 DEF Route, Shared
  <2> QED  BY <2>2, <2>3, <2>4
<1>8. \A m \in Lifecycle : Route(m) = "lifecycle"
  BY DEF Route
<1> QED  BY <1>6, <1>7, <1>8 DEF Methods

(* So no line with one of them is refused or passed over, whatever lines    *)
(* the callers send.                                                        *)
THEOREM AdvertisedIsServed == PluginSpec => []AdvertisedServed
<1>1. AdvertisedServed
  BY AdvertisedHasHandler DEF AdvertisedServed
<1> QED  BY <1>1, PTL

-----------------------------------------------------------------------------
(* The store.                                                               *)

(* A step of the plugin is one of the store's, or leaves the store alone.   *)
LEMMA StoreSees ==
    ASSUME [PluginNext]_pluginVars
    PROVE  [Next]_vars
<1>1. ASSUME NEW r \in Requests, NEW l \in Script[r], ReadLine(r, l)
      PROVE  [Next]_vars
  <2>1. CASE ForStore(l) /\ Receive(r, Command(StoreVerb(l.method), l.params))
    <3>1. Command(StoreVerb(l.method), l.params) \in Commands
      BY <2>1, PluginAssumption
    <3> QED  BY <2>1, <3>1 DEF Next
  <2>2. CASE UNCHANGED vars
    BY <2>2
  <2> QED  BY <1>1, <2>1, <2>2 DEF ReadLine
<1>2. ASSUME NEW r \in Requests, StoreStep(r)
      PROVE  Next
  BY <1>2 DEF StoreStep, Next, Step
<1>3. ASSUME NEW r \in Requests, StoreFault(r)
      PROVE  Next
  BY <1>3 DEF StoreFault, Next
<1>4. ASSUME NEW r \in Requests, HubStep(r) \/ DirectAnswer(r) \/ ForwardStep(r) \/ EndStep(r)
      PROVE  UNCHANGED vars
  BY <1>4 DEF HubStep, DirectAnswer, ForwardStep, EndStep
<1>5. CASE Close \/ UNCHANGED pluginVars
  BY <1>5 DEF Close, pluginVars
<1> QED  BY <1>1, <1>2, <1>3, <1>4, <1>5 DEF PluginNext, Handle

(* The plugin implements the store under concurrent requests.               *)
THEOREM PluginImplementsStore == PluginSpec => Spec
<1>1. PluginInit => Init
  BY DEF PluginInit
<1> QED  BY <1>1, StoreSees, PTL DEF PluginSpec, Spec

(* Hence no handler of the plugin, whatever lines come in, overwrites what  *)
(* it has not read, if its callers wait for conflicting commands.           *)
THEOREM PluginUpdatesAreNotStale == PluginSpec => []NoStaleWrite
BY PluginImplementsStore, UpdatesAreNotStale, PTL

(* Clients of the plugin who wait for conflicting commands see AtomicTasks, *)
(* through the parsing, the routing and the watches beside.                 *)
THEOREM PluginIsAtomic ==
    Serialized /\ PluginSpec => ImplementsAtomicTasks
BY PluginImplementsStore, SerializedIsAtomic, PTL

(* To them the plugin keeps its word: what it has acknowledged is undone by *)
(* no handler that overlaps, no restart, and no failing statement but one   *)
(* that cuts the scan of a create's ids short, and its events end with the  *)
(* state of the task.                                                       *)
THEOREM PluginKeepsItsWord ==
    ASSUME TidyCallers
    PROVE  Serialized /\ PluginSpec
               => [](/\ AckedCreatesDistinct /\ AckedDeleteStaysDeleted
                     /\ AckedDependencyKept /\ LastEventCurrent)
BY PluginImplementsStore, CreatesAreDistinct, DeletedStaysDeleted, DependenciesAreKept,
   EventsAreCurrent, PTL

-----------------------------------------------------------------------------
(* The watches.                                                             *)

(* A step of the plugin is one of the hub's, or leaves the hub alone: the   *)
(* events are the store's, and broadcast in the order they are published.   *)
LEMMA HubSees ==
    ASSUME [PluginNext]_pluginVars
    PROVE  [Watches!Next]_(Watches!vars)
<1> USE DEF Watches!vars, Watches!handlers, Watches!forwarders
<1>1. ASSUME NEW r \in Requests, NEW l \in Script[r], ReadLine(r, l)
      PROVE  [Watches!Next]_(Watches!vars)
  <2>1. CASE ForHub(l) /\ Watches!Receive(r, HubCall(l))
    <3>1. HubCall(l) \in Watches!Watch \cup Watches!Unwatch
      BY <2>1, PluginAssumption
    <3> QED  BY <2>1, <3>1 DEF Watches!Next
  <2>2. CASE UNCHANGED <<events, hubVars>>
    BY <2>2 DEF hubVars
  <2>3. Receive(r, Command(StoreVerb(l.method), l.params)) => UNCHANGED events
    BY DEF Receive
  <2> QED  BY <1>1, <2>1, <2>2, <2>3 DEF ReadLine, vars
<1>2. ASSUME NEW r \in Requests, StoreStep(r)
      PROVE  [Watches!Next]_(Watches!vars)
  <2>1. CASE Watches!Broadcast
    BY <2>1 DEF Watches!Next
  <2>2. CASE UNCHANGED <<events, hubVars>>
    BY <2>2 DEF hubVars
  <2>3. \/ Watches!Broadcast
        \/ UNCHANGED <<events, hubVars>>
    BY <1>2 DEF StoreStep, Allocate, Allot, Fetch, Miss, Get, DeleteRow, Upsert, Answer
  <2> QED  BY <2>1, <2>2, <2>3
<1>3. ASSUME NEW r \in Requests, StoreFault(r)
      PROVE  UNCHANGED (Watches!vars)
  BY <1>3 DEF StoreFault, Fault, CutScan, Allot, hubVars
<1>4. ASSUME NEW r \in Requests, HubStep(r)
      PROVE  Watches!Next
  BY <1>4 DEF HubStep, Watches!Next, Watches!Handle
<1>5. ASSUME NEW r \in Requests, ForwardStep(r) \/ EndStep(r)
      PROVE  Watches!Next
  BY <1>5 DEF ForwardStep, EndStep, Watches!Next, Watches!Forward
<1>6. ASSUME NEW r \in Requests, DirectAnswer(r)
      PROVE  UNCHANGED (Watches!vars)
  BY <1>6 DEF DirectAnswer, vars, hubVars
<1>7. CASE Close \/ UNCHANGED pluginVars
  BY <1>7 DEF Close, pluginVars, vars, hubVars
<1> QED  BY <1>1, <1>2, <1>3, <1>4, <1>5, <1>6, <1>7 DEF PluginNext, Handle

(* The plugin implements the hub.                                           *)
THEOREM PluginImplementsHub == PluginSpec => Watches!Spec
<1>1. PluginInit => Watches!Init
  BY DEF PluginInit
<1> QED  BY <1>1, HubSees, PTL DEF PluginSpec, Watches!Spec

(* The hub of the proofs is the plugin's.                                   *)
LEMMA SameHub == Hub!Spec <=> Watches!Spec
<1>1. Hub!Init <=> Watches!Init
  BY DEF Hub!Init, Watches!Init, Hub!Nothing, Watches!Nothing
<1>2. [Hub!Next]_(Hub!vars) <=> [Watches!Next]_(Watches!vars)
  <2> USE DEF Hub!Watch, Hub!Unwatch, Hub!WatchKey, Watches!Watch, Watches!Unwatch,
              Watches!WatchKey, Hub!handlers, Watches!handlers, Hub!forwarders, Watches!forwarders,
              Hub!Running, Watches!Running, Hub!Key, Watches!Key, Hub!IsWatch, Watches!IsWatch,
              Hub!IsUnwatch, Watches!IsUnwatch, Hub!Answered, Watches!Answered, Hub!Ack, Watches!Ack,
              Hub!AbortRegistered, Watches!AbortRegistered
  <2>1. Hub!vars = Watches!vars /\ Hub!vars' = Watches!vars'
    BY DEF Hub!vars, Watches!vars
  <2>2. Hub!Broadcast <=> Watches!Broadcast
    BY DEF Hub!Broadcast, Watches!Broadcast
  <2>3. \A q \in Requests : /\ Hub!Subscribe(q) <=> Watches!Subscribe(q)
                            /\ Hub!Register(q) <=> Watches!Register(q)
                            /\ Hub!Unregister(q) <=> Watches!Unregister(q)
                            /\ Hub!Answer(q) <=> Watches!Answer(q)
    BY DEF Hub!Subscribe, Watches!Subscribe, Hub!Register, Watches!Register, Hub!Unregister,
           Watches!Unregister, Hub!Answer, Watches!Answer
  <2>4. \A q \in Requests : /\ Hub!Take(q) <=> Watches!Take(q)
                            /\ Hub!Skip(q) <=> Watches!Skip(q)
                            /\ Hub!Notify(q) <=> Watches!Notify(q)
                            /\ Hub!End(q) <=> Watches!End(q)
    BY DEF Hub!Take, Watches!Take, Hub!Skip, Watches!Skip, Hub!Notify, Watches!Notify,
           Hub!End, Watches!End
  <2>5. \A q \in Requests, c \in Watches!Watch \cup Watches!Unwatch :
           Hub!Receive(q, c) <=> Watches!Receive(q, c)
    BY DEF Hub!Receive, Watches!Receive
  <2> QED
    BY <2>1, <2>2, <2>3, <2>4, <2>5
       DEF Hub!Next, Watches!Next, Hub!Handle, Watches!Handle, Hub!Forward, Watches!Forward
<1> QED  BY <1>1, <1>2, PTL DEF Hub!Spec, Watches!Spec

(* Hence every watch of the plugin gets every event of the store since its  *)
(* subscription once and in order, but for those it was too slow for.       *)
THEOREM PluginEventsOnceInOrder == PluginSpec => []EachEventOnceInOrder
<1>1. Hub!Spec => []Hub!EachEventOnceInOrder
  BY PluginAssumption, Hub!EventsOnceInOrder
<1>2. Hub!EachEventOnceInOrder <=> EachEventOnceInOrder
  BY DEF EachEventOnceInOrder, Hub!EachEventOnceInOrder, Watches!EachEventOnceInOrder,
         Hub!Running, Watches!Running, Hub!Delivered, Watches!Delivered, Hub!Ack, Watches!Ack
<1> QED  BY <1>1, <1>2, SameHub, PluginImplementsHub, PTL

\* What the loop takes from the hub: a forwarder runs from its watch's
\* subscription on, and its books balance.
Ledgers ==
    /\ watchPc \in [Requests -> {"idle", "start", "register", "answer", "done"}]
    /\ DOMAIN forwarder = Requests
    /\ out \in [Requests -> Seq(Nat)]
    /\ start \in [Requests -> Nat] /\ cursor \in [Requests -> Nat] /\ held \in [Requests -> Nat]
    /\ \A w \in Requests :
          /\ watchPc[w] \in {"idle", "start"} => forwarder[w] = "none"
          /\ Watches!Running(w) =>
                /\ start[w] <= cursor[w] /\ cursor[w] <= Len(events)
                /\ held[w] # 0 => held[w] = cursor[w]
                /\ Watches!Delivered(w) =
                      (start[w] + 1 .. cursor[w]) \ (skipped[w] \cup {held[w]})

(* The books balance in the plugin, too.                                    *)
LEMMA LedgersHold == PluginSpec => []Ledgers
<1>1. Hub!Spec => [](Hub!IndInv /\ Hub!Booked)
  BY PluginAssumption, Hub!LedgersBalance
<1>2. Hub!IndInv /\ Hub!Booked => Ledgers
  <2> SUFFICES ASSUME Hub!IndInv, Hub!Booked PROVE Ledgers
    OBVIOUS
  <2>1. /\ Len(events) \in Nat
        /\ watchPc \in [Requests -> {"idle", "start", "register", "answer", "done"}]
        /\ DOMAIN forwarder = Requests
        /\ cursor \in [Requests -> 0 .. Len(events)] /\ held \in [Requests -> 0 .. Len(events)]
    BY DEF Hub!IndInv, Hub!TypeOK
  <2>2. out \in [Requests -> Seq(Nat)] /\ start \in [Requests -> Nat]
    BY DEF Hub!Booked, Hub!LedgerType
  <2>3. \A w \in Requests : watchPc[w] \in {"idle", "start"} => forwarder[w] = "none"
    BY DEF Hub!IndInv, Hub!Subscribed
  <2>4. ASSUME NEW w \in Requests, Watches!Running(w)
        PROVE  /\ start[w] <= cursor[w]
               /\ held[w] # 0 => held[w] = cursor[w]
               /\ Watches!Delivered(w) =
                     (start[w] + 1 .. cursor[w]) \ (skipped[w] \cup {held[w]})
    BY <2>4 DEF Hub!Booked, Hub!Ledger, Hub!Running, Watches!Running, Watches!Delivered, Hub!Told,
                Hub!Ack, Watches!Ack
  <2> QED  BY <2>1, <2>2, <2>3, <2>4 DEF Ledgers
<1> QED  BY <1>1, <1>2, SameHub, PluginImplementsHub, PTL

-----------------------------------------------------------------------------
(* The loop.                                                                *)

Frame == [of : Requests, event : Nat]

\* A request is one line, of the store's, the hub's or nobody's, it is sent
\* once those before it are answered, and answered when its handler is done.
LoopInv ==
    /\ stdout \in Seq(Frame)
    /\ DOMAIN line = Requests /\ DOMAIN direct = Requests
    /\ asked \in [Requests -> Nat]
    /\ \A r \in Requests :
          /\ asked[r] <= Len(stdout)
          /\ line[r] = NoLine =>
                pc[r] = "idle" /\ watchPc[r] = "idle" /\ direct[r] # "answer" /\ ~ Answered(r)
          /\ watchPc[r] # "idle" => pc[r] = "idle" /\ direct[r] # "answer"
          /\ Answered(r) /\ watchPc[r] # "idle" => watchPc[r] = "done"
          /\ pc[r] # "idle" => \A s \in After[r] : Answered(s)

(* A frame is written behind the others.                                    *)
LEMMA FrameWritten ==
    ASSUME stdout \in Seq(Frame), NEW f \in Frame, stdout' = Append(stdout, f)
    PROVE  \E n \in Nat :
              /\ n = Len(stdout) /\ Len(stdout') = n + 1
              /\ DOMAIN stdout = 1 .. n /\ DOMAIN stdout' = 1 .. n + 1
              /\ stdout'[n + 1] = f /\ \A k \in 1 .. n : stdout'[k] = stdout[k]
              /\ stdout' \in Seq(Frame)
OBVIOUS

\* What a step other than ReadLine may do to the loop: a request that was not
\* sent is not touched, and an answer is the last its handler does.
Proceeds ==
    /\ UNCHANGED <<line, asked>> /\ DOMAIN direct' = Requests
    /\ \A r \in Requests :
          /\ pc'[r] = "idle" <=> pc[r] = "idle"
          /\ watchPc'[r] = "idle" <=> watchPc[r] = "idle"
          /\ watchPc[r] = "done" => watchPc'[r] = "done"
          /\ direct'[r] = "answer" => direct[r] = "answer"
    /\ \/ stdout' = stdout
       \/ \E f \in Frame :
             /\ stdout' = Append(stdout, f)
             /\ f.event = Watches!Ack =>
                   /\ line[f.of] # NoLine
                   /\ watchPc[f.of] # "idle" => watchPc'[f.of] = "done"

(* The handlers and the forwarders proceed so.                              *)
LEMMA StepProceeds ==
    ASSUME TypeOK, Ledgers, LoopInv,
           \/ \E r \in Requests : Handle(r) \/ StoreFault(r) \/ ForwardStep(r) \/ EndStep(r)
           \/ Close \/ UNCHANGED pluginVars
    PROVE  Proceeds
<1>0. /\ DOMAIN pc = Requests /\ DOMAIN watchPc = Requests /\ DOMAIN direct = Requests
      /\ Watches!Ack = 0
  BY DEF TypeOK, Ledgers, LoopInv, Watches!Ack
<1>1. ASSUME NEW r \in Requests, StoreStep(r) PROVE Proceeds
  <2>1. /\ UNCHANGED <<line, asked, direct, watchPc>>
        /\ pc[r] # "idle" /\ pc' = [pc EXCEPT ![r] = pc'[r]] /\ pc'[r] # "idle"
    BY <1>0, <1>1
       DEF StoreStep, loopVars, hubVars, Allocate, Allot, Fetch, Miss, Get, DeleteRow, Upsert, Publish,
           Answer, Settle, Watches!Broadcast, Watches!handlers
  <2>2. stdout' = stdout \/ stdout' = Append(stdout, Reply(r))
    BY <1>1 DEF StoreStep
  <2>3. Reply(r) \in Frame /\ Reply(r).of = r /\ line[r] # NoLine /\ watchPc[r] = "idle"
    BY <1>0, <2>1 DEF Reply, Frame, LoopInv
  <2> QED  BY <1>0, <2>1, <2>2, <2>3 DEF Proceeds
<1>2. ASSUME NEW r \in Requests, StoreFault(r) PROVE Proceeds
  BY <1>0, <1>2 DEF StoreFault, Fault, CutScan, Allot, Settle, loopVars, hubVars, Proceeds
<1>3. ASSUME NEW r \in Requests, HubStep(r) PROVE Proceeds
  <2>1. /\ UNCHANGED <<line, asked, direct, pc>>
        /\ watchPc[r] \notin {"idle", "done"} /\ watchPc' = [watchPc EXCEPT ![r] = watchPc'[r]]
        /\ watchPc'[r] # "idle"
    BY <1>0, <1>3
       DEF HubStep, loopVars, vars, Watches!Subscribe, Watches!Register, Watches!Unregister,
           Watches!Answer
  <2>2. \/ stdout' = stdout
        \/ stdout' = Append(stdout, Reply(r)) /\ watchPc'[r] = "done"
    BY <1>0, <1>3 DEF HubStep, Watches!Answer
  <2>3. Reply(r) \in Frame /\ Reply(r).of = r /\ line[r] # NoLine
    BY <1>0, <2>1 DEF Reply, Frame, LoopInv
  <2> QED  BY <1>0, <2>1, <2>2, <2>3 DEF Proceeds
<1>4. ASSUME NEW r \in Requests, DirectAnswer(r) PROVE Proceeds
  <2>1. /\ UNCHANGED <<line, asked, pc, watchPc>>
        /\ direct[r] = "answer" /\ direct' = [direct EXCEPT ![r] = "done"]
        /\ stdout' = Append(stdout, Reply(r))
    BY <1>4 DEF DirectAnswer, vars, hubVars
  <2>2. Reply(r) \in Frame /\ Reply(r).of = r /\ line[r] # NoLine /\ watchPc[r] = "idle"
    BY <1>0, <2>1 DEF Reply, Frame, LoopInv
  <2> QED  BY <1>0, <2>1, <2>2 DEF Proceeds
<1>5. ASSUME NEW w \in Requests, ForwardStep(w) PROVE Proceeds
  <2>1. UNCHANGED <<line, asked, direct, pc, watchPc>>
    BY <1>5 DEF ForwardStep, vars, loopVars, Watches!Take, Watches!Skip, Watches!Notify,
                Watches!handlers
  <2>2. stdout' = stdout \/ (held[w] # 0 /\ stdout' = Append(stdout, Notice(w, held[w])))
    BY <1>5 DEF ForwardStep, Watches!Notify
  <2>3. Notice(w, held[w]) \in Frame /\ Notice(w, held[w]).event = held[w]
    BY DEF Notice, Frame, Ledgers
  <2> QED  BY <1>0, <2>1, <2>2, <2>3 DEF Proceeds
<1>6. ASSUME NEW w \in Requests, EndStep(w) PROVE Proceeds
  BY <1>0, <1>6 DEF EndStep, vars, loopVars, Watches!End, Watches!handlers, Proceeds
<1>7. ASSUME Close \/ UNCHANGED pluginVars PROVE Proceeds
  BY <1>0, <1>7 DEF Close, pluginVars, vars, hubVars, loopVars, Proceeds
<1> QED  BY <1>1, <1>2, <1>3, <1>4, <1>5, <1>6, <1>7 DEF Handle

(* What was answered stays answered, and only a frame of its own answers.   *)
LEMMA AnswersStay ==
    ASSUME LoopInv, Proceeds
    PROVE  /\ stdout' \in Seq(Frame) /\ Len(stdout) <= Len(stdout')
           /\ \A r : Answered(r) => Answered(r)'
           /\ \A r \in Requests : Answered(r)' =>
                 \/ Answered(r)
                 \/ line[r] # NoLine /\ (watchPc[r] # "idle" => watchPc'[r] = "done")
<1>1. CASE stdout' = stdout
  BY <1>1 DEF LoopInv, Answered
<1>2. CASE \E f \in Frame :
             /\ stdout' = Append(stdout, f)
             /\ f.event = Watches!Ack =>
                   /\ line[f.of] # NoLine
                   /\ watchPc[f.of] # "idle" => watchPc'[f.of] = "done"
  <2>1. PICK f \in Frame :
             /\ stdout' = Append(stdout, f)
             /\ f.event = Watches!Ack =>
                   /\ line[f.of] # NoLine
                   /\ watchPc[f.of] # "idle" => watchPc'[f.of] = "done"
    BY <1>2
  <2>2. PICK n \in Nat :
              /\ n = Len(stdout) /\ Len(stdout') = n + 1
              /\ DOMAIN stdout = 1 .. n /\ DOMAIN stdout' = 1 .. n + 1
              /\ stdout'[n + 1] = f /\ \A k \in 1 .. n : stdout'[k] = stdout[k]
              /\ stdout' \in Seq(Frame)
    BY <2>1, FrameWritten DEF LoopInv
  <2>3. \A r : Answered(r) => Answered(r)'
    BY <2>2 DEF Answered, Reply
  <2>4. ASSUME NEW r \in Requests, Answered(r)', ~ Answered(r)
        PROVE  line[r] # NoLine /\ (watchPc[r] # "idle" => watchPc'[r] = "done")
    <3>1. PICK k \in 1 .. n + 1 : stdout'[k] = Reply(r)
      BY <2>2, <2>4 DEF Answered, Reply
    <3>2. k = n + 1
      BY <2>2, <2>4, <3>1 DEF Answered
    <3>3. f.of = r /\ f.event = Watches!Ack
      BY <2>2, <3>1, <3>2 DEF Reply
    <3> QED  BY <2>1, <3>3
  <2> QED  BY <2>2, <2>3, <2>4
<1> QED  BY <1>1, <1>2 DEF Proceeds

(* The loop keeps its invariant.                                            *)
LEMMA LoopStep ==
    ASSUME TypeOK, Ledgers, LoopInv, [PluginNext]_pluginVars
    PROVE  LoopInv'
<1>1. ASSUME NEW r \in Requests, NEW l \in Script[r], ReadLine(r, l) PROVE LoopInv'
  <2>1. /\ line[r] = NoLine /\ \A s \in After[r] : Answered(s)
        /\ line' = [line EXCEPT ![r] = l] /\ stdout' = stdout
        /\ \/ asked' = [asked EXCEPT ![r] = Len(stdout)]
           \/ asked' = [asked EXCEPT ![r] = 0]
    BY <1>1 DEF ReadLine
  <2>2. \A q \in Requests \ {r} :
           pc'[q] = pc[q] /\ watchPc'[q] = watchPc[q] /\ direct'[q] = direct[q]
    BY <1>1 DEF ReadLine, Receive, Watches!Receive, TypeOK, Ledgers, LoopInv, vars, hubVars
  <2>3. /\ DOMAIN direct' = Requests
        /\ direct[r] # "answer" /\ pc[r] = "idle" /\ watchPc[r] = "idle" /\ ~ Answered(r)
    BY <1>1, <2>1 DEF ReadLine, LoopInv
  <2>4. \/ /\ pc'[r] # "idle" /\ watchPc'[r] = "idle" /\ direct'[r] # "answer"
           /\ line'[r] # NoLine
        \/ /\ watchPc'[r] # "idle" /\ pc'[r] = "idle" /\ direct'[r] # "answer"
           /\ line'[r] # NoLine
        \/ pc'[r] = "idle" /\ watchPc'[r] = "idle" /\ (line'[r] = NoLine => direct'[r] # "answer")
    <3>1. line'[r] = l
      BY <2>1 DEF LoopInv
    <3>2. ~ IsRequest(NoLine)
      BY DEF IsRequest, NoLine
    <3>3. CASE ForStore(l) /\ Receive(r, Command(StoreVerb(l.method), l.params))
               /\ UNCHANGED <<hubVars, direct>>
      <4>1. l # NoLine
        BY <3>2, <3>3 DEF ForStore
      <4> QED  BY <2>3, <3>1, <3>3, <4>1 DEF Receive, TypeOK, hubVars
    <3>4. CASE ForHub(l) /\ UNCHANGED <<vars, direct>> /\ Watches!Receive(r, HubCall(l))
      <4>1. l # NoLine
        BY <3>2, <3>4 DEF ForHub
      <4> QED  BY <2>3, <3>1, <3>4, <4>1 DEF Watches!Receive, Ledgers, vars
    <3>5. CASE /\ direct' = [direct EXCEPT ![r] = IF Silent(l) THEN "done" ELSE "answer"]
               /\ UNCHANGED <<vars, hubVars>>
      <4>1. l = NoLine => Silent(l)
        BY <3>2 DEF Silent
      <4> QED  BY <2>3, <3>1, <3>5, <4>1 DEF LoopInv, vars, hubVars
    <3> QED  BY <1>1, <3>3, <3>4, <3>5 DEF ReadLine
  <2>5. \A q : Answered(q)' <=> Answered(q)
    BY <2>1 DEF Answered, Reply
  <2>6. DOMAIN line' = Requests /\ asked' \in [Requests -> Nat] /\ stdout' \in Seq(Frame)
    BY <2>1 DEF LoopInv
  <2>7. ASSUME NEW q \in Requests, q # r
        PROVE  /\ asked'[q] <= Len(stdout')
               /\ line'[q] = NoLine =>
                     pc'[q] = "idle" /\ watchPc'[q] = "idle" /\ direct'[q] # "answer" /\ ~ Answered(q)'
               /\ watchPc'[q] # "idle" => pc'[q] = "idle" /\ direct'[q] # "answer"
               /\ Answered(q)' /\ watchPc'[q] # "idle" => watchPc'[q] = "done"
               /\ pc'[q] # "idle" => \A s \in After[q] : Answered(s)'
    BY <2>1, <2>2, <2>5, <2>7 DEF LoopInv
  <2>8. asked'[r] <= Len(stdout')
    BY <2>1 DEF LoopInv
  <2> QED  BY <2>1, <2>3, <2>4, <2>5, <2>6, <2>7, <2>8 DEF LoopInv
<1>2. ASSUME Proceeds PROVE LoopInv'
  <2>1. /\ stdout' \in Seq(Frame) /\ Len(stdout) <= Len(stdout')
        /\ \A r : Answered(r) => Answered(r)'
        /\ \A r \in Requests : Answered(r)' =>
              \/ Answered(r)
              \/ line[r] # NoLine /\ (watchPc[r] # "idle" => watchPc'[r] = "done")
    BY <1>2, AnswersStay
  <2>2. \A r \in Requests : asked'[r] <= Len(stdout')
    <3>1. Len(stdout) \in Nat /\ Len(stdout') \in Nat
      BY <2>1 DEF LoopInv
    <3> QED  BY <1>2, <2>1, <3>1 DEF Proceeds, LoopInv
  <2> QED  BY <1>2, <2>1, <2>2 DEF LoopInv, Proceeds
<1> QED  BY <1>1, <1>2, StepProceeds DEF PluginNext

\* The one stdout shows what each watch was told, in the same order.
FramesInv ==
    /\ \A w \in Requests : \A k \in DOMAIN stdout :
          stdout[k].of = w /\ stdout[k].event # Watches!Ack =>
              stdout[k].event \in Watches!Delivered(w)
    /\ \A w \in Requests : \A n \in Watches!Delivered(w) :
          \E k \in DOMAIN stdout : stdout[k] = Notice(w, n)
    /\ \A j, k \in DOMAIN stdout :
          /\ j < k /\ stdout[j].of = stdout[k].of
          /\ stdout[j].event # Watches!Ack /\ stdout[k].event # Watches!Ack
          => stdout[j].event < stdout[k].event

(* A watch to which a frame is added has been told its event.               *)
LEMMA DeliveredOf ==
    ASSUME Ledgers, NEW q \in Requests, NEW n \in Nat,
           out' = [out EXCEPT ![q] = Append(@, n)]
    PROVE  /\ \A w \in Requests \ {q} : Watches!Delivered(w)' = Watches!Delivered(w)
           /\ Watches!Delivered(q)' = (Watches!Delivered(q) \cup {n}) \ {Watches!Ack}
<1>1. out'[q] = Append(out[q], n) /\ out[q] \in Seq(Nat)
      /\ \A w \in Requests \ {q} : out'[w] = out[w]
  BY DEF Ledgers
<1>2. PICK m \in Nat : /\ DOMAIN out[q] = 1 .. m /\ DOMAIN out'[q] = 1 .. m + 1
                       /\ out'[q][m + 1] = n /\ \A k \in 1 .. m : out'[q][k] = out[q][k]
  <2>1. /\ Len(out[q]) \in Nat
        /\ DOMAIN out[q] = 1 .. Len(out[q]) /\ DOMAIN out'[q] = 1 .. Len(out[q]) + 1
        /\ out'[q][Len(out[q]) + 1] = n /\ \A k \in 1 .. Len(out[q]) : out'[q][k] = out[q][k]
    BY <1>1
  <2> QED  BY <2>1
<1>3. DOMAIN out'[q] = DOMAIN out[q] \cup {m + 1}
  BY <1>2
<1>4. {out'[q][k] : k \in DOMAIN out'[q]} = {out[q][k] : k \in DOMAIN out[q]} \cup {n}
  BY <1>2, <1>3
<1>5. Watches!Delivered(q)' = ({out[q][k] : k \in DOMAIN out[q]} \cup {n}) \ {Watches!Ack}
  BY <1>4 DEF Watches!Delivered
<1>6. Watches!Delivered(q)' = (Watches!Delivered(q) \cup {n}) \ {Watches!Ack}
  BY <1>5 DEF Watches!Delivered
<1>7. ASSUME NEW w \in Requests, w # q PROVE Watches!Delivered(w)' = Watches!Delivered(w)
  BY <1>1, <1>7 DEF Watches!Delivered
<1> QED  BY <1>6, <1>7

(* A frame written for q tells watch q its event, and no other watch.       *)
LEMMA FramesGrow ==
    ASSUME Ledgers, LoopInv, FramesInv, NEW f \in Frame, stdout' = Append(stdout, f),
           \A w \in Requests \ {f.of} : Watches!Delivered(w)' = Watches!Delivered(w),
           Watches!Delivered(f.of)' = (Watches!Delivered(f.of) \cup {f.event}) \ {Watches!Ack},
           f.event # Watches!Ack => \A n \in Watches!Delivered(f.of) : n < f.event
    PROVE  FramesInv'
<1>1. PICK n \in Nat :
          /\ n = Len(stdout) /\ Len(stdout') = n + 1
          /\ DOMAIN stdout = 1 .. n /\ DOMAIN stdout' = 1 .. n + 1
          /\ stdout'[n + 1] = f /\ \A k \in 1 .. n : stdout'[k] = stdout[k]
          /\ stdout' \in Seq(Frame)
  BY FrameWritten DEF LoopInv
<1>2. \A k \in 1 .. n + 1 : k \in 1 .. n \/ k = n + 1
  BY <1>1
<1>3. n + 1 \in 1 .. n + 1 /\ \A k \in 1 .. n : k \in 1 .. n + 1 /\ k < n + 1 /\ stdout[k] \in Frame
  BY <1>1 DEF LoopInv
<1>4. \A w \in Requests : Watches!Delivered(w) \subseteq Watches!Delivered(w)'
  <2>1. \A w \in Requests : Watches!Ack \notin Watches!Delivered(w)
    BY DEF Watches!Delivered
  <2> QED  BY <2>1
<1>5. ASSUME NEW w \in Requests, NEW k \in DOMAIN stdout',
             stdout'[k].of = w, stdout'[k].event # Watches!Ack
      PROVE  stdout'[k].event \in Watches!Delivered(w)'
  <2>1. CASE k \in 1 .. n
    <3>1. stdout'[k] = stdout[k]
      BY <1>1, <2>1
    <3> QED  BY <1>1, <1>4, <1>5, <2>1, <3>1 DEF FramesInv
  <2>2. CASE k = n + 1
    BY <1>1, <1>5, <2>2
  <2> QED  BY <1>1, <1>2, <2>1, <2>2
<1>6. ASSUME NEW w \in Requests, NEW m, m \in Watches!Delivered(w)'
      PROVE  \E k \in DOMAIN stdout' : stdout'[k] = Notice(w, m)
  <2>1. CASE m \in Watches!Delivered(w)
    <3>1. PICK k \in 1 .. n : stdout[k] = Notice(w, m)
      BY <1>1, <2>1 DEF FramesInv
    <3> QED  BY <1>1, <1>3, <3>1
  <2>2. CASE m \notin Watches!Delivered(w)
    <3>1. w = f.of /\ m = f.event
      BY <1>6, <2>2
    <3>2. f = Notice(w, m)
      BY <3>1 DEF Frame, Notice
    <3> QED  BY <1>1, <1>3, <3>2
  <2> QED  BY <2>1, <2>2
<1>7. ASSUME NEW j \in DOMAIN stdout', NEW k \in DOMAIN stdout',
             j < k, stdout'[j].of = stdout'[k].of,
             stdout'[j].event # Watches!Ack, stdout'[k].event # Watches!Ack
      PROVE  stdout'[j].event < stdout'[k].event
  <2>1. j \in 1 .. n /\ stdout'[j] = stdout[j]
    BY <1>1, <1>2, <1>7
  <2>2. CASE k \in 1 .. n
    BY <1>1, <1>7, <2>1, <2>2 DEF FramesInv
  <2>3. CASE k = n + 1
    <3>1. f.of \in Requests /\ stdout'[k] = f /\ stdout[j].of = f.of
      BY <1>1, <1>7, <2>1, <2>3 DEF Frame
    <3>2. stdout[j].event \in Watches!Delivered(f.of)
      BY <1>1, <1>7, <2>1, <3>1 DEF FramesInv
    <3> QED  BY <1>7, <2>1, <3>1, <3>2
  <2> QED  BY <1>1, <1>2, <2>2, <2>3
<1>8. \A w \in Requests : \A m \in Watches!Delivered(w)' :
          \E k \in DOMAIN stdout' : stdout'[k] = Notice(w, m)
  BY <1>6
<1>9. \A w \in Requests : \A k \in DOMAIN stdout' :
          stdout'[k].of = w /\ stdout'[k].event # Watches!Ack =>
              stdout'[k].event \in Watches!Delivered(w)'
  BY <1>5
<1> QED  BY <1>7, <1>8, <1>9 DEF FramesInv, Notice, Watches!Ack

(* Every step keeps stdout and the watches' books in agreement.             *)
LEMMA FramesStep ==
    ASSUME TypeOK, Ledgers, LoopInv, FramesInv, [PluginNext]_pluginVars
    PROVE  FramesInv'
<1>1. ASSUME UNCHANGED <<stdout, out>> PROVE FramesInv'
  BY <1>1 DEF FramesInv, Watches!Delivered
<1>2. ASSUME NEW r \in Requests, stdout' = Append(stdout, Reply(r)),
             out' = out \/ out' = [out EXCEPT ![r] = Append(@, Watches!Ack)]
      PROVE  FramesInv'
  <2>1. Reply(r) \in Frame /\ Reply(r).of = r /\ Reply(r).event = Watches!Ack /\ Watches!Ack \in Nat
    BY DEF Reply, Frame, Watches!Ack
  <2>2. \A w \in Requests : Watches!Ack \notin Watches!Delivered(w)
    BY DEF Watches!Delivered
  <2>3. \A w \in Requests : Watches!Delivered(w)' = Watches!Delivered(w)
    <3>1. CASE out' = out
      BY <3>1 DEF Watches!Delivered
    <3>2. CASE out' = [out EXCEPT ![r] = Append(@, Watches!Ack)]
      <4>1. /\ \A w \in Requests \ {r} : Watches!Delivered(w)' = Watches!Delivered(w)
            /\ Watches!Delivered(r)' = (Watches!Delivered(r) \cup {Watches!Ack}) \ {Watches!Ack}
        BY <2>1, <3>2, DeliveredOf
      <4> QED  BY <2>2, <4>1
    <3> QED  BY <1>2, <3>1, <3>2
  <2>4. Watches!Delivered(r)' = (Watches!Delivered(r) \cup {Reply(r).event}) \ {Watches!Ack}
    BY <2>1, <2>2, <2>3
  <2> QED  BY <1>2, <2>1, <2>3, <2>4, FramesGrow
<1>3. ASSUME NEW w \in Requests, Watches!Notify(w), stdout' = Append(stdout, Notice(w, held[w]))
      PROVE  FramesInv'
  <2>1. /\ Watches!Running(w) /\ held[w] # 0 /\ held[w] \in Nat
        /\ out' = [out EXCEPT ![w] = Append(@, held[w])]
    BY <1>3 DEF Watches!Notify, Ledgers
  <2>2. PICK f \in Frame : f = Notice(w, held[w]) /\ f.of = w /\ f.event = held[w]
    <3>1. Notice(w, held[w]) = [of |-> w, event |-> held[w]]
      BY DEF Notice
    <3>2. Notice(w, held[w]) \in Frame
      BY <2>1, <3>1 DEF Frame
    <3> QED  BY <3>1, <3>2
  <2>3. \A n \in Watches!Delivered(w) : n < held[w]
    <3>1. /\ held[w] = cursor[w] /\ cursor[w] \in Nat /\ start[w] \in Nat
          /\ Watches!Delivered(w) = (start[w] + 1 .. cursor[w]) \ (skipped[w] \cup {held[w]})
      BY <2>1 DEF Ledgers
    <3> QED  BY <3>1
  <2>4. /\ \A q \in Requests \ {w} : Watches!Delivered(q)' = Watches!Delivered(q)
        /\ Watches!Delivered(w)' = (Watches!Delivered(w) \cup {held[w]}) \ {Watches!Ack}
    BY <2>1, DeliveredOf
  <2> QED  BY <1>3, <2>2, <2>3, <2>4, FramesGrow
<1>4. ASSUME NEW r \in Requests, NEW l \in Script[r], ReadLine(r, l) PROVE FramesInv'
  BY <1>1, <1>4 DEF ReadLine, hubVars, Watches!Receive, Watches!forwarders
<1>5. ASSUME NEW r \in Requests, StoreStep(r) PROVE FramesInv'
  <2>1. out' = out /\ (stdout' = stdout \/ stdout' = Append(stdout, Reply(r)))
    BY <1>5 DEF StoreStep, hubVars, Watches!Broadcast
  <2> QED  BY <1>1, <1>2, <2>1
<1>6. ASSUME NEW r \in Requests, StoreFault(r) \/ EndStep(r) PROVE FramesInv'
  BY <1>1, <1>6 DEF StoreFault, EndStep, hubVars, Watches!End
<1>7. ASSUME NEW r \in Requests, HubStep(r) PROVE FramesInv'
  <2>1. \/ UNCHANGED <<stdout, out>>
        \/ /\ stdout' = Append(stdout, Reply(r))
           /\ out' = [out EXCEPT ![r] = Append(@, Watches!Ack)]
    BY <1>7 DEF HubStep, Watches!Subscribe, Watches!Register, Watches!Unregister, Watches!Answer
  <2> QED  BY <1>1, <1>2, <2>1
<1>8. ASSUME NEW r \in Requests, DirectAnswer(r) PROVE FramesInv'
  BY <1>2, <1>8 DEF DirectAnswer, hubVars
<1>9. ASSUME NEW w \in Requests, ForwardStep(w) PROVE FramesInv'
  BY <1>1, <1>3, <1>9 DEF ForwardStep, Watches!Take, Watches!Skip
<1>10. ASSUME Close \/ UNCHANGED pluginVars PROVE FramesInv'
  BY <1>1, <1>10 DEF Close, pluginVars, hubVars
<1> QED  BY <1>4, <1>5, <1>6, <1>7, <1>8, <1>9, <1>10 DEF PluginNext, Handle

-----------------------------------------------------------------------------
(* What a client knows that watches and then reads.                         *)

\* An answer to a read is what it would be now.
Reflects(answer, key) ==
    \/ key \in DOMAIN rows /\ Decodable(rows[key]) /\ answer = Subject(rows[key])
    \/ key \notin DOMAIN rows /\ answer = Error("not_found")

\* What the store's proofs know of the store.
StoreInv ==
    /\ IndInv /\ Prepared /\ TidyInv /\ AckInv /\ EventsInv
    /\ faults \in Nat

(* A quiet row's change is broadcast: an answer that reflects the row does  *)
(* so until the publisher of a change is on its way.                        *)
LEMMA AnswerReflects ==
    ASSUME Serialized, StoreInv,
           \/ \E q \in Requests : (\E c \in Commands : Receive(q, c)) \/ Step(q)
           \/ UNCHANGED vars,
           NEW key, Quiet(key), NEW answer,
           (\E r \in Requests : Publishing(r, key)) \/ Reflects(answer, key)
    PROVE  \/ \E r \in Requests : Publishing(r, key)'
           \/ Reflects(answer, key)'
           \/ \E r \in Requests : Publish(r) /\ RowKey(call[r]) = key
<1> DEFINE Goal == \/ \E r \in Requests : Publishing(r, key)'
                   \/ Reflects(answer, key)'
                   \/ \E r \in Requests : Publish(r) /\ RowKey(call[r]) = key
<1>0. TypeOK /\ IdleAsksNothing
  BY DEF StoreInv, IndInv, AckInv
<1>1. ASSUME \A r \in Requests : pc[r] = "publish" => pc'[r] = "publish" /\ call'[r] = call[r],
             Reflects(answer, key) => Reflects(answer, key)'
      PROVE  Goal
  BY <1>1 DEF Publishing
<1>2. rows' = rows /\ Reflects(answer, key) => Reflects(answer, key)'
  BY DEF Reflects
<1>3. ASSUME NEW q \in Requests, NEW c \in Commands, Receive(q, c) PROVE Goal
  BY <1>0, <1>1, <1>2, <1>3 DEF Receive, TypeOK
<1>4. ASSUME NEW q \in Requests, Allocate(q) \/ Fetch(q) \/ Miss(q) \/ Get(q) \/ Answer(q)
      PROVE  Goal
  <2>1. UNCHANGED <<rows, call>> /\ pc[q] # "publish" /\ pc' = [pc EXCEPT ![q] = pc'[q]]
    BY <1>0, <1>4 DEF Allocate, Allot, Fetch, Miss, Get, Answer, Settle, TypeOK
  <2> QED  BY <1>0, <1>1, <1>2, <2>1 DEF TypeOK
<1>5. ASSUME NEW q \in Requests, Publish(q) PROVE Goal
  <2>1. CASE RowKey(call[q]) = key
    BY <1>5, <2>1
  <2>2. CASE RowKey(call[q]) # key
    <3>1. ASSUME NEW r \in Requests, Publishing(r, key) PROVE Publishing(r, key)'
      BY <1>0, <1>5, <2>2, <3>1 DEF Publish, Publishing, TypeOK
    <3>2. Reflects(answer, key) => Reflects(answer, key)'
      BY <1>2, <1>5 DEF Publish
    <3> QED  BY <3>1, <3>2
  <2> QED  BY <2>1, <2>2
<1>6. ASSUME NEW q \in Requests, Upsert(q) \/ DeleteRow(q) PROVE Goal
  <2>1. PICK k : k = IF pc[q] = "write" THEN draft[q].id ELSE RowKey(call[q])
    OBVIOUS
  <2>2. /\ \A x : x # k => /\ x \in DOMAIN rows' <=> x \in DOMAIN rows
                           /\ x \in DOMAIN rows => rows'[x] = rows[x]
        /\ pc'[q] = "publish" => RowKey(call[q]) = k
        /\ pc'[q] # "publish" /\ Quiet(k) =>
              rows' = rows \/ (k \in DOMAIN rows /\ ~ Decodable(rows[k]))
    BY <1>0, <1>6, <2>1, WriterPublishes DEF StoreInv
  <2>3. /\ call' = call /\ pc[q] \in {"read", "write"}
        /\ \A r \in Requests : r # q => pc'[r] = pc[r]
    BY <1>0, <1>6, OthersStay DEF Upsert, DeleteRow, Step
  <2>4. CASE k # key
    <3>1. Reflects(answer, key) => Reflects(answer, key)'
      BY <2>2, <2>4 DEF Reflects
    <3> QED  BY <1>1, <2>3, <3>1
  <2>5. CASE k = key /\ pc'[q] = "publish"
    BY <2>2, <2>3, <2>5 DEF Publishing
  <2>6. CASE k = key /\ pc'[q] # "publish"
    <3>1. Reflects(answer, key) => Reflects(answer, key)'
      BY <1>2, <2>2, <2>6 DEF Reflects
    <3> QED  BY <1>1, <2>3, <3>1
  <2> QED  BY <2>4, <2>5, <2>6
<1>7. ASSUME UNCHANGED vars PROVE Goal
  <2>1. UNCHANGED <<rows, pc, call>>
    BY <1>7 DEF vars
  <2> QED  BY <1>1, <1>2, <2>1
<1>8. Goal
  <2> HIDE DEF Goal
  <2> QED  BY <1>3, <1>4, <1>5, <1>6, <1>7 DEF Step
<1> QED  BY <1>8

(* A read that is not refused answers with the row as it is.                *)
LEMMA ReadReflects ==
    ASSUME StoreInv, NEW g \in Requests, Step(g), call[g].verb = "subject_get",
           pc[g] \notin {"reply", "done"}, pc'[g] \in {"reply", "done"},
           NEW answer, answer = reply'[g], answer # Error("internal"),
           NEW key, key = RowKey(call[g])
    PROVE  Reflects(answer, key)'
<1>0. TypeOK /\ DOMAIN reply = Requests
  BY DEF StoreInv, IndInv, AckInv, IdleAsksNothing
<1>1. CASE Miss(g)
  BY <1>0, <1>1 DEF Miss, Settle, Rejects, Reflects
<1>2. CASE Get(g)
  BY <1>0, <1>2 DEF Get, Settle, Reflects
<1>3. ~ (Allocate(g) \/ Fetch(g) \/ DeleteRow(g) \/ Answer(g))
  BY DEF Allocate, Allot, Fetch, DeleteRow, Answer, Modifiers
<1>4. ~ Upsert(g)
  BY DEF Upsert, StoreInv, IndInv, Drafted, Modifiers
<1>5. ~ Publish(g)
  BY DEF Publish, StoreInv, EventsInv
<1> QED  BY <1>1, <1>2, <1>3, <1>4, <1>5 DEF Step

(* The frames that were written stay, and so does the place where a read    *)
(* was sent.                                                                *)
LEMMA FramesStay ==
    ASSUME TypeOK, Ledgers, LoopInv, [PluginNext]_pluginVars
    PROVE  /\ \A k \in 1 .. Len(stdout) : stdout'[k] = stdout[k]
           /\ \A r \in Requests : pc[r] # "idle" => asked'[r] = asked[r]
<1>1. ASSUME NEW r \in Requests, NEW l \in Script[r], ReadLine(r, l)
      PROVE  /\ stdout' = stdout
             /\ \A q \in Requests : pc[q] # "idle" => asked'[q] = asked[q]
  BY <1>1 DEF ReadLine, LoopInv
<1>2. ASSUME Proceeds
      PROVE  /\ \A k \in 1 .. Len(stdout) : stdout'[k] = stdout[k]
             /\ asked' = asked
  <2>1. CASE stdout' = stdout
    BY <1>2, <2>1 DEF Proceeds
  <2>2. CASE \E f \in Frame : stdout' = Append(stdout, f)
    BY <1>2, <2>2, FrameWritten DEF Proceeds, LoopInv
  <2> QED  BY <1>2, <2>1, <2>2 DEF Proceeds
<1> QED  BY <1>1, <1>2, StepProceeds DEF PluginNext

(* Only its own handler starts a watch's forwarder.                         *)
LEMMA LiveBefore ==
    ASSUME Ledgers, [PluginNext]_pluginVars,
           NEW w \in Requests, watchPc[w] # "start", forwarder'[w] = "live"
    PROVE  forwarder[w] = "live" /\ start'[w] = start[w]
<1>1. ASSUME UNCHANGED <<forwarder, start>> PROVE forwarder[w] = "live" /\ start'[w] = start[w]
  BY <1>1
<1>2. ASSUME NEW r \in Requests, HubStep(r)
      PROVE  forwarder[w] = "live" /\ start'[w] = start[w]
  <2>1. CASE Watches!Subscribe(r)
    BY <2>1 DEF Watches!Subscribe, Ledgers
  <2>2. CASE Watches!Register(r) \/ Watches!Unregister(r)
    BY <2>2 DEF Watches!Register, Watches!Unregister, Watches!AbortRegistered
  <2>3. CASE Watches!Answer(r)
    BY <2>3 DEF Watches!Answer, Watches!forwarders
  <2> QED  BY <1>2, <2>1, <2>2, <2>3 DEF HubStep
<1>3. ASSUME NEW r \in Requests, NEW l \in Script[r], ReadLine(r, l)
      PROVE  UNCHANGED <<forwarder, start>>
  BY <1>3 DEF ReadLine, hubVars, Watches!Receive, Watches!forwarders
<1>4. ASSUME NEW r \in Requests, StoreStep(r) PROVE UNCHANGED <<forwarder, start>>
  BY <1>4 DEF StoreStep, hubVars, Watches!Broadcast, Watches!forwarders
<1>5. ASSUME NEW r \in Requests, StoreFault(r) \/ DirectAnswer(r)
      PROVE  UNCHANGED <<forwarder, start>>
  BY <1>5 DEF StoreFault, DirectAnswer, hubVars
<1>6. ASSUME NEW r \in Requests, ForwardStep(r) PROVE UNCHANGED <<forwarder, start>>
  BY <1>6 DEF ForwardStep, Watches!Take, Watches!Skip, Watches!Notify
<1>7. ASSUME NEW r \in Requests, EndStep(r)
      PROVE  forwarder[w] = "live" /\ start'[w] = start[w]
  BY <1>7 DEF EndStep, Watches!End, Ledgers
<1>8. ASSUME Close \/ UNCHANGED pluginVars PROVE UNCHANGED <<forwarder, start>>
  BY <1>8 DEF Close, pluginVars, hubVars
<1> QED  BY <1>1, <1>2, <1>3, <1>4, <1>5, <1>6, <1>7, <1>8 DEF PluginNext, Handle

\* Client w reads with g a task that is changed by the subject verbs only,
\* and is told its state.
Following(w, g) ==
    /\ faults = 0
    /\ w \in After[g] /\ forwarder[w] = "live"
    /\ pc[g] \in {"reply", "done"} /\ call[g].verb = "subject_get"
    /\ reply[g] # Error("internal")
    /\ Quiet(RowKey(call[g]))

\* An event of watch w about the task that g reads was not yet written when g
\* was sent.
Newer(w, g) ==
    \E n \in start[w] + 1 .. Len(events) :
        /\ events[n].id = RowKey(call[g])
        /\ \A k \in 1 .. asked[g] : stdout[k] # Notice(w, n)

\* Such a client need not be told more than it was, or will be by the watch.
MirrorInv ==
    \A w, g \in Requests :
        Following(w, g) =>
            \/ Newer(w, g)
            \/ \E r \in Requests : Publishing(r, RowKey(call[g]))
            \/ Reflects(reply[g], RowKey(call[g]))


(* While the store takes its steps undisturbed, what it publishes is        *)
(* broadcast to the watches, and nothing is written.                        *)
LEMMA StoreProceeds ==
    ASSUME TypeOK, faults' = faults, faults \in Nat, [PluginNext]_pluginVars
    PROVE  \/ \E q \in Requests : (\E c \in Commands : Receive(q, c)) \/ Step(q)
           \/ UNCHANGED vars
<1>1. ASSUME NEW r \in Requests, NEW l \in Script[r], ReadLine(r, l)
      PROVE  (\E q \in Requests : \E c \in Commands : Receive(q, c)) \/ UNCHANGED vars
  BY <1>1, PluginAssumption DEF ReadLine
<1>2. ASSUME NEW r \in Requests, StoreStep(r) PROVE Step(r)
  BY <1>2 DEF StoreStep, Step
<1>3. ASSUME NEW r \in Requests PROVE ~ StoreFault(r)
  BY DEF StoreFault, Fault, CutScan
<1>4. ASSUME NEW r \in Requests, HubStep(r) \/ DirectAnswer(r) \/ ForwardStep(r) \/ EndStep(r)
      PROVE  UNCHANGED vars
  BY <1>4 DEF HubStep, DirectAnswer, ForwardStep, EndStep
<1>5. CASE Close \/ UNCHANGED pluginVars
  BY <1>5 DEF Close, pluginVars
<1> QED  BY <1>1, <1>2, <1>3, <1>4, <1>5 DEF PluginNext, Handle

(* Every step keeps the client told.                                        *)
LEMMA MirrorStep ==
    ASSUME Serialized, StoreInv, Ledgers, LoopInv, FramesInv, MirrorInv,
           [PluginNext]_pluginVars
    PROVE  MirrorInv'
<1> SUFFICES ASSUME NEW w \in Requests, NEW g \in Requests, Following(w, g)',
                    NEW key, key = RowKey(call'[g]), NEW answer, answer = reply'[g]
             PROVE  \/ Newer(w, g)'
                    \/ \E r \in Requests : Publishing(r, key)'
                    \/ Reflects(answer, key)'
  BY DEF MirrorInv
<1>0. /\ TypeOK /\ IdleAsksNothing /\ faults \in Nat /\ events \in Seq(Event)
  BY DEF StoreInv, IndInv, AckInv, EventsInv
<1>1. faults' = 0 /\ faults = 0
  <2>1. [Next]_vars
    BY StoreSees
  <2>2. faults' = faults \/ faults' = faults + 1
    BY <2>1 DEF Next, Step, Receive, Allocate, CutScan, Allot, Fetch, Miss, Get, DeleteRow, Upsert, Publish,
                Answer, Fault, Crash, vars
  <2> QED  BY <1>0, <2>2 DEF Following
<1>2. \/ \E q \in Requests : (\E c \in Commands : Receive(q, c)) \/ Step(q)
      \/ UNCHANGED vars
  BY <1>0, <1>1, StoreProceeds
<1>3. Quiet(key)
  <2>1. Quiet(key)' /\ [Next]_vars
    BY StoreSees DEF Following
  <2>2. ASSUME NEW r \in Requests, Unheard(r, key) PROVE Unheard(r, key)'
    <3>1. pc'[r] # "idle" /\ call'[r] = call[r]
      BY <1>0, <2>1, <2>2, AsksOnce DEF Unheard
    <3> QED  BY <2>2, <3>1 DEF Unheard, ChangesRow
  <2> QED  BY <2>1, <2>2 DEF Quiet
<1>4. CASE pc[g] \in {"reply", "done"}
  <2>1. call'[g] = call[g] /\ reply'[g] = reply[g]
    <3>1. ASSUME NEW q \in Requests, NEW c \in Commands, Receive(q, c)
          PROVE  call'[g] = call[g] /\ reply'[g] = reply[g]
      BY <1>0, <1>4, <3>1 DEF Receive, TypeOK
    <3>2. ASSUME Step(g) PROVE call'[g] = call[g] /\ reply'[g] = reply[g]
      BY <1>0, <1>4, <3>2
         DEF Step, Allocate, Allot, Fetch, Miss, Get, DeleteRow, Upsert, Publish, Answer
    <3>3. ASSUME NEW q \in Requests, Step(q), q # g
          PROVE  call'[g] = call[g] /\ reply'[g] = reply[g]
      BY <1>0, <3>3, OthersStay
    <3> QED  BY <1>2, <3>1, <3>2, <3>3 DEF vars
  <2>2. watchPc[w] # "start"
    BY <1>4 DEF Following, LoopInv
  <2>3. forwarder[w] = "live" /\ start'[w] = start[w]
    BY <2>2, LiveBefore DEF Following
  <2>4. /\ asked'[g] = asked[g] /\ asked[g] \in Nat /\ Len(stdout) \in Nat
        /\ asked[g] <= Len(stdout)
        /\ \A k \in 1 .. Len(stdout) : stdout'[k] = stdout[k]
    BY <1>0, <1>4, FramesStay DEF LoopInv
  <2>5. Following(w, g) /\ key = RowKey(call[g]) /\ answer = reply[g]
    BY <1>1, <1>3, <1>4, <2>1, <2>3 DEF Following
  <2>6. CASE Newer(w, g)
    <3>1. PICK n \in start[w] + 1 .. Len(events) :
             /\ events[n].id = key
             /\ \A k \in 1 .. asked[g] : stdout[k] # Notice(w, n)
      BY <2>5, <2>6 DEF Newer
    <3>2. events' = events \/ \E e : events' = Append(events, e)
      BY <1>2 DEF Step, Receive, Allocate, Allot, Fetch, Miss, Get, DeleteRow, Upsert, Publish, Answer, vars
    <3>3. n \in start[w] + 1 .. Len(events') /\ events'[n] = events[n]
      <4>1. start[w] \in Nat /\ n \in Nat
        BY <3>1 DEF Ledgers
      <4>2. /\ Len(events) \in Nat /\ Len(events') \in Nat /\ Len(events) <= Len(events')
            /\ \A k \in 1 .. Len(events) : events'[k] = events[k]
        BY <1>0, <3>2
      <4> QED  BY <3>1, <4>1, <4>2
    <3>4. \A k \in 1 .. asked[g] : stdout'[k] = stdout[k]
      BY <2>4
    <3> QED  BY <2>1, <2>3, <2>4, <2>5, <3>1, <3>3, <3>4 DEF Newer, Notice
  <2>7. CASE \E r \in Requests : Publish(r) /\ RowKey(call[r]) = key
    <3>1. PICK n \in Nat : n = Len(events) + 1 /\ Len(events') = n /\ events'[n].id = key
      BY <1>0, <2>7 DEF Publish
    <3>2. start[w] \in Nat /\ cursor[w] \in Nat /\ start[w] <= cursor[w] /\ cursor[w] < n
          /\ \A m \in Watches!Delivered(w) : m <= cursor[w]
      BY <1>0, <2>3, <3>1 DEF Ledgers, Watches!Running
    <3>3. ASSUME NEW k \in 1 .. asked[g] PROVE stdout'[k] # Notice(w, n)
      <4>1. k \in DOMAIN stdout /\ stdout'[k] = stdout[k]
        BY <2>4 DEF LoopInv
      <4>2. stdout[k] = Notice(w, n) => n \in Watches!Delivered(w)
        BY <3>1, <4>1 DEF FramesInv, Notice, Watches!Ack
      <4> QED  BY <3>1, <3>2, <4>1, <4>2
    <3>4. n \in start'[w] + 1 .. Len(events')
      BY <2>3, <3>1, <3>2
    <3> QED  BY <2>1, <2>4, <2>5, <3>1, <3>3, <3>4 DEF Newer, Notice
  <2>8. CASE (\E r \in Requests : Publishing(r, key)) \/ Reflects(answer, key)
    BY <1>2, <1>3, <2>7, <2>8, AnswerReflects
  <2> QED  BY <2>5, <2>6, <2>8 DEF MirrorInv
<1>5. CASE pc[g] \notin {"reply", "done"}
  <2>1. pc'[g] \in {"reply", "done"}
    BY DEF Following
  <2>2. Step(g)
    <3>1. ASSUME NEW q \in Requests, NEW c \in Commands, Receive(q, c)
          PROVE  pc'[g] = pc[g] \/ pc'[g] \in {"read", "write"}
      BY <1>0, <3>1 DEF Receive, TypeOK
    <3>2. ASSUME NEW q \in Requests, Step(q), q # g PROVE pc'[g] = pc[g]
      BY <1>0, <3>2, OthersStay
    <3> QED  BY <1>2, <1>5, <2>1, <3>1, <3>2 DEF vars
  <2>3. call' = call
    BY <2>2 DEF Step, Allocate, Allot, Fetch, Miss, Get, DeleteRow, Upsert, Publish, Answer
  <2>4. call[g].verb = "subject_get" /\ answer # Error("internal") /\ key = RowKey(call[g])
    BY <2>3 DEF Following, Error
  <2> QED  BY <1>5, <2>1, <2>2, <2>4, ReadReflects
<1> QED  BY <1>4, <1>5


(* When things have settled, a client that is told enough knows the task.   *)
LEMMA MirrorSettles ==
    ASSUME StoreInv, Ledgers, LoopInv, FramesInv, MirrorInv
    PROVE  MirrorConverges
<1> SUFFICES ASSUME NEW w \in Watchers, NEW g \in Requests, NEW key, key = RowKey(call[g]),
                    faults = 0, Settled(w),
                    pc[g] = "done", call[g].verb = "subject_get", w \in After[g],
                    reply[g] # Error("internal"),
                    \A r \in Requests :
                       \/ pc[r] = "idle"
                       \/ call[r].verb \in {"subject_update", "delete"} \cup Readers
                       \/ ~ ChangesRow(call[r], key) /\ call[r].verb # "create"
             PROVE  \/ key \in DOMAIN rows /\ Mirror(w, g) = Subject(rows[key])
                    \/ key \notin DOMAIN rows /\ Mirror(w, g) \in Gone
  BY DEF MirrorConverges
<1> DEFINE notices == NoticesSince(w, key, asked[g])
<1>1. w \in Requests /\ Quiet(key) /\ events \in Seq(Event)
      /\ Len(events) \in Nat /\ Len(stdout) \in Nat /\ asked[g] \in Nat
      /\ DOMAIN events = 1 .. Len(events) /\ DOMAIN stdout = 1 .. Len(stdout)
  BY DEF Watchers, Quiet, Unheard, ChangesRow, Readers, StoreInv, EventsInv, LoopInv
<1>2. \A r \in Requests : ~ Publishing(r, key)
  BY DEF Settled, InFlight, Publishing
<1>3. /\ start[w] \in Nat
      /\ Watches!Delivered(w) = start[w] + 1 .. Len(events)
  <2>1. /\ Watches!Delivered(w) = (start[w] + 1 .. Len(events)) \ {0}
        /\ start[w] \in Nat
    BY <1>1 DEF Ledgers, Settled, Watches!Running
  <2> QED  BY <1>1, <2>1
<1>4. /\ notices \subseteq Nat /\ \A k \in notices : k <= Len(stdout)
      /\ \A k : k \in notices <=>
            /\ k \in asked[g] + 1 .. Len(stdout)
            /\ stdout[k].of = w /\ stdout[k].event # Watches!Ack
            /\ events[stdout[k].event].id = key
  <2>1. \A k : k \in notices <=>
            /\ k \in asked[g] + 1 .. Len(stdout)
            /\ stdout[k].of = w /\ stdout[k].event # Watches!Ack
            /\ events[stdout[k].event].id = key
    BY DEF NoticesSince
  <2>2. \A k \in asked[g] + 1 .. Len(stdout) : k \in Nat /\ k <= Len(stdout)
    BY <1>1
  <2> HIDE DEF notices
  <2> QED  BY <2>1, <2>2
<1>5. Mirror(w, g) = IF notices = {} THEN reply[g]
                     ELSE events[stdout[Max(notices)].event].change
  BY DEF Mirror
<1> HIDE DEF notices
<1>6. CASE notices = {}
  <2>1. ~ Newer(w, g)
    <3> SUFFICES ASSUME NEW n \in start[w] + 1 .. Len(events), events[n].id = key,
                        \A k \in 1 .. asked[g] : stdout[k] # Notice(w, n)
                 PROVE  FALSE
      BY DEF Newer
    <3>1. PICK k \in DOMAIN stdout : stdout[k] = Notice(w, n)
      BY <1>1, <1>3 DEF FramesInv
    <3>2. k \in asked[g] + 1 .. Len(stdout)
      BY <1>1, <3>1
    <3>3. stdout[k].of = w /\ stdout[k].event = n /\ n # Watches!Ack
      BY <1>1, <1>3, <3>1 DEF Notice, Watches!Ack
    <3> QED  BY <1>4, <1>6, <3>2, <3>3
  <2>2. Reflects(reply[g], key)
    BY <1>1, <1>2, <2>1 DEF MirrorInv, Following, Settled
  <2> QED  BY <1>5, <1>6, <2>2 DEF Reflects, Gone
<1>7. CASE notices # {}
  <2>1. PICK m : m = Max(notices) /\ m \in notices /\ \A k \in notices : k <= m
    BY <1>1, <1>4, <1>7, BoundedMax
  <2>2. PICK n : n = stdout[m].event
    OBVIOUS
  <2>3. /\ m \in asked[g] + 1 .. Len(stdout) /\ m \in DOMAIN stdout
        /\ stdout[m].of = w /\ n # Watches!Ack /\ events[n].id = key
    BY <1>1, <1>4, <2>1, <2>2
  <2>4. n \in start[w] + 1 .. Len(events)
    BY <1>1, <1>3, <2>2, <2>3 DEF FramesInv
  <2>5. ASSUME NEW j \in DOMAIN events, j > n, events[j].id = key PROVE FALSE
    <3>1. j \in start[w] + 1 .. Len(events)
      BY <1>1, <1>3, <2>4, <2>5
    <3>2. PICK k \in DOMAIN stdout : stdout[k] = Notice(w, j)
      BY <1>1, <1>3, <3>1 DEF FramesInv
    <3>3. stdout[k].of = w /\ stdout[k].event = j /\ j # Watches!Ack
      BY <1>1, <1>3, <3>1, <3>2 DEF Notice, Watches!Ack
    <3>4. ~ (k < m)
      <4>1. k < m => j < n
        BY <2>2, <2>3, <3>3 DEF FramesInv
      <4> QED  BY <1>1, <1>3, <2>4, <2>5, <4>1
    <3>5. k # m
      BY <1>1, <1>3, <2>2, <2>4, <2>5, <3>3
    <3>6. k > m /\ k \in asked[g] + 1 .. Len(stdout)
      BY <1>1, <2>3, <3>4, <3>5
    <3>7. k \in notices
      BY <1>4, <2>5, <3>3, <3>6
    <3> QED  BY <1>1, <2>1, <2>3, <3>6, <3>7
  <2>6. n \in DOMAIN events
    BY <1>1, <1>3, <2>4
  <2>7. Current(key, events[n].change)
    BY <1>1, <1>2, <2>3, <2>5, <2>6 DEF StoreInv, EventsInv
  <2>8. Mirror(w, g) = events[n].change
    BY <1>5, <1>7, <2>1, <2>2
  <2> QED  BY <2>7, <2>8 DEF Current, Gone
<1> QED  BY <1>6, <1>7

(* A client that watches, waits for the answer and then reads a task knows  *)
(* its state whenever things settle, whatever overlaps on the way: nothing  *)
(* is lost between the read and the subscription.                           *)
THEOREM ClientsConverge ==
    ASSUME TidyCallers
    PROVE  PluginSpec => []MirrorConverges
<1>1. CASE Serialized
  <2>1. Init => Prepared
    BY DEF Init, Prepared, Ready
  <2>2. IndInv /\ Prepared /\ [PluginNext]_pluginVars => Prepared'
    BY PreparedStep, StoreSees
  <2>3. PluginInit => Init /\ LoopInv /\ FramesInv /\ MirrorInv
    <3> SUFFICES ASSUME PluginInit PROVE LoopInv /\ FramesInv /\ MirrorInv
      BY DEF PluginInit
    <3>1. LoopInv
      BY DEF PluginInit, Init, Watches!Init, LoopInv, Answered, Frame
    <3>2. FramesInv
      BY DEF PluginInit, Watches!Init, FramesInv, Watches!Delivered
    <3>3. MirrorInv
      BY DEF PluginInit, Init, MirrorInv, Following
    <3> QED  BY <3>1, <3>2, <3>3
  <2>4. TypeOK /\ Ledgers /\ LoopInv /\ FramesInv /\ [PluginNext]_pluginVars
        => LoopInv' /\ FramesInv'
    BY LoopStep, FramesStep
  <2>5. IndInv => TypeOK /\ faults \in Nat
    BY TaskStoreAssumption DEF IndInv, TypeOK
  <2>6. /\ IndInv /\ Prepared /\ TidyInv /\ AckInv /\ EventsInv
        /\ faults \in Nat
        => StoreInv
    BY DEF StoreInv
  <2>7. StoreInv /\ Ledgers /\ LoopInv /\ FramesInv /\ MirrorInv /\ [PluginNext]_pluginVars
        => MirrorInv'
    BY <1>1, MirrorStep
  <2>8. StoreInv /\ Ledgers /\ LoopInv /\ FramesInv /\ MirrorInv => MirrorConverges
    BY MirrorSettles
  <2>9. PluginSpec => [](AckInv /\ EventsInv)
    BY <1>1, PluginImplementsStore, AckInductive, HeardInductive, PTL
  <2> QED
    BY <2>1, <2>2, <2>3, <2>4, <2>5, <2>6, <2>7, <2>8, <2>9, PluginImplementsStore, Inductive,
       TidyInductive, LedgersHold, PTL
       DEF PluginSpec
<1>2. CASE ~ Serialized
  <2>1. MirrorConverges
    BY <1>2 DEF MirrorConverges
  <2> QED  BY <2>1, PTL
<1> QED  BY <1>1, <1>2

=============================================================================
