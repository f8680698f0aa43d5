-------------------------------- MODULE Plugin --------------------------------
(***************************************************************************)
(* The whole plugin: lines come in on stdin, each is routed to a handler   *)
(* that runs beside the others, and every handler and forwarder writes its *)
(* frames to the one stdout.  The store's handlers are TaskStore's, the    *)
(* watches WatchHub's; what joins them is the event of a change, which is  *)
(* TaskStore's to publish and WatchHub's to deliver.                       *)
(*                                                                         *)
(* The callers are part of the system: Script says what each request may   *)
(* be, After whose answers its caller waits for before it is sent.         *)
(***************************************************************************)
EXTENDS TaskStore, Routing

CONSTANTS
    Script,      \* the lines each request may be
    After,       \* the requests answered before each is sent
    Ids,         \* the JSON-RPC ids of watches
    Capacity,    \* events the broadcast channel retains
    MaxEvents    \* bound of the model: events broadcast

VARIABLES
    line,        \* the line of each request
    direct,      \* the handlers that touch neither the store nor the hub
    stdout,      \* the frames written, in their order
    open,        \* whether the process runs
    asked,       \* history: how many frames were written when a read was sent
    watchPc, watchCall, registry, seen,                     \* WatchHub's
    forwarder, cursor, held, skipped, start, out

hubVars    == <<watchPc, watchCall, registry, seen,
                forwarder, cursor, held, skipped, start, out>>
loopVars   == <<line, direct, open, asked>>
pluginVars == <<vars, hubVars, loopVars, stdout>>

Watches == INSTANCE WatchHub WITH
    sent <- Len(events), pc <- watchPc, call <- watchCall

NoLine == [method |-> "none"]

\* The frames: the answer of a request, and a notification of a watch.
Reply(r)        == [of |-> r, event |-> Watches!Ack]
Notice(w, n)    == [of |-> w, event |-> n]

PluginInit ==
    /\ Init
    /\ Watches!Init
    /\ line = [r \in Requests |-> NoLine]
    /\ direct = [r \in Requests |-> "none"]
    /\ stdout = <<>>
    /\ open = TRUE
    /\ asked = [r \in Requests |-> 0]

-----------------------------------------------------------------------------
(* A line comes in.                                                         *)

\* A line that is no request at all is skipped.
IsRequest(l) == "params" \in DOMAIN l

ForStore(l) == IsRequest(l) /\ LET verb == StoreVerb(l.method)
                               IN  verb # "none" /\ Complete(verb, l.params)

ForHub(l) ==
    /\ IsRequest(l)
    /\ \/ Route(l.method) = "watch"
       \/ Route(l.method) = "unwatch" /\ "watch_id" \in DOMAIN l.params

\* What the hub is asked; an unwatch without a watch_id has nothing to do.
HubCall(l) ==
    IF Route(l.method) = "watch" THEN [verb |-> "watch", id |-> l.id]
    ELSE [verb |-> "unwatch", watch_id |-> l.params["watch_id"]]

\* What the hub assumes, and that what the handlers make of the lines is what
\* the parts take.
ASSUME PluginAssumption ==
    /\ Capacity \in Nat \ {0}
    /\ MaxEvents \in Nat
    /\ \A id \in Ids : DOMAIN id = {"kind", "text"}
    /\ \A r \in Requests : \A l \in Script[r] :
          /\ ForStore(l) => Command(StoreVerb(l.method), l.params) \in Commands
          /\ ForHub(l) => HubCall(l) \in Watches!Watch \cup Watches!Unwatch

IsRead(l) == ForStore(l) /\ StoreVerb(l.method) \in Readers

Silent(l) == IsRequest(l) => Route(l.method) = "silent"

Answered(r) == \E k \in DOMAIN stdout : stdout[k] = Reply(r)

\* Anything but the store's and the hub's requests is answered by itself:
\* constants, queries, refusals and methods nobody has.
ReadLine(r, l) ==
    /\ open
    /\ line[r] = NoLine
    /\ \A s \in After[r] : Answered(s)
    /\ line' = [line EXCEPT ![r] = l]
    /\ asked' = [asked EXCEPT ![r] = IF IsRead(l) THEN Len(stdout) ELSE 0]
    /\ \/ /\ ForStore(l)
          /\ Receive(r, Command(StoreVerb(l.method), l.params))
          /\ UNCHANGED <<hubVars, direct>>
       \/ /\ ForHub(l)
          /\ UNCHANGED <<vars, direct>>
          /\ Watches!Receive(r, HubCall(l))
       \/ /\ ~ ForStore(l) /\ ~ ForHub(l)
          /\ direct' = [direct EXCEPT ![r] = IF Silent(l) THEN "done" ELSE "answer"]
          /\ UNCHANGED <<vars, hubVars>>
    /\ UNCHANGED <<stdout, open>>

-----------------------------------------------------------------------------
(* The handlers.  write_frame takes stdout's mutex for a whole frame.       *)

StoreStep(r) ==
    /\ open
    /\ UNCHANGED loopVars
    /\ \/ /\ Allocate(r) \/ Fetch(r) \/ Miss(r) \/ Get(r) \/ DeleteRow(r) \/ Upsert(r)
          /\ UNCHANGED <<hubVars, stdout>>
       \/ /\ Publish(r)
          /\ Watches!Broadcast
          /\ UNCHANGED stdout
       \/ /\ Answer(r)
          /\ stdout' = Append(stdout, Reply(r))
          /\ UNCHANGED hubVars

StoreFault(r) ==
    /\ open
    /\ Fault(r) \/ CutScan(r)
    /\ UNCHANGED <<hubVars, loopVars, stdout>>

HubStep(q) ==
    /\ open
    /\ UNCHANGED <<vars, loopVars>>
    /\ \/ /\ Watches!Subscribe(q) \/ Watches!Register(q) \/ Watches!Unregister(q)
          /\ UNCHANGED stdout
       \/ /\ Watches!Answer(q)
          /\ stdout' = Append(stdout, Reply(q))

DirectAnswer(r) ==
    /\ open
    /\ direct[r] = "answer"
    /\ direct' = [direct EXCEPT ![r] = "done"]
    /\ stdout' = Append(stdout, Reply(r))
    /\ UNCHANGED <<vars, hubVars, line, open, asked>>

-----------------------------------------------------------------------------
(* The forwarders, and the end.                                             *)

ForwardStep(w) ==
    /\ open
    /\ UNCHANGED <<vars, loopVars>>
    /\ \/ /\ Watches!Take(w) \/ Watches!Skip(w)
          /\ UNCHANGED stdout
       \/ /\ stdout' = Append(stdout, Notice(w, held[w]))
          /\ Watches!Notify(w)

EndStep(w) ==
    /\ open
    /\ UNCHANGED <<vars, loopVars, stdout>>
    /\ Watches!End(w)

\* At the end of stdin main returns, and whatever still runs is dropped.
Close ==
    /\ open
    /\ open' = FALSE
    /\ UNCHANGED <<vars, hubVars, line, direct, asked, stdout>>

Handle(r) == StoreStep(r) \/ HubStep(r) \/ DirectAnswer(r)

PluginNext ==
    \/ \E r \in Requests : \/ \E l \in Script[r] : ReadLine(r, l)
                           \/ Handle(r) \/ StoreFault(r)
                           \/ ForwardStep(r) \/ EndStep(r)
    \/ Close

\* The requests that may start a forwarder.
Watchers == {r \in Requests : \E l \in Script[r] : ForHub(l) /\ Route(l.method) = "watch"}

PluginSpec == PluginInit /\ [][PluginNext]_pluginVars

\* The runtime polls every task that can go on.
FairPluginSpec ==
    /\ PluginSpec
    /\ \A r \in Requests : WF_pluginVars(Handle(r))
    /\ \A w \in Watchers : WF_pluginVars(ForwardStep(w))

-----------------------------------------------------------------------------
(* What a client relies on.                                                 *)

(* Every request line is answered, whatever its method and parameters,      *)
(* unless it is a notification or the process ends: no line stays unanswered*)
(* (what is answered stays so, and each request is used once).              *)
EveryLineAnswered ==
    []<>(\A r \in Requests :
            line[r] # NoLine /\ ~ Silent(line[r]) => Answered(r) \/ ~ open)

\* The frames of watch w that notify a change of a task, among the last ones.
NoticesSince(w, key, k) ==
    {j \in k + 1 .. Len(stdout) :
        /\ stdout[j].of = w /\ stdout[j].event # Watches!Ack
        /\ events[stdout[j].event].id = key}

\* What client w knows of the task that its request g reads, when it keeps
\* the last notification that came in since it sent g, or else g's answer.
Mirror(w, g) ==
    LET notices == NoticesSince(w, RowKey(call[g]), asked[g])
    IN  IF notices = {} THEN reply[g] ELSE events[stdout[Max(notices)].event].change

\* Nothing is under way, and the watch has been told everything.
Settled(w) ==
    /\ \A r \in Requests : ~ InFlight(r)
    /\ forwarder[w] = "live" /\ skipped[w] = {}
    /\ held[w] = 0 /\ cursor[w] = Len(events)

\* The answer about a row that is not there, as an event has it.
Gone == {Error("not_found"), Deleted}

(* No request whose method the capabilities list is told method_not_found,  *)
(* or nothing at all: the dispatch reaches a handler before it falls        *)
(* through, whichever of the two dialects the method is listed under.       *)
AdvertisedServed ==
    \A r \in Requests :
        IsRequest(line[r]) /\ line[r].method \in Advertised \ {Marker} =>
            Route(line[r].method) \notin {"silent", "not_found"}

(* A client that watches, waits for the answer, and then reads a task knows *)
(* the task's state whenever things settle, however the events overtake the *)
(* answer on stdout: nothing is lost between the read and the subscription. *)
(* As LastEventCurrent it needs callers that wait for conflicting commands  *)
(* and change the task by the subject verbs only; and a statement that      *)
(* fails is answered as a missing row.  A read that is refused because the  *)
(* row does not decode tells the client nothing.                            *)
MirrorConverges ==
    \A w \in Watchers, g \in Requests :
        LET key == RowKey(call[g]) IN
        /\ Serialized /\ faults = 0 /\ Settled(w)
        /\ pc[g] = "done" /\ call[g].verb = "subject_get" /\ w \in After[g]
        /\ reply[g] # Error("internal")
        /\ \A r \in Requests :
              \/ pc[r] = "idle"
              \/ call[r].verb \in {"subject_update", "delete"} \cup Readers
              \/ ~ ChangesRow(call[r], key) /\ call[r].verb # "create"
        => \/ key \in DOMAIN rows /\ Mirror(w, g) = Subject(rows[key])
           \/ key \notin DOMAIN rows /\ Mirror(w, g) \in Gone

(* A watch gets every event since its subscription once and in order, but   *)
(* for those it was too slow for, whoever changes the tasks meanwhile.      *)
EachEventOnceInOrder == Watches!EachEventOnceInOrder

(* An event reaches every forwarder that was live when it was sent, unless  *)
(* the forwarder is told to end, was too slow for it, or the process ends:  *)
(* a lag does not end the subscription.                                     *)
EventsArrive ==
    []<>(\A w \in Watchers : \A n \in start[w] + 1 .. Len(events) :
            \/ \E k \in DOMAIN stdout : stdout[k] = Notice(w, n)
            \/ n \in skipped[w]
            \/ forwarder[w] # "live"
            \/ ~ open)
=============================================================================
