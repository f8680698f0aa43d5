------------------------------ MODULE WatchHub -------------------------------
(***************************************************************************)
(* Watch subscriptions: the broadcast channel of change events, the task   *)
(* each subject/watch spawns to forward them as notifications, and the     *)
(* registry through which subject/unwatch finds that task to abort it.     *)
(*                                                                         *)
(* Events are numbered in the order they are broadcast (TaskStore models   *)
(* what they say).  Handlers and forwarders run in parallel; each takes    *)
(* the registry's or stdout's mutex for one step at a time.                *)
(***************************************************************************)
EXTENDS Integers, Sequences

CONSTANTS
    Requests,    \* the watch and unwatch requests of the behaviour
    Ids,         \* the JSON-RPC ids of watches: [kind, text]
    Capacity,    \* events the channel retains
    MaxEvents    \* bound of the model: events broadcast

ASSUME WatchHubAssumption ==
    /\ Capacity \in Nat \ {0}
    /\ MaxEvents \in Nat
    /\ \A id \in Ids : DOMAIN id = {"kind", "text"}

VARIABLES
    sent,       \* how many events have been broadcast
    pc,         \* where the handler of each request is
    call,       \* its parameters
    registry,   \* the forwarder registered under each key
    forwarder,  \* of each watch: none, live, aborted (told to end), ended
    cursor,     \* the last event the forwarder's receiver has consumed
    held,       \* the event it is about to write, 0 if none
    out,        \* the frames written for each request, in their order on stdout
    start,      \* history: the last event before the subscription
    skipped,    \* history: the events a lagging receiver never got
    seen        \* history: the watches received, and answered, before a request

handlers   == <<pc, call, registry, seen>>
forwarders == <<forwarder, cursor, held, skipped, start>>
vars       == <<sent, handlers, forwarders, out>>

\* The registry's key of a JSON-RPC id: numbers and strings alike by their text.
WatchKey(id) == id.text

Nothing  == [verb |-> "none"]
Watch    == [verb : {"watch"}, id : Ids]
Unwatch  == [verb : {"unwatch"}, watch_id : {WatchKey(id) : id \in Ids}]
Key(w)   == WatchKey(call[w].id)

Ack      == 0       \* the frame that answers a request; any other is an event

Received(q)  == pc[q] # "idle"
Answered(q)  == pc[q] = "done"
IsWatch(q)   == call[q].verb = "watch"
IsUnwatch(q) == call[q].verb = "unwatch"
Running(w)   == forwarder[w] \in {"live", "aborted"}

Init ==
    /\ sent = 0
    /\ pc = [q \in Requests |-> "idle"]
    /\ call = [q \in Requests |-> Nothing]
    /\ registry = [k \in {} |-> Nothing]
    /\ forwarder = [q \in Requests |-> "none"]
    /\ cursor = [q \in Requests |-> 0]
    /\ held = [q \in Requests |-> 0]
    /\ out = [q \in Requests |-> <<>>]
    /\ start = [q \in Requests |-> 0]
    /\ skipped = [q \in Requests |-> {}]
    /\ seen = [q \in Requests |-> [received |-> {}, answered |-> {}]]

-----------------------------------------------------------------------------
(* The handlers.                                                            *)

\* subject/update or a delete sends an event, whoever listens.
Broadcast ==
    /\ sent < MaxEvents
    /\ sent' = sent + 1
    /\ UNCHANGED <<handlers, forwarders, out>>

Receive(q, c) ==
    /\ pc[q] = "idle"
    /\ pc' = [pc EXCEPT ![q] = "start"]
    /\ call' = [call EXCEPT ![q] = c]
    /\ seen' = [seen EXCEPT ![q] = [received |-> {w \in Requests : IsWatch(w)},
                                    answered |-> {w \in Requests : IsWatch(w) /\ Answered(w)}]]
    /\ UNCHANGED <<sent, registry, forwarders, out>>

\* A watch subscribes and spawns its forwarder, which runs from now on.
Subscribe(w) ==
    /\ pc[w] = "start"
    /\ IsWatch(w)
    /\ pc' = [pc EXCEPT ![w] = "register"]
    /\ forwarder' = [forwarder EXCEPT ![w] = "live"]
    /\ cursor' = [cursor EXCEPT ![w] = sent]
    /\ start' = [start EXCEPT ![w] = sent]
    /\ UNCHANGED <<sent, call, registry, seen, held, skipped, out>>

\* What aborting the task registered under a key, if any, does.
AbortRegistered(key) ==
    forwarder' = [w \in Requests |->
                     IF key \in DOMAIN registry /\ registry[key] = w /\ forwarder[w] = "live"
                     THEN "aborted" ELSE forwarder[w]]

\* Mistake: a watch re-issued under the same key forgets the task before it.
Register_KeepsPrevious(w) ==
    /\ pc[w] = "register"
    /\ pc' = [pc EXCEPT ![w] = "answer"]
    /\ registry' = [k \in DOMAIN registry \cup {Key(w)} |-> IF k = Key(w) THEN w ELSE registry[k]]
    /\ UNCHANGED <<sent, call, seen, forwarders, out>>

\* The forwarder is registered, and the one it replaces is aborted.
Register(w) ==
    /\ pc[w] = "register"
    /\ pc' = [pc EXCEPT ![w] = "answer"]
    /\ registry' = [k \in DOMAIN registry \cup {Key(w)} |-> IF k = Key(w) THEN w ELSE registry[k]]
    /\ AbortRegistered(Key(w))
    /\ UNCHANGED <<sent, call, seen, cursor, held, start, skipped, out>>

\* Mistake: the task is forgotten but not aborted.
Unregister_KeepsRunning(u) ==
    /\ pc[u] = "start"
    /\ IsUnwatch(u)
    /\ pc' = [pc EXCEPT ![u] = "answer"]
    /\ registry' = [k \in DOMAIN registry \ {call[u].watch_id} |-> registry[k]]
    /\ UNCHANGED <<sent, call, seen, forwarders, out>>

\* Mistake: an unwatch of an unknown key is not answered.
Unregister_OnlyKnown(u) ==
    /\ pc[u] = "start"
    /\ IsUnwatch(u)
    /\ call[u].watch_id \in DOMAIN registry
    /\ pc' = [pc EXCEPT ![u] = "answer"]
    /\ registry' = [k \in DOMAIN registry \ {call[u].watch_id} |-> registry[k]]
    /\ AbortRegistered(call[u].watch_id)
    /\ UNCHANGED <<sent, call, seen, cursor, held, start, skipped, out>>

\* An unwatch; when the key is unknown nothing happens.
Unregister(u) ==
    /\ pc[u] = "start"
    /\ IsUnwatch(u)
    /\ pc' = [pc EXCEPT ![u] = "answer"]
    /\ registry' = [k \in DOMAIN registry \ {call[u].watch_id} |-> registry[k]]
    /\ AbortRegistered(call[u].watch_id)
    /\ UNCHANGED <<sent, call, seen, cursor, held, start, skipped, out>>

Answer(q) ==
    /\ pc[q] = "answer"
    /\ pc' = [pc EXCEPT ![q] = "done"]
    /\ out' = [out EXCEPT ![q] = Append(@, Ack)]
    /\ UNCHANGED <<sent, call, registry, seen, forwarders>>

-----------------------------------------------------------------------------
(* The forwarders.  Aborting a task stops it where it next waits; until     *)
(* then it may go on.                                                       *)

\* Mistake: the receiver does not advance.
Take_Peeks(w) ==
    /\ Running(w) /\ held[w] = 0
    /\ sent - cursor[w] \in 1 .. Capacity
    /\ held' = [held EXCEPT ![w] = cursor[w] + 1]
    /\ UNCHANGED <<sent, handlers, forwarder, cursor, start, skipped, out>>

\* Mistake: the bound of the channel's tail off by one.
Take_PastTail(w) ==
    /\ Running(w) /\ held[w] = 0
    /\ sent - cursor[w] \in 0 .. Capacity
    /\ cursor' = [cursor EXCEPT ![w] = @ + 1]
    /\ held' = [held EXCEPT ![w] = cursor[w] + 1]
    /\ UNCHANGED <<sent, handlers, forwarder, start, skipped, out>>

Take(w) ==
    /\ Running(w) /\ held[w] = 0
    /\ sent - cursor[w] \in 1 .. Capacity
    /\ cursor' = [cursor EXCEPT ![w] = @ + 1]
    /\ held' = [held EXCEPT ![w] = cursor[w] + 1]
    /\ UNCHANGED <<sent, handlers, forwarder, start, skipped, out>>

\* Mistake: a receiver that lags stays where it is.
Skip_Stays(w) ==
    /\ Running(w) /\ held[w] = 0
    /\ sent - cursor[w] > Capacity
    /\ UNCHANGED vars

\* The events beyond the channel's capacity are gone: the receiver reports
\* that it lags, which the stream filters out, and goes on with the oldest
\* event there is.
Skip(w) ==
    /\ Running(w) /\ held[w] = 0
    /\ sent - cursor[w] > Capacity
    /\ cursor' = [cursor EXCEPT ![w] = sent - Capacity]
    /\ skipped' = [skipped EXCEPT ![w] = @ \cup (cursor[w] + 1 .. sent - Capacity)]
    /\ UNCHANGED <<sent, handlers, forwarder, held, start, out>>

Notify(w) ==
    /\ Running(w) /\ held[w] # 0
    /\ out' = [out EXCEPT ![w] = Append(@, held[w])]
    /\ held' = [held EXCEPT ![w] = 0]
    /\ UNCHANGED <<sent, handlers, forwarder, cursor, start, skipped>>

\* An event in its hand is lost with the task.
End(w) ==
    /\ forwarder[w] = "aborted"
    /\ forwarder' = [forwarder EXCEPT ![w] = "ended"]
    /\ held' = [held EXCEPT ![w] = 0]
    /\ UNCHANGED <<sent, handlers, cursor, start, skipped, out>>

Handle(q)  == Subscribe(q) \/ Register(q) \/ Unregister(q) \/ Answer(q)
Forward(w) == Take(w) \/ Skip(w) \/ Notify(w)

Next ==
    \/ Broadcast
    \/ \E q \in Requests : \/ \E c \in Watch \cup Unwatch : Receive(q, c)
                           \/ Handle(q) \/ Forward(q) \/ End(q)

Spec == Init /\ [][Next]_vars

-----------------------------------------------------------------------------
(* Every variable has its type, a receiver is never ahead of the channel,   *)
(* and only handlers of a watch register anything.                          *)
TypeOK ==
    /\ sent \in Nat
    /\ pc \in [Requests -> {"idle", "start", "register", "answer", "done"}]
    /\ call \in [Requests -> Watch \cup Unwatch \cup {Nothing}]
    /\ \A q \in Requests : /\ Received(q) => call[q] # Nothing
                           /\ pc[q] = "register" => IsWatch(q)
    /\ forwarder \in [Requests -> {"none", "live", "aborted", "ended"}]
    /\ cursor \in [Requests -> 0 .. sent]
    /\ held \in [Requests -> 0 .. sent]
    /\ DOMAIN registry \subseteq {WatchKey(id) : id \in Ids}
    /\ \A k \in DOMAIN registry : registry[k] \in Requests

\* The events notified by a watch.
Delivered(w) == {out[w][k] : k \in DOMAIN out[w]} \ {Ack}

(* No forwarder leaks: one that has not been told to end can be reached by  *)
(* an unwatch, through the registry, or is about to be entered there.  Hence*)
(* there is one per key, however watches of one key are re-issued.          *)
ForwarderReachable ==
    \A w \in Requests :
        forwarder[w] = "live" =>
            \/ pc[w] = "register"
            \/ Key(w) \in DOMAIN registry /\ registry[Key(w)] = w

(* An unwatch works for a caller that waited for the watch's answer: by the *)
(* time it is answered the forwarder has been told to end.                  *)
UnwatchStops ==
    \A u, w \in Requests :
        /\ IsUnwatch(u) /\ pc[u] \in {"answer", "done"}
        /\ w \in seen[u].answered /\ Key(w) = call[u].watch_id
        => forwarder[w] \in {"aborted", "ended"}

(* A watch gets every event since its subscription once and in order, but   *)
(* for those it was too slow for.                                           *)
EachEventOnceInOrder ==
    \A w \in Requests :
        Running(w) =>
            /\ Delivered(w) = (start[w] + 1 .. cursor[w]) \ (skipped[w] \cup {held[w]})
            /\ \A j, k \in DOMAIN out[w] :
                  j < k /\ Ack \notin {out[w][j], out[w][k]} => out[w][j] < out[w][k]

-----------------------------------------------------------------------------
(* What comments say, and the code does otherwise.                          *)

(* "Subscribers more than this many events behind are dropped" (backend.rs):*)
(* a subscriber that lost an event gets none after it.                      *)
LaggardsDropped ==
    \A w \in Requests : \A n \in skipped[w], m \in Delivered(w) : m < n

(* "aborts and removes the matching task [...] instead of leaking" (main.rs):*)
(* once an unwatch and the watch received before it are both answered, the  *)
(* watch's forwarder has been told to end.                                  *)
UnwatchReleases ==
    \A u, w \in Requests :
        /\ IsUnwatch(u) /\ Answered(u) /\ Answered(w)
        /\ w \in seen[u].received /\ Key(w) = call[u].watch_id
        => forwarder[w] \in {"aborted", "ended"}
=============================================================================
