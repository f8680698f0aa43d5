--------------------------- MODULE WatchHubProofs ----------------------------
(***************************************************************************)
(* No forwarder of WatchHub leaks, an unwatch sent after the watch was     *)
(* answered stops it, and a watch is told every event once and in order:   *)
(* for any number of requests, keys and events and any capacity of the     *)
(* channel.                                                                *)
(***************************************************************************)
EXTENDS WatchHub, TLAPS

(* A watch's parameters hold an id, which has a key.                        *)
LEMMA WatchHasKey ==
    ASSUME TypeOK, NEW w \in Requests, IsWatch(w)
    PROVE  call[w] \in Watch /\ Key(w) \in {WatchKey(id) : id \in Ids}
<1>1. call[w] \in Watch
  BY DEF TypeOK, IsWatch, Unwatch, Nothing
<1> QED  BY <1>1 DEF Key, Watch

(* Whatever a step does, the variables keep their types.                    *)
LEMMA TypeStep ==
    ASSUME TypeOK, [Next]_vars
    PROVE  TypeOK'
<1> USE WatchHubAssumption DEF TypeOK, Received, IsWatch
<1>1. CASE Broadcast
  BY <1>1 DEF Broadcast, handlers, forwarders
<1>2. ASSUME NEW q \in Requests, NEW c \in Watch \cup Unwatch, Receive(q, c)
      PROVE  TypeOK'
  <2>1. c # Nothing
    BY DEF Watch, Unwatch, Nothing
  <2> QED  BY <1>2, <2>1 DEF Receive, forwarders
<1>3. ASSUME NEW q \in Requests, Subscribe(q)  PROVE TypeOK'
  BY <1>3 DEF Subscribe
<1>4. ASSUME NEW q \in Requests, Register(q)  PROVE TypeOK'
  BY <1>4, WatchHasKey DEF Register, AbortRegistered
<1>5. ASSUME NEW q \in Requests, Unregister(q)  PROVE TypeOK'
  BY <1>5 DEF Unregister, AbortRegistered
<1>6. ASSUME NEW q \in Requests, Answer(q)  PROVE TypeOK'
  BY <1>6 DEF Answer, forwarders
<1>7. ASSUME NEW q \in Requests, Take(q)  PROVE TypeOK'
  BY <1>7 DEF Take, handlers
<1>8. ASSUME NEW q \in Requests, Skip(q)  PROVE TypeOK'
  BY <1>8 DEF Skip, handlers
<1>9. ASSUME NEW q \in Requests, Notify(q)  PROVE TypeOK'
  BY <1>9 DEF Notify, handlers
<1>10. ASSUME NEW q \in Requests, End(q)  PROVE TypeOK'
  BY <1>10 DEF End, handlers
<1>11. CASE UNCHANGED vars
  BY <1>11 DEF vars, handlers, forwarders
<1> QED
  BY <1>1, <1>2, <1>3, <1>4, <1>5, <1>6, <1>7, <1>8, <1>9, <1>10, <1>11
     DEF Next, Handle, Forward

-----------------------------------------------------------------------------
(* The inductive invariant.                                                 *)

\* A forwarder is there exactly from the subscription of its watch on.
Subscribed ==
    \A w \in Requests :
        /\ pc[w] \in {"idle", "start"} => forwarder[w] = "none"
        /\ IsWatch(w) /\ pc[w] \in {"register", "answer", "done"} => forwarder[w] # "none"

\* What a request has seen answered were watches, and they stay answered.
SeenAnswered ==
    \A q \in Requests : \A w \in seen[q].answered :
        w \in Requests /\ IsWatch(w) /\ pc[w] = "done"

IndInv == TypeOK /\ Subscribed /\ SeenAnswered /\ ForwarderReachable /\ UnwatchStops

(* The initial states satisfy the invariant.                                *)
LEMMA InitInd == ASSUME Init PROVE IndInv
BY DEF Init, IndInv, TypeOK, Subscribed, SeenAnswered, ForwarderReachable, UnwatchStops,
       IsWatch, IsUnwatch, Nothing, Received

(* Only a handler's subscription starts a forwarder, and only its abort, by *)
(* another watch of its key or by an unwatch, stops one.                    *)
LEMMA StepInd ==
    ASSUME IndInv, [Next]_vars
    PROVE  IndInv'
<1> DEFINE Strong == Subscribed /\ SeenAnswered /\ ForwarderReachable /\ UnwatchStops
<1>0. TypeOK /\ Strong /\ TypeOK'
  BY TypeStep DEF IndInv
<1> USE DEF Subscribed, SeenAnswered, ForwarderReachable, UnwatchStops, IsWatch, IsUnwatch, Key
<1>1. CASE UNCHANGED <<handlers, forwarder>>
  BY <1>0, <1>1 DEF handlers, IndInv
<1>2. ASSUME NEW q \in Requests, NEW c \in Watch \cup Unwatch, Receive(q, c)
      PROVE  Strong'
  <2>1. /\ pc[q] = "idle" /\ pc'[q] = "start"
        /\ \A w \in Requests \ {q} : pc'[w] = pc[w] /\ call'[w] = call[w] /\ seen'[w] = seen[w]
        /\ \A w \in seen'[q].answered : w \in Requests \ {q} /\ IsWatch(w) /\ pc[w] = "done"
        /\ UNCHANGED <<registry, forwarder>>
    BY <1>0, <1>2 DEF Receive, forwarders, TypeOK, Answered
  <2>2. \A p \in Requests \ {q} : q \notin seen[p].answered
    BY <1>0, <2>1
  <2>3. Subscribed' /\ SeenAnswered'
    BY <1>0, <2>1, <2>2
  <2>4. ForwarderReachable'
    BY <1>0, <2>1
  <2>5. UnwatchStops'
    BY <1>0, <2>1, <2>2
  <2> QED  BY <2>3, <2>4, <2>5
<1>3. ASSUME NEW q \in Requests, Subscribe(q)
      PROVE  Strong'
  <2>1. /\ IsWatch(q) /\ pc[q] = "start" /\ pc'[q] = "register" /\ forwarder'[q] = "live"
        /\ \A w \in Requests \ {q} : pc'[w] = pc[w] /\ forwarder'[w] = forwarder[w]
        /\ UNCHANGED <<call, registry, seen>>
    BY <1>0, <1>3 DEF Subscribe, TypeOK
  <2> QED  BY <1>0, <2>1
<1>4. ASSUME NEW q \in Requests, Register(q)
      PROVE  Strong'
  <2>1. /\ IsWatch(q) /\ pc[q] = "register" /\ pc'[q] = "answer"
        /\ \A w \in Requests \ {q} : pc'[w] = pc[w]
        /\ UNCHANGED <<call, seen>>
        /\ Key(q) \in DOMAIN registry' /\ registry'[Key(q)] = q
        /\ \A k \in DOMAIN registry : k # Key(q) => k \in DOMAIN registry' /\ registry'[k] = registry[k]
    BY <1>0, <1>4 DEF Register, TypeOK
  <2>2. \A w \in Requests :
           \/ forwarder'[w] = forwarder[w] /\ ~ (Key(q) \in DOMAIN registry /\ registry[Key(q)] = w
                                                  /\ forwarder[w] = "live")
           \/ forwarder[w] = "live" /\ forwarder'[w] = "aborted"
    BY <1>4 DEF Register, AbortRegistered
  <2>3. Subscribed' /\ SeenAnswered'
    BY <1>0, <2>1, <2>2
  <2>4. ForwarderReachable'
    BY <1>0, <2>1, <2>2
  <2>5. UnwatchStops'
    BY <1>0, <2>1, <2>2
  <2> QED  BY <2>3, <2>4, <2>5
<1>5. ASSUME NEW q \in Requests, Unregister(q)
      PROVE  Strong'
  <2> DEFINE key == call[q].watch_id
  <2>1. /\ IsUnwatch(q) /\ pc[q] = "start" /\ pc'[q] = "answer"
        /\ \A w \in Requests \ {q} : pc'[w] = pc[w]
        /\ UNCHANGED <<call, seen>>
        /\ \A k \in DOMAIN registry : k # key => k \in DOMAIN registry' /\ registry'[k] = registry[k]
    BY <1>0, <1>5 DEF Unregister, TypeOK
  <2>2. \A w \in Requests :
           \/ forwarder'[w] = forwarder[w] /\ ~ (key \in DOMAIN registry /\ registry[key] = w
                                                  /\ forwarder[w] = "live")
           \/ forwarder[w] = "live" /\ forwarder'[w] = "aborted"
    BY <1>5 DEF Unregister, AbortRegistered
  <2>3. Subscribed' /\ SeenAnswered'
    BY <1>0, <2>1, <2>2
  <2>4. ForwarderReachable'
    BY <1>0, <2>1, <2>2
  <2>5. ASSUME NEW w \in Requests, w \in seen[q].answered, Key(w) = key
        PROVE  forwarder'[w] \in {"aborted", "ended"}
    <3>1. IsWatch(w) /\ pc[w] = "done"
      BY <1>0, <2>5
    <3>2. forwarder[w] # "none" /\ (forwarder[w] = "live" => key \in DOMAIN registry /\ registry[key] = w)
      BY <1>0, <2>5, <3>1
    <3> QED  BY <1>0, <2>2, <3>2 DEF TypeOK
  <2>6. UnwatchStops'
    BY <1>0, <2>1, <2>2, <2>5
  <2> QED  BY <2>3, <2>4, <2>6
<1>6. ASSUME NEW q \in Requests, Answer(q)
      PROVE  Strong'
  <2>1. /\ pc[q] = "answer" /\ pc'[q] = "done"
        /\ \A w \in Requests \ {q} : pc'[w] = pc[w]
        /\ UNCHANGED <<call, registry, seen, forwarder>>
    BY <1>0, <1>6 DEF Answer, forwarders, TypeOK
  <2> QED  BY <1>0, <2>1
<1>7. ASSUME NEW q \in Requests, End(q)
      PROVE  Strong'
  <2>1. /\ forwarder[q] = "aborted" /\ forwarder'[q] = "ended"
        /\ \A w \in Requests \ {q} : forwarder'[w] = forwarder[w]
        /\ UNCHANGED handlers
    BY <1>0, <1>7 DEF End, TypeOK
  <2> QED  BY <1>0, <2>1 DEF handlers
<1>8. CASE Broadcast \/ UNCHANGED vars
  BY <1>1, <1>8 DEF Broadcast, vars, forwarders
<1>9. ASSUME NEW q \in Requests, Forward(q)
      PROVE  IndInv'
  BY <1>1, <1>9 DEF Forward, Take, Skip, Notify
<1> QED
  BY <1>0, <1>2, <1>3, <1>4, <1>5, <1>6, <1>7, <1>8, <1>9 DEF IndInv, Next, Handle

(* The invariant holds in every reachable state.                            *)
THEOREM Inductive == Spec => []IndInv
BY InitInd, StepInd, PTL DEF Spec

(* The hub's variables keep their types, however many requests there are.   *)
THEOREM TypeCorrect == Spec => []TypeOK
BY Inductive, PTL DEF IndInv

(* No forwarder leaks: one that has not been told to end is in the registry *)
(* under its key, or its watch is about to enter it there.                  *)
THEOREM NoForwarderLeaks == Spec => []ForwarderReachable
BY Inductive, PTL DEF IndInv

(* An unwatch that follows the answer of a watch stops that watch.          *)
THEOREM AnsweredUnwatchStops == Spec => []UnwatchStops
BY Inductive, PTL DEF IndInv

-----------------------------------------------------------------------------
(* What a watch is told.                                                    *)

\* The events among the frames of a sequence, and that they ascend.
Told(frames)    == {frames[k] : k \in DOMAIN frames} \ {Ack}
Ascends(frames) == \A j, k \in DOMAIN frames :
                      j < k /\ Ack \notin {frames[j], frames[k]} => frames[j] < frames[k]

(* A frame that is no event, or an event above the ones before it, may be   *)
(* appended.                                                                *)
LEMMA AppendFrame ==
    ASSUME NEW frames \in Seq(Nat), NEW n \in Nat, Ascends(frames),
           n = Ack \/ \A m \in Told(frames) : m < n
    PROVE  /\ Append(frames, n) \in Seq(Nat)
           /\ Told(Append(frames, n)) = (Told(frames) \cup {n}) \ {Ack}
           /\ Ascends(Append(frames, n))
<1> DEFINE longer == Append(frames, n)
<1>1. /\ longer \in Seq(Nat)
      /\ DOMAIN frames = 1 .. Len(frames) /\ Len(frames) \in Nat
      /\ DOMAIN longer = 1 .. Len(frames) + 1
      /\ \A k \in DOMAIN frames : longer[k] = frames[k] /\ k < Len(frames) + 1
      /\ longer[Len(frames) + 1] = n
  OBVIOUS
<1>2. \A k \in DOMAIN longer : k \in DOMAIN frames \/ k = Len(frames) + 1
  BY <1>1
<1>3. DOMAIN frames \subseteq DOMAIN longer /\ Len(frames) + 1 \in DOMAIN longer
  BY <1>1
<1> HIDE DEF longer
<1>4. Told(longer) = (Told(frames) \cup {n}) \ {Ack}
  BY <1>1, <1>2, <1>3 DEF Told
<1>5. Ascends(longer)
  <2> SUFFICES ASSUME NEW j \in DOMAIN longer, NEW k \in DOMAIN longer,
                      j < k, Ack \notin {longer[j], longer[k]}
               PROVE  longer[j] < longer[k]
    BY DEF Ascends
  <2>1. j \in DOMAIN frames
    BY <1>1, <1>2
  <2>2. CASE k \in DOMAIN frames
    BY <1>1, <2>1, <2>2 DEF Ascends
  <2>3. CASE k = Len(frames) + 1
    BY <1>1, <2>1, <2>3 DEF Told
  <2> QED  BY <1>2, <2>2, <2>3
<1> QED  BY <1>1, <1>4, <1>5 DEF longer

LedgerType ==
    /\ out \in [Requests -> Seq(Nat)]
    /\ start \in [Requests -> Nat]
    /\ skipped \in [Requests -> SUBSET (Nat \ {0})]

\* Everything since the subscription was notified, skipped, or is in hand,
\* and what is in hand is the last event the receiver has consumed.
Ledger(w) ==
    /\ Ascends(out[w])
    /\ forwarder[w] = "none" =>
          Told(out[w]) = {} /\ held[w] = 0 /\ skipped[w] = {}
    /\ Running(w) =>
          /\ start[w] <= cursor[w]
          /\ held[w] # 0 => held[w] = cursor[w] /\ start[w] < held[w]
          /\ held[w] \notin skipped[w]
          /\ \A n \in skipped[w] : n <= cursor[w]
          /\ Told(out[w]) = (start[w] + 1 .. cursor[w]) \ (skipped[w] \cup {held[w]})

Booked == LedgerType /\ \A w \in Requests : Ledger(w)

(* At start every ledger is empty.                                          *)
LEMMA InitBooked == ASSUME Init PROVE Booked
BY DEF Init, Booked, LedgerType, Ledger, Running, Told, Ascends

(* The ledger of a watch does not depend on whether its forwarder was told  *)
(* to end, nor on anything of the other watches.                            *)
LEMMA LedgerStays ==
    ASSUME NEW w \in Requests, Ledger(w),
           out'[w] = out[w], cursor'[w] = cursor[w], held'[w] = held[w],
           start'[w] = start[w], skipped'[w] = skipped[w],
           forwarder'[w] = "none" => forwarder[w] = "none",
           Running(w)' => Running(w)
    PROVE  Ledger(w)'
BY DEF Ledger

(* An event is taken when the one before it was written or skipped, so      *)
(* events are written in the order they were broadcast.                     *)
LEMMA StepBooked ==
    ASSUME IndInv, Booked, [Next]_vars
    PROVE  Booked'
<1>0. TypeOK /\ Subscribed /\ LedgerType /\ \A w \in Requests : Ledger(w)
  BY DEF IndInv, Booked
<1> USE WatchHubAssumption
<1>1. CASE UNCHANGED <<forwarders, out>>
  <2>1. \A w \in Requests : Ledger(w)'
    BY <1>0, <1>1, LedgerStays DEF forwarders, Running
  <2> QED  BY <1>0, <1>1, <2>1 DEF Booked, LedgerType, forwarders
<1>2. ASSUME NEW q \in Requests, Subscribe(q)
      PROVE  Booked'
  <2>1. /\ forwarder[q] = "none" /\ forwarder'[q] = "live"
        /\ cursor'[q] = sent /\ start'[q] = sent /\ sent \in Nat
        /\ \A w \in Requests \ {q} : /\ forwarder'[w] = forwarder[w]
                                      /\ cursor'[w] = cursor[w] /\ start'[w] = start[w]
        /\ UNCHANGED <<out, held, skipped>>
        /\ start' \in [Requests -> Nat]
    BY <1>0, <1>2 DEF Subscribe, TypeOK, Subscribed, LedgerType
  <2>2. Ledger(q)'
    BY <1>0, <2>1 DEF Ledger
  <2>3. \A w \in Requests \ {q} : Ledger(w)'
    BY <1>0, <2>1, LedgerStays DEF Running
  <2> QED  BY <1>0, <2>1, <2>2, <2>3 DEF Booked, LedgerType
<1>3. ASSUME NEW q \in Requests, Register(q) \/ Unregister(q)
      PROVE  Booked'
  <2>1. /\ UNCHANGED <<out, cursor, held, start, skipped>>
        /\ \A w \in Requests : \/ forwarder'[w] = forwarder[w]
                               \/ forwarder[w] = "live" /\ forwarder'[w] = "aborted"
    BY <1>0, <1>3 DEF Register, Unregister, AbortRegistered
  <2>2. \A w \in Requests : Ledger(w)'
    BY <1>0, <2>1, LedgerStays DEF Running
  <2> QED  BY <1>0, <2>1, <2>2 DEF Booked, LedgerType
<1>4. ASSUME NEW q \in Requests, Answer(q)
      PROVE  Booked'
  <2>1. /\ out'[q] = Append(out[q], Ack)
        /\ \A w \in Requests \ {q} : out'[w] = out[w]
        /\ DOMAIN out' = Requests
        /\ UNCHANGED <<forwarder, cursor, held, start, skipped>>
    BY <1>0, <1>4 DEF Answer, LedgerType, forwarders
  <2>2. out[q] \in Seq(Nat) /\ Ack \in Nat /\ Ascends(out[q])
    BY <1>0 DEF LedgerType, Ledger, Ack
  <2>3. /\ out'[q] \in Seq(Nat) /\ Ascends(out'[q])
        /\ Told(out'[q]) = Told(out[q])
    <3>1. /\ Append(out[q], Ack) \in Seq(Nat)
          /\ Told(Append(out[q], Ack)) = (Told(out[q]) \cup {Ack}) \ {Ack}
          /\ Ascends(Append(out[q], Ack))
      BY <2>2, AppendFrame
    <3>2. (Told(out[q]) \cup {Ack}) \ {Ack} = Told(out[q])
      BY DEF Told
    <3> QED  BY <2>1, <3>1, <3>2
  <2>4. Ledger(q)'
    BY <1>0, <2>1, <2>3 DEF Ledger, Running
  <2>5. \A w \in Requests \ {q} : Ledger(w)'
    BY <1>0, <2>1, LedgerStays DEF Running
  <2>6. out' \in [Requests -> Seq(Nat)]
    <3>1. out' = [out EXCEPT ![q] = Append(@, Ack)]
      BY <1>4 DEF Answer
    <3> QED  BY <1>0, <2>1, <2>3, <3>1 DEF LedgerType
  <2> QED  BY <1>0, <2>1, <2>4, <2>5, <2>6 DEF Booked, LedgerType
<1>5. ASSUME NEW q \in Requests, Take(q)
      PROVE  Booked'
  <2>1. /\ Running(q) /\ held[q] = 0 /\ cursor[q] \in Nat
        /\ cursor'[q] = cursor[q] + 1 /\ held'[q] = cursor[q] + 1
        /\ \A w \in Requests \ {q} : cursor'[w] = cursor[w] /\ held'[w] = held[w]
        /\ UNCHANGED <<forwarder, out, start, skipped>>
    BY <1>0, <1>5 DEF Take, TypeOK
  <2>2. start[q] \in Nat /\ skipped[q] \subseteq Nat
    BY <1>0 DEF LedgerType
  <2>3. (start[q] + 1 .. cursor[q] + 1) \ (skipped[q] \cup {cursor[q] + 1})
            = (start[q] + 1 .. cursor[q]) \ (skipped[q] \cup {0})
    BY <2>1, <2>2
  <2>4. Ledger(q)'
    BY <1>0, <2>1, <2>2, <2>3 DEF Ledger, Running
  <2>5. \A w \in Requests \ {q} : Ledger(w)'
    BY <1>0, <2>1, LedgerStays DEF Running
  <2> QED  BY <1>0, <2>1, <2>4, <2>5 DEF Booked, LedgerType
<1>6. ASSUME NEW q \in Requests, Skip(q)
      PROVE  Booked'
  <2> DEFINE lost == cursor[q] + 1 .. sent - Capacity
  <2>1. /\ Running(q) /\ held[q] = 0 /\ cursor[q] \in Nat
        /\ sent - Capacity \in Nat /\ cursor[q] < sent - Capacity
        /\ cursor'[q] = sent - Capacity /\ skipped'[q] = skipped[q] \cup lost
        /\ \A w \in Requests \ {q} : cursor'[w] = cursor[w] /\ skipped'[w] = skipped[w]
        /\ UNCHANGED <<forwarder, out, start, held>>
    BY <1>0, <1>6 DEF Skip, TypeOK, LedgerType
  <2>2. start[q] \in Nat /\ skipped[q] \subseteq Nat \ {0} /\ lost \subseteq Nat \ {0}
    BY <1>0, <2>1 DEF LedgerType
  <2>3. skipped' \in [Requests -> SUBSET (Nat \ {0})]
    BY <1>0, <1>6, <2>1, <2>2 DEF Skip, LedgerType
  <2>4. start[q] <= cursor[q] /\ \A n \in skipped[q] : n <= cursor[q] /\ n # 0
    BY <1>0, <2>1 DEF Ledger
  <2>5. (start[q] + 1 .. sent - Capacity) \ (skipped[q] \cup lost \cup {0})
            = (start[q] + 1 .. cursor[q]) \ (skipped[q] \cup {0})
    BY <2>1, <2>2, <2>4
  <2>6. Ledger(q)'
    BY <1>0, <2>1, <2>2, <2>4, <2>5 DEF Ledger, Running
  <2>7. \A w \in Requests \ {q} : Ledger(w)'
    BY <1>0, <2>1, LedgerStays DEF Running
  <2> QED  BY <1>0, <2>1, <2>3, <2>6, <2>7 DEF Booked, LedgerType
<1>7. ASSUME NEW q \in Requests, Notify(q)
      PROVE  Booked'
  <2>1. /\ Running(q) /\ held[q] # 0 /\ held[q] \in Nat /\ cursor[q] \in Nat
        /\ out'[q] = Append(out[q], held[q]) /\ held'[q] = 0
        /\ \A w \in Requests \ {q} : out'[w] = out[w] /\ held'[w] = held[w]
        /\ UNCHANGED <<forwarder, cursor, start, skipped>>
    BY <1>0, <1>7 DEF Notify, TypeOK, LedgerType
  <2>2. /\ out[q] \in Seq(Nat) /\ Ascends(out[q]) /\ start[q] \in Nat /\ skipped[q] \subseteq Nat \ {0}
        /\ held[q] = cursor[q] /\ start[q] < held[q] /\ held[q] \notin skipped[q]
        /\ \A n \in skipped[q] : n <= cursor[q]
        /\ Told(out[q]) = (start[q] + 1 .. cursor[q]) \ (skipped[q] \cup {held[q]})
    BY <1>0, <2>1 DEF LedgerType, Ledger
  <2>3. \A m \in Told(out[q]) : m < held[q]
    BY <2>1, <2>2
  <2>4. /\ out'[q] \in Seq(Nat) /\ Ascends(out'[q])
        /\ Told(out'[q]) = (Told(out[q]) \cup {held[q]}) \ {Ack}
    BY <2>1, <2>2, <2>3, AppendFrame
  <2>5. Told(out'[q]) = (start[q] + 1 .. cursor[q]) \ (skipped[q] \cup {0})
    BY <2>1, <2>2, <2>4 DEF Ack
  <2>6. Ledger(q)'
    <3>1. 0 \notin skipped[q]
      BY <2>2
    <3> QED  BY <3>1, <2>1, <2>2, <2>4, <2>5 DEF Ledger, Running
  <2>7. \A w \in Requests \ {q} : Ledger(w)'
    BY <1>0, <2>1, LedgerStays DEF Running
  <2>8. out' \in [Requests -> Seq(Nat)]
    BY <1>0, <1>7, <2>1, <2>4 DEF Notify, LedgerType
  <2> QED  BY <1>0, <2>1, <2>6, <2>7, <2>8 DEF Booked, LedgerType
<1>8. ASSUME NEW q \in Requests, End(q)
      PROVE  Booked'
  <2>1. /\ forwarder'[q] = "ended"
        /\ \A w \in Requests \ {q} : forwarder'[w] = forwarder[w] /\ held'[w] = held[w]
        /\ UNCHANGED <<out, cursor, start, skipped>>
    BY <1>0, <1>8 DEF End, TypeOK
  <2>2. Ledger(q)'
    BY <1>0, <2>1 DEF Ledger, Running
  <2>3. \A w \in Requests \ {q} : Ledger(w)'
    BY <1>0, <2>1, LedgerStays DEF Running
  <2> QED  BY <1>0, <2>1, <2>2, <2>3 DEF Booked, LedgerType
<1>9. ASSUME NEW q \in Requests, NEW c \in Watch \cup Unwatch, Receive(q, c)
      PROVE  Booked'
  BY <1>1, <1>9 DEF Receive
<1>10. CASE Broadcast \/ UNCHANGED vars
  BY <1>1, <1>10 DEF Broadcast, vars
<1> QED
  BY <1>2, <1>3, <1>4, <1>5, <1>6, <1>7, <1>8, <1>9, <1>10 DEF Next, Handle, Forward

(* Every reachable state has its books balanced.                            *)
THEOREM LedgersBalance == Spec => [](IndInv /\ Booked)
BY Inductive, InitBooked, StepBooked, PTL DEF Spec

(* A forwarder that runs has notified, or skipped, or holds every event of  *)
(* its subscription, each once and in order: for any number of watches,     *)
(* events and any capacity of the channel.                                  *)
THEOREM EventsOnceInOrder == Spec => []EachEventOnceInOrder
<1>1. Booked => EachEventOnceInOrder
  BY DEF Booked, Ledger, EachEventOnceInOrder, Delivered, Told, Ascends
<1> QED  BY <1>1, LedgersBalance, PTL
=============================================================================
