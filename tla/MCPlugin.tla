------------------------------ MODULE MCPlugin -------------------------------
(***************************************************************************)
(* A small instance of Plugin: a client that watches and then reads a task,*)
(* two others that change it meanwhile, and the lines that reach neither   *)
(* the store nor the hub.                                                  *)
(***************************************************************************)
EXTENDS Plugin

CONSTANTS w, g, x, y

SeqId(n)  == [prefixes |-> 0, family |-> "TASK-", num |-> n, width |-> 1]
T1 == SeqId(1)
OneTask == {T1 :> BuildNewTask(T1, "medium")}

\* Also as some client stored it, without a metadata object.
Bare(t) == [t EXCEPT !.metadata = [present |-> FALSE, stamps |-> {}]]
OneTaskOrBare == OneTask \cup {T1 :> Bare(BuildNewTask(T1, "medium"))}

One   == [kind |-> "number", text |-> "1"]
Seven == [kind |-> "string", text |-> "7"]
MCIds == {One, Seven}

Line(kind, verb, params) == [method |-> Method(kind, verb), params |-> params]
WatchLine == [method |-> Method("subject", "watch"), params |-> <<>>, id |-> One]
Garbage   == [method |-> "garbage"]
GetT1     == Line("subject", "get", [id |-> T1])
Move(s)   == Line("subject", "update", [id |-> T1, patch |-> [status |-> s]])

MCRequests == {w, g, x, y}

\* Lines that change nothing; "backlog" is no protocol status, and only tasks
\* have a delete.
Others ==
    {Line("task", "next", <<>>),
     Line("subject", "update", [patch |-> [status |-> "done"]]),
     Line("requirement", "get", [id |-> T1]),
     Line("requirement", "delete", [id |-> T1]),
     Line("task", "unwatch", [watch_id |-> "7"]),
     Line("task", "unwatch", <<>>),
     Line("$", "cancelled", <<>>),
     Garbage}

MCScript ==
    (w :> {WatchLine} \cup Others) @@ (g :> {GetT1}) @@
    (x :> {Move("blocked"), Line("task", "delete", [id |-> T1])}) @@
    (y :> {Move("backlog"), Line("subject", "unwatch", [watch_id |-> "1"])})

MCAfter == [r \in MCRequests |-> IF r = g THEN {w} ELSE {}]

MCCommands == {Command(StoreVerb(l.method), l.params) :
                  l \in {m \in UNION {MCScript[r] : r \in MCRequests} : ForStore(m)}}

\* The theorem about tidy callers is about this instance, too.
ASSUME PluginIsTidy == TidyCallers
=============================================================================
