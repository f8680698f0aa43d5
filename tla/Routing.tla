------------------------------- MODULE Routing -------------------------------
(***************************************************************************)
(* The dispatch of a request line: which handler its method goes to, what  *)
(* the handler asks of the parameters before it touches the store, and the *)
(* command it makes of them.                                               *)
(*                                                                         *)
(* A method is the pair of what is before its first slash, "" if there is  *)
(* none, and what is behind.  Parameters are a partial function, as a      *)
(* patch is, under the names TaskCommands has for them; a parameter of the *)
(* wrong type is an absent one.                                            *)
(***************************************************************************)
EXTENDS TaskCommands

Method(kind, verb) == [kind |-> kind, verb |-> verb]

\* Tells the daemon that the plugin serves tasks; it is listed among the methods
\* and is none.
Marker == Method("", "subject_kind:task")

TaskMethods ==
    {"list", "list_filtered", "list_prioritized", "get", "create", "update", "replace",
     "delete", "statistics", "assign", "status", "next", "add_checklist_item",
     "update_checklist_item", "add_dependency", "remove_dependency", "schema",
     "watch", "unwatch"}
SubjectMethods == {"list", "get", "update", "delete", "schema", "watch", "unwatch"}

\* The capabilities of the manifest.
Advertised ==
    {Method("task", v) : v \in TaskMethods} \cup {Method("subject", v) : v \in SubjectMethods}
    \cup {Method("health", "check"), Marker}

-----------------------------------------------------------------------------
(* The order in which the handlers are asked.                               *)

Lifecycle == {Method("", "initialize"), Method("$", "ping"), Method("", "shutdown"),
              Method("health", "check")}

\* The verbs over the whole table, and all of the task surface.
Queries   == {"list", "list_filtered", "list_prioritized", "statistics", "next"}
TaskVerbs == Queries \cup (Verbs \ {"subject_get", "subject_update"})

\* The verbs that any other kind is served, too.
StandardVerbs == {"list", "get", "update", "schema"}

\* Mistake: only tasks have the verbs of the watches.
Route_TaskWatches(m) ==
    IF m \in Lifecycle THEN "lifecycle"
    ELSE IF m.kind = "$" \/ m = Method("", "initialized") THEN "silent"
    ELSE IF m.kind = "task" /\ m.verb \in {"delete", "watch", "unwatch"} THEN m.verb
    ELSE IF m.kind = "task" /\ m.verb \in TaskVerbs THEN "task"
    ELSE IF m.verb \in StandardVerbs THEN "standard"
    ELSE "not_found"

Route(m) ==
    IF m \in Lifecycle THEN "lifecycle"
    ELSE IF m.kind = "$" \/ m = Method("", "initialized") THEN "silent"
    ELSE IF m.kind \in {"task", "subject"} /\ m.verb \in {"delete", "watch", "unwatch"} THEN m.verb
    ELSE IF m.kind = "task" /\ m.verb \in TaskVerbs THEN "task"
    ELSE IF m.verb \in StandardVerbs THEN "standard"
    ELSE "not_found"

-----------------------------------------------------------------------------
(* What a handler asks for, and the command it makes.                       *)

\* The verb of TaskStore a method ends in; a query or a constant answer has none.
StoreVerb(m) ==
    CASE Route(m) = "delete"                      -> "delete"
      [] Route(m) = "task" /\ m.verb \in Verbs    -> m.verb
      [] Route(m) = "standard" /\ m.verb = "get"    -> "subject_get"
      [] Route(m) = "standard" /\ m.verb = "update" -> "subject_update"
      [] OTHER                                    -> "none"

Required(verb) ==
    CASE verb = "create"                -> {"title"}
      [] verb = "replace"               -> {"task"}
      [] verb = "assign"                -> {"id", "assignee"}
      [] verb = "status"                -> {"id", "status"}
      [] verb = "add_checklist_item"    -> {"id", "description"}
      [] verb = "update_checklist_item" -> {"id", "item", "completed"}
      [] verb \in {"add_dependency", "remove_dependency"} -> {"id", "dependency"}
      [] OTHER                          -> {"id"}

Complete(verb, params) ==
    /\ Required(verb) \subseteq DOMAIN params
    /\ verb = "replace" => "id" \in DOMAIN params["task"]

\* task/update takes all of its parameters for the patch when it has none.
Patch(params) == IF "patch" \in DOMAIN params THEN params["patch"] ELSE params

\* subject/update takes no patch, and one that is not a SubjectPatch, for the
\* empty one.
SubjectPatch(params) ==
    IF /\ "patch" \in DOMAIN params
       /\ "status" \in DOMAIN params["patch"] => params["patch"]["status"] \in ProtocolStatuses
    THEN params["patch"] ELSE <<>>

\* What create takes for parameters that are not given.
CreateDefaults == [priority |-> "medium", status |-> NoStatus]

Command(verb, params) ==
    Overlay([verb |-> verb],
        CASE verb = "create"         -> Overlay(params, CreateDefaults)
          [] verb = "update"         -> Overlay([patch |-> Patch(params)], params)
          [] verb = "subject_update" -> Overlay([patch |-> SubjectPatch(params)], params)
          [] OTHER                   -> params)
=============================================================================
