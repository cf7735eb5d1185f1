--------------------------- MODULE ModelArtsTypes ---------------------------
(***************************************************************************)
(* The vocabulary shared by the task manager of the modelarts client       *)
(* (TaskManager) and the manager of the plugin (ModelArtsManager).          *)
(*                                                                         *)
(* A task is one create request: the TaskInfo parsed from its body, and,    *)
(* one to one with it, the TaskGroup the client keeps and the MATask the    *)
(* plugin keeps.  Its id is chosen by the service that sends the request,   *)
(* so two tasks may carry the same id.                                      *)
(***************************************************************************)

CONSTANTS
    Tasks,        \* create requests, with the objects made from them
    TaskIds,      \* the ids the ModelArts service gives to tasks
    IdOf,         \* the id carried by each create request
    HttpThreads,  \* threads of the HTTP server running MsgProcess
    CbThreads,    \* engine threads running status callbacks
    Null          \* the null pointer: no task, no id, no thread

ASSUME IdOfAssumption == IdOf \in [Tasks -> TaskIds]

ASSUME NullAssumption ==
    /\ Null \notin Tasks
    /\ Null \notin TaskIds
    /\ Null \notin HttpThreads
    /\ Null \notin CbThreads

\* TaskStatusCode values after which a task group is removed.
Terminal == {"SUCCEEDED", "FAILED"}

\* The TaskStatusCode of a group; "NONE" while no group was constructed.
Status == {"NONE", "PENDING", "RUNNING"} \cup Terminal

=============================================================================
