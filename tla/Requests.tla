------------------------------ MODULE Requests ------------------------------
(***************************************************************************)
(* What the HTTP front makes of a request: RestfulCommunication checks the  *)
(* URL, finds the handler for the method in the registry of Communication,  *)
(* takes the task id out of the path (or the body of a create), and maps    *)
(* the code of the handler.  Handlers run one at a time (the message lock;  *)
(* TaskManager has the threads and their steps), so a request is one step   *)
(* here.  A path, and an id, is a sequence of characters.                   *)
(***************************************************************************)
EXTENDS ClientConfig

CONSTANTS
    Chars,
    Paths,      \* paths of requests
    Bodies,     \* bodies of creates: the id they carry, or BadBody
    BadBody,    \* a body TaskInfo::Parse refuses
    NoReturn    \* "code" of a handler that calls itself without end

Methods == {"POST", "DELETE", "GET", "HEAD"}

ASSUME PathsAssumption ==
    /\ Paths \subseteq Seq(Chars) /\ "/" \in Chars
    /\ Bodies \subseteq Seq(Chars) \cup {BadBody}
    /\ BadBody \notin Seq(Chars)
    /\ NoReturn \notin {200, 201, 202, 204, 400, 404, 500}

VARIABLES
    groups,  \* ids in task_group_map_
    ending,  \* those of them whose group is no longer RUNNING
    last     \* the request handled last, and its answer

rvars == <<groups, ending, last>>
frontVars == <<confVars, rvars>>

------------------------------------------------------------------------------
\* CONFIG_TASK_URI; without it the prefix is empty and every URL is valid.
TaskUri == IF GetString("alg.task.uri") = NoText
             THEN <<>> ELSE GetString("alg.task.uri")

CheckUrlVaild(path) == IsPrefix(TaskUri, path)

\* Mutant: a delete is taken for a delete of all tasks.
GetMsgType_DeleteAll(method) ==
    CASE method = "POST"   -> "MA_CREATE_TYPE"
      [] method = "DELETE" -> "MA_DELETE_ALL_TYPE"
      [] method = "GET"    -> "MA_QUERY_TYPE"
      [] OTHER             -> ""

GetMsgType(method) ==
    CASE method = "POST"   -> "MA_CREATE_TYPE"
      [] method = "DELETE" -> "MA_DELETE_TYPE"
      [] method = "GET"    -> "MA_QUERY_TYPE"
      [] OTHER             -> ""

\* The types RegisterMsgHandles gives a handler.
MsgHandles ==
    {"MA_CREATE_TYPE", "MA_DELETE_TYPE", "MA_QUERY_TYPE", "MA_DELETE_ALL_TYPE"}

Sub == TaskUri \o <<"/">>

\* Mutant: the prefix is cut off without looking.
ParseTaskId_Unchecked(path) == SubSeq(path, Len(Sub) + 1, Len(path))

\* The rest of the path behind the prefix; without the prefix, the empty id.
ParseTaskId(path) ==
    IF IsPrefix(Sub, path) THEN SubSeq(path, Len(Sub) + 1, Len(path)) ELSE <<>>

GetMsgRequestInfo(r) ==
    IF r.method = "POST" THEN r.body ELSE ParseTaskId(r.path)

\* http_status_map_; any other code would read past the end of the map.
HttpStatusMap == {200, 201, 202, 204, 400, 404, 500}

StatusToHttpStatus(code) == IF code \in HttpStatusMap THEN code ELSE NoReturn

------------------------------------------------------------------------------
(* The handlers of TaskManager, each as one step: the code they return and   *)
(* what they leave in task_group_map_.                                       *)

\* Mutant: the id is not looked up.
CreateTask_NoCheck(id, code) ==
    \/ code = 400 /\ id = BadBody /\ UNCHANGED groups
    \/ code = 500 /\ id # BadBody /\ UNCHANGED groups
    \/ code = 201 /\ id # BadBody /\ groups' = groups \cup {id}

CreateTask(id, code) ==
    \/ code = 400 /\ id \in groups \cup {BadBody} /\ UNCHANGED groups
    \/ \* create_func answers false, or throws
       code = 500 /\ id \notin groups \cup {BadBody} /\ UNCHANGED groups
    \/ code = 201 /\ id \notin groups \cup {BadBody} /\ groups' = groups \cup {id}

QueryTask(id, code) ==
    /\ \/ code = 404 /\ id \notin groups
       \/ code \in {200, 500} /\ id \in groups
    /\ UNCHANGED groups

\* delete_func returns after the callback has erased the group; a group that
\* is not RUNNING is left to the callback that ended it.
DeleteTask(id, code) ==
    \/ code = 404 /\ id \notin groups /\ UNCHANGED groups
    \/ code = 500 /\ id \in groups \ ending /\ UNCHANGED groups
    \/ code = 202 /\ id \in groups \ ending /\ groups' = groups \ {id}
    \/ code = 202 /\ id \in ending /\ UNCHANGED groups

\* DeleteAllTaskProcess calls itself for each listed task, before it would
\* delete one.
DeleteAll(code) ==
    /\ code = IF groups = {} THEN 202 ELSE NoReturn
    /\ UNCHANGED groups

Handle(type, info, code) ==
    \/ type = "MA_CREATE_TYPE" /\ CreateTask(info, code)
    \/ type = "MA_QUERY_TYPE" /\ QueryTask(info, code)
    \/ type = "MA_DELETE_TYPE" /\ DeleteTask(info, code)
    \/ type = "MA_DELETE_ALL_TYPE" /\ DeleteAll(code)

Codes == {200, 201, 202, 400, 404, 500, NoReturn}

Answer(r, info, code) ==
    last' = [method |-> r.method, path |-> r.path, info |-> info, code |-> code]

\* An invalid URL, or a method without a handler: no handler is called.
RefuseRequest(r) ==
    /\ ~ CheckUrlVaild(r.path) \/ GetMsgType(r.method) \notin MsgHandles
    /\ Answer(r, BadBody, 400)
    /\ UNCHANGED <<groups, ending>>

MsgProcess(r) ==
    /\ CheckUrlVaild(r.path) /\ GetMsgType(r.method) \in MsgHandles
    /\ \E code \in Codes :
          /\ Handle(GetMsgType(r.method), GetMsgRequestInfo(r), code)
          /\ Answer(r, GetMsgRequestInfo(r), StatusToHttpStatus(code))
    /\ ending' = ending \cap groups'

\* UpdateTaskStatus of a task that ends by itself: first the status, then,
\* after the message to the service, the entry in the map.
TaskEnds(id) ==
    /\ id \in groups \ ending
    /\ ending' = ending \cup {id} /\ UNCHANGED <<groups, last>>

TaskErased(id) ==
    /\ id \in ending
    /\ groups' = groups \ {id} /\ ending' = ending \ {id} /\ UNCHANGED last

\* The body matters in a create only.
RequestSet == [method : {"POST"}, path : Paths, body : Bodies] \cup
              [method : Methods \ {"POST"}, path : Paths, body : {BadBody}]

FrontInit ==
    /\ ConfInit
    /\ groups = {} /\ ending = {}
    /\ last = [method |-> "GET", path |-> <<>>, info |-> BadBody, code |-> 404]

\* The server listens when the client is ready; messages leave it meanwhile.
Serve ==
    /\ stage \in {"ready", "sent"}
    /\ \/ \E r \in RequestSet : RefuseRequest(r) \/ MsgProcess(r)
       \/ \E id \in groups : TaskEnds(id) \/ TaskErased(id)
    /\ UNCHANGED confVars

FrontNext ==
    \/ ConfNext /\ UNCHANGED rvars
    \/ Serve

FrontSpec == FrontInit /\ [][FrontNext]_frontVars

------------------------------------------------------------------------------
(* Properties                                                               *)

\* A query or a delete looks for the task its path names and for no other,
\* however close the path comes to the configured one.  (A path that names no
\* task looks for the empty id, which a create without "id" does list.)
OnlyAddressedTask ==
    last.method \in {"GET", "DELETE"} /\ last.info \notin {BadBody, <<>>} =>
        last.path = TaskUri \o <<"/">> \o last.info

\* Every answer is an HTTP status (no code is missing in the map, and the
\* handler that calls itself is never reached), and tells what has become of
\* the task: a create answered 201 has listed a task that was not there, a
\* delete answered 202 leaves none that runs, and with any other answer the map
\* is as it was.
AnswerTellsEffect ==
    [][last' # last =>
          /\ last'.code # NoReturn
          /\ CASE last'.code = 201 -> /\ last'.info \notin groups
                                      /\ groups' = groups \cup {last'.info}
               [] last'.code = 202 -> /\ last'.info \in groups
                                      /\ last'.info \notin groups' \ ending'
                                      /\ groups \ groups' \subseteq {last'.info}
               [] OTHER -> groups' = groups]_rvars

------------------------------------------------------------------------------
(* Why they hold                                                            *)

\* The URI is read once, before the first request is handled.
FrontInv ==
    /\ ConfInv
    /\ stage \notin {"ready", "sent"} => last.info = BadBody
    /\ ending \subseteq groups
    /\ OnlyAddressedTask

=============================================================================
