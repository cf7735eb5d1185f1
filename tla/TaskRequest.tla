---------------------------- MODULE TaskRequest ----------------------------
(***************************************************************************)
(* One create request, from its body to the end of the last engine task     *)
(* started for it: TaskInfo::Parse reads the body, MATask::Init lists a     *)
(* directory, and each MATask::Run takes the next file, gives the engine a  *)
(* description of the input and a session configuration, and starts it.     *)
(*                                                                         *)
(* Here the data is followed; the threads that take these steps, and what   *)
(* may come between them, are those of ModelArtsManager.                    *)
(***************************************************************************)
EXTENDS TaskIO, Sequences, SequencesExt

CONSTANTS
    Creates,    \* bodies of create requests
    Listings,   \* answers of OBS to GetObjectsList
    Absent,     \* no value: no description, no piece of input
    Whole       \* an input that is run as a whole

Described(desc) == \A f \in DOMAIN desc.data : desc.data[f] \in Text \cup {Bad}

ASSUME RequestsAssumption ==
    /\ Absent \notin Text \cup {Whole} /\ Whole \notin Text
    /\ \A l \in Listings : l \in Seq(Text \ {Empty}) /\ IsInjective(l)
    /\ \A r \in Creates :
          /\ Described(r.input)
          /\ \A i \in DOMAIN r.outputs : Described(r.outputs[i])

VARIABLES
    request,      \* the body (constant)
    info,         \* TaskInfo: the parsed input and outputs
    pathList,     \* input_path_list_
    pathRunning,  \* input_path_running_
    given,        \* the description FillData gave to the engine task
    session,      \* the session configuration of the engine task
    answered,     \* CreateTaskProc has returned true
    pc

reqVars == <<request, info, pathList, pathRunning, given, session, answered, pc>>

\* "done", "stopped" and "failed" are reported to the service; after "lost"
\* nothing more happens (a rerun that failed).
Ended == {"done", "stopped", "failed", "refused", "unsupported", "lost"}

ReqInit ==
    /\ request \in Creates
    /\ info = Absent
    /\ pathList = <<>> /\ pathRunning = Empty
    /\ given = Absent /\ session = Absent
    /\ answered = FALSE
    /\ pc = "parse"

------------------------------------------------------------------------------
\* TaskInfo::Parse.  An id of the wrong type throws, none at all is the empty
\* id; outputs that are absent, or no array, are no outputs.
Accepted ==
    /\ request.id # Bad
    /\ CanParse(request.input, TRUE)
    /\ \A i \in DOMAIN request.outputs : CanParse(request.outputs[i], FALSE)

Parsed == [id |-> request.id, input |-> Parse(request.input),
           outputs |-> [i \in DOMAIN request.outputs |->
                           Parse(request.outputs[i])]]

ParseTaskInfo ==
    /\ pc = "parse"
    /\ IF Accepted THEN info' = Parsed /\ pc' = "init"
                   ELSE UNCHANGED info /\ pc' = "refused"
    /\ UNCHANGED <<request, pathList, pathRunning, given, session, answered>>

IsObs == info.input.type = Spelled("obs")

ListsFiles == IsObs /\ IsDirectory(info.input.of.path_)

\* MATask::Init: a directory that cannot be listed, or is empty, is refused.
InitMATask ==
    /\ pc = "init"
    /\ IF ListsFiles
         THEN \/ /\ pathList' \in Listings \ {<<>>}
                 /\ pc' = "create"
              \/ pc' = "refused" /\ UNCHANGED pathList
         ELSE pc' = "create" /\ UNCHANGED pathList
    /\ UNCHANGED <<request, info, pathRunning, given, session, answered>>

\* MATask::Run returns a fault, or throws: in CreateTaskProc the request is
\* refused, in the status callback nobody looks at the result.
RunFails == pc' = IF answered THEN "lost" ELSE "refused"

\* CreateTask of the engine.
CreateEngineTask ==
    /\ pc = "create"
    /\ \/ RunFails /\ UNCHANGED <<given, session>>
       \/ pc' = "fill" /\ given' = Absent /\ session' = Absent
    /\ UNCHANGED <<request, info, pathList, pathRunning, answered>>

\* FillObsInputInfo takes the path in use from the back of the list.
TakePath ==
    IF ~ IsObs \/ pathList = <<>>
      THEN UNCHANGED <<pathList, pathRunning>>
      ELSE /\ pathRunning' = Last(pathList)
           /\ pathList' = Front(pathList)

\* The path FillObsInputInfo describes: the one it has just taken.
PathInUse ==
    CASE ~ IsObs -> Absent
      [] IsObs /\ pathList = <<>> -> info.input.of.path_
      [] OTHER -> Last(pathList)

\* FillInputData: the buffer, and the engine, may fail after the path was
\* taken, and decrypting a password may throw.
FillInputData ==
    /\ pc = "fill"
    /\ IF ~ InputSupported(info.input.type)
         THEN pc' = "unsupported" /\ UNCHANGED <<pathList, pathRunning, given>>
         ELSE /\ TakePath
              /\ \/ /\ given' = BuildModelBoxTaskInputInfo(info.input, PathInUse)
                    /\ pc' = "config"
                 \/ RunFails /\ UNCHANGED given
    /\ UNCHANGED <<request, info, session, answered>>

\* Mutant: the session names the input of the request.
GetInputStringForActualPath_AsSent == Printed(info.input)

\* For a file of a directory the session names the file.
GetInputStringForActualPath ==
    IF IsObs /\ pathRunning # Empty
      THEN [type |-> Spelled("obs"),
            data |-> [bucket |-> info.input.of.bucket_, path |-> pathRunning]]
      ELSE Printed(info.input)

\* What FillSessionConfig writes, with BuildModelBoxTaskOutputInfo.
SessionConfig ==
    [brokers |-> [i \in DOMAIN info.outputs |-> Broker(info.outputs[i])],
     input   |-> GetInputStringForActualPath,
     outputs |-> [i \in DOMAIN info.outputs |-> Printed(info.outputs[i])],
     id      |-> info.id]

FillSessionConfig ==
    /\ pc = "config"
    /\ IF \E i \in DOMAIN info.outputs : ~ OutputSupported(info.outputs[i].type)
         THEN pc' = "unsupported" /\ UNCHANGED session
         ELSE pc' = "start" /\ session' = SessionConfig
    /\ UNCHANGED <<request, info, pathList, pathRunning, given, answered>>

\* Start of the engine task; the first one answers the request.
StartEngineTask ==
    /\ pc = "start"
    /\ \/ pc' = "running" /\ answered' = TRUE
       \/ RunFails /\ UNCHANGED answered
    /\ UNCHANGED <<request, info, pathList, pathRunning, given, session>>

\* The engine task ends; "finished" by itself.
EngineTaskEnds(end) ==
    /\ pc = "running"
    /\ pc' = end
    /\ UNCHANGED <<request, info, pathList, pathRunning, given, session, answered>>

\* Mutant: TaskCanFinish is off by one.
StatusCallBack_OneLeft ==
    /\ pc = "finished"
    /\ pc' = IF Len(pathList) <= 1 THEN "done" ELSE "create"
    /\ UNCHANGED <<request, info, pathList, pathRunning, given, session, answered>>

\* ModelBoxTaskStatusCallBack after FINISHED: TaskCanFinish, or Run again.
StatusCallBack ==
    /\ pc = "finished"
    /\ pc' = IF pathList = <<>> THEN "done" ELSE "create"
    /\ UNCHANGED <<request, info, pathList, pathRunning, given, session, answered>>

EngineEnds == \E end \in {"finished", "stopped", "failed"} : EngineTaskEnds(end)

Run == CreateEngineTask \/ FillInputData \/ FillSessionConfig \/ StartEngineTask

ReqNext == ParseTaskInfo \/ InitMATask \/ Run \/ EngineEnds \/ StatusCallBack

ReqSpec == ReqInit /\ [][ReqNext]_reqVars

------------------------------------------------------------------------------
(* Properties                                                               *)

\* IOFactory and MATask agree on the types: what the one accepts, however it
\* is spelled, the dispatchers of the other can describe to the engine.
AcceptedIsDescribed == pc # "unsupported"

HasDirectory == pathRunning # Empty \/ pathList # <<>>

\* An object is run as it was sent, and no other: only a path that ends in
\* "/" (or the empty path, that is the whole bucket) stands for its files,
\* and then the engine is given one of these and never the directory.
ObjectGivenAsSent ==
    pc = "running" /\ info.input.class = "obs" =>
        LET sent == request.input.data["path"] IN
        IF sent = Empty \/ LastSlash[sent] + 1 = Length[sent]
          THEN given.config.path = pathRunning
          ELSE given.config.path = sent

\* Kinds of input whose ToString names a field otherwise than Parse.
Misprinted == {"vcn", "edgecamera", "restful"}

ReadBack(desc) ==
    LET io == Parse(desc) IN
    BuildModelBoxTaskInputInfo(io, IF io.class = "obs" THEN io.of.path_
                                                       ELSE Absent)

\* The session names the input the engine task was given, also for each file
\* of a directory, and the outputs its broker was configured with: read again
\* as a request, it leads to the very same descriptions.
SessionTellsTask ==
    pc = "running" =>
        /\ info.input.class \notin Misprinted =>
              /\ CanParse(session.input, TRUE)
              /\ ReadBack(session.input) = given
        /\ \A i \in DOMAIN session.outputs :
              /\ CanParse(session.outputs[i], FALSE)
              /\ Broker(Parse(session.outputs[i])) = session.brokers[i]

\* The input as pieces: the files of a directory, or the input as a whole.
NotStarted == {"create", "fill", "config", "start"}

Taken == pc \in {"config", "start"}

Working == {"running", "finished"}

Todo ==
    IF HasDirectory
      THEN Range(pathList) \cup (IF Taken THEN {pathRunning} ELSE {})
      ELSE IF pc \in NotStarted THEN {Whole} ELSE {}

PieceInUse ==
    IF pc \in Working THEN IF HasDirectory THEN pathRunning ELSE Whole ELSE Absent

Phase ==
    CASE pc \in {"parse", "init"} -> "new"
      [] pc \in NotStarted \cup Working -> "open"
      [] pc = "unsupported" -> "refused"
      [] OTHER -> pc

Promise == INSTANCE FilesRun WITH
    Pieces <- Text \cup {Whole}, None <- Absent,
    todo <- Todo, piece <- PieceInUse, phase <- Phase

\* Every file of a directory is given to the engine once, one at a time, and
\* the task is done only when each was finished.
ImplementsFilesRun == Promise!Spec

------------------------------------------------------------------------------
(* Why they hold                                                            *)

Filled == {"config", "start", "running", "finished"}

\* No file is named twice, the one in use is not in the list any more.
PathsInv ==
    /\ pathList \in Seq(Text \ {Empty}) /\ IsInjective(pathList)
    /\ pathRunning \in Text /\ pathRunning \notin Range(pathList)

\* A directory has a next file before the engine task is filled, and a file
\* in use behind that; anything else has neither.
FilesInv ==
    /\ pc \in {"parse", "init"} => ~ HasDirectory
    /\ pc \in {"create", "fill"} \cup Filled =>
          IF ListsFiles
            THEN IF pc \in Filled THEN pathRunning # Empty ELSE pathList # <<>>
            ELSE ~ HasDirectory

\* What the engine was given is what the request describes.
GivenInv ==
    /\ pc \in Filled =>
          given = BuildModelBoxTaskInputInfo(info.input,
                     CASE ~ IsObs -> Absent
                       [] ListsFiles -> pathRunning
                       [] OTHER -> info.input.of.path_)
    /\ pc \in Filled \ {"config"} => session = SessionConfig

RequestInv ==
    /\ request \in Creates
    /\ pc \in {"parse", "init", "create", "fill"} \cup Filled \cup
              (Ended \ {"unsupported"})
    /\ pc \notin {"parse", "refused"} => Accepted /\ info = Parsed
    /\ PathsInv /\ FilesInv /\ GivenInv

=============================================================================
