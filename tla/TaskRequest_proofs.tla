------------------------- MODULE TaskRequest_proofs -------------------------
(***************************************************************************)
(* A create request, for any body, any directory and any number of files:   *)
(* what is accepted can be described to the engine, the engine is given     *)
(* what was sent, the session tells what it was given, and every file is    *)
(* run once.                                                                *)
(***************************************************************************)
EXTENDS TaskRequest, SequenceTheorems, TLAPS

------------------------------------------------------------------------------
(* Lists of files                                                           *)

\* The last element is taken off a list without duplicates.
LEMMA TakeLast ==
  ASSUME NEW S, NEW s \in Seq(S), s # <<>>, IsInjective(s)
  PROVE  /\ Front(s) \in Seq(S) /\ IsInjective(Front(s))
         /\ Last(s) \in S /\ Last(s) \notin Range(Front(s))
         /\ Range(s) = Range(Front(s)) \cup {Last(s)}
<1>1. /\ Len(s) \in Nat /\ Len(s) > 0 /\ DOMAIN s = 1 .. Len(s)
      /\ \A i \in 1 .. Len(s) : s[i] \in S
  BY LenProperties, EmptySeq, SeqEqual, ElementOfSeq
<1>2. /\ Front(s) \in Seq(S) /\ Len(Front(s)) = Len(s) - 1
      /\ \A i \in 1 .. Len(s) - 1 : Front(s)[i] = s[i]
  BY <1>1, SubSeqProperties DEF Front
<1>3. DOMAIN Front(s) = 1 .. Len(s) - 1
  BY <1>1, <1>2, LenProperties
<1>4. \A i, j \in 1 .. Len(s) : s[i] = s[j] => i = j
  BY <1>1 DEF IsInjective
<1>5. IsInjective(Front(s))
  BY <1>1, <1>2, <1>3, <1>4 DEF IsInjective
<1>6. Last(s) = s[Len(s)] /\ Len(s) \in 1 .. Len(s)
  BY <1>1 DEF Last
<1>7. Last(s) \notin Range(Front(s))
  BY <1>1, <1>2, <1>3, <1>4, <1>6 DEF Range
<1>8. DOMAIN s = DOMAIN Front(s) \cup {Len(s)}
  <2>1. \A n \in Nat \ {0} : 1 .. n = (1 .. n - 1) \cup {n}
    OBVIOUS
  <2>2. QED
    BY <1>1, <1>3, <2>1
<1>9. Range(s) = Range(Front(s)) \cup {Last(s)}
  <2>1. \A i \in DOMAIN Front(s) : Front(s)[i] = s[i]
    BY <1>2, <1>3
  <2>2. QED
    BY <1>6, <1>8, <2>1, Zenon DEF Range
<1>10. QED
  BY <1>1, <1>2, <1>5, <1>6, <1>7, <1>9

\* The empty list names nothing.
LEMMA NoFiles ==
  /\ Range(<<>>) = {} /\ IsInjective(<<>>)
  /\ \A S : <<>> \in Seq(S)
  /\ \A S : \A s \in Seq(S) : s # <<>> => Range(s) # {}
<1>1. DOMAIN <<>> = {}
  BY EmptySeq
<1>2. ASSUME NEW S, NEW s \in Seq(S), s # <<>> PROVE Range(s) # {}
  <2>1. Len(s) \in Nat /\ Len(s) > 0 /\ DOMAIN s = 1 .. Len(s)
    BY <1>2, LenProperties, EmptySeq, SeqEqual
  <2>2. 1 \in DOMAIN s
    BY <2>1
  <2>3. QED
    BY <2>2 DEF Range
<1>3. QED
  BY <1>1, <1>2, EmptySeq DEF Range, IsInjective

------------------------------------------------------------------------------
(* The invariant                                                            *)

\* The types the factory accepts are those the dispatchers know.
LEMMA AcceptedIsSupported ==
  ASSUME Accepted, info = Parsed
  PROVE  /\ InputSupported(info.input.type)
         /\ \A i \in DOMAIN info.outputs : OutputSupported(info.outputs[i].type)
<1>1. ASSUME NEW desc
      PROVE  /\ Parse(desc).type = Spelled(desc.type.name)
             /\ CanParse(desc, TRUE) => desc.type.name \in IoType(TRUE)
             /\ CanParse(desc, FALSE) => desc.type.name \in IoType(FALSE)
  BY DEF Parse, ParseType, ToLower, CanParse, Spelled
<1>2. InputSupported(info.input.type)
  BY <1>1 DEF Accepted, Parsed, InputSupported, IoType
<1>3. \A i \in DOMAIN info.outputs : OutputSupported(info.outputs[i].type)
  BY <1>1 DEF Accepted, Parsed, OutputSupported, IoType
<1>4. QED
  BY <1>2, <1>3

\* It holds of a request that has not been parsed.
LEMMA RequestStart == ReqInit => RequestInv
BY NoFiles, TextAssumption
   DEF ReqInit, RequestInv, PathsInv, FilesInv, GivenInv, HasDirectory, Filled

\* Parsing the body.
LEMMA ParseStep == RequestInv /\ ParseTaskInfo => RequestInv'
<1> SUFFICES ASSUME RequestInv, ParseTaskInfo PROVE RequestInv'
  OBVIOUS
<1>1. UNCHANGED <<pathList, pathRunning, request>> /\ pc = "parse"
  BY DEF ParseTaskInfo
<1>2. PathsInv' /\ ~ HasDirectory'
  BY <1>1 DEF RequestInv, PathsInv, FilesInv, HasDirectory
<1>3. Accepted' = Accepted /\ Parsed' = Parsed
  BY <1>1 DEF Accepted, Parsed
<1>4. pc' \in {"init", "refused"} /\ (pc' = "init" => Accepted /\ info' = Parsed)
  BY DEF ParseTaskInfo
<1>5. QED
  BY <1>1, <1>2, <1>3, <1>4
     DEF RequestInv, FilesInv, GivenInv, Filled, Ended

\* Steps that leave the request, the parsed request and the files alone.
LEMMA SameFiles ==
  ASSUME RequestInv, UNCHANGED <<request, info, pathList, pathRunning>>
  PROVE  /\ Accepted' = Accepted /\ Parsed' = Parsed
         /\ PathsInv' /\ HasDirectory' = HasDirectory
         /\ ListsFiles' = ListsFiles /\ IsObs' = IsObs
         /\ SessionConfig' = SessionConfig
BY DEF RequestInv, PathsInv, Accepted, Parsed, HasDirectory, ListsFiles, IsObs,
       SessionConfig, GetInputStringForActualPath

\* Listing the directory.
LEMMA InitStep == RequestInv /\ InitMATask => RequestInv'
<1> SUFFICES ASSUME RequestInv, InitMATask PROVE RequestInv'
  OBVIOUS
<1>1. /\ UNCHANGED <<request, info, pathRunning>> /\ pc = "init"
      /\ pathList = <<>> /\ pathRunning = Empty
      /\ Accepted /\ info = Parsed
  BY DEF InitMATask, RequestInv, FilesInv, HasDirectory
<1>2. /\ Accepted' /\ (info = Parsed)' /\ ListsFiles' = ListsFiles
  BY <1>1 DEF Accepted, Parsed, ListsFiles, IsObs
<1>3. CASE ListsFiles /\ pathList' \in Listings \ {<<>>} /\ pc' = "create"
  <2>1. pathList' \in Seq(Text \ {Empty}) /\ IsInjective(pathList')
    BY <1>3, RequestsAssumption
  <2>2. \A i \in DOMAIN pathList' : pathList'[i] # Empty
    BY <2>1, ElementOfSeq, LenProperties
  <2>3. PathsInv'
    BY <1>1, <2>1, <2>2, TextAssumption DEF PathsInv, Range
  <2>4. QED
    BY <1>1, <1>2, <1>3, <2>3 DEF RequestInv, FilesInv, GivenInv, Filled
<1>4. CASE /\ UNCHANGED pathList
           /\ (ListsFiles /\ pc' = "refused") \/ (~ ListsFiles /\ pc' = "create")
  <2>1. PathsInv' /\ ~ HasDirectory'
    BY <1>1, <1>4 DEF RequestInv, PathsInv, HasDirectory
  <2>2. QED
    BY <1>1, <1>2, <1>4, <2>1
       DEF RequestInv, FilesInv, GivenInv, Filled, Ended
<1>5. CASE ListsFiles
  BY <1>3, <1>4, <1>5 DEF InitMATask
<1>6. CASE ~ ListsFiles
  BY <1>4, <1>6 DEF InitMATask
<1>7. QED
  BY <1>5, <1>6


\* Creating the engine task.
LEMMA CreateStep == RequestInv /\ CreateEngineTask => RequestInv'
<1> SUFFICES ASSUME RequestInv, CreateEngineTask PROVE RequestInv'
  OBVIOUS
<1>1. /\ UNCHANGED <<request, info, pathList, pathRunning>> /\ pc = "create"
      /\ pc' \in {"fill", "lost", "refused"}
  BY DEF CreateEngineTask, RunFails
<1>2. /\ Accepted' = Accepted /\ Parsed' = Parsed
      /\ PathsInv' /\ HasDirectory' = HasDirectory
      /\ ListsFiles' = ListsFiles /\ IsObs' = IsObs
      /\ SessionConfig' = SessionConfig
  BY <1>1, SameFiles
<1>3. QED
  BY <1>1, <1>2 DEF RequestInv, FilesInv, GivenInv, Filled, Ended

\* Taking a path keeps the files apart.
LEMMA TakeKeepsPaths ==
  ASSUME PathsInv, TakePath
  PROVE  /\ PathsInv'
         /\ IsObs /\ pathList # <<>> => /\ pathRunning' = Last(pathList)
                                        /\ pathRunning' # Empty
                                        /\ Range(pathList) = Range(pathList') \cup {pathRunning'}
         /\ ~ (IsObs /\ pathList # <<>>) => UNCHANGED <<pathList, pathRunning>>
<1>1. CASE IsObs /\ pathList # <<>>
  <2>1. pathRunning' = Last(pathList) /\ pathList' = Front(pathList)
    BY <1>1 DEF TakePath
  <2>2. /\ pathList' \in Seq(Text \ {Empty}) /\ IsInjective(pathList')
        /\ pathRunning' \in Text \ {Empty} /\ pathRunning' \notin Range(pathList')
        /\ Range(pathList) = Range(pathList') \cup {pathRunning'}
    BY <1>1, <2>1, TakeLast DEF PathsInv
  <2>3. QED
    BY <1>1, <2>1, <2>2 DEF PathsInv
<1>2. CASE ~ (IsObs /\ pathList # <<>>)
  BY <1>2 DEF TakePath, PathsInv
<1>3. QED
  BY <1>1, <1>2

\* Describing the input to the engine.
LEMMA FillStep == RequestInv /\ FillInputData => RequestInv'
<1> SUFFICES ASSUME RequestInv, FillInputData PROVE RequestInv'
  OBVIOUS
<1>1. /\ UNCHANGED <<request, info>> /\ pc = "fill"
      /\ Accepted /\ info = Parsed
  BY DEF FillInputData, RequestInv, Ended
<1>2. /\ TakePath
      /\ \/ /\ given' = BuildModelBoxTaskInputInfo(info.input, PathInUse)
            /\ pc' = "config"
         \/ pc' \in {"lost", "refused"}
  BY <1>1, AcceptedIsSupported DEF FillInputData, RunFails
<1>3. /\ Accepted' /\ (info = Parsed)' /\ ListsFiles' = ListsFiles /\ IsObs' = IsObs
      /\ info' = info /\ request' \in Creates
  BY <1>1 DEF Accepted, Parsed, ListsFiles, IsObs, RequestInv
<1>4. PathsInv'
  BY <1>2, TakeKeepsPaths DEF RequestInv
<1>5. IF ListsFiles THEN pathList # <<>> ELSE ~ HasDirectory
  BY <1>1 DEF RequestInv, FilesInv, Filled
<1>6. CASE ListsFiles
  <2>1. IsObs /\ pathList # <<>>
    BY <1>5, <1>6 DEF ListsFiles
  <2>2. pathRunning' # Empty /\ PathInUse = pathRunning'
    BY <1>2, <2>1, TakeKeepsPaths DEF PathInUse, RequestInv
  <2>3. QED
    BY <1>2, <1>3, <1>4, <1>6, <2>1, <2>2
       DEF RequestInv, FilesInv, GivenInv, Filled, Ended
<1>7. CASE ~ ListsFiles
  <2>1. pathList = <<>> /\ pathRunning = Empty
    BY <1>5, <1>7 DEF HasDirectory
  <2>2. UNCHANGED <<pathList, pathRunning>>
    BY <1>2, <2>1, TakeKeepsPaths DEF RequestInv
  <2>3. PathInUse = CASE ~ IsObs -> Absent [] OTHER -> info.input.of.path_
    BY <2>1 DEF PathInUse
  <2>4. ~ HasDirectory'
    BY <2>1, <2>2 DEF HasDirectory
  <2>5. QED
    BY <1>2, <1>3, <1>4, <1>7, <2>3, <2>4
       DEF RequestInv, FilesInv, GivenInv, Filled, Ended
<1>8. QED
  BY <1>6, <1>7

\* The session configuration.
LEMMA ConfigStep == RequestInv /\ FillSessionConfig => RequestInv'
<1> SUFFICES ASSUME RequestInv, FillSessionConfig PROVE RequestInv'
  OBVIOUS
<1>1. /\ UNCHANGED <<request, info, pathList, pathRunning, given>> /\ pc = "config"
      /\ Accepted /\ info = Parsed
  BY DEF FillSessionConfig, RequestInv, Ended
<1>2. pc' = "start" /\ session' = SessionConfig
  BY <1>1, AcceptedIsSupported DEF FillSessionConfig
<1>3. /\ Accepted' = Accepted /\ Parsed' = Parsed
      /\ PathsInv' /\ HasDirectory' = HasDirectory
      /\ ListsFiles' = ListsFiles /\ IsObs' = IsObs
      /\ SessionConfig' = SessionConfig
  BY <1>1, SameFiles
<1>4. QED
  BY <1>1, <1>2, <1>3 DEF RequestInv, FilesInv, GivenInv, Filled, Ended

\* The start and the end of an engine task, and what follows it.
LEMMA EngineStep ==
  RequestInv /\ (StartEngineTask \/ EngineEnds \/ StatusCallBack) => RequestInv'
<1> SUFFICES ASSUME RequestInv, StartEngineTask \/ EngineEnds \/ StatusCallBack
             PROVE  RequestInv'
  OBVIOUS
<1>1. UNCHANGED <<request, info, pathList, pathRunning, given, session>>
  BY DEF StartEngineTask, EngineEnds, EngineTaskEnds, StatusCallBack
<1>2. /\ Accepted' = Accepted /\ Parsed' = Parsed
      /\ PathsInv' /\ HasDirectory' = HasDirectory
      /\ ListsFiles' = ListsFiles /\ IsObs' = IsObs
      /\ SessionConfig' = SessionConfig
  BY <1>1, SameFiles
<1>3. CASE StartEngineTask
  BY <1>1, <1>2, <1>3
     DEF StartEngineTask, RunFails, RequestInv, FilesInv, GivenInv, Filled, Ended
<1>4. CASE EngineEnds
  BY <1>1, <1>2, <1>4
     DEF EngineEnds, EngineTaskEnds, RequestInv, FilesInv, GivenInv, Filled, Ended
<1>5. CASE StatusCallBack
  <2>1. /\ pc = "finished" /\ pc' = IF pathList = <<>> THEN "done" ELSE "create"
        /\ ~ ListsFiles => ~ HasDirectory
    BY <1>5 DEF StatusCallBack, RequestInv, FilesInv, Filled
  <2>2. pc' = "create" => ListsFiles /\ pathList # <<>>
    BY <2>1 DEF HasDirectory
  <2>3. QED
    BY <1>1, <1>2, <2>1, <2>2
       DEF RequestInv, FilesInv, GivenInv, Filled, Ended
<1>6. QED
  BY <1>3, <1>4, <1>5

\* The invariant: what was accepted stays what it is, the files of a directory
\* are taken one by one, and the engine is given what the request describes.
THEOREM RequestInvariance == ReqSpec => []RequestInv
<1>1. RequestInv /\ [ReqNext]_reqVars => RequestInv'
  <2> SUFFICES ASSUME RequestInv, [ReqNext]_reqVars PROVE RequestInv'
    OBVIOUS
  <2>1. CASE UNCHANGED reqVars
    BY <2>1, SameFiles DEF reqVars, RequestInv, FilesInv, GivenInv
  <2>2. QED
    BY <2>1, ParseStep, InitStep, CreateStep, FillStep, ConfigStep, EngineStep
       DEF ReqNext, Run
<1>2. QED
  BY <1>1, RequestStart, PTL DEF ReqSpec

\* What the factory accepts, the dispatchers of MATask can describe.
THEOREM AcceptedIsDescribedHolds == ReqSpec => []AcceptedIsDescribed
<1>1. RequestInv => AcceptedIsDescribed
  BY DEF RequestInv, AcceptedIsDescribed, Filled, Ended
<1>2. QED
  BY <1>1, RequestInvariance, PTL

------------------------------------------------------------------------------
(* What the engine is given                                                 *)

\* The members of an object hold well-typed values: a field that was there has
\* the right type, and a default is of the right type too.
LEMMA MemberValue ==
  ASSUME NEW desc, NEW class, class = Class[desc.type.name],
         Readable(class, desc.data), Described(desc), NEW m \in DOMAIN class.reads
  PROVE  /\ class.reads[m] \in DOMAIN desc.data => desc.data[class.reads[m]] \in Text
         /\ class.reads[m] \notin DOMAIN desc.data => class.reads[m] \in class.optional
         /\ Parse(desc).of[m] \in Text
         /\ Parse(desc).of[m] = IF class.reads[m] \in DOMAIN desc.data
                                  THEN desc.data[class.reads[m]]
                                  ELSE Default(class.reads[m], desc.data)
<1>2. /\ class.reads[m] \in DOMAIN desc.data => desc.data[class.reads[m]] \in Text
      /\ class.reads[m] \notin DOMAIN desc.data => class.reads[m] \in class.optional
  BY DEF Readable, Described
<1>3. Parse(desc).of = Members(class, desc.data)
  BY DEF Parse, ToLower, Spelled
<1>4. Parse(desc).of[m] = IF class.reads[m] \in DOMAIN desc.data
                            THEN desc.data[class.reads[m]]
                            ELSE Default(class.reads[m], desc.data)
  BY <1>3 DEF Members
<1>5. Default(class.reads[m], desc.data) \in Text
  BY TextAssumption DEF Default, Words
<1>6. QED
  BY <1>2, <1>4, <1>5

\* Class and type of a parsed input.
LEMMA InputClass ==
  ASSUME RequestInv, pc \notin {"parse", "refused"}
  PROVE  /\ info.input = Parse(request.input)
         /\ info.input.class = request.input.type.name
         /\ info.input.type = Spelled(info.input.class)
         /\ info.input.class \in IoType(TRUE)
         /\ Readable(Class[info.input.class], request.input.data)
         /\ Described(request.input)
         /\ IsObs <=> info.input.class = "obs"
<1>1. info = Parsed /\ Accepted /\ request \in Creates
  BY DEF RequestInv
<1>2. info.input = Parse(request.input) /\ CanParse(request.input, TRUE)
  BY <1>1 DEF Parsed, Accepted
<1>3. Described(request.input)
  BY <1>1, RequestsAssumption
<1>4. info.input.class = request.input.type.name
  BY <1>2 DEF Parse, ToLower, Spelled
<1>5. info.input.type = Spelled(request.input.type.name)
  BY <1>2 DEF Parse, ParseType, ToLower
<1>6. /\ request.input.type.name \in IoType(TRUE)
      /\ Readable(Class[request.input.type.name], request.input.data)
  BY <1>2 DEF CanParse, ToLower, Spelled
<1>7. \A x, y : Spelled(x) = Spelled(y) <=> x = y
  BY DEF Spelled
<1>8. IsObs <=> info.input.class = "obs"
  BY <1>4, <1>5, <1>7 DEF IsObs
<1>9. QED
  BY <1>2, <1>3, <1>4, <1>5, <1>6, <1>8

\* The path of an object storage input is the one that was sent.
LEMMA ObsPath ==
  ASSUME RequestInv, pc \notin {"parse", "refused"}, info.input.class = "obs"
  PROVE  /\ info.input.of.path_ = request.input.data["path"]
         /\ info.input.of.path_ \in Text
         /\ info.input.of.bucket_ \in Text
<1> DEFINE c == Class["obs"]
<1>1. /\ c.reads = [bucket_ |-> "bucket", path_ |-> "path"] /\ c.optional = {}
  BY DEF Class, ObsIO
<1>2. /\ "path_" \in DOMAIN c.reads /\ c.reads["path_"] = "path"
      /\ "bucket_" \in DOMAIN c.reads /\ c.reads["bucket_"] = "bucket"
  BY <1>1
<1>3. /\ Readable(c, request.input.data) /\ Described(request.input)
      /\ request.input.type.name = "obs" /\ info.input = Parse(request.input)
  BY InputClass
<1> HIDE DEF c
<1>4. c = Class[request.input.type.name]
  BY <1>3 DEF c
<1>5. ASSUME NEW m \in DOMAIN c.reads
      PROVE  /\ info.input.of[m] = request.input.data[c.reads[m]]
             /\ info.input.of[m] \in Text
  BY <1>1, <1>3, <1>4, MemberValue
<1>6. QED
  BY <1>2, <1>5

\* A path stands for its files when it is empty or ends in "/".
LEMMA DirectoryPaths ==
  ASSUME NEW path \in Text
  PROVE  IsDirectory(path) <=> path = Empty \/ LastSlash[path] + 1 = Length[path]
<1>1. /\ Length[path] \in 0 .. NPos - 1 /\ LastSlash[path] \in 0 .. NPos
      /\ LastSlash[path] = NPos \/ LastSlash[path] < Length[path]
      /\ Length[path] = 0 <=> path = Empty
  BY LengthAssumption
<1>2. QED
  BY <1>1 DEF IsDirectory

\* An object is run as it was sent; only a path that ends in "/", or the empty
\* one, stands for its files.
THEOREM ObjectGivenAsSentHolds == ReqSpec => []ObjectGivenAsSent
<1>1. RequestInv => ObjectGivenAsSent
  <2> SUFFICES ASSUME RequestInv, pc = "running", info.input.class = "obs"
               PROVE  LET sent == request.input.data["path"] IN
                      IF sent = Empty \/ LastSlash[sent] + 1 = Length[sent]
                        THEN given.config.path = pathRunning
                        ELSE given.config.path = sent
    BY DEF ObjectGivenAsSent
  <2>1. IsObs /\ info.input.type.name = "obs"
    BY InputClass DEF Spelled
  <2>2. /\ info.input.of.path_ = request.input.data["path"]
        /\ info.input.of.path_ \in Text
    BY ObsPath
  <2>3. given = BuildModelBoxTaskInputInfo(info.input,
                   IF ListsFiles THEN pathRunning ELSE info.input.of.path_)
    BY <2>1 DEF RequestInv, GivenInv, Filled
  <2>4. given.config.path = IF ListsFiles THEN pathRunning ELSE info.input.of.path_
    BY <2>1, <2>3 DEF BuildModelBoxTaskInputInfo, FillObsInputInfo
  <2>5. ListsFiles <=> \/ request.input.data["path"] = Empty
                       \/ LastSlash[request.input.data["path"]] + 1 =
                             Length[request.input.data["path"]]
    BY <2>1, <2>2, DirectoryPaths DEF ListsFiles
  <2>6. QED
    BY <2>2, <2>4, <2>5
<1>2. QED
  BY <1>1, RequestInvariance, PTL

------------------------------------------------------------------------------
(* What the session tells                                                   *)

\* A member is printed under the field it was read from.
Reprints(class, m) ==
    class.reads[m] \in DOMAIN class.prints /\ class.prints[class.reads[m]] = m

\* The classes whose members are all printed that way, or may be left out.
LEMMA FaithfulClasses ==
  /\ \A n \in {"obs", "vis", "url", "webhook"} :
        \A m \in DOMAIN Class[n].reads : Reprints(Class[n], m)
  /\ \A m \in DOMAIN Class["dis"].reads :
        \/ m \in {"streamName_", "projectId_"} /\ Reprints(Class["dis"], m)
        \/ /\ Class["dis"].reads[m] \in Class["dis"].optional
           /\ Class["dis"].reads[m] \notin DOMAIN Class["dis"].prints
<1>1. \A m \in DOMAIN Class["obs"].reads : Reprints(Class["obs"], m)
  BY DEF Class, Reprints, ObsIO
<1>2. \A m \in DOMAIN Class["vis"].reads : Reprints(Class["vis"], m)
  BY DEF Class, Reprints, VisIO
<1>3. \A m \in DOMAIN Class["url"].reads : Reprints(Class["url"], m)
  BY DEF Class, Reprints, UrlIO
<1>4. \A m \in DOMAIN Class["webhook"].reads : Reprints(Class["webhook"], m)
  BY DEF Class, Reprints, WebhookIO
<1>5. \A m \in DOMAIN Class["dis"].reads :
        \/ m \in {"streamName_", "projectId_"} /\ Reprints(Class["dis"], m)
        \/ /\ Class["dis"].reads[m] \in Class["dis"].optional
           /\ Class["dis"].reads[m] \notin DOMAIN Class["dis"].prints
  BY DEF Class, Reprints, DisIO
<1>6. QED
  BY <1>1, <1>2, <1>3, <1>4, <1>5

\* What is printed can be read again, and the members that are printed under
\* their own fields come back.
LEMMA ReadAgain ==
  ASSUME NEW io, NEW class, class = Class[io.class],
         \A m \in DOMAIN class.reads :
            \/ Reprints(class, m)
            \/ class.reads[m] \in class.optional \ DOMAIN class.prints,
         \A m \in DOMAIN class.reads : io.of[m] \in Text
  PROVE  /\ Readable(class, Printed(io).data)
         /\ Printed(io).type = Spelled(io.class)
         /\ Parse(Printed(io)).class = io.class
         /\ Parse(Printed(io)).type = Spelled(io.class)
         /\ \A m \in DOMAIN class.reads :
               Reprints(class, m) => Parse(Printed(io)).of[m] = io.of[m]
<1> DEFINE desc == Printed(io)
<1>1. /\ desc.type = Spelled(io.class)
      /\ desc.data = [f \in DOMAIN class.prints |-> io.of[class.prints[f]]]
  BY DEF Printed
<1> HIDE DEF desc
<1>2. desc.type.name = io.class
  BY <1>1 DEF Spelled
<1>3. /\ Parse(desc).class = io.class /\ Parse(desc).type = Spelled(io.class)
      /\ Parse(desc).of = Members(class, desc.data)
  BY <1>2 DEF Parse, ParseType, ToLower, Spelled
<1>4. ASSUME NEW m \in DOMAIN class.reads, Reprints(class, m)
      PROVE  /\ class.reads[m] \in DOMAIN desc.data
             /\ desc.data[class.reads[m]] = io.of[m]
  <2>1. PICK f : f = class.reads[m]
    OBVIOUS
  <2>2. f \in DOMAIN class.prints /\ class.prints[f] = m
    BY <1>4, <2>1 DEF Reprints
  <2>3. f \in DOMAIN desc.data /\ desc.data[f] = io.of[class.prints[f]]
    BY <1>1, <2>2
  <2>4. QED
    BY <2>1, <2>2, <2>3
<1>5. Readable(class, desc.data)
  <2>1. DOMAIN desc.data = DOMAIN class.prints
    BY <1>1
  <2>2. ASSUME NEW m \in DOMAIN class.reads
        PROVE  IF class.reads[m] \in DOMAIN desc.data
                 THEN desc.data[class.reads[m]] # Bad
                 ELSE class.reads[m] \in class.optional
    <3>1. CASE Reprints(class, m)
      BY <1>4, <3>1, TextAssumption
    <3>2. CASE class.reads[m] \in class.optional \ DOMAIN class.prints
      BY <2>1, <3>2
    <3>3. QED
      BY <3>1, <3>2
  <2>3. QED
    BY <2>2 DEF Readable
<1>6. \A m \in DOMAIN class.reads : Reprints(class, m) => Parse(desc).of[m] = io.of[m]
  BY <1>3, <1>4 DEF Members
<1>7. QED
  BY <1>1, <1>3, <1>5, <1>6 DEF desc

\* A parsed output, printed and read again, makes the same broker.
LEMMA BrokerAgain ==
  ASSUME NEW desc, CanParse(desc, FALSE), Described(desc),
         NEW io, io = Parse(desc)
  PROVE  /\ CanParse(Printed(io), FALSE)
         /\ Broker(Parse(Printed(io))) = Broker(io)
<1> DEFINE n == desc.type.name
           class == Class[n]
           again == Parse(Printed(io))
<1>1. /\ n \in {"obs", "dis", "webhook"} /\ Readable(class, desc.data)
      /\ io.class = n /\ io.type = Spelled(n)
  BY DEF CanParse, ToLower, Spelled, IoType, Parse, ParseType
<1>2. \A m \in DOMAIN class.reads : io.of[m] \in Text
  BY <1>1, MemberValue
<1>3. \A m \in DOMAIN class.reads :
         \/ Reprints(class, m)
         \/ class.reads[m] \in class.optional \ DOMAIN class.prints
  BY <1>1, FaithfulClasses
<1> HIDE DEF n, class
<1>4. class = Class[io.class]
  BY <1>1 DEF class
<1>5. /\ Readable(class, Printed(io).data) /\ Printed(io).type = Spelled(n)
      /\ again.class = n /\ again.type = Spelled(n)
      /\ \A m \in DOMAIN class.reads : Reprints(class, m) => again.of[m] = io.of[m]
  BY <1>1, <1>2, <1>3, <1>4, ReadAgain
<1>6. CanParse(Printed(io), FALSE)
  <2>1. n \in DOMAIN Class
    BY <1>1 DEF Class
  <2>2. Spelled(n) # Bad
    BY <2>1, BadAssumption
  <2>3. ToLower(Printed(io).type).name = n
    BY <1>5 DEF ToLower, Spelled
  <2>4. QED
    BY <1>1, <1>5, <2>2, <2>3 DEF CanParse, IoType, class
<1> HIDE DEF again
<1>7. ASSUME n = "obs" PROVE Broker(again) = Broker(io)
  <2>1. again.of["bucket_"] = io.of["bucket_"] /\ again.of["path_"] = io.of["path_"]
    BY <1>5, <1>7 DEF class, Class, ObsIO, Reprints
  <2>2. QED
    BY <1>1, <1>5, <1>7, <2>1 DEF Broker, Spelled, FillObsOutputInfo
<1>8. ASSUME n = "dis" PROVE Broker(again) = Broker(io)
  <2>1. /\ again.of["streamName_"] = io.of["streamName_"]
        /\ again.of["projectId_"] = io.of["projectId_"]
    BY <1>5, <1>8 DEF class, Class, DisIO, Reprints
  <2>2. QED
    BY <1>1, <1>5, <1>8, <2>1 DEF Broker, Spelled, FillDisOutputInfo
<1>9. ASSUME n = "webhook" PROVE Broker(again) = Broker(io)
  <2>1. /\ again.of["urlStr_"] = io.of["urlStr_"]
        /\ again.of["headers_"] = io.of["headers_"]
    BY <1>5, <1>9 DEF class, Class, WebhookIO, Reprints
  <2>2. FillWebhookOutputInfo(again) = FillWebhookOutputInfo(io)
    BY <2>1 DEF FillWebhookOutputInfo
  <2>3. QED
    BY <1>1, <1>5, <1>9, <2>2 DEF Broker, Spelled
<1>10. Broker(again) = Broker(io)
  BY <1>1, <1>7, <1>8, <1>9
<1>11. QED
  BY <1>6, <1>10 DEF again

\* Two inputs of one class are described alike when the members that are
\* described are equal.
LEMMA DescribedAlike ==
  ASSUME NEW n \in {"obs", "vis", "url"}, NEW a, NEW b, NEW path,
         a.type = Spelled(n), b.type = Spelled(n),
         n = "obs" => a.of["bucket_"] = b.of["bucket_"],
         n = "vis" => /\ a.of["streamName_"] = b.of["streamName_"]
                      /\ a.of["projectId_"] = b.of["projectId_"],
         n = "url" => a.of["url_"] = b.of["url_"] /\ a.of["url_type_"] = b.of["url_type_"]
  PROVE  BuildModelBoxTaskInputInfo(a, path) = BuildModelBoxTaskInputInfo(b, path)
<1>1. a.type.name = n /\ b.type.name = n /\ SourceType(a) = n /\ SourceType(b) = n
  BY DEF Spelled, SourceType
<1>2. ASSUME n = "obs"
      PROVE  BuildModelBoxTaskInputInfo(a, path) = BuildModelBoxTaskInputInfo(b, path)
  BY <1>1, <1>2 DEF BuildModelBoxTaskInputInfo, FillObsInputInfo
<1>3. ASSUME n = "vis"
      PROVE  BuildModelBoxTaskInputInfo(a, path) = BuildModelBoxTaskInputInfo(b, path)
  BY <1>1, <1>3 DEF BuildModelBoxTaskInputInfo, FillVisInputInfo
<1>4. ASSUME n = "url"
      PROVE  BuildModelBoxTaskInputInfo(a, path) = BuildModelBoxTaskInputInfo(b, path)
  BY <1>1, <1>4 DEF BuildModelBoxTaskInputInfo, FillUrlInputInfo
<1>5. QED
  BY <1>2, <1>3, <1>4

\* An input as a whole: the session prints it.
LEMMA InputAgain ==
  ASSUME RequestInv, pc = "running", info.input.class \notin Misprinted,
         ~ (IsObs /\ pathRunning # Empty)
  PROVE  CanParse(session.input, TRUE) /\ ReadBack(session.input) = given
<1> DEFINE io == info.input
           n == io.class
           class == Class[n]
           again == Parse(Printed(io))
<1>1. /\ io = Parse(request.input) /\ n = request.input.type.name
      /\ io.type = Spelled(n) /\ n \in {"obs", "vis", "url"}
      /\ Readable(class, request.input.data) /\ Described(request.input)
      /\ IsObs <=> n = "obs"
  BY InputClass DEF IoType, Misprinted
<1>2. session.input = Printed(io)
  BY DEF RequestInv, GivenInv, Filled, SessionConfig, GetInputStringForActualPath
<1>3. given = BuildModelBoxTaskInputInfo(io, IF n = "obs" THEN io.of.path_ ELSE Absent)
  BY <1>1 DEF RequestInv, FilesInv, GivenInv, Filled, ListsFiles
<1> HIDE DEF io
<1>4. \A m \in DOMAIN class.reads : io.of[m] \in Text
  BY <1>1, MemberValue
<1>5. /\ Readable(class, Printed(io).data) /\ Printed(io).type = Spelled(n)
      /\ again.class = n /\ again.type = Spelled(n)
      /\ \A m \in DOMAIN class.reads : again.of[m] = io.of[m]
  BY <1>1, <1>4, ReadAgain, FaithfulClasses
<1>6. CanParse(Printed(io), TRUE)
  <2>1. n \in DOMAIN Class
    BY <1>1 DEF Class
  <2>2. Spelled(n) # Bad
    BY <2>1, BadAssumption
  <2>3. ToLower(Printed(io).type).name = n
    BY <1>5 DEF ToLower, Spelled
  <2>4. QED
    BY <1>1, <1>5, <2>2, <2>3 DEF CanParse, IoType
<1>7. /\ n = "obs" => again.of["bucket_"] = io.of["bucket_"]
      /\ n = "obs" => again.of["path_"] = io.of["path_"]
  BY <1>5 DEF Class, ObsIO
<1>8. n = "vis" => /\ again.of["streamName_"] = io.of["streamName_"]
                   /\ again.of["projectId_"] = io.of["projectId_"]
  BY <1>5 DEF Class, VisIO
<1>9. n = "url" => again.of["url_"] = io.of["url_"] /\ again.of["url_type_"] = io.of["url_type_"]
  BY <1>5 DEF Class, UrlIO
<1>10. ReadBack(Printed(io)) =
          BuildModelBoxTaskInputInfo(again, IF n = "obs" THEN io.of.path_ ELSE Absent)
  BY <1>5, <1>7 DEF ReadBack
<1> HIDE DEF again, n, class
<1>11. ReadBack(Printed(io)) = given
  BY <1>1, <1>3, <1>5, <1>7, <1>8, <1>9, <1>10, DescribedAlike
<1>12. QED
  BY <1>2, <1>6, <1>11

\* A file of a directory: the session names the file.
LEMMA FileAgain ==
  ASSUME RequestInv, pc = "running", IsObs, pathRunning # Empty
  PROVE  CanParse(session.input, TRUE) /\ ReadBack(session.input) = given
<1> DEFINE io == info.input
           desc == [type |-> Spelled("obs"),
                    data |-> [bucket |-> io.of.bucket_, path |-> pathRunning]]
           again == Parse(desc)
<1>1. /\ io.class = "obs" /\ io.type = Spelled("obs")
      /\ io.of.bucket_ \in Text /\ pathRunning \in Text
  BY InputClass, ObsPath DEF RequestInv, PathsInv
<1>2. session.input = desc
  BY DEF RequestInv, GivenInv, Filled, SessionConfig, GetInputStringForActualPath
<1>3. given = BuildModelBoxTaskInputInfo(io, pathRunning)
  BY DEF RequestInv, FilesInv, GivenInv, Filled, HasDirectory
<1>4. desc.data.bucket = io.of.bucket_ /\ desc.data.path = pathRunning
  OBVIOUS
<1>5. /\ DOMAIN desc.data = {"bucket", "path"} /\ desc.type = Spelled("obs")
      /\ desc.type.name = "obs"
  BY DEF Spelled
<1> HIDE DEF io, desc
<1>6. /\ Class["obs"].reads = [bucket_ |-> "bucket", path_ |-> "path"]
      /\ Class["obs"].optional = {}
  BY DEF Class, ObsIO
<1>7. Readable(Class["obs"], desc.data)
  BY <1>1, <1>4, <1>5, <1>6, TextAssumption DEF Readable
<1>8. again.of = [m \in {"bucket_", "path_"} |->
                     IF m = "bucket_" THEN io.of.bucket_ ELSE pathRunning]
  BY <1>4, <1>5, <1>6 DEF Parse, ToLower, Spelled, Members
<1>9. again.class = "obs" /\ again.type = Spelled("obs")
  BY <1>5 DEF Parse, ParseType, ToLower, Spelled
<1>10. CanParse(desc, TRUE)
  <2>1. Spelled("obs") # Bad
    BY BadAssumption DEF Class
  <2>2. ToLower(desc.type).name = "obs"
    BY <1>5 DEF ToLower, Spelled
  <2>3. QED
    BY <1>5, <1>7, <2>1, <2>2 DEF CanParse, IoType
<1>11. ReadBack(desc) = BuildModelBoxTaskInputInfo(again, pathRunning)
  BY <1>8, <1>9 DEF ReadBack
<1> HIDE DEF again
<1>12. again.of["bucket_"] = io.of["bucket_"]
  BY <1>8
<1>13. ReadBack(desc) = given
  BY <1>1, <1>3, <1>9, <1>11, <1>12, DescribedAlike
<1>14. QED
  BY <1>2, <1>10, <1>13

\* The session names the input the engine task was given, and the outputs its
\* broker was configured with: read again, it leads to the same descriptions.
THEOREM SessionTellsTaskHolds == ReqSpec => []SessionTellsTask
<1>1. RequestInv => SessionTellsTask
  <2> SUFFICES ASSUME RequestInv, pc = "running" PROVE SessionTellsTask
    BY DEF SessionTellsTask
  <2>1. info.input.class \notin Misprinted =>
           CanParse(session.input, TRUE) /\ ReadBack(session.input) = given
    BY InputAgain, FileAgain
  <2>2. ASSUME NEW i \in DOMAIN session.outputs
        PROVE  /\ CanParse(session.outputs[i], FALSE)
               /\ Broker(Parse(session.outputs[i])) = session.brokers[i]
    <3>1. info = Parsed /\ Accepted /\ request \in Creates /\ session = SessionConfig
      BY DEF RequestInv, GivenInv, Filled
    <3>2. /\ i \in DOMAIN info.outputs
          /\ session.outputs[i] = Printed(info.outputs[i])
          /\ session.brokers[i] = Broker(info.outputs[i])
      BY <3>1, <2>2 DEF SessionConfig
    <3>3. /\ i \in DOMAIN request.outputs
          /\ info.outputs[i] = Parse(request.outputs[i])
      BY <3>1, <3>2 DEF Parsed
    <3>4. CanParse(request.outputs[i], FALSE) /\ Described(request.outputs[i])
      BY <3>1, <3>3, RequestsAssumption DEF Accepted
    <3>5. QED
      BY <3>2, <3>3, <3>4, BrokerAgain
  <2>3. QED
    BY <2>1, <2>2 DEF SessionTellsTask
<1>2. QED
  BY <1>1, RequestInvariance, PTL

------------------------------------------------------------------------------
(* The files of a directory                                                 *)

\* The abstract state, by the place of the request.
AbstractInv ==
    /\ PieceInUse = IF pc \in {"running", "finished"}
                      THEN IF ListsFiles THEN pathRunning ELSE Whole
                      ELSE Absent
    /\ pc \in {"parse", "init"} => Todo = {} /\ Phase = "new"
    /\ pc \in {"create", "fill"} \cup Filled =>
          /\ Phase = "open"
          /\ Todo = IF ListsFiles
                      THEN Range(pathList) \cup
                              (IF pc \in {"config", "start"}
                                 THEN {pathRunning} ELSE {})
                      ELSE IF pc \in {"running", "finished"} THEN {} ELSE {Whole}
    /\ pc \in Ended => Phase = pc /\ Todo = Range(pathList) /\ PieceInUse = Absent

\* The invariant determines it.
LEMMA AbstractState == RequestInv => AbstractInv
<1> SUFFICES ASSUME RequestInv PROVE AbstractInv
  OBVIOUS
<1>1. /\ pc \in {"parse", "init"} => ~ HasDirectory
      /\ pc \in {"create", "fill"} \cup Filled => (HasDirectory <=> ListsFiles)
      /\ pc # "unsupported"
  BY DEF RequestInv, FilesInv, HasDirectory, Filled, Ended
<1>2. ~ HasDirectory => Range(pathList) = {}
  BY NoFiles DEF HasDirectory
<1>3. PieceInUse = IF pc \in {"running", "finished"}
                     THEN IF ListsFiles THEN pathRunning ELSE Whole
                     ELSE Absent
  BY <1>1 DEF PieceInUse, Working, Filled
<1>4. pc \in {"parse", "init"} => Todo = {} /\ Phase = "new"
  BY <1>1 DEF Todo, Phase, NotStarted, Working
<1>5. pc \in {"create", "fill"} \cup Filled =>
        /\ Phase = "open"
        /\ Todo = IF ListsFiles
                    THEN Range(pathList) \cup
                            (IF pc \in {"config", "start"} THEN {pathRunning} ELSE {})
                    ELSE IF pc \in {"running", "finished"} THEN {} ELSE {Whole}
  BY <1>1 DEF Todo, Phase, NotStarted, Taken, Working, Filled
<1>6. pc \in Ended => Phase = pc /\ Todo = Range(pathList) /\ PieceInUse = Absent
  BY <1>1, <1>2 DEF Todo, Phase, PieceInUse, NotStarted, Taken, Working, Ended
<1>7. QED
  BY <1>3, <1>4, <1>5, <1>6 DEF AbstractInv

\* ... before a step and after it.
LEMMA AbstractNext ==
  ASSUME RequestInv, RequestInv'
  PROVE  AbstractInv /\ AbstractInv'
<1>1. RequestInv' => AbstractInv'
  BY AbstractState, PTL
<1>2. QED
  BY <1>1, AbstractState

\* The body and the directory: refused, or accepted with its pieces.
LEMMA AcceptImplements ==
  ASSUME RequestInv, RequestInv', ParseTaskInfo \/ InitMATask
  PROVE  Promise!Next \/ UNCHANGED Promise!fVars
<1>1. pc \in {"parse", "init"} /\ Todo = {} /\ Phase = "new" /\ PieceInUse = Absent
  BY AbstractNext DEF AbstractInv, ParseTaskInfo, InitMATask
<1>2. CASE pc' = "refused"
  <2>1. pathList' = <<>>
    BY <1>2 DEF ParseTaskInfo, InitMATask, RequestInv, FilesInv, HasDirectory
  <2>2. Todo' = {} /\ Phase' = "refused" /\ PieceInUse' = Absent
    BY <1>2, <2>1, AbstractNext, NoFiles DEF AbstractInv, Ended
  <2>3. QED
    BY <1>1, <2>2 DEF Promise!Next, Promise!Refuse
<1>3. CASE pc' = "init"
  <2>1. Todo' = {} /\ Phase' = "new" /\ PieceInUse' = Absent
    BY <1>3, AbstractNext DEF AbstractInv
  <2>2. QED
    BY <1>1, <2>1 DEF Promise!fVars
<1>4. CASE pc' = "create"
  <2>1. /\ Phase' = "open" /\ PieceInUse' = Absent
        /\ Todo' = IF ListsFiles' THEN Range(pathList') ELSE {Whole}
    BY <1>4, AbstractNext DEF AbstractInv
  <2>2. ListsFiles' => Range(pathList') # {} /\ Range(pathList') \subseteq Text
    <3>1. ListsFiles' => pathList' # <<>>
      BY <1>4 DEF RequestInv, FilesInv, Filled
    <3>2. pathList' \in Seq(Text \ {Empty})
      BY DEF RequestInv, PathsInv
    <3>3. Range(pathList') \subseteq Text
      BY <3>2, ElementOfSeq, LenProperties DEF Range
    <3>4. QED
      BY <3>1, <3>2, <3>3, NoFiles
  <2>3. Todo' \subseteq Text \cup {Whole} /\ Todo' # {}
    BY <2>1, <2>2
  <2>4. QED
    BY <1>1, <2>1, <2>3 DEF Promise!Next, Promise!Accept
<1>5. QED
  BY <1>2, <1>3, <1>4 DEF ParseTaskInfo, InitMATask

\* A run that fails, or an engine task that does not end by itself, cuts the
\* rest short.
LEMMA CutShortImplements ==
  ASSUME RequestInv, RequestInv', pc \in {"create", "fill"} \cup Filled,
         pc' \in {"refused", "stopped", "failed", "lost"},
         Range(pathList') \subseteq Range(pathList), ListsFiles \/ pathList' = <<>>
  PROVE  Promise!Next
<1>1. Phase = "open"
  BY AbstractNext DEF AbstractInv
<1>2. Phase' = pc' /\ PieceInUse' = Absent /\ Todo' = Range(pathList')
  BY AbstractNext DEF AbstractInv, Ended
<1>3. Todo' \subseteq Todo
  BY <1>2, AbstractNext, NoFiles DEF AbstractInv
<1>4. QED
  BY <1>1, <1>2, <1>3 DEF Promise!Next, Promise!CutShort

\* Filling the engine task takes a file, which stays to be given.
LEMMA FillImplements ==
  ASSUME RequestInv, RequestInv', FillInputData
  PROVE  Promise!Next \/ UNCHANGED Promise!fVars
<1>1. /\ pc = "fill" /\ UNCHANGED info /\ TakePath
      /\ pc' \in {"config", "refused", "lost"}
  <2>1. pc = "fill" /\ UNCHANGED info /\ Accepted /\ info = Parsed
    BY DEF FillInputData, RequestInv, Ended
  <2>2. QED
    BY <2>1, AcceptedIsSupported DEF FillInputData, RunFails
<1>2. ListsFiles' = ListsFiles
  BY <1>1 DEF ListsFiles, IsObs
<1>3. IF ListsFiles THEN IsObs /\ pathList # <<>> ELSE pathList = <<>>
  BY <1>1 DEF RequestInv, FilesInv, HasDirectory, Filled, ListsFiles
<1>4. /\ ListsFiles => Range(pathList) = Range(pathList') \cup {pathRunning'}
      /\ ~ ListsFiles => pathList' = <<>>
  BY <1>1, <1>3, TakeKeepsPaths DEF RequestInv
<1>5. CASE pc' = "config"
  <2>1. /\ Phase = "open" /\ PieceInUse = Absent
        /\ Todo = IF ListsFiles THEN Range(pathList) ELSE {Whole}
    BY <1>1, AbstractNext DEF AbstractInv
  <2>2. /\ Phase' = "open" /\ PieceInUse' = Absent
        /\ Todo' = IF ListsFiles' THEN Range(pathList') \cup {pathRunning'}
                                  ELSE {Whole}
    BY <1>5, AbstractNext DEF AbstractInv, Filled
  <2>3. Phase' = Phase /\ PieceInUse' = PieceInUse /\ Todo' = Todo
    BY <1>2, <1>4, <2>1, <2>2
  <2>4. QED
    BY <2>3 DEF Promise!fVars
<1>6. CASE pc' \in {"refused", "lost"}
  BY <1>1, <1>4, <1>6, CutShortImplements, NoFiles
<1>7. QED
  BY <1>1, <1>5, <1>6

\* The start gives the piece to the engine.
LEMMA StartImplements ==
  ASSUME RequestInv, RequestInv', StartEngineTask
  PROVE  Promise!Next \/ UNCHANGED Promise!fVars
<1>1. /\ pc = "start" /\ UNCHANGED <<info, pathList, pathRunning>>
      /\ pc' \in {"running", "refused", "lost"}
  BY DEF StartEngineTask, RunFails
<1>2. ListsFiles' = ListsFiles
  BY <1>1 DEF ListsFiles, IsObs
<1>3. CASE pc' = "running"
  <2>1. /\ Phase = "open" /\ Phase' = "open" /\ PieceInUse = Absent
        /\ Todo = IF ListsFiles THEN Range(pathList) \cup {pathRunning} ELSE {Whole}
        /\ Todo' = IF ListsFiles THEN Range(pathList) ELSE {}
        /\ PieceInUse' = IF ListsFiles THEN pathRunning ELSE Whole
    BY <1>1, <1>2, <1>3, AbstractNext DEF AbstractInv, Filled
  <2>2. pathRunning \in Text /\ pathRunning \notin Range(pathList)
    BY DEF RequestInv, PathsInv
  <2>3. PICK p \in Text \cup {Whole} : p = IF ListsFiles THEN pathRunning ELSE Whole
    BY <2>2
  <2>4. p \in Todo /\ Todo' = Todo \ {p} /\ PieceInUse' = p
    BY <2>1, <2>2, <2>3
  <2>5. Promise!Give(p)
    BY <2>1, <2>4 DEF Promise!Give
  <2>6. QED
    BY <2>5 DEF Promise!Next
<1>4. CASE pc' \in {"refused", "lost"}
  <2>1. ListsFiles \/ pathList' = <<>>
    BY <1>1 DEF RequestInv, FilesInv, HasDirectory, Filled
  <2>2. QED
    BY <1>1, <1>4, <2>1, CutShortImplements DEF Filled
<1>5. QED
  BY <1>1, <1>3, <1>4

\* The end of an engine task, and what follows.
LEMMA EndImplements ==
  ASSUME RequestInv, RequestInv', EngineEnds \/ StatusCallBack
  PROVE  Promise!Next \/ UNCHANGED Promise!fVars
<1>1. UNCHANGED <<info, pathList, pathRunning>> /\ pc \in {"running", "finished"}
  BY DEF EngineEnds, EngineTaskEnds, StatusCallBack
<1>2. ListsFiles' = ListsFiles
  BY <1>1 DEF ListsFiles, IsObs
<1>3. /\ Phase = "open" /\ Todo = IF ListsFiles THEN Range(pathList) ELSE {}
      /\ PieceInUse = IF ListsFiles THEN pathRunning ELSE Whole
  BY <1>1, AbstractNext DEF AbstractInv, Filled
<1>4. ~ ListsFiles => pathList = <<>>
  BY <1>1 DEF RequestInv, FilesInv, HasDirectory, Filled
<1>5. CASE EngineEnds
  <2>1. pc' \in {"finished", "stopped", "failed"}
    BY <1>5 DEF EngineEnds, EngineTaskEnds
  <2>2. CASE pc' = "finished"
    <3>1. Phase' = Phase /\ Todo' = Todo /\ PieceInUse' = PieceInUse
      BY <1>1, <1>2, <1>3, <2>2, AbstractNext DEF AbstractInv, Filled
    <3>2. QED
      BY <3>1 DEF Promise!fVars
  <2>3. CASE pc' \in {"stopped", "failed"}
    BY <1>1, <1>4, <2>3, CutShortImplements DEF Filled
  <2>4. QED
    BY <2>1, <2>2, <2>3
<1>6. CASE StatusCallBack
  <2>1. PieceInUse # Absent
    BY <1>3, RequestsAssumption DEF RequestInv, PathsInv
  <2>2. pc' = IF pathList = <<>> THEN "done" ELSE "create"
    BY <1>6 DEF StatusCallBack
  <2>3. CASE pathList = <<>>
    <3>1. Phase' = "done" /\ PieceInUse' = Absent /\ Todo' = {} /\ Todo = {}
      BY <1>1, <1>3, <2>2, <2>3, AbstractNext, NoFiles DEF AbstractInv, Ended
    <3>2. QED
      BY <1>3, <2>1, <3>1 DEF Promise!Next, Promise!Finish
  <2>4. CASE pathList # <<>>
    <3>1. Phase' = "open" /\ PieceInUse' = Absent /\ Todo' = Todo
      BY <1>1, <1>2, <1>3, <1>4, <2>2, <2>4, AbstractNext DEF AbstractInv
    <3>2. QED
      BY <1>3, <2>1, <3>1 DEF Promise!Next, Promise!Finish
  <2>5. QED
    BY <2>3, <2>4
<1>7. QED
  BY <1>5, <1>6

\* Every file of a directory is given to the engine once, one at a time, and
\* the task is done only when each was finished: a request implements the
\* promise, step by step.
THEOREM FilesRunImplemented == ReqSpec => ImplementsFilesRun
<1>1. ReqInit => Promise!Init
  <2> SUFFICES ASSUME ReqInit PROVE Promise!Init
    OBVIOUS
  <2>1. RequestInv /\ pc = "parse"
    BY RequestStart DEF ReqInit
  <2>2. Todo = {} /\ PieceInUse = Absent /\ Phase = "new"
    BY <2>1, AbstractState DEF AbstractInv
  <2>3. QED
    BY <2>2 DEF Promise!Init
<1>2. RequestInv /\ RequestInv' /\ [ReqNext]_reqVars => [Promise!Next]_Promise!fVars
  <2> SUFFICES ASSUME RequestInv, RequestInv', [ReqNext]_reqVars
               PROVE  Promise!Next \/ UNCHANGED Promise!fVars
    OBVIOUS
  <2>1. CASE UNCHANGED reqVars
    BY <2>1 DEF reqVars, Promise!fVars, Todo, PieceInUse, Phase, HasDirectory, Taken
  <2>2. CASE CreateEngineTask
    <3>1. /\ pc = "create" /\ pc' \in {"fill", "refused", "lost"}
          /\ UNCHANGED <<info, pathList, pathRunning>>
      BY <2>2 DEF CreateEngineTask, RunFails
    <3>2. CASE pc' = "fill"
      <4>1. Phase' = Phase /\ Todo' = Todo /\ PieceInUse' = PieceInUse
        BY <3>1, <3>2, AbstractNext DEF AbstractInv, ListsFiles, IsObs
      <4>2. QED
        BY <4>1 DEF Promise!fVars
    <3>3. CASE pc' \in {"refused", "lost"}
      <4>1. ListsFiles \/ pathList' = <<>>
        BY <3>1 DEF RequestInv, FilesInv, HasDirectory
      <4>2. QED
        BY <3>1, <3>3, <4>1, CutShortImplements
    <3>4. QED
      BY <3>1, <3>2, <3>3
  <2>3. CASE FillSessionConfig
    <3>1. /\ pc = "config" /\ UNCHANGED <<info, pathList, pathRunning>>
          /\ Accepted /\ info = Parsed
      BY <2>3 DEF FillSessionConfig, RequestInv, Ended
    <3>2. pc' = "start"
      BY <2>3, <3>1, AcceptedIsSupported DEF FillSessionConfig
    <3>3. Phase' = Phase /\ Todo' = Todo /\ PieceInUse' = PieceInUse
      BY <3>1, <3>2, AbstractNext DEF AbstractInv, ListsFiles, IsObs, Filled
    <3>4. QED
      BY <3>3 DEF Promise!fVars
  <2>4. QED
    BY <2>1, <2>2, <2>3, AcceptImplements, FillImplements, StartImplements,
       EndImplements DEF ReqNext, Run
<1>3. QED
  BY <1>1, <1>2, RequestInvariance, PTL
     DEF ReqSpec, ImplementsFilesRun, Promise!Spec

=============================================================================
