------------------------------- MODULE TaskIO -------------------------------
(***************************************************************************)
(* The inputs and outputs of a task: how the classes of task_io.cc read a   *)
(* JSON description into members and print the members back, and how        *)
(* MATask turns the members into the description it gives to the engine.    *)
(*                                                                         *)
(* A description is a record [type, data]: a type with the case it was      *)
(* spelled in, and a function from the fields that are present under        *)
(* "/data" to their values.  Which member is read from, and printed to,     *)
(* which field is kept exactly; a value is an element of Text, or Bad when  *)
(* it has the wrong JSON type.                                              *)
(***************************************************************************)
EXTENDS Naturals, TLC

CONSTANTS
    Text,        \* well-typed values of fields
    Bad,         \* a value of the wrong JSON type
    Empty,       \* the empty string, and the empty list of headers
    StreamUrls,  \* the values that match ^rt[sm]p://.*$
    Length,      \* length() of a value
    LastSlash,   \* rfind("/") of a value
    SizeWidth    \* width of size_t

Words == {"stream", "file", "1", "sdk", "restful"}

NPos == 2 ^ SizeWidth - 1

ASSUME TextAssumption ==
    /\ Empty \in Text /\ Words \subseteq Text /\ Bad \notin Text
    /\ StreamUrls \subseteq Text
    /\ SizeWidth \in Nat \ {0}

ASSUME LengthAssumption ==
    /\ Length \in [Text -> 0 .. NPos - 1]
    /\ LastSlash \in [Text -> 0 .. NPos]
    /\ \A v \in Text : LastSlash[v] = NPos \/ LastSlash[v] < Length[v]
    /\ \A v \in Text : Length[v] = 0 <=> v = Empty

------------------------------------------------------------------------------
(* The classes: the field each member is read from, the fields that may be  *)
(* absent, and the member each field is printed from.                       *)

ObsIO ==
    [reads    |-> [bucket_ |-> "bucket", path_ |-> "path"],
     optional |-> {},
     prints   |-> [bucket |-> "bucket_", path |-> "path_"]]

VisIO ==
    [reads    |-> [streamName_ |-> "stream_name", projectId_ |-> "project_id"],
     optional |-> {"project_id"},
     prints   |-> [stream_name |-> "streamName_", project_id |-> "projectId_"]]

\* Mutant: the project is printed from the stream id.
DisIO_WrongMember ==
    [reads    |-> [streamName_ |-> "stream_name", projectId_ |-> "project_id",
                   streamId_ |-> "stream_id"],
     optional |-> {"stream_id"},
     prints   |-> [stream_name |-> "streamName_", project_id |-> "streamId_"]]

DisIO ==
    [reads    |-> [streamName_ |-> "stream_name", projectId_ |-> "project_id",
                   streamId_ |-> "stream_id"],
     optional |-> {"stream_id"},
     prints   |-> [stream_name |-> "streamName_", project_id |-> "projectId_"]]

EdgeCameraIO ==
    [reads    |-> [streamId_ |-> "id", rtspStr_ |-> "rtsp"],
     optional |-> {},
     prints   |-> [id |-> "streamId_", rstp |-> "rtspStr_"]]

UrlIO ==
    [reads    |-> [url_ |-> "url", url_type_ |-> "url_type"],
     optional |-> {"url_type"},
     prints   |-> [url |-> "url_", url_type |-> "url_type_"]]

EdgeRestfulIO ==
    [reads    |-> [urlStr_ |-> "url", certificate_ |-> "certificate",
                   rtspPath_ |-> "rtsp_path", headers_ |-> "headers"],
     optional |-> {"headers"},
     prints   |-> [url |-> "urlStr_", url_type |-> "rtspPath_",
                   certificate |-> "certificate_", headers |-> "headers_"]]

VcnIO ==
    [reads    |-> [streamId_ |-> "stream_id", streamType_ |-> "stream_type",
                   ip_ |-> "stream_ip", port_ |-> "stream_port",
                   userName_ |-> "stream_user", password_ |-> "stream_pwd",
                   vcnProtocol_ |-> "protocol"],
     optional |-> {"stream_type", "protocol"},
     prints   |-> [stream_id |-> "ip_", stream_type |-> "streamType_",
                   stream_ip |-> "streamId_", stream_port |-> "port_",
                   stream_user |-> "userName_", stream_pwd |-> "password_",
                   protocol |-> "vcnProtocol_"]]

WebhookIO ==
    [reads    |-> [urlStr_ |-> "url", headers_ |-> "headers"],
     optional |-> {},
     prints   |-> [url |-> "urlStr_", headers |-> "headers_"]]

\* The class made for a type name; REGISTER_TASK_IO says in which direction.
Class == [obs |-> ObsIO, vis |-> VisIO, dis |-> DisIO,
          edgecamera |-> EdgeCameraIO, url |-> UrlIO,
          restful |-> EdgeRestfulIO, vcn |-> VcnIO, webhook |-> WebhookIO]

\* ioType_ after static initialisation.
IoType(isInput) ==
    IF isInput THEN {"obs", "vis", "edgecamera", "url", "restful", "vcn"}
               ELSE {"obs", "dis", "webhook"}

\* A type as it is spelled: its letters, and whether some are upper case.
Spelled(name) == [name |-> name, upper |-> FALSE]

ASSUME BadAssumption == \A n \in DOMAIN Class : Spelled(n) # Bad

ToLower(type) == Spelled(type.name)

\* Mutant: only the factory changes the case.
ParseType_AsSpelled(desc) == desc.type

\* TaskIO::Parse, which every class calls first: the type_ member.
ParseType(desc) == ToLower(desc.type)

\* What a member is when its field is absent.
Default(field, data) ==
    CASE field = "url_type"    -> IF data["url"] \in StreamUrls
                                    THEN "stream" ELSE "file"
      [] field = "stream_type" -> "1"
      [] field = "protocol"    -> "restful"
      [] OTHER                 -> Empty

\* No get<>() of the class throws.
Readable(class, data) ==
    \A m \in DOMAIN class.reads : LET f == class.reads[m] IN
        IF f \in DOMAIN data THEN data[f] # Bad ELSE f \in class.optional

Members(class, data) ==
    [m \in DOMAIN class.reads |-> LET f == class.reads[m] IN
        IF f \in DOMAIN data THEN data[f] ELSE Default(f, data)]

\* IOFactory::Parse succeeds, and the object it makes.
CanParse(desc, isInput) ==
    /\ desc.type # Bad
    /\ ToLower(desc.type).name \in IoType(isInput)
    /\ Readable(Class[ToLower(desc.type).name], desc.data)

Parse(desc) ==
    LET name == ToLower(desc.type).name IN
    [class |-> name, type |-> ParseType(desc),
     of |-> Members(Class[name], desc.data)]

\* ToString of the object's class.
Printed(io) ==
    LET prints == Class[io.class].prints IN
    [type |-> Spelled(io.class),
     data |-> [f \in DOMAIN prints |-> io.of[prints[f]]]]

------------------------------------------------------------------------------
(* MATask's description of an input, given the path in use, and of an       *)
(* output.  Endpoints come from the configuration.                          *)

\* Mutant: a path with any "/" is taken for a directory.
IsDirectory_AnySlash(path) == LastSlash[path] # NPos

\* MATask::Init takes an obs path for a directory when its last "/" is its
\* last character; length() - 1 is a size_t, so the empty path is one too.
IsDirectory(path) ==
    LastSlash[path] = IF Length[path] = 0 THEN NPos ELSE Length[path] - 1

WithHeaders(info, headers) ==
    IF headers = Empty THEN info ELSE info @@ [headers |-> headers]

FillObsInputInfo(io, path) ==
    [obsEndPoint |-> "endpoint.obs", bucket |-> io.of.bucket_, path |-> path]

FillVisInputInfo(io) ==
    [visEndPoint |-> "endpoint.vis", streamName |-> io.of.streamName_,
     projectId |-> io.of.projectId_]

\* The password stays as it was configured: DecryptFromBase64 fails, or throws
\* (see Cipher).
FillVcnInputInfo(io) ==
    [ip |-> io.of.ip_, port |-> io.of.port_, userName |-> io.of.userName_,
     password |-> io.of.password_, cameraCode |-> io.of.streamId_,
     streamType |-> io.of.streamType_]

FillCameraInputInfo(io) == [url |-> io.of.rtspStr_, url_type |-> "stream"]

FillUrlInputInfo(io) == [url |-> io.of.url_, url_type |-> io.of.url_type_]

FillEdgeRestfulInputInfo(io) ==
    WithHeaders([request_url |-> io.of.urlStr_,
                 response_url_position |-> io.of.rtspPath_], io.of.headers_)

\* The types the two dispatchers of MATask know; the others are STATUS_FAULT.
InputSupported(type) ==
    \E n \in {"obs", "vis", "vcn", "edgecamera", "url", "restful"} :
        type = Spelled(n)

OutputSupported(type) == \E n \in {"obs", "dis", "webhook"} : type = Spelled(n)

SourceType(io) ==
    CASE io.type.name = "vcn" -> IF io.of.vcnProtocol_ = "sdk"
                                   THEN "vcn" ELSE "vcn_restful"
      [] io.type.name = "edgecamera" -> "url"
      [] OTHER -> io.type.name

BuildModelBoxTaskInputInfo(io, path) ==
    [source_type |-> SourceType(io),
     config |-> CASE io.type.name = "obs" -> FillObsInputInfo(io, path)
                  [] io.type.name = "vis" -> FillVisInputInfo(io)
                  [] io.type.name = "vcn" -> FillVcnInputInfo(io)
                  [] io.type.name = "edgecamera" -> FillCameraInputInfo(io)
                  [] io.type.name = "url" -> FillUrlInputInfo(io)
                  [] OTHER -> FillEdgeRestfulInputInfo(io)]

FillDisOutputInfo(io) ==
    [disEndPoint |-> "endpoint.dis", region |-> "region",
     steamName |-> io.of.streamName_, projectId |-> io.of.projectId_]

FillObsOutputInfo(io) ==
    [obsEndPoint |-> "endpoint.obs", bucket |-> io.of.bucket_,
     path |-> io.of.path_]

FillWebhookOutputInfo(io) ==
    WithHeaders([url |-> io.of.urlStr_], io.of.headers_)

\* One broker of BuildModelBoxTaskOutputInfo.
Broker(io) ==
    [type |-> io.type.name, name |-> io.type.name,
     cfg |-> CASE io.type.name = "obs" -> FillObsOutputInfo(io)
               [] io.type.name = "dis" -> FillDisOutputInfo(io)
               [] OTHER -> FillWebhookOutputInfo(io)]

=============================================================================
