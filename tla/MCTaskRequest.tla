--------------------------- MODULE MCTaskRequest ---------------------------
(* Requests that differ from a good one in one field, in the type, or in its *)
(* spelling; directories of up to three files.                               *)
EXTENDS TaskRequest, FiniteSets

\* The value of a field is the field's name, except where values matter.
Plain == {"bucket", "stream_name", "project_id", "stream_id", "id", "rtsp",
          "url", "url_type", "certificate", "rtsp_path", "headers",
          "stream_type", "stream_ip", "stream_port", "stream_user", "stream_pwd"}

\* As in the tests: an object, and a directory; and the root, an object at
\* the root, and the files of a directory.
ObsPaths == {"input/test", "input/", "/", "test"}
FileNames == {"input/a", "input/b", "input/c"}

MCText == Plain \cup ObsPaths \cup FileNames \cup Words \cup {"", "rtsp://url"}

MCStreamUrls == {"rtsp://url"}

MCLength == [v \in MCText |->
    CASE v = "" -> 0 [] v = "/" -> 1 [] v = "test" -> 4
      [] v = "input/" -> 6 [] OTHER -> 10]

MCLastSlash == [v \in MCText |->
    CASE v = "/" -> 0 [] v \in {"input/", "input/test"} \cup FileNames -> 5
      [] v = "rtsp://url" -> 6 [] OTHER -> NPos]

MCListings == {<<>>} \cup {<<"input/a">>, <<"input/a", "input/b">>,
                           <<"input/a", "input/b", "input/c">>}

Values(f) ==
    CASE f = "path"     -> ObsPaths \cup {""}
      [] f = "protocol" -> {"restful", "sdk"}
      [] f = "url"      -> {"url", "rtsp://url"}
      [] f = "url_type" -> {"file", "stream"}
      [] f = "headers"  -> {"headers", ""}
      [] OTHER          -> {f}

\* All fields of a class, with one value each.
Complete(class) ==
    [f \in {class.reads[m] : m \in DOMAIN class.reads} |->
        CHOOSE v \in Values(f) : TRUE]

\* The same data with one field of another value, of a wrong type, or absent.
Varied(data) ==
    {data} \cup
    UNION {{[data EXCEPT ![f] = v] : v \in Values(f) \cup {Bad}}
              : f \in DOMAIN data} \cup
    {[g \in DOMAIN data \ {f} |-> data[g]] : f \in DOMAIN data}

Descriptions(names) ==
    UNION {{[type |-> [name |-> n, upper |-> u], data |-> d] :
               u \in BOOLEAN,
               d \in UNION {Varied(v) : v \in Varied(Complete(Class[n]))}} :
           n \in names}

Unsupported == [type |-> [name |-> "kafka", upper |-> FALSE],
                data |-> [topic |-> "url"]]
NoType == [type |-> Bad, data |-> Complete(UrlIO)]

GoodInput == [type |-> Spelled("obs"),
              data |-> [bucket |-> "bucket", path |-> "input/"]]

\* Every input with no output; a good input with every output, alone and
\* next to each class of output.
GoodOutputs == {[type |-> Spelled(n), data |-> Complete(Class[n])] :
                   n \in {"obs", "dis", "webhook"}}

OneOutput == Descriptions({"obs", "dis", "webhook", "vis"}) \cup
             {Unsupported, NoType}

Body(id, input, outputs) == [id |-> id, input |-> input, outputs |-> outputs]

MCCreates ==
    {Body("id", i, <<>>) :
        i \in Descriptions(DOMAIN Class) \cup {Unsupported, NoType}} \cup
    {Body("id", GoodInput, <<o>>) : o \in OneOutput} \cup
    {Body("id", GoodInput, <<o, p>>) :
        o \in GoodOutputs, p \in GoodOutputs \cup {Unsupported}} \cup
    {Body(t, GoodInput, <<>>) : t \in {"", Bad}}
=============================================================================
