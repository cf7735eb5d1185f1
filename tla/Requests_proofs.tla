--------------------------- MODULE Requests_proofs ---------------------------
(***************************************************************************)
(* The client from the document it reads to its answers, for any documents, *)
(* paths and bodies.                                                        *)
(***************************************************************************)
EXTENDS Requests, SequenceTheorems, TLAPS

------------------------------------------------------------------------------
(* Sequences                                                                *)

\* A sequence over a set is one over a larger set.
LEMMA LargerSeq ==
  ASSUME NEW S, NEW T, S \subseteq T, NEW s \in Seq(S)
  PROVE  s \in Seq(T)
BY LenProperties

\* A sequence is its prefix and the rest behind it.
LEMMA PrefixAndRest ==
  ASSUME NEW S, NEW s \in Seq(S), NEW t \in Seq(S), IsPrefix(s, t)
  PROVE  t = s \o SubSeq(t, Len(s) + 1, Len(t))
<1> DEFINE r == SubSeq(t, Len(s) + 1, Len(t))
<1>1. Len(s) \in Nat /\ Len(t) \in Nat /\ Len(s) <= Len(t)
  BY DEF IsPrefix
<1>2. r \in Seq(S) /\ Len(r) = Len(t) - Len(s)
      /\ \A i \in 1 .. Len(t) - Len(s) : r[i] = t[Len(s) + i]
  BY <1>1, SubSeqProperties, ElementOfSeq
<1>3. \A i \in 1 .. Len(s) : s[i] = t[i]
  BY <1>1, SubSeqProperties, ElementOfSeq DEF IsPrefix
<1> HIDE DEF r
<1>4. /\ s \o r \in Seq(S) /\ Len(s \o r) = Len(t)
      /\ \A i \in 1 .. Len(t) : (s \o r)[i] = t[i]
  BY <1>1, <1>2, <1>3, ConcatProperties
<1>5. QED
  BY <1>4, SeqEqual DEF r

\* One character occurs in a sequence when it is an element of it.
LEMMA OccursElement ==
  ASSUME NEW S, NEW s \in Seq(S), NEW c
  PROVE  Occurs(s, <<c>>) <=> \E i \in 1 .. Len(s) : s[i] = c
<1>1. ASSUME NEW i \in 1 .. Len(s) PROVE SubSeq(s, i, i) = <<s[i]>>
  <2>1. /\ SubSeq(s, i, i) \in Seq(S) /\ Len(SubSeq(s, i, i)) = 1
        /\ SubSeq(s, i, i)[1] = s[i]
    BY SubSeqProperties, ElementOfSeq
  <2>2. <<s[i]>> \in Seq(S) /\ Len(<<s[i]>>) = 1 /\ <<s[i]>>[1] = s[i]
    BY ElementOfSeq
  <2>3. \A j \in 1 .. 1 : SubSeq(s, i, i)[j] = <<s[i]>>[j]
    BY <2>1, <2>2
  <2>4. QED
    BY <2>1, <2>2, <2>3, SeqEqual
<1>2. ASSUME NEW x PROVE <<x>> = <<c>> <=> x = c
  OBVIOUS
<1>3. /\ Len(<<c>>) = 1 /\ 1 .. Len(s) + 1 - Len(<<c>>) = 1 .. Len(s)
      /\ \A i \in 1 .. Len(s) : i + Len(<<c>>) - 1 = i
  BY LenProperties
<1>4. Occurs(s, <<c>>) <=> \E i \in 1 .. Len(s) : SubSeq(s, i, i) = <<c>>
  BY <1>3 DEF Occurs
<1>5. QED
  BY <1>1, <1>2, <1>4

\* The first element is taken off the front part of a sequence.
LEMMA TailOfConcat ==
  ASSUME NEW S, NEW s \in Seq(S), s # <<>>, NEW t \in Seq(S)
  PROVE  /\ Tail(s \o t) = Tail(s) \o t
         /\ (s \o t)[1] = s[1]
         /\ s \o t # <<>>
<1>1. Len(s) \in Nat /\ Len(t) \in Nat /\ Len(s) > 0
  BY LenProperties, EmptySeq, SeqEqual
<1>2. /\ s \o t \in Seq(S) /\ Len(s \o t) = Len(s) + Len(t)
      /\ \A i \in 1 .. Len(s) + Len(t) :
            (s \o t)[i] = IF i <= Len(s) THEN s[i] ELSE t[i - Len(s)]
  BY ConcatProperties
<1>3. s \o t # <<>>
  BY <1>1, <1>2, EmptySeq
<1>4. /\ Tail(s) \in Seq(S) /\ Len(Tail(s)) = Len(s) - 1
      /\ \A i \in 1 .. Len(s) - 1 : Tail(s)[i] = s[i + 1]
  BY HeadTailProperties
<1>5. /\ Tail(s \o t) \in Seq(S) /\ Len(Tail(s \o t)) = Len(s) + Len(t) - 1
      /\ \A i \in 1 .. Len(s) + Len(t) - 1 : Tail(s \o t)[i] = (s \o t)[i + 1]
  BY <1>2, <1>3, HeadTailProperties
<1>6. /\ Tail(s) \o t \in Seq(S)
      /\ Len(Tail(s) \o t) = Len(s) - 1 + Len(t)
      /\ \A i \in 1 .. Len(s) - 1 + Len(t) :
            (Tail(s) \o t)[i] = IF i <= Len(s) - 1 THEN Tail(s)[i]
                                                   ELSE t[i - (Len(s) - 1)]
  BY <1>4, ConcatProperties
<1>7. ASSUME NEW i \in 1 .. Len(s) - 1 + Len(t)
      PROVE  Tail(s \o t)[i] = (Tail(s) \o t)[i]
  <2>1. Tail(s \o t)[i] = IF i + 1 <= Len(s) THEN s[i + 1] ELSE t[i + 1 - Len(s)]
    BY <1>1, <1>2, <1>5
  <2>2. (Tail(s) \o t)[i] = IF i <= Len(s) - 1 THEN s[i + 1]
                                               ELSE t[i - (Len(s) - 1)]
    BY <1>1, <1>4, <1>6
  <2>3. i + 1 - Len(s) = i - (Len(s) - 1) /\ (i + 1 <= Len(s) <=> i <= Len(s) - 1)
    BY <1>1
  <2>4. QED
    BY <2>1, <2>2, <2>3
<1>8. Tail(s \o t) = Tail(s) \o t
  BY <1>1, <1>5, <1>6, <1>7, SeqEqual
<1>9. QED
  BY <1>1, <1>2, <1>3, <1>8

------------------------------------------------------------------------------
(* The configuration                                                        *)

\* Where the keys the client looks at are read from.
LEMMA KeyMapAt ==
  /\ "alg.type" \in DOMAIN KeyMap
  /\ KeyMap["alg.type"] = "/algorithm/alg_type"
  /\ "alg.instanceid" \in DOMAIN KeyMap
  /\ KeyMap["alg.instanceid"] = "/instance_id"
  /\ "alg.maxInputCount" \in DOMAIN KeyMap
  /\ KeyMap["alg.maxInputCount"] = "/input_count_max"
  /\ "endpoint.ma_infer" \in DOMAIN KeyMap
  /\ KeyMap["endpoint.ma_infer"] = "/cloud_endpoint/modelarts_infers_endpoint"
  /\ "alg.notify.url" \in DOMAIN KeyMap
  /\ KeyMap["alg.notify.url"] = "/notification_url"
  /\ "alg.task.uri" \in DOMAIN KeyMap
  /\ KeyMap["alg.task.uri"] = "/service/task_uri"
<1>1. ASSUME NEW k, NEW v, <<k, v>> \in KeyPointers,
             \A p \in KeyPointers : p[1] = k => p[2] = v
      PROVE  k \in DOMAIN KeyMap /\ KeyMap[k] = v
  BY <1>1 DEF KeyMap
<1>2. /\ <<"alg.type", "/algorithm/alg_type">> \in KeyPointers
      /\ <<"alg.instanceid", "/instance_id">> \in KeyPointers
      /\ <<"alg.maxInputCount", "/input_count_max">> \in KeyPointers
      /\ <<"endpoint.ma_infer", "/cloud_endpoint/modelarts_infers_endpoint">> \in KeyPointers
      /\ <<"alg.notify.url", "/notification_url">> \in KeyPointers
      /\ <<"alg.task.uri", "/service/task_uri">> \in KeyPointers
  BY DEF KeyPointers
<1>3. \A p \in KeyPointers :
         /\ p[1] = "alg.type" => p[2] = "/algorithm/alg_type"
         /\ p[1] = "alg.instanceid" => p[2] = "/instance_id"
         /\ p[1] = "alg.maxInputCount" => p[2] = "/input_count_max"
         /\ p[1] = "endpoint.ma_infer" =>
               p[2] = "/cloud_endpoint/modelarts_infers_endpoint"
         /\ p[1] = "alg.notify.url" => p[2] = "/notification_url"
         /\ p[1] = "alg.task.uri" => p[2] = "/service/task_uri"
  BY DEF KeyPointers
<1>4. QED
  BY <1>1, <1>2, <1>3

\* A key has the value of its field, if that is there and of a type that is
\* taken.
LEMMA GetStringOf ==
  ASSUME NEW d, config = LoadJsonConfig(d), NEW k \in DOMAIN KeyMap
  PROVE  GetString(k) = IF KeyMap[k] \in DOMAIN d /\ d[KeyMap[k]] # Other
                          THEN d[KeyMap[k]] ELSE NoText
BY DEF GetString, LoadJsonConfig


\* ... and Init and SendMsg, before and after the document is loaded.
LEMMA ConfStart == ConfInit => ConfInv
BY DEF ConfInit, ConfInv, Loaded

\* The order of the initialisers leaves the communication registered.
LEMMA RegistryFilled == StaticInit => registry' = {"cloud"}
BY DEF StaticInit, StaticInitOrder, AfterInit

\* With a complete document the look-ups of Init succeed.
LEMMA CompleteIsFound ==
  ASSUME document \in Documents, CompleteDocument(document),
         config = LoadJsonConfig(document)
  PROVE  /\ GetString("alg.type") = "cloud"
         /\ GetString("alg.instanceid") # NoText
         /\ GetString("alg.maxInputCount") \notin {NoText, "0", "no number"}
<1>1. GetString("alg.type") = document["/algorithm/alg_type"]
  BY KeyMapAt, GetStringOf, DocumentsAssumption DEF CompleteDocument
<1>2. GetString("alg.instanceid") = document["/instance_id"]
  BY KeyMapAt, GetStringOf DEF CompleteDocument
<1>3. GetString("alg.maxInputCount") = document["/input_count_max"]
  BY KeyMapAt, GetStringOf DEF CompleteDocument
<1>4. QED
  BY <1>1, <1>2, <1>3 DEF CompleteDocument

\* Every step of the client keeps what its stages stand for.
LEMMA ConfStep == ConfInv /\ [ConfNext]_confVars => ConfInv'
<1> SUFFICES ASSUME ConfInv, [ConfNext]_confVars PROVE ConfInv'
  OBVIOUS
<1> USE DEF ConfInv, Loaded
<1>1. CASE StaticInit
  BY <1>1, RegistryFilled DEF StaticInit
<1>2. CASE LoadConfig
  BY <1>2 DEF LoadConfig, Proceed, CompleteDocument
<1>3. CASE InitCipher
  BY <1>3 DEF InitCipher, GetString
<1>4. CASE CreateCommunication
  BY <1>4, CompleteIsFound DEF CreateCommunication, Proceed
<1>5. CASE InitCommunication
  BY <1>5 DEF InitCommunication
<1>6. CASE InitTaskManager
  BY <1>6, CompleteIsFound DEF InitTaskManager, Proceed
<1>7. CASE SendMsg
  BY <1>7 DEF SendMsg, Unsignable, GetString, FilterHttpPrefix, SignedUri,
                Enclosed
<1>8. CASE UNCHANGED confVars
  BY <1>8 DEF confVars, GetString
<1>9. QED
  BY <1>1, <1>2, <1>3, <1>4, <1>5, <1>6, <1>7, <1>8 DEF ConfNext


\* Host and URI, put together.
LEMMA HostAndUri ==
  ASSUME NEW S, "/" \in S, NEW e \in Seq(S), e # <<>>, NEW u \in Seq(S),
         IsPrefix(e \o <<"/">>, u),
         \A i \in 2 .. Len(e) : <<e[i]>> \notin Schemes
  PROVE  FilterHttpPrefix(e) \o <<"/">> \o SignedUri(e, u) = WithoutScheme(u)
<1> DEFINE f == e \o <<"/">>
           r == SubSeq(u, Len(f) + 1, Len(u))
<1>1. <<"/">> \in Seq(S) /\ f \in Seq(S) /\ Len(f) = Len(e) + 1
  BY ConcatProperties
<1>2. u = f \o r
  BY <1>1, PrefixAndRest
<1>3. r \in Seq(S)
  BY <1>1, SubSeqProperties, ElementOfSeq, LenProperties
<1>4. SignedUri(e, u) = r
  BY <1>1, LenProperties DEF SignedUri
<1>5. f # <<>> /\ f[1] = e[1] /\ Tail(f) = Tail(e) \o <<"/">>
  BY <1>1, TailOfConcat
<1>6. u[1] = e[1] /\ Tail(u) = Tail(f) \o r
  <2>1. Tail(f \o r) = Tail(f) \o r /\ (f \o r)[1] = f[1]
    BY <1>1, <1>3, <1>5, TailOfConcat
  <2>2. QED
    BY <2>1, <1>2, <1>5
<1>7. Len(e) \in Nat \ {0}
  BY LenProperties, EmptySeq, SeqEqual
<1>8. (\E s \in Schemes : Occurs(e, s)) <=> <<e[1]>> \in Schemes
  <2>1. (\E s \in Schemes : Occurs(e, s)) <=>
           \E c \in {"http://", "https://"} : Occurs(e, <<c>>)
    BY DEF Schemes
  <2>2. \A c \in {"http://", "https://"} :
           Occurs(e, <<c>>) <=> \E i \in 1 .. Len(e) : e[i] = c
    BY OccursElement
  <2>3. \A x : x \in {"http://", "https://"} <=> <<x>> \in Schemes
    BY DEF Schemes
  <2>4. \A i \in 1 .. Len(e) : i = 1 \/ i \in 2 .. Len(e)
    BY <1>7
  <2>5. 1 \in 1 .. Len(e)
    BY <1>7
  <2>6. QED
    BY <2>1, <2>2, <2>3, <2>4, <2>5
<1> HIDE DEF f, r
<1>9. CASE <<e[1]>> \in Schemes
  <2>1. FilterHttpPrefix(e) = Tail(e)
    BY <1>8, <1>9 DEF FilterHttpPrefix
  <2>2. WithoutScheme(u) = Tail(u)
    BY <1>6, <1>9 DEF WithoutScheme
  <2>3. QED
    BY <2>1, <2>2, <1>4, <1>5, <1>6
<1>10. CASE <<e[1]>> \notin Schemes
  <2>1. FilterHttpPrefix(e) = e
    BY <1>8, <1>10 DEF FilterHttpPrefix
  <2>2. WithoutScheme(u) = u
    BY <1>6, <1>10 DEF WithoutScheme
  <2>3. QED
    BY <2>1, <2>2, <1>2, <1>4 DEF f
<1>11. QED
  BY <1>9, <1>10

\* What is signed was there, as text.
LEMMA SignedIsText ==
  ASSUME ConfInv, signed # None
  PROVE  /\ GetString("endpoint.ma_infer") =
                document["/cloud_endpoint/modelarts_infers_endpoint"]
         /\ GetString("alg.notify.url") = document["/notification_url"]
         /\ document["/cloud_endpoint/modelarts_infers_endpoint"] \in Seq(STRING) \ {<<>>}
         /\ document["/notification_url"] \in Seq(STRING) \ {<<>>}
         /\ signed.host = FilterHttpPrefix(GetString("endpoint.ma_infer"))
         /\ signed.uri = Enclosed(SignedUri(GetString("endpoint.ma_infer"),
                                            GetString("alg.notify.url")))
<1>1. /\ document \in Documents \ {NoDocument} /\ config = LoadJsonConfig(document)
      /\ NoText \notin {GetString("endpoint.ma_infer"), GetString("alg.notify.url")}
  BY DEF ConfInv, Unsignable, Loaded
<1>2. signed = [host |-> FilterHttpPrefix(GetString("endpoint.ma_infer")),
                uri  |-> Enclosed(SignedUri(GetString("endpoint.ma_infer"),
                                            GetString("alg.notify.url")))]
  BY DEF ConfInv
<1>3. /\ "/cloud_endpoint/modelarts_infers_endpoint" \in DOMAIN document
      /\ document["/cloud_endpoint/modelarts_infers_endpoint"] \notin {NoText, Other}
      /\ GetString("endpoint.ma_infer") =
            document["/cloud_endpoint/modelarts_infers_endpoint"]
  BY <1>1, KeyMapAt, GetStringOf
<1>4. /\ "/notification_url" \in DOMAIN document
      /\ document["/notification_url"] \notin {NoText, Other}
      /\ GetString("alg.notify.url") = document["/notification_url"]
  BY <1>1, KeyMapAt, GetStringOf
<1>5. /\ document["/cloud_endpoint/modelarts_infers_endpoint"] \in Seq(STRING) \ {<<>>}
      /\ document["/notification_url"] \in Seq(STRING) \ {<<>>}
  BY <1>1, <1>3, <1>4, DocumentsAssumption
<1>6. QED
  BY <1>2, <1>3, <1>4, <1>5

\* What the signature covers is what is posted.
LEMMA SignedFits == ConfInv => SignedIsPosted
<1> SUFFICES ASSUME ConfInv PROVE SignedIsPosted
  OBVIOUS
<1>1. CASE signed = None
  BY <1>1 DEF SignedIsPosted
<1>2. CASE signed # None
  <2> DEFINE endpoint == document["/cloud_endpoint/modelarts_infers_endpoint"]
             url == document["/notification_url"]
             S == STRING \cup {"/"}
  <2>1. /\ endpoint \in Seq(STRING) \ {<<>>} /\ url \in Seq(STRING) \ {<<>>}
        /\ signed.host = FilterHttpPrefix(endpoint)
        /\ signed.uri = Enclosed(SignedUri(endpoint, url))
    BY <1>2, SignedIsText
  <2> HIDE DEF endpoint, url
  <2>2. endpoint \in Seq(S) /\ endpoint # <<>> /\ url \in Seq(S)
    BY <2>1, LargerSeq
  <2>3. /\ FilterHttpPrefix(endpoint) \in Seq(S)
        /\ SignedUri(endpoint, url) \in Seq(S)
        /\ <<"/">> \in Seq(S)
    <3>1. Tail(endpoint) \in Seq(S)
      BY <2>2, HeadTailProperties
    <3>2. Len(endpoint) \in Nat /\ Len(url) \in Nat
      BY <2>2, LenProperties
    <3>3. \A i \in Len(endpoint) + 2 .. Len(url) : url[i] \in S
      BY <2>2, <3>2, ElementOfSeq
    <3>4. SubSeq(url, Len(endpoint) + 2, Len(url)) \in Seq(S)
      BY <3>2, <3>3, SubSeqProperties
    <3>5. QED
      BY <2>2, <3>1, <3>4 DEF FilterHttpPrefix, SignedUri
  <2>4. \A h, u, c \in Seq(S) : h \o (c \o u \o c) = (h \o c \o u) \o c
    BY ConcatAssociative, ConcatProperties
  <2>5. signed.host \o signed.uri
           = (FilterHttpPrefix(endpoint) \o <<"/">> \o SignedUri(endpoint, url))
                \o <<"/">>
    BY <2>1, <2>3, <2>4 DEF Enclosed
  <2>6. (/\ IsPrefix(endpoint \o <<"/">>, url)
         /\ \A i \in 2 .. Len(endpoint) : <<endpoint[i]>> \notin Schemes)
           => signed.host \o signed.uri = WithoutScheme(url) \o <<"/">>
    BY <2>2, <2>5, HostAndUri
  <2>7. QED
    BY <2>6 DEF SignedIsPosted, endpoint, url
<1>3. QED
  BY <1>1, <1>2


------------------------------------------------------------------------------
(* The front                                                                *)

\* When requests are handled the URI of the server is a sequence.
LEMMA TaskUriIsText ==
  ASSUME ConfInv, stage \in {"ready", "sent"}
  PROVE  TaskUri \in Seq(STRING)
<1>1. document \in Documents \ {NoDocument} /\ config = LoadJsonConfig(document)
  BY DEF ConfInv, Loaded
<1>2. CASE GetString("alg.task.uri") = NoText
  BY <1>2, EmptySeq DEF TaskUri
<1>3. CASE GetString("alg.task.uri") # NoText
  <2>1. /\ "/service/task_uri" \in DOMAIN document
        /\ document["/service/task_uri"] \notin {NoText, Other}
        /\ GetString("alg.task.uri") = document["/service/task_uri"]
    BY <1>1, <1>3, KeyMapAt, GetStringOf
  <2>2. document["/service/task_uri"] \in Seq(STRING)
    BY <1>1, <2>1, DocumentsAssumption
  <2>3. QED
    BY <1>3, <2>1, <2>2 DEF TaskUri
<1>4. QED
  BY <1>2, <1>3

\* The id behind the prefix is the whole rest of the path.
LEMMA IdOfPath ==
  ASSUME ConfInv, stage \in {"ready", "sent"}, NEW path \in Paths,
         ParseTaskId(path) # <<>>
  PROVE  path = TaskUri \o <<"/">> \o ParseTaskId(path)
<1>1. TaskUri \in Seq(STRING \cup Chars) /\ path \in Seq(STRING \cup Chars)
  BY TaskUriIsText, PathsAssumption, LargerSeq
<1>2. <<"/">> \in Seq(STRING \cup Chars)
  BY PathsAssumption
<1>3. Sub \in Seq(STRING \cup Chars)
  BY <1>1, <1>2, ConcatProperties DEF Sub
<1>4. IsPrefix(Sub, path) /\ ParseTaskId(path) = SubSeq(path, Len(Sub) + 1, Len(path))
  BY DEF ParseTaskId
<1>5. path = Sub \o ParseTaskId(path)
  BY <1>1, <1>3, <1>4, PrefixAndRest
<1>6. QED
  BY <1>5 DEF Sub

\* A request changes neither the configuration nor the stage.
LEMMA ServeAddresses ==
  ASSUME FrontInv, Serve
  PROVE  OnlyAddressedTask'
<1>1. stage \in {"ready", "sent"} /\ UNCHANGED confVars /\ ConfInv
  BY DEF Serve, FrontInv
<1>2. TaskUri' = TaskUri
  BY <1>1 DEF TaskUri, GetString, confVars
<1>3. CASE UNCHANGED last
  BY <1>2, <1>3 DEF FrontInv, OnlyAddressedTask
<1>4. ASSUME NEW r \in RequestSet, RefuseRequest(r)
      PROVE  OnlyAddressedTask'
  BY <1>4 DEF RefuseRequest, Answer, OnlyAddressedTask
<1>5. ASSUME NEW r \in RequestSet, MsgProcess(r)
      PROVE  OnlyAddressedTask'
  <2>1. /\ last'.method = r.method /\ last'.path = r.path
        /\ last'.info = GetMsgRequestInfo(r)
    BY <1>5 DEF MsgProcess, Answer
  <2>2. r.path \in Paths
    BY DEF RequestSet
  <2>3. CASE r.method = "POST"
    BY <2>1, <2>3 DEF OnlyAddressedTask
  <2>4. CASE r.method # "POST"
    <3>1. last'.info = ParseTaskId(r.path)
      BY <2>1, <2>4 DEF GetMsgRequestInfo
    <3>2. last'.info # <<>> => r.path = TaskUri \o <<"/">> \o last'.info
      BY <1>1, <2>2, <3>1, IdOfPath
    <3>3. QED
      BY <1>2, <2>1, <3>2 DEF OnlyAddressedTask
  <2>5. QED
    BY <2>3, <2>4
<1>6. QED
  BY <1>3, <1>4, <1>5 DEF Serve, TaskEnds, TaskErased

\* A step of the client never changes an answer, and the URI only before the
\* first one.
LEMMA FrontStep == FrontInv /\ [FrontNext]_frontVars => FrontInv'
<1> SUFFICES ASSUME FrontInv, [FrontNext]_frontVars PROVE FrontInv'
  OBVIOUS
<1>1. ConfInv'
  BY ConfStep DEF FrontInv, FrontNext, frontVars, Serve
<1>2. CASE ConfNext /\ UNCHANGED rvars
  <2>1. stage' \notin {"ready", "sent"} => last'.info = BadBody
    BY <1>2 DEF FrontInv, ConfInv, Loaded, rvars, ConfNext, StaticInit,
                LoadConfig, InitCipher, CreateCommunication, InitCommunication,
                InitTaskManager, SendMsg, Proceed
  <2>2. stage \in {"ready", "sent"} => config' = config
    BY <1>2 DEF ConfNext, StaticInit, LoadConfig, InitCipher,
                CreateCommunication, InitCommunication, InitTaskManager, SendMsg
  <2>3. OnlyAddressedTask'
    <3>1. CASE stage \in {"ready", "sent"}
      <4>1. TaskUri' = TaskUri
        BY <2>2, <3>1 DEF TaskUri, GetString
      <4>2. QED
        BY <4>1, <1>2 DEF FrontInv, OnlyAddressedTask, rvars
    <3>2. CASE stage \notin {"ready", "sent"}
      BY <3>2, <1>2 DEF FrontInv, OnlyAddressedTask, rvars
    <3>3. QED
      BY <3>1, <3>2
  <2>4. QED
    BY <1>1, <1>2, <2>1, <2>3 DEF FrontInv, rvars
<1>3. CASE Serve
  <2>1. OnlyAddressedTask'
    BY <1>3, ServeAddresses
  <2>2. ending' \subseteq groups'
    BY <1>3 DEF FrontInv, Serve, RefuseRequest, MsgProcess, TaskEnds, TaskErased
  <2>3. stage' \in {"ready", "sent"}
    BY <1>3 DEF Serve, confVars
  <2>4. QED
    BY <1>1, <2>1, <2>2, <2>3 DEF FrontInv
<1>4. CASE UNCHANGED frontVars
  BY <1>1, <1>4 DEF frontVars, confVars, rvars, FrontInv, OnlyAddressedTask,
                    TaskUri, GetString
<1>5. QED
  BY <1>2, <1>3, <1>4 DEF FrontNext

\* The invariant of the client and its front: the stages stand for what they
\* have found, and the URI is fixed before the first request.
THEOREM FrontInvariance == FrontSpec => []FrontInv
<1>1. FrontInit => FrontInv
  BY ConfStart DEF FrontInit, FrontInv, ConfInit, OnlyAddressedTask
<1>2. QED
  BY <1>1, FrontStep, PTL DEF FrontSpec

\* With a complete document Init does not fail: the communication has
\* registered itself, and each look-up finds what the document says.
THEOREM CompleteIsReadyHolds == FrontSpec => []CompleteIsReady
<1>1. FrontInv => CompleteIsReady
  BY DEF FrontInv, ConfInv, CompleteIsReady
<1>2. QED
  BY <1>1, FrontInvariance, PTL

\* The signature is for the URL the message is posted to.
THEOREM SignedIsPostedHolds == FrontSpec => []SignedIsPosted
<1>1. FrontInv => SignedIsPosted
  BY SignedFits DEF FrontInv
<1>2. QED
  BY <1>1, FrontInvariance, PTL

\* A query or a delete looks for the task its path names and for no other.
THEOREM OnlyAddressedTaskHolds == FrontSpec => []OnlyAddressedTask
<1>1. FrontInv => OnlyAddressedTask
  BY DEF FrontInv
<1>2. QED
  BY <1>1, FrontInvariance, PTL

\* What each method does to the map, by the code of its answer.
LEMMA HandledEffect ==
  ASSUME FrontInv, NEW r \in RequestSet, MsgProcess(r)
  PROVE  /\ last'.code # NoReturn
         /\ last'.code = 201 => /\ last'.info \notin groups
                                /\ groups' = groups \cup {last'.info}
         /\ last'.code = 202 => /\ last'.info \in groups
                                /\ last'.info \notin groups' \ ending'
                                /\ groups \ groups' \subseteq {last'.info}
         /\ last'.code \notin {201, 202} => groups' = groups
<1>1. PICK code \in Codes :
         /\ Handle(GetMsgType(r.method), GetMsgRequestInfo(r), code)
         /\ Answer(r, GetMsgRequestInfo(r), StatusToHttpStatus(code))
  BY DEF MsgProcess
<1> DEFINE i == GetMsgRequestInfo(r)
<1>2. /\ last'.info = i /\ last'.code = StatusToHttpStatus(code)
      /\ ending' = ending \cap groups' /\ ending \subseteq groups
      /\ GetMsgType(r.method) # "MA_DELETE_ALL_TYPE"
  BY <1>1 DEF Answer, MsgProcess, FrontInv, GetMsgType
<1> HIDE DEF i
<1>3. CASE CreateTask(i, code)
  BY <1>2, <1>3, PathsAssumption DEF CreateTask, StatusToHttpStatus, HttpStatusMap
<1>4. CASE QueryTask(i, code)
  BY <1>2, <1>4, PathsAssumption DEF QueryTask, StatusToHttpStatus, HttpStatusMap
<1>5. CASE DeleteTask(i, code)
  BY <1>2, <1>5, PathsAssumption DEF DeleteTask, StatusToHttpStatus, HttpStatusMap
<1>6. QED
  BY <1>1, <1>2, <1>3, <1>4, <1>5 DEF Handle, i

\* Every answer is an HTTP status and tells what has become of the task.
THEOREM AnswerTellsEffectHolds == FrontSpec => AnswerTellsEffect
<1> DEFINE Tells ==
      last' # last =>
          /\ last'.code # NoReturn
          /\ CASE last'.code = 201 -> /\ last'.info \notin groups
                                      /\ groups' = groups \cup {last'.info}
               [] last'.code = 202 -> /\ last'.info \in groups
                                      /\ last'.info \notin groups' \ ending'
                                      /\ groups \ groups' \subseteq {last'.info}
               [] OTHER -> groups' = groups
<1>1. FrontInv /\ [FrontNext]_frontVars => [Tells]_rvars
  <2> SUFFICES ASSUME FrontInv, [FrontNext]_frontVars, last' # last PROVE Tells
    OBVIOUS
  <2>1. \E r \in RequestSet : RefuseRequest(r) \/ MsgProcess(r)
    BY DEF FrontNext, frontVars, rvars, Serve, TaskEnds, TaskErased
  <2>2. ASSUME NEW r \in RequestSet, RefuseRequest(r) PROVE Tells
    BY <2>2, PathsAssumption DEF RefuseRequest, Answer
  <2>3. ASSUME NEW r \in RequestSet, MsgProcess(r) PROVE Tells
    BY <2>3, HandledEffect
  <2>4. QED
    BY <2>1, <2>2, <2>3
<1>2. QED
  BY <1>1, FrontInvariance, PTL DEF FrontSpec, AnswerTellsEffect

=============================================================================
