---------------------------- MODULE ClientConfig ----------------------------
(***************************************************************************)
(* The client from the loading of its library to its first message: static  *)
(* initialisation fills the registry of the communication factory, Config   *)
(* reads the document in MODELARTS_SVC_CONFIG once, ModelArtsClient::Init   *)
(* builds the parts from it, and SendMsg takes the key, and the host and    *)
(* URI to sign, out of it.                                                  *)
(*                                                                         *)
(* The document is a function from the JSON pointers that exist in it to    *)
(* values.  URLs are sequences of characters, where "http://" and           *)
(* "https://" count as one.                                                 *)
(***************************************************************************)
EXTENDS Naturals, Sequences, SequencesExt

CONSTANTS
    Documents,  \* what the environment variable may hold
    NoDocument, \* it is not set, or is no JSON
    NoText,     \* the empty string
    Other,      \* a value that is neither a string nor a number
    None

\* What is no text is no word either, and the empty string is NoText: the two
\* URLs, and the URI of the server, are not empty.
ASSUME DocumentsAssumption ==
    /\ Other \notin {NoText, "cloud"}
    /\ \A d \in Documents \ {NoDocument} :
          \A p \in DOMAIN d \cap {"/cloud_endpoint/modelarts_infers_endpoint",
                                "/notification_url", "/service/task_uri"} :
             d[p] \in {NoText, Other} \/ d[p] \in Seq(STRING) \ {<<>>}

VARIABLES
    document,   \* MODELARTS_SVC_CONFIG (constant)
    registry,   \* create_communication_map_
    config,     \* configuration_, or None
    signed,     \* host and uri of the signature of a message, or None
    stage       \* the next step of Init; then "ready" and "sent"

confVars == <<document, registry, config, signed, stage>>

------------------------------------------------------------------------------
(* Config                                                                   *)

\* key_map of LoadEnvConfig: the keys, and where their values are.
KeyPointers == {
    <<"endpoint.iam",          "/cloud_endpoint/iam_endpoint">>,
    <<"endpoint.ma_infer",     "/cloud_endpoint/modelarts_infers_endpoint">>,
    <<"endpoint.obs",          "/cloud_endpoint/obs_endpoint">>,
    <<"endpoint.dis",          "/cloud_endpoint/dis_endpoint">>,
    <<"endpoint.vis",          "/cloud_endpoint/vis_endpoint">>,
    <<"region",                "/cloud_endpoint/region">>,
    <<"alg.notify.url",        "/notification_url">>,
    <<"alg.instanceid",        "/instance_id">>,
    <<"alg.task.uri",          "/service/task_uri">>,
    <<"alg.task.port",         "/service/port">>,
    <<"alg.maxInputCount",     "/input_count_max">>,
    <<"alg.type",              "/algorithm/alg_type">>,
    <<"developer.projectid",   "/isv/project_id">>,
    <<"developer.domain_id",   "/isv/domain_id">>,
    <<"developer.domain_name", "/isv/domain_name">>,
    <<"developer.ak",          "/isv/sign_ak">>,
    <<"developer.sk",          "/isv/sign_sk">>,
    <<"path.rsa",              "/path/rsa">>,
    <<"path.cert",             "/path/cert">>,
    <<"topic.upstream",        "/topic/upstream">>,
    <<"topic.downstream",      "/topic/upstream">>}

KeyMap == [k \in {p[1] : p \in KeyPointers} |->
              (CHOOSE p \in KeyPointers : p[1] = k)[2]]

\* Values that are absent, or of another type, are skipped.
LoadJsonConfig(doc) ==
    LET found == {k \in DOMAIN KeyMap : /\ KeyMap[k] \in DOMAIN doc
                                        /\ doc[KeyMap[k]] # Other}
    IN  [k \in found |-> doc[KeyMap[k]]]

GetString(key) == IF key \in DOMAIN config THEN config[key] ELSE NoText

------------------------------------------------------------------------------
(* The factory                                                              *)

\* Mutant: the other order, which the language allows too.
StaticInitOrder_Registration == <<"restful_communication", "communication_factory">>

\* The order in which the initialisers of the two files run: the sources of
\* the library are a sorted list (file(GLOB_RECURSE)), and linked in its order.
StaticInitOrder == <<"communication_factory", "restful_communication">>

\* The map is constructed (empty) in one file, REGISTER_COMMUNICATE inserts
\* into it in the other.
AfterInit(unit, map) ==
    IF unit = "communication_factory" THEN {} ELSE map \cup {"cloud"}

StaticInit ==
    /\ stage = "static"
    /\ registry' = AfterInit(StaticInitOrder[2], AfterInit(StaticInitOrder[1], {}))
    /\ stage' = "load"
    /\ UNCHANGED <<document, config, signed>>

------------------------------------------------------------------------------
(* ModelArtsClient::Init                                                    *)

Proceed(ok, next) == stage' = IF ok THEN next ELSE "failed"

\* Config::GetInstance: after a failure it is null for ever.
LoadConfig ==
    /\ stage = "load"
    /\ config' = IF document = NoDocument THEN None ELSE LoadJsonConfig(document)
    /\ Proceed(document # NoDocument, "key")
    /\ UNCHANGED <<document, registry, signed>>

\* The file of the private key, and Cipher::Init.
InitCipher ==
    /\ stage = "key"
    /\ stage' \in {"channel", "nokey"}
    /\ UNCHANGED <<document, registry, config, signed>>

CreateCommunication ==
    /\ stage = "channel"
    /\ Proceed(GetString("alg.type") \in registry, "server")
    /\ UNCHANGED <<document, registry, config, signed>>

\* RestfulCommunication::Init: the server may refuse the address.
InitCommunication ==
    /\ stage = "server"
    /\ stage' \in {"manager", "noserver"}
    /\ UNCHANGED <<document, registry, config, signed>>

\* TaskManager::Init; what is no number is the default, 0.
InitTaskManager ==
    /\ stage = "manager"
    /\ Proceed(/\ GetString("alg.instanceid") # NoText
               /\ GetString("alg.maxInputCount") \notin {NoText, "0", "no number"},
               "ready")
    /\ UNCHANGED <<document, registry, config, signed>>

------------------------------------------------------------------------------
(* SendMsg up to the signature                                              *)

Schemes == {<<"http://">>, <<"https://">>}

Occurs(url, s) ==
    \E i \in 1 .. Len(url) + 1 - Len(s) : SubSeq(url, i, i + Len(s) - 1) = s

\* Wherever the scheme is found, as many characters as it has are cut off in
\* front; the form here is exact for a scheme in front.
FilterHttpPrefix(url) ==
    IF \E s \in Schemes : Occurs(url, s) THEN Tail(url) ELSE url

\* Mutant: the "/" behind the endpoint becomes part of the URI.
SignedUri_WithSlash(endpoint, url) == SubSeq(url, Len(endpoint) + 1, Len(url))

SignedUri(endpoint, url) == SubSeq(url, Len(endpoint) + 2, Len(url))

\* GetSignerUrlInfo fails.
Unsignable(endpoint, url) ==
    \/ NoText \in {endpoint, url}
    \/ ~ Occurs(url, endpoint)
    \/ Len(endpoint) + 1 > Len(url)

\* What is signed: the URI with a slash on both sides.
Enclosed(uri) == <<"/">> \o uri \o <<"/">>

SendMsg ==
    /\ stage = "ready"
    /\ LET endpoint == GetString("endpoint.ma_infer")
           url == GetString("alg.notify.url") IN
       signed' =
         IF \/ NoText \in {GetString("developer.ak"), GetString("developer.sk")}
            \/ Unsignable(endpoint, url)
           THEN None
           ELSE [host |-> FilterHttpPrefix(endpoint),
                 uri  |-> Enclosed(SignedUri(endpoint, url))]
    /\ stage' = "sent"
    /\ UNCHANGED <<document, registry, config>>

ConfInit ==
    /\ document \in Documents
    /\ registry = {} /\ config = None /\ signed = None
    /\ stage = "static"

ConfNext ==
    \/ StaticInit \/ LoadConfig \/ InitCipher \/ CreateCommunication
    \/ InitCommunication \/ InitTaskManager \/ SendMsg

------------------------------------------------------------------------------
(* Properties                                                               *)

\* The fields the checks of Init are about.
CompleteDocument(doc) ==
    /\ doc # NoDocument
    /\ {"/algorithm/alg_type", "/instance_id", "/input_count_max"} \subseteq DOMAIN doc
    /\ doc["/algorithm/alg_type"] = "cloud"
    /\ doc["/instance_id"] \notin {NoText, Other}
    /\ doc["/input_count_max"] \notin {NoText, Other, "0", "no number"}

\* Init fails only for a reason outside the program or a field that is
\* missing: with a complete document it finds, in particular, the
\* communication that registered itself when the library was loaded.
CompleteIsReady == CompleteDocument(document) => stage # "failed"

\* A URL as the service sees it, without the scheme in front.
WithoutScheme(url) == IF <<url[1]>> \in Schemes THEN Tail(url) ELSE url

\* The signature is for the URL the message is posted to: when the
\* notification URL is the endpoint followed by a path that does not end in
\* "/", and the endpoint has a scheme in front or nowhere, host and URI of the
\* signature put together are that URL without its scheme, completed by the
\* "/" that a signed URI ends with.  (A URL that ends in "/" itself is signed
\* with one more.)
SignedIsPosted ==
    LET endpoint == document["/cloud_endpoint/modelarts_infers_endpoint"]
        url == document["/notification_url"] IN
    (/\ signed # None
     /\ IsPrefix(endpoint \o <<"/">>, url)
     /\ Last(url) # "/"
     /\ \A i \in 2 .. Len(endpoint) : <<endpoint[i]>> \notin Schemes)
        => signed.host \o signed.uri = WithoutScheme(url) \o <<"/">>

------------------------------------------------------------------------------
(* Why they hold: what each stage has behind it.                            *)

Loaded == {"key", "channel", "server", "manager", "ready", "sent",
           "nokey", "noserver"}

ConfInv ==
    /\ stage \in {"static", "load", "failed"} \cup Loaded
    /\ document \in Documents
    /\ stage # "static" => registry = {"cloud"}
    /\ stage \in Loaded =>
          document # NoDocument /\ config = LoadJsonConfig(document)
    /\ stage = "failed" => ~ CompleteDocument(document)
    /\ signed # None =>
          LET endpoint == GetString("endpoint.ma_infer")
              url == GetString("alg.notify.url") IN
          /\ stage = "sent" /\ ~ Unsignable(endpoint, url)
          /\ signed = [host |-> FilterHttpPrefix(endpoint),
                       uri  |-> Enclosed(SignedUri(endpoint, url))]

=============================================================================
