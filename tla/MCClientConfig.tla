--------------------------- MODULE MCClientConfig ---------------------------
(* The document of the tests, and documents that differ from it in up to two *)
(* fields.                                                                   *)
EXTENDS ClientConfig, FiniteSets

\* Endpoints and notification URLs that fit, and that do not.
Urls == {<<"https://", "h">>, <<"http://", "h">>, <<"h">>,
         <<"https://", "h", "/">>, <<"https://", "h", "/", "v">>,
         <<"http://", "h", "/", "v", "/", "n">>, <<"http://", "g", "/", "v">>,
         <<"https://", "h", "/", "v", "/", "n">>, <<"h", "/", "v">>}

Fields == {KeyMap[k] : k \in DOMAIN KeyMap} \cup {"/topic/downstream"}

\* A value of its own for each field, except where the program looks at it.
TestDocument == [p \in Fields |->
    CASE p = "/algorithm/alg_type" -> "cloud"
      [] p = "/input_count_max" -> "10"
      [] p = "/service/task_uri" -> <<"/", "u">>
      [] p = "/cloud_endpoint/modelarts_infers_endpoint" -> <<"https://", "h">>
      [] p = "/notification_url" -> <<"https://", "h", "/", "v">>
      [] OTHER -> p]

\* Fields the program looks at before it is ready, or in what is checked.
Looked == {"/algorithm/alg_type", "/instance_id", "/input_count_max",
           "/service/task_uri", "/isv/sign_ak", "/isv/sign_sk",
           "/cloud_endpoint/modelarts_infers_endpoint", "/notification_url"}

DocValues(p) ==
    (CASE p = "/algorithm/alg_type" -> {"edge"}
       [] p = "/input_count_max"    -> {"0", "no number"}
       [] OTHER                     -> {}) \cup {NoText, Other}

\* Each of these fields changed or left out.
VariedDocuments(doc) ==
    {doc} \cup
    UNION {{[doc EXCEPT ![p] = v] : v \in DocValues(p)} : p \in Looked} \cup
    {[q \in DOMAIN doc \ {p} |-> doc[q]] : p \in Looked}

\* And the two URLs, together.
MCDocuments ==
    {NoDocument} \cup VariedDocuments(TestDocument) \cup
    {[TestDocument EXCEPT !["/cloud_endpoint/modelarts_infers_endpoint"] = e,
                          !["/notification_url"] = u] : e \in Urls, u \in Urls}
=============================================================================
