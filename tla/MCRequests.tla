----------------------------- MODULE MCRequests -----------------------------
(* The client from its document to its answers, and one create from its body *)
(* to its last engine task.  The two share no state, so a behaviour here is  *)
(* one of the first or, when a request is given, one of the second.          *)
EXTENDS Requests, MCClientConfig, MCTaskRequest

MCChars == {"/", "u", "a", "b"}
MCTaskUri == TestDocument["/service/task_uri"]

A == <<"a">>
B == <<"b">>

\* Paths that name a task, that name none, and that only look like it.
MCPaths == {<<"/">>, MCTaskUri, MCTaskUri \o <<"/">>, MCTaskUri \o A,
            MCTaskUri \o <<"/">> \o A, MCTaskUri \o <<"/">> \o B,
            MCTaskUri \o <<"/">> \o A \o <<"/">>,
            MCTaskUri \o A \o MCTaskUri \o <<"/">> \o B,
            A \o MCTaskUri \o <<"/">> \o B}

MCBodies == {A, B, <<>>, BadBody}

NoCreate ==
    /\ request = Absent /\ info = Absent
    /\ pathList = <<>> /\ pathRunning = Empty
    /\ given = Absent /\ session = Absent /\ answered = FALSE
    /\ pc = "parse"

\* Requests are handled under the documents whose URI differs.
Served == {d \in VariedDocuments(TestDocument) :
              \A p \in Fields \ {"/service/task_uri"} :
                  p \in DOMAIN d /\ d[p] = TestDocument[p]}

MCInit ==
    /\ FrontInit
    /\ NoCreate \/ (ReqInit /\ document = NoDocument)

MCNext ==
    \/ /\ request = Absent /\ FrontNext /\ UNCHANGED reqVars
       /\ document \in Served \/ UNCHANGED rvars
    \/ request # Absent /\ ReqNext /\ UNCHANGED frontVars

MCSpec == MCInit /\ [][MCNext]_<<frontVars, reqVars>>
=============================================================================
