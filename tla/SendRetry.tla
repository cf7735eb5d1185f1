----------------------------- MODULE SendRetry -----------------------------
(***************************************************************************)
(* One call of RestfulCommunication::SendMsg: the keys and the URL are      *)
(* looked up and the request is signed, then SendWithRetry posts it until   *)
(* an answer is 2xx or the attempts are used up.  An attempt that got no    *)
(* answer may have reached the service all the same, so a message can be    *)
(* handled more than once.  HTTP client and service are external.           *)
(***************************************************************************)
EXTENDS Naturals

CONSTANT Retries   \* the initial retry_count

ASSUME RetriesAssumption == Retries \in Nat \ {0}

VARIABLES
    pc,          \* where the call is; "reached" when the service has handled
                 \* the message of this attempt
    retryCount,  \* retry_count
    attempts,    \* requests posted and over
    handled      \* how often the service handled the message

vars == <<pc, retryCount, attempts, handled>>

SendTypeOK ==
    /\ pc \in {"prepare", "request", "reached", "sleep", "ok", "fault"}
    /\ retryCount \in 0 .. Retries
    /\ attempts \in 0 .. Retries
    /\ handled \in 0 .. Retries

Init ==
    /\ pc = "prepare"
    /\ retryCount = Retries
    /\ attempts = 0
    /\ handled = 0

------------------------------------------------------------------------------
\* GetAkSk and GetSignerUrlInfo succeed and the request is signed ...
Prepare ==
    /\ pc = "prepare"
    /\ pc' = "request"
    /\ UNCHANGED <<retryCount, attempts, handled>>

\* ... or a key or the URL is missing, or an exception is caught.
PrepareFails ==
    /\ pc = "prepare"
    /\ pc' = "fault"
    /\ UNCHANGED <<retryCount, attempts, handled>>

\* The posted request reaches the service.
ServiceHandles ==
    /\ pc = "request"
    /\ pc' = "reached"
    /\ handled' = handled + 1
    /\ UNCHANGED <<retryCount, attempts>>

\* The attempt is over without success: one retry less.
Used ==
    /\ pc \in {"request", "reached"}
    /\ retryCount' = retryCount - 1
    /\ attempts' = attempts + 1
    /\ UNCHANGED handled

\* Mutant: the counter is tested before it is decremented.
NoAnswer_OffByOne ==
    /\ Used
    /\ pc' = IF retryCount = 0 THEN "fault" ELSE "request"

\* SendHttpRequest failed: `continue` goes to the loop's condition at once.
NoAnswer ==
    /\ Used
    /\ pc' = IF retryCount' = 0 THEN "fault" ELSE "request"

\* Mutant: any answer counts as success.
Accepted_AnyAnswer ==
    /\ pc \in {"request", "reached"}
    /\ attempts' = attempts + 1
    /\ pc' = "ok"
    /\ UNCHANGED <<retryCount, handled>>

\* A 2xx answer.
Accepted ==
    /\ pc = "reached"
    /\ attempts' = attempts + 1
    /\ pc' = "ok"
    /\ UNCHANGED <<retryCount, handled>>

\* Mutant: an attempt that is refused is not counted.
Refused_NotCounted ==
    /\ pc \in {"request", "reached"}
    /\ pc' = "sleep"
    /\ UNCHANGED <<retryCount, attempts, handled>>

\* Any other answer: wait, after the last attempt too ...
Refused ==
    /\ Used
    /\ pc' = "sleep"

\* ... and test the loop's condition.
Slept ==
    /\ pc = "sleep"
    /\ pc' = IF retryCount = 0 THEN "fault" ELSE "request"
    /\ UNCHANGED <<retryCount, attempts, handled>>

Next ==
    \/ Prepare \/ PrepareFails
    \/ ServiceHandles \/ NoAnswer \/ Accepted \/ Refused \/ Slept

Spec == Init /\ [][Next]_vars

------------------------------------------------------------------------------
(* Properties                                                               *)

\* SendMsg returns: the threads that call it, some with
\* msg_concurrency_mutex_ held, are blocked for a bounded number of attempts.
SendReturns == <>(pc \in {"ok", "fault"})

\* How the retry loop stands at each point: every attempt is counted on both
\* ways round the loop (`continue` skips the end of the body), so that a call
\* that posted anything gives up neither early nor late, after exactly Retries
\* attempts; and the service handled the message no more often than that.
\* This is what makes the loop implement the call without attempts.
RetryInv ==
    /\ SendTypeOK
    /\ handled <= IF pc = "reached" THEN attempts + 1 ELSE attempts
    /\ pc \in {"prepare", "request", "reached"} => retryCount > 0
    /\ pc = "prepare" => attempts = 0
    /\ pc # "ok" => retryCount + attempts = Retries
    /\ pc = "fault" => attempts \in {0, Retries}
    /\ pc = "reached" => handled > 0

resultOf == IF pc \in {"ok", "fault"} THEN pc ELSE "sending"

Call == INSTANCE MessageSend
            WITH result <- resultOf, times <- handled, MaxTimes <- Retries

\* The retry loop implements the call without attempts: success only for a
\* message the service handled, and at most Retries duplicates.
ImplementsCall == Call!Spec

=============================================================================
