---------------------------- MODULE MessageSend ----------------------------
(***************************************************************************)
(* What a call of SendMsg promises, without attempts: the service handles   *)
(* the message any number of times, up to a limit, while the call lasts;    *)
(* the call answers success only for a message that was handled.  This is   *)
(* the SendMsg that Reporting gives to every sender.                        *)
(***************************************************************************)
EXTENDS Naturals

CONSTANT MaxTimes   \* bound on how often one message is handled

VARIABLES
    result,   \* "sending", then "ok" or "fault"
    times     \* how often the service handled the message

vars == <<result, times>>

Init == result = "sending" /\ times = 0

\* The service handles the message, maybe again.
Handle ==
    /\ result = "sending"
    /\ times < MaxTimes
    /\ times' = times + 1
    /\ UNCHANGED result

\* The call returns.
Finish ==
    /\ result = "sending"
    /\ \/ result' = "fault"
       \/ times > 0 /\ result' = "ok"
    /\ UNCHANGED times

Spec == Init /\ [][Handle \/ Finish]_vars

=============================================================================
