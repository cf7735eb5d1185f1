----------------------------- MODULE SignedSend -----------------------------
(***************************************************************************)
(* RestfulCommunication::SendMsg as a whole: GetAkSk gets the secret key by *)
(* way of the cipher, then the signed request is posted and posted again.   *)
(***************************************************************************)
EXTENDS SendRetry, Cipher

sendVars == <<vars, cipherVars>>

SendInit == Init /\ CipherInit

\* GetAkSk: the key is decrypted, or used as it was configured.
GetKey ==
    /\ pc = "prepare"
    /\ CipherNext
    /\ UNCHANGED vars

\* With a key and a URL the request is signed.
Sign ==
    /\ cpc = "original"
    /\ Prepare
    /\ UNCHANGED cipherVars

\* A key is null, the URL is not valid, or the exception of the cipher is
\* caught: SendMsg fails without a request.
NoKeyOrUrl ==
    /\ cpc \in {"decode", "original", "throw"}
    /\ PrepareFails
    /\ UNCHANGED cipherVars

Post ==
    /\ ServiceHandles \/ NoAnswer \/ Accepted \/ Refused \/ Slept
    /\ UNCHANGED cipherVars

SendNext == GetKey \/ Sign \/ NoKeyOrUrl \/ Post

\* The calls of the cipher return, and the HTTP client has timeouts.
SendFairness ==
    /\ WF_sendVars(GetKey \/ Sign \/ NoKeyOrUrl)
    /\ WF_sendVars((NoAnswer \/ Accepted \/ Refused \/ Slept) /\ UNCHANGED cipherVars)

SendSpec == SendInit /\ [][SendNext]_sendVars

FairSendSpec == SendSpec /\ SendFairness

=============================================================================
