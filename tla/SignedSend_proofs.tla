-------------------------- MODULE SignedSend_proofs --------------------------
(***************************************************************************)
(* Proofs about SendMsg.  The retry loop, for any number of retries:        *)
(* RetryInv is inductive, and with it the loop implements the call without  *)
(* attempts.  The cipher, for any size of the key and of the text: while a  *)
(* block is left to decrypt, fewer blocks are done than the buffer was made *)
(* for; each of them wrote at most the size of the key.  And SendMsg as a   *)
(* whole is a behaviour of each of its parts, so what is proved of the      *)
(* parts holds in it.                                                       *)
(***************************************************************************)
EXTENDS SignedSend, TLAPS

(* The retry loop *)

\* Every step keeps the loop's invariant.
LEMMA RetryStep == RetryInv /\ [Next]_vars => RetryInv'
<1> SUFFICES ASSUME RetryInv, [Next]_vars PROVE RetryInv'
  OBVIOUS
<1> USE RetriesAssumption DEF RetryInv, SendTypeOK
<1>1. CASE Prepare \/ PrepareFails
  BY <1>1 DEF Prepare, PrepareFails
<1>2. CASE ServiceHandles
  BY <1>2 DEF ServiceHandles
<1>3. CASE NoAnswer
  BY <1>3 DEF NoAnswer, Used
<1>4. CASE Accepted
  BY <1>4 DEF Accepted
<1>5. CASE Refused
  BY <1>5 DEF Refused, Used
<1>6. CASE Slept
  BY <1>6 DEF Slept
<1>7. CASE UNCHANGED vars
  BY <1>7 DEF vars
<1> QED
  BY <1>1, <1>2, <1>3, <1>4, <1>5, <1>6, <1>7 DEF Next

\* The retry loop's invariant.
THEOREM RetryInvariance == Spec => []RetryInv
<1>1. Init => RetryInv
  BY RetriesAssumption DEF Init, RetryInv, SendTypeOK
<1> QED
  BY <1>1, RetryStep, PTL DEF Spec

\* The retry loop implements the call without attempts.
THEOREM RetryImplementsCall == Spec => ImplementsCall
<1> USE DEF resultOf, Call!Init, Call!vars, Call!Handle, Call!Finish
<1>1. Init => Call!Init
  BY DEF Init
<1>2. RetryInv /\ [Next]_vars => [Call!Handle \/ Call!Finish]_Call!vars
  <2> SUFFICES ASSUME RetryInv, [Next]_vars
               PROVE  [Call!Handle \/ Call!Finish]_Call!vars
    OBVIOUS
  <2> USE RetriesAssumption DEF RetryInv, SendTypeOK
  <2>1. CASE Prepare \/ PrepareFails
    BY <2>1 DEF Prepare, PrepareFails
  <2>2. CASE ServiceHandles
    BY <2>2 DEF ServiceHandles
  <2>3. CASE NoAnswer
    BY <2>3 DEF NoAnswer, Used
  <2>4. CASE Accepted
    BY <2>4 DEF Accepted
  <2>5. CASE Refused \/ Slept
    BY <2>5 DEF Refused, Used, Slept
  <2>6. CASE UNCHANGED vars
    BY <2>6 DEF vars
  <2> QED
    BY <2>1, <2>2, <2>3, <2>4, <2>5, <2>6 DEF Next
<1> QED
  BY <1>1, <1>2, RetryInvariance, PTL DEF Spec, ImplementsCall, Call!Spec

------------------------------------------------------------------------------
(* The cipher *)

\* Multiplication by a natural number keeps the order.
LEMMA TimesMonotone ==
    ASSUME NEW m \in Nat, NEW n \in Nat, NEW b \in Nat, m <= n
    PROVE  m * b <= n * b
<1>1. PICK d \in Nat : n = m + d
  BY n - m \in Nat
<1>2. n * b = m * b + d * b
  BY <1>1
<1>3. d * b \in Nat /\ m * b \in Nat
  OBVIOUS
<1> QED
  BY <1>2, <1>3

\* BlocksFor is enough: it covers all of the text.
LEMMA BlocksCover ==
    ASSUME NEW n \in Nat, NEW b \in Nat \ {0}
    PROVE  BlocksFor(n, b) \in Nat /\ n <= BlocksFor(n, b) * b
<1> DEFINE q == (n + b - 1) \div b
           r == (n + b - 1) % b
<1>1. q \in Nat /\ r \in 0 .. b - 1 /\ n + b - 1 = q * b + r
  OBVIOUS
<1>2. q * b \in Nat
  BY <1>1
<1> HIDE DEF q, r
<1>3. n <= q * b
  BY <1>1, <1>2
<1> QED
  BY <1>1, <1>3 DEF BlocksFor, q

\* Where a block is left to do, the buffer was made for more blocks than are
\* done, and so has room for one more.
LEMMA RoomForOne ==
    ASSUME NEW n \in Nat, NEW b \in Nat \ {0}, NEW done \in Nat, done * b < n
    PROVE  done * b + b <= BlocksFor(n, b) * b
<1> DEFINE B == BlocksFor(n, b)
<1>1. B \in Nat /\ n <= B * b
  BY BlocksCover
<1> HIDE DEF B
<1>2. done < B
  <2>1. SUFFICES ASSUME B <= done PROVE FALSE
    BY <1>1
  <2>2. B * b <= done * b
    BY <2>1, <1>1, TimesMonotone
  <2>3. B * b \in Nat /\ done * b \in Nat
    BY <1>1
  <2> QED
    BY <2>2, <2>3, <1>1
<1>3. (done + 1) * b <= B * b
  BY <1>2, <1>1, TimesMonotone
<1>4. (done + 1) * b = done * b + b
  OBVIOUS
<1> QED
  BY <1>3, <1>4 DEF B

\* Every step of the cipher keeps its invariant.
LEMMA CipherStep == CipherInv /\ [CipherNext]_cipherVars => CipherInv'
<1> SUFFICES ASSUME CipherInv, [CipherNext]_cipherVars PROVE CipherInv'
  OBVIOUS
<1> USE SizesAssumption DEF CipherInv, CipherTypeOK, CipherPC
<1>1. CASE DecryptFromBase64
  BY <1>1 DEF DecryptFromBase64
<1>2. CASE GetCipherSizeInfo
  <2>1. BlocksFor(textSize, rsaSize) * rsaSize \in Nat
    BY BlocksCover
  <2> QED
    BY <1>2, <2>1 DEF GetCipherSizeInfo
<1>3. CASE CipherBlock
  <2>1. CASE cpc' = "failed" /\ UNCHANGED <<offset, outputLen, blocks>>
    BY <1>3, <2>1 DEF CipherBlock
  <2>2. ASSUME offset < textSize, NEW n \in 1 .. rsaSize,
               outputLen' = outputLen + n, offset' = offset + StepSize,
               blocks' = blocks + 1, UNCHANGED cpc
        PROVE  CipherInv'
    <3>1. (blocks + 1) * rsaSize = blocks * rsaSize + rsaSize
      OBVIOUS
    <3>2. blocks * rsaSize \in Nat
      OBVIOUS
    <3>3. /\ offset' = textSize \/ offset' = blocks' * rsaSize
          /\ outputLen' <= blocks' * rsaSize
      BY <2>2, <3>1, <3>2 DEF StepSize
    <3>4. UNCHANGED <<textSize, rsaSize, outBufSize>> /\ cpc = "block"
      BY <1>3 DEF CipherBlock
    <3>5. offset' \in Nat /\ outputLen' \in Nat /\ blocks' \in Nat
      BY <2>2 DEF StepSize
    <3> QED
      BY <2>2, <3>3, <3>4, <3>5
  <2> QED
    BY <1>3, <2>1, <2>2 DEF CipherBlock
<1>4. CASE CipherMsg \/ DecryptMsg \/ UseOriginal
  BY <1>4 DEF CipherMsg, DecryptMsg, UseOriginal
<1>5. CASE UNCHANGED cipherVars
  BY <1>5 DEF cipherVars
<1> QED
  BY <1>1, <1>2, <1>3, <1>4, <1>5 DEF CipherNext

\* The invariant of the block loop.
THEOREM CipherInvariance == CipherSpec => []CipherInv
<1>1. CipherInit => CipherInv
  BY SizesAssumption DEF CipherInit, CipherInv, CipherTypeOK, CipherPC
<1> QED
  BY <1>1, CipherStep, PTL DEF CipherSpec

\* For any key and any text, the buffer of CipherMsg has room for the next
\* block whenever there is one.
THEOREM BufferSuffices == CipherSpec => []BufferHolds
<1>1. CipherInv => BufferHolds
  <2> SUFFICES ASSUME CipherInv, cpc = "block", offset < textSize
               PROVE  outputLen + rsaSize <= outBufSize
    BY DEF BufferHolds
  <2> USE SizesAssumption DEF CipherInv, CipherTypeOK
  <2>1. blocks * rsaSize + rsaSize <= outBufSize
    BY RoomForOne
  <2> QED
    BY <2>1
<1> QED
  BY <1>1, CipherInvariance, PTL

------------------------------------------------------------------------------
(* SendMsg *)

\* A step of SendMsg is a step of the retry loop or leaves it alone.
LEMMA SendStepsRetry == [SendNext]_sendVars => [Next]_vars
  BY DEF SendNext, sendVars, GetKey, Sign, NoKeyOrUrl, Post, Next

\* A step of SendMsg is a step of the cipher or leaves it alone.
LEMMA SendStepsCipher == [SendNext]_sendVars => [CipherNext]_cipherVars
  BY DEF SendNext, sendVars, GetKey, Sign, NoKeyOrUrl, Post

\* SendMsg runs the retry loop ...
LEMMA SendRunsRetry == SendSpec => Spec
  BY SendStepsRetry, PTL DEF SendSpec, SendInit, Spec

\* ... and the cipher.
LEMMA SendRunsCipher == SendSpec => CipherSpec
  BY SendStepsCipher, PTL DEF SendSpec, SendInit, CipherSpec

\* SendMsg keeps the invariant of the retry loop, with any number of retries: if
\* it fails after posting, it has used up exactly its attempts.
THEOREM SendKeepsRetryInv == SendSpec => []RetryInv
  BY SendRunsRetry, RetryInvariance, PTL

\* The buffer of the cipher always holds the next block of the key.
THEOREM SendBufferHolds == SendSpec => []BufferHolds
  BY SendRunsCipher, BufferSuffices, PTL

\* SendMsg implements the call without keys and attempts: success only for a
\* message the service handled.
THEOREM SendImplementsCall == SendSpec => ImplementsCall
  BY SendRunsRetry, RetryImplementsCall, PTL

------------------------------------------------------------------------------
(* SendMsg runs out of steps *)

\* How many steps the retry loop has left at most, at each point of an attempt.
PostsLeft ==
    CASE pc \in {"prepare", "sleep"} -> 3 * retryCount + 1
      [] pc = "request"              -> 3 * retryCount
      [] pc = "reached"              -> 3 * retryCount - 1
      [] OTHER                       -> 0

\* How many the cipher has left at most: every block takes a byte or more.
KeyLeft ==
    CASE cpc = "decode" -> textSize + 5
      [] cpc = "size"   -> textSize + 4
      [] cpc = "block"  -> (IF offset < textSize THEN textSize - offset ELSE 0) + 3
      [] cpc = "null"   -> 2
      [] cpc = "failed" -> 1
      [] OTHER          -> 0

SendLeft == PostsLeft + KeyLeft

LEMMA PostsLeftNat == RetryInv => PostsLeft \in Nat
BY RetriesAssumption DEF RetryInv, SendTypeOK, PostsLeft

LEMMA KeyLeftNat == CipherInv => KeyLeft \in Nat
BY SizesAssumption DEF CipherInv, CipherTypeOK, CipherPC, KeyLeft

\* Each step of the retry loop uses one up: a retry less is worth more than all
\* the steps of an attempt.
LEMMA PostsStep == RetryInv /\ Next => PostsLeft' < PostsLeft
<1> SUFFICES ASSUME RetryInv, Next PROVE PostsLeft' < PostsLeft
  OBVIOUS
<1> USE RetriesAssumption DEF RetryInv, SendTypeOK, PostsLeft
<1>1. CASE Prepare \/ PrepareFails
  BY <1>1 DEF Prepare, PrepareFails
<1>2. CASE ServiceHandles \/ Accepted
  BY <1>2 DEF ServiceHandles, Accepted
<1>3. CASE NoAnswer
  BY <1>3 DEF NoAnswer, Used
<1>4. CASE Refused
  BY <1>4 DEF Refused, Used
<1>5. CASE Slept
  BY <1>5 DEF Slept
<1> QED
  BY <1>1, <1>2, <1>3, <1>4, <1>5 DEF Next

\* ... and so does each step of the cipher.
LEMMA KeyStep == CipherInv /\ CipherNext => KeyLeft' < KeyLeft
<1> SUFFICES ASSUME CipherInv, CipherNext PROVE KeyLeft' < KeyLeft
  OBVIOUS
<1> USE SizesAssumption DEF CipherInv, CipherTypeOK, CipherPC, KeyLeft
<1>1. CASE DecryptFromBase64
  BY <1>1 DEF DecryptFromBase64
<1>2. CASE GetCipherSizeInfo
  BY <1>2 DEF GetCipherSizeInfo
<1>3. CASE CipherBlock
  <2>1. CASE cpc' = "failed"
    BY <1>3, <2>1 DEF CipherBlock
  <2>2. CASE offset' = offset + StepSize /\ cpc' = cpc
    BY <1>3, <2>2 DEF CipherBlock, StepSize
  <2> QED
    BY <1>3, <2>1, <2>2 DEF CipherBlock
<1>4. CASE CipherMsg \/ DecryptMsg \/ UseOriginal
  BY <1>4 DEF CipherMsg, DecryptMsg, UseOriginal
<1> QED
  BY <1>1, <1>2, <1>3, <1>4 DEF CipherNext

\* SendMsg cannot go on for ever: every step, also one that fails, retries or
\* is answered badly, leaves fewer steps, for any number of retries and any
\* sizes of key and text.  It is the safety half of SendReturns.
THEOREM SendRunsOut == SendSpec => [][SendLeft' \in Nat /\ SendLeft' < SendLeft]_sendVars
<1>1. RetryInv /\ CipherInv => PostsLeft \in Nat /\ KeyLeft \in Nat
  BY PostsLeftNat, KeyLeftNat
<1>2. RetryInv' /\ CipherInv' => (PostsLeft \in Nat /\ KeyLeft \in Nat)'
  BY <1>1, PTL
<1>3. RetryInv /\ CipherInv /\ RetryInv' /\ CipherInv' /\ [SendNext]_sendVars
         => [SendLeft' \in Nat /\ SendLeft' < SendLeft]_sendVars
  <2> SUFFICES ASSUME RetryInv, CipherInv, RetryInv', CipherInv', SendNext
               PROVE  SendLeft' \in Nat /\ SendLeft' < SendLeft
    OBVIOUS
  <2>1. PICK p \in Nat, k \in Nat : p = PostsLeft /\ k = KeyLeft
    BY <1>1
  <2>2. PICK q \in Nat, l \in Nat : q = PostsLeft' /\ l = KeyLeft'
    BY <1>2
  <2>3. SendLeft = p + k /\ SendLeft' = q + l
    BY <2>1, <2>2 DEF SendLeft
  <2>4. CASE GetKey
    <3>1. l < k
      BY <2>1, <2>2, <2>4, KeyStep DEF GetKey
    <3>2. q = p
      BY <2>1, <2>2, <2>4 DEF GetKey, vars, PostsLeft
    <3> QED
      BY <2>3, <3>1, <3>2
  <2>5. CASE Sign \/ NoKeyOrUrl \/ Post
    <3>1. q < p
      BY <2>1, <2>2, <2>5, PostsStep DEF Sign, NoKeyOrUrl, Post, Next
    <3>2. l = k
      BY <2>1, <2>2, <2>5 DEF Sign, NoKeyOrUrl, Post, cipherVars, KeyLeft
    <3> QED
      BY <2>3, <3>1, <3>2
  <2> QED
    BY <2>4, <2>5 DEF SendNext
<1>4. SendSpec => []CipherInv
  BY SendRunsCipher, CipherInvariance, PTL
<1> QED
  BY <1>3, <1>4, SendKeepsRetryInv, PTL DEF SendSpec

=============================================================================
