------------------------------- MODULE Cipher -------------------------------
(***************************************************************************)
(* Cipher::DecryptFromBase64, as GetAkSk calls it for the secret key of the *)
(* signature before every message (and FillVcnInputInfo for a password):    *)
(* the text is cut into blocks of the RSA key's size, each is decrypted     *)
(* into one buffer behind the one before, and when any of it fails the      *)
(* caller goes on with the text as it was configured.                       *)
(*                                                                         *)
(* Bytes are counted, not modelled.  Base64Decode, the memory and OpenSSL   *)
(* are external: each call may fail.  Only decryption is reachable in this  *)
(* program.  The sizes are far below the range of int.                      *)
(***************************************************************************)
EXTENDS Naturals

CONSTANTS
    RSASizes,   \* RSA_size of the keys
    TextSizes   \* sizes of the configured text

ASSUME SizesAssumption ==
    /\ RSASizes \subseteq Nat \ {0}
    /\ TextSizes \subseteq Nat

VARIABLES
    cpc,         \* where the call is
    textSize,    \* input.size()
    rsaSize,     \* rsaSize, also the size of the blocks
    outBufSize,  \* outBufSize: the bytes allocated for the result
    offset,      \* offset: the bytes of the text that are used
    outputLen,   \* outputLen: the bytes of the result that are written
    blocks       \* how many blocks are decrypted (a history variable)

cipherVars == <<cpc, textSize, rsaSize, outBufSize, offset, outputLen, blocks>>

CipherPC == {"decode", "size", "block", "null", "failed", "original", "throw"}

CipherTypeOK ==
    /\ cpc \in CipherPC
    /\ textSize \in TextSizes
    /\ rsaSize \in RSASizes
    /\ outBufSize \in Nat
    /\ offset \in Nat
    /\ outputLen \in Nat
    /\ blocks \in Nat

CipherInit ==
    /\ cpc = "decode"
    /\ textSize \in TextSizes
    /\ rsaSize \in RSASizes
    /\ outBufSize = 0
    /\ offset = 0 /\ outputLen = 0 /\ blocks = 0

------------------------------------------------------------------------------
\* Base64Decode: its result only decides whether to go on; what is decrypted
\* is the text itself.  An empty text is refused by DecryptMsg.
DecryptFromBase64 ==
    /\ cpc = "decode"
    /\ \/ cpc' = "failed"
       \/ textSize > 0 /\ cpc' = "size"
    /\ UNCHANGED <<textSize, rsaSize, outBufSize, offset, outputLen, blocks>>

\* Mutant: the last, incomplete block is forgotten.
BlocksFor_RoundedDown(n, b) == n \div b

\* How many blocks of size b cover n bytes.
BlocksFor(n, b) == (n + b - 1) \div b

\* GetCipherSizeInfo, GetCleanBuff and GetContextAndKey.
GetCipherSizeInfo ==
    /\ cpc = "size"
    /\ \/ /\ cpc' = "block"
          /\ outBufSize' = BlocksFor(textSize, rsaSize) * rsaSize
       \/ cpc' = "failed" /\ UNCHANGED outBufSize
    /\ UNCHANGED <<textSize, rsaSize, offset, outputLen, blocks>>

StepSize == IF textSize - offset < rsaSize THEN textSize - offset ELSE rsaSize

\* One EVP_PKEY_decrypt, also of an incomplete block; a block that is decrypted
\* writes a byte at least, and at most as many as the key has.
CipherBlock ==
    /\ cpc = "block"
    /\ offset < textSize
    /\ \/ /\ \E n \in 1 .. rsaSize : outputLen' = outputLen + n
          /\ offset' = offset + StepSize
          /\ blocks' = blocks + 1
          /\ UNCHANGED cpc
       \/ /\ cpc' = "failed"
          /\ UNCHANGED <<offset, outputLen, blocks>>
    /\ UNCHANGED <<textSize, rsaSize, outBufSize>>

\* CipherMsg succeeded, but it got the caller's output by value: DecryptMsg
\* still holds a null pointer ...
CipherMsg ==
    /\ cpc = "block"
    /\ offset >= textSize
    /\ cpc' = "null"
    /\ UNCHANGED <<textSize, rsaSize, outBufSize, offset, outputLen, blocks>>

\* ... from which a std::string of outputLen > 0 bytes cannot be made.
DecryptMsg ==
    /\ cpc = "null"
    /\ cpc' = IF outputLen > 0 THEN "throw" ELSE "failed"
    /\ UNCHANGED <<textSize, rsaSize, outBufSize, offset, outputLen, blocks>>

\* The caller uses the configured text after a failure.
UseOriginal ==
    /\ cpc = "failed"
    /\ cpc' = "original"
    /\ UNCHANGED <<textSize, rsaSize, outBufSize, offset, outputLen, blocks>>

CipherNext ==
    \/ DecryptFromBase64 \/ GetCipherSizeInfo \/ CipherBlock \/ CipherMsg
    \/ DecryptMsg \/ UseOriginal

CipherSpec == CipherInit /\ [][CipherNext]_cipherVars

------------------------------------------------------------------------------
(* Properties                                                               *)

\* EVP_PKEY_decrypt is told that rsaSize bytes are free behind outputLen:
\* the one allocation made before the loop has room for the result of every
\* block, whatever the sizes of the text and of the key.
BufferHolds ==
    cpc = "block" /\ offset < textSize => outputLen + rsaSize <= outBufSize

\* What makes it inductive: the bytes used and written, by blocks; only the
\* last block, after which nothing is left, may be an incomplete one.
CipherInv ==
    /\ CipherTypeOK
    /\ cpc \in {"decode", "size"} => blocks = 0
    /\ offset < textSize => offset = blocks * rsaSize
    /\ outputLen <= blocks * rsaSize
    /\ cpc = "block" => outBufSize = BlocksFor(textSize, rsaSize) * rsaSize

=============================================================================
