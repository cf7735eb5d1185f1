---------------------------- MODULE MCSignedSend ----------------------------
(* Keys of two sizes, and texts of up to three blocks, complete or not.     *)
EXTENDS SignedSend

MCRSASizes == {2, 3}
MCTextSizes == 0 .. 7
=============================================================================
