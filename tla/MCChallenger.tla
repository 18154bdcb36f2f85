---------------------------- MODULE MCChallenger ----------------------------
(* Instance: two-byte blocks, two-byte digests, two byte values. *)
EXTENDS ChallengerMachine
=============================================================================
