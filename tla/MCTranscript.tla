---------------------------- MODULE MCTranscript ----------------------------
(* Instance of Transcript: a proof of work is worth 0, 1 or 2 zero bits,     *)
(* depending on the nonce and on what was observed before it.                *)
EXTENDS Transcript

MCZeroBits(out) ==
  LET s == out.of.digest
      word == s[Len(s)]
  IN  IF s # <<>> /\ "byte" \in DOMAIN word THEN (word.byte + Len(s)) % 3 ELSE 0
=============================================================================
