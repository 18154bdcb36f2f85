-------------------------------- MODULE Shapes --------------------------------
(* The shape the models share: a sequence whose elements may be of any kind. *)
EXTENDS Naturals, Sequences

IsSequence(s) == s \in Seq({s[i] : i \in DOMAIN s})
===============================================================================
