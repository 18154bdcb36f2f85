---------------------------- MODULE MCOracleMerge ----------------------------
(* Instance of OracleMerge: up to three oracles of one, two or four scalars, *)
(* two scalars to a packed word.                                             *)
EXTENDS OracleMerge
=============================================================================
