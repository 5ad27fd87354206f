---------------------------- MODULE MCMediaServer ----------------------------
(* An instance of MediaServer for TLC: an object s1 with a successor s2 of  *)
(* the same name, and an object s3 of another name.                         *)
EXTENDS MediaServer

CONSTANTS s1, s2, s3, n1, n2

MCNameOf == [s \in Streams |-> IF s = s3 THEN n2 ELSE n1]
==============================================================================
