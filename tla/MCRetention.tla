---------------------------- MODULE MCRetention ----------------------------
(***************************************************************************)
(* Small instances of Retention.                                           *)
(***************************************************************************)
EXTENDS Retention

CONSTANTS c1, c2

Ranks == [c \in Conversations |-> IF c = c1 THEN 1 ELSE 2]
=============================================================================
