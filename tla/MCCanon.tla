-------------------------------- MODULE MCCanon --------------------------------
(***************************************************************************)
(* A small instance of Canon: two statements about one key, the second of  *)
(* which replaces the first, and an observation of a character.            *)
(***************************************************************************)
EXTENDS Canon

SomePatches ==
    {[key |-> 1, says |-> 1, kind |-> "plain", mark |-> 0],
     [key |-> 1, says |-> 2, kind |-> "transition", mark |-> 0],
     [key |-> 2, says |-> 1, kind |-> "observe", mark |-> 1]}
=============================================================================
