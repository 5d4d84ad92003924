--------------------------- MODULE MCProjectStore ---------------------------
(***************************************************************************)
(* One session that commits through the transaction beside one call that   *)
(* saves a change around it: the least with which an update can be lost.   *)
(***************************************************************************)
EXTENDS ProjectStore

CONSTANTS s1, w1, t1, t2, opA, h1

MCRequests ==
  { [op |-> opA, hash |-> h1, pinned |-> TRUE, srev |-> NoRev, kind |-> "add",
     item |-> t1, allowEmptied |-> FALSE, summary |-> TRUE] }
=============================================================================
