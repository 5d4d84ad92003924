------------------------- MODULE MCChangeProjection -------------------------
(***************************************************************************)
(* Two sessions, three calls between them, an audit that remembers two     *)
(* operations.  The requests are the kinds of call the code tells apart:   *)
(*   - the same operation with two payloads, so that one is a replay and   *)
(*     the other a conflict; one of them carries an old state revision;    *)
(*   - a call pinned to the revision it observed, that moves the state     *)
(*     revision on, and another that claims the same state revision;       *)
(*   - one whose mutation throws, one that empties the collection without  *)
(*     having been able to declare it, one that has declared it.           *)
(***************************************************************************)
EXTENDS ChangeProjection, TLC

CONSTANTS s1, s2, t1, t2, opA, opB, opC, h1, h2

Call(op, hash, kind, item) ==
  [op |-> op, hash |-> hash, pinned |-> FALSE, srev |-> NoRev, kind |-> kind,
   item |-> item, allowEmptied |-> FALSE, summary |-> TRUE]

MCRequests ==
  { Call(opA, h1, "add", t1),
    [Call(opA, h2, "add", t2) EXCEPT !.srev = 0],
    [Call(opB, h1, "add", t2) EXCEPT !.pinned = TRUE, !.srev = 1],
    [Call(opC, h1, "clear", t1) EXCEPT !.srev = 1, !.allowEmptied = TRUE],
    Call(opC, h1, "throw", t1),
    [Call(NoOp, h1, "clear", t1) EXCEPT !.allowEmptied = TRUE, !.summary = FALSE] }

\* The sessions are interchangeable, and no liveness property is checked here.
Sessions == Permutations(Writers)
=============================================================================
