------------------------- MODULE MCChangeWorkflow ---------------------------
(***************************************************************************)
(* Instances of ChangeWorkflow: two sessions on a change with one task,    *)
(* and a ring of three runs: it can hold a red and a green run, keep them  *)
(* when it overflows, or lose them.  Every gate, status, intent and        *)
(* interleaving is reached; the state space needs no further bounds.       *)
(***************************************************************************)
EXTENDS ChangeWorkflow, TLC

CONSTANTS s1, s2, t1

MCSessions == {s1, s2}
MCTasks == {t1}
MCRunLimit == 3
MCSymmetry == Permutations(MCSessions)
=============================================================================
