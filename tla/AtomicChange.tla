---------------------------- MODULE AtomicChange ----------------------------
(***************************************************************************)
(* What the writers of one change projection are promised by               *)
(* commitChangeProjection (storage/change-projection-transaction.ts):      *)
(* "concurrent disjoint mutations survive" and a conflicting one is        *)
(* refused.  Whatever the interleaving of sessions, crashes and retries,   *)
(* the change file moves as if each accepted call were one indivisible     *)
(* step that applies its mutation to the current content.                  *)
(***************************************************************************)
EXTENDS Integers, Sequences

CONSTANTS Items,     \* the entries of the protected collections
          Ops,       \* operation identities
          NoOp,      \* a call without one
          MaxAudit   \* how many operations the change remembers

VARIABLES rev,       \* projection_revision
          srev,      \* state_revision
          items,     \* the entries present
          recent     \* the remembered operations, oldest first

vars == <<rev, srev, items, recent>>

Init == /\ rev = 0
        /\ srev = 0
        /\ items = {}
        /\ recent = <<>>

Remembered(o) == \E i \in DOMAIN recent : recent[i] = o

\* The last MaxAudit elements of a sequence.
LastAudit(s) == IF Len(s) <= MaxAudit THEN s
                ELSE SubSeq(s, Len(s) - MaxAudit + 1, Len(s))

\* One accepted call: it changes the current content, takes the next revision
\* and is remembered; a remembered operation is not accepted again.
Commit(o) == /\ o = NoOp \/ ~Remembered(o)
             /\ rev' = rev + 1
             /\ srev' >= srev
             /\ \/ \E i \in Items : items' = items \cup {i}
                \/ items' = {}
             /\ recent' = LastAudit(Append(recent, o))

Next == \E o \in Ops \cup {NoOp} : Commit(o)

Spec == Init /\ [][Next]_vars
=============================================================================
