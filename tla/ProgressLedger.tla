---------------------------- MODULE ProgressLedger ----------------------------
(***************************************************************************)
(* What the server promises about the progress of one title: an append-only *)
(* history of writes in which each operation occurs at most once, cut into  *)
(* lineages by resets.  A revision is a length of the history.             *)
(***************************************************************************)
EXTENDS Naturals, Sequences

CONSTANTS Operations, Foreign

VARIABLES log,      \* who wrote each revision: an operation or Foreign
          lineage   \* how many resets there were

Init == log = <<>> /\ lineage = 0

Occurs(x) == \E i \in DOMAIN log : log[i] = x

Write(x) ==
    /\ log' = Append(log, x)
    /\ lineage' \in {lineage, lineage + 1}

\* An operation is admitted once.
Admit(x) == x \in Operations /\ ~Occurs(x) /\ Write(x)

\* A compatibility client writes what it likes.
Overwrite == Write(Foreign)

Next == (\E x \in Operations : Admit(x)) \/ Overwrite

Spec == Init /\ [][Next]_<<log, lineage>>

=============================================================================
