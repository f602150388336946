------------------------------ MODULE MCBatch -------------------------------
(* Small instances of Batch. *)
EXTENDS Batch

\* Units with a target each.
OwnTargets == [j \in 1..N |-> j]
FirstExists == {1}

\* Two inputs with one base name, and a third one.
SharedTargets == [j \in 1..N |-> IF j = N THEN "other" ELSE "same"]
OtherExists == {"other"}
=============================================================================
