----------------------------- MODULE TargetStore -----------------------------
(***************************************************************************)
(* What a reader of the output directory may rely on: under each target    *)
(* name there is nothing or a whole file, and a file is only ever replaced *)
(* by another whole one, in a single step.  Only the machine's going down  *)
(* may leave something broken under a name.                                *)
(***************************************************************************)
EXTENDS Naturals

CONSTANTS Names,   \* the target names
          Files,   \* whole files that may stand under them
          Nothing, \* no file
          Broken   \* a file that is not whole

VARIABLES store,
          boots    \* how often the process was started

Init == store \in [Names -> Files \cup {Nothing}] /\ boots = 1

Replace(n, f) == store' = [store EXCEPT ![n] = f] /\ UNCHANGED boots

\* Started anew, after the machine went down with what was under `lost`.
Reboot(lost) ==
  /\ boots' = boots + 1
  /\ store' = [n \in Names |-> IF n \in lost THEN Broken ELSE store[n]]

Next == \/ \E n \in Names, f \in Files : Replace(n, f)
        \/ \E lost \in SUBSET {n \in Names : store[n] # Nothing} : Reboot(lost)
Spec == Init /\ [][Next]_<<store, boots>>
=============================================================================
