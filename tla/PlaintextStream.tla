-------------------------- MODULE PlaintextStream --------------------------
(***************************************************************************)
(* What a streaming decryptor promises.  Units arrive, and are handed on   *)
(* in order, each once; the last one received is held back, for it may be  *)
(* padding.  Success is reported once, and only when nothing but a trailer *)
(* is left behind.                                                         *)
(***************************************************************************)
EXTENDS Integers, Sequences

CONSTANTS Unit,     \* what streams are made of
          Trailers, \* what may follow the content
          Failures  \* the ways to fail

VARIABLES input,    \* units received
          output,   \* units handed on
          result    \* "none" until the decryptor returns

svars == <<input, output, result>>

Init == input = <<>> /\ output = <<>> /\ result = "none"

Receive == /\ result = "none"
           /\ input' \in Seq(Unit)
           /\ Len(input) < Len(input')
           /\ input = SubSeq(input', 1, Len(input))
           /\ UNCHANGED <<output, result>>

\* The next unit, never the last one, and nothing after success.
Deliver == /\ result # "nil"
           /\ Len(output) + 1 < Len(input)
           /\ output' = Append(output, input[Len(output) + 1])
           /\ UNCHANGED <<input, result>>

Succeed == /\ result = "none"
           /\ \E t \in Trailers : input = output \o t
           /\ result' = "nil"
           /\ UNCHANGED <<input, output>>

Fail == /\ result = "none"
        /\ result' \in Failures
        /\ UNCHANGED <<input, output>>

Next == Receive \/ Deliver \/ Succeed \/ Fail

Spec == Init /\ [][Next]_svars
============================================================================
