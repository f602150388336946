------------------------------ MODULE MCReader ------------------------------
(* Instances of Reader for TLC. *)
EXTENDS Reader

CONSTANTS b1, b2

MCBlocks == {b1, b2}
MCPayloads == {<<>>, <<b1>>, <<b2, End>>, <<b1, Pad>>, <<End, Pad>>, <<Pad>>}
FewPayloads == {<<b1>>, <<b2, End>>, <<b1, Pad>>, <<Pad>>}
MCSums == {<<b1>>}
Header(c) == [compress |-> c, encrypt |-> 1, key |-> "good"]
MCDicts == {Header(0), Header(1), [sum |-> <<b1>>]}
=============================================================================
