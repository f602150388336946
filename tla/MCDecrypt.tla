----------------------------- MODULE MCDecrypt -----------------------------
(* Instances of Decrypt for TLC. *)
EXTENDS Decrypt

CONSTANTS b1, b2

MCBlocks == {b1, b2}

\* Whole and split frames: content alone, the end mark with the padding or in
\* a dict before it, padding alone, and content that looks like padding.
MCPayloads == {<<>>, <<b1>>, <<b1, b2>>, <<b2, Pad>>, <<b1, End>>,
               <<End, Pad>>, <<Pad>>}
FewPayloads == {<<>>, <<b1>>, <<b2, End>>, <<b1, Pad>>, <<Pad>>}

\* A usable header of each mode, ones that are refused, a late file_md5, and
\* a late header that contradicts the first.
MCSums == {<<b1>>, <<b1, b2>>}
Header(c, e, k) == [compress |-> c, encrypt |-> e, key |-> k]
MCDicts == {Header(1, 1, "good"), Header(0, 1, "good"), Header(2, 1, "good"),
            [key |-> "bad"]}
           \cup {[sum |-> s] : s \in MCSums}
FewDicts == {Header(1, 1, "good"), Header(0, 1, "good"), [sum |-> <<b1>>]}
=============================================================================
