------------------------------- MODULE MCWire -------------------------------
(* Inputs of Wire: every cut of some encoded streams, and raw bytes. *)
EXTENDS Wire

CONSTANT MaxBytes \* bound: bytes of a raw stream

K == Scalar(tagString, <<65>>)
Zero == Scalar(tagInt, <<>>)
Scalars == {Scalar(tagBytes, <<>>), Scalar(tagBytes, <<64, 66>>), K, Zero,
            Scalar(tagInt, <<1, 44>>)}
Flat == {Dict(<<>>)} \cup {Dict(<<K, s>>) : s \in Scalars}
Deep == Flat \cup {Dict(<<K, d, K, s>>) : d \in Flat, s \in Scalars}
Sent == {<<d, e>> : d \in Deep, e \in {Dict(<<>>), Dict(<<K, Zero>>)}}
CutInputs ==
  UNION {LET bytes == EncodeAll(s)
         IN {<<s, SubSeq(bytes, 1, n)>> : n \in 0..Len(bytes)} : s \in Sent}

\* The tags, two of them sizes too, an unknown one that is a size, and zero.
Alphabet == {0, 2, tagInt, tagString, tagBytes, tagEnd, tagDict}
RawInputs ==
  {<<<<>>, s>> : s \in UNION {[1..n -> Alphabet] : n \in 0..MaxBytes}}
AllInputs == CutInputs \cup RawInputs
=============================================================================
