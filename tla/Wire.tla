-------------------------------- MODULE Wire --------------------------------
(***************************************************************************)
(* The object stream (wire.go) and its encoder (encrypt.go: wireEnc).  A   *)
(* stream is a sequence of bytes; StreamReader.Next parses one value after *)
(* another by recursive descent, one step for each io.ReadFull.            *)
(*                                                                         *)
(* The recursion of readOne is a stack of the dicts that are open, each    *)
(* the sequence key, value, key, value, ... read so far.  io.ReadFull has  *)
(* three answers: all it asked for, io.EOF if there was nothing at all,    *)
(* io.ErrUnexpectedEOF if there was too little.                            *)
(***************************************************************************)
EXTENDS Integers, SequencesExt

CONSTANTS
  Inputs, \* pairs of the values sent and the bytes that arrive
  Depth   \* bound: how deep values nest, which no stream is long enough to pass

tagEnd == 64
tagDict == 66
tagBytes == 17
tagString == 16
tagInt == 1
Byte == 0..255
MaxLength == 65535

\* A dict has its keys and values in turn; an integer has the digits of its
\* magnitude to the base 256, none for zero.
Dict(members) == [kind |-> tagDict, members |-> members]
Scalar(tag, bytes) == [kind |-> tag, bytes |-> bytes]

Blobs == {v \in [kind : {tagBytes, tagString}, bytes : Seq(Byte)] :
            Len(v.bytes) \in 0..MaxLength}
Ints == {v \in [kind : {tagInt}, bytes : Seq(Byte)] :
           Len(v.bytes) \in Byte /\ (v.bytes # <<>> => v.bytes[1] # 0)}
Pairs(S) == {members \in Seq(S) : Len(members) % 2 = 0}

\* The values that nest at most d deep.
Nested[d \in 0..Depth] ==
  Blobs \cup Ints \cup
  IF d = 0 THEN {} ELSE [kind : {tagDict}, members : Pairs(Nested[d - 1])]

----------------------------------------------------------------------------
(* wireEnc.  Blobs fit a u16 and integers are not negative: the encoder    *)
(* refuses others.                                                         *)

\* writeIntBody writes one digit at least.
Body(v) == IF v.kind = tagInt /\ v.bytes = <<>> THEN <<0>> ELSE v.bytes
Size(v) == IF v.kind = tagInt
           THEN <<Len(Body(v))>>
           ELSE <<Len(v.bytes) \div 256, Len(v.bytes) % 256>>

Joined(encode, vs) == FlattenSeq([i \in DOMAIN vs |-> encode[vs[i]]])

Encoding[d \in 0..Depth] ==
  [v \in Nested[d] |->
     <<v.kind>> \o
     IF v.kind = tagDict
     THEN Joined(Encoding[d - 1], v.members) \o <<tagEnd>>
     ELSE Size(v) \o Body(v)]

Encode(v) == Encoding[Depth][v]
EncodeAll(vs) == Joined(Encoding[Depth], vs)

\* What arrives of values that were sent is a part of their encoding.
ASSUME InputsAssumption ==
  /\ Depth \in Nat
  /\ \A i \in Inputs :
       /\ i[1] \in Seq(Nested[Depth])
       /\ i[2] \in Seq(Byte) /\ Len(i[2]) <= Depth
       /\ i[1] # <<>> => IsPrefix(i[2], EncodeAll(i[1]))

----------------------------------------------------------------------------
VARIABLES
  sent,   \* what the writer sent
  stream, \* the bytes that arrive, perhaps cut short
  pos,    \* bytes consumed
  ask,    \* what the next io.ReadFull is for
  want,   \* and how many bytes it asks for
  tag,    \* tag of the value being read, 0 before
  open,   \* the dicts that are open, innermost last
  values, \* what Next has returned
  end,    \* how the last Next ended the stream, "no" before
  padded  \* an integer arrived in more digits than it is encoded in

vars == <<sent, stream, pos, ask, want, tag, open, values, end,
          padded>>

Init ==
  /\ \E i \in Inputs : sent = i[1] /\ stream = i[2]
  /\ pos = 0 /\ ask = "tag" /\ want = 1 /\ tag = 0
  /\ open = <<>> /\ values = <<>> /\ end = "no"
  /\ padded = FALSE

\* io.ReadFull gets n bytes.
Got(n) == pos + n <= Len(stream)
Bytes == SubSeq(stream, pos + 1, pos + want)
Reading(what) == end = "no" /\ ask = what /\ Got(want)
Ask(what, n) == pos' = pos + want /\ ask' = what /\ want' = n

\* A value is complete: a member of the innermost dict, or what Next returns.
Give(v, dicts) ==
  /\ tag' = 0
  /\ IF dicts = <<>>
     THEN values' = Append(values, v) /\ open' = dicts
     ELSE /\ open' = Append(Front(dicts), Append(Last(dicts), v))
          /\ UNCHANGED values

Refuse(e) == end' = e /\ UNCHANGED <<sent, stream, pos, ask, want, tag, open,
                                     values, padded>>

\* Mutant: an end mark at the top level is skipped.
TopEndSkipped ==
  /\ Reading("tag") /\ Bytes[1] = tagEnd /\ open = <<>>
  /\ Ask("tag", 1)
  /\ UNCHANGED <<sent, stream, tag, open, values, end, padded>>

\* A terminator at the top level ends the stream.
TopEnd ==
  /\ Reading("tag") /\ Bytes[1] = tagEnd /\ open = <<>>
  /\ Ask("tag", 1) /\ end' = "clean"
  /\ UNCHANGED <<sent, stream, tag, open, values, padded>>

CloseDict ==
  /\ Reading("tag") /\ Bytes[1] = tagEnd /\ open # <<>>
  /\ Len(Last(open)) % 2 = 0
  /\ Ask("tag", 1) /\ Give(Dict(Last(open)), Front(open))
  /\ UNCHANGED <<sent, stream, end, padded>>

\* "dict key with no value"
NoValue ==
  /\ Reading("tag") /\ Bytes[1] = tagEnd /\ open # <<>>
  /\ Len(Last(open)) % 2 = 1
  /\ Refuse("error")

OpenDict ==
  /\ Reading("tag") /\ Bytes[1] = tagDict
  /\ Ask("tag", 1) /\ open' = Append(open, <<>>)
  /\ UNCHANGED <<sent, stream, tag, values, end, padded>>

OpenScalar ==
  /\ Reading("tag") /\ Bytes[1] \in {tagBytes, tagString, tagInt}
  /\ tag' = Bytes[1]
  /\ IF Bytes[1] = tagInt THEN Ask("size", 1) ELSE Ask("length", 2)
  /\ UNCHANGED <<sent, stream, open, values, end, padded>>

UnknownTag ==
  /\ Reading("tag")
  /\ Bytes[1] \notin {tagEnd, tagDict, tagBytes, tagString, tagInt}
  /\ Refuse("error")

\* Mutant: the least significant byte first.
NumberLittle(bytes) ==
  IF Len(bytes) = 1 THEN bytes[1] ELSE bytes[2] * 256 + bytes[1]

\* Mutant: a length is taken to count a byte of its own.
NumberLess(bytes) ==
  IF Len(bytes) = 1 THEN bytes[1] - 1 ELSE bytes[1] * 256 + bytes[2] - 1

\* A size has one byte, a length two.
Number(bytes) ==
  IF Len(bytes) = 1 THEN bytes[1] ELSE bytes[1] * 256 + bytes[2]

\* The length of a blob, the size of an integer.
ReadLength ==
  /\ Reading("length") \/ Reading("size")
  /\ Ask("body", Number(Bytes))
  /\ UNCHANGED <<sent, stream, tag, open, values, end, padded>>

\* The digits without leading zeros (big.Int SetBytes).
Stripped(digits) ==
  LET zeros == CHOOSE n \in 0..Len(digits) :
                 /\ \A k \in 1..n : digits[k] = 0
                 /\ n < Len(digits) => digits[n + 1] # 0
  IN SubSeq(digits, zeros + 1, Len(digits))

\* The body, possibly empty, which needs no byte to be there.
ReadBody ==
  /\ Reading("body")
  /\ Ask("tag", 1)
  /\ LET v == Scalar(tag, IF tag = tagInt THEN Stripped(Bytes) ELSE Bytes)
     IN Give(v, open) /\ padded' = (padded \/ Body(v) # Bytes)
  /\ UNCHANGED <<sent, stream, end>>

\* Too few bytes.  Next takes io.EOF for a clean end, wherever in readOne it
\* came from.
Short ==
  /\ end = "no" /\ ~Got(want)
  /\ Refuse(IF pos = Len(stream) THEN "clean" ELSE "error")

\* Any other error of the source.
SourceFails == end = "no" /\ want > 0 /\ Refuse("source")

Finished == end # "no" /\ UNCHANGED vars

Next == \/ TopEnd \/ CloseDict \/ NoValue \/ OpenDict \/ OpenScalar
        \/ UnknownTag \/ ReadLength \/ ReadBody \/ Short \/ SourceFails
        \/ Finished
Spec == Init /\ [][Next]_vars

----------------------------------------------------------------------------
(* Properties.                                                             *)

\* Every variable has its type, nothing past the end of the stream is ever
\* consumed, a value is being read exactly while its tag is known, and no
\* dict is returned, at any depth, that the encoder could not have written.
TypeOK ==
  /\ stream \in Seq(Byte)
  /\ pos \in 0..Len(stream) /\ want \in 0..MaxLength
  /\ ask \in {"tag", "length", "size", "body"}
  /\ tag \in {0, tagBytes, tagString, tagInt}
  /\ tag = 0 <=> ask = "tag"
  /\ open \in Seq(Seq(Nested[Depth])) /\ values \in Seq(Nested[Depth])
  /\ end \in {"no", "clean", "error", "source"}
  /\ padded \in BOOLEAN

\* What Next returned accounts for the bytes consumed, one by one: none is
\* skipped, read twice or taken for something else (wire.go:87-160), unless an
\* integer came with leading zeros.
Reencodes ==
  ~padded /\ ask = "tag" /\ open = <<>> /\ end = "no" =>
    EncodeAll(values) = SubSeq(stream, 1, pos)

\* What was encoded is decoded as it was; of a stream that is cut short
\* exactly the values that arrived whole are returned, and never one that was
\* not sent (wire.go:70-85, encrypt.go:518-588).
RoundTrip ==
  sent # <<>> =>
  /\ IsPrefix(values, sent)
  /\ end \in {"clean", "error"} /\ values # sent =>
       Len(EncodeAll(SubSeq(sent, 1, Len(values) + 1))) > Len(stream)
  /\ end = "error" => stream # EncodeAll(sent)

\* wire.go:70-71: no value and no error mean a stream that was "fully and
\* cleanly consumed", which no value was left half read in.
CleanEndIsClean == end = "clean" => open = <<>> /\ ask = "tag"
=============================================================================
