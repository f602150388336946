----------------------------- MODULE WireProofs -----------------------------
(***************************************************************************)
(* Proofs about Wire.                                                      *)
(***************************************************************************)
EXTENDS Wire, SequenceTheorems, FiniteSetTheorems, WellFoundedInduction, TLAPS

----------------------------------------------------------------------------
(* Induction.  The induction theorems of the library take an operator,     *)
(* which no prover here instantiates; this one takes a set, and rests on   *)
(* the strict subset ordering of finite sets being well founded.           *)

LEMMA Induction ==
  ASSUME NEW S, 0 \in S, \A n \in Nat : n \in S => n + 1 \in S
  PROVE  Nat \subseteq S
<1> DEFINE R == StrictSubsetOrdering(Nat)
           T == Nat \ S
           F == {1..x : x \in T}
<1>0. SUFFICES ASSUME T # {} PROVE FALSE OBVIOUS
<1>1. \A x \in T : IsFiniteSet(1..x) BY FS_Interval
<1>2. F \subseteq FiniteSubsetsOf(Nat) BY <1>1 DEF FiniteSubsetsOf
<1>3. \E f \in F : \A g \in F : <<g, f>> \notin R
  <2>1. IsWellFoundedOn(R, FiniteSubsetsOf(Nat))
    BY FS_StrictSubsetOrderingWellFounded
  <2>2. F # {} BY <1>0
  <2> HIDE DEF F, R
  <2> QED BY <1>2, <2>1, <2>2, WFMin
<1>4. PICK x \in T : \A y \in T : <<1..y, 1..x>> \notin R BY <1>3
<1>5. x # 0 /\ x - 1 \in Nat /\ x - 1 \notin S
  <2>1. x # 0 /\ x - 1 \in Nat OBVIOUS
  <2>2. x - 1 \in S => (x - 1) + 1 \in S BY <2>1
  <2>3. (x - 1) + 1 = x OBVIOUS
  <2> QED BY <2>1, <2>2, <2>3
<1>6. x - 1 \in T BY <1>5
<1>7. 1..(x - 1) \subseteq 1..x /\ 1..(x - 1) # 1..x BY <1>5
<1>8. <<1..(x - 1), 1..x>> \in R BY <1>7 DEF StrictSubsetOrdering
<1> QED BY <1>4, <1>6, <1>8

----------------------------------------------------------------------------
(* What the recursive definitions compute.                                 *)

LEMMA DepthType == Depth \in Nat
BY InputsAssumption

LEMMA NestedUnfold ==
  ASSUME NEW d \in 0..Depth
  PROVE  Nested[d] = Blobs \cup Ints \cup
           IF d = 0 THEN {}
           ELSE [kind : {tagDict}, members : Pairs(Nested[d - 1])]
<1> DEFINE Equation(m, f) ==
             f = [e \in 0..m |->
                    Blobs \cup Ints \cup
                    IF e = 0 THEN {}
                    ELSE [kind : {tagDict}, members : Pairs(f[e - 1])]]
           S == {m \in Nat : \E f : Equation(m, f)}
<1>1. 0 \in S
  <2>1. Equation(0, [e \in 0..0 |-> Blobs \cup Ints]) OBVIOUS
  <2> QED BY <2>1
<1>2. ASSUME NEW n \in Nat, n \in S PROVE n + 1 \in S
  <2>1. PICK f : Equation(n, f) BY <1>2
  <2> DEFINE last == Blobs \cup Ints \cup
                     [kind : {tagDict}, members : Pairs(f[n])]
             g == [e \in 0..n + 1 |-> IF e = n + 1 THEN last ELSE f[e]]
  <2>2. ASSUME NEW e \in 0..n + 1
        PROVE  g[e] = Blobs \cup Ints \cup
                      IF e = 0 THEN {}
                      ELSE [kind : {tagDict}, members : Pairs(g[e - 1])]
    <3>1. CASE e = n + 1 BY <3>1
    <3>2. CASE e \in 0..n
      <4>1. f[e] = Blobs \cup Ints \cup
                   IF e = 0 THEN {}
                   ELSE [kind : {tagDict}, members : Pairs(f[e - 1])]
        BY <3>2, <2>1, Zenon
      <4>2. g[e] = f[e] /\ (e # 0 => g[e - 1] = f[e - 1]) BY <3>2
      <4> HIDE DEF g
      <4> QED BY <4>1, <4>2
    <3> QED BY <3>1, <3>2
  <2>3. g = [e \in 0..n + 1 |-> g[e]] OBVIOUS
  <2> HIDE DEF g
  <2>4. Equation(n + 1, g) BY <2>2, <2>3
  <2> HIDE DEF Equation
  <2> QED BY <2>4
<1>3. Depth \in S
  <2> HIDE DEF S
  <2> QED BY <1>1, <1>2, Induction, DepthType
<1>4. Equation(Depth, Nested)
  <2>1. \E f : Equation(Depth, f) BY <1>3
  <2> QED BY <2>1 DEF Nested
<1> QED BY <1>4

\* A value of depth d is a scalar or a dict of values one less deep.
LEMMA NestedCases ==
  ASSUME NEW d \in 0..Depth, NEW v
  PROVE  /\ v \in Blobs \cup Ints => v \in Nested[d]
         /\ d > 0 => \A ms \in Pairs(Nested[d - 1]) : Dict(ms) \in Nested[d]
         /\ v \in Nested[d] =>
              \/ v \in Blobs \cup Ints
              \/ d > 0 /\ v.members \in Pairs(Nested[d - 1])
                 /\ v = Dict(v.members)
BY NestedUnfold DEF Dict

LEMMA KindOf ==
  ASSUME NEW v
  PROVE  /\ v \in Blobs => v.kind \in {tagBytes, tagString}
         /\ v \in Ints => v.kind = tagInt
         /\ \A ms : Dict(ms).kind = tagDict /\ Dict(ms).members = ms
BY DEF Blobs, Ints, Dict

LEMMA SeqPairs ==
  ASSUME NEW S, NEW T, S \subseteq T
  PROVE  Seq(S) \subseteq Seq(T) /\ Pairs(S) \subseteq Pairs(T)
BY SeqMonotonic DEF Pairs

LEMMA NestedStep ==
  ASSUME NEW d \in Nat, d + 1 \in 0..Depth
  PROVE  Nested[d] \subseteq Nested[d + 1]
<1> DEFINE S == {n \in Nat : n + 1 \in 0..Depth => Nested[n] \subseteq Nested[n + 1]}
<1>1. 0 \in S
  <2> SUFFICES ASSUME 1 \in 0..Depth PROVE Nested[0] \subseteq Nested[1]
    OBVIOUS
  <2>1. 0 \in 0..Depth BY DepthType
  <2>2. Nested[0] = Blobs \cup Ints BY <2>1, NestedUnfold
  <2> QED BY <2>2, NestedCases
<1>2. ASSUME NEW n \in Nat, n \in S PROVE n + 1 \in S
  <2> SUFFICES ASSUME n + 2 \in 0..Depth, NEW v \in Nested[n + 1]
               PROVE  v \in Nested[n + 2]
    OBVIOUS
  <2>1. n + 1 \in 0..Depth /\ n + 2 > 0 /\ n + 1 > 0
        /\ (n + 1) - 1 = n /\ (n + 2) - 1 = n + 1 BY DepthType
  <2>2. Nested[n] \subseteq Nested[n + 1] BY <1>2, <2>1
  <2>3. CASE v \in Blobs \cup Ints BY <2>3, NestedCases
  <2>4. CASE v.members \in Pairs(Nested[n]) /\ v = Dict(v.members)
    <3>1. v.members \in Pairs(Nested[n + 1]) BY <2>2, <2>4, SeqPairs
    <3> QED BY <2>1, <2>4, <3>1, NestedCases
  <2> QED BY <2>1, <2>3, <2>4, NestedCases
<1>3. d \in S
  <2> HIDE DEF S
  <2> QED BY <1>1, <1>2, Induction
<1> QED BY <1>3

LEMMA NestedMonotonic ==
  ASSUME NEW d \in 0..Depth
  PROVE  Nested[d] \subseteq Nested[Depth]
<1> DEFINE S == {n \in Nat : n <= Depth => Nested[Depth - n] \subseteq Nested[Depth]}
<1>1. 0 \in S BY DepthType
<1>2. ASSUME NEW n \in Nat, n \in S PROVE n + 1 \in S
  <2> SUFFICES ASSUME n + 1 <= Depth
               PROVE  Nested[Depth - (n + 1)] \subseteq Nested[Depth]
    OBVIOUS
  <2>1. Depth - (n + 1) \in Nat /\ (Depth - (n + 1)) + 1 = Depth - n
        /\ Depth - n \in 0..Depth BY DepthType
  <2>2. Nested[Depth - (n + 1)] \subseteq Nested[Depth - n]
    BY <2>1, NestedStep
  <2>3. Nested[Depth - n] \subseteq Nested[Depth] BY <1>2, DepthType
  <2> QED BY <2>2, <2>3
<1>3. Depth - d \in S
  <2> HIDE DEF S
  <2> QED BY <1>1, <1>2, Induction, DepthType
<1>4. Depth - d \in Nat /\ Depth - (Depth - d) = d /\ Depth - d <= Depth BY DepthType
<1> QED BY <1>3, <1>4

----------------------------------------------------------------------------
(* Concatenation.                                                          *)

Flattens(seqs, f) ==
  f = [i \in 1..Len(seqs) |-> IF i = 1 THEN seqs[i] ELSE f[i - 1] \o seqs[i]]

LEMMA FlattensExists ==
  ASSUME NEW seqs \in Seq(Seq(Byte))
  PROVE  \E f : Flattens(seqs, f)
<1> DEFINE Equation(m, f) ==
             f = [i \in 1..m |->
                    IF i = 1 THEN seqs[i] ELSE f[i - 1] \o seqs[i]]
           S == {m \in Nat : \E f : Equation(m, f)}
<1>1. 0 \in S
  <2>1. Equation(0, [i \in 1..0 |-> <<>>]) OBVIOUS
  <2> QED BY <2>1
<1>2. ASSUME NEW n \in Nat, n \in S PROVE n + 1 \in S
  <2>1. PICK f : Equation(n, f) BY <1>2
  <2> DEFINE last == IF n = 0 THEN seqs[1] ELSE f[n] \o seqs[n + 1]
             g == [i \in 1..n + 1 |-> IF i = n + 1 THEN last ELSE f[i]]
  <2>2. ASSUME NEW i \in 1..n + 1
        PROVE  g[i] = IF i = 1 THEN seqs[i] ELSE g[i - 1] \o seqs[i]
    <3>1. CASE i = n + 1 BY <3>1
    <3>2. CASE i \in 1..n
      <4>1. f[i] = IF i = 1 THEN seqs[i] ELSE f[i - 1] \o seqs[i]
        BY <3>2, <2>1, Zenon
      <4>2. g[i] = f[i] /\ (i # 1 => g[i - 1] = f[i - 1]) BY <3>2
      <4> HIDE DEF g
      <4> QED BY <4>1, <4>2
    <3> QED BY <3>1, <3>2
  <2>3. g = [i \in 1..n + 1 |-> g[i]] OBVIOUS
  <2> HIDE DEF g
  <2>4. Equation(n + 1, g) BY <2>2, <2>3
  <2> HIDE DEF Equation
  <2> QED BY <2>4
<1>3. Len(seqs) \in S
  <2>1. Len(seqs) \in Nat OBVIOUS
  <2> HIDE DEF S
  <2> QED BY <1>1, <1>2, <2>1, Induction
<1> QED BY <1>3 DEF Flattens

LEMMA FlattenSeqIs ==
  ASSUME NEW seqs \in Seq(Seq(Byte)), seqs # <<>>
  PROVE  \E f : Flattens(seqs, f) /\ FlattenSeq(seqs) = f[Len(seqs)]
<1>1. Len(seqs) # 0 BY EmptySeq
<1> DEFINE f == CHOOSE f : Flattens(seqs, f)
<1>2. Flattens(seqs, f) BY FlattensExists
<1>3. FlattenSeq(seqs) = f[Len(seqs)] BY <1>1 DEF FlattenSeq, Flattens
<1> HIDE DEF f
<1> QED BY <1>2, <1>3

LEMMA FlattensAt ==
  ASSUME NEW seqs, NEW f, Flattens(seqs, f), NEW i \in 1..Len(seqs)
  PROVE  f[i] = IF i = 1 THEN seqs[i] ELSE f[i - 1] \o seqs[i]
BY Zenon DEF Flattens

LEMMA FlattensType ==
  ASSUME NEW seqs \in Seq(Seq(Byte)), NEW f, Flattens(seqs, f),
         NEW i \in 1..Len(seqs)
  PROVE  f[i] \in Seq(Byte)
<1> DEFINE S == {n \in Nat : n + 1 \in 1..Len(seqs) => f[n + 1] \in Seq(Byte)}
<1>1. 0 \in S
  <2> SUFFICES ASSUME 1 \in 1..Len(seqs) PROVE f[1] \in Seq(Byte) OBVIOUS
  <2>1. f[1] = seqs[1] BY FlattensAt
  <2> QED BY <2>1
<1>2. ASSUME NEW n \in Nat, n \in S PROVE n + 1 \in S
  <2> SUFFICES ASSUME (n + 1) + 1 \in 1..Len(seqs)
               PROVE  f[(n + 1) + 1] \in Seq(Byte)
    OBVIOUS
  <2>0. n + 1 \in 1..Len(seqs) /\ (n + 1) + 1 # 1 /\ ((n + 1) + 1) - 1 = n + 1
    OBVIOUS
  <2>1. f[(n + 1) + 1] = f[n + 1] \o seqs[(n + 1) + 1]
    <3>1. PICK k : k = (n + 1) + 1 OBVIOUS
    <3>2. k \in 1..Len(seqs) /\ k # 1 /\ k - 1 = n + 1 BY <3>1
    <3>3. f[k] = IF k = 1 THEN seqs[k] ELSE f[k - 1] \o seqs[k]
      BY <3>2, FlattensAt
    <3>4. f[k] = f[n + 1] \o seqs[k] BY <3>2, <3>3
    <3> QED BY <3>1, <3>4
  <2>2. f[n + 1] \in Seq(Byte) BY <1>2, <2>0
  <2>3. seqs[(n + 1) + 1] \in Seq(Byte) OBVIOUS
  <2> QED BY <2>1, <2>2, <2>3, ConcatProperties
<1>3. i - 1 \in S
  <2>1. i - 1 \in Nat OBVIOUS
  <2> HIDE DEF S
  <2> QED BY <1>1, <1>2, <2>1, Induction
<1>4. (i - 1) + 1 = i OBVIOUS
<1> QED BY <1>3, <1>4

\* The parts that two flattenings have in common are equal.
LEMMA FlattensAppend ==
  ASSUME NEW seqs \in Seq(Seq(Byte)), NEW seq \in Seq(Byte), NEW f, NEW g,
         Flattens(seqs, f), Flattens(Append(seqs, seq), g),
         NEW i \in 1..Len(seqs)
  PROVE  g[i] = f[i]
<1> DEFINE S == {n \in Nat : n + 1 \in 1..Len(seqs) => g[n + 1] = f[n + 1]}
           all == Append(seqs, seq)
<1>0. all \in Seq(Seq(Byte)) /\ Len(all) = Len(seqs) + 1
      /\ \A k \in 1..Len(seqs) : all[k] = seqs[k]
  BY AppendProperties
<1>a. \A k \in 1..Len(seqs) :
        /\ f[k] = IF k = 1 THEN seqs[k] ELSE f[k - 1] \o seqs[k]
        /\ g[k] = IF k = 1 THEN all[k] ELSE g[k - 1] \o all[k]
  <2>1. \A k \in 1..Len(seqs) : k \in 1..Len(all) BY <1>0
  <2> HIDE DEF all
  <2>2. Flattens(all, g) BY DEF all
  <2> QED BY <2>1, <2>2, FlattensAt
<1> HIDE DEF all
<1>1. 0 \in S BY <1>0, <1>a
<1>2. ASSUME NEW n \in Nat, n \in S PROVE n + 1 \in S
  <2> SUFFICES ASSUME (n + 1) + 1 \in 1..Len(seqs)
               PROVE  g[(n + 1) + 1] = f[(n + 1) + 1]
    OBVIOUS
  <2>1. g[n + 1] = f[n + 1] BY <1>2
  <2> QED BY <2>1, <1>0, <1>a
<1>3. i - 1 \in S
  <2>1. i - 1 \in Nat OBVIOUS
  <2> HIDE DEF S
  <2> QED BY <1>1, <1>2, <2>1, Induction
<1>4. (i - 1) + 1 = i OBVIOUS
<1> QED BY <1>3, <1>4

LEMMA FlattenSeqAppend ==
  /\ FlattenSeq(<<>>) = <<>>
  /\ \A seqs \in Seq(Seq(Byte)) : \A seq \in Seq(Byte) :
       /\ FlattenSeq(seqs) \in Seq(Byte)
       /\ FlattenSeq(Append(seqs, seq)) = FlattenSeq(seqs) \o seq
<1>1. FlattenSeq(<<>>) = <<>> BY DEF FlattenSeq
<1>2. ASSUME NEW seqs \in Seq(Seq(Byte)), seqs # <<>>
      PROVE  FlattenSeq(seqs) \in Seq(Byte)
  BY <1>2, FlattenSeqIs, FlattensType
<1>3. ASSUME NEW seqs \in Seq(Seq(Byte)), NEW seq \in Seq(Byte)
      PROVE  FlattenSeq(Append(seqs, seq)) = FlattenSeq(seqs) \o seq
  <2> DEFINE all == Append(seqs, seq)
  <2>1. all \in Seq(Seq(Byte)) /\ all # <<>> /\ Len(all) = Len(seqs) + 1
        /\ all[Len(seqs) + 1] = seq
    BY AppendProperties
  <2>2. PICK g : Flattens(all, g) /\ FlattenSeq(all) = g[Len(all)]
    BY <2>1, FlattenSeqIs
  <2>3. g[Len(all)] = IF Len(seqs) = 0 THEN seq ELSE g[Len(seqs)] \o seq
    <3>1. Len(all) \in 1..Len(all) /\ Len(all) - 1 = Len(seqs)
          /\ (Len(all) = 1 <=> Len(seqs) = 0) BY <2>1
    <3> HIDE DEF all
    <3>2. g[Len(all)] = IF Len(all) = 1 THEN all[Len(all)]
                        ELSE g[Len(all) - 1] \o all[Len(all)]
      BY <2>2, <3>1, FlattensAt
    <3> QED BY <2>1, <3>1, <3>2
  <2>4. CASE seqs = <<>> BY <1>1, <2>2, <2>3, <2>4
  <2>5. CASE seqs # <<>>
    <3>1. PICK f : Flattens(seqs, f) /\ FlattenSeq(seqs) = f[Len(seqs)]
      BY <2>5, FlattenSeqIs
    <3>2. Len(seqs) \in 1..Len(seqs) BY <2>5, EmptySeq
    <3>3. g[Len(seqs)] = f[Len(seqs)] BY <2>2, <3>1, <3>2, FlattensAppend
    <3>4. Len(seqs) # 0 BY <3>2
    <3> QED BY <2>2, <2>3, <3>1, <3>3, <3>4
  <2> QED BY <2>4, <2>5
<1>4. \A seqs \in Seq(Seq(Byte)) : FlattenSeq(seqs) \in Seq(Byte)
  BY <1>1, <1>2
<1> QED BY <1>1, <1>3, <1>4

LEMMA JoinedAppend ==
  ASSUME NEW S, NEW encode, \A v \in S : encode[v] \in Seq(Byte)
  PROVE  /\ Joined(encode, <<>>) = <<>>
         /\ \A vs \in Seq(S) : Joined(encode, vs) \in Seq(Byte)
         /\ \A vs \in Seq(S), v \in S :
              Joined(encode, Append(vs, v)) = Joined(encode, vs) \o encode[v]
<1> DEFINE Each(vs) == [i \in DOMAIN vs |-> encode[vs[i]]]
<1>1. Each(<<>>) = <<>> OBVIOUS
<1>2. ASSUME NEW vs \in Seq(S) PROVE Each(vs) \in Seq(Seq(Byte))
  <2>1. Len(vs) \in Nat /\ DOMAIN vs = 1..Len(vs) OBVIOUS
  <2>2. Each(vs) \in [1..Len(vs) -> Seq(Byte)] BY <2>1
  <2> QED BY <2>1, <2>2
<1>3. ASSUME NEW vs \in Seq(S), NEW v \in S
      PROVE  Each(Append(vs, v)) = Append(Each(vs), encode[v])
  <2>1. Append(vs, v) \in Seq(S) /\ Len(Append(vs, v)) = Len(vs) + 1
        /\ (\A i \in 1..Len(vs) : Append(vs, v)[i] = vs[i])
        /\ Append(vs, v)[Len(vs) + 1] = v
    BY AppendProperties
  <2>2. Each(vs) \in Seq(Seq(Byte)) /\ Len(Each(vs)) = Len(vs)
        /\ \A i \in 1..Len(vs) : Each(vs)[i] = encode[vs[i]] BY <1>2
  <2>3. /\ Each(Append(vs, v)) \in Seq(Seq(Byte))
        /\ Len(Each(Append(vs, v))) = Len(vs) + 1
        /\ \A i \in 1..Len(vs) + 1 :
             Each(Append(vs, v))[i] = encode[Append(vs, v)[i]]
    BY <1>2, <2>1
  <2>4. /\ Append(Each(vs), encode[v]) \in Seq(Seq(Byte))
        /\ Len(Append(Each(vs), encode[v])) = Len(vs) + 1
        /\ \A i \in 1..Len(vs) : Append(Each(vs), encode[v])[i] = Each(vs)[i]
        /\ Append(Each(vs), encode[v])[Len(vs) + 1] = encode[v]
    <3> HIDE DEF Each
    <3> QED BY <2>2, AppendProperties
  <2>5. ASSUME NEW i \in 1..Len(vs) + 1
        PROVE  Each(Append(vs, v))[i] = Append(Each(vs), encode[v])[i]
    <3>1. i \in 1..Len(vs) \/ i = Len(vs) + 1 OBVIOUS
    <3>2. Each(Append(vs, v))[i] = encode[Append(vs, v)[i]] BY <2>3, Zenon
    <3> HIDE DEF Each
    <3>3. CASE i \in 1..Len(vs) BY <2>1, <2>2, <2>4, <3>2, <3>3
    <3>4. CASE i = Len(vs) + 1 BY <2>1, <2>4, <3>2, <3>4
    <3> QED BY <3>1, <3>3, <3>4
  <2> HIDE DEF Each
  <2> QED BY <2>3, <2>4, <2>5, SeqEqual
<1>4. \A vs : Joined(encode, vs) = FlattenSeq(Each(vs)) BY DEF Joined
<1> HIDE DEF Each
<1>5. Joined(encode, <<>>) = <<>> BY <1>1, <1>4, FlattenSeqAppend
<1>6. ASSUME NEW vs \in Seq(S) PROVE Joined(encode, vs) \in Seq(Byte)
  BY <1>2, <1>4, FlattenSeqAppend
<1>7. ASSUME NEW vs \in Seq(S), NEW v \in S
      PROVE  Joined(encode, Append(vs, v)) = Joined(encode, vs) \o encode[v]
  <2>1. Each(vs) \in Seq(Seq(Byte)) /\ encode[v] \in Seq(Byte) BY <1>2
  <2>2. FlattenSeq(Append(Each(vs), encode[v])) = FlattenSeq(Each(vs)) \o encode[v]
    BY <2>1, FlattenSeqAppend
  <2> QED BY <1>3, <1>4, <2>2
<1> QED BY <1>5, <1>6, <1>7

LEMMA JoinedEqual ==
  ASSUME NEW S, NEW e, NEW f, \A v \in S : e[v] = f[v], NEW vs \in Seq(S)
  PROVE  Joined(e, vs) = Joined(f, vs)
<1>1. \A i \in DOMAIN vs : vs[i] \in S OBVIOUS
<1>2. [i \in DOMAIN vs |-> e[vs[i]]] = [i \in DOMAIN vs |-> f[vs[i]]]
  BY <1>1
<1> QED BY <1>2 DEF Joined

----------------------------------------------------------------------------
(* What values are encoded as.                                             *)

\* The encoding of v, of depth d, from the encodings f of less deep values.
EncodedWith(f, d, v) ==
  <<v.kind>> \o
  IF v.kind = tagDict
  THEN Joined(f[d - 1], v.members) \o <<tagEnd>>
  ELSE Size(v) \o Body(v)

LEMMA ScalarKind ==
  ASSUME NEW v \in Blobs \cup Ints
  PROVE  v.kind \in {tagBytes, tagString, tagInt} /\ v.kind # tagDict
BY KindOf DEF tagBytes, tagString, tagInt, tagDict

LEMMA EncodedWithEqual ==
  ASSUME NEW d \in 0..Depth, NEW v \in Nested[d], NEW f, NEW g,
         d > 0 => f[d - 1] = g[d - 1]
  PROVE  EncodedWith(f, d, v) = EncodedWith(g, d, v)
<1>1. CASE v \in Blobs \cup Ints BY <1>1, ScalarKind DEF EncodedWith
<1>2. CASE d > 0 BY <1>2 DEF EncodedWith
<1> QED BY <1>1, <1>2, NestedCases

LEMMA EncodingUnfold ==
  ASSUME NEW d \in 0..Depth, NEW v \in Nested[d]
  PROVE  Encoding[d][v] = EncodedWith(Encoding, d, v)
<1> DEFINE Equation(m, f) ==
             f = [e \in 0..m |-> [w \in Nested[e] |-> EncodedWith(f, e, w)]]
           S == {m \in Nat : m <= Depth => \E f : Equation(m, f)}
<1>1. 0 \in S
  <2> DEFINE g == [e \in 0..0 |-> [w \in Nested[e] |-> EncodedWith(<<>>, e, w)]]
  <2>1. \A w \in Nested[0] : EncodedWith(<<>>, 0, w) = EncodedWith(g, 0, w)
    <3>1. 0 \in 0..Depth /\ ~(0 > 0) BY DepthType
    <3> HIDE DEF g
    <3> QED BY <3>1, EncodedWithEqual
  <2>2. g = [e \in 0..0 |-> [w \in Nested[e] |-> EncodedWith(g, e, w)]]
    <3>1. g[0] = [w \in Nested[0] |-> EncodedWith(<<>>, 0, w)] OBVIOUS
    <3>2. g = [e \in 0..0 |-> g[e]] OBVIOUS
    <3>3. \A e \in 0..0 : e = 0 OBVIOUS
    <3> HIDE DEF g
    <3>4. g[0] = [w \in Nested[0] |-> EncodedWith(g, 0, w)] BY <2>1, <3>1
    <3> QED BY <3>2, <3>3, <3>4
  <2>3. Equation(0, g)
    <3> HIDE DEF g
    <3> QED BY <2>2
  <2> HIDE DEF Equation, g
  <2> QED BY <2>3
<1>2. ASSUME NEW n \in Nat, n \in S PROVE n + 1 \in S
  <2> SUFFICES ASSUME n + 1 <= Depth PROVE \E f : Equation(n + 1, f) OBVIOUS
  <2>0. n <= Depth BY DepthType
  <2>1. PICK f : Equation(n, f) BY <1>2, <2>0
  <2> DEFINE last == [w \in Nested[n + 1] |-> EncodedWith(f, n + 1, w)]
             g == [e \in 0..n + 1 |-> IF e = n + 1 THEN last ELSE f[e]]
  <2>2. ASSUME NEW e \in 0..n + 1
        PROVE  g[e] = [w \in Nested[e] |-> EncodedWith(g, e, w)]
    <3>1. g[e] = [w \in Nested[e] |-> EncodedWith(f, e, w)]
      <4>1. CASE e = n + 1 BY <4>1
      <4>2. CASE e \in 0..n
        <5>1. f[e] = [w \in Nested[e] |-> EncodedWith(f, e, w)]
          BY <4>2, <2>1, Zenon
        <5>2. g[e] = f[e] BY <4>2
        <5> QED BY <5>1, <5>2
      <4> QED BY <4>1, <4>2
    <3>2. e > 0 => f[e - 1] = g[e - 1] OBVIOUS
    <3>3. e \in 0..Depth BY DepthType
    <3> HIDE DEF g
    <3>4. \A w \in Nested[e] : EncodedWith(f, e, w) = EncodedWith(g, e, w)
      BY <3>2, <3>3, EncodedWithEqual
    <3> QED BY <3>1, <3>4
  <2>3. g = [e \in 0..n + 1 |-> g[e]] OBVIOUS
  <2> HIDE DEF g
  <2>4. Equation(n + 1, g) BY <2>2, <2>3
  <2> HIDE DEF Equation
  <2> QED BY <2>4
<1>3. Depth \in S
  <2> HIDE DEF S
  <2> QED BY <1>1, <1>2, Induction, DepthType
<1>4. Equation(Depth, Encoding)
  <2>1. \E f : Equation(Depth, f) BY <1>3, DepthType
  <2> QED BY <2>1 DEF Encoding, EncodedWith
<1>5. Encoding[d] = [w \in Nested[d] |-> EncodedWith(Encoding, d, w)]
  BY <1>4, Zenon
<1> QED BY <1>5, Zenon

LEMMA LengthBytes ==
  ASSUME NEW n \in 0..MaxLength
  PROVE  \E q, r \in Byte :
           q = n \div 256 /\ r = n % 256 /\ q * 256 + r = n
<1>0. n \in 0..65535 BY DEF MaxLength
<1>1. PICK q \in Int : q = n \div 256 BY <1>0
<1>2. PICK r \in Int : r = n % 256 BY <1>0
<1>3. r \in 0..255 BY <1>2
<1>4. n = 256 * q + r BY <1>0, <1>1, <1>2
<1>5. q \in 0..255
  <2>1. 0 <= n /\ n <= 65535 /\ 0 <= r /\ r <= 255 BY <1>0, <1>3
  <2>2. 0 <= 256 * q + 255 /\ 256 * q <= 65535 BY <1>4, <2>1
  <2>3. 0 <= q /\ q <= 255 BY <2>2
  <2> QED BY <2>3
<1>6. q * 256 + r = n BY <1>4
<1> QED BY <1>1, <1>2, <1>3, <1>5, <1>6 DEF Byte

LEMMA LengthBound ==
  ASSUME NEW a \in 0..255, NEW b \in 0..255
  PROVE  a * 256 + b \in 0..MaxLength
<1>1. a * 256 + b \in Nat OBVIOUS
<1>2. a * 256 + b <= MaxLength BY DEF MaxLength
<1>3. MaxLength \in Nat BY DEF MaxLength
<1> QED BY <1>1, <1>2, <1>3

LEMMA NumberOf ==
  ASSUME NEW a \in Byte, NEW b \in Byte
  PROVE  /\ <<a>> \in Seq(Byte) /\ Len(<<a>>) = 1 /\ Number(<<a>>) = a
         /\ <<a, b>> \in Seq(Byte) /\ Len(<<a, b>>) = 2
         /\ Number(<<a, b>>) = a * 256 + b
BY DEF Number

LEMMA ScalarEncoded ==
  ASSUME NEW v \in Blobs \cup Ints
  PROVE  /\ Body(v) \in Seq(Byte)
         /\ Size(v) \in Seq(Byte)
         /\ Number(Size(v)) = Len(Body(v)) /\ Len(Body(v)) \in 0..MaxLength
         /\ Len(Size(v)) = IF v.kind = tagInt THEN 1 ELSE 2
<1>1. CASE v \in Ints
  <2>1. v.kind = tagInt /\ v.bytes \in Seq(Byte) /\ Len(v.bytes) \in Byte
    BY <1>1 DEF Ints
  <2>2. PICK bytes \in Seq(Byte) : bytes = v.bytes BY <2>1
  <2>3. PICK body : body = IF bytes = <<>> THEN <<0>> ELSE bytes OBVIOUS
  <2>4. Body(v) = body BY <2>1, <2>2, <2>3 DEF Body
  <2>5. 0 \in Byte /\ 1 \in Byte /\ Byte \subseteq 0..MaxLength
    <3>1. ASSUME NEW n \in Byte PROVE n \in 0..MaxLength
      BY DEF Byte, MaxLength
    <3>2. 0 \in Byte BY DEF Byte
    <3>3. 1 \in Byte BY DEF Byte
    <3> QED BY <3>1, <3>2, <3>3
  <2>6. body \in Seq(Byte) /\ Len(body) \in Byte
    <3>1. CASE bytes = <<>>
      <4>1. body = <<0>> BY <2>3, <3>1
      <4>2. body \in Seq(Byte) /\ Len(body) = 1 BY <2>5, <4>1
      <4> QED BY <2>5, <4>2
    <3>2. CASE bytes # <<>>
      <4>1. body = bytes BY <2>3, <3>2
      <4> QED BY <2>1, <2>2, <4>1
    <3> QED BY <3>1, <3>2
  <2>7. Size(v) = <<Len(body)>> BY <2>1, <2>4 DEF Size
  <2>8. Len(body) \in 0..MaxLength /\ Len(body) \in Byte BY <2>5, <2>6
  <2>9. Size(v) \in Seq(Byte) /\ Len(Size(v)) = 1 /\ Number(Size(v)) = Len(body)
    BY <2>7, <2>8, NumberOf
  <2> QED BY <2>1, <2>4, <2>6, <2>8, <2>9
<1>2. CASE v \in Blobs
  <2>1. v.kind # tagInt /\ v.bytes \in Seq(Byte) /\ Len(v.bytes) \in 0..MaxLength
    BY <1>2 DEF Blobs, tagInt, tagBytes, tagString
  <2>2. PICK bytes \in Seq(Byte) : bytes = v.bytes BY <2>1
  <2>3. Body(v) = bytes BY <2>1, <2>2 DEF Body
  <2>4. PICK n \in 0..MaxLength : n = Len(bytes) BY <2>1, <2>2
  <2>5. PICK a \in Byte, b \in Byte :
               a = n \div 256 /\ b = n % 256 /\ a * 256 + b = n
    BY LengthBytes
  <2>7. Size(v) = <<a, b>>
    <3>1. Size(v) = <<Len(bytes) \div 256, Len(bytes) % 256>>
      BY <2>1, <2>2 DEF Size
    <3> QED BY <2>4, <2>5, <3>1
  <2>8. Size(v) \in Seq(Byte) /\ Len(Size(v)) = 2 /\ Number(Size(v)) = n
    <3>1. Number(<<a, b>>) = a * 256 + b BY NumberOf
    <3>2. <<a, b>> \in Seq(Byte) /\ Len(<<a, b>>) = 2 OBVIOUS
    <3> QED BY <2>5, <2>7, <3>1, <3>2
  <2> QED BY <2>1, <2>3, <2>4, <2>8
<1> QED BY <1>1, <1>2

LEMMA EncodingType ==
  ASSUME NEW d \in 0..Depth, NEW v \in Nested[d]
  PROVE  Encoding[d][v] \in Seq(Byte)
<1> DEFINE S == {n \in Nat : n <= Depth =>
                   \A w \in Nested[n] : Encoding[n][w] \in Seq(Byte)}
<1>0. ASSUME NEW n \in 0..Depth, NEW w \in Nested[n],
             n > 0 => \A x \in Nested[n - 1] : Encoding[n - 1][x] \in Seq(Byte)
      PROVE  Encoding[n][w] \in Seq(Byte)
  <2>1. Encoding[n][w] = EncodedWith(Encoding, n, w) BY EncodingUnfold
  <2>2. CASE w \in Blobs \cup Ints
    <3>1. <<w.kind>> \in Seq(Byte)
      BY <2>2, ScalarKind DEF tagBytes, tagString, tagInt, Byte
    <3>2. EncodedWith(Encoding, n, w) = <<w.kind>> \o (Size(w) \o Body(w))
      BY <2>2, ScalarKind DEF EncodedWith
    <3>3. Size(w) \o Body(w) \in Seq(Byte)
      <4>1. Size(w) \in Seq(Byte) /\ Body(w) \in Seq(Byte) BY <2>2, ScalarEncoded
      <4> QED BY <4>1, ConcatProperties
    <3> QED BY <2>1, <3>1, <3>2, <3>3, ConcatProperties
  <2>3. CASE n > 0 /\ w.members \in Pairs(Nested[n - 1]) /\ w = Dict(w.members)
    <3>1. w.kind = tagDict BY <2>3, KindOf
    <3>2. w.members \in Seq(Nested[n - 1]) BY <2>3 DEF Pairs
    <3>3. Joined(Encoding[n - 1], w.members) \in Seq(Byte)
      BY <1>0, <2>3, <3>2, JoinedAppend
    <3>4. <<tagDict>> \in Seq(Byte) /\ <<tagEnd>> \in Seq(Byte)
      BY DEF tagDict, tagEnd, Byte
    <3>5. EncodedWith(Encoding, n, w) =
            <<tagDict>> \o (Joined(Encoding[n - 1], w.members) \o <<tagEnd>>)
      BY <3>1 DEF EncodedWith
    <3>6. Joined(Encoding[n - 1], w.members) \o <<tagEnd>> \in Seq(Byte)
      BY <3>3, <3>4, ConcatProperties
    <3> QED BY <2>1, <3>4, <3>5, <3>6, ConcatProperties
  <2> QED BY <2>2, <2>3, NestedCases
<1>1. 0 \in S BY <1>0, DepthType
<1>2. ASSUME NEW n \in Nat, n \in S PROVE n + 1 \in S
  <2> SUFFICES ASSUME n + 1 <= Depth, NEW w \in Nested[n + 1]
               PROVE  Encoding[n + 1][w] \in Seq(Byte)
    OBVIOUS
  <2>1. n + 1 \in 0..Depth /\ (n + 1) - 1 = n /\ n <= Depth BY DepthType
  <2>2. \A x \in Nested[n] : Encoding[n][x] \in Seq(Byte) BY <1>2, <2>1
  <2> QED BY <1>0, <2>1, <2>2
<1>3. d \in S
  <2> HIDE DEF S
  <2> QED BY <1>1, <1>2, Induction
<1> QED BY <1>3

LEMMA EncodingStep ==
  ASSUME NEW d \in Nat, d + 1 \in 0..Depth, NEW v \in Nested[d]
  PROVE  Encoding[d + 1][v] = Encoding[d][v]
<1> DEFINE S == {n \in Nat : n + 1 \in 0..Depth =>
                   \A w \in Nested[n] : Encoding[n + 1][w] = Encoding[n][w]}
<1>0. ASSUME NEW n \in Nat, n + 1 \in 0..Depth, NEW w \in Nested[n],
             n > 0 => \A x \in Nested[n - 1] : Encoding[n][x] = Encoding[n - 1][x]
      PROVE  Encoding[n + 1][w] = Encoding[n][w]
  <2>0. n \in 0..Depth /\ (n + 1) - 1 = n BY <1>0, DepthType
  <2>1. Encoding[n][w] = EncodedWith(Encoding, n, w) BY <2>0, EncodingUnfold
  <2>2. w \in Nested[n + 1] BY <1>0, NestedStep
  <2>3. Encoding[n + 1][w] = EncodedWith(Encoding, n + 1, w)
    BY <1>0, <2>2, EncodingUnfold
  <2>4. CASE w \in Blobs \cup Ints
    BY <2>1, <2>3, <2>4, ScalarKind DEF EncodedWith
  <2>5. CASE n > 0 /\ w.members \in Pairs(Nested[n - 1]) /\ w = Dict(w.members)
    <3>1. w.members \in Seq(Nested[n - 1]) BY <2>5 DEF Pairs
    <3>2. Joined(Encoding[n], w.members) = Joined(Encoding[n - 1], w.members)
      BY <1>0, <2>5, <3>1, JoinedEqual
    <3> QED BY <2>0, <2>1, <2>3, <3>2 DEF EncodedWith
  <2> QED BY <2>0, <2>4, <2>5, NestedCases
<1>1. 0 \in S BY <1>0
<1>2. ASSUME NEW n \in Nat, n \in S PROVE n + 1 \in S
  <2> SUFFICES ASSUME (n + 1) + 1 \in 0..Depth, NEW w \in Nested[n + 1]
               PROVE  Encoding[(n + 1) + 1][w] = Encoding[n + 1][w]
    OBVIOUS
  <2>1. n + 1 \in 0..Depth /\ (n + 1) - 1 = n /\ n + 1 \in Nat BY DepthType
  <2>2. \A x \in Nested[n] : Encoding[n + 1][x] = Encoding[n][x]
    BY <1>2, <2>1
  <2> QED BY <1>0, <2>1, <2>2
<1>3. d \in S
  <2> HIDE DEF S
  <2> QED BY <1>1, <1>2, Induction
<1> QED BY <1>3

LEMMA EncodingAgrees ==
  ASSUME NEW d \in 0..Depth, NEW v \in Nested[d]
  PROVE  Encoding[d][v] = Encode(v)
<1> DEFINE S == {n \in Nat : d + n <= Depth =>
                   v \in Nested[d + n] /\ Encoding[d + n][v] = Encoding[d][v]}
<1>1. 0 \in S OBVIOUS
<1>2. ASSUME NEW n \in Nat, n \in S PROVE n + 1 \in S
  <2> SUFFICES ASSUME d + (n + 1) <= Depth
               PROVE  /\ v \in Nested[d + (n + 1)]
                      /\ Encoding[d + (n + 1)][v] = Encoding[d][v]
    OBVIOUS
  <2>1. PICK m \in Nat : m = d + n OBVIOUS
  <2>2. m + 1 = d + (n + 1) /\ m + 1 \in 0..Depth /\ d + n <= Depth
    BY <2>1, DepthType
  <2>3. v \in Nested[m] /\ Encoding[m][v] = Encoding[d][v] BY <1>2, <2>1, <2>2
  <2>4. v \in Nested[m + 1] /\ Encoding[m + 1][v] = Encoding[m][v]
    BY <2>2, <2>3, NestedStep, EncodingStep
  <2> QED BY <2>2, <2>3, <2>4
<1>3. Depth - d \in S
  <2> HIDE DEF S
  <2> QED BY <1>1, <1>2, Induction, DepthType
<1>4. d + (Depth - d) = Depth BY DepthType
<1> QED BY <1>3, <1>4, DepthType DEF Encode

\* The facts about the encoding that the rest of the module uses.
LEMMA EncodeType ==
  ASSUME NEW v \in Nested[Depth]
  PROVE  Encode(v) \in Seq(Byte)
BY EncodingType, DepthType DEF Encode

LEMMA EncodeScalar ==
  ASSUME NEW v \in Blobs \cup Ints
  PROVE  /\ v \in Nested[Depth]
         /\ Encode(v) = <<v.kind>> \o (Size(v) \o Body(v))
<1>1. Depth \in 0..Depth BY DepthType
<1>2. v \in Nested[Depth] BY <1>1, NestedCases
<1>3. Encode(v) = EncodedWith(Encoding, Depth, v)
  BY <1>1, <1>2, EncodingUnfold DEF Encode
<1> QED BY <1>2, <1>3, ScalarKind DEF EncodedWith

LEMMA EncodeAllAppend ==
  /\ EncodeAll(<<>>) = <<>>
  /\ \A vs \in Seq(Nested[Depth]) : EncodeAll(vs) \in Seq(Byte)
  /\ \A vs \in Seq(Nested[Depth]), v \in Nested[Depth] :
       EncodeAll(Append(vs, v)) = EncodeAll(vs) \o Encode(v)
<1>1. \A v \in Nested[Depth] : Encoding[Depth][v] \in Seq(Byte)
  BY EncodingType, DepthType
<1> QED BY <1>1, JoinedAppend DEF EncodeAll, Encode

LEMMA EncodeDict ==
  ASSUME NEW d \in 1..Depth, NEW ms \in Pairs(Nested[d - 1])
  PROVE  /\ Dict(ms) \in Nested[d]
         /\ ms \in Seq(Nested[Depth])
         /\ Encode(Dict(ms)) = <<tagDict>> \o (EncodeAll(ms) \o <<tagEnd>>)
<1>1. d \in 0..Depth /\ d - 1 \in 0..Depth /\ d > 0 BY DepthType
<1>2. Dict(ms) \in Nested[d] BY <1>1, NestedCases
<1>3. ms \in Seq(Nested[d - 1]) BY DEF Pairs
<1>4. ms \in Seq(Nested[Depth]) BY <1>1, <1>3, NestedMonotonic, SeqPairs
<1>5. Encode(Dict(ms)) = EncodedWith(Encoding, d, Dict(ms))
  BY <1>1, <1>2, EncodingAgrees, EncodingUnfold
<1>6. \A v \in Nested[d - 1] : Encoding[d - 1][v] = Encoding[Depth][v]
  BY <1>1, EncodingAgrees DEF Encode
<1>7. Joined(Encoding[d - 1], ms) = EncodeAll(ms)
  BY <1>3, <1>6, JoinedEqual DEF EncodeAll
<1>8. Dict(ms).kind = tagDict /\ Dict(ms).members = ms BY KindOf
<1> QED BY <1>2, <1>4, <1>5, <1>7, <1>8 DEF EncodedWith

LEMMA StrippedType ==
  ASSUME NEW digits \in Seq(Byte)
  PROVE  /\ Stripped(digits) \in Seq(Byte)
         /\ Len(Stripped(digits)) \in 0..Len(digits)
         /\ Stripped(digits) # <<>> => Stripped(digits)[1] # 0
<1> DEFINE Zeros(n) == /\ \A k \in 1..n : digits[k] = 0
                       /\ n < Len(digits) => digits[n + 1] # 0
           S == {n \in Nat : n <= Len(digits) =>
                   (\A k \in 1..n : digits[k] = 0)
                   \/ \E m \in 0..Len(digits) : Zeros(m)}
<1>0. Len(digits) \in Nat OBVIOUS
<1>1. 0 \in S BY <1>0
<1>2. ASSUME NEW n \in Nat, n \in S PROVE n + 1 \in S
  <2> SUFFICES ASSUME n + 1 <= Len(digits),
                      ~\E m \in 0..Len(digits) : Zeros(m)
               PROVE  \A k \in 1..n + 1 : digits[k] = 0
    BY <1>0
  <2>1. \A k \in 1..n : digits[k] = 0 BY <1>0, <1>2
  <2>2. n \in 0..Len(digits) /\ n < Len(digits) BY <1>0
  <2>3. digits[n + 1] = 0 BY <2>1, <2>2
  <2> QED BY <2>1, <2>3
<1>3. Len(digits) \in S
  <2> HIDE DEF S
  <2> QED BY <1>0, <1>1, <1>2, Induction
<1>4. \E m \in 0..Len(digits) : Zeros(m)
  <2>1. Zeros(Len(digits)) \/ \E m \in 0..Len(digits) : Zeros(m)
    BY <1>0, <1>3
  <2>2. Len(digits) \in 0..Len(digits) BY <1>0
  <2> HIDE DEF Zeros
  <2> QED BY <2>1, <2>2
<1> DEFINE zeros == CHOOSE n \in 0..Len(digits) : Zeros(n)
<1>5. zeros \in 0..Len(digits) /\ Zeros(zeros)
  <2> HIDE DEF Zeros
  <2> QED BY <1>4
<1>6. Stripped(digits) = SubSeq(digits, zeros + 1, Len(digits))
  BY DEF Stripped
<1> HIDE DEF zeros
<1>7. \A k \in zeros + 1..Len(digits) : digits[k] \in Byte
  BY <1>0, <1>5, ElementOfSeq
<1>8. /\ Stripped(digits) \in Seq(Byte)
      /\ Len(Stripped(digits)) =
           IF zeros + 1 <= Len(digits) THEN Len(digits) - (zeros + 1) + 1 ELSE 0
      /\ \A k \in 1..Len(digits) - (zeros + 1) + 1 :
           Stripped(digits)[k] = digits[zeros + 1 + k - 1]
  BY <1>0, <1>5, <1>6, <1>7, SubSeqProperties
<1>9. Len(Stripped(digits)) \in 0..Len(digits) BY <1>0, <1>5, <1>8
<1>10. ASSUME Stripped(digits) # <<>> PROVE Stripped(digits)[1] # 0
  <2>1. zeros < Len(digits)
    BY <1>0, <1>5, <1>8, <1>10, EmptySeq
  <2>2. 1 \in 1..Len(digits) - (zeros + 1) + 1 /\ zeros + 1 + 1 - 1 = zeros + 1
    BY <1>0, <1>5, <2>1
  <2>3. Stripped(digits)[1] = digits[zeros + 1] BY <1>8, <2>2
  <2> QED BY <1>5, <2>1, <2>3
<1> QED BY <1>8, <1>9, <1>10

\* Digits that the encoder writes are read as they are.
LEMMA StrippedBody ==
  ASSUME NEW v \in Ints
  PROVE  Stripped(Body(v)) = v.bytes
<1>1. v.kind = tagInt /\ v.bytes \in Seq(Byte)
      /\ (v.bytes # <<>> => v.bytes[1] # 0)
  BY DEF Ints
<1>2. PICK b \in Seq(Byte) : b = v.bytes BY <1>1
<1>3. PICK body : body = Body(v) OBVIOUS
<1> DEFINE Zeros(n) == /\ \A k \in 1..n : body[k] = 0
                       /\ n < Len(body) => body[n + 1] # 0
           zeros == CHOOSE n \in 0..Len(body) : Zeros(n)
<1>4. Stripped(body) = SubSeq(body, zeros + 1, Len(body)) BY DEF Stripped
<1>5. CASE b = <<>>
  <2>1. body = <<0>> BY <1>1, <1>2, <1>3, <1>5 DEF Body
  <2>2. Len(body) = 1 /\ body[1] = 0 BY <2>1
  <2>3. \A n \in 0..1 : Zeros(n) <=> n = 1
    <3>1. Zeros(1) BY <2>2
    <3>2. ~Zeros(0) BY <2>2
    <3>3. \A n \in 0..1 : n = 0 \/ n = 1 OBVIOUS
    <3> HIDE DEF Zeros
    <3> QED BY <3>1, <3>2, <3>3
  <2>4. zeros = 1
    <3> HIDE DEF Zeros
    <3> QED BY <2>2, <2>3
  <2>5. Stripped(body) = <<>>
    <3> HIDE DEF zeros
    <3> QED BY <1>4, <2>2, <2>4, SubSeqEmpty
  <2> QED BY <1>2, <1>3, <1>5, <2>5
<1>6. CASE b # <<>>
  <2>1. body = b BY <1>1, <1>2, <1>3, <1>6 DEF Body
  <2>2. Len(body) \in Nat \ {0} /\ body[1] # 0 BY <1>1, <1>2, <1>6, <2>1, EmptySeq
  <2>3. Zeros(0) BY <2>2
  <2>4. ASSUME NEW n \in 0..Len(body), Zeros(n) PROVE n = 0
    BY <2>2, <2>4
  <2>5. zeros = 0
    <3>1. 0 \in 0..Len(body) BY <2>2
    <3> HIDE DEF Zeros
    <3> QED BY <2>3, <2>4, <3>1
  <2>6. Stripped(body) = SubSeq(body, 1, Len(body))
    <3> HIDE DEF zeros
    <3> QED BY <1>4, <2>5
  <2> QED BY <1>2, <1>3, <2>1, <2>6, SubSeqFull
<1> QED BY <1>5, <1>6

----------------------------------------------------------------------------
(* Parts of a sequence of bytes.                                           *)

At(bytes, off, part) ==
  /\ off + Len(part) <= Len(bytes)
  /\ \A k \in 1..Len(part) : bytes[off + k] = part[k]

LEMMA AtConcat ==
  ASSUME NEW bytes \in Seq(Byte), NEW off \in Nat,
         NEW s \in Seq(Byte), NEW t \in Seq(Byte)
  PROVE  /\ s \o t \in Seq(Byte) /\ Len(s \o t) = Len(s) + Len(t)
         /\ At(bytes, off, s \o t) <=>
              At(bytes, off, s) /\ At(bytes, off + Len(s), t)
<1> DEFINE u == s \o t
<1>1. /\ u \in Seq(Byte) /\ Len(u) = Len(s) + Len(t)
      /\ \A k \in 1..Len(s) + Len(t) :
           u[k] = IF k <= Len(s) THEN s[k] ELSE t[k - Len(s)]
  BY ConcatProperties
<1>2. Len(s) \in Nat /\ Len(t) \in Nat /\ Len(bytes) \in Nat OBVIOUS
<1> HIDE DEF u
<1>3. ASSUME At(bytes, off, u) PROVE At(bytes, off, s)
  <2>1. \A k \in 1..Len(s) : k \in 1..Len(u) /\ u[k] = s[k] BY <1>1, <1>2
  <2> QED BY <1>1, <1>2, <1>3, <2>1 DEF At
<1>4. ASSUME At(bytes, off, u) PROVE At(bytes, off + Len(s), t)
  <2>1. ASSUME NEW k \in 1..Len(t) PROVE bytes[off + Len(s) + k] = t[k]
    <3>0. PICK j : j = Len(s) + k OBVIOUS
    <3>1. j \in 1..Len(s) + Len(t) /\ ~(j <= Len(s)) /\ j - Len(s) = k
      BY <1>2, <3>0
    <3>a. j \in 1..Len(u) /\ u[j] = t[k] BY <1>1, <3>1
    <3>2. bytes[off + j] = u[j] BY <1>4, <3>a DEF At
    <3>3. off + j = off + Len(s) + k BY <1>2, <3>0
    <3> QED BY <3>a, <3>2, <3>3
  <2>2. off + Len(s) + Len(t) <= Len(bytes) BY <1>1, <1>2, <1>4 DEF At
  <2> QED BY <2>1, <2>2 DEF At
<1>5. ASSUME At(bytes, off, s), At(bytes, off + Len(s), t)
      PROVE  At(bytes, off, u)
  <2>1. ASSUME NEW k \in 1..Len(u) PROVE bytes[off + k] = u[k]
    <3>1. CASE k <= Len(s)
      <4>1. k \in 1..Len(s) /\ u[k] = s[k] BY <1>1, <1>2, <3>1
      <4> QED BY <1>5, <4>1 DEF At
    <3>2. CASE k > Len(s)
      <4>1. k - Len(s) \in 1..Len(t) /\ u[k] = t[k - Len(s)]
            /\ off + Len(s) + (k - Len(s)) = off + k
        BY <1>1, <1>2, <3>2
      <4>2. bytes[off + Len(s) + (k - Len(s))] = t[k - Len(s)]
        BY <1>5, <4>1 DEF At
      <4> QED BY <4>1, <4>2
    <3> QED BY <1>1, <1>2, <3>1, <3>2
  <2>2. off + Len(u) <= Len(bytes) BY <1>1, <1>2, <1>5 DEF At
  <2> QED BY <2>1, <2>2 DEF At
<1> QED BY <1>1, <1>3, <1>4, <1>5 DEF u

LEMMA AtByte ==
  ASSUME NEW bytes \in Seq(Byte), NEW off \in Nat, NEW b
  PROVE  At(bytes, off, <<b>>) <=> off < Len(bytes) /\ bytes[off + 1] = b
<1>1. Len(<<b>>) = 1 /\ <<b>>[1] = b /\ \A k \in 1..1 : k = 1 OBVIOUS
<1>2. Len(bytes) \in Nat OBVIOUS
<1> QED BY <1>1, <1>2 DEF At

LEMMA AtSubSeq ==
  ASSUME NEW bytes \in Seq(Byte), NEW off \in Nat, NEW n \in Nat,
         off + n <= Len(bytes)
  PROVE  LET part == SubSeq(bytes, off + 1, off + n)
         IN  part \in Seq(Byte) /\ Len(part) = n /\ At(bytes, off, part)
<1> DEFINE part == SubSeq(bytes, off + 1, off + n)
<1>1. \A k \in off + 1..off + n : bytes[k] \in Byte BY ElementOfSeq
<1>2. /\ part \in Seq(Byte)
      /\ Len(part) = IF off + 1 <= off + n THEN off + n - (off + 1) + 1 ELSE 0
      /\ \A k \in 1..off + n - (off + 1) + 1 : part[k] = bytes[off + 1 + k - 1]
  BY <1>1, SubSeqProperties
<1> HIDE DEF part
<1>3. Len(part) = n BY <1>2
<1>4. ASSUME NEW k \in 1..n PROVE bytes[off + k] = part[k]
  <2>1. k \in 1..off + n - (off + 1) + 1 /\ off + 1 + k - 1 = off + k OBVIOUS
  <2> QED BY <1>2, <2>1
<1> QED BY <1>2, <1>3, <1>4 DEF At, part

LEMMA AtSame ==
  ASSUME NEW bytes \in Seq(Byte), NEW off \in Nat,
         NEW s \in Seq(Byte), NEW t \in Seq(Byte),
         At(bytes, off, s), At(bytes, off, t), Len(s) = Len(t)
  PROVE  s = t
BY SeqEqual DEF At

\* A cut sequence has the parts of the whole one that it is long enough for.
LEMMA AtCut ==
  ASSUME NEW cut \in Seq(Byte), NEW bytes \in Seq(Byte), At(bytes, 0, cut),
         NEW off \in Nat, NEW part \in Seq(Byte)
  PROVE  /\ At(cut, off, part) => At(bytes, off, part)
         /\ At(bytes, off, part) /\ off + Len(part) <= Len(cut)
              => At(cut, off, part)
<1>1. Len(cut) \in Nat /\ Len(bytes) \in Nat /\ Len(part) \in Nat
      /\ Len(cut) <= Len(bytes) BY DEF At
<1>2. \A k \in 1..Len(cut) : bytes[k] = cut[k]
  <2>1. \A k \in 1..Len(cut) : 0 + k = k BY <1>1
  <2> QED BY <2>1 DEF At
<1>3. ASSUME off + Len(part) <= Len(cut), NEW k \in 1..Len(part)
      PROVE  bytes[off + k] = cut[off + k]
  BY <1>1, <1>2, <1>3
<1> QED BY <1>1, <1>3 DEF At

----------------------------------------------------------------------------
(* Type correctness.  The dicts that are open lack the depth of those      *)
(* around them, and every one took a byte of the stream to open.           *)

Typed ==
  /\ TypeOK
  /\ Len(open) <= pos /\ Len(stream) <= Depth
  /\ \A i \in 1..Len(open) : open[i] \in Seq(Nested[Depth - i])
  /\ CASE ask = "tag" -> want = 1
       [] ask = "size" -> want = 1 /\ tag = tagInt
       [] ask = "length" -> want = 2 /\ tag # tagInt
       [] ask = "body" -> tag = tagInt => want \in Byte

LEMMA InputType ==
  ASSUME NEW i \in Inputs
  PROVE  /\ i[1] \in Seq(Nested[Depth])
         /\ i[2] \in Seq(Byte) /\ Len(i[2]) <= Depth
         /\ i[1] # <<>> => IsPrefix(i[2], EncodeAll(i[1]))
BY InputsAssumption

LEMMA GotBytes ==
  ASSUME stream \in Seq(Byte), pos \in Nat, want \in Nat, Got(want)
  PROVE  /\ Bytes \in Seq(Byte) /\ Len(Bytes) = want
         /\ At(stream, pos, Bytes)
         /\ want > 0 => Bytes[1] = stream[pos + 1]
<1>1. pos + want <= Len(stream) BY DEF Got
<1>2. Bytes \in Seq(Byte) /\ Len(Bytes) = want /\ At(stream, pos, Bytes)
  BY <1>1, AtSubSeq DEF Bytes
<1>3. want > 0 => Bytes[1] = stream[pos + 1]
  <2>1. want > 0 => 1 \in 1..Len(Bytes) BY <1>2
  <2> QED BY <1>2, <2>1 DEF At
<1> QED BY <1>2, <1>3

LEMMA PrefixOf ==
  ASSUME NEW S, NEW s, NEW m \in Nat, \A i \in 1..m : s[i] \in S
  PROVE  /\ SubSeq(s, 1, m) \in Seq(S) /\ Len(SubSeq(s, 1, m)) = m
         /\ \A i \in 1..m : SubSeq(s, 1, m)[i] = s[i]
<1> DEFINE part == SubSeq(s, 1, m)
<1>1. /\ part \in Seq(S)
      /\ Len(part) = IF 1 <= m THEN m - 1 + 1 ELSE 0
      /\ \A i \in 1..m - 1 + 1 : part[i] = s[1 + i - 1]
  BY SubSeqProperties
<1> HIDE DEF part
<1>2. m - 1 + 1 = m /\ (1 <= m \/ m = 0) /\ \A i \in 1..m : 1 + i - 1 = i
  OBVIOUS
<1>3. Len(part) = m BY <1>1, <1>2
<1>4. \A i \in 1..m : part[i] = s[i] BY <1>1, <1>2
<1> QED BY <1>1, <1>3, <1>4 DEF part

\* What Give leaves behind.
LEMMA GiveType ==
  ASSUME NEW dicts \in Seq(Seq(Nested[Depth])), Len(dicts) <= Depth,
         \A i \in 1..Len(dicts) : dicts[i] \in Seq(Nested[Depth - i]),
         NEW v \in Nested[Depth - Len(dicts)],
         values \in Seq(Nested[Depth]), Give(v, dicts)
  PROVE  /\ tag' = 0 /\ values' \in Seq(Nested[Depth])
         /\ open' \in Seq(Seq(Nested[Depth])) /\ Len(open') = Len(dicts)
         /\ \A i \in 1..Len(open') : open'[i] \in Seq(Nested[Depth - i])
<1>0. Len(dicts) \in Nat /\ Depth - Len(dicts) \in 0..Depth BY DepthType
<1>1. v \in Nested[Depth] BY <1>0, NestedMonotonic
<1>2. CASE dicts = <<>>
  <2>1. values' = Append(values, v) /\ open' = dicts /\ tag' = 0
    BY <1>2 DEF Give
  <2> QED BY <1>1, <2>1, AppendProperties
<1>3. CASE dicts # <<>>
  <2>1. PICK m \in Nat : Len(dicts) = m + 1
    <3>1. Len(dicts) - 1 \in Nat /\ Len(dicts) = (Len(dicts) - 1) + 1
      BY <1>0, <1>3, EmptySeq
    <3> QED BY <3>1
  <2> DEFINE last == Append(dicts[m + 1], v)
             front == SubSeq(dicts, 1, m)
  <2>2. Len(dicts) - 1 = m BY <2>1
  <2>3. open' = Append(front, last) /\ values' = values /\ tag' = 0
    BY <1>3, <2>1, <2>2 DEF Give, Front, Last
  <2>4. last \in Seq(Nested[Depth - (m + 1)])
    <3>1. m + 1 \in 1..Len(dicts) BY <2>1
    <3>2. dicts[m + 1] \in Seq(Nested[Depth - (m + 1)]) BY <3>1
    <3>3. v \in Nested[Depth - (m + 1)] BY <2>1
    <3> QED BY <3>2, <3>3, AppendProperties
  <2>5. last \in Seq(Nested[Depth])
    BY <1>0, <2>1, <2>4, NestedMonotonic, SeqPairs
  <2>6. /\ front \in Seq(Seq(Nested[Depth])) /\ Len(front) = m
        /\ \A i \in 1..m : front[i] = dicts[i]
    <3>1. \A i \in 1..m : dicts[i] \in Seq(Nested[Depth]) BY <2>1
    <3>2. PICK T : T = Seq(Nested[Depth]) OBVIOUS
    <3>3. \A i \in 1..m : dicts[i] \in T BY <3>1, <3>2
    <3>4. /\ front \in Seq(T) /\ Len(front) = m
          /\ \A i \in 1..m : front[i] = dicts[i]
      BY <3>3, PrefixOf
    <3> HIDE DEF front
    <3> QED BY <3>2, <3>4
  <2> HIDE DEF last, front
  <2>7. /\ open' \in Seq(Seq(Nested[Depth])) /\ Len(open') = m + 1
        /\ \A i \in 1..m : open'[i] = dicts[i]
        /\ open'[m + 1] = last
    BY <2>3, <2>5, <2>6, AppendProperties
  <2>8. ASSUME NEW i \in 1..m + 1 PROVE open'[i] \in Seq(Nested[Depth - i])
    <3>1. i \in 1..m \/ i = m + 1 OBVIOUS
    <3>2. \A k \in 1..m : dicts[k] \in Seq(Nested[Depth - k]) BY <2>1
    <3> QED BY <2>4, <2>7, <3>1, <3>2
  <2> QED BY <2>1, <2>3, <2>7, <2>8
<1> QED BY <1>2, <1>3

LEMMA InitTyped ==
  ASSUME Init
  PROVE  Typed
<1>1. PICK i \in Inputs : sent = i[1] /\ stream = i[2] BY DEF Init
<1>2. stream \in Seq(Byte) /\ Len(stream) <= Depth BY <1>1, InputType
<1>3. open = <<>> /\ Len(open) = 0 /\ values = <<>> BY DEF Init
<1>4. open \in Seq(Seq(Nested[Depth])) /\ values \in Seq(Nested[Depth])
  BY <1>3
<1>5. 1 \in 0..MaxLength BY DEF MaxLength
<1>6. pos \in 0..Len(stream) /\ Len(open) <= pos
  <2>1. Len(stream) \in Nat /\ pos = 0 BY <1>2 DEF Init
  <2> QED BY <1>3, <2>1
<1>7. TypeOK
  <2>1. tag = 0 /\ ask = "tag" /\ want = 1 /\ end = "no" /\ padded = FALSE
    BY DEF Init
  <2> QED BY <1>2, <1>4, <1>5, <1>6, <2>1 DEF TypeOK
<1>8. ask = "tag" /\ want = 1 BY DEF Init
<1> QED BY <1>2, <1>3, <1>6, <1>7, <1>8 DEF Typed

\* Each open dict leaves room for one more in it.
LEMMA OpenRoom ==
  ASSUME Typed
  PROVE  /\ Len(open) \in Nat /\ Len(open) <= Depth
         /\ pos \in Nat /\ Len(stream) \in Nat /\ pos <= Len(stream)
         /\ want \in Nat /\ stream \in Seq(Byte)
         /\ pos < Len(stream) => Len(open) < Depth
<1>1. Len(open) \in Nat /\ Len(stream) \in Nat BY DEF Typed, TypeOK
<1>2. pos \in Nat /\ pos <= Len(stream) BY <1>1 DEF Typed, TypeOK
<1>3. want \in Nat
  <2>1. MaxLength \in Nat BY DEF MaxLength
  <2>2. want \in 0..MaxLength BY DEF Typed, TypeOK
  <2> QED BY <2>1, <2>2
<1> QED BY <1>1, <1>2, <1>3, DepthType DEF Typed, TypeOK

\* What Reading and Ask make of the position and of the request.
LEMMA StepType ==
  ASSUME Typed, Reading(ask), NEW what, NEW n \in 0..MaxLength, Ask(what, n),
         UNCHANGED <<sent, stream>>
  PROVE  /\ Bytes \in Seq(Byte) /\ Len(Bytes) = want
         /\ At(stream, pos, Bytes)
         /\ want > 0 => Bytes[1] = stream[pos + 1] /\ pos < Len(stream)
         /\ pos' = pos + want /\ pos' \in 0..Len(stream')
         /\ want' = n /\ ask' = what
         /\ stream' \in Seq(Byte) /\ Len(stream') <= Depth
<1>1. Got(want) BY DEF Reading
<1>2. pos + want <= Len(stream) BY <1>1 DEF Got
<1>3. /\ Bytes \in Seq(Byte) /\ Len(Bytes) = want
      /\ At(stream, pos, Bytes)
      /\ want > 0 => Bytes[1] = stream[pos + 1]
  BY <1>1, OpenRoom, GotBytes
<1>4. pos' = pos + want /\ want' = n /\ ask' = what BY DEF Ask
<1>5. stream' = stream /\ Len(stream) <= Depth BY DEF Typed
<1>6. pos' \in 0..Len(stream') /\ (want > 0 => pos < Len(stream))
  BY <1>2, <1>4, <1>5, OpenRoom
<1> QED BY <1>3, <1>4, <1>5, <1>6, OpenRoom

LEMMA CloseDictType ==
  ASSUME Typed, open # <<>>, Len(Last(open)) % 2 = 0
  PROVE  /\ Front(open) \in Seq(Seq(Nested[Depth]))
         /\ Len(Front(open)) = Len(open) - 1
         /\ \A i \in 1..Len(open) - 1 : Front(open)[i] = open[i]
         /\ Last(open) = open[Len(open)]
         /\ Depth - Len(open) \in 0..Depth
         /\ Last(open) \in Pairs(Nested[Depth - Len(open)])
         /\ Dict(Last(open)) \in Nested[Depth - Len(Front(open))]
<1>1. open \in Seq(Seq(Nested[Depth])) BY DEF Typed, TypeOK
<1>2. PICK m \in Nat : Len(open) = m + 1
  <2>1. Len(open) - 1 \in Nat /\ Len(open) = (Len(open) - 1) + 1
    BY <1>1, EmptySeq
  <2> QED BY <2>1
<1>3. Front(open) = SubSeq(open, 1, m) BY <1>2 DEF Front
<1>4. /\ Front(open) \in Seq(Seq(Nested[Depth])) /\ Len(Front(open)) = m
      /\ \A i \in 1..m : Front(open)[i] = open[i]
  <2>1. PICK T : T = Seq(Nested[Depth]) OBVIOUS
  <2>2. \A i \in 1..m : open[i] \in T BY <1>1, <1>2, <2>1
  <2>3. /\ SubSeq(open, 1, m) \in Seq(T) /\ Len(SubSeq(open, 1, m)) = m
        /\ \A i \in 1..m : SubSeq(open, 1, m)[i] = open[i]
    BY <2>2, PrefixOf
  <2> QED BY <1>3, <2>1, <2>3
<1>5. Last(open) = open[m + 1] BY <1>2 DEF Last
<1>6. m + 1 \in 1..Depth /\ Depth - (m + 1) = (Depth - m) - 1
      /\ Depth - m \in 1..Depth
  BY <1>2, OpenRoom, DepthType
<1>7. Last(open) \in Pairs(Nested[Depth - (m + 1)])
  <2>1. m + 1 \in 1..Len(open) BY <1>2
  <2>2. open[m + 1] \in Seq(Nested[Depth - (m + 1)]) BY <2>1 DEF Typed
  <2> QED BY <1>5, <2>2 DEF Pairs
<1>8. Dict(Last(open)) \in Nested[Depth - m] BY <1>6, <1>7, EncodeDict
<1>9. Depth - (m + 1) \in 0..Depth /\ Len(open) - 1 = m BY <1>2, <1>6, DepthType
<1> QED BY <1>2, <1>4, <1>5, <1>7, <1>8, <1>9

\* The value that a body makes.
BodyValue == Scalar(tag, IF tag = tagInt THEN Stripped(Bytes) ELSE Bytes)

LEMMA BodyType ==
  ASSUME Typed, Reading("body")
  PROVE  BodyValue \in Blobs \cup Ints
<1>1. Bytes \in Seq(Byte) /\ Len(Bytes) = want
  BY OpenRoom, GotBytes DEF Reading
<1>2. want \in 0..MaxLength /\ tag \in {tagBytes, tagString, tagInt}
      /\ (tag = tagInt => want \in Byte)
  BY DEF Typed, TypeOK, Reading, tagBytes, tagString, tagInt
<1>3. CASE tag = tagInt
  <2>1. /\ Stripped(Bytes) \in Seq(Byte)
        /\ Len(Stripped(Bytes)) \in 0..Len(Bytes)
        /\ Stripped(Bytes) # <<>> => Stripped(Bytes)[1] # 0
    BY <1>1, StrippedType
  <2>2. Len(Stripped(Bytes)) \in Byte
    <3>1. PICK n : n = Len(Stripped(Bytes)) OBVIOUS
    <3>2. n \in 0..want /\ want \in Byte BY <1>1, <1>2, <1>3, <2>1, <3>1
    <3>3. n \in Byte BY <3>2 DEF Byte
    <3> QED BY <3>1, <3>3
  <2> QED BY <1>3, <2>1, <2>2 DEF BodyValue, Scalar, Ints
<1>4. CASE tag # tagInt
  BY <1>1, <1>2, <1>4 DEF BodyValue, Scalar, Blobs
<1> QED BY <1>3, <1>4

LEMMA NextTyped ==
  ASSUME Typed, [Next]_vars
  PROVE  Typed'
<1> USE DEF Typed
<1>0. CASE UNCHANGED vars BY <1>0 DEF vars, TypeOK
<1>1. CASE TopEnd
  <2>1. 1 \in 0..MaxLength BY DEF MaxLength
  <2>2. ask = "tag" /\ want = 1 /\ Reading(ask) /\ Ask("tag", 1)
        /\ UNCHANGED <<sent, stream, tag, open, values, padded>>
        /\ end' = "clean"
    BY <1>1 DEF TopEnd, Reading
  <2>3. pos' = pos + 1 /\ pos' \in 0..Len(stream') /\ want' = 1 /\ ask' = "tag"
        /\ stream' \in Seq(Byte) /\ Len(stream') <= Depth
    BY <2>1, <2>2, StepType
  <2>4. Len(open') <= pos' BY <2>2, <2>3, OpenRoom
  <2> QED BY <2>1, <2>2, <2>3, <2>4 DEF TypeOK
<1>2. CASE CloseDict
  <2>1. 1 \in 0..MaxLength BY DEF MaxLength
  <2>2. ask = "tag" /\ want = 1 /\ Reading(ask) /\ Ask("tag", 1)
        /\ UNCHANGED <<sent, stream, end, padded>>
        /\ open # <<>> /\ Len(Last(open)) % 2 = 0
        /\ Give(Dict(Last(open)), Front(open))
    BY <1>2 DEF CloseDict, Reading
  <2>3. pos' = pos + 1 /\ pos' \in 0..Len(stream') /\ want' = 1 /\ ask' = "tag"
        /\ stream' \in Seq(Byte) /\ Len(stream') <= Depth
    BY <2>1, <2>2, StepType
  <2>4. /\ tag' = 0 /\ values' \in Seq(Nested[Depth])
        /\ open' \in Seq(Seq(Nested[Depth])) /\ Len(open') = Len(Front(open))
        /\ \A i \in 1..Len(open') : open'[i] \in Seq(Nested[Depth - i])
    <3>0. Len(Front(open)) = Len(open) - 1 BY <2>2, CloseDictType
    <3>1. \A i \in 1..Len(Front(open)) :
            Front(open)[i] \in Seq(Nested[Depth - i])
      BY <2>2, CloseDictType, OpenRoom
    <3>2. Len(Front(open)) <= Depth
      <4>1. Len(open) \in Nat /\ Len(open) <= Depth BY OpenRoom
      <4> HIDE DEF Typed
      <4> QED BY <3>0, <4>1, DepthType
    <3>3. values \in Seq(Nested[Depth]) BY DEF TypeOK
    <3> QED BY <2>2, <3>1, <3>2, <3>3, CloseDictType, GiveType
  <2>5. Len(open') <= pos'
    <3>1. Len(open') = Len(open) - 1 BY <2>2, <2>4, CloseDictType
    <3>2. Len(open) <= pos /\ pos \in Nat /\ Len(open) \in Nat BY OpenRoom
    <3> QED BY <2>3, <3>1, <3>2
  <2> QED BY <2>1, <2>2, <2>3, <2>4, <2>5 DEF TypeOK
<1>3. CASE NoValue BY <1>3 DEF NoValue, Refuse, TypeOK
<1>4. CASE OpenDict
  <2>1. 1 \in 0..MaxLength BY DEF MaxLength
  <2>2. ask = "tag" /\ want = 1 /\ Reading(ask) /\ Ask("tag", 1)
        /\ UNCHANGED <<sent, stream, tag, values, end, padded>>
        /\ open' = Append(open, <<>>)
    BY <1>4 DEF OpenDict, Reading
  <2>3. pos' = pos + 1 /\ pos' \in 0..Len(stream') /\ want' = 1 /\ ask' = "tag"
        /\ stream' \in Seq(Byte) /\ Len(stream') <= Depth /\ pos < Len(stream)
    BY <2>1, <2>2, StepType
  <2>4. PICK n \in Nat : n = Len(open) /\ n <= pos BY OpenRoom
  <2>5. /\ open' \in Seq(Seq(Nested[Depth])) /\ Len(open') = n + 1
        /\ \A i \in 1..n : open'[i] = open[i]
        /\ open'[n + 1] = <<>>
    <3>1. PICK T : T = Seq(Nested[Depth]) OBVIOUS
    <3>2. open \in Seq(T) /\ <<>> \in T BY <3>1 DEF TypeOK
    <3> QED BY <2>2, <2>4, <3>1, <3>2, AppendProperties
  <2>6. ASSUME NEW i \in 1..Len(open')
        PROVE  open'[i] \in Seq(Nested[Depth - i])
    <3>1. i \in 1..n \/ i = n + 1 BY <2>5
    <3>2. <<>> \in Seq(Nested[Depth - i]) OBVIOUS
    <3> QED BY <2>4, <2>5, <3>1, <3>2
  <2>7. Len(open') <= pos'
    <3>1. n \in Nat /\ pos \in Nat /\ n <= pos BY <2>4, OpenRoom
    <3> QED BY <2>3, <2>5, <3>1
  <2> QED BY <2>1, <2>2, <2>3, <2>5, <2>6, <2>7 DEF TypeOK
<1>5. CASE OpenScalar
  <2>1. 1 \in 0..MaxLength /\ 2 \in 0..MaxLength BY DEF MaxLength
  <2>2. ask = "tag" /\ want = 1 /\ Reading(ask)
        /\ UNCHANGED <<sent, stream, open, values, end, padded>>
        /\ tag' \in {tagBytes, tagString, tagInt}
        /\ IF tag' = tagInt THEN Ask("size", 1) ELSE Ask("length", 2)
    BY <1>5 DEF OpenScalar, Reading
  <2>3. /\ pos' = pos + 1 /\ pos' \in 0..Len(stream')
        /\ stream' \in Seq(Byte) /\ Len(stream') <= Depth
        /\ IF tag' = tagInt THEN ask' = "size" /\ want' = 1
           ELSE ask' = "length" /\ want' = 2
    BY <2>1, <2>2, StepType
  <2>4. Len(open') <= pos' BY <2>2, <2>3, OpenRoom
  <2>5. tag' # 0 BY <2>2 DEF tagBytes, tagString, tagInt
  <2> QED BY <2>1, <2>2, <2>3, <2>4, <2>5 DEF TypeOK
<1>6. CASE UnknownTag BY <1>6 DEF UnknownTag, Refuse, TypeOK
<1>7. CASE ReadLength
  <2>1. Reading(ask) /\ ask \in {"length", "size"} /\ Ask("body", Number(Bytes))
        /\ UNCHANGED <<sent, stream, tag, open, values, end, padded>>
    BY <1>7 DEF ReadLength, Reading
  <2>2. Bytes \in Seq(Byte) /\ Len(Bytes) = want
    BY <2>1, OpenRoom, GotBytes DEF Reading
  <2>3. /\ Number(Bytes) \in 0..MaxLength
        /\ tag = tagInt => Number(Bytes) \in Byte
    <3>1. CASE ask = "size"
      <4>1. want = 1 /\ tag = tagInt BY <3>1
      <4>2. 1 \in 1..Len(Bytes) BY <2>2, <4>1
      <4>3. Number(Bytes) = Bytes[1] /\ Bytes[1] \in Byte
        BY <2>2, <4>1, <4>2 DEF Number
      <4>4. \A n \in Byte : n \in 0..MaxLength BY DEF Byte, MaxLength
      <4> QED BY <4>3, <4>4
    <3>2. CASE ask = "length"
      <4>1. want = 2 /\ tag # tagInt BY <3>2
      <4>2. 1 \in 1..Len(Bytes) /\ 2 \in 1..Len(Bytes) BY <2>2, <4>1
      <4>3. PICK a \in Byte, b \in Byte : a = Bytes[1] /\ b = Bytes[2]
        BY <2>2, <4>2
      <4>4. Number(Bytes) = a * 256 + b BY <2>2, <4>1, <4>3 DEF Number
      <4>5. a * 256 + b \in 0..MaxLength
        <5>1. a \in 0..255 /\ b \in 0..255 BY DEF Byte
        <5> QED BY <5>1, LengthBound
      <4> QED BY <4>1, <4>4, <4>5
    <3> QED BY <2>1, <3>1, <3>2
  <2>4. /\ pos' = pos + want /\ pos' \in 0..Len(stream')
        /\ want' = Number(Bytes) /\ ask' = "body"
        /\ stream' \in Seq(Byte) /\ Len(stream') <= Depth
    BY <2>1, <2>3, StepType
  <2>5. Len(open') <= pos'
    <3>1. Len(open) \in Nat /\ pos \in Nat /\ want \in Nat /\ Len(open) <= pos
      BY OpenRoom
    <3> QED BY <2>1, <2>4, <3>1
  <2>6. tag # 0 BY <2>1 DEF TypeOK
  <2> QED BY <2>1, <2>3, <2>4, <2>5, <2>6 DEF TypeOK
<1>8. CASE ReadBody
  <2>1. 1 \in 0..MaxLength BY DEF MaxLength
  <2>2. Reading(ask) /\ ask = "body" /\ Ask("tag", 1) /\ Give(BodyValue, open)
        /\ UNCHANGED <<sent, stream, end>>
        /\ padded' = (padded \/ Body(BodyValue) # Bytes)
    BY <1>8 DEF ReadBody, Reading, BodyValue
  <2>3. pos' = pos + want /\ pos' \in 0..Len(stream') /\ want' = 1
        /\ ask' = "tag"
        /\ stream' \in Seq(Byte) /\ Len(stream') <= Depth
    BY <2>1, <2>2, StepType
  <2>4. BodyValue \in Blobs \cup Ints BY <2>2, BodyType
  <2>5. BodyValue \in Nested[Depth - Len(open)]
    <3>1. PICK n \in Nat : n = Len(open) /\ n <= Depth BY OpenRoom
    <3>2. Depth - n \in 0..Depth BY <3>1, DepthType
    <3>3. BodyValue \in Nested[Depth - n] BY <2>4, <3>2, NestedCases
    <3> QED BY <3>1, <3>3
  <2>6. /\ tag' = 0 /\ values' \in Seq(Nested[Depth])
        /\ open' \in Seq(Seq(Nested[Depth])) /\ Len(open') = Len(open)
        /\ \A i \in 1..Len(open') : open'[i] \in Seq(Nested[Depth - i])
    BY <2>2, <2>5, OpenRoom, GiveType DEF TypeOK
  <2>7. Len(open') <= pos'
    <3>1. Len(open) \in Nat /\ pos \in Nat /\ want \in Nat /\ Len(open) <= pos
      BY OpenRoom
    <3> QED BY <2>3, <2>6, <3>1
  <2>8. padded' \in BOOLEAN BY <2>2 DEF TypeOK
  <2> QED BY <2>1, <2>2, <2>3, <2>6, <2>7, <2>8 DEF TypeOK
<1>9. CASE Short BY <1>9 DEF Short, Refuse, TypeOK
<1>10. CASE SourceFails BY <1>10 DEF SourceFails, Refuse, TypeOK
<1>11. CASE Finished BY <1>11 DEF Finished, vars, TypeOK
<1> QED BY <1>0, <1>1, <1>2, <1>3, <1>4, <1>5, <1>6, <1>7, <1>8, <1>9, <1>10,
           <1>11 DEF Next

LEMMA AlwaysTyped == Spec => []Typed
<1>1. Init => Typed BY InitTyped
<1>2. Typed /\ [Next]_vars => Typed' BY NextTyped
<1> QED BY <1>1, <1>2, PTL DEF Spec

\* No byte past the end of the stream is ever consumed, no size asked for that
\* two bytes do not hold, and every dict returned, at any depth, is made of
\* pairs: for streams of any length (wire.go:87-160).
THEOREM TypeCorrect == Spec => []TypeOK
<1>1. Typed => TypeOK BY DEF Typed
<1> QED BY <1>1, AlwaysTyped, PTL

LEMMA ExtendPrefix ==
  ASSUME NEW S, NEW vs \in Seq(S), NEW i \in Nat, i < Len(vs)
  PROVE  /\ SubSeq(vs, 1, i) \in Seq(S) /\ Len(SubSeq(vs, 1, i)) = i
         /\ vs[i + 1] \in S
         /\ SubSeq(vs, 1, i + 1) = Append(SubSeq(vs, 1, i), vs[i + 1])
<1>1. \A k \in 1..i + 1 : k \in 1..Len(vs) /\ vs[k] \in S OBVIOUS
<1>2. /\ SubSeq(vs, 1, i) \in Seq(S) /\ Len(SubSeq(vs, 1, i)) = i
      /\ \A k \in 1..i : SubSeq(vs, 1, i)[k] = vs[k]
  BY <1>1, PrefixOf
<1>3. /\ SubSeq(vs, 1, i + 1) \in Seq(S) /\ Len(SubSeq(vs, 1, i + 1)) = i + 1
      /\ \A k \in 1..i + 1 : SubSeq(vs, 1, i + 1)[k] = vs[k]
  <2>1. i + 1 \in Nat OBVIOUS
  <2> QED BY <1>1, <2>1, PrefixOf
<1>4. vs[i + 1] \in S BY <1>1
<1> DEFINE a == SubSeq(vs, 1, i + 1)
           b == Append(SubSeq(vs, 1, i), vs[i + 1])
<1>5. /\ b \in Seq(S) /\ Len(b) = i + 1
      /\ \A k \in 1..i : b[k] = vs[k]
      /\ b[i + 1] = vs[i + 1]
  BY <1>2, <1>4, AppendProperties
<1> HIDE DEF b
<1>6. \A k \in 1..i + 1 : a[k] = b[k]
  <2>1. \A k \in 1..i + 1 : k \in 1..i \/ k = i + 1 OBVIOUS
  <2> QED BY <1>3, <1>5, <2>1
<1>7. a = b
  <2> HIDE DEF a
  <2>1. a \in Seq(S) /\ Len(a) = i + 1 BY <1>3 DEF a
  <2> QED BY <1>5, <1>6, <2>1, SeqEqual
<1> QED BY <1>2, <1>4, <1>7 DEF b

\* What the values before the next one are encoded as is followed by what the
\* next one is.
LEMMA EncodedPrefix ==
  ASSUME NEW vs \in Seq(Nested[Depth]), NEW i \in Nat, i < Len(vs)
  PROVE  /\ EncodeAll(SubSeq(vs, 1, i)) \in Seq(Byte)
         /\ vs[i + 1] \in Nested[Depth] /\ Encode(vs[i + 1]) \in Seq(Byte)
         /\ EncodeAll(SubSeq(vs, 1, i + 1)) =
              EncodeAll(SubSeq(vs, 1, i)) \o Encode(vs[i + 1])
<1>1. /\ SubSeq(vs, 1, i) \in Seq(Nested[Depth])
      /\ vs[i + 1] \in Nested[Depth]
      /\ SubSeq(vs, 1, i + 1) = Append(SubSeq(vs, 1, i), vs[i + 1])
  <2>1. PICK T : T = Nested[Depth] OBVIOUS
  <2>2. vs \in Seq(T) BY <2>1
  <2>3. /\ SubSeq(vs, 1, i) \in Seq(T)
        /\ vs[i + 1] \in T
        /\ SubSeq(vs, 1, i + 1) = Append(SubSeq(vs, 1, i), vs[i + 1])
    BY <2>2, ExtendPrefix
  <2> QED BY <2>1, <2>3
<1> QED BY <1>1, EncodeAllAppend, EncodeType

LEMMA PrefixAt ==
  ASSUME NEW vs \in Seq(Nested[Depth]), NEW i \in 0..Len(vs)
  PROVE  At(EncodeAll(vs), 0, EncodeAll(SubSeq(vs, 1, i)))
<1> DEFINE all == EncodeAll(vs)
           P(k) == EncodeAll(SubSeq(vs, 1, k))
           S == {n \in Nat : n <= Len(vs) => At(all, 0, P(Len(vs) - n))}
<1>0. Len(vs) \in Nat /\ all \in Seq(Byte) /\ 0 \in Nat BY EncodeAllAppend
<1>1. 0 \in S
  <2>1. SubSeq(vs, 1, Len(vs)) = vs BY SubSeqFull
  <2>2. P(Len(vs)) = all BY <2>1
  <2>3. Len(vs) - 0 = Len(vs) BY <1>0
  <2>4. At(all, 0, all)
    <3> HIDE DEF all
    <3>1. Len(all) \in Nat BY <1>0
    <3>2. \A k \in 1..Len(all) : 0 + k = k BY <3>1
    <3> QED BY <3>1, <3>2 DEF At
  <2> HIDE DEF all, P
  <2> QED BY <2>2, <2>3, <2>4
<1>2. ASSUME NEW n \in Nat, n \in S PROVE n + 1 \in S
  <2> SUFFICES ASSUME n + 1 <= Len(vs) PROVE At(all, 0, P(Len(vs) - (n + 1)))
    OBVIOUS
  <2>0. Len(vs) - (n + 1) \in Nat BY <1>0
  <2>1. PICK k \in Nat : k = Len(vs) - (n + 1) BY <2>0
  <2>2. k + 1 = Len(vs) - n /\ k < Len(vs) /\ n <= Len(vs) BY <1>0, <2>1
  <2>3. At(all, 0, P(k + 1)) BY <1>2, <2>2
  <2>4. P(k) \in Seq(Byte) /\ Encode(vs[k + 1]) \in Seq(Byte)
        /\ P(k + 1) = P(k) \o Encode(vs[k + 1])
    BY <2>2, EncodedPrefix
  <2>5. At(all, 0, P(k))
    <3>1. PICK p, e, q : p = P(k) /\ e = Encode(vs[k + 1]) /\ q = P(k + 1)
      OBVIOUS
    <3> HIDE DEF all, P
    <3>2. p \in Seq(Byte) /\ e \in Seq(Byte) /\ At(all, 0, p \o e)
      BY <2>3, <2>4, <3>1
    <3> QED BY <1>0, <3>1, <3>2, AtConcat
  <2> QED BY <2>1, <2>5
<1>3. Len(vs) - i \in S
  <2>1. Len(vs) - i \in Nat BY <1>0
  <2> HIDE DEF S
  <2> QED BY <1>1, <1>2, <2>1, Induction
<1>4. Len(vs) - i <= Len(vs) /\ Len(vs) - (Len(vs) - i) = i BY <1>0
<1>5. At(all, 0, P(Len(vs) - (Len(vs) - i)))
  <2> HIDE DEF all, P
  <2> QED BY <1>3, <1>4
<1> QED BY <1>4, <1>5

LEMMA AtPart ==
  ASSUME NEW bytes \in Seq(Byte), NEW off \in Nat, NEW whole \in Seq(Byte),
         At(bytes, off, whole), NEW part \in Seq(Byte), At(whole, 0, part)
  PROVE  At(bytes, off, part)
<1>1. Len(bytes) \in Nat /\ Len(whole) \in Nat /\ Len(part) \in Nat
      /\ Len(part) <= Len(whole) BY DEF At
<1>2. ASSUME NEW k \in 1..Len(part) PROVE bytes[off + k] = part[k]
  <2>1. k \in 1..Len(whole) /\ 0 + k = k BY <1>1
  <2>2. whole[k] = part[k] BY <2>1 DEF At
  <2> QED BY <2>1, <2>2 DEF At
<1>3. off + Len(part) <= Len(bytes) BY <1>1 DEF At
<1> QED BY <1>2, <1>3 DEF At

\* Where the value is that follows i others.
LEMMA MemberAt ==
  ASSUME NEW vs \in Seq(Nested[Depth]), NEW i \in 0..Len(vs),
         NEW bytes \in Seq(Byte), NEW off \in Nat,
         At(bytes, off, EncodeAll(vs))
  PROVE  LET done == EncodeAll(SubSeq(vs, 1, i))
         IN  /\ done \in Seq(Byte)
             /\ i = Len(vs) => done = EncodeAll(vs)
             /\ i < Len(vs) =>
                  /\ vs[i + 1] \in Nested[Depth]
                  /\ Encode(vs[i + 1]) \in Seq(Byte)
                  /\ At(bytes, off + Len(done), Encode(vs[i + 1]))
                  /\ Len(done) + Len(Encode(vs[i + 1])) <= Len(EncodeAll(vs))
<1> DEFINE done == EncodeAll(SubSeq(vs, 1, i))
           all == EncodeAll(vs)
<1>0. Len(vs) \in Nat /\ all \in Seq(Byte) BY EncodeAllAppend
<1>1. CASE i = Len(vs)
  <2>1. SubSeq(vs, 1, i) = vs BY <1>1, SubSeqFull
  <2>2. ~(i < Len(vs)) BY <1>0, <1>1
  <2>3. done = all BY <2>1
  <2> HIDE DEF done, all
  <2> QED BY <1>0, <2>2, <2>3 DEF all, done
<1>2. CASE i < Len(vs)
  <2>1. /\ done \in Seq(Byte)
        /\ vs[i + 1] \in Nested[Depth] /\ Encode(vs[i + 1]) \in Seq(Byte)
        /\ EncodeAll(SubSeq(vs, 1, i + 1)) = done \o Encode(vs[i + 1])
    <3>1. i \in Nat OBVIOUS
    <3> QED BY <1>2, <3>1, EncodedPrefix
  <2>2. i + 1 \in 0..Len(vs) BY <1>0, <1>2
  <2>3. At(all, 0, EncodeAll(SubSeq(vs, 1, i + 1))) BY <2>2, PrefixAt
  <2>4. PICK e : e = Encode(vs[i + 1]) OBVIOUS
  <2> HIDE DEF done, all
  <2>5. /\ done \o e \in Seq(Byte) /\ Len(done \o e) = Len(done) + Len(e)
        /\ At(all, 0, done \o e)
    BY <2>1, <2>3, <2>4, ConcatProperties
  <2>6. At(bytes, off, all) BY DEF all
  <2>7. At(bytes, off, done \o e) BY <1>0, <2>5, <2>6, AtPart
  <2>8. At(bytes, off + Len(done), e) BY <2>1, <2>4, <2>7, AtConcat
  <2>9. Len(done) + Len(e) <= Len(all)
    <3>1. Len(done) \in Nat /\ Len(e) \in Nat /\ Len(all) \in Nat
      BY <1>0, <2>1, <2>4
    <3>2. 0 + Len(done \o e) <= Len(all) BY <2>5 DEF At
    <3> QED BY <2>5, <3>1, <3>2
  <2> QED BY <1>2, <2>1, <2>4, <2>8, <2>9 DEF done, all
<1> QED BY <1>0, <1>1, <1>2

----------------------------------------------------------------------------
(* Where in the stream the values and the open dicts are: every value that *)
(* was returned in its place from the start on, then, from offs[i] on, the *)
(* mark and the members of the i-th dict, and then the value being read.   *)

Anchored(bytes, offs, dicts, vals) ==
  /\ offs \in Seq(Nat) /\ Len(offs) = Len(dicts) + 1
  /\ offs[1] = Len(EncodeAll(vals)) /\ At(bytes, 0, EncodeAll(vals))
  /\ \A i \in 1..Len(dicts) :
       /\ At(bytes, offs[i], <<tagDict>> \o EncodeAll(dicts[i]))
       /\ offs[i + 1] = offs[i] + 1 + Len(EncodeAll(dicts[i]))

LEMMA LastIndex ==
  ASSUME NEW S, NEW s \in Seq(S), s # <<>>
  PROVE  \E m \in Nat : Len(s) = m + 1
<1>1. Len(s) - 1 \in Nat /\ Len(s) = (Len(s) - 1) + 1 BY EmptySeq
<1> QED BY <1>1

LEMMA FrontLast ==
  ASSUME NEW S, NEW s \in Seq(S), NEW m \in Nat, Len(s) = m + 1
  PROVE  /\ Front(s) \in Seq(S) /\ Len(Front(s)) = m
         /\ \A i \in 1..m : Front(s)[i] = s[i]
         /\ Last(s) = s[m + 1] /\ Last(s) \in S
<1>1. Len(s) - 1 = m OBVIOUS
<1>2. Front(s) = SubSeq(s, 1, m) /\ Last(s) = s[m + 1]
  BY <1>1 DEF Front, Last
<1>3. \A i \in 1..m + 1 : s[i] \in S OBVIOUS
<1> QED BY <1>2, <1>3, PrefixOf

LEMMA ReplaceLast ==
  ASSUME NEW S, NEW s \in Seq(S), NEW m \in Nat, Len(s) = m + 1, NEW x \in S
  PROVE  /\ Append(Front(s), x) \in Seq(S)
         /\ Len(Append(Front(s), x)) = m + 1
         /\ \A i \in 1..m : Append(Front(s), x)[i] = s[i]
         /\ Append(Front(s), x)[m + 1] = x
<1>1. Front(s) \in Seq(S) /\ Len(Front(s)) = m
      /\ \A i \in 1..m : Front(s)[i] = s[i]
  BY FrontLast
<1> QED BY <1>1, AppendProperties

LEMMA DictPrefixAt ==
  ASSUME NEW bytes \in Seq(Byte), NEW off \in Nat, NEW ms \in Seq(Nested[Depth])
  PROVE  /\ EncodeAll(ms) \in Seq(Byte)
         /\ At(bytes, off, <<tagDict>> \o EncodeAll(ms)) <=>
              /\ off < Len(bytes) /\ bytes[off + 1] = tagDict
              /\ At(bytes, off + 1, EncodeAll(ms))
<1>1. EncodeAll(ms) \in Seq(Byte) BY EncodeAllAppend
<1>2. <<tagDict>> \in Seq(Byte) /\ Len(<<tagDict>>) = 1
  BY DEF tagDict, Byte
<1>3. At(bytes, off, <<tagDict>> \o EncodeAll(ms)) <=>
        At(bytes, off, <<tagDict>>) /\ At(bytes, off + 1, EncodeAll(ms))
  BY <1>1, <1>2, AtConcat
<1> QED BY <1>1, <1>3, AtByte

GivenDicts(v, dicts) ==
  IF dicts = <<>> THEN dicts ELSE Append(Front(dicts), Append(Last(dicts), v))
GivenValues(v, dicts, vals) == IF dicts = <<>> THEN Append(vals, v) ELSE vals

\* A complete value moves the place of the next one past it.
LEMMA GiveAnchored ==
  ASSUME NEW bytes \in Seq(Byte), NEW dicts \in Seq(Seq(Nested[Depth])),
         NEW vals \in Seq(Nested[Depth]), NEW v \in Nested[Depth],
         NEW offs, Anchored(bytes, offs, dicts, vals),
         At(bytes, offs[Len(dicts) + 1], Encode(v))
  PROVE  Anchored(bytes,
                  [offs EXCEPT ![Len(dicts) + 1] = @ + Len(Encode(v))],
                  GivenDicts(v, dicts), GivenValues(v, dicts, vals))
<1> DEFINE n == Len(dicts) + 1
           size == Len(Encode(v))
           moved == [offs EXCEPT ![n] = @ + size]
<1>0. Len(dicts) \in Nat /\ Encode(v) \in Seq(Byte) /\ size \in Nat
      /\ n \in 1..n /\ n \in Nat
  BY EncodeType
<1>1. offs \in Seq(Nat) /\ Len(offs) = n /\ offs[n] \in Nat
  BY <1>0 DEF Anchored
<1>2. /\ moved \in Seq(Nat) /\ Len(moved) = n
      /\ moved[n] = offs[n] + size
      /\ \A i \in 1..n : i # n => moved[i] = offs[i]
  <2>1. PICK e \in Nat : e = offs[n] + size BY <1>0, <1>1
  <2>2. moved = [offs EXCEPT ![n] = e] BY <2>1
  <2> HIDE DEF n, moved, size
  <2> QED BY <1>0, <1>1, <2>1, <2>2, ExceptSeq
<1>3. /\ EncodeAll(vals) \in Seq(Byte)
      /\ EncodeAll(Append(vals, v)) = EncodeAll(vals) \o Encode(v)
  BY EncodeAllAppend
<1>4. CASE dicts = <<>>
  <2>1. n = 1 /\ Len(dicts) = 0 BY <1>4
  <2>2. offs[1] = Len(EncodeAll(vals)) /\ At(bytes, 0, EncodeAll(vals))
    BY DEF Anchored
  <2>3. At(bytes, 0 + Len(EncodeAll(vals)), Encode(v))
    BY <1>3, <2>1, <2>2
  <2>4. /\ At(bytes, 0, EncodeAll(Append(vals, v)))
        /\ Len(EncodeAll(Append(vals, v))) = Len(EncodeAll(vals)) + size
    BY <1>0, <1>3, <2>2, <2>3, AtConcat
  <2>5. moved[1] = Len(EncodeAll(Append(vals, v)))
    <3> HIDE DEF moved, size
    <3> QED BY <1>2, <2>1, <2>2, <2>4
  <2> HIDE DEF moved, size
  <2>6. Anchored(bytes, moved, dicts, Append(vals, v))
    BY <1>2, <2>1, <2>4, <2>5 DEF Anchored
  <2> QED BY <1>4, <2>6 DEF moved, size, GivenDicts, GivenValues
<1>5. CASE dicts # <<>>
  <2>1. PICK m \in Nat : Len(dicts) = m + 1 BY <1>5, LastIndex
  <2> DEFINE old == dicts[m + 1]
             new == Append(old, v)
             given == Append(Front(dicts), new)
  <2>2. old \in Seq(Nested[Depth]) /\ new \in Seq(Nested[Depth])
    <3>1. m + 1 \in 1..Len(dicts) BY <2>1
    <3>2. old \in Seq(Nested[Depth]) BY <3>1
    <3> HIDE DEF old
    <3> QED BY <3>2, AppendProperties
  <2>3. /\ given \in Seq(Seq(Nested[Depth])) /\ Len(given) = m + 1
        /\ \A i \in 1..m : given[i] = dicts[i]
        /\ given[m + 1] = new
    <3>1. PICK T : T = Seq(Nested[Depth]) OBVIOUS
    <3>2. dicts \in Seq(T) /\ new \in T BY <2>2, <3>1
    <3> HIDE DEF new
    <3>3. /\ given \in Seq(T) /\ Len(given) = m + 1
          /\ \A i \in 1..m : given[i] = dicts[i]
          /\ given[m + 1] = new
      BY <2>1, <3>2, ReplaceLast
    <3> QED BY <3>1, <3>3
  <2>4. /\ EncodeAll(old) \in Seq(Byte)
        /\ EncodeAll(new) = EncodeAll(old) \o Encode(v)
    BY <2>1, EncodeAllAppend
  <2>5. n = m + 2 /\ m + 1 \in 1..Len(dicts) /\ m + 1 \in 1..n /\ m + 1 # n
    BY <2>1
  <2>6. /\ At(bytes, offs[m + 1], <<tagDict>> \o EncodeAll(old))
        /\ offs[n] = offs[m + 1] + 1 + Len(EncodeAll(old))
        /\ offs[m + 1] \in Nat
    <3>1. PICK j : j = m + 1 OBVIOUS
    <3>2. j \in 1..Len(dicts) /\ j \in 1..n /\ j + 1 = n BY <2>5, <3>1
    <3> HIDE DEF n, old
    <3>3. /\ At(bytes, offs[j], <<tagDict>> \o EncodeAll(dicts[j]))
          /\ offs[j + 1] = offs[j] + 1 + Len(EncodeAll(dicts[j]))
      BY <3>2 DEF Anchored
    <3>4. offs[j] \in Nat BY <1>1, <3>2
    <3>5. dicts[j] = old BY <3>1 DEF old
    <3> QED BY <3>1, <3>2, <3>3, <3>4, <3>5
  <2>7. /\ At(bytes, offs[m + 1], <<tagDict>> \o EncodeAll(new))
        /\ Len(EncodeAll(new)) = Len(EncodeAll(old)) + size
    <3>1. PICK o \in Nat : o = offs[m + 1] BY <2>6
    <3> HIDE DEF old, new, n
    <3>2. o < Len(bytes) /\ bytes[o + 1] = tagDict
          /\ At(bytes, o + 1, EncodeAll(old))
      BY <2>2, <2>6, <3>1, DictPrefixAt
    <3>3. At(bytes, o + 1 + Len(EncodeAll(old)), Encode(v))
      BY <2>6, <3>1 DEF n
    <3>4. /\ At(bytes, o + 1, EncodeAll(new))
          /\ Len(EncodeAll(new)) = Len(EncodeAll(old)) + size
      BY <1>0, <2>4, <3>2, <3>3, AtConcat
    <3> QED BY <2>2, <3>1, <3>2, <3>4, DictPrefixAt
  <2> HIDE DEF moved, old, new, given, n, size
  <2>8. Len(EncodeAll(old)) \in Nat BY <2>4
  <2>9. moved[m + 1 + 1] = moved[m + 1] + 1 + Len(EncodeAll(new))
    <3>1. m + 1 + 1 = n BY <2>5
    <3>2. moved[n] = offs[n] + size BY <1>2
    <3>3. moved[m + 1] = offs[m + 1] BY <1>2, <2>5
    <3> QED BY <1>0, <2>6, <2>7, <2>8, <3>1, <3>2, <3>3
  <2>10. ASSUME NEW i \in 1..m
         PROVE  /\ At(bytes, moved[i], <<tagDict>> \o EncodeAll(dicts[i]))
                /\ moved[i + 1] = moved[i] + 1 + Len(EncodeAll(dicts[i]))
    <3>1. i \in 1..Len(dicts) /\ i \in 1..n /\ i + 1 \in 1..n
          /\ i # n /\ i + 1 # n
      BY <2>1, <2>5
    <3>2. moved[i] = offs[i] /\ moved[i + 1] = offs[i + 1] BY <1>2, <3>1
    <3> QED BY <3>1, <3>2 DEF Anchored
  <2>11. moved[m + 1] = offs[m + 1] BY <1>2, <2>5
  <2>12. \A i \in 1..Len(given) :
           /\ At(bytes, moved[i], <<tagDict>> \o EncodeAll(given[i]))
           /\ moved[i + 1] = moved[i] + 1 + Len(EncodeAll(given[i]))
    <3>1. TAKE i \in 1..Len(given)
    <3>2. i \in 1..m \/ i = m + 1 BY <2>3
    <3> QED BY <2>3, <2>7, <2>9, <2>10, <2>11, <3>2
  <2>13. moved[1] = Len(EncodeAll(vals)) /\ At(bytes, 0, EncodeAll(vals))
    <3>1. 1 \in 1..n /\ 1 # n BY <2>5
    <3> QED BY <1>2, <3>1 DEF Anchored
  <2>14. Anchored(bytes, moved, given, vals)
    <3>1. Len(moved) = Len(given) + 1 BY <1>2, <2>3, <2>5
    <3> QED BY <1>2, <2>12, <2>13, <3>1, Zenon DEF Anchored
  <2>15. given = GivenDicts(v, dicts) /\ vals = GivenValues(v, dicts, vals)
    <3>1. Last(dicts) = old BY <2>1 DEF Last, old
    <3> QED BY <1>5, <3>1 DEF given, new, GivenDicts, GivenValues
  <2> QED BY <2>14, <2>15 DEF moved, n, size
<1> QED BY <1>4, <1>5

----------------------------------------------------------------------------
(* The values that were sent and what has become of them: path[i] is the   *)
(* value among them that the i-th open dict is the beginning of.           *)

Whole(vs, vals) == Len(EncodeAll(SubSeq(vs, 1, Len(vals) + 1)))

Follows(vs, offs, path, dicts, vals) ==
  /\ path \in Seq(Nested[Depth]) /\ Len(path) = Len(dicts)
  /\ Len(vals) <= Len(vs) /\ vals = SubSeq(vs, 1, Len(vals))
  /\ dicts # <<>> => Len(vals) < Len(vs) /\ path[1] = vs[Len(vals) + 1]
  /\ \A i \in 1..Len(dicts) :
       /\ path[i] \in Nested[Depth - (i - 1)] /\ path[i].kind = tagDict
       /\ Len(dicts[i]) <= Len(path[i].members)
       /\ dicts[i] = SubSeq(path[i].members, 1, Len(dicts[i]))
       /\ At(EncodeAll(vs), offs[i], Encode(path[i]))
       /\ offs[i] + Len(Encode(path[i])) <= Whole(vs, vals)
  /\ \A i, j \in 1..Len(dicts) : j = i + 1 =>
       /\ Len(dicts[i]) < Len(path[i].members)
       /\ path[j] = path[i].members[Len(dicts[i]) + 1]

\* The values the next one is among, and those of them that are there.
Parent(vs, path, dicts) ==
  IF dicts = <<>> THEN vs ELSE path[Len(dicts)].members
Done(dicts, vals) == IF dicts = <<>> THEN vals ELSE dicts[Len(dicts)]
Due(vs, path, dicts, vals) ==
  Parent(vs, path, dicts)[Len(Done(dicts, vals)) + 1]

LEMMA DictOf ==
  ASSUME NEW d \in 1..Depth, NEW v \in Nested[d], v.kind = tagDict
  PROVE  /\ v.members \in Pairs(Nested[d - 1]) /\ v = Dict(v.members)
         /\ v.members \in Seq(Nested[d - 1])
         /\ v.members \in Seq(Nested[Depth])
         /\ EncodeAll(v.members) \in Seq(Byte)
         /\ Encode(v) = <<tagDict>> \o (EncodeAll(v.members) \o <<tagEnd>>)
<1>1. d \in 0..Depth /\ d > 0 BY DepthType
<1>2. v \notin Blobs \cup Ints BY ScalarKind
<1>3. v.members \in Pairs(Nested[d - 1]) /\ v = Dict(v.members)
  BY <1>1, <1>2, NestedCases
<1>4. /\ v.members \in Seq(Nested[Depth])
      /\ Encode(v) = <<tagDict>> \o (EncodeAll(v.members) \o <<tagEnd>>)
  BY <1>3, EncodeDict
<1> QED BY <1>3, <1>4, EncodeAllAppend DEF Pairs

\* Where the parts of an encoded dict are.
LEMMA DictAt ==
  ASSUME NEW bytes \in Seq(Byte), NEW off \in Nat, NEW inner \in Seq(Byte)
  PROVE  /\ <<tagDict>> \o (inner \o <<tagEnd>>) \in Seq(Byte)
         /\ Len(<<tagDict>> \o (inner \o <<tagEnd>>)) = Len(inner) + 2
         /\ At(bytes, off, <<tagDict>> \o (inner \o <<tagEnd>>)) <=>
              /\ At(bytes, off, <<tagDict>> \o inner)
              /\ off + 1 + Len(inner) < Len(bytes)
              /\ bytes[off + 1 + Len(inner) + 1] = tagEnd
         /\ At(bytes, off, <<tagDict>> \o inner) => At(bytes, off + 1, inner)
<1>1. /\ <<tagDict>> \in Seq(Byte) /\ Len(<<tagDict>>) = 1
      /\ <<tagEnd>> \in Seq(Byte) /\ Len(<<tagEnd>>) = 1
  BY DEF tagDict, tagEnd, Byte
<1>2. inner \o <<tagEnd>> \in Seq(Byte)
      /\ Len(inner \o <<tagEnd>>) = Len(inner) + 1
  BY <1>1, ConcatProperties
<1>3. PICK a, z, tail : a = <<tagDict>> /\ z = <<tagEnd>> /\ tail = inner \o z
  OBVIOUS
<1>4. off + 1 \in Nat /\ Len(inner) \in Nat /\ off + 1 + Len(inner) \in Nat
  OBVIOUS
<1>a. a \in Seq(Byte) /\ Len(a) = 1 /\ z \in Seq(Byte)
      /\ tail \in Seq(Byte) /\ Len(tail) = Len(inner) + 1
  BY <1>1, <1>2, <1>3
<1>5. /\ a \o tail \in Seq(Byte) /\ Len(a \o tail) = 1 + (Len(inner) + 1)
      /\ At(bytes, off, a \o tail) <=>
           At(bytes, off, a) /\ At(bytes, off + 1, tail)
  <2>1. /\ a \o tail \in Seq(Byte) /\ Len(a \o tail) = Len(a) + Len(tail)
        /\ At(bytes, off, a \o tail) <=>
             At(bytes, off, a) /\ At(bytes, off + Len(a), tail)
    BY <1>a, AtConcat
  <2> QED BY <1>a, <2>1
<1>6. At(bytes, off + 1, tail) <=>
        At(bytes, off + 1, inner) /\ At(bytes, off + 1 + Len(inner), z)
  BY <1>3, <1>4, <1>a, AtConcat
<1>7. At(bytes, off, a \o inner) <=>
        At(bytes, off, a) /\ At(bytes, off + 1, inner)
  BY <1>a, AtConcat
<1>8. At(bytes, off + 1 + Len(inner), z) <=>
        /\ off + 1 + Len(inner) < Len(bytes)
        /\ bytes[off + 1 + Len(inner) + 1] = tagEnd
  BY <1>3, <1>4, AtByte
<1>9. 1 + (Len(inner) + 1) = Len(inner) + 2 BY <1>4
<1> QED BY <1>3, <1>5, <1>6, <1>7, <1>8, <1>9

\* What of the encoding of the values sent comes at the place of the next one.
PlaceOf(vs, offs, path, dicts, vals) ==
  LET full == EncodeAll(vs)
      n == Len(dicts)
      base == offs[n + 1]
      parent == Parent(vs, path, dicts)
      done == Done(dicts, vals)
      due == Due(vs, path, dicts, vals)
  IN  /\ base \in Nat
      /\ parent \in Seq(Nested[Depth])
      /\ Len(done) \in 0..Len(parent)
      /\ done = SubSeq(parent, 1, Len(done))
      /\ Len(done) < Len(parent) =>
           /\ due \in Nested[Depth - n] /\ due \in Nested[Depth]
           /\ At(full, base, Encode(due))
           /\ base + Len(Encode(due)) <= Whole(vs, vals)
      /\ Len(done) = Len(parent) /\ dicts = <<>> =>
           base = Len(full) /\ Len(vals) = Len(vs)
      /\ Len(done) = Len(parent) /\ dicts # <<>> =>
           /\ Dict(done) = path[n]
           /\ base < Len(full) /\ full[base + 1] = tagEnd
           /\ base + 1 <= Whole(vs, vals)

LEMMA DueAt ==
  ASSUME NEW vs \in Seq(Nested[Depth]), NEW offs, NEW path,
         NEW dicts \in Seq(Seq(Nested[Depth])), Len(dicts) <= Depth,
         NEW vals \in Seq(Nested[Depth]),
         NEW bytes, Anchored(bytes, offs, dicts, vals),
         Follows(vs, offs, path, dicts, vals)
  PROVE  PlaceOf(vs, offs, path, dicts, vals)
<1> DEFINE full == EncodeAll(vs)
<1>0. full \in Seq(Byte) /\ Len(vals) \in Nat /\ Len(vs) \in Nat
      /\ EncodeAll(vals) \in Seq(Byte)
  BY EncodeAllAppend
<1>1. CASE dicts = <<>>
  <2>1. Len(dicts) = 0 /\ 0 + 1 = 1 /\ Depth - 0 = Depth BY <1>1, DepthType
  <2>2. PICK k \in Nat : k = Len(vals) BY <1>0
  <2>3. k \in 0..Len(vs) /\ vals = SubSeq(vs, 1, k)
        /\ offs[1] = Len(EncodeAll(vals))
    BY <1>0, <2>2 DEF Follows, Anchored
  <2>4. Parent(vs, path, dicts) = vs /\ Done(dicts, vals) = vals
        /\ Due(vs, path, dicts, vals) = vs[k + 1]
    BY <1>1, <2>2 DEF Parent, Done, Due
  <2>5. At(full, 0, full)
    <3> HIDE DEF full
    <3>1. Len(full) \in Nat BY <1>0
    <3>2. \A i \in 1..Len(full) : 0 + i = i BY <3>1
    <3> QED BY <3>1, <3>2 DEF At
  <2>6. /\ k = Len(vs) => EncodeAll(SubSeq(vs, 1, k)) = full
        /\ k < Len(vs) =>
             /\ vs[k + 1] \in Nested[Depth]
             /\ At(full, 0 + Len(EncodeAll(SubSeq(vs, 1, k))), Encode(vs[k + 1]))
    <3>1. 0 \in Nat OBVIOUS
    <3> QED BY <1>0, <2>3, <2>5, <3>1, MemberAt
  <2>7. offs[1] \in Nat BY <1>0, <2>3
  <2>8. ASSUME k < Len(vs)
        PROVE  /\ vs[k + 1] \in Nested[Depth]
               /\ At(full, offs[1], Encode(vs[k + 1]))
               /\ offs[1] + Len(Encode(vs[k + 1])) <= Whole(vs, vals)
    <3>1. 0 + Len(EncodeAll(SubSeq(vs, 1, k))) = offs[1] BY <2>3, <2>7
    <3>2. vs[k + 1] \in Nested[Depth] /\ At(full, offs[1], Encode(vs[k + 1]))
      BY <2>6, <2>8, <3>1
    <3>3. /\ EncodeAll(SubSeq(vs, 1, k)) \in Seq(Byte)
          /\ Encode(vs[k + 1]) \in Seq(Byte)
          /\ EncodeAll(SubSeq(vs, 1, k + 1)) =
               EncodeAll(SubSeq(vs, 1, k)) \o Encode(vs[k + 1])
      BY <2>8, EncodedPrefix
    <3>4. Whole(vs, vals) = offs[1] + Len(Encode(vs[k + 1]))
      BY <2>2, <2>3, <3>3, ConcatProperties DEF Whole
    <3>5. Len(Encode(vs[k + 1])) \in Nat BY <3>3
    <3> QED BY <2>7, <3>2, <3>4, <3>5
  <2> HIDE DEF full
  <2>9. k = Len(vs) => offs[1] = Len(full) BY <2>3, <2>6
  <2>10. offs[Len(dicts) + 1] = offs[1] BY <2>1
  <2>11. Nested[Depth - Len(dicts)] = Nested[Depth] BY <2>1
  <2> QED BY <1>1, <2>2, <2>3, <2>4, <2>7, <2>8, <2>9, <2>10, <2>11
         DEF full, PlaceOf
<1>2. CASE dicts # <<>>
  <2>1. PICK m \in Nat : Len(dicts) = m + 1 BY <1>2, LastIndex
  <2>2. PICK n : n = m + 1 OBVIOUS
  <2>3. n \in 1..Len(dicts) /\ Len(dicts) = n /\ n \in Nat BY <2>1, <2>2
  <2>4. PICK v, ms, done : v = path[n] /\ ms = v.members /\ done = dicts[n]
    OBVIOUS
  <2>5. /\ v \in Nested[Depth - (n - 1)] /\ v.kind = tagDict
        /\ Len(done) <= Len(ms) /\ done = SubSeq(ms, 1, Len(done))
        /\ At(full, offs[n], Encode(v))
        /\ offs[n] + Len(Encode(v)) <= Whole(vs, vals)
    BY <2>3, <2>4 DEF Follows
  <2>6. Depth - (n - 1) \in 1..Depth /\ (Depth - (n - 1)) - 1 = Depth - n
        /\ Depth - n \in 0..Depth
    BY <2>3, DepthType
  <2>7. /\ ms \in Seq(Nested[Depth - n]) /\ v = Dict(ms)
        /\ ms \in Seq(Nested[Depth])
        /\ EncodeAll(ms) \in Seq(Byte)
        /\ Encode(v) = <<tagDict>> \o (EncodeAll(ms) \o <<tagEnd>>)
    BY <2>4, <2>5, <2>6, DictOf
  <2>8. PICK o, base : o = offs[n] /\ base = offs[n + 1] OBVIOUS
  <2>9. o \in Nat /\ base \in Nat /\ base = o + 1 + Len(EncodeAll(done))
    <3>1. offs \in Seq(Nat) /\ Len(offs) = n + 1 BY <2>3 DEF Anchored
    <3>2. n \in 1..Len(offs) /\ n + 1 \in 1..Len(offs) BY <2>3, <3>1
    <3>3. offs[n + 1] = offs[n] + 1 + Len(EncodeAll(dicts[n]))
      BY <2>3 DEF Anchored
    <3> QED BY <2>4, <2>8, <3>1, <3>2, <3>3
  <2> HIDE DEF full
  <2>10. /\ At(full, o + 1, EncodeAll(ms))
         /\ Len(Encode(v)) = Len(EncodeAll(ms)) + 2
         /\ o + 1 + Len(EncodeAll(ms)) < Len(full)
         /\ full[o + 1 + Len(EncodeAll(ms)) + 1] = tagEnd
    <3>1. PICK inner \in Seq(Byte) : inner = EncodeAll(ms) BY <2>7
    <3>2. Encode(v) = <<tagDict>> \o (inner \o <<tagEnd>>) BY <2>7, <3>1
    <3>3. At(full, o, <<tagDict>> \o (inner \o <<tagEnd>>))
      BY <2>5, <2>8, <3>2 DEF full
    <3>4. /\ At(full, o + 1, inner)
          /\ Len(<<tagDict>> \o (inner \o <<tagEnd>>)) = Len(inner) + 2
          /\ o + 1 + Len(inner) < Len(full)
          /\ full[o + 1 + Len(inner) + 1] = tagEnd
      BY <1>0, <2>9, <3>3, DictAt
    <3> QED BY <3>1, <3>2, <3>4
  <2>11. PICK k \in Nat : k = Len(done) /\ k <= Len(ms)
    <3>1. done \in Seq(Nested[Depth]) BY <2>3, <2>4
    <3>2. Len(done) \in Nat BY <3>1
    <3> QED BY <2>5, <3>2
  <2>12. k \in 0..Len(ms) /\ Len(ms) \in Nat BY <2>7, <2>11
  <2>13. /\ EncodeAll(done) \in Seq(Byte)
         /\ k = Len(ms) => EncodeAll(done) = EncodeAll(ms)
         /\ k < Len(ms) =>
              /\ ms[k + 1] \in Nested[Depth]
              /\ Encode(ms[k + 1]) \in Seq(Byte)
              /\ At(full, o + 1 + Len(EncodeAll(done)), Encode(ms[k + 1]))
              /\ Len(EncodeAll(done)) + Len(Encode(ms[k + 1])) <= Len(EncodeAll(ms))
    <3>1. o + 1 \in Nat BY <2>9
    <3>2. done = SubSeq(ms, 1, k) BY <2>5, <2>11
    <3> QED BY <1>0, <2>7, <2>10, <2>12, <3>1, <3>2, MemberAt
  <2>14. Parent(vs, path, dicts) = ms /\ Done(dicts, vals) = done
         /\ Due(vs, path, dicts, vals) = ms[k + 1]
    BY <1>2, <2>3, <2>4, <2>11 DEF Parent, Done, Due
  <2>15. Len(EncodeAll(done)) \in Nat /\ Len(EncodeAll(ms)) \in Nat
    BY <2>7, <2>13
  <2>16. Whole(vs, vals) \in Nat
    <3>1. Len(vals) < Len(vs) BY <1>2 DEF Follows
    <3>2. Len(vals) + 1 \in Nat /\ \A i \in 1..Len(vals) + 1 : vs[i] \in Nested[Depth]
      BY <1>0, <3>1
    <3>3. SubSeq(vs, 1, Len(vals) + 1) \in Seq(Nested[Depth])
      BY <3>2, PrefixOf
    <3>4. EncodeAll(SubSeq(vs, 1, Len(vals) + 1)) \in Seq(Byte)
      BY <3>3, EncodeAllAppend
    <3> QED BY <3>4 DEF Whole
  <2>17. ASSUME k < Len(ms)
         PROVE  /\ ms[k + 1] \in Nested[Depth - n]
                /\ ms[k + 1] \in Nested[Depth]
                /\ At(full, base, Encode(ms[k + 1]))
                /\ base + Len(Encode(ms[k + 1])) <= Whole(vs, vals)
    <3>1. k + 1 \in 1..Len(ms) BY <2>12, <2>17
    <3>2. ms[k + 1] \in Nested[Depth - n] BY <2>7, <3>1
    <3>3. Len(Encode(ms[k + 1])) \in Nat BY <2>13, <2>17
    <3>4. base + Len(Encode(ms[k + 1])) <= Whole(vs, vals)
      <4>1. PICK a \in Nat, b \in Nat, w \in Nat, e \in Nat :
              /\ a = Len(EncodeAll(done)) /\ b = Len(EncodeAll(ms))
              /\ w = Whole(vs, vals) /\ e = Len(Encode(ms[k + 1]))
        BY <2>15, <2>16, <3>3
      <4>2. a + e <= b BY <2>13, <2>17, <4>1
      <4>3. base = o + 1 + a /\ o + (b + 2) <= w
        BY <2>5, <2>8, <2>9, <2>10, <4>1
      <4>4. base + e <= w BY <2>9, <4>2, <4>3
      <4> QED BY <4>1, <4>4
    <3> QED BY <2>9, <2>13, <2>17, <3>2, <3>4
  <2>18. ASSUME k = Len(ms)
         PROVE  /\ Dict(done) = v
                /\ base < Len(full) /\ full[base + 1] = tagEnd
                /\ base + 1 <= Whole(vs, vals)
    <3>1. done = ms BY <2>5, <2>7, <2>11, <2>18, SubSeqFull
    <3>2. base = o + 1 + Len(EncodeAll(ms)) BY <2>9, <3>1
    <3>3. base + 1 <= Whole(vs, vals)
      <4>1. PICK b \in Nat, w \in Nat :
              b = Len(EncodeAll(ms)) /\ w = Whole(vs, vals)
        BY <2>15, <2>16
      <4>2. base = o + 1 + b /\ o + (b + 2) <= w
        BY <2>5, <2>8, <2>10, <3>2, <4>1
      <4>3. base + 1 <= w BY <2>9, <4>2
      <4> QED BY <4>1, <4>3
    <3> QED BY <2>7, <2>10, <3>1, <3>2, <3>3
  <2> QED BY <1>2, <2>3, <2>4, <2>5, <2>7, <2>8, <2>9, <2>11, <2>12, <2>14,
             <2>17, <2>18 DEF full, PlaceOf
<1> QED BY <1>1, <1>2

\* The next of the values sent is complete.
LEMMA GiveFollows ==
  ASSUME NEW vs \in Seq(Nested[Depth]), NEW offs, NEW path,
         NEW dicts \in Seq(Seq(Nested[Depth])), Len(dicts) <= Depth,
         NEW vals \in Seq(Nested[Depth]),
         NEW bytes, Anchored(bytes, offs, dicts, vals),
         Follows(vs, offs, path, dicts, vals),
         Len(Done(dicts, vals)) < Len(Parent(vs, path, dicts)),
         NEW size
  PROVE  LET v == Due(vs, path, dicts, vals)
             moved == [offs EXCEPT ![Len(dicts) + 1] = @ + size]
         IN  Follows(vs, moved, path, GivenDicts(v, dicts),
                     GivenValues(v, dicts, vals))
<1> DEFINE v == Due(vs, path, dicts, vals)
           moved == [offs EXCEPT ![Len(dicts) + 1] = @ + size]
<1>0. /\ v \in Nested[Depth]
      /\ Parent(vs, path, dicts) \in Seq(Nested[Depth])
      /\ Len(Done(dicts, vals)) \in 0..Len(Parent(vs, path, dicts))
      /\ Done(dicts, vals) =
           SubSeq(Parent(vs, path, dicts), 1, Len(Done(dicts, vals)))
  <2> DEFINE parent == Parent(vs, path, dicts)
             done == Done(dicts, vals)
             base == offs[Len(dicts) + 1]
  <2>1. /\ base \in Nat
        /\ parent \in Seq(Nested[Depth])
        /\ Len(done) \in 0..Len(parent)
        /\ done = SubSeq(parent, 1, Len(done))
        /\ Len(done) < Len(parent) =>
             /\ v \in Nested[Depth - Len(dicts)] /\ v \in Nested[Depth]
             /\ At(EncodeAll(vs), base, Encode(v))
             /\ base + Len(Encode(v)) <= Whole(vs, vals)
    <3>1. PlaceOf(vs, offs, path, dicts, vals) BY DueAt
    <3> QED BY <3>1 DEF PlaceOf
  <2> HIDE DEF v
  <2> QED BY <2>1
<1>1. CASE dicts = <<>>
  <2>1. Parent(vs, path, dicts) = vs /\ Done(dicts, vals) = vals
        /\ v = vs[Len(vals) + 1]
        /\ GivenDicts(v, dicts) = dicts
        /\ GivenValues(v, dicts, vals) = Append(vals, v)
    BY <1>1 DEF Parent, Done, Due, GivenDicts, GivenValues
  <2>2. PICK k \in Nat : k = Len(vals) OBVIOUS
  <2>3. k < Len(vs) /\ vals = SubSeq(vs, 1, k) /\ v = vs[k + 1]
    BY <1>0, <2>1, <2>2
  <2>4. SubSeq(vs, 1, k + 1) = Append(vals, v)
    BY <2>3, ExtendPrefix
  <2>5. Len(Append(vals, v)) = k + 1 BY <1>0, <2>2, AppendProperties
  <2>6. Len(vs) \in Nat /\ Len(dicts) = 0 BY <1>1
  <2>7. k + 1 <= Len(vs) BY <2>3, <2>6
  <2>8. path \in Seq(Nested[Depth]) /\ Len(path) = Len(dicts) BY DEF Follows
  <2>9. \A i \in 1..Len(dicts) : FALSE BY <2>6
  <2> HIDE DEF v, moved
  <2>10. Follows(vs, moved, path, dicts, Append(vals, v))
    BY <1>1, <2>4, <2>5, <2>7, <2>8, <2>9 DEF Follows
  <2> QED BY <2>1, <2>10 DEF v, moved
<1>2. CASE dicts # <<>>
  <2>1. PICK m \in Nat : Len(dicts) = m + 1 BY <1>2, LastIndex
  <2>2. PICK n : n = m + 1 OBVIOUS
  <2>3. n \in 1..Len(dicts) /\ Len(dicts) = n /\ n \in Nat BY <2>1, <2>2
  <2>4. PICK ms, done : ms = path[n].members /\ done = dicts[n] OBVIOUS
  <2>5. PICK k : k = Len(done) OBVIOUS
  <2>6. Parent(vs, path, dicts) = ms /\ Done(dicts, vals) = done
        /\ v = ms[k + 1]
    BY <1>2, <2>3, <2>4, <2>5 DEF Parent, Done, Due
  <2> DEFINE new == Append(done, v)
             given == Append(Front(dicts), new)
  <2>7. GivenDicts(v, dicts) = given /\ GivenValues(v, dicts, vals) = vals
    BY <1>2, <2>1, <2>2, <2>4 DEF GivenDicts, GivenValues, Last
  <2> HIDE DEF v, moved
  <2>8. ms \in Seq(Nested[Depth]) /\ k \in Nat /\ Len(ms) \in Nat
        /\ k < Len(ms) /\ done = SubSeq(ms, 1, k)
    BY <1>0, <2>5, <2>6
  <2>9. new = SubSeq(ms, 1, k + 1) BY <2>6, <2>8, ExtendPrefix
  <2>10. done \in Seq(Nested[Depth]) BY <2>3, <2>4
  <2>11. new \in Seq(Nested[Depth]) /\ Len(new) = k + 1
    BY <1>0, <2>5, <2>10, AppendProperties
  <2>12. /\ given \in Seq(Seq(Nested[Depth])) /\ Len(given) = n
         /\ \A i \in 1..m : given[i] = dicts[i]
         /\ given[n] = new
    <3>1. PICK T : T = Seq(Nested[Depth]) OBVIOUS
    <3>2. dicts \in Seq(T) /\ new \in T BY <2>11, <3>1
    <3> HIDE DEF new
    <3>3. /\ given \in Seq(T) /\ Len(given) = m + 1
          /\ \A i \in 1..m : given[i] = dicts[i]
          /\ given[m + 1] = new
      <4>1. PICK x \in T : x = new BY <3>2
      <4>2. /\ Append(Front(dicts), x) \in Seq(T)
            /\ Len(Append(Front(dicts), x)) = m + 1
            /\ \A i \in 1..m : Append(Front(dicts), x)[i] = dicts[i]
            /\ Append(Front(dicts), x)[m + 1] = x
        BY <2>1, <3>2, ReplaceLast
      <4> QED BY <4>1, <4>2
    <3> QED BY <2>2, <3>1, <3>3
  <2> HIDE DEF new, given
  <2>13. \A i \in 1..n : moved[i] = offs[i]
    <3>1. offs \in Seq(Nat) /\ Len(offs) = n + 1 BY <2>3 DEF Anchored
    <3>2. \A i \in 1..n : i # Len(dicts) + 1 /\ i \in 1..Len(offs)
      BY <2>3, <3>1
    <3>3. moved = [offs EXCEPT ![Len(dicts) + 1] = offs[Len(dicts) + 1] + size]
      BY DEF moved
    <3> QED BY <3>1, <3>2, <3>3
  <2>14. ASSUME NEW i \in 1..n
         PROVE  /\ path[i] \in Nested[Depth - (i - 1)] /\ path[i].kind = tagDict
                /\ Len(given[i]) <= Len(path[i].members)
                /\ given[i] = SubSeq(path[i].members, 1, Len(given[i]))
                /\ At(EncodeAll(vs), moved[i], Encode(path[i]))
                /\ moved[i] + Len(Encode(path[i])) <= Whole(vs, vals)
    <3>1. /\ path[i] \in Nested[Depth - (i - 1)] /\ path[i].kind = tagDict
          /\ Len(dicts[i]) <= Len(path[i].members)
          /\ dicts[i] = SubSeq(path[i].members, 1, Len(dicts[i]))
          /\ At(EncodeAll(vs), offs[i], Encode(path[i]))
          /\ offs[i] + Len(Encode(path[i])) <= Whole(vs, vals)
      BY <2>3 DEF Follows
    <3>2. CASE i \in 1..m BY <2>12, <2>13, <3>1, <3>2
    <3>3. CASE i = n
      <4>1. k + 1 <= Len(ms) BY <2>8
      <4>2. given[i] = new /\ path[i].members = ms BY <2>4, <2>12, <3>3
      <4> QED BY <2>9, <2>11, <2>13, <3>1, <4>1, <4>2
    <3> QED BY <2>2, <3>2, <3>3
  <2>15. ASSUME NEW i \in 1..n, NEW j \in 1..n, j = i + 1
         PROVE  /\ Len(given[i]) < Len(path[i].members)
                /\ path[j] = path[i].members[Len(given[i]) + 1]
    <3>1. i \in 1..m BY <2>2, <2>15
    <3>2. given[i] = dicts[i] BY <2>12, <3>1
    <3> QED BY <2>3, <2>15, <3>2 DEF Follows
  <2>16. /\ path \in Seq(Nested[Depth]) /\ Len(path) = n
         /\ Len(vals) <= Len(vs) /\ vals = SubSeq(vs, 1, Len(vals))
         /\ Len(vals) < Len(vs) /\ path[1] = vs[Len(vals) + 1]
    BY <1>2, <2>3 DEF Follows
  <2>17. Follows(vs, moved, path, given, vals)
    BY <2>12, <2>14, <2>15, <2>16 DEF Follows
  <2> QED BY <2>7, <2>17 DEF v, moved
<1> QED BY <1>1, <1>2

\* The innermost dict is taken off: the value around it is followed as before.
LEMMA FrontAnchored ==
  ASSUME NEW bytes, NEW offs, NEW dicts \in Seq(Seq(Nested[Depth])),
         dicts # <<>>, NEW vals, Anchored(bytes, offs, dicts, vals)
  PROVE  /\ Anchored(bytes, Front(offs), Front(dicts), vals)
         /\ \A i \in 1..Len(dicts) : Front(offs)[i] = offs[i]
         /\ Len(Front(dicts)) + 1 = Len(dicts)
<1>1. PICK m \in Nat : Len(dicts) = m + 1 BY LastIndex
<1>2. /\ Len(Front(dicts)) = m
      /\ \A i \in 1..m : Front(dicts)[i] = dicts[i]
  <2>1. PICK T : T = Seq(Nested[Depth]) OBVIOUS
  <2>2. dicts \in Seq(T) BY <2>1
  <2> QED BY <1>1, <2>2, FrontLast
<1>3. offs \in Seq(Nat) /\ Len(offs) = (m + 1) + 1 /\ m + 1 \in Nat
  BY <1>1 DEF Anchored
<1>4. /\ Front(offs) \in Seq(Nat) /\ Len(Front(offs)) = m + 1
      /\ \A i \in 1..m + 1 : Front(offs)[i] = offs[i]
  BY <1>3, FrontLast
<1>5. ASSUME NEW i \in 1..m
      PROVE  /\ At(bytes, Front(offs)[i], <<tagDict>> \o EncodeAll(Front(dicts)[i]))
             /\ Front(offs)[i + 1] =
                  Front(offs)[i] + 1 + Len(EncodeAll(Front(dicts)[i]))
  <2>1. i \in 1..Len(dicts) /\ i \in 1..m + 1 /\ i + 1 \in 1..m + 1 BY <1>1
  <2>2. /\ At(bytes, offs[i], <<tagDict>> \o EncodeAll(dicts[i]))
        /\ offs[i + 1] = offs[i] + 1 + Len(EncodeAll(dicts[i]))
    BY <2>1 DEF Anchored
  <2> QED BY <1>2, <1>4, <2>1, <2>2
<1>6. Front(offs)[1] = offs[1]
  <2>1. 1 \in 1..m + 1 OBVIOUS
  <2> QED BY <1>4, <2>1
<1>7. Anchored(bytes, Front(offs), Front(dicts), vals)
  BY <1>2, <1>4, <1>5, <1>6, Zenon DEF Anchored
<1> QED BY <1>1, <1>2, <1>4, <1>7

LEMMA FrontFollows ==
  ASSUME NEW vs \in Seq(Nested[Depth]), NEW offs, NEW path,
         NEW dicts \in Seq(Seq(Nested[Depth])), dicts # <<>>,
         NEW vals \in Seq(Nested[Depth]),
         NEW bytes, Anchored(bytes, offs, dicts, vals),
         Follows(vs, offs, path, dicts, vals)
  PROVE  LET outer == Front(dicts)
             around == Front(path)
         IN  /\ Follows(vs, Front(offs), around, outer, vals)
             /\ Len(Done(outer, vals)) < Len(Parent(vs, around, outer))
             /\ Due(vs, around, outer, vals) = path[Len(dicts)]
<1> DEFINE outer == Front(dicts)
           around == Front(path)
<1>1. PICK m \in Nat : Len(dicts) = m + 1 BY LastIndex
<1>2. /\ Len(outer) = m
      /\ \A i \in 1..m : outer[i] = dicts[i]
  <2>1. PICK T : T = Seq(Nested[Depth]) OBVIOUS
  <2>2. dicts \in Seq(T) BY <2>1
  <2> QED BY <1>1, <2>2, FrontLast
<1>3. /\ around \in Seq(Nested[Depth]) /\ Len(around) = m
      /\ \A i \in 1..m : around[i] = path[i]
  <2>1. PICK T : T = Nested[Depth] OBVIOUS
  <2>2. path \in Seq(T) /\ Len(path) = m + 1 BY <1>1, <2>1 DEF Follows
  <2>3. /\ around \in Seq(T) /\ Len(around) = m
        /\ \A i \in 1..m : around[i] = path[i]
    BY <2>2, FrontLast
  <2> QED BY <2>1, <2>3
<1>4. \A i \in 1..m + 1 : Front(offs)[i] = offs[i] BY <1>1, FrontAnchored
<1>5. /\ Len(vals) <= Len(vs) /\ vals = SubSeq(vs, 1, Len(vals))
      /\ Len(vals) < Len(vs) /\ path[1] = vs[Len(vals) + 1]
  BY DEF Follows
<1> HIDE DEF outer, around
<1>6. ASSUME NEW i \in 1..m
      PROVE  /\ around[i] \in Nested[Depth - (i - 1)] /\ around[i].kind = tagDict
             /\ Len(outer[i]) <= Len(around[i].members)
             /\ outer[i] = SubSeq(around[i].members, 1, Len(outer[i]))
             /\ At(EncodeAll(vs), Front(offs)[i], Encode(around[i]))
             /\ Front(offs)[i] + Len(Encode(around[i])) <= Whole(vs, vals)
  <2>1. i \in 1..Len(dicts) /\ i \in 1..m + 1 BY <1>1
  <2>2. /\ path[i] \in Nested[Depth - (i - 1)] /\ path[i].kind = tagDict
        /\ Len(dicts[i]) <= Len(path[i].members)
        /\ dicts[i] = SubSeq(path[i].members, 1, Len(dicts[i]))
        /\ At(EncodeAll(vs), offs[i], Encode(path[i]))
        /\ offs[i] + Len(Encode(path[i])) <= Whole(vs, vals)
    BY <2>1 DEF Follows
  <2> QED BY <1>2, <1>3, <1>4, <2>1, <2>2
<1>7. ASSUME NEW i \in 1..m, NEW j \in 1..Len(dicts), j = i + 1
      PROVE  /\ Len(outer[i]) < Len(around[i].members)
             /\ path[j] = around[i].members[Len(outer[i]) + 1]
  <2>1. i \in 1..Len(dicts) BY <1>1
  <2>2. /\ Len(dicts[i]) < Len(path[i].members)
        /\ path[j] = path[i].members[Len(dicts[i]) + 1]
    BY <1>7, <2>1 DEF Follows
  <2> QED BY <1>2, <1>3, <2>2
<1>8. ASSUME NEW i \in 1..m, NEW j \in 1..m, j = i + 1
      PROVE  /\ Len(outer[i]) < Len(around[i].members)
             /\ around[j] = around[i].members[Len(outer[i]) + 1]
  <2>1. j \in 1..Len(dicts) BY <1>1
  <2> QED BY <1>3, <1>7, <1>8, <2>1
<1>9. outer # <<>> => around[1] = vs[Len(vals) + 1]
  <2>1. outer # <<>> => m # 0
    <3>1. \A T : dicts \in Seq(T) => outer \in Seq(T) BY <1>1, FrontLast DEF outer
    <3>2. outer \in Seq(Seq(Nested[Depth])) BY <3>1
    <3> QED BY <1>2, <3>2, EmptySeq
  <2>2. m # 0 => 1 \in 1..m OBVIOUS
  <2> QED BY <1>3, <1>5, <2>1, <2>2
<1>10. Follows(vs, Front(offs), around, outer, vals)
  BY <1>2, <1>3, <1>5, <1>6, <1>8, <1>9 DEF Follows
<1>11. CASE outer = <<>>
  <2>1. m = 0 BY <1>2, <1>11
  <2>2. path[Len(dicts)] = vs[Len(vals) + 1] BY <1>1, <1>5, <2>1
  <2>3. Parent(vs, around, outer) = vs /\ Done(outer, vals) = vals
        /\ Due(vs, around, outer, vals) = vs[Len(vals) + 1]
    BY <1>11 DEF Parent, Done, Due
  <2> QED BY <1>5, <1>10, <2>2, <2>3 DEF outer, around
<1>12. CASE outer # <<>>
  <2>1. m # 0
    <3>1. \A T : dicts \in Seq(T) => outer \in Seq(T) BY <1>1, FrontLast DEF outer
    <3>2. outer \in Seq(Seq(Nested[Depth])) BY <3>1
    <3> QED BY <1>2, <1>12, <3>2, EmptySeq
  <2>2. m \in 1..m /\ m + 1 \in 1..Len(dicts) BY <1>1, <2>1
  <2>3. PICK j \in 1..Len(dicts) : j = m + 1 BY <2>2
  <2>4. /\ Len(outer[m]) < Len(around[m].members)
        /\ path[j] = around[m].members[Len(outer[m]) + 1]
    BY <1>7, <2>2, <2>3
  <2>5. path[Len(dicts)] = path[j] BY <1>1, <2>3
  <2>6. Parent(vs, around, outer) = around[m].members
        /\ Done(outer, vals) = outer[m]
        /\ Due(vs, around, outer, vals) = around[m].members[Len(outer[m]) + 1]
    BY <1>2, <1>12 DEF Parent, Done, Due
  <2> QED BY <1>10, <2>4, <2>5, <2>6 DEF outer, around
<1> QED BY <1>11, <1>12

----------------------------------------------------------------------------
(* The parser and the stream.                                              *)

LEMMA NumberInjective ==
  ASSUME NEW s \in Seq(Byte), NEW t \in Seq(Byte), Len(s) = Len(t),
         Len(s) = 1 \/ Len(s) = 2, Number(s) = Number(t)
  PROVE  s = t
<1>1. \A i \in 1..Len(s) : s[i] = t[i]
  <2>1. CASE Len(s) = 1
    <3>1. s[1] = t[1] BY <2>1 DEF Number
    <3> QED BY <2>1, <3>1
  <2>2. CASE Len(s) = 2
    <3>1. 1 \in 1..Len(s) /\ 2 \in 1..Len(s) BY <2>2
    <3>2. PICK a, b \in Byte : a = s[1] /\ b = s[2] BY <3>1
    <3>3. PICK c, d \in Byte : c = t[1] /\ d = t[2] BY <3>1
    <3>4. a * 256 + b = c * 256 + d BY <2>2, <3>2, <3>3 DEF Number
    <3>5. a \in 0..255 /\ b \in 0..255 /\ c \in 0..255 /\ d \in 0..255
      BY DEF Byte
    <3>6. a = c /\ b = d BY <3>4, <3>5
    <3>7. s[1] = t[1] /\ s[2] = t[2] BY <3>2, <3>3, <3>6
    <3>8. \A i \in 1..2 : i = 1 \/ i = 2 OBVIOUS
    <3> QED BY <2>2, <3>7, <3>8
  <2> QED BY <2>1, <2>2
<1> QED BY <1>1, SeqEqual

\* An encoding starts with its kind.
LEMMA EncodedKind ==
  ASSUME NEW v \in Nested[Depth]
  PROVE  /\ v.kind \in {tagDict, tagBytes, tagString, tagInt}
         /\ v.kind # tagDict => v \in Blobs \cup Ints
         /\ \A bytes \in Seq(Byte), off \in Nat :
              At(bytes, off, Encode(v)) =>
                off < Len(bytes) /\ bytes[off + 1] = v.kind
         /\ Len(Encode(v)) > 0
<1>1. Depth \in 0..Depth BY DepthType
<1>2. /\ v.kind \in {tagDict, tagBytes, tagString, tagInt}
      /\ v.kind # tagDict => v \in Blobs \cup Ints
      /\ \E rest \in Seq(Byte) : Encode(v) = <<v.kind>> \o rest
  <2>1. CASE v \in Blobs \cup Ints
    <3>1. Size(v) \in Seq(Byte) /\ Body(v) \in Seq(Byte)
      BY <2>1, ScalarEncoded
    <3>2. Size(v) \o Body(v) \in Seq(Byte) BY <3>1, ConcatProperties
    <3>3. Encode(v) = <<v.kind>> \o (Size(v) \o Body(v))
      BY <2>1, EncodeScalar
    <3> QED BY <2>1, <3>2, <3>3, ScalarKind
  <2>2. CASE Depth > 0 /\ v.members \in Pairs(Nested[Depth - 1])
             /\ v = Dict(v.members)
    <3>1. Depth \in 1..Depth BY <2>2, DepthType
    <3>2. v.kind = tagDict BY <2>2, KindOf
    <3>3. /\ EncodeAll(v.members) \in Seq(Byte)
          /\ Encode(v) = <<tagDict>> \o (EncodeAll(v.members) \o <<tagEnd>>)
      BY <3>1, <3>2, DictOf
    <3>4. EncodeAll(v.members) \o <<tagEnd>> \in Seq(Byte)
      <4>1. <<tagEnd>> \in Seq(Byte) BY DEF tagEnd, Byte
      <4> QED BY <3>3, <4>1, ConcatProperties
    <3> QED BY <3>2, <3>3, <3>4
  <2> QED BY <1>1, <2>1, <2>2, NestedCases
<1>3. PICK rest \in Seq(Byte) : Encode(v) = <<v.kind>> \o rest BY <1>2
<1>4. PICK a : a = <<v.kind>> OBVIOUS
<1>5. a \in Seq(Byte) /\ Len(a) = 1
  <2>1. v.kind \in Byte
    BY <1>2 DEF tagDict, tagBytes, tagString, tagInt, Byte
  <2> QED BY <1>4, <2>1
<1>6. ASSUME NEW bytes \in Seq(Byte), NEW off \in Nat,
             At(bytes, off, Encode(v))
      PROVE  off < Len(bytes) /\ bytes[off + 1] = v.kind
  <2>1. Encode(v) = a \o rest BY <1>3, <1>4
  <2>2. At(bytes, off, a \o rest) BY <1>6, <2>1
  <2>3. At(bytes, off, a) BY <1>5, <2>2, AtConcat
  <2> QED BY <1>4, <2>3, AtByte
<1>7. Len(Encode(v)) = Len(a) + Len(rest)
  BY <1>3, <1>4, <1>5, ConcatProperties
<1>8. Len(Encode(v)) > 0
  <2>1. Len(rest) \in Nat OBVIOUS
  <2> QED BY <1>5, <1>7, <2>1
<1> QED BY <1>2, <1>6, <1>8

\* What of the value being read has been consumed.
Pending(base) ==
  CASE ask = "tag" -> pos = base
    [] ask \in {"size", "length"} ->
         pos = base + 1 /\ pos <= Len(stream) /\ stream[base + 1] = tag
    [] ask = "body" ->
         \E size \in Seq(Byte) :
           /\ At(stream, base, <<tag>> \o size) /\ pos = base + 1 + Len(size)
           /\ Number(size) = want /\ Len(size) = IF tag = tagInt THEN 1 ELSE 2

\* Every byte consumed belongs to a value returned, to an open dict, or to the
\* value being read; and where it is known what was sent, that is the next of
\* the values sent.
Tracked(offs, path) ==
  /\ Anchored(stream, offs, open, values)
  /\ Pending(offs[Len(open) + 1])
  /\ sent # <<>> =>
       /\ Follows(sent, offs, path, open, values)
       /\ ask # "tag" =>
            /\ Len(Done(open, values)) < Len(Parent(sent, path, open))
            /\ Due(sent, path, open, values).kind = tag

Placed ==
  /\ sent \in Seq(Nested[Depth])
  /\ sent # <<>> =>
       /\ ~padded /\ At(EncodeAll(sent), 0, stream)
       /\ end \in {"clean", "error"} => ~Got(want)
       /\ end = "error" => pos # Len(stream)
  /\ sent # <<>> \/ (~padded /\ end = "no") =>
       \E offs, path : Tracked(offs, path)

LEMMA InitPlaced ==
  ASSUME Init
  PROVE  Placed
<1>1. PICK i \in Inputs : sent = i[1] /\ stream = i[2] BY DEF Init
<1>2. sent \in Seq(Nested[Depth]) /\ stream \in Seq(Byte)
  BY <1>1, InputType
<1>3. sent # <<>> => At(EncodeAll(sent), 0, stream)
  <2> SUFFICES ASSUME sent # <<>> PROVE At(EncodeAll(sent), 0, stream)
    OBVIOUS
  <2>1. EncodeAll(sent) \in Seq(Byte) BY <1>2, EncodeAllAppend
  <2>2. IsPrefix(stream, EncodeAll(sent)) BY <1>1, InputType
  <2>3. /\ Len(stream) <= Len(EncodeAll(sent))
        /\ \A k \in 1..Len(stream) : stream[k] = EncodeAll(sent)[k]
    <3>1. PICK n \in Nat : n = Len(stream) BY <1>2
    <3>2. PICK full \in Seq(Byte) : full = EncodeAll(sent) BY <2>1
    <3>3. n <= Len(full) /\ SubSeq(stream, 1, n) = SubSeq(full, 1, n)
      BY <2>2, <3>1, <3>2 DEF IsPrefix
    <3>4. \A k \in 1..n : /\ SubSeq(stream, 1, n)[k] = stream[k]
                         /\ SubSeq(full, 1, n)[k] = full[k]
      BY <1>2, <3>1, <3>3
    <3> QED BY <3>1, <3>2, <3>3, <3>4
  <2>4. Len(stream) \in Nat /\ \A k \in 1..Len(stream) : 0 + k = k BY <1>2
  <2> QED BY <2>3, <2>4 DEF At
<1>4. open = <<>> /\ values = <<>> /\ pos = 0 /\ ask = "tag" /\ ~padded
      /\ end = "no"
  BY DEF Init
<1>5. Tracked(<<0>>, <<>>)
  <2>1. EncodeAll(<<>>) = <<>> BY EncodeAllAppend
  <2>2. At(stream, 0, <<>>) BY <1>2 DEF At
  <2>3. Anchored(stream, <<0>>, open, values)
    BY <1>4, <2>1, <2>2 DEF Anchored
  <2>4. <<0>>[Len(open) + 1] = 0 BY <1>4
  <2>5. Pending(<<0>>[Len(open) + 1]) BY <1>4, <2>4 DEF Pending
  <2>6. SubSeq(sent, 1, 0) = <<>> /\ Len(sent) >= 0 BY <1>2
  <2>7. Follows(sent, <<0>>, <<>>, open, values)
    BY <1>4, <2>6 DEF Follows
  <2> QED BY <1>4, <2>3, <2>5, <2>7 DEF Tracked
<1> QED BY <1>2, <1>3, <1>4, <1>5 DEF Placed

\* A complete value is accounted for.
LEMMA GiveTracked ==
  ASSUME NEW dicts \in Seq(Seq(Nested[Depth])), Len(dicts) <= Depth,
         sent \in Seq(Nested[Depth]), values \in Seq(Nested[Depth]),
         stream \in Seq(Byte), NEW offs, NEW path, NEW v \in Nested[Depth],
         Anchored(stream, offs, dicts, values),
         At(stream, offs[Len(dicts) + 1], Encode(v)),
         sent # <<>> =>
           /\ Follows(sent, offs, path, dicts, values)
           /\ Len(Done(dicts, values)) < Len(Parent(sent, path, dicts))
           /\ Due(sent, path, dicts, values) = v,
         Give(v, dicts), UNCHANGED <<sent, stream>>, ask' = "tag",
         pos' = offs[Len(dicts) + 1] + Len(Encode(v)),
         Len(open') = Len(dicts)
  PROVE  \E o, p : Tracked(o, p)'
<1> DEFINE n == Len(dicts) + 1
<1>1. PICK size : size = Len(Encode(v)) OBVIOUS
<1>2. PICK moved : moved = [offs EXCEPT ![n] = @ + size] OBVIOUS
<1>3. open' = GivenDicts(v, dicts) /\ values' = GivenValues(v, dicts, values)
  BY DEF Give, GivenDicts, GivenValues
<1>4. Anchored(stream, moved, open', values')
  BY <1>1, <1>2, <1>3, GiveAnchored
<1>5. moved[n] = offs[n] + size
  <2>1. offs \in Seq(Nat) /\ Len(offs) = n BY DEF Anchored
  <2>2. n \in 1..n OBVIOUS
  <2> QED BY <1>2, <2>1, <2>2
<1>6. moved[Len(open') + 1] = pos' BY <1>1, <1>5
<1>7. ASSUME sent # <<>> PROVE Follows(sent, moved, path, open', values')
  BY <1>2, <1>3, <1>7, GiveFollows
<1>8. Tracked(moved, path)'
  BY <1>4, <1>6, <1>7 DEF Tracked, Pending
<1> QED BY <1>8

\* What the byte read for a tag is, of a stream whose values are known.
LEMMA TagRead ==
  ASSUME Typed, Placed, Reading("tag"), sent # <<>>,
         NEW offs, NEW path, Tracked(offs, path)
  PROVE  /\ PlaceOf(sent, offs, path, open, values)
         /\ Len(Done(open, values)) < Len(Parent(sent, path, open)) =>
              Bytes[1] = Due(sent, path, open, values).kind
         /\ ~(Len(Done(open, values)) < Len(Parent(sent, path, open))) =>
              Bytes[1] = tagEnd /\ open # <<>>
              /\ Dict(Done(open, values)) = path[Len(open)]
<1>1. /\ open \in Seq(Seq(Nested[Depth])) /\ values \in Seq(Nested[Depth])
      /\ want = 1 /\ stream \in Seq(Byte)
  BY DEF Typed, TypeOK, Reading
<1>2. /\ pos \in Nat /\ pos < Len(stream) /\ Bytes[1] = stream[pos + 1]
      /\ Len(open) <= Depth
  <2>1. Got(1) /\ pos \in Nat /\ Len(stream) \in Nat /\ Len(open) <= Depth
    BY <1>1, OpenRoom DEF Reading
  <2>2. pos < Len(stream) BY <2>1 DEF Got
  <2> QED BY <1>1, <2>1, <2>2, GotBytes DEF Reading
<1>3. PICK full \in Seq(Byte) : full = EncodeAll(sent)
  BY EncodeAllAppend DEF Placed
<1>4. pos < Len(full) /\ full[pos + 1] = Bytes[1]
  <2>1. At(full, 0, stream) BY <1>3 DEF Placed
  <2>2. pos + 1 \in 1..Len(stream) /\ Len(full) \in Nat /\ Len(stream) \in Nat
        /\ 0 + (pos + 1) = pos + 1
    BY <1>2
  <2> QED BY <1>2, <2>1, <2>2 DEF At
<1>5. PlaceOf(sent, offs, path, open, values)
  BY <1>1, <1>2, DueAt DEF Tracked, Placed
<1>6. offs[Len(open) + 1] = pos BY DEF Tracked, Pending, Reading
<1>7. /\ Len(Done(open, values)) \in Nat
      /\ Len(Parent(sent, path, open)) \in Nat
      /\ Len(Done(open, values)) <= Len(Parent(sent, path, open))
  BY <1>5 DEF PlaceOf
<1>8. CASE Len(Done(open, values)) < Len(Parent(sent, path, open))
  <2>1. /\ Due(sent, path, open, values) \in Nested[Depth]
        /\ At(full, pos, Encode(Due(sent, path, open, values)))
    BY <1>3, <1>5, <1>6, <1>8 DEF PlaceOf
  <2>2. Bytes[1] = Due(sent, path, open, values).kind
    BY <1>2, <1>4, <2>1, EncodedKind
  <2> QED BY <1>5, <1>8, <2>2
<1>9. CASE ~(Len(Done(open, values)) < Len(Parent(sent, path, open)))
  <2>1. Len(Done(open, values)) = Len(Parent(sent, path, open))
    BY <1>7, <1>9
  <2>2. open # <<>>
    <3> SUFFICES ASSUME open = <<>> PROVE FALSE OBVIOUS
    <3>1. pos = Len(full) BY <1>3, <1>5, <1>6, <2>1 DEF PlaceOf
    <3>2. Len(full) \in Nat OBVIOUS
    <3> QED BY <1>4, <3>1, <3>2
  <2>3. full[pos + 1] = tagEnd /\ Dict(Done(open, values)) = path[Len(open)]
    BY <1>3, <1>5, <1>6, <2>1, <2>2 DEF PlaceOf
  <2> QED BY <1>4, <1>5, <1>9, <2>2, <2>3
<1> QED BY <1>8, <1>9

LEMMA AppendAt ==
  ASSUME NEW S, NEW s \in Seq(S), NEW n \in Nat, Len(s) = n, NEW x \in S
  PROVE  /\ Append(s, x) \in Seq(S) /\ Len(Append(s, x)) = n + 1
         /\ \A i \in 1..n : Append(s, x)[i] = s[i]
         /\ Append(s, x)[n + 1] = x
BY AppendProperties

\* A dict is opened where the next value is.
LEMMA OpenAnchored ==
  ASSUME NEW bytes \in Seq(Byte), NEW dicts \in Seq(Seq(Nested[Depth])),
         NEW vals \in Seq(Nested[Depth]), NEW offs,
         Anchored(bytes, offs, dicts, vals), NEW base \in Nat,
         offs[Len(dicts) + 1] = base, At(bytes, base, <<tagDict>>)
  PROVE  /\ Anchored(bytes, Append(offs, base + 1), Append(dicts, <<>>), vals)
         /\ Len(Append(dicts, <<>>)) = Len(dicts) + 1
<1>0. base < Len(bytes) /\ bytes[base + 1] = tagDict BY AtByte
<1>1. PICK n \in Nat : n = Len(dicts) OBVIOUS
<1>2. PICK k \in Nat : k = n + 1 OBVIOUS
<1>3. PICK os : os = Append(offs, base + 1) OBVIOUS
<1>4. PICK ds : ds = Append(dicts, <<>>) OBVIOUS
<1>5. offs \in Seq(Nat) /\ Len(offs) = k BY <1>1, <1>2 DEF Anchored
<1>6. /\ os \in Seq(Nat) /\ Len(os) = k + 1
      /\ \A i \in 1..k : os[i] = offs[i]
      /\ os[k + 1] = base + 1
  BY <1>3, <1>5, AppendAt
<1>7. /\ Len(ds) = k
      /\ \A i \in 1..n : ds[i] = dicts[i]
      /\ ds[k] = <<>>
  <2>1. PICK T : T = Seq(Nested[Depth]) OBVIOUS
  <2>2. dicts \in Seq(T) /\ <<>> \in T BY <2>1
  <2> QED BY <1>1, <1>2, <1>4, <2>2, AppendAt
<1>8. ASSUME NEW i \in 1..k
      PROVE  /\ At(bytes, os[i], <<tagDict>> \o EncodeAll(ds[i]))
             /\ os[i + 1] = os[i] + 1 + Len(EncodeAll(ds[i]))
  <2>1. CASE i \in 1..n
    <3>1. /\ At(bytes, offs[i], <<tagDict>> \o EncodeAll(dicts[i]))
          /\ offs[i + 1] = offs[i] + 1 + Len(EncodeAll(dicts[i]))
      BY <1>1, <2>1 DEF Anchored
    <3>2. i \in 1..k /\ i + 1 \in 1..k BY <1>2, <2>1
    <3> QED BY <1>6, <1>7, <2>1, <3>1, <3>2
  <2>2. CASE i = k
    <3>1. EncodeAll(ds[i]) = <<>> /\ Len(EncodeAll(ds[i])) = 0
      BY <1>7, <2>2, EncodeAllAppend
    <3>2. os[i] = base /\ os[i + 1] = base + 1 BY <1>1, <1>2, <1>6, <2>2
    <3>3. At(bytes, base + 1, <<>>) BY DEF At
    <3>4. At(bytes, base, <<tagDict>> \o EncodeAll(<<>>))
      <4>1. EncodeAll(<<>>) = <<>> BY EncodeAllAppend
      <4>2. <<>> \in Seq(Nested[Depth]) OBVIOUS
      <4>3. At(bytes, base, <<tagDict>> \o EncodeAll(<<>>)) <=>
              /\ base < Len(bytes) /\ bytes[base + 1] = tagDict
              /\ At(bytes, base + 1, EncodeAll(<<>>))
        BY <4>2, DictPrefixAt
      <4> QED BY <1>0, <3>3, <4>1, <4>3
    <3> QED BY <1>7, <2>2, <3>1, <3>2, <3>4
  <2> QED BY <1>2, <2>1, <2>2
<1>9. os[1] = offs[1]
  <2>1. 1 \in 1..k BY <1>2
  <2> QED BY <1>6, <2>1
<1>10. Anchored(bytes, os, ds, vals)
  <2>1. offs[1] = Len(EncodeAll(vals)) /\ At(bytes, 0, EncodeAll(vals))
    BY DEF Anchored
  <2> QED BY <1>6, <1>7, <1>8, <1>9, <2>1, Zenon DEF Anchored
<1> QED BY <1>1, <1>2, <1>3, <1>4, <1>6, <1>7, <1>10

LEMMA OpenFollows ==
  ASSUME NEW vs \in Seq(Nested[Depth]), NEW offs, NEW path,
         NEW dicts \in Seq(Seq(Nested[Depth])), Len(dicts) < Depth,
         NEW vals \in Seq(Nested[Depth]),
         NEW bytes, Anchored(bytes, offs, dicts, vals),
         Follows(vs, offs, path, dicts, vals),
         Len(Done(dicts, vals)) < Len(Parent(vs, path, dicts)),
         Due(vs, path, dicts, vals).kind = tagDict, NEW past \in Nat
  PROVE  Follows(vs, Append(offs, past), Append(path, Due(vs, path, dicts, vals)),
                 Append(dicts, <<>>), vals)
<1>1. PICK n \in Nat : n = Len(dicts) OBVIOUS
<1>2. PICK k \in Nat : k = n + 1 OBVIOUS
<1>3. PICK due : due = Due(vs, path, dicts, vals) OBVIOUS
<1>4. PICK os, ds, ps : os = Append(offs, past) /\ ds = Append(dicts, <<>>)
                        /\ ps = Append(path, due)
  OBVIOUS
<1>5. offs \in Seq(Nat) /\ Len(offs) = k BY <1>1, <1>2 DEF Anchored
<1>6. \A i \in 1..k : os[i] = offs[i] BY <1>4, <1>5, AppendAt
<1>7. /\ Len(ds) = k
      /\ \A i \in 1..n : ds[i] = dicts[i]
      /\ ds[k] = <<>>
  <2>1. PICK T : T = Seq(Nested[Depth]) OBVIOUS
  <2>2. dicts \in Seq(T) /\ <<>> \in T BY <2>1
  <2> QED BY <1>1, <1>2, <1>4, <2>2, AppendAt
<1>8. /\ due \in Nested[Depth - n] /\ due \in Nested[Depth]
      /\ due.kind = tagDict
      /\ At(EncodeAll(vs), offs[k], Encode(due))
      /\ offs[k] + Len(Encode(due)) <= Whole(vs, vals)
  <2>1. Len(dicts) <= Depth BY <1>1, DepthType
  <2>2. PlaceOf(vs, offs, path, dicts, vals) BY <2>1, DueAt
  <2> QED BY <1>1, <1>2, <1>3, <2>2 DEF PlaceOf
<1>9. /\ ps \in Seq(Nested[Depth]) /\ Len(ps) = k
      /\ \A i \in 1..n : ps[i] = path[i]
      /\ ps[k] = due
  <2>1. PICK T : T = Nested[Depth] OBVIOUS
  <2>2. path \in Seq(T) /\ Len(path) = n /\ due \in T
    BY <1>1, <1>8, <2>1 DEF Follows
  <2> QED BY <1>2, <1>4, <2>1, <2>2, AppendAt
<1>10. Len(vals) < Len(vs) /\ ps[1] = vs[Len(vals) + 1]
  <2>1. CASE dicts = <<>>
    <3>1. Parent(vs, path, dicts) = vs /\ Done(dicts, vals) = vals
          /\ due = vs[Len(vals) + 1]
      BY <1>3, <2>1 DEF Parent, Done, Due
    <3>2. k = 1 BY <1>1, <1>2, <2>1
    <3> QED BY <1>9, <3>1, <3>2
  <2>2. CASE dicts # <<>>
    <3>1. n # 0 BY <1>1, <2>2, EmptySeq
    <3>2. 1 \in 1..n BY <3>1
    <3> QED BY <1>9, <2>2, <3>2 DEF Follows
  <2> QED BY <2>1, <2>2
<1>11. ASSUME NEW i \in 1..k
       PROVE  /\ ps[i] \in Nested[Depth - (i - 1)] /\ ps[i].kind = tagDict
              /\ Len(ds[i]) <= Len(ps[i].members)
              /\ ds[i] = SubSeq(ps[i].members, 1, Len(ds[i]))
              /\ At(EncodeAll(vs), os[i], Encode(ps[i]))
              /\ os[i] + Len(Encode(ps[i])) <= Whole(vs, vals)
  <2>1. CASE i \in 1..n
    <3>1. /\ path[i] \in Nested[Depth - (i - 1)] /\ path[i].kind = tagDict
          /\ Len(dicts[i]) <= Len(path[i].members)
          /\ dicts[i] = SubSeq(path[i].members, 1, Len(dicts[i]))
          /\ At(EncodeAll(vs), offs[i], Encode(path[i]))
          /\ offs[i] + Len(Encode(path[i])) <= Whole(vs, vals)
      BY <1>1, <2>1 DEF Follows
    <3> QED BY <1>6, <1>7, <1>9, <2>1, <3>1
  <2>2. CASE i = k
    <3>1. PICK ms : ms = due.members OBVIOUS
    <3>2. ms \in Seq(Nested[Depth])
      <4>1. Depth \in 1..Depth BY <1>1, DepthType
      <4> QED BY <1>8, <3>1, <4>1, DictOf
    <3>3. Len(<<>>) = 0 /\ 0 <= Len(ms) /\ <<>> = SubSeq(ms, 1, 0)
      BY <3>2
    <3>4. i - 1 = n BY <1>2, <2>2
    <3> QED BY <1>6, <1>7, <1>8, <1>9, <2>2, <3>1, <3>3, <3>4
  <2> QED BY <1>2, <2>1, <2>2
<1>12. ASSUME NEW i \in 1..k, NEW j \in 1..k, j = i + 1
       PROVE  /\ Len(ds[i]) < Len(ps[i].members)
              /\ ps[j] = ps[i].members[Len(ds[i]) + 1]
  <2>1. i \in 1..n BY <1>2, <1>12
  <2>2. CASE j \in 1..n
    <3>1. /\ Len(dicts[i]) < Len(path[i].members)
          /\ path[j] = path[i].members[Len(dicts[i]) + 1]
      BY <1>1, <1>12, <2>1, <2>2 DEF Follows
    <3> QED BY <1>7, <1>9, <2>1, <2>2, <3>1
  <2>3. CASE j = k
    <3>1. i = n /\ n \in 1..n BY <1>2, <1>12, <2>1, <2>3
    <3>2. dicts # <<>> BY <1>1, <3>1
    <3>3. Parent(vs, path, dicts) = path[n].members
          /\ Done(dicts, vals) = dicts[n]
          /\ due = path[n].members[Len(dicts[n]) + 1]
      BY <1>1, <1>3, <3>2 DEF Parent, Done, Due
    <3> QED BY <1>7, <1>9, <2>3, <3>1, <3>3
  <2> QED BY <1>2, <2>2, <2>3
<1>13. Len(vals) <= Len(vs) /\ vals = SubSeq(vs, 1, Len(vals)) BY DEF Follows
<1>14. Follows(vs, os, ps, ds, vals)
  BY <1>7, <1>9, <1>10, <1>11, <1>12, <1>13 DEF Follows
<1> QED BY <1>3, <1>4, <1>14

\* A step of the parser that goes on.
LEMMA StepPlaced ==
  ASSUME Placed, UNCHANGED <<sent, stream, end>>, end = "no",
         sent # <<>> => ~padded',
         ~padded' => \E o, p : Tracked(o, p)'
  PROVE  Placed'
BY DEF Placed

\* A step that ends the stream.
LEMMA RefusePlaced ==
  ASSUME Placed, end = "no", NEW e \in {"clean", "error", "source"}, Refuse(e),
         sent # <<>> /\ e # "source" => ~Got(want),
         sent # <<>> /\ e = "error" => pos # Len(stream)
  PROVE  Placed'
<1>1. /\ end' = e /\ sent' = sent /\ stream' = stream /\ pos' = pos
      /\ want' = want /\ padded' = padded
      /\ UNCHANGED <<ask, tag, open, values>>
  BY DEF Refuse
<1>2. /\ sent \in Seq(Nested[Depth])
      /\ sent # <<>> => ~padded /\ At(EncodeAll(sent), 0, stream)
      /\ sent # <<>> => \E offs, path : Tracked(offs, path)
  BY DEF Placed
<1>3. \A offs, path : Tracked(offs, path) => Tracked(offs, path)'
  BY <1>1 DEF Tracked, Pending
<1>4. sent # <<>> => \E offs, path : Tracked(offs, path)' BY <1>2, <1>3
<1>5. sent # <<>> /\ e # "source" => ~Got(want)' BY <1>1 DEF Got
<1> QED BY <1>1, <1>2, <1>4, <1>5 DEF Placed

LEMMA CloseDictPlaced ==
  ASSUME Typed, Placed, CloseDict
  PROVE  Placed'
<1>1. /\ Reading("tag") /\ Bytes[1] = tagEnd /\ open # <<>> /\ ask = "tag"
      /\ end = "no"
      /\ Len(Last(open)) % 2 = 0 /\ Ask("tag", 1)
      /\ Give(Dict(Last(open)), Front(open))
      /\ UNCHANGED <<sent, stream, end, padded>>
  BY DEF CloseDict, Reading
<1>2. SUFFICES ASSUME ~padded PROVE \E o, p : Tracked(o, p)'
  <2>1. sent # <<>> => ~padded BY DEF Placed
  <2> QED BY <1>1, <1>2, <2>1, StepPlaced
<1>3. PICK offs, path : Tracked(offs, path) BY <1>1, <1>2 DEF Placed
<1>4. Anchored(stream, offs, open, values) BY <1>3 DEF Tracked
<1>5. PICK m \in Nat : Len(open) = m + 1
  BY <1>1, LastIndex DEF Typed, TypeOK
<1>6. PICK n \in Nat : n = m + 1 OBVIOUS
<1>7. Len(open) = n /\ n \in 1..Len(open) /\ n \in 1..Depth
  BY <1>5, <1>6, OpenRoom
<1>8. PICK ms : ms = open[n] OBVIOUS
<1>9. /\ Last(open) = ms /\ Len(Front(open)) = m
      /\ Front(open) \in Seq(Seq(Nested[Depth]))
      /\ ms \in Pairs(Nested[Depth - n])
  <2>1. Len(open) - 1 = m BY <1>5
  <2> QED BY <1>1, <1>7, <1>8, <2>1, CloseDictType
<1>10. PICK v : v = Dict(ms) OBVIOUS
<1>11. PICK inner : inner = EncodeAll(ms) OBVIOUS
<1>12. /\ v \in Nested[Depth]
       /\ Encode(v) = <<tagDict>> \o (inner \o <<tagEnd>>)
       /\ inner \in Seq(Byte)
  <2>1. PICK d \in 1..Depth : d = Depth - m
    <3>1. Depth - m \in 1..Depth BY <1>6, <1>7, DepthType
    <3> QED BY <3>1
  <2>2. d - 1 = Depth - n /\ d \in 0..Depth BY <1>6, <2>1, DepthType
  <2>3. ms \in Pairs(Nested[d - 1]) BY <1>9, <2>2
  <2>4. /\ Dict(ms) \in Nested[d] /\ ms \in Seq(Nested[Depth])
        /\ Encode(Dict(ms)) = <<tagDict>> \o (EncodeAll(ms) \o <<tagEnd>>)
    BY <2>3, EncodeDict
  <2>5. Dict(ms) \in Nested[Depth] BY <2>2, <2>4, NestedMonotonic
  <2> QED BY <1>10, <1>11, <2>4, <2>5, EncodeAllAppend
<1>13. PICK base : base = offs[n] OBVIOUS
<1>14. /\ base \in Nat /\ At(stream, base, <<tagDict>> \o inner)
       /\ pos = base + 1 + Len(inner)
  <2>1. /\ At(stream, offs[n], <<tagDict>> \o EncodeAll(open[n]))
        /\ offs[n + 1] = offs[n] + 1 + Len(EncodeAll(open[n]))
        /\ offs \in Seq(Nat) /\ Len(offs) = n + 1
    BY <1>4, <1>7 DEF Anchored
  <2>2. pos = offs[n + 1] BY <1>1, <1>3, <1>7 DEF Tracked, Pending
  <2>3. n \in 1..n + 1 BY <1>7
  <2> QED BY <1>8, <1>11, <1>13, <2>1, <2>2, <2>3
<1>15. stream \in Seq(Byte) /\ pos < Len(stream) /\ stream[pos + 1] = tagEnd
       /\ want = 1 /\ pos' = pos + 1 /\ ask' = "tag"
  <2>1. 1 \in 0..MaxLength BY DEF MaxLength
  <2>2. want = 1 BY <1>1 DEF Typed
  <2> QED BY <1>1, <2>1, <2>2, OpenRoom, StepType
<1>16. /\ At(stream, base, Encode(v))
       /\ pos' = base + Len(Encode(v))
  <2>1. At(stream, base, Encode(v))
    <3>1. At(stream, base, <<tagDict>> \o (inner \o <<tagEnd>>)) <=>
            /\ At(stream, base, <<tagDict>> \o inner)
            /\ base + 1 + Len(inner) < Len(stream)
            /\ stream[base + 1 + Len(inner) + 1] = tagEnd
      BY <1>12, <1>14, <1>15, DictAt
    <3> QED BY <1>12, <1>14, <1>15, <3>1
  <2>2. Len(Encode(v)) = Len(inner) + 2 BY <1>12, <1>14, <1>15, DictAt
  <2>3. Len(inner) \in Nat BY <1>12
  <2> QED BY <1>14, <1>15, <2>1, <2>2, <2>3
<1>17. /\ Anchored(stream, Front(offs), Front(open), values)
       /\ Front(offs)[m + 1] = base
  <2>1. open \in Seq(Seq(Nested[Depth])) BY DEF Typed, TypeOK
  <2>2. n \in 1..Len(open) BY <1>7
  <2> QED BY <1>1, <1>4, <1>6, <1>13, <2>1, <2>2, FrontAnchored
<1>18. ASSUME sent # <<>>
       PROVE  LET around == Front(path)
                  outer == Front(open)
              IN /\ Follows(sent, Front(offs), around, outer, values)
                 /\ Len(Done(outer, values)) < Len(Parent(sent, around, outer))
                 /\ Due(sent, around, outer, values) = v
  <2>1. Bytes[1] # Due(sent, path, open, values).kind
        \/ ~(Len(Done(open, values)) < Len(Parent(sent, path, open)))
    <3> SUFFICES ASSUME Len(Done(open, values)) < Len(Parent(sent, path, open))
                 PROVE  Due(sent, path, open, values).kind # tagEnd
      BY <1>1
    <3>1. Due(sent, path, open, values) \in Nested[Depth]
      BY <1>1, <1>3, <1>18, TagRead DEF PlaceOf
    <3>2. Due(sent, path, open, values).kind
            \in {tagDict, tagBytes, tagString, tagInt}
      BY <3>1, EncodedKind
    <3> QED BY <3>2 DEF tagDict, tagBytes, tagString, tagInt, tagEnd
  <2>2. Dict(Done(open, values)) = path[Len(open)]
    BY <1>1, <1>3, <1>18, <2>1, TagRead
  <2>3. Done(open, values) = ms BY <1>1, <1>7, <1>8 DEF Done
  <2>4. v = path[Len(open)] BY <1>10, <2>2, <2>3
  <2>5. /\ open \in Seq(Seq(Nested[Depth])) /\ values \in Seq(Nested[Depth])
        /\ sent \in Seq(Nested[Depth])
    BY DEF Typed, TypeOK, Placed
  <2>6. Follows(sent, offs, path, open, values) BY <1>3, <1>18 DEF Tracked
  <2> QED BY <1>1, <1>4, <2>4, <2>5, <2>6, FrontFollows
<1>19. PICK outer : outer = Front(open) OBVIOUS
<1>20. /\ outer \in Seq(Seq(Nested[Depth])) /\ Len(outer) = m /\ m <= Depth
       /\ sent \in Seq(Nested[Depth]) /\ values \in Seq(Nested[Depth])
  BY <1>5, <1>9, <1>19, OpenRoom, DepthType DEF Typed, TypeOK, Placed
<1>21. Give(v, outer) /\ UNCHANGED <<sent, stream>>
  BY <1>1, <1>9, <1>10, <1>19
<1>22. Len(open') = Len(outer)
  <2>1. v \in Nested[Depth - Len(outer)]
    BY <1>1, <1>9, <1>10, <1>19, CloseDictType
  <2>2. \A i \in 1..Len(outer) : outer[i] \in Seq(Nested[Depth - i])
    <3>1. \A i \in 1..Len(outer) : outer[i] = open[i] /\ i \in 1..Len(open)
      BY <1>1, <1>5, <1>19, <1>20, CloseDictType
    <3> QED BY <3>1 DEF Typed
  <2> QED BY <1>20, <1>21, <2>1, <2>2, GiveType
<1> QED BY <1>12, <1>15, <1>16, <1>17, <1>18, <1>19, <1>20, <1>21, <1>22,
           GiveTracked

LEMMA OpenDictPlaced ==
  ASSUME Typed, Placed, OpenDict
  PROVE  Placed'
<1>1. /\ Reading("tag") /\ Bytes[1] = tagDict /\ ask = "tag" /\ end = "no"
      /\ Ask("tag", 1) /\ open' = Append(open, <<>>)
      /\ UNCHANGED <<sent, stream, tag, values, end, padded>>
  BY DEF OpenDict, Reading
<1>2. SUFFICES ASSUME ~padded PROVE \E o, p : Tracked(o, p)'
  <2>1. sent # <<>> => ~padded BY DEF Placed
  <2> QED BY <1>1, <1>2, <2>1, StepPlaced
<1>3. PICK offs, path : Tracked(offs, path) BY <1>1, <1>2 DEF Placed
<1>4. /\ stream \in Seq(Byte) /\ pos < Len(stream) /\ stream[pos + 1] = tagDict
      /\ pos \in Nat /\ pos' = pos + 1 /\ ask' = "tag"
      /\ Len(open) < Depth
  <2>1. 1 \in 0..MaxLength BY DEF MaxLength
  <2>2. want = 1 BY <1>1 DEF Typed
  <2>3. /\ stream \in Seq(Byte) /\ pos < Len(stream)
        /\ stream[pos + 1] = tagDict /\ pos' = pos + 1 /\ ask' = "tag"
    BY <1>1, <2>1, <2>2, OpenRoom, StepType
  <2> QED BY <2>3, OpenRoom
<1>5. /\ open \in Seq(Seq(Nested[Depth])) /\ values \in Seq(Nested[Depth])
      /\ sent \in Seq(Nested[Depth])
  BY DEF Typed, TypeOK, Placed
<1>6. Anchored(stream, offs, open, values) /\ offs[Len(open) + 1] = pos
  BY <1>1, <1>3 DEF Tracked, Pending
<1>7. PICK os : os = Append(offs, pos + 1) OBVIOUS
<1>8. Anchored(stream, os, open', values) /\ os[Len(open') + 1] = pos + 1
  <2>1. PICK base \in Nat : base = pos BY <1>4
  <2>2. PICK dicts \in Seq(Seq(Nested[Depth])), vals \in Seq(Nested[Depth]),
             bytes \in Seq(Byte) :
          dicts = open /\ vals = values /\ bytes = stream
    BY <1>4, <1>5
  <2>3. offs[Len(dicts) + 1] = base /\ At(bytes, base, <<tagDict>>)
        /\ Anchored(bytes, offs, dicts, vals)
    BY <1>4, <1>6, <2>1, <2>2, AtByte
  <2>4. /\ Anchored(bytes, Append(offs, base + 1), Append(dicts, <<>>), vals)
        /\ Append(offs, base + 1)[Len(Append(dicts, <<>>)) + 1] = base + 1
    <3>1. /\ Anchored(bytes, Append(offs, base + 1), Append(dicts, <<>>), vals)
          /\ Len(Append(dicts, <<>>)) = Len(dicts) + 1
      BY <2>3, OpenAnchored
    <3>2. PICK k \in Nat : k = Len(dicts) + 1 OBVIOUS
    <3>3. offs \in Seq(Nat) /\ Len(offs) = k BY <2>3, <3>2 DEF Anchored
    <3>4. Append(offs, base + 1)[k + 1] = base + 1 BY <3>3, AppendAt
    <3> QED BY <3>1, <3>2, <3>4
  <2>5. os = Append(offs, base + 1) /\ open' = Append(dicts, <<>>)
    BY <1>1, <1>7, <2>1, <2>2
  <2> QED BY <2>1, <2>2, <2>4, <2>5
<1>9. PICK ps : ps = Append(path, Due(sent, path, open, values)) OBVIOUS
<1>10. ASSUME sent # <<>> PROVE Follows(sent, os, ps, open', values)
  <2>1. /\ Len(Done(open, values)) < Len(Parent(sent, path, open))
        /\ Due(sent, path, open, values).kind = tagDict
    <3>1. tagDict # tagEnd BY DEF tagDict, tagEnd
    <3> QED BY <1>1, <1>3, <1>10, <3>1, TagRead
  <2>2. Follows(sent, offs, path, open, values) BY <1>3, <1>10 DEF Tracked
  <2>3. pos + 1 \in Nat BY <1>4
  <2> QED BY <1>1, <1>4, <1>5, <1>6, <1>7, <1>9, <2>1, <2>2, <2>3, OpenFollows
<1>11. Tracked(os, ps)'
  BY <1>1, <1>4, <1>8, <1>10 DEF Tracked, Pending
<1> QED BY <1>11

LEMMA OpenScalarPlaced ==
  ASSUME Typed, Placed, OpenScalar
  PROVE  Placed'
<1>1. /\ Reading("tag") /\ ask = "tag" /\ end = "no"
      /\ Bytes[1] \in {tagBytes, tagString, tagInt} /\ tag' = Bytes[1]
      /\ IF Bytes[1] = tagInt THEN Ask("size", 1) ELSE Ask("length", 2)
      /\ UNCHANGED <<sent, stream, open, values, end, padded>>
  BY DEF OpenScalar, Reading
<1>2. SUFFICES ASSUME ~padded PROVE \E o, p : Tracked(o, p)'
  <2>1. sent # <<>> => ~padded BY DEF Placed
  <2> QED BY <1>1, <1>2, <2>1, StepPlaced
<1>3. PICK offs, path : Tracked(offs, path) BY <1>1, <1>2 DEF Placed
<1>4. /\ pos < Len(stream) /\ stream[pos + 1] = Bytes[1]
      /\ pos \in Nat /\ pos' = pos + 1 /\ ask' \in {"size", "length"}
      /\ Len(stream) \in Nat
  <2>1. 1 \in 0..MaxLength /\ 2 \in 0..MaxLength BY DEF MaxLength
  <2>2. want = 1 BY <1>1 DEF Typed
  <2>3. \E n \in {1, 2}, what \in {"size", "length"} : Ask(what, n) BY <1>1
  <2>4. PICK n \in 0..MaxLength, what \in {"size", "length"} : Ask(what, n)
    BY <2>1, <2>3
  <2>5. /\ pos < Len(stream)
        /\ stream[pos + 1] = Bytes[1] /\ pos' = pos + 1 /\ ask' = what
    BY <1>1, <2>2, <2>4, OpenRoom, StepType
  <2> QED BY <2>4, <2>5, OpenRoom
<1>5. offs[Len(open) + 1] = pos BY <1>1, <1>3 DEF Tracked, Pending
<1>6. Pending(offs[Len(open) + 1])'
  <2>1. pos + 1 <= Len(stream) BY <1>4
  <2> QED BY <1>1, <1>4, <1>5, <2>1 DEF Pending
<1>7. ASSUME sent # <<>>
      PROVE  /\ Len(Done(open, values)) < Len(Parent(sent, path, open))
             /\ Due(sent, path, open, values).kind = tag'
  <2>1. Bytes[1] # tagEnd BY <1>1 DEF tagBytes, tagString, tagInt, tagEnd
  <2> QED BY <1>1, <1>3, <1>7, <2>1, TagRead
<1>8. Tracked(offs, path)'
  BY <1>1, <1>3, <1>6, <1>7 DEF Tracked
<1> QED BY <1>8

LEMMA ReadLengthPlaced ==
  ASSUME Typed, Placed, ReadLength
  PROVE  Placed'
<1>1. /\ Reading(ask) /\ ask \in {"length", "size"} /\ end = "no"
      /\ Got(want) /\ Ask("body", Number(Bytes))
      /\ UNCHANGED <<sent, stream, tag, open, values, end, padded>>
  BY DEF ReadLength, Reading
<1>2. SUFFICES ASSUME ~padded PROVE \E o, p : Tracked(o, p)'
  <2>1. sent # <<>> => ~padded BY DEF Placed
  <2> QED BY <1>1, <1>2, <2>1, StepPlaced
<1>3. PICK offs, path : Tracked(offs, path) BY <1>1, <1>2 DEF Placed
<1>4. PICK base \in Nat : base = offs[Len(open) + 1]
  <2>1. offs \in Seq(Nat) /\ Len(offs) = Len(open) + 1 /\ Len(open) \in Nat
    BY <1>3, OpenRoom DEF Tracked, Anchored
  <2>2. Len(open) + 1 \in 1..Len(offs) BY <2>1
  <2> QED BY <2>1, <2>2
<1>5. pos = base + 1 /\ pos <= Len(stream) /\ stream[base + 1] = tag
  BY <1>1, <1>3, <1>4 DEF Tracked, Pending
<1>6. PICK size \in Seq(Byte) : size = Bytes /\ Len(size) = want
                                /\ At(stream, pos, size)
  BY <1>1, OpenRoom, GotBytes
<1>7. want = IF tag = tagInt THEN 1 ELSE 2
  BY <1>1 DEF Typed
<1>8. At(stream, base, <<tag>> \o size)
  <2>1. PICK a : a = <<tag>> OBVIOUS
  <2>2. a \in Seq(Byte) /\ Len(a) = 1
    <3>1. tag \in Byte
      BY DEF Typed, TypeOK, tagBytes, tagString, tagInt, Byte
    <3> QED BY <2>1, <3>1
  <2>3. stream \in Seq(Byte) BY OpenRoom
  <2>4. At(stream, base, a)
    <3>1. base < Len(stream) BY <1>5, OpenRoom
    <3> QED BY <1>5, <2>1, <2>3, <3>1, AtByte
  <2>5. At(stream, base + Len(a), size) BY <1>5, <1>6, <2>2
  <2> QED BY <1>6, <2>1, <2>2, <2>3, <2>4, <2>5, AtConcat
<1>9. pos' = base + 1 + Len(size) /\ want' = Number(size) /\ ask' = "body"
  BY <1>1, <1>5, <1>6 DEF Ask
<1>10. Pending(base)'
  BY <1>1, <1>6, <1>7, <1>8, <1>9 DEF Pending
<1>11. Tracked(offs, path)'
  BY <1>1, <1>3, <1>4, <1>9, <1>10 DEF Tracked
<1> QED BY <1>11

LEMMA AtHead ==
  ASSUME NEW bytes \in Seq(Byte), NEW off \in Nat, NEW b \in Byte,
         NEW rest \in Seq(Byte)
  PROVE  /\ Len(<<b>> \o rest) = 1 + Len(rest)
         /\ At(bytes, off, <<b>> \o rest) <=>
              At(bytes, off, <<b>>) /\ At(bytes, off + 1, rest)
<1>1. PICK a \in Seq(Byte) : a = <<b>> /\ Len(a) = 1
  <2>1. <<b>> \in Seq(Byte) /\ Len(<<b>>) = 1 OBVIOUS
  <2> QED BY <2>1
<1>2. /\ Len(a \o rest) = Len(a) + Len(rest)
      /\ At(bytes, off, a \o rest) <=>
           At(bytes, off, a) /\ At(bytes, off + Len(a), rest)
  BY AtConcat
<1> QED BY <1>1, <1>2

\* A size that was sent arrives as it was sent.
LEMMA SizeSent ==
  ASSUME NEW full \in Seq(Byte), NEW bytes \in Seq(Byte), At(full, 0, bytes),
         NEW due \in Blobs \cup Ints, NEW base \in Nat,
         At(full, base, Encode(due)), NEW size \in Seq(Byte),
         At(bytes, base, <<due.kind>> \o size),
         Len(size) = IF due.kind = tagInt THEN 1 ELSE 2
  PROVE  /\ size = Size(due)
         /\ At(full, base + 1 + Len(size), Body(due))
<1>1. due.kind \in Byte BY ScalarKind DEF tagBytes, tagString, tagInt, Byte
<1>2. PICK k \in Byte : k = due.kind BY <1>1
<1>3. PICK s \in Seq(Byte), b \in Seq(Byte) :
        /\ s = Size(due) /\ b = Body(due)
        /\ Number(s) = Len(b) /\ Len(s) = Len(size)
  BY ScalarEncoded
<1>4. Encode(due) = <<k>> \o (s \o b) BY <1>2, <1>3, EncodeScalar
<1>5. s \o b \in Seq(Byte) BY ConcatProperties
<1>6. At(full, base + 1, s \o b)
  <2>1. At(full, base, <<k>> \o (s \o b)) BY <1>4
  <2> QED BY <1>5, <2>1, AtHead
<1>7. base + 1 \in Nat OBVIOUS
<1>8. At(full, base + 1, s) /\ At(full, base + 1 + Len(s), b)
  BY <1>6, <1>7, AtConcat
<1>9. At(full, base + 1, size)
  <2>1. At(bytes, base, <<k>> \o size) BY <1>2
  <2>2. At(bytes, base + 1, size) BY <2>1, AtHead
  <2> QED BY <1>7, <2>2, AtCut
<1>10. s = size BY <1>3, <1>7, <1>8, <1>9, AtSame
<1> QED BY <1>3, <1>8, <1>10

\* A body that was sent arrives as it was sent.
LEMMA BodySent ==
  ASSUME NEW full \in Seq(Byte), NEW bytes \in Seq(Byte), At(full, 0, bytes),
         NEW due \in Blobs \cup Ints, NEW base \in Nat, NEW body \in Seq(Byte),
         At(full, base, Encode(due)), NEW size \in Seq(Byte),
         At(bytes, base, <<due.kind>> \o size),
         Len(size) = IF due.kind = tagInt THEN 1 ELSE 2,
         Number(size) = Len(body),
         At(bytes, base + 1 + Len(size), body)
  PROVE  /\ Body(due) = body
         /\ Scalar(due.kind, IF due.kind = tagInt THEN Stripped(body) ELSE body)
              = due
<1>1. PICK b \in Seq(Byte) : b = Body(due) /\ Len(b) = Len(body)
  BY SizeSent, ScalarEncoded
<1>2. base + 1 + Len(size) \in Nat OBVIOUS
<1>3. At(full, base + 1 + Len(size), body) BY <1>2, AtCut
<1>4. b = body
  <2>1. At(full, base + 1 + Len(size), b) BY <1>1, SizeSent
  <2> QED BY <1>1, <1>2, <1>3, <2>1, AtSame
<1>5. Scalar(due.kind, IF due.kind = tagInt THEN Stripped(body) ELSE body)
         = due
  <2>1. CASE due \in Ints
    <3>1. due.kind = tagInt BY <2>1, KindOf
    <3>2. Stripped(body) = due.bytes BY <1>1, <1>4, <2>1, StrippedBody
    <3>3. due = [kind |-> due.kind, bytes |-> due.bytes] BY <2>1 DEF Ints
    <3> QED BY <3>1, <3>2, <3>3 DEF Scalar
  <2>2. CASE due \in Blobs
    <3>1. due.kind # tagInt BY <2>2 DEF Blobs, tagInt, tagBytes, tagString
    <3>2. body = due.bytes BY <1>1, <1>4, <3>1 DEF Body
    <3>3. due = [kind |-> due.kind, bytes |-> due.bytes] BY <2>2 DEF Blobs
    <3> QED BY <3>1, <3>2, <3>3 DEF Scalar
  <2> QED BY <2>1, <2>2
<1> QED BY <1>1, <1>4, <1>5

\* A body that its value is encoded with accounts for its bytes.
LEMMA BodyAt ==
  ASSUME NEW bytes \in Seq(Byte), NEW v \in Blobs \cup Ints,
         NEW base \in Nat, NEW size \in Seq(Byte),
         At(bytes, base, <<v.kind>> \o size),
         Len(size) = IF v.kind = tagInt THEN 1 ELSE 2,
         Number(size) = Len(Body(v)),
         At(bytes, base + 1 + Len(size), Body(v))
  PROVE  /\ At(bytes, base, Encode(v))
         /\ Len(Encode(v)) = 1 + Len(size) + Len(Body(v))
<1>1. v.kind \in Byte BY ScalarKind DEF tagBytes, tagString, tagInt, Byte
<1>2. PICK k \in Byte : k = v.kind BY <1>1
<1>3. PICK s \in Seq(Byte), b \in Seq(Byte) :
        /\ s = Size(v) /\ b = Body(v)
        /\ Number(s) = Len(b) /\ Len(s) = Len(size)
  BY ScalarEncoded
<1>4. s = size BY <1>3, NumberInjective
<1>5. Encode(v) = <<k>> \o (size \o b) BY <1>2, <1>3, <1>4, EncodeScalar
<1>6. size \o b \in Seq(Byte) /\ Len(size \o b) = Len(size) + Len(b)
  BY ConcatProperties
<1>7. base + 1 \in Nat OBVIOUS
<1>8. At(bytes, base, <<k>>) /\ At(bytes, base + 1, size)
  <2>1. At(bytes, base, <<k>> \o size) BY <1>2
  <2> QED BY <2>1, AtHead
<1>9. At(bytes, base + 1, size \o b)
  BY <1>3, <1>7, <1>8, AtConcat
<1>10. /\ At(bytes, base, <<k>> \o (size \o b))
       /\ Len(<<k>> \o (size \o b)) = 1 + Len(size \o b)
  BY <1>6, <1>8, <1>9, AtHead
<1> QED BY <1>3, <1>5, <1>6, <1>10

LEMMA ReadBodyPlaced ==
  ASSUME Typed, Placed, ReadBody
  PROVE  Placed'
<1>1. /\ Reading("body") /\ ask = "body" /\ end = "no" /\ Got(want)
      /\ Reading(ask)
      /\ Ask("tag", 1) /\ Give(BodyValue, open)
      /\ padded' = (padded \/ Body(BodyValue) # Bytes)
      /\ UNCHANGED <<sent, stream, end>>
  BY DEF ReadBody, Reading, BodyValue
<1>2. PICK body \in Seq(Byte) :
        body = Bytes /\ Len(body) = want /\ At(stream, pos, body)
  BY <1>1, OpenRoom, GotBytes
<1>3. PICK v \in Blobs \cup Ints : v = BodyValue BY <1>1, BodyType
<1>4. /\ v = Scalar(tag, IF tag = tagInt THEN Stripped(body) ELSE body)
      /\ v.kind = tag
  BY <1>2, <1>3 DEF BodyValue, Scalar
<1>5. /\ open \in Seq(Seq(Nested[Depth])) /\ values \in Seq(Nested[Depth])
      /\ sent \in Seq(Nested[Depth]) /\ stream \in Seq(Byte)
      /\ padded \in BOOLEAN /\ Len(open) <= Depth /\ v \in Nested[Depth]
  BY OpenRoom, EncodeScalar DEF Typed, TypeOK, Placed
<1>6. sent # <<>> => ~padded BY DEF Placed
<1>7. ASSUME NEW offs, NEW path, Tracked(offs, path)
      PROVE  \E base \in Nat, size \in Seq(Byte) :
               /\ base = offs[Len(open) + 1]
               /\ At(stream, base, <<tag>> \o size)
               /\ pos = base + 1 + Len(size) /\ Number(size) = want
               /\ Len(size) = IF tag = tagInt THEN 1 ELSE 2
  <2>1. offs \in Seq(Nat) /\ Len(offs) = Len(open) + 1 /\ Len(open) \in Nat
    BY <1>7, OpenRoom DEF Tracked, Anchored
  <2>2. Len(open) + 1 \in 1..Len(offs) BY <2>1
  <2>3. PICK base \in Nat : base = offs[Len(open) + 1] BY <2>1, <2>2
  <2> QED BY <1>1, <1>7, <2>3 DEF Tracked, Pending
<1>8. ASSUME sent # <<>>, NEW offs, NEW path, Tracked(offs, path)
      PROVE  Body(v) = body /\ Due(sent, path, open, values) = v
  <2>1. PICK base \in Nat, size \in Seq(Byte) :
          /\ base = offs[Len(open) + 1]
          /\ At(stream, base, <<tag>> \o size)
          /\ pos = base + 1 + Len(size) /\ Number(size) = want
          /\ Len(size) = IF tag = tagInt THEN 1 ELSE 2
    BY <1>7, <1>8
  <2>2. PICK due : due = Due(sent, path, open, values) OBVIOUS
  <2>3. due.kind = tag /\ Len(Done(open, values)) < Len(Parent(sent, path, open))
    BY <1>1, <1>8, <2>2 DEF Tracked
  <2>4. PlaceOf(sent, offs, path, open, values)
    BY <1>5, <1>8, DueAt DEF Tracked
  <2>5. PICK full \in Seq(Byte) : full = EncodeAll(sent)
    BY <1>5, EncodeAllAppend
  <2>6. due \in Nested[Depth] /\ At(full, base, Encode(due))
    BY <2>1, <2>2, <2>3, <2>4, <2>5 DEF PlaceOf
  <2>7. due \in Blobs \cup Ints
    <3>1. due.kind # tagDict BY <1>3, <1>4, <2>3, ScalarKind
    <3> QED BY <2>6, <3>1, EncodedKind
  <2>8. At(full, 0, stream) BY <1>8, <2>5 DEF Placed
  <2>9. /\ At(stream, base, <<due.kind>> \o size)
        /\ Len(size) = IF due.kind = tagInt THEN 1 ELSE 2
        /\ Number(size) = Len(body)
        /\ At(stream, base + 1 + Len(size), body)
    BY <1>2, <2>1, <2>3
  <2>10. /\ Body(due) = body
         /\ Scalar(due.kind,
                   IF due.kind = tagInt THEN Stripped(body) ELSE body) = due
    BY <1>5, <2>6, <2>7, <2>8, <2>9, BodySent
  <2> QED BY <1>4, <2>2, <2>3, <2>10
<1>9. ASSUME sent # <<>> PROVE ~padded'
  <2>1. PICK offs, path : Tracked(offs, path) BY <1>9 DEF Placed
  <2>2. Body(v) = body BY <1>8, <1>9, <2>1
  <2> QED BY <1>1, <1>2, <1>3, <1>6, <1>9, <2>2
<1>10. ASSUME ~padded' PROVE \E o, p : Tracked(o, p)'
  <2>1. ~padded /\ Body(v) = body BY <1>1, <1>2, <1>3, <1>5, <1>10
  <2>2. PICK offs, path : Tracked(offs, path) BY <1>1, <2>1 DEF Placed
  <2>3. PICK base \in Nat, size \in Seq(Byte) :
          /\ base = offs[Len(open) + 1]
          /\ At(stream, base, <<tag>> \o size)
          /\ pos = base + 1 + Len(size) /\ Number(size) = want
          /\ Len(size) = IF tag = tagInt THEN 1 ELSE 2
    BY <1>7, <2>2
  <2>4. /\ At(stream, base, <<v.kind>> \o size)
        /\ Len(size) = IF v.kind = tagInt THEN 1 ELSE 2
        /\ Number(size) = Len(Body(v))
        /\ At(stream, base + 1 + Len(size), Body(v))
    BY <1>2, <1>4, <2>1, <2>3
  <2>5. /\ At(stream, base, Encode(v))
        /\ Len(Encode(v)) = 1 + Len(size) + Len(body)
    BY <1>5, <2>1, <2>4, BodyAt
  <2>6. pos' = base + Len(Encode(v)) /\ ask' = "tag"
    <3>1. pos' = pos + want /\ ask' = "tag" BY <1>1 DEF Ask
    <3>2. PICK m \in Nat, n \in Nat : m = Len(size) /\ n = Len(body) OBVIOUS
    <3>3. pos' = base + 1 + m + n BY <1>2, <2>3, <3>1, <3>2
    <3>4. Len(Encode(v)) = 1 + m + n BY <2>5, <3>2
    <3>5. base + 1 + m + n = base + (1 + m + n) BY <3>2
    <3> QED BY <3>1, <3>3, <3>4, <3>5
  <2>7. Anchored(stream, offs, open, values)
        /\ At(stream, offs[Len(open) + 1], Encode(v))
    BY <2>2, <2>3, <2>5 DEF Tracked
  <2>8. sent # <<>> =>
          /\ Follows(sent, offs, path, open, values)
          /\ Len(Done(open, values)) < Len(Parent(sent, path, open))
          /\ Due(sent, path, open, values) = v
    BY <1>1, <1>8, <2>2 DEF Tracked
  <2>9. Give(v, open) BY <1>1, <1>3
  <2>10. Len(open') = Len(open)
    <3>1. v \in Nested[Depth - Len(open)]
      <4>1. PICK n \in Nat : n = Len(open) /\ n <= Depth BY OpenRoom
      <4>2. Depth - n \in 0..Depth BY <4>1, DepthType
      <4>3. v \in Nested[Depth - n] BY <4>2, NestedCases
      <4> QED BY <4>1, <4>3
    <3>2. \A i \in 1..Len(open) : open[i] \in Seq(Nested[Depth - i])
      BY DEF Typed
    <3> QED BY <1>5, <2>9, <3>1, <3>2, GiveType
  <2>11. PICK dicts \in Seq(Seq(Nested[Depth])) : dicts = open BY <1>5
  <2>12. pos' = offs[Len(dicts) + 1] + Len(Encode(v)) BY <2>3, <2>6, <2>11
  <2> QED BY <1>1, <1>5, <2>6, <2>7, <2>8, <2>9, <2>10, <2>11, <2>12,
             GiveTracked
<1> QED BY <1>1, <1>9, <1>10, StepPlaced

LEMMA NextPlaced ==
  ASSUME Typed, Placed, [Next]_vars
  PROVE  Placed'
<1>1. ASSUME sent # <<>>, Reading("tag")
      PROVE  /\ Bytes[1] \in {tagEnd, tagDict, tagBytes, tagString, tagInt}
             /\ Bytes[1] = tagEnd => open # <<>> /\ Len(Last(open)) % 2 # 1
  <2>1. PICK offs, path : Tracked(offs, path) BY <1>1 DEF Placed
  <2>2. /\ open \in Seq(Seq(Nested[Depth])) /\ values \in Seq(Nested[Depth])
        /\ sent \in Seq(Nested[Depth])
    BY DEF Typed, TypeOK, Placed
  <2>3. CASE Len(Done(open, values)) < Len(Parent(sent, path, open))
    <3>1. /\ Due(sent, path, open, values) \in Nested[Depth]
          /\ Bytes[1] = Due(sent, path, open, values).kind
      BY <1>1, <2>1, <2>3, TagRead DEF PlaceOf
    <3>2. Bytes[1] \in {tagDict, tagBytes, tagString, tagInt}
      BY <3>1, EncodedKind
    <3> QED BY <3>2 DEF tagDict, tagBytes, tagString, tagInt, tagEnd
  <2>4. CASE ~(Len(Done(open, values)) < Len(Parent(sent, path, open)))
    <3>1. Bytes[1] = tagEnd /\ open # <<>>
          /\ Dict(Done(open, values)) = path[Len(open)]
      BY <1>1, <2>1, <2>4, TagRead
    <3>2. PICK m \in Nat : Len(open) = m + 1 BY <2>2, <3>1, LastIndex
    <3>3. PICK d \in 1..Depth : d = Depth - m
      <4>1. Depth - m \in 1..Depth BY <3>2, OpenRoom, DepthType
      <4> QED BY <4>1
    <3>4. Done(open, values) = Last(open) BY <3>1 DEF Done, Last
    <3>5. path[m + 1] = Dict(Last(open)) /\ m + 1 \in 1..Len(open)
          /\ (m + 1) - 1 = m
      BY <3>1, <3>2, <3>4
    <3>6. path[m + 1] \in Nested[Depth - m]
      BY <1>1, <2>1, <3>5 DEF Tracked, Follows
    <3>7. Dict(Last(open)) \in Nested[d] /\ Dict(Last(open)).kind = tagDict
      BY <3>3, <3>5, <3>6, KindOf
    <3>8. Last(open) \in Pairs(Nested[d - 1])
      BY <3>7, DictOf, KindOf
    <3>9. Len(Last(open)) % 2 = 0 BY <3>8 DEF Pairs
    <3> QED BY <3>1, <3>9
  <2> QED BY <2>3, <2>4
<1>2. CASE UNCHANGED vars
  <2>1. /\ UNCHANGED <<sent, stream, pos, ask, want, tag>>
        /\ UNCHANGED <<open, values, end, padded>>
    BY <1>2 DEF vars
  <2>2. \A offs, path : Tracked(offs, path) => Tracked(offs, path)'
    BY <2>1 DEF Tracked, Pending
  <2>3. Got(want) <=> Got(want)' BY <2>1 DEF Got
  <2> QED BY <2>1, <2>2, <2>3 DEF Placed
<1>3. CASE TopEnd
  <2>1. sent = <<>> BY <1>1, <1>3 DEF TopEnd
  <2> QED BY <1>3, <2>1 DEF TopEnd, Placed
<1>4. CASE CloseDict BY <1>4, CloseDictPlaced
<1>5. CASE NoValue
  <2>1. sent = <<>> BY <1>1, <1>5 DEF NoValue
  <2> QED BY <1>5, <2>1, RefusePlaced DEF NoValue, Reading
<1>6. CASE OpenDict BY <1>6, OpenDictPlaced
<1>7. CASE OpenScalar BY <1>7, OpenScalarPlaced
<1>8. CASE UnknownTag
  <2>1. sent = <<>> BY <1>1, <1>8 DEF UnknownTag
  <2> QED BY <1>8, <2>1, RefusePlaced DEF UnknownTag, Reading
<1>9. CASE ReadLength BY <1>9, ReadLengthPlaced
<1>10. CASE ReadBody BY <1>10, ReadBodyPlaced
<1>11. CASE Short
  <2>1. CASE pos = Len(stream)
    BY <1>11, <2>1, RefusePlaced DEF Short
  <2>2. CASE pos # Len(stream)
    BY <1>11, <2>2, RefusePlaced DEF Short
  <2> QED BY <2>1, <2>2
<1>12. CASE SourceFails BY <1>12, RefusePlaced DEF SourceFails
<1>13. CASE Finished BY <1>2, <1>13 DEF Finished
<1> QED BY <1>2, <1>3, <1>4, <1>5, <1>6, <1>7, <1>8, <1>9, <1>10, <1>11,
           <1>12, <1>13 DEF Next

LEMMA AlwaysPlaced == Spec => [](Typed /\ Placed)
<1>1. Init => Typed /\ Placed BY InitTyped, InitPlaced
<1>2. Typed /\ Placed /\ [Next]_vars => (Typed /\ Placed)'
  BY NextTyped, NextPlaced
<1> QED BY <1>1, <1>2, PTL DEF Spec

\* No integer being padded, what Next returned encodes to exactly the bytes it
\* consumed: for every stream, of whatever values or none (wire.go:87-160).
THEOREM EveryByteAccounted == Spec => []Reencodes
<1>1. ASSUME Typed, Placed PROVE Reencodes
  <2> SUFFICES ASSUME ~padded, ask = "tag", open = <<>>, end = "no"
               PROVE  EncodeAll(values) = SubSeq(stream, 1, pos)
    BY DEF Reencodes
  <2>1. PICK offs, path : Tracked(offs, path) BY <1>1 DEF Placed
  <2>2. stream \in Seq(Byte) /\ pos \in Nat /\ pos <= Len(stream)
        /\ EncodeAll(values) \in Seq(Byte)
    BY <1>1, OpenRoom, EncodeAllAppend DEF Typed, TypeOK
  <2>3. pos = Len(EncodeAll(values)) /\ At(stream, 0, EncodeAll(values))
    <3>1. offs[1] = Len(EncodeAll(values)) /\ At(stream, 0, EncodeAll(values))
      BY <2>1 DEF Tracked, Anchored
    <3>2. pos = offs[Len(open) + 1] BY <2>1 DEF Tracked, Pending
    <3>3. Len(open) + 1 = 1 OBVIOUS
    <3> QED BY <3>1, <3>2, <3>3
  <2>4. PICK part : part = SubSeq(stream, 1, pos) OBVIOUS
  <2>5. part \in Seq(Byte) /\ Len(part) = pos /\ At(stream, 0, part)
    <3>1. 0 \in Nat /\ 0 + pos <= Len(stream) /\ 0 + 1 = 1 /\ 0 + pos = pos
      BY <2>2
    <3>2. PICK bytes \in Seq(Byte), n \in Nat : bytes = stream /\ n = pos BY <2>2
    <3>3. LET p == SubSeq(bytes, 0 + 1, 0 + n)
          IN  p \in Seq(Byte) /\ Len(p) = n /\ At(bytes, 0, p)
      BY <3>1, <3>2, AtSubSeq
    <3> QED BY <2>4, <3>1, <3>2, <3>3
  <2>6. 0 \in Nat OBVIOUS
  <2> QED BY <2>2, <2>3, <2>4, <2>5, <2>6, AtSame
<1> QED BY <1>1, AlwaysPlaced, PTL

LEMMA WholeType ==
  ASSUME NEW vs \in Seq(Nested[Depth]), NEW i \in Nat, i < Len(vs)
  PROVE  EncodeAll(SubSeq(vs, 1, i + 1)) \in Seq(Byte)
<1>1. PICK T : T = Nested[Depth] OBVIOUS
<1>2. /\ SubSeq(vs, 1, i) \in Seq(T) /\ vs[i + 1] \in T
      /\ SubSeq(vs, 1, i + 1) = Append(SubSeq(vs, 1, i), vs[i + 1])
  BY <1>1, ExtendPrefix
<1>3. SubSeq(vs, 1, i + 1) \in Seq(T) BY <1>2, AppendProperties
<1> QED BY <1>1, <1>3, EncodeAllAppend

\* Of values that were sent, the next io.ReadFull asks for nothing past the end
\* of the first one that Next has not returned.
LEMMA AskedIsSent ==
  ASSUME Typed, Placed, sent # <<>>, Len(values) < Len(sent)
  PROVE  pos + want <= Whole(sent, values)
<1>1. PICK offs, path : Tracked(offs, path) BY DEF Placed
<1>2. /\ open \in Seq(Seq(Nested[Depth])) /\ values \in Seq(Nested[Depth])
      /\ sent \in Seq(Nested[Depth]) /\ stream \in Seq(Byte)
      /\ Len(open) <= Depth /\ want \in Nat
  BY OpenRoom DEF Typed, TypeOK, Placed
<1>3. PlaceOf(sent, offs, path, open, values)
  BY <1>1, <1>2, DueAt DEF Tracked
<1>4. PICK base \in Nat : base = offs[Len(open) + 1]
  BY <1>3 DEF PlaceOf
<1>5. PICK whole \in Nat : whole = Whole(sent, values)
  <2>1. PICK i \in Nat : i = Len(values) BY <1>2
  <2>2. EncodeAll(SubSeq(sent, 1, i + 1)) \in Seq(Byte)
    BY <1>2, <2>1, WholeType
  <2> QED BY <2>1, <2>2 DEF Whole
<1>6. PICK due : due = Due(sent, path, open, values) OBVIOUS
<1>7. ASSUME Len(Done(open, values)) < Len(Parent(sent, path, open))
      PROVE  /\ due \in Nested[Depth]
             /\ At(EncodeAll(sent), base, Encode(due))
             /\ base + Len(Encode(due)) <= whole
             /\ Encode(due) \in Seq(Byte) /\ Len(Encode(due)) > 0
  <2>1. /\ due \in Nested[Depth]
        /\ At(EncodeAll(sent), base, Encode(due))
        /\ base + Len(Encode(due)) <= whole
    BY <1>3, <1>4, <1>5, <1>6, <1>7 DEF PlaceOf
  <2> QED BY <2>1, EncodeType, EncodedKind
<1>8. CASE ask = "tag"
  <2>1. pos = base /\ want = 1
    BY <1>1, <1>4, <1>8 DEF Tracked, Pending, Typed
  <2>2. CASE Len(Done(open, values)) < Len(Parent(sent, path, open))
    <3>1. PICK n \in Nat : n = Len(Encode(due)) BY <1>7, <2>2
    <3>2. base + n <= whole /\ n > 0 BY <1>7, <2>2, <3>1
    <3> QED BY <1>5, <2>1, <3>2
  <2>3. CASE ~(Len(Done(open, values)) < Len(Parent(sent, path, open)))
    <3>1. Len(Done(open, values)) = Len(Parent(sent, path, open))
      <4>1. /\ Len(Done(open, values)) \in 0..Len(Parent(sent, path, open))
            /\ Len(Parent(sent, path, open)) \in Nat
        BY <1>3 DEF PlaceOf
      <4> QED BY <2>3, <4>1
    <3>2. open # <<>>
      <4> SUFFICES ASSUME open = <<>> PROVE FALSE OBVIOUS
      <4>1. Len(values) = Len(sent) BY <1>3, <3>1 DEF PlaceOf
      <4> QED BY <1>2, <4>1
    <3>3. base + 1 <= whole BY <1>3, <1>4, <1>5, <3>1, <3>2 DEF PlaceOf
    <3> QED BY <1>5, <2>1, <3>3
  <2> QED BY <2>2, <2>3
<1>9. CASE ask # "tag"
  <2>1. due.kind = tag /\ Len(Done(open, values)) < Len(Parent(sent, path, open))
    BY <1>1, <1>6, <1>9 DEF Tracked
  <2>2. due \in Blobs \cup Ints
    <3>1. tag # tagDict
      BY <1>9 DEF Typed, TypeOK, tagBytes, tagString, tagInt, tagDict
    <3> QED BY <1>7, <2>1, <3>1, EncodedKind
  <2>3. PICK s \in Seq(Byte), b \in Seq(Byte) :
          /\ s = Size(due) /\ b = Body(due) /\ Number(s) = Len(b)
          /\ Len(s) = IF tag = tagInt THEN 1 ELSE 2
    BY <2>1, <2>2, ScalarEncoded
  <2>4. PICK m \in Nat, n \in Nat : m = Len(s) /\ n = Len(b) OBVIOUS
  <2>5. base + (1 + (m + n)) <= whole
    <3>1. Encode(due) = <<due.kind>> \o (s \o b) BY <2>2, <2>3, EncodeScalar
    <3>2. due.kind \in Byte
      BY <2>2, ScalarKind DEF tagBytes, tagString, tagInt, Byte
    <3>3. s \o b \in Seq(Byte) /\ Len(s \o b) = Len(s) + Len(b)
      BY ConcatProperties
    <3>4. Len(Encode(due)) = 1 + Len(s \o b) BY <1>2, <3>1, <3>2, <3>3, AtHead
    <3> QED BY <1>7, <2>1, <2>4, <3>3, <3>4
  <2>6. CASE ask \in {"size", "length"}
    <3>1. pos = base + 1 /\ want = m
      BY <1>1, <1>4, <2>6, <2>3, <2>4 DEF Tracked, Pending, Typed
    <3> QED BY <1>2, <1>5, <2>4, <2>5, <3>1
  <2>7. CASE ask = "body"
    <3>1. PICK size \in Seq(Byte) :
            /\ At(stream, base, <<tag>> \o size) /\ pos = base + 1 + Len(size)
            /\ Number(size) = want
            /\ Len(size) = IF tag = tagInt THEN 1 ELSE 2
      BY <1>1, <1>4, <2>7 DEF Tracked, Pending
    <3>2. EncodeAll(sent) \in Seq(Byte) /\ At(EncodeAll(sent), 0, stream)
      BY <1>2, EncodeAllAppend DEF Placed
    <3>3. size = Size(due)
      <4>1. PICK full \in Seq(Byte), bytes \in Seq(Byte) :
              full = EncodeAll(sent) /\ bytes = stream
        BY <1>2, <3>2
      <4>2. /\ At(full, 0, bytes) /\ At(full, base, Encode(due))
            /\ At(bytes, base, <<due.kind>> \o size)
            /\ Len(size) = IF due.kind = tagInt THEN 1 ELSE 2
        BY <1>7, <2>1, <3>1, <3>2, <4>1
      <4> QED BY <2>2, <4>2, SizeSent
    <3>4. pos = base + 1 + m /\ want = n BY <2>3, <2>4, <3>1, <3>3
    <3> QED BY <1>5, <2>4, <2>5, <3>4
  <2> QED BY <1>9, <2>6, <2>7 DEF Typed, TypeOK
<1> QED BY <1>8, <1>9

\* What the encoder wrote, Next returns: all of it from a whole stream, and from
\* one that is cut short exactly the values that are in it whole, however long
\* the stream and however deep the values (wire.go:70-85, encrypt.go:518-588).
THEOREM DecodesWhatWasEncoded == Spec => []RoundTrip
<1>1. ASSUME Typed, Placed PROVE RoundTrip
  <2> SUFFICES ASSUME sent # <<>>
               PROVE  /\ IsPrefix(values, sent)
                      /\ end \in {"clean", "error"} /\ values # sent =>
                           Whole(sent, values) > Len(stream)
                      /\ end = "error" => stream # EncodeAll(sent)
    BY DEF RoundTrip, Whole
  <2>1. PICK offs, path : Tracked(offs, path) BY <1>1 DEF Placed
  <2>2. /\ open \in Seq(Seq(Nested[Depth])) /\ values \in Seq(Nested[Depth])
        /\ sent \in Seq(Nested[Depth]) /\ stream \in Seq(Byte)
        /\ Len(open) <= Depth /\ want \in Nat /\ pos \in Nat
        /\ pos <= Len(stream) /\ Len(stream) \in Nat
    BY <1>1, OpenRoom DEF Typed, TypeOK, Placed
  <2>3. Follows(sent, offs, path, open, values) BY <2>1 DEF Tracked
  <2>4. PICK k \in Nat : k = Len(values) BY <2>2
  <2>5. k <= Len(sent) /\ values = SubSeq(sent, 1, k)
    BY <2>3, <2>4 DEF Follows
  <2>6. IsPrefix(values, sent)
    <3>1. SubSeq(values, 1, k) = values BY <2>2, <2>4, SubSeqFull
    <3> QED BY <2>4, <2>5, <3>1 DEF IsPrefix
  <2>7. values # sent => k < Len(sent)
    <3> SUFFICES ASSUME k = Len(sent) PROVE values = sent
      <4>1. Len(sent) \in Nat BY <2>2
      <4> QED BY <2>5, <4>1
    <3>1. SubSeq(sent, 1, Len(sent)) = sent BY <2>2, SubSeqFull
    <3> QED BY <2>5, <3>1
  <2>8. ASSUME end \in {"clean", "error"}, values # sent
        PROVE  Whole(sent, values) > Len(stream)
    <3>1. pos + want <= Whole(sent, values)
      BY <1>1, <2>4, <2>7, <2>8, AskedIsSent
    <3>2. PICK m \in Nat : m = pos + want BY <2>2
    <3>3. m > Len(stream)
      <4>1. ~Got(want) BY <1>1, <2>8 DEF Placed
      <4> QED BY <2>2, <3>2, <4>1 DEF Got
    <3>4. Whole(sent, values) \in Nat
      <4>1. EncodeAll(SubSeq(sent, 1, k + 1)) \in Seq(Byte)
        BY <2>2, <2>7, <2>8, WholeType
      <4> QED BY <2>4, <4>1 DEF Whole
    <3> QED BY <2>2, <3>1, <3>2, <3>3, <3>4
  <2>9. ASSUME end = "error", stream = EncodeAll(sent) PROVE FALSE
    <3>1. pos # Len(stream) BY <1>1, <2>9 DEF Placed
    <3>2. CASE values = sent
      <4>1. open = <<>>
        <5>1. ~(Len(values) < Len(sent)) BY <2>2, <3>2
        <5> QED BY <2>3, <5>1 DEF Follows
      <4>2. Done(open, values) = sent /\ Parent(sent, path, open) = sent
        BY <3>2, <4>1 DEF Done, Parent
      <4>3. ask = "tag"
        <5>1. ~(Len(sent) < Len(sent)) BY <2>2
        <5> QED BY <2>1, <4>2, <5>1 DEF Tracked
      <4>4. PlaceOf(sent, offs, path, open, values)
        BY <2>1, <2>2, DueAt DEF Tracked
      <4>5. offs[Len(open) + 1] = Len(EncodeAll(sent))
        BY <4>1, <4>2, <4>4 DEF PlaceOf
      <4>6. pos = offs[Len(open) + 1] BY <2>1, <4>3 DEF Tracked, Pending
      <4> QED BY <2>9, <3>1, <4>5, <4>6
    <3>3. CASE values # sent
      <4>1. Whole(sent, values) > Len(stream) BY <2>8, <2>9, <3>3
      <4>2. k + 1 \in 0..Len(sent) BY <2>2, <2>7, <3>3
      <4>3. At(EncodeAll(sent), 0, EncodeAll(SubSeq(sent, 1, k + 1)))
        BY <2>2, <4>2, PrefixAt
      <4>4. PICK n \in Nat : n = Len(EncodeAll(SubSeq(sent, 1, k + 1)))
        BY <2>2, <2>7, <3>3, WholeType
      <4>5. 0 + n <= Len(stream) BY <2>9, <4>3, <4>4 DEF At
      <4>6. n > Len(stream) BY <2>4, <4>1, <4>4 DEF Whole
      <4> QED BY <2>2, <4>4, <4>5, <4>6
    <3> QED BY <3>2, <3>3
  <2> QED BY <2>6, <2>8, <2>9
<1> QED BY <1>1, AlwaysPlaced, PTL
=============================================================================
