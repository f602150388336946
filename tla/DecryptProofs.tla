--------------------------- MODULE DecryptProofs ---------------------------
(***************************************************************************)
(* Proofs about Decrypt, for every set of blocks, payloads and metadata    *)
(* dicts and every bound.                                                  *)
(***************************************************************************)
EXTENDS Decrypt, SequenceTheorems, TLAPS

USE DEF Errors, Results, LocalErrors

(* Metas stays folded in this proof; these two facts are all it needs.     *)
LEMMA MetasType ==
  /\ [compress |-> 1, encrypt |-> 1, key |-> "none", sum |-> NoSum] \in Metas
  /\ \A d \in Dicts, m \in Metas :
       [f \in Fields |-> IF f \in DOMAIN d THEN d[f] ELSE m[f]] \in Metas
  BY DictsAssumption DEF Metas

(* The dropped last unit leaves a sequence.                                *)
LEMMA UnpadType == \A b \in Seq(Units) : Unpad(b) \in Seq(Units)
  BY SubSeqProperties, LenProperties DEF Unpad

(* One unit, or one result, is a sequence of them.                         *)
LEMMA SingletonType ==
  /\ \A u \in Units : <<u>> \in Seq(Units)
  /\ \A r \in Results : <<r>> \in Seq(Results) /\ Len(<<r>>) = 1
                        /\ Head(<<r>>) = r
  OBVIOUS

(* The parts of the typing that the two halves of a write disturb.         *)
LEMMA TailType ==
  \A s \in Seq(Units) : s # <<>> => Head(s) \in Units /\ Tail(s) \in Seq(Units)
  BY HeadTailProperties

(* One more unit leaves a sequence of units.                               *)
LEMMA AppendType ==
  \A s \in Seq(Units), u \in Units : Append(s, u) \in Seq(Units)
  BY AppendProperties

(* Concatenation over units: its type, associativity, neutral element.     *)
LEMMA ConcatType == \A a, b \in Seq(Units) : a \o b \in Seq(Units)
  BY ConcatProperties
(* Concatenation of units is associative.                                  *)
LEMMA Assoc ==
  \A a, b, c \in Seq(Units) : (a \o b) \o c = a \o (b \o c)
  BY ConcatAssociative
(* The empty sequence is neutral.                                          *)
LEMMA Neutral == \A a \in Seq(Units) : a \o <<>> = a /\ <<>> \o a = a
  BY ConcatEmptySeq
(* Handing on one unit moves the boundary between two sequences.           *)
LEMMA OneMoreUnit == \A a \in Seq(Units), u \in Units : Append(a, u) = a \o <<u>>
  BY AppendProperties, ConcatProperties
(* A sequence is its first unit and the rest.                              *)
LEMMA HeadFirst == \A s \in Seq(Units) : s # <<>> => s = <<Head(s)>> \o Tail(s)
  <1> SUFFICES ASSUME NEW s \in Seq(Units), s # <<>> PROVE s = <<Head(s)>> \o Tail(s)
     OBVIOUS
  <1>1. <<Head(s)>> \in Seq(Units) /\ Tail(s) \in Seq(Units) /\ Len(Tail(s)) = Len(s) - 1
     BY HeadTailProperties
  <1>2. Len(<<Head(s)>> \o Tail(s)) = Len(s) /\ Len(s) \in Nat
     BY <1>1, LenProperties, ConcatProperties
  <1>3. \A i \in 1..Len(s) : (<<Head(s)>> \o Tail(s))[i] = s[i]
     BY <1>1, HeadTailProperties, ConcatProperties, LenProperties
  <1> QED BY <1>1, <1>2, <1>3, SeqEqual, ConcatType
(* The trailer of a frame is the end mark and the padding.                 *)
LEMMA TrailerEnd == <<End>> \o <<Pad>> = <<End, Pad>>
  <1>1. <<End>> \in Seq(Units) /\ <<Pad>> \in Seq(Units)
    BY SingletonType DEF Units
  <1>2. <<End, Pad>> \in Seq(Units) /\ Len(<<End, Pad>>) = 2
    BY DEF Units
  <1>3. Len(<<End>>) = 1 /\ Len(<<Pad>>) = 1 /\ <<End>>[1] = End /\ <<Pad>>[1] = Pad
    OBVIOUS
  <1>4. Len(<<End>> \o <<Pad>>) = 2 BY <1>1, <1>3, ConcatProperties
  <1>5. \A i \in 1..2 : (<<End>> \o <<Pad>>)[i] = <<End, Pad>>[i]
    BY <1>1, <1>3, ConcatProperties
  <1> QED BY <1>1, <1>2, <1>4, <1>5, SeqEqual, ConcatType

(* Handing on the first unit of a write in progress leaves the account.    *)
LEMMA Shift ==
  \A a, s, r \in Seq(Units) :
     s # <<>> => Append(a, Head(s)) \o (Tail(s) \o r) = a \o (s \o r)
  <1> SUFFICES ASSUME NEW a \in Seq(Units), NEW s \in Seq(Units),
                      NEW r \in Seq(Units), s # <<>>
               PROVE  Append(a, Head(s)) \o (Tail(s) \o r) = a \o (s \o r)
    OBVIOUS
  <1> DEFINE h == <<Head(s)>>
  <1>1. h \in Seq(Units) /\ Tail(s) \in Seq(Units) /\ Tail(s) \o r \in Seq(Units)
    BY TailType, SingletonType, ConcatType
  <1>2. Append(a, Head(s)) = a \o h BY TailType, OneMoreUnit
  <1>3. s \o r = h \o (Tail(s) \o r)
    <2>1. s = h \o Tail(s) BY HeadFirst
    <2>2. (h \o Tail(s)) \o r = h \o (Tail(s) \o r) BY <1>1, Assoc
    <2> QED BY <2>1, <2>2, Zenon
  <1>4. (a \o h) \o (Tail(s) \o r) = a \o (h \o (Tail(s) \o r)) BY <1>1, Assoc
  <1> QED BY <1>2, <1>3, <1>4, Zenon

(* A concatenation with a last unit is not empty.                          *)
LEMMA NonEmpty ==
  \A a, b \in Seq(Units) : b # <<>> => a \o b # <<>>
  <1> SUFFICES ASSUME NEW a \in Seq(Units), NEW b \in Seq(Units), b # <<>>
               PROVE  a \o b # <<>>
    OBVIOUS
  <1>1. Len(a \o b) = Len(a) + Len(b) /\ Len(a) \in Nat /\ Len(b) \in Nat
    BY ConcatProperties, LenProperties
  <1>2. Len(b) # 0 BY EmptySeq
  <1> QED BY <1>1, <1>2

(* A non-empty payload is what unpadding leaves and its last unit.         *)
LEMMA UnpadRest ==
  \A s \in Seq(Units) : s # <<>> => s = Unpad(s) \o <<s[Len(s)]>>
  <1> SUFFICES ASSUME NEW s \in Seq(Units), s # <<>> PROVE s = Unpad(s) \o <<s[Len(s)]>>
     OBVIOUS
  <1>1. Len(s) \in Nat \ {0} /\ s[Len(s)] \in Units
    BY LenProperties, ElementOfSeq, EmptySeq
  <1>2. Unpad(s) \in Seq(Units) /\ Len(Unpad(s)) = Len(s) - 1 /\ \A i \in 1..Len(s)-1 : Unpad(s)[i] = s[i]
    <2>1. SubSeq(s, 1, Len(s) - 1) \in Seq(Units) BY <1>1, SubSeqProperties
    <2>2. Len(SubSeq(s, 1, Len(s) - 1)) = Len(s) - 1
          BY <1>1, SubSeqProperties
    <2>3. ASSUME NEW i \in 1..Len(s)-1 PROVE SubSeq(s, 1, Len(s) - 1)[i] = s[i]
          BY <1>1, <2>2, SubSeqProperties
    <2> QED BY <2>1, <2>2, <2>3 DEF Unpad
  <1>3. Len(Unpad(s) \o <<s[Len(s)]>>) = Len(s)
    BY <1>1, <1>2, ConcatProperties
  <1>4. \A i \in 1..Len(s) : (Unpad(s) \o <<s[Len(s)]>>)[i] = s[i]
    BY <1>1, <1>2, ConcatProperties
  <1> QED BY <1>1, <1>2, <1>3, <1>4, SeqEqual, ConcatType

(* The initial state is typed.                                             *)
LEMMA TypeInit == Init => TypeOK
  BY MetasType, MaxItemsAssumption, EmptySeq DEF Init, TypeOK

(* Every action keeps every variable in its type.                          *)
LEMMA TypeNext == TypeOK /\ [Next]_vars => TypeOK'
  <1> SUFFICES ASSUME TypeOK, [Next]_vars PROVE TypeOK'
      OBVIOUS
  <1> USE DEF TypeOK, mainVars, innerVars, lzVars, sinkVars, Return
  <1>1. CASE ConsumeMagic BY <1>1 DEF ConsumeMagic
  <1>2. CASE NextError BY <1>2 DEF NextError, Abort
  <1>3. CASE BadValue BY <1>3 DEF BadValue
  <1>4. CASE NextEnd
    <2>1. Unpad(pending) \in Seq(Units) BY UnpadType
    <2> QED BY <1>4, <2>1 DEF NextEnd, Abort, StartWrite
  <1>5. ASSUME NEW d \in Dicts, AbsorbDict(d) PROVE TypeOK'
    <2>1. meta' \in Metas BY <1>5, MetasType DEF AbsorbDict
    <2>2. items' \in 0..MaxItems
      BY <1>5, MaxItemsAssumption DEF AbsorbDict
    <2> QED BY <1>5, <2>1, <2>2 DEF AbsorbDict
  <1>6. ASSUME NEW p \in Payloads, FirstData(p) PROVE TypeOK'
    BY <1>6, UnitsAssumption, MaxItemsAssumption DEF FirstData
  <1>7. ASSUME NEW p \in Payloads, MoreData(p) PROVE TypeOK'
    <2>1. p \in Seq(Units) /\ fed \o p \in Seq(Units)
      BY UnitsAssumption, ConcatProperties
    <2>2. items' \in 0..MaxItems
      BY <1>7, MaxItemsAssumption DEF MoreData
    <2>3. CASE p = <<>> BY <1>7, <2>2, <2>3 DEF MoreData, Abort
    <2>4. CASE p # <<>>
      <3>1. cur' \in Seq(Units) /\ fed' \in Seq(Units)
        BY <1>7, <2>1, <2>4 DEF MoreData
      <3>2. wbuf' \in Seq(Units) /\ sbuf' \in Seq(Units)
        BY <1>7, <2>4 DEF MoreData, StartWrite
      <3>3. mpc' = "feed" BY <1>7, <2>4 DEF MoreData
      <3>4. UNCHANGED <<werr, doneCh, ret, meta, snap, pipe, pending, rerr,
                        lz, lzErr, out>>
        BY <1>7, <2>4 DEF MoreData
      <3> QED BY <1>7, <2>2, <3>1, <3>2, <3>3, <3>4
    <2> QED BY <2>3, <2>4
  <1>8. CASE Unwrap
    <2>1. <<"nil">> \in Seq(Results) /\ Len(<<"nil">>) = 1 BY SingletonType
    <2>2. doneCh' \in Seq(Results) /\ Len(doneCh') <= 1
      <3>1. doneCh' = doneCh \/ doneCh' = <<"nil">>
        BY <1>8 DEF Unwrap, OpenPipe
      <3>2. CASE doneCh' = doneCh BY <3>2
      <3>3. CASE doneCh' = <<"nil">>
        <4>1. Len(doneCh') = 1 BY <2>1, <3>3, Zenon
        <4>2. doneCh' \in Seq(Results) BY <2>1, <3>3, Zenon
        <4> QED BY <4>1, <4>2
      <3> QED BY <3>1, <3>2, <3>3
    <2>3. pipe' \in {"nil", "lz4", "direct"} /\ lz' \in {lz, "reading"}
      BY <1>8 DEF Unwrap, OpenPipe
    <2>4. pipe' = "lz4" <=> lz' # "idle"
      BY <1>8 DEF Unwrap, OpenPipe
    <2>5. lzErr' = "none" <=> lz' \in {"idle", "reading", "writing"}
      BY <1>8 DEF Unwrap, OpenPipe
    <2>6. pending' \in Seq(Units) /\ fed' \in Seq(Units) BY <1>8 DEF Unwrap
    <2>7. mpc' \in {"drain", "returned", "next"}
      BY <1>8 DEF Unwrap
    <2>8. werr' \in Errors \cup {"none"} /\ ret' \in Results \cup {"none"}
      BY <1>8 DEF Unwrap
    <2>9. UNCHANGED <<items, meta, snap, cur, wbuf, rerr, lzErr, sbuf, out>>
      BY <1>8 DEF Unwrap
    <2> QED BY <2>2, <2>3, <2>4, <2>5, <2>6, <2>7, <2>8, <2>9
  <1>9. CASE WriteError BY <1>9 DEF WriteError, Abort
  <1>10. CASE ClosePipe BY <1>10 DEF ClosePipe
  <1>11. CASE Drain BY <1>11 DEF Drain, Verdict
  <1>12. CASE LzTake
    <2>1. wbuf # <<>> => /\ Tail(wbuf) \in Seq(Units)
                         /\ <<Head(wbuf)>> \in Seq(Units)
      BY TailType, SingletonType
    <2>2. wbuf' \in Seq(Units)
      <3>1. CASE Len(wbuf) > 1
        <4>1. wbuf # <<>> BY <3>1
        <4> QED BY <1>12, <2>1, <3>1, <4>1 DEF LzTake
      <3>2. CASE ~(Len(wbuf) > 1) BY <1>12, <3>2, EmptySeq DEF LzTake
      <3> QED BY <3>1, <3>2
    <2>3. sbuf' \in Seq(Units) BY <1>12, <2>1 DEF LzTake
    <2>4. pending' \in Seq(Units) BY <1>12 DEF LzTake, Written
    <2> QED BY <1>12, <2>2, <2>3, <2>4 DEF LzTake, Written
  <1>13. CASE LzEOF BY <1>13 DEF LzEOF
  <1>14. CASE LzClose BY <1>14 DEF LzClose
  <1>15. CASE LzSend BY <1>15 DEF LzSend
  <1>16. CASE OutAccept
    <2>1. sbuf' \in Seq(Units) /\ out' \in Seq(Units)
      <3>1. CASE sbuf = <<>> BY <1>16, <3>1 DEF OutAccept
      <3>2. CASE sbuf # <<>>
        <4>1. Head(sbuf) \in Units /\ Tail(sbuf) \in Seq(Units)
          BY <3>2, TailType
        <4>2. Append(out, Head(sbuf)) \in Seq(Units) BY <4>1, AppendType
        <4> QED BY <1>16, <3>2, <4>1, <4>2 DEF OutAccept
      <3> QED BY <3>1, <3>2
    <2>2. pending' \in Seq(Units) /\ lz' \in {lz, "reading"}
      BY <1>16 DEF OutAccept, Written
    <2> QED BY <1>16, <2>1, <2>2 DEF OutAccept, Writing, Written
  <1>17. ASSUME NEW e \in SinkErrors, OutFail(e) PROVE TypeOK'
    BY <1>17, ErrorsAssumption DEF OutFail, Writing
  <1>18. CASE Done \/ UNCHANGED vars BY <1>18 DEF Done, vars
  <1> QED
    BY <1>1, <1>2, <1>3, <1>4, <1>5, <1>6, <1>7, <1>8, <1>9, <1>10, <1>11,
       <1>12, <1>13, <1>14, <1>15, <1>16, <1>17, <1>18
       DEF Next, Internal, ReadStream, Main, Lz

(* Type correctness of Decrypt, its pipe and its goroutine.                *)
THEOREM TypeCorrect == Spec => []TypeOK
  BY TypeInit, TypeNext, PTL DEF Spec

----------------------------------------------------------------------------
(* The inductive invariant.                                                *)

(* Where the goroutines are determines what the buffers may hold.          *)
Places ==
  /\ wbuf # <<>> => pipe = "lz4" /\ mpc \in {"feed", "tail"}
  /\ sbuf # <<>> => Writing
  /\ pipe = "nil" => fed = <<>> /\ out = <<>> /\ pending = <<>>
  /\ mpc = "next" /\ pipe # "nil" => pending # <<>>
  /\ mpc = "feed" => cur # <<>>
  /\ mpc \in {"feed", "tail", "close", "drain"} => pipe # "nil"
  /\ mpc = "close" => pipe = "lz4"

(* When the result is known, and what doneCh holds.                        *)
Answers ==
  /\ mpc \notin {"drain", "returned"} => ret = "none"
  /\ mpc = "drain" => ret # "nil"
  /\ mpc = "returned" => ret # "none"
  /\ pipe = "nil" => doneCh = <<>>
  /\ doneCh # <<>> /\ pipe = "lz4" => lz = "gone" /\ doneCh = <<lzErr>>
  /\ doneCh # <<>> /\ pipe # "lz4" => doneCh = <<"nil">>
  /\ mpc = "returned" /\ ret # "format" => lz \in {"idle", "gone"}

(* What `out` has and is being given is what was fed first, and one unit   *)
(* more was fed.                                                           *)
Prefix ==
  \E rest \in Seq(Units) : /\ fed = out \o (sbuf \o rest)
                           /\ fed # <<>> => rest # <<>>

IInv == TypeOK /\ Places /\ Answers /\ NothingLost /\ Prefix /\ SuccessIsComplete

(* Every action keeps the buffers where their writers are.                 *)
LEMMA PlacesNext ==
  TypeOK /\ Places /\ Answers /\ [Next]_vars => Places'
  <1> SUFFICES ASSUME TypeOK, Places, Answers, [Next]_vars PROVE Places'
    OBVIOUS
  <1> USE DEF TypeOK, Places, Answers, Writing, mainVars, innerVars, lzVars,
              sinkVars, Return
  <1>1. CASE ConsumeMagic
    BY <1>1 DEF ConsumeMagic
  <1>2. CASE NextError
    BY <1>2 DEF NextError, Abort
  <1>3. CASE BadValue
    BY <1>3 DEF BadValue
  <1>4. CASE NextEnd
    BY <1>4 DEF NextEnd, Abort, StartWrite
  <1>5. ASSUME NEW d \in Dicts, AbsorbDict(d) PROVE Places'
    BY <1>5 DEF AbsorbDict
  <1>6. ASSUME NEW p \in Payloads, FirstData(p) PROVE Places'
    BY <1>6 DEF FirstData
  <1>7. ASSUME NEW p \in Payloads, MoreData(p) PROVE Places'
    BY <1>7 DEF MoreData, Abort, StartWrite
  <1>8. CASE Unwrap
    BY <1>8 DEF Unwrap, OpenPipe
  <1>9. CASE WriteError
    BY <1>9 DEF WriteError, Abort
  <1>10. CASE ClosePipe
    BY <1>10 DEF ClosePipe
  <1>11. CASE Drain
    BY <1>11 DEF Drain, Verdict
  <1>12. CASE LzTake
    BY <1>12 DEF LzTake, Written
  <1>13. CASE LzEOF
    BY <1>13 DEF LzEOF
  <1>14. CASE LzClose
    BY <1>14 DEF LzClose
  <1>15. CASE LzSend
    BY <1>15 DEF LzSend
  <1>16. CASE OutAccept
    BY <1>16 DEF OutAccept, Writing, Written
  <1>17. ASSUME NEW e \in SinkErrors, OutFail(e) PROVE Places'
    BY <1>17 DEF OutFail, Writing
  <1>18. CASE Done \/ UNCHANGED vars
    BY <1>18 DEF Done, vars
  <1> QED
    BY <1>1, <1>2, <1>3, <1>4, <1>5, <1>6, <1>7, <1>8, <1>9, <1>10, <1>11,
       <1>12, <1>13, <1>14, <1>15, <1>16, <1>17, <1>18
       DEF Next, Internal, ReadStream, Main, Lz

(* Every action keeps results and answers where they belong.               *)
LEMMA AnswersNext ==
  TypeOK /\ Places /\ Answers /\ [Next]_vars => Answers'
  <1> SUFFICES ASSUME TypeOK, Places, Answers, [Next]_vars PROVE Answers'
    OBVIOUS
  <1> USE DEF TypeOK, Places, Answers, Writing, mainVars, innerVars, lzVars,
              sinkVars, Return
  <1>1. CASE ConsumeMagic
    BY <1>1 DEF ConsumeMagic
  <1>2. CASE NextError
    BY <1>2 DEF NextError, Abort
  <1>3. CASE BadValue
    BY <1>3 DEF BadValue
  <1>4. CASE NextEnd
    BY <1>4 DEF NextEnd, Abort, StartWrite
  <1>5. ASSUME NEW d \in Dicts, AbsorbDict(d) PROVE Answers'
    BY <1>5 DEF AbsorbDict
  <1>6. ASSUME NEW p \in Payloads, FirstData(p) PROVE Answers'
    BY <1>6 DEF FirstData
  <1>7. ASSUME NEW p \in Payloads, MoreData(p) PROVE Answers'
    BY <1>7 DEF MoreData, Abort, StartWrite
  <1>8. CASE Unwrap
    BY <1>8 DEF Unwrap, OpenPipe
  <1>9. CASE WriteError
    BY <1>9, ErrorsAssumption DEF WriteError, Abort
  <1>10. CASE ClosePipe
    BY <1>10 DEF ClosePipe
  <1>11. CASE Drain
    BY <1>11 DEF Drain, Verdict
  <1>12. CASE LzTake
    BY <1>12 DEF LzTake, Written
  <1>13. CASE LzEOF
    BY <1>13 DEF LzEOF
  <1>14. CASE LzClose
    BY <1>14 DEF LzClose
  <1>15. CASE LzSend
    BY <1>15 DEF LzSend
  <1>16. CASE OutAccept
    BY <1>16 DEF OutAccept, Writing, Written
  <1>17. ASSUME NEW e \in SinkErrors, OutFail(e) PROVE Answers'
    BY <1>17, ErrorsAssumption DEF OutFail, Writing
  <1>18. CASE Done \/ UNCHANGED vars
    BY <1>18 DEF Done, vars
  <1> QED
    BY <1>1, <1>2, <1>3, <1>4, <1>5, <1>6, <1>7, <1>8, <1>9, <1>10, <1>11,
       <1>12, <1>13, <1>14, <1>15, <1>16, <1>17, <1>18
       DEF Next, Internal, ReadStream, Main, Lz

(* The parts of Ahead are sequences of units.                              *)
LEMMA AheadType == TypeOK /\ pipe # "nil" => Ahead \in Seq(Units)
  <1> SUFFICES ASSUME TypeOK, pipe # "nil" PROVE Ahead \in Seq(Units)
    OBVIOUS
  <1>1. <<Pad>> \in Seq(Units) BY SingletonType DEF Units
  <1>2. wbuf \o cur \in Seq(Units) /\ wbuf \o <<Pad>> \in Seq(Units)
    BY <1>1, ConcatType DEF TypeOK
  <1> QED BY <1>2 DEF Ahead, TypeOK

(* A step that moves nothing and decides nothing keeps the account.        *)
LEMMA AccountKept ==
  ASSUME NothingLost, UNCHANGED <<fed, out, sbuf, lzErr, ret>>, Ahead' = Ahead
  PROVE  NothingLost'
  BY Zenon DEF NothingLost

(* A step that fails closes the account.                                   *)
LEMMA AccountClosed ==
  ASSUME ret' # "none" \/ lzErr' \notin {"none", "nil"}
  PROVE  NothingLost'
  BY DEF NothingLost

(* The first payload only fills the lookahead.                             *)
LEMMA UnwrapAccount == IInv /\ Unwrap => NothingLost'
  <1> SUFFICES ASSUME IInv, Unwrap PROVE NothingLost'
    OBVIOUS
  <1>1. CASE ret' # "none" BY <1>1, AccountClosed
  <1>2. CASE ret' = "none"
    <2>1. fed' = cur /\ pending' = cur /\ mpc' = "next" /\ UNCHANGED <<out, sbuf>>
      BY <1>2 DEF Unwrap, Return, sinkVars
    <2>2. pipe = "nil" /\ out = <<>> /\ sbuf = <<>> /\ cur \in Seq(Units)
      BY DEF IInv, TypeOK, Places, Unwrap, Writing
    <2>3. Ahead' = cur BY <2>1 DEF Ahead
    <2>4. cur = <<>> \o (<<>> \o (<<>> \o cur)) BY <2>2, Neutral
    <2> QED BY <2>1, <2>2, <2>3, <2>4 DEF NothingLost
  <1> QED BY <1>1, <1>2

(* A later payload: the block held back moves to the write in progress.    *)
LEMMA FeedAccount ==
  IInv /\ (\E p \in Payloads : MoreData(p)) => NothingLost'
  <1> SUFFICES ASSUME IInv, NEW p \in Payloads, MoreData(p) PROVE NothingLost'
    OBVIOUS
  <1>1. CASE ret' # "none" \/ lzErr' \notin {"none", "nil"}
    BY <1>1, AccountClosed
  <1>2. CASE ret' = "none" /\ lzErr' \in {"none", "nil"}
    <2>1. p # <<>> /\ fed' = fed \o p /\ cur' = p /\ mpc' = "feed" /\ mpc = "next"
      BY <1>2 DEF MoreData, Abort, Return
    <2>2. UNCHANGED <<ret, lzErr, pipe, out>> /\ pipe # "nil"
      BY <2>1 DEF MoreData, lzVars
    <2>3. PICK e \in {<<>>, <<End>>} : /\ fed = out \o (sbuf \o (e \o pending))
                                       /\ lzErr = "none" => e = <<>>
      BY <1>2, <2>1, <2>2 DEF IInv, NothingLost, Ahead
    <2>4. /\ p \in Seq(Units) /\ pending \in Seq(Units) /\ sbuf \in Seq(Units)
          /\ out \in Seq(Units) /\ e \in Seq(Units)
      BY UnitsAssumption, SingletonType, EmptySeq DEF IInv, TypeOK, Units
    <2>5. fed \o p = out \o (sbuf \o (e \o (pending \o p)))
      <3>1. e \o pending \in Seq(Units) /\ sbuf \o (e \o pending) \in Seq(Units)
        BY <2>4, ConcatType
      <3>2. fed \o p = out \o ((sbuf \o (e \o pending)) \o p)
        BY <2>3, <2>4, <3>1, Assoc
      <3>3. (sbuf \o (e \o pending)) \o p = sbuf \o ((e \o pending) \o p)
        BY <2>4, <3>1, Assoc
      <3>4. (e \o pending) \o p = e \o (pending \o p)
        BY <2>4, Assoc
      <3> QED BY <3>2, <3>3, <3>4, Zenon
    <2>6. CASE pipe = "lz4"
      <3>1. wbuf' = pending /\ UNCHANGED sbuf
        BY <2>1, <2>6 DEF MoreData, StartWrite
      <3>2. Ahead' = pending \o p BY <2>1, <3>1 DEF Ahead
      <3>3. fed' = out' \o (sbuf' \o (e \o Ahead'))
        BY <2>1, <2>2, <2>5, <3>1, <3>2, Zenon
      <3> QED BY <2>2, <2>3, <3>3 DEF NothingLost
    <2>7. CASE pipe = "direct"
      <3>1. wbuf = <<>> /\ wbuf' = <<>> /\ sbuf' = pending
        BY <2>1, <2>7 DEF MoreData, StartWrite, IInv, Places
      <3>2. sbuf = <<>> /\ lzErr = "none"
        BY <2>1, <2>7 DEF IInv, Places, Writing, TypeOK
      <3>3. Ahead' = p BY <2>1, <2>4, <3>1, Neutral DEF Ahead
      <3>4. e = <<>> BY <2>3, <3>2
      <3>5. fed' = out' \o (pending \o p)
        <4>1. pending \o p \in Seq(Units) BY <2>4, ConcatType
        <4>2. <<>> \o (<<>> \o (pending \o p)) = pending \o p BY <4>1, Neutral
        <4> QED BY <2>1, <2>2, <2>5, <3>2, <3>4, <4>2, Zenon
      <3>6. fed' = out' \o (sbuf' \o (<<>> \o Ahead'))
        BY <2>4, <3>1, <3>3, <3>5, Neutral
      <3> QED BY <2>2, <3>2, <3>6 DEF NothingLost
    <2> QED BY <2>2, <2>6, <2>7 DEF IInv, TypeOK
  <1> QED BY <1>1, <1>2

(* The tail: the block held back is split into content and padding.        *)
LEMMA EndAccount == IInv /\ NextEnd => NothingLost'
  <1> SUFFICES ASSUME IInv, NextEnd PROVE NothingLost'
    OBVIOUS
  <1>1. CASE ret' # "none" \/ lzErr' \notin {"none", "nil"}
    BY <1>1, AccountClosed
  <1>2. CASE ret' = "none" /\ lzErr' \in {"none", "nil"}
    <2> DEFINE u == Unpad(pending)
    <2>1. /\ mpc = "next" /\ mpc' = "tail" /\ pipe # "nil"
          /\ pending[Len(pending)] = Pad /\ StartWrite(u)
      BY <1>2 DEF NextEnd, Abort, Return
    <2>2. UNCHANGED <<fed, ret, lzErr, pipe, out>>
      BY <2>1 DEF NextEnd, lzVars, mainVars
    <2>3. PICK e \in {<<>>, <<End>>} : /\ fed = out \o (sbuf \o (e \o pending))
                                       /\ lzErr = "none" => e = <<>>
      BY <1>2, <2>1, <2>2 DEF IInv, NothingLost, Ahead
    <2>4. /\ pending \in Seq(Units) /\ pending # <<>> /\ u \in Seq(Units)
          /\ <<Pad>> \in Seq(Units)
      BY <2>1, UnpadType, SingletonType DEF IInv, TypeOK, Places, Units
    <2>5. pending = u \o <<Pad>>
      <3>1. pending = u \o <<pending[Len(pending)]>> BY <2>4, UnpadRest
      <3> QED BY <2>1, <3>1, Zenon
    <2>6. CASE pipe = "lz4"
      <3>1. wbuf' = u /\ UNCHANGED sbuf BY <2>1, <2>6 DEF StartWrite
      <3>2. Ahead' = pending BY <2>1, <2>5, <3>1 DEF Ahead
      <3>3. fed' = out' \o (sbuf' \o (e \o Ahead'))
        BY <2>2, <2>3, <3>1, <3>2, Zenon
      <3> QED BY <2>2, <2>3, <3>3 DEF NothingLost
    <2>7. CASE pipe = "direct"
      <3>1. wbuf = <<>> /\ wbuf' = <<>> /\ sbuf' = u
        BY <2>1, <2>7 DEF StartWrite, IInv, Places
      <3>2. sbuf = <<>> /\ lzErr = "none"
        BY <2>1, <2>7 DEF IInv, Places, Writing, TypeOK
      <3>3. Ahead' = <<Pad>> BY <2>1, <2>4, <3>1, Neutral DEF Ahead
      <3>4. e = <<>> BY <2>3, <3>2
      <3>5. fed = out \o pending
        <4>1. <<>> \o (<<>> \o pending) = pending BY <2>4, Neutral
        <4> QED BY <2>3, <3>2, <3>4, <4>1, Zenon
      <3>6. fed' = out' \o (sbuf' \o (<<>> \o Ahead'))
        <4>1. <<>> \o <<Pad>> = <<Pad>> BY <2>4, Neutral
        <4> QED BY <2>2, <2>5, <3>1, <3>3, <3>5, <4>1, Zenon
      <3> QED BY <2>2, <3>2, <3>6 DEF NothingLost
    <2> QED BY <2>1, <2>6, <2>7 DEF IInv, TypeOK
  <1> QED BY <1>1, <1>2

(* What a unit read or accepted leaves of a write in progress.             *)
LEMMA LastUnit ==
  \A s \in Seq(Units) : s # <<>> /\ ~(Len(s) > 1) => Tail(s) = <<>>
  <1> SUFFICES ASSUME NEW s \in Seq(Units), s # <<>>, ~(Len(s) > 1)
               PROVE  Tail(s) = <<>>
    OBVIOUS
  <1>1. Tail(s) \in Seq(Units) /\ Len(Tail(s)) = Len(s) - 1
    BY HeadTailProperties
  <1>2. Len(s) \in Nat /\ Len(Tail(s)) \in Nat BY <1>1, LenProperties
  <1>3. Len(Tail(s)) = 0 BY <1>1, <1>2
  <1> QED BY <1>1, <1>3, EmptySeq

(* The LZ4 goroutine reads one unit off the write in progress.             *)
LEMMA TakeAhead ==
  ASSUME IInv, LzTake, wbuf # <<>>
  PROVE  Ahead = <<Head(wbuf)>> \o Ahead'
  <1> DEFINE t == IF mpc = "feed" THEN cur ELSE <<Pad>>
  <1>1. /\ t \in Seq(Units) /\ wbuf \in Seq(Units) /\ Tail(wbuf) \in Seq(Units)
        /\ <<Head(wbuf)>> \in Seq(Units)
    BY TailType, SingletonType DEF IInv, TypeOK, Units
  <1>2. Ahead = wbuf \o t BY DEF LzTake, Ahead
  <1>3. Ahead' = Tail(wbuf) \o t
    <2>1. CASE Len(wbuf) > 1
      BY <2>1 DEF LzTake, Ahead
    <2>2. CASE ~(Len(wbuf) > 1)
      <3>1. Tail(wbuf) = <<>> /\ wbuf' = <<>> /\ cur' = cur
        BY <1>1, <2>2, LastUnit DEF LzTake
      <3>2. CASE mpc = "feed"
        <4>1. mpc' = "next" /\ pending' = cur
          BY <2>2, <3>2 DEF LzTake, Written
        <4>2. Ahead' = cur BY <4>1 DEF Ahead
        <4> QED BY <1>1, <3>1, <3>2, <4>2, Neutral
      <3>3. CASE mpc = "tail"
        <4>1. mpc' = "close" BY <2>2, <3>3 DEF LzTake, Written
        <4>2. Ahead' = <<>> \o <<Pad>> BY <3>1, <4>1 DEF Ahead
        <4> QED BY <3>1, <3>3, <4>2
      <3> QED BY <3>2, <3>3 DEF LzTake
    <2> QED BY <2>1, <2>2
  <1>4. wbuf = <<Head(wbuf)>> \o Tail(wbuf) BY <1>1, HeadFirst
  <1>5. (<<Head(wbuf)>> \o Tail(wbuf)) \o t = <<Head(wbuf)>> \o (Tail(wbuf) \o t)
    BY <1>1, Assoc
  <1> QED BY <1>2, <1>3, <1>4, <1>5, Zenon

(* The LZ4 goroutine's read settles the account.                           *)
LEMMA TakeAccount == IInv /\ LzTake => NothingLost'
  <1> SUFFICES ASSUME IInv, LzTake PROVE NothingLost'
    OBVIOUS
  <1>1. CASE wbuf = <<>>
    <2>1. UNCHANGED <<fed, out, sbuf, lzErr, ret>> /\ wbuf' = <<>> /\ cur' = cur
      BY <1>1 DEF LzTake, lzVars
    <2>2. CASE mpc = "feed"
      <3>1. mpc' = "next" /\ pending' = cur BY <1>1, <2>2 DEF LzTake, Written
      <3>2. Ahead' = cur BY <3>1 DEF Ahead
      <3>3. Ahead = cur BY <1>1, <2>2, Neutral DEF Ahead, IInv, TypeOK
      <3> QED BY <2>1, <3>2, <3>3, AccountKept DEF IInv
    <2>3. CASE mpc = "tail"
      <3>1. mpc' = "close" BY <1>1, <2>3 DEF LzTake, Written
      <3>2. Ahead' = Ahead BY <1>1, <2>1, <2>3, <3>1 DEF Ahead
      <3> QED BY <2>1, <3>2, AccountKept DEF IInv
    <2> QED BY <2>2, <2>3 DEF LzTake
  <1>2. CASE wbuf # <<>>
    <2>1. Ahead = <<Head(wbuf)>> \o Ahead' BY <1>2, TakeAhead
    <2>2. UNCHANGED <<fed, out, ret>> /\ ret = "none" /\ sbuf = <<>> /\ lzErr = "none"
      BY DEF LzTake, IInv, TypeOK, Places, Answers, Writing
    <2>3. fed = out \o (<<>> \o (<<>> \o Ahead))
      BY <2>2 DEF IInv, NothingLost
    <2>4. Ahead \in Seq(Units) BY AheadType DEF IInv, LzTake
    <2>5. fed = out \o (<<Head(wbuf)>> \o Ahead')
      <3>1. <<>> \o (<<>> \o Ahead) = Ahead BY <2>4, Neutral
      <3> QED BY <2>1, <2>3, <3>1, Zenon
    <2>6. Ahead' \in Seq(Units) /\ <<Head(wbuf)>> \in Seq(Units)
      <3>1. TypeOK' BY TypeNext DEF IInv, Next, Internal, Lz
      <3>2. pipe' # "nil" BY DEF LzTake
      <3>3. (TypeOK /\ pipe # "nil" => Ahead \in Seq(Units))'
        BY AheadType, PTL
      <3>4. Ahead' \in Seq(Units) BY <3>1, <3>2, <3>3
      <3> QED BY <1>2, <3>4, TailType, SingletonType DEF IInv, TypeOK
    <2>7. CASE Head(wbuf) \in Blocks
      <3>1. sbuf' = <<Head(wbuf)>> /\ UNCHANGED lzErr
        BY <1>2, <2>7, UnitsAssumption DEF LzTake
      <3>2. <<>> \o Ahead' = Ahead' BY <2>6, Neutral
      <3>3. fed' = out' \o (sbuf' \o (<<>> \o Ahead'))
        BY <2>2, <2>5, <3>1, <3>2, Zenon
      <3> QED BY <3>3 DEF NothingLost
    <2>8. CASE Head(wbuf) = End
      <3>1. lzErr' = "nil" /\ sbuf' = <<>>
        BY <1>2, <2>2, <2>8, UnitsAssumption DEF LzTake
      <3>2. <<>> \o (<<End>> \o Ahead') = <<End>> \o Ahead'
        BY <2>6, <2>8, ConcatType, Neutral
      <3>3. fed' = out' \o (sbuf' \o (<<End>> \o Ahead'))
        BY <2>2, <2>5, <2>8, <3>1, <3>2, Zenon
      <3> QED BY <3>1, <3>3 DEF NothingLost
    <2>9. CASE Head(wbuf) \notin Blocks /\ Head(wbuf) # End
      BY <1>2, <2>9, AccountClosed DEF LzTake
    <2> QED BY <2>7, <2>8, <2>9
  <1> QED BY <1>1, <1>2

(* `out` accepts one unit of the write in progress on it.                  *)
LEMMA AcceptAhead == ASSUME IInv, OutAccept PROVE Ahead' = Ahead
  <1>1. CASE Len(sbuf) > 1 \/ lz = "writing"
    BY <1>1 DEF OutAccept, Ahead, innerVars
  <1>2. CASE ~(Len(sbuf) > 1 \/ lz = "writing")
    <2>1. /\ pipe = "direct" /\ mpc \in {"feed", "tail"} /\ wbuf = <<>>
          /\ UNCHANGED <<wbuf, cur, pipe>> /\ Written /\ cur \in Seq(Units)
      BY <1>2 DEF OutAccept, Writing, innerVars, IInv, Places, TypeOK
    <2>2. CASE mpc = "feed"
      <3>1. mpc' = "next" /\ pending' = cur BY <2>1, <2>2 DEF Written
      <3>2. Ahead' = cur BY <3>1 DEF Ahead
      <3>3. Ahead = <<>> \o cur BY <2>1, <2>2 DEF Ahead
      <3> QED BY <2>1, <3>2, <3>3, Neutral
    <2>3. CASE mpc = "tail"
      <3>1. mpc' = "drain" BY <2>1, <2>3 DEF Written
      <3> QED BY <2>1, <2>3, <3>1 DEF Ahead
    <2> QED BY <2>1, <2>2, <2>3
  <1> QED BY <1>1, <1>2

(* What `out` accepts settles the account.                                 *)
LEMMA AcceptAccount == IInv /\ OutAccept => NothingLost'
  <1> SUFFICES ASSUME IInv, OutAccept PROVE NothingLost'
    OBVIOUS
  <1>1. Ahead' = Ahead BY AcceptAhead
  <1>2. CASE sbuf = <<>>
    <2>1. UNCHANGED <<fed, out, sbuf, lzErr, ret>>
      BY <1>2 DEF OutAccept, sinkVars
    <2> QED BY <1>1, <2>1, AccountKept DEF IInv
  <1>3. CASE sbuf # <<>> /\ ret = "none" /\ lzErr \in {"none", "nil"}
    <2>1. /\ out' = Append(out, Head(sbuf)) /\ sbuf' = Tail(sbuf)
          /\ UNCHANGED <<fed, lzErr, ret>>
      BY <1>3 DEF OutAccept
    <2>2. PICK e \in {<<>>, <<End>>} : /\ fed = out \o (sbuf \o (e \o Ahead))
                                       /\ lzErr = "none" => e = <<>>
      BY <1>3 DEF IInv, NothingLost
    <2>3. e \o Ahead \in Seq(Units) /\ out \in Seq(Units) /\ sbuf \in Seq(Units)
      <3>1. e \in Seq(Units) BY SingletonType, EmptySeq DEF Units
      <3>2. pipe # "nil" BY DEF OutAccept, Writing, IInv, TypeOK
      <3> QED BY <3>1, <3>2, AheadType, ConcatType DEF IInv, TypeOK
    <2>4. out' \o (sbuf' \o (e \o Ahead)) = out \o (sbuf \o (e \o Ahead))
      <3>1. Append(out, Head(sbuf)) \o (Tail(sbuf) \o (e \o Ahead))
              = out \o (sbuf \o (e \o Ahead))
        BY <1>3, <2>3, Shift
      <3> QED BY <2>1, <3>1, Zenon
    <2>5. fed' = out' \o (sbuf' \o (e \o Ahead'))
      BY <1>1, <2>1, <2>2, <2>4, Zenon
    <2> QED BY <2>1, <2>2, <2>5 DEF NothingLost
  <1>4. CASE ~(ret = "none" /\ lzErr \in {"none", "nil"})
    <2>1. UNCHANGED <<lzErr, ret>> BY DEF OutAccept
    <2> QED BY <1>4, <2>1, AccountClosed
  <1> QED BY <1>2, <1>3, <1>4

(* No action loses, duplicates or reorders a unit.                         *)
LEMMA AccountNext == IInv /\ [Next]_vars => NothingLost'
  <1> SUFFICES ASSUME IInv, [Next]_vars PROVE NothingLost'
    OBVIOUS
  <1> USE DEF mainVars, innerVars, lzVars, sinkVars, Return
  <1>0. TypeOK /\ Places /\ Answers /\ NothingLost BY DEF IInv
  <1>1. CASE ConsumeMagic
    <2>1. CASE ret' # "none" BY <2>1, AccountClosed
    <2>2. CASE ret' = "none"
      <3>1. UNCHANGED <<fed, out, sbuf, lzErr, ret>>
        BY <1>1, <2>2 DEF ConsumeMagic
      <3>2. Ahead' = Ahead BY <1>1, <2>2 DEF ConsumeMagic, Ahead
      <3> QED BY <1>0, <3>1, <3>2, AccountKept
    <2> QED BY <2>1, <2>2
  <1>2. CASE NextError
    <2>1. ret' # "none" BY <1>2 DEF NextError, Abort
    <2> QED BY <2>1, AccountClosed
  <1>3. CASE BadValue
    <2>1. ret' # "none" BY <1>3 DEF BadValue
    <2> QED BY <2>1, AccountClosed
  <1>4. CASE NextEnd BY <1>4, EndAccount
  <1>5. ASSUME NEW d \in Dicts, AbsorbDict(d) PROVE NothingLost'
    <2>1. UNCHANGED <<fed, out, sbuf, lzErr, ret>> BY <1>5 DEF AbsorbDict
    <2>2. Ahead' = Ahead BY <1>5 DEF AbsorbDict, Ahead
    <2> QED BY <1>0, <2>1, <2>2, AccountKept
  <1>6. ASSUME NEW p \in Payloads, FirstData(p) PROVE NothingLost'
    <2>1. CASE SupportedModes
      <3>1. UNCHANGED <<fed, out, sbuf, lzErr, ret>>
        BY <1>6, <2>1 DEF FirstData
      <3>2. Ahead' = Ahead BY <1>6, <2>1 DEF FirstData, Ahead
      <3> QED BY <1>0, <3>1, <3>2, AccountKept
    <2>2. CASE ~SupportedModes
      <3>1. ret' # "none" BY <1>6, <2>2 DEF FirstData
      <3> QED BY <3>1, AccountClosed
    <2> QED BY <2>1, <2>2
  <1>7. ASSUME NEW p \in Payloads, MoreData(p) PROVE NothingLost'
    BY <1>7, FeedAccount
  <1>8. CASE Unwrap BY <1>8, UnwrapAccount
  <1>9. CASE WriteError
    <2>1. ret' # "none" BY <1>9 DEF WriteError, Abort
    <2> QED BY <2>1, AccountClosed
  <1>10. CASE ClosePipe
    <2>1. UNCHANGED <<fed, out, sbuf, lzErr, ret>> BY <1>10 DEF ClosePipe
    <2>2. Ahead' = Ahead BY <1>10 DEF ClosePipe, Ahead
    <2> QED BY <1>0, <2>1, <2>2, AccountKept
  <1>11. CASE Drain
    <2>1. mpc' = "returned" BY <1>11 DEF Drain
    <2>2. Answers' BY <1>0, AnswersNext
    <2>3. ret' # "none" BY <2>1, <2>2 DEF Answers
    <2> QED BY <2>3, AccountClosed
  <1>12. CASE LzTake BY <1>12, TakeAccount
  <1>13. CASE LzEOF
    <2>1. UNCHANGED <<fed, out, sbuf, ret>> /\ lzErr = "none"
      BY <1>0, <1>13 DEF LzEOF, TypeOK
    <2>2. Ahead' = Ahead BY <1>13 DEF LzEOF, Ahead
    <2> QED BY <1>0, <2>1, <2>2 DEF NothingLost
  <1>14. CASE LzClose
    <2>1. UNCHANGED <<fed, out, sbuf, lzErr, ret>> BY <1>14 DEF LzClose
    <2>2. Ahead' = Ahead BY <1>14 DEF LzClose, Ahead
    <2> QED BY <1>0, <2>1, <2>2, AccountKept
  <1>15. CASE LzSend
    <2>1. UNCHANGED <<fed, out, sbuf, lzErr, ret>> BY <1>15 DEF LzSend
    <2>2. Ahead' = Ahead BY <1>15 DEF LzSend, Ahead
    <2> QED BY <1>0, <2>1, <2>2, AccountKept
  <1>16. CASE OutAccept BY <1>16, AcceptAccount
  <1>17. ASSUME NEW e \in SinkErrors, OutFail(e) PROVE NothingLost'
    <2>1. ret' # "none" \/ lzErr' \notin {"none", "nil"}
      BY <1>17, ErrorsAssumption DEF OutFail
    <2> QED BY <2>1, AccountClosed
  <1>18. CASE Done \/ UNCHANGED vars
    <2>1. UNCHANGED <<fed, out, sbuf, lzErr, ret>> BY <1>18 DEF Done, vars
    <2>2. Ahead' = Ahead BY <1>18 DEF Done, vars, Ahead
    <2> QED BY <1>0, <2>1, <2>2, AccountKept
  <1> QED
    BY <1>1, <1>2, <1>3, <1>4, <1>5, <1>6, <1>7, <1>8, <1>9, <1>10, <1>11,
       <1>12, <1>13, <1>14, <1>15, <1>16, <1>17, <1>18
       DEF Next, Internal, ReadStream, Main, Lz

(* While nothing failed the account itself says that `out` has a prefix.   *)
LEMMA AccountPrefix ==
  TypeOK /\ Places /\ Answers /\ NothingLost
    /\ ret = "none" /\ lzErr \in {"none", "nil"} => Prefix
  <1> SUFFICES ASSUME TypeOK, Places, Answers, NothingLost, ret = "none",
                      lzErr \in {"none", "nil"}
               PROVE  Prefix
    OBVIOUS
  <1>1. CASE pipe = "nil"
    <2>1. fed = <<>> /\ out = <<>> /\ sbuf = <<>> BY <1>1 DEF Places, Writing, TypeOK
    <2>2. <<>> \in Seq(Units) BY EmptySeq
    <2>3. <<>> \o (<<>> \o <<>>) = <<>> BY <2>2, Neutral
    <2> QED BY <2>1, <2>2, <2>3 DEF Prefix
  <1>2. CASE pipe # "nil"
    <2>1. PICK e \in {<<>>, <<End>>} : fed = out \o (sbuf \o (e \o Ahead))
      BY DEF NothingLost
    <2>2. e \in Seq(Units) /\ Ahead \in Seq(Units)
      BY <1>2, AheadType, SingletonType, EmptySeq DEF Units
    <2>3. Ahead # <<>>
      <3>1. <<Pad>> \in Seq(Units) /\ <<Pad>> # <<>> BY SingletonType DEF Units
      <3>2. mpc \in {"next", "feed", "tail", "close", "drain"}
        BY <1>2 DEF TypeOK, Answers
      <3>3. CASE mpc = "next" BY <1>2, <3>3 DEF Ahead, Places
      <3>4. CASE mpc = "feed" BY <3>4, NonEmpty DEF Ahead, Places, TypeOK
      <3>5. CASE mpc \in {"tail", "close", "drain"}
        BY <3>1, <3>5, NonEmpty DEF Ahead, TypeOK
      <3> QED BY <3>2, <3>3, <3>4, <3>5
    <2>4. e \o Ahead \in Seq(Units) /\ e \o Ahead # <<>>
      BY <2>2, <2>3, ConcatType, NonEmpty
    <2> QED BY <2>1, <2>4 DEF Prefix
  <1> QED BY <1>1, <1>2

(* `out` stays a proper prefix of what was fed.                            *)
LEMMA PrefixNext == IInv /\ [Next]_vars => Prefix'
  <1> SUFFICES ASSUME IInv, [Next]_vars PROVE Prefix'
    OBVIOUS
  <1> USE DEF mainVars, innerVars, lzVars, sinkVars, Return
  <1>0. (TypeOK /\ Places /\ Answers /\ NothingLost)'
    BY TypeNext, PlacesNext, AnswersNext, AccountNext DEF IInv
  <1>1. CASE ret' = "none" /\ lzErr' \in {"none", "nil"}
    <2>1. (TypeOK /\ Places /\ Answers /\ NothingLost
             /\ ret = "none" /\ lzErr \in {"none", "nil"} => Prefix)'
      BY AccountPrefix, PTL
    <2> QED BY <1>0, <1>1, <2>1
  <1>2. ASSUME UNCHANGED <<fed, out, sbuf>> PROVE Prefix'
    BY <1>2 DEF IInv, Prefix
  <1>3. ASSUME NEW p \in Payloads, MoreData(p), ret' = "none",
               lzErr' \notin {"none", "nil"}
        PROVE  Prefix'
    <2>1. fed' = fed \o p /\ p # <<>> /\ pipe = "lz4"
      BY <1>3 DEF MoreData, Abort, IInv, TypeOK
    <2>2. UNCHANGED <<sbuf, out>> BY <1>3, <2>1 DEF MoreData, StartWrite
    <2>3. PICK rest \in Seq(Units) : fed = out \o (sbuf \o rest)
      BY DEF IInv, Prefix
    <2>4. p \in Seq(Units) /\ sbuf \in Seq(Units) /\ out \in Seq(Units)
      BY UnitsAssumption DEF IInv, TypeOK
    <2>5. rest \o p \in Seq(Units) /\ rest \o p # <<>>
      BY <2>1, <2>3, <2>4, ConcatType, NonEmpty
    <2>6. fed \o p = out \o (sbuf \o (rest \o p))
      <3>1. sbuf \o rest \in Seq(Units) BY <2>3, <2>4, ConcatType
      <3>2. fed \o p = out \o ((sbuf \o rest) \o p)
        BY <2>3, <2>4, <3>1, Assoc
      <3>3. (sbuf \o rest) \o p = sbuf \o (rest \o p)
        BY <2>3, <2>4, Assoc
      <3> QED BY <3>2, <3>3, Zenon
    <2> QED BY <2>1, <2>2, <2>5, <2>6 DEF Prefix
  <1>4. ASSUME NEW p \in Payloads, MoreData(p), ret' # "none" PROVE Prefix'
    <2>1. UNCHANGED <<fed, out, sbuf>>
      BY <1>4 DEF MoreData, StartWrite, IInv, Answers
    <2> QED BY <1>2, <2>1
  <1>5. ASSUME UNCHANGED <<fed, out>>, sbuf' = <<>> PROVE Prefix'
    <2>1. PICK rest \in Seq(Units) : /\ fed = out \o (sbuf \o rest)
                                     /\ fed # <<>> => rest # <<>>
      BY DEF IInv, Prefix
    <2>2. sbuf \o rest \in Seq(Units) /\ (rest # <<>> => sbuf \o rest # <<>>)
      BY <2>1, ConcatType, NonEmpty DEF IInv, TypeOK
    <2>3. <<>> \o (sbuf \o rest) = sbuf \o rest BY <2>2, Neutral
    <2> QED BY <1>5, <2>1, <2>2, <2>3 DEF Prefix
  <1>6. CASE OutAccept
    <2>1. CASE sbuf = <<>>
      <3>1. UNCHANGED <<fed, out, sbuf>> BY <1>6, <2>1 DEF OutAccept
      <3> QED BY <1>2, <3>1
    <2>2. CASE sbuf # <<>>
      <3>1. /\ out' = Append(out, Head(sbuf)) /\ sbuf' = Tail(sbuf)
            /\ UNCHANGED fed
        BY <1>6, <2>2 DEF OutAccept
      <3>2. PICK rest \in Seq(Units) : /\ fed = out \o (sbuf \o rest)
                                       /\ fed # <<>> => rest # <<>>
        BY DEF IInv, Prefix
      <3>3. Append(out, Head(sbuf)) \o (Tail(sbuf) \o rest) = fed
        <4>1. out \in Seq(Units) /\ sbuf \in Seq(Units) BY DEF IInv, TypeOK
        <4> QED BY <2>2, <3>2, <4>1, Shift
      <3>4. fed' = out' \o (sbuf' \o rest) BY <3>1, <3>3, Zenon
      <3> QED BY <3>1, <3>2, <3>4 DEF Prefix
    <2> QED BY <2>1, <2>2
  <1>7. ASSUME NEW e \in SinkErrors, OutFail(e) PROVE Prefix'
    BY <1>5, <1>7 DEF OutFail
  <1>8. CASE Unwrap /\ ~(ret' = "none" /\ lzErr' \in {"none", "nil"})
    <2>1. CASE fed' = fed BY <1>2, <1>8, <2>1 DEF Unwrap
    <2>2. CASE fed' # fed
      <3>1. ret' = "none" /\ lzErr' = lzErr
        BY <1>8, <2>2 DEF Unwrap, IInv, Answers
      <3>2. lzErr = "none" BY <1>8 DEF Unwrap, IInv, TypeOK
      <3> QED BY <1>8, <3>1, <3>2
    <2> QED BY <2>1, <2>2
  <1>9. CASE NextEnd /\ ~(ret' = "none" /\ lzErr' \in {"none", "nil"})
    <2>1. UNCHANGED <<fed, out>> BY <1>9 DEF NextEnd
    <2>2. CASE sbuf' = sbuf BY <1>2, <2>1, <2>2
    <2>3. CASE sbuf' # sbuf
      <3>1. pipe = "direct" /\ ret' = "none" /\ lzErr' = lzErr
        BY <1>9, <2>3 DEF NextEnd, StartWrite, IInv, Answers, TypeOK
      <3>2. lzErr = "none" BY <3>1 DEF IInv, TypeOK
      <3> QED BY <1>9, <3>1, <3>2
    <2> QED BY <2>2, <2>3
  <1>10. CASE LzTake /\ ~(ret' = "none" /\ lzErr' \in {"none", "nil"})
    <2>1. ret' = "none" BY <1>10 DEF LzTake, IInv, Answers
    <2>2. UNCHANGED <<fed, out, sbuf>>
      BY <1>10, <2>1 DEF LzTake, IInv, TypeOK
    <2> QED BY <1>2, <2>2
  <1>11. CASE \/ ConsumeMagic \/ NextError \/ BadValue \/ WriteError
              \/ ClosePipe \/ Drain \/ LzEOF \/ LzClose \/ LzSend
              \/ Done \/ UNCHANGED vars
    <2>1. UNCHANGED <<fed, out, sbuf>>
      BY <1>11 DEF ConsumeMagic, NextError, BadValue, WriteError, ClosePipe,
         Drain, LzEOF, LzClose, LzSend, Done, vars
    <2> QED BY <1>2, <2>1
  <1>12. ASSUME NEW d \in Dicts, AbsorbDict(d) PROVE Prefix'
    BY <1>2, <1>12 DEF AbsorbDict
  <1>13. ASSUME NEW p \in Payloads, FirstData(p) PROVE Prefix'
    BY <1>2, <1>13 DEF FirstData
  <1> QED
    BY <1>1, <1>3, <1>4, <1>6, <1>7, <1>8, <1>9, <1>10, <1>11, <1>12, <1>13
       DEF Next, Internal, ReadStream, Main, Lz

(* After the return Decrypt's own goroutine does nothing, and where the    *)
(* LZ4 goroutine is gone or never was, nothing else moves either.          *)
LEMMA AfterReturn ==
  TypeOK /\ mpc = "returned" /\ [Next]_vars =>
    /\ UNCHANGED <<mpc, ret, fed, meta>>
    /\ lz \in {"idle", "gone"} => UNCHANGED <<out, lz, sbuf>>
  <1> SUFFICES ASSUME TypeOK, mpc = "returned", [Next]_vars
               PROVE  /\ UNCHANGED <<mpc, ret, fed, meta>>
                      /\ lz \in {"idle", "gone"} => UNCHANGED <<out, lz, sbuf>>
    OBVIOUS
  <1> USE DEF mainVars, innerVars, lzVars, sinkVars
  <1>1. CASE Internal
    <2>1. LzEOF \/ LzClose \/ LzSend
      BY <1>1 DEF Internal, ReadStream, Main, Lz, ConsumeMagic, NextError,
         BadValue, NextEnd, AbsorbDict, FirstData, MoreData, Unwrap,
         WriteError, ClosePipe, Drain, LzTake
    <2> QED BY <2>1 DEF LzEOF, LzClose, LzSend
  <1>2. CASE OutAccept
    <2>1. lz = "writing" BY <1>2 DEF OutAccept, Writing
    <2> QED BY <1>2, <2>1 DEF OutAccept
  <1>3. ASSUME NEW e \in SinkErrors, OutFail(e)
        PROVE  /\ UNCHANGED <<mpc, ret, fed, meta>>
               /\ lz \in {"idle", "gone"} => UNCHANGED <<out, lz, sbuf>>
    <2>1. lz = "writing" BY <1>3 DEF OutFail, Writing
    <2> QED BY <1>3, <2>1 DEF OutFail
  <1>4. CASE Done \/ UNCHANGED vars BY <1>4 DEF Done, vars
  <1> QED BY <1>1, <1>2, <1>3, <1>4 DEF Next

(* The step that returns moves nothing; only Drain may return nil.         *)
LEMMA ReturnStep ==
  TypeOK /\ Answers /\ mpc # "returned" /\ mpc' = "returned" /\ [Next]_vars =>
    /\ UNCHANGED <<fed, out>>
    /\ Drain \/ ret' \in Errors
  <1> SUFFICES ASSUME TypeOK, Answers, mpc # "returned", mpc' = "returned",
                      [Next]_vars
               PROVE  UNCHANGED <<fed, out>> /\ (Drain \/ ret' \in Errors)
    OBVIOUS
  <1> USE DEF mainVars, innerVars, lzVars, sinkVars, Return
  <1>1. CASE ConsumeMagic \/ BadValue BY <1>1 DEF ConsumeMagic, BadValue
  <1>2. CASE NextError BY <1>2 DEF NextError, Abort
  <1>3. CASE NextEnd BY <1>3 DEF NextEnd, Abort
  <1>4. ASSUME NEW d \in Dicts, AbsorbDict(d) PROVE FALSE
    BY <1>4 DEF AbsorbDict
  <1>5. ASSUME NEW p \in Payloads, FirstData(p)
        PROVE  UNCHANGED <<fed, out>> /\ ret' \in Errors
    BY <1>5 DEF FirstData
  <1>6. ASSUME NEW p \in Payloads, MoreData(p)
        PROVE  UNCHANGED <<fed, out>> /\ ret' \in Errors
    BY <1>6 DEF MoreData, Abort
  <1>7. CASE Unwrap BY <1>7 DEF Unwrap
  <1>8. CASE WriteError BY <1>8 DEF WriteError, Abort, TypeOK
  <1>9. CASE Drain BY <1>9 DEF Drain
  <1>10. CASE ClosePipe \/ LzEOF \/ LzClose \/ LzSend
    BY <1>10 DEF ClosePipe, LzEOF, LzClose, LzSend
  <1>11. CASE LzTake \/ OutAccept
    BY <1>11 DEF LzTake, OutAccept, Written
  <1>12. ASSUME NEW e \in SinkErrors, OutFail(e)
         PROVE  UNCHANGED <<fed, out>> /\ ret' \in Errors
    BY <1>12 DEF OutFail
  <1>13. CASE Done \/ UNCHANGED vars BY <1>13 DEF Done, vars
  <1> QED
    BY <1>1, <1>2, <1>3, <1>4, <1>5, <1>6, <1>7, <1>8, <1>9, <1>10, <1>11,
       <1>12, <1>13 DEF Next, Internal, ReadStream, Main, Lz

(* Only Drain reports success, and only when the account is settled.       *)
LEMMA SuccessNext == IInv /\ [Next]_vars => SuccessIsComplete'
  <1> SUFFICES ASSUME IInv, [Next]_vars, ret' = "nil", mpc' = "returned"
               PROVE  SuccessIsComplete'
    BY DEF SuccessIsComplete
  <1> USE DEF mainVars, innerVars, lzVars, sinkVars, Return
  <1>0. TypeOK /\ Places /\ Answers /\ NothingLost /\ SuccessIsComplete
    BY DEF IInv
  <1>1. CASE Drain
    <2>1. /\ mpc = "drain" /\ ret = "none" /\ doneCh # <<>>
          /\ Verdict(Head(doneCh)) = "nil"
          /\ UNCHANGED <<fed, out, meta, lz>>
      BY <1>0, <1>1 DEF Drain, Answers
    <2>2. Head(doneCh) = "nil" /\ meta.sum \in {NoSum, out}
      BY <2>1 DEF Verdict
    <2>3. lzErr \in {"none", "nil"} /\ lz \in {"idle", "gone"}
      <3>1. CASE pipe = "lz4"
        <4>1. lz = "gone" /\ doneCh = <<lzErr>> BY <1>0, <2>1, <3>1 DEF Answers
        <4> QED BY <2>2, <4>1
      <3>2. CASE pipe # "lz4" BY <1>0, <3>2 DEF TypeOK
      <3> QED BY <3>1, <3>2
    <2>4. sbuf = <<>> /\ wbuf = <<>>
      BY <1>0, <2>1, <2>3 DEF Places, Writing
    <2>5. PICK e \in {<<>>, <<End>>} : fed = out \o (sbuf \o (e \o Ahead))
      BY <1>0, <2>1, <2>3 DEF NothingLost
    <2>6. Ahead = <<Pad>> /\ <<Pad>> \in Seq(Units) /\ e \in Seq(Units)
      BY <2>1, <2>4, Neutral, SingletonType, EmptySeq DEF Ahead, Units
    <2>7. fed = out \o (e \o <<Pad>>)
      <3>1. e \o <<Pad>> \in Seq(Units) BY <2>6, ConcatType
      <3>2. <<>> \o (e \o <<Pad>>) = e \o <<Pad>> BY <3>1, Neutral
      <3> QED BY <2>4, <2>5, <2>6, <3>2, Zenon
    <2>8. e \o <<Pad>> \in {<<Pad>>, <<End, Pad>>}
      <3>1. <<End>> \o <<Pad>> = <<End, Pad>> BY TrailerEnd
      <3>2. <<>> \o <<Pad>> = <<Pad>> BY <2>6, Neutral
      <3> QED BY <3>1, <3>2
    <2> QED BY <2>1, <2>2, <2>3, <2>7, <2>8 DEF SuccessIsComplete
  <1>2. CASE mpc = "returned"
    <2>1. /\ UNCHANGED <<mpc, ret, fed, meta>>
          /\ lz \in {"idle", "gone"} => UNCHANGED <<out, lz, sbuf>>
      BY <1>0, <1>2, AfterReturn
    <2> QED BY <1>0, <1>2, <2>1 DEF SuccessIsComplete
  <1>3. CASE ~Drain /\ mpc # "returned"
    <2>1. ret' \in Errors BY <1>0, <1>3, ReturnStep
    <2> QED BY <2>1, ErrorsAssumption
  <1> QED BY <1>1, <1>2, <1>3

(* The inductive invariant holds at first and is kept.                     *)
LEMMA InvInit == Init => IInv
  <1> SUFFICES ASSUME Init PROVE IInv
    OBVIOUS
  <1>1. TypeOK BY TypeInit
  <1>2. Places /\ Answers /\ SuccessIsComplete
    BY DEF Init, Places, Answers, SuccessIsComplete
  <1>3. <<>> \in Seq(Units) /\ <<>> \o (<<>> \o (<<>> \o <<>>)) = <<>>
    BY EmptySeq, Neutral
  <1>4. NothingLost
    <2>1. Ahead = <<>> BY DEF Init, Ahead
    <2> QED BY <1>3, <2>1 DEF Init, NothingLost
  <1>5. Prefix
    BY <1>1, <1>2, <1>4, AccountPrefix DEF Init
  <1> QED BY <1>1, <1>2, <1>4, <1>5 DEF IInv

(* Every step keeps the inductive invariant.                               *)
LEMMA InvNext == IInv /\ [Next]_vars => IInv'
  BY TypeNext, PlacesNext, AnswersNext, AccountNext, PrefixNext, SuccessNext
     DEF IInv

(* The invariant behind the theorems below.                                *)
THEOREM Invariant == Spec => []IInv
  BY InvInit, InvNext, PTL DEF Spec

(* No unit of the stream is lost, duplicated or reordered.                 *)
THEOREM NoUnitLost == Spec => []NothingLost
  <1>1. IInv => NothingLost BY DEF IInv
  <1> QED BY <1>1, Invariant, PTL

(* A nil result is a complete and verified plaintext.                      *)
THEOREM SuccessComplete == Spec => []SuccessIsComplete
  <1>1. IInv => SuccessIsComplete BY DEF IInv
  <1> QED BY <1>1, Invariant, PTL

(* A managed return leaves no goroutine and no write behind.               *)
THEOREM Joined == Spec => []JoinedOnReturn
  <1>1. IInv => JoinedOnReturn
    BY DEF IInv, Places, Answers, Writing, JoinedOnReturn
  <1> QED BY <1>1, Invariant, PTL

(* What a concatenation begins with.                                       *)
LEMMA ConcatPrefix ==
  \A a, b \in Seq(Units) : /\ a = SubSeq(a \o b, 1, Len(a))
                           /\ Len(a) \in Nat /\ Len(a \o b) \in Nat
                           /\ b # <<>> => Len(a) < Len(a \o b)
  <1> SUFFICES ASSUME NEW a \in Seq(Units), NEW b \in Seq(Units)
               PROVE  /\ a = SubSeq(a \o b, 1, Len(a))
                      /\ Len(a) \in Nat /\ Len(a \o b) \in Nat
                      /\ b # <<>> => Len(a) < Len(a \o b)
    OBVIOUS
  <1>1. /\ Len(a \o b) = Len(a) + Len(b) /\ Len(a) \in Nat /\ Len(b) \in Nat
        /\ a \o b \in Seq(Units)
    BY ConcatProperties, LenProperties
  <1>2. b # <<>> => Len(b) # 0 BY EmptySeq
  <1>3. \A k \in 1..Len(a) : (a \o b)[k] = a[k] /\ (a \o b)[k] \in Units
    BY <1>1, ConcatProperties, ElementOfSeq
  <1> DEFINE c == SubSeq(a \o b, 1, Len(a))
  <1>4. c \in Seq(Units) BY <1>1, <1>3, SubSeqProperties
  <1>5. Len(c) = Len(a) BY <1>1, <1>3, SubSeqProperties
  <1>6. \A k \in 1..Len(a) : c[k] = (a \o b)[k]
    BY <1>1, <1>3, SubSeqProperties
  <1>7. \A k \in 1..Len(a) : c[k] = a[k] BY <1>3, <1>6
  <1> HIDE DEF c
  <1>8. a = c BY <1>4, <1>5, <1>7, SeqEqual
  <1> QED BY <1>1, <1>2, <1>8 DEF c

(* The prefix of the induction is the one of the property.                 *)
LEMMA PrefixMeans == TypeOK /\ Prefix => OutIsPrefix
  <1> SUFFICES ASSUME TypeOK, Prefix PROVE OutIsPrefix
    OBVIOUS
  <1>1. PICK rest \in Seq(Units) : /\ fed = out \o (sbuf \o rest)
                                   /\ fed # <<>> => rest # <<>>
    BY DEF Prefix
  <1> DEFINE r == sbuf \o rest
  <1>2. r \in Seq(Units) /\ (rest # <<>> => r # <<>>) /\ out \in Seq(Units)
    BY <1>1, ConcatType, NonEmpty DEF TypeOK
  <1>3. fed = out \o r BY <1>1
  <1> HIDE DEF r
  <1> QED BY <1>1, <1>2, <1>3, ConcatPrefix DEF OutIsPrefix

(* `out` is at every instant a proper prefix of what the pipe was fed.     *)
THEOREM Prefixes == Spec => []OutIsPrefix
  <1>1. IInv => OutIsPrefix BY PrefixMeans DEF IInv
  <1> QED BY <1>1, Invariant, PTL

----------------------------------------------------------------------------
(* Decrypt implements PlaintextStream.                                     *)

(* The initial state is an initial state of the promise.                   *)
LEMMA PromiseInit == Init => Promise!Init
  BY DEF Init, Promise!Init

(* Every step of Decrypt receives, delivers, returns or does not show.     *)
LEMMA PromiseNext ==
  IInv /\ IInv' /\ [Next]_vars => [Promise!Next]_(Promise!svars)
  <1> SUFFICES ASSUME IInv, IInv', [Next]_vars, ~UNCHANGED Promise!svars
               PROVE  Promise!Next
    OBVIOUS
  <1> USE DEF mainVars, innerVars, lzVars, sinkVars, Return
  <1> DEFINE res == IF mpc = "returned" THEN ret ELSE "none"
  <1>0. TypeOK /\ Answers /\ TypeOK' /\ Answers' BY DEF IInv
  <1>1. CASE mpc # "returned" /\ mpc' = "returned"
    <2>1. UNCHANGED <<fed, out>> /\ res = "none" /\ res' = ret'
      BY <1>0, <1>1, ReturnStep
    <2>2. CASE ret' = "nil"
      <3>1. \E t \in {<<Pad>>, <<End, Pad>>} : fed = out \o t
        BY <1>1, <2>1, <2>2 DEF IInv, SuccessIsComplete
      <3>2. Promise!Succeed BY <2>1, <2>2, <3>1 DEF Promise!Succeed
      <3> QED BY <3>2 DEF Promise!Next
    <2>3. CASE ret' # "nil"
      <3>1. ret' \in Errors BY <1>0, <1>1, <2>3 DEF TypeOK, Answers, Results
      <3>2. Promise!Fail BY <2>1, <3>1 DEF Promise!Fail
      <3> QED BY <3>2 DEF Promise!Next
    <2> QED BY <2>2, <2>3
  <1>2. ASSUME res' = res, fed' = fed, out' # out PROVE Promise!Next
    <2>1. OutAccept /\ sbuf # <<>>
      BY <1>2 DEF Next, Internal, ReadStream, Main, Lz, ConsumeMagic,
         NextError, BadValue, NextEnd, AbsorbDict, FirstData, MoreData, Unwrap,
         WriteError, ClosePipe, Drain, LzTake, LzEOF, LzClose, LzSend,
         OutAccept, OutFail, Done, vars
    <2>2. /\ out' = Append(out, Head(sbuf)) /\ out \in Seq(Units)
          /\ Head(sbuf) \in Units
      BY <1>0, <2>1, TailType DEF OutAccept, TypeOK
    <2>3. /\ Len(out) \in Nat /\ Len(out') = Len(out) + 1
          /\ out'[Len(out) + 1] = Head(sbuf)
      BY <2>2, AppendProperties, LenProperties
    <2>4. OutIsPrefix'
      <3>1. (TypeOK /\ Prefix => OutIsPrefix)' BY PrefixMeans, PTL
      <3> QED BY <3>1 DEF IInv
    <2>5. out' = SubSeq(fed, 1, Len(out) + 1) /\ (fed # <<>> => Len(out) + 1 < Len(fed))
      BY <1>2, <2>3, <2>4 DEF OutIsPrefix
    <2>6. fed # <<>>
      <3>1. sbuf # <<>> /\ sbuf \in Seq(Units) BY <1>0, <2>1 DEF TypeOK
      <3>2. PICK rest \in Seq(Units) : fed = out \o (sbuf \o rest)
        BY DEF IInv, Prefix
      <3>3. Len(fed) = Len(out) + (Len(sbuf) + Len(rest))
        BY <2>2, <3>1, <3>2, ConcatProperties
      <3>4. Len(sbuf) \in Nat \ {0} /\ Len(rest) \in Nat
        BY <3>1, <3>2, LenProperties, EmptySeq
      <3> QED BY <2>3, <3>3, <3>4
    <2>7. Head(sbuf) = fed[Len(out) + 1]
      <3>1. \A k \in 1..Len(out) + 1 : fed[k] \in Units
        BY <1>0, <2>3, <2>5, <2>6, ElementOfSeq, LenProperties DEF TypeOK
      <3>2. SubSeq(fed, 1, Len(out) + 1)[Len(out) + 1] = fed[Len(out) + 1]
        BY <2>3, <3>1, SubSeqProperties
      <3> QED BY <2>3, <2>5, <3>2, Zenon
    <2>8. res # "nil"
      BY <2>1 DEF IInv, SuccessIsComplete, TypeOK, OutAccept, Writing
    <2>9. Promise!Deliver
      BY <1>2, <2>2, <2>5, <2>6, <2>7, <2>8 DEF Promise!Deliver
    <2> QED BY <2>9 DEF Promise!Next
  <1>3. ASSUME NEW p \in Seq(Units), p # <<>>, fed' = fed \o p, out' = out,
               mpc # "returned", mpc' # "returned"
        PROVE  Promise!Next
    <2>1. fed \in Seq(Units) /\ fed' \in Seq(Units) BY <1>0 DEF TypeOK
    <2>2. Len(fed) < Len(fed') /\ fed = SubSeq(fed', 1, Len(fed))
      <3>1. Len(fed) < Len(fed \o p) /\ fed = SubSeq(fed \o p, 1, Len(fed))
        BY <1>3, <2>1, ConcatPrefix
      <3> QED BY <1>3, <3>1, Zenon
    <2>3. Promise!Receive BY <1>3, <2>1, <2>2 DEF Promise!Receive
    <2> QED BY <2>3 DEF Promise!Next
  <1>4. CASE Unwrap /\ mpc' # "returned"
    <2>1. CASE fed' = fed
      <3>1. UNCHANGED <<fed, out>> /\ res = res'
        BY <1>4, <2>1 DEF Unwrap
      <3> QED BY <3>1 DEF Promise!svars
    <2>2. CASE fed' # fed
      <3>1. fed' = cur /\ cur # <<>> /\ out' = out /\ mpc = "unwrap"
        BY <1>4, <2>2 DEF Unwrap
      <3>2. fed = <<>> /\ cur \in Seq(Units)
        BY <1>0, <3>1 DEF IInv, Places, TypeOK
      <3>3. fed' = fed \o cur BY <3>1, <3>2, Neutral
      <3> QED BY <1>3, <1>4, <3>1, <3>2, <3>3
    <2> QED BY <2>1, <2>2
  <1>5. ASSUME NEW p \in Payloads, MoreData(p), mpc' # "returned"
        PROVE  Promise!Next
    <2>1. CASE p = <<>>
      <3>1. UNCHANGED <<fed, out>> /\ res = res'
        BY <1>5, <2>1 DEF MoreData
      <3> QED BY <3>1 DEF Promise!svars
    <2>2. CASE p # <<>>
      <3>1. fed' = fed \o p /\ out' = out /\ mpc # "returned"
        BY <1>5, <2>2 DEF MoreData
      <3> QED BY <1>3, <1>5, <2>2, <3>1, UnitsAssumption
    <2> QED BY <2>1, <2>2
  <1>6. CASE /\ mpc' = mpc \/ (mpc # "returned" /\ mpc' # "returned")
             /\ ~Unwrap /\ \A p \in Payloads : ~MoreData(p)
    <2>1. fed' = fed
      BY <1>6 DEF Next, Internal, ReadStream, Main, Lz, ConsumeMagic,
         NextError, BadValue, NextEnd, AbsorbDict, FirstData,
         WriteError, ClosePipe, Drain, LzTake, LzEOF, LzClose, LzSend,
         OutAccept, OutFail, Done, vars
    <2>2. res' = res
      BY <1>0, <1>6, AfterReturn
    <2>3. out' # out BY <2>1, <2>2 DEF Promise!svars
    <2> QED BY <1>2, <2>1, <2>2, <2>3
  <1>7. mpc = "returned" => mpc' = mpc /\ ~Unwrap /\ \A p \in Payloads : ~MoreData(p)
    BY <1>0, AfterReturn DEF Unwrap, MoreData
  <1> QED BY <1>1, <1>4, <1>5, <1>6, <1>7

(* Decrypt implements a plaintext stream.                                  *)
THEOREM Implements == Spec => ImplementsPromise
  BY Invariant, PromiseInit, PromiseNext, PTL DEF Spec, ImplementsPromise

----------------------------------------------------------------------------
(* Which error is reported.                                                *)

(* The inner pipe's own error stands only for a frame that ended well.     *)
Cause ==
  /\ rerr # "none" =>
       lz \in {"closed", "gone"} /\ rerr = IF lzErr = "nil" THEN "closedpipe" ELSE lzErr
  /\ lzErr # "closedpipe"
  /\ werr = "closedpipe" \/ ret = "closedpipe" => lzErr = "nil"
  /\ ret = "nil" => lzErr \in {"none", "nil"}

(* A step keeps it, if `out` never fails with that error.                  *)
LEMMA CauseNext ==
  ASSUME "closedpipe" \notin SinkErrors, IInv, Cause, [Next]_vars
  PROVE  Cause'
  <1> USE DEF mainVars, innerVars, lzVars, sinkVars, Return, Abort, Cause
  <1>0. TypeOK /\ Answers /\ SuccessIsComplete BY DEF IInv
  <1>a. lz \in {"reading", "writing"} =>
          /\ lzErr = "none" /\ rerr = "none" /\ werr # "closedpipe"
          /\ ret \notin {"nil", "closedpipe"}
    BY <1>0 DEF TypeOK, Answers, SuccessIsComplete
  <1>1. CASE ConsumeMagic BY <1>1 DEF ConsumeMagic
  <1>2. CASE NextError BY <1>2 DEF NextError
  <1>3. CASE BadValue BY <1>3 DEF BadValue
  <1>4. CASE NextEnd BY <1>4 DEF NextEnd
  <1>5. ASSUME NEW d \in Dicts, AbsorbDict(d) PROVE Cause'
    BY <1>5 DEF AbsorbDict
  <1>6. ASSUME NEW p \in Payloads, FirstData(p) PROVE Cause'
    BY <1>6 DEF FirstData
  <1>7. ASSUME NEW p \in Payloads, MoreData(p) PROVE Cause'
    BY <1>7 DEF MoreData
  <1>8. CASE Unwrap
    <2>1. lz = "idle" /\ rerr = "none" /\ lzErr = "none"
      BY <1>0, <1>8 DEF TypeOK, Unwrap
    <2> QED BY <1>8, <2>1 DEF Unwrap
  <1>9. CASE WriteError BY <1>9 DEF WriteError
  <1>10. CASE ClosePipe BY <1>10 DEF ClosePipe
  <1>11. CASE Drain
    <2>1. Head(doneCh) \in {"nil", lzErr} /\ (Head(doneCh) = "nil" => lzErr \in {"none", "nil"})
      <3>1. CASE pipe = "lz4"
        <4>1. doneCh = <<lzErr>> BY <1>0, <1>11, <3>1 DEF Answers, Drain
        <4> QED BY <4>1
      <3>2. CASE pipe # "lz4"
        <4>1. doneCh = <<"nil">> BY <1>0, <1>11, <3>2 DEF Answers, Drain
        <4>2. lzErr = "none" BY <1>0, <3>2 DEF TypeOK
        <4> QED BY <4>1, <4>2
      <3> QED BY <3>1, <3>2
    <2>2. ret' \in {ret, Head(doneCh), "md5"}
      BY <1>11 DEF Drain, Verdict
    <2>3. UNCHANGED <<rerr, werr, lz, lzErr>> BY <1>11 DEF Drain
    <2> QED BY <2>1, <2>2, <2>3
  <1>12. CASE LzTake
    <2>1. /\ lz = "reading" /\ UNCHANGED <<rerr, werr, ret>>
          /\ lzErr' \in {lzErr, "nil", "lz4"}
      BY <1>12 DEF LzTake
    <2> QED BY <1>a, <2>1
  <1>13. CASE LzEOF
    <2>1. /\ lz = "reading" /\ UNCHANGED <<rerr, werr, ret>>
          /\ lzErr' \in {"nil", "EOF", "lz4", werr} /\ lzErr' # "none"
      BY <1>13 DEF LzEOF
    <2> QED BY <1>a, <2>1
  <1>14. CASE LzClose BY <1>14 DEF LzClose
  <1>15. CASE LzSend BY <1>15 DEF LzSend
  <1>16. CASE OutAccept BY <1>0, <1>16 DEF OutAccept, TypeOK
  <1>17. ASSUME NEW e \in SinkErrors, OutFail(e) PROVE Cause'
    <2>1. /\ UNCHANGED <<rerr, werr>> /\ e \notin {"nil", "none", "closedpipe"}
          /\ \/ lz = "writing" /\ lzErr' = e /\ ret' = ret
             \/ pipe = "direct" /\ ret' = e /\ UNCHANGED <<lz, lzErr>>
      BY <1>17, ErrorsAssumption DEF OutFail, Writing
    <2>2. pipe = "direct" => lzErr = "none" /\ lz = "idle" BY <1>0 DEF TypeOK
    <2> QED BY <1>a, <2>1, <2>2
  <1>18. CASE Done \/ UNCHANGED vars BY <1>18 DEF Done, vars
  <1> QED
    BY <1>1, <1>2, <1>3, <1>4, <1>5, <1>6, <1>7, <1>8, <1>9, <1>10, <1>11,
       <1>12, <1>13, <1>14, <1>15, <1>16, <1>17, <1>18
       DEF Next, Internal, ReadStream, Main, Lz

(* An error of the LZ4 stage or of `out` is never reported as success, nor *)
(* hidden behind the inner pipe's own, where `out` has an error of its own *)
(* kind.                                                                   *)
THEOREM CauseIsReported ==
  ASSUME "closedpipe" \notin SinkErrors PROVE Spec => []CauseReported
  <1>1. Init => Cause BY DEF Init, Cause
  <1>2. IInv /\ Cause /\ [Next]_vars => Cause' BY CauseNext
  <1>3. Cause => CauseReported BY DEF Cause, CauseReported
  <1> QED BY <1>1, <1>2, <1>3, Invariant, PTL DEF Spec
=============================================================================
