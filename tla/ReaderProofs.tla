---------------------------- MODULE ReaderProofs ----------------------------
(***************************************************************************)
(* Proofs about Reader: what Close promises, for every stream, caller and  *)
(* interleaving.  They need nothing of Decrypt but that it stays returned  *)
(* once it returned.                                                       *)
(***************************************************************************)
EXTENDS Reader, DecryptProofs

(* The goroutine goes on after Decrypt returned, and hands its result      *)
(* first to the pipe and then to Close.                                    *)
Handing ==
  /\ gor # "decrypt" => mpc = "returned"
  /\ owerr = IF gor = "decrypt" THEN "none"
             ELSE IF ret = "nil" THEN "EOF" ELSE ret
  /\ rdone # <<>> => gor = "gone" /\ rdone = <<ret>>

(* Close joins the goroutine before it closes the source, and turns the    *)
(* error of its own closed pipe into none.                                 *)
Closing ==
  /\ closing \in {"open", "waiting", "extra", "closed"}
  /\ ~srcOpen => closing = "closed"
  /\ closing \in {"extra", "closed"} => gor = "gone"
  /\ closing = "extra" => closeErr = ret
  /\ closing = "closed" =>
       closeErr \in IF ret = "nil" THEN {"nil", "srcerr"}
                    ELSE IF ret = "closedpipe" THEN {"nil"} ELSE {ret}

(* What a Read was told is what the pipe was closed with.                  *)
Told == seen # "none" => gor # "decrypt" /\ seen = owerr

RInv == Handing /\ Closing /\ Told

(* Before anything runs nothing is handed on.                              *)
LEMMA RInvInit == ReaderInit => RInv
  BY DEF ReaderInit, Init, RInv, Handing, Closing, Told

(* Once Decrypt returned its result stands, whatever of it still runs.     *)
LEMMA StaysReturned ==
  ASSUME mpc = "returned",
         Internal \/ OutAccept \/ OutFail("closedpipe")
  PROVE  mpc' = "returned" /\ ret' = ret
  <1> USE DEF mainVars, innerVars, lzVars, sinkVars
  <1>1. CASE Internal
    <2>1. LzEOF \/ LzClose \/ LzSend
      BY <1>1 DEF Internal, ReadStream, Main, Lz, ConsumeMagic,
         NextError, BadValue, NextEnd, AbsorbDict, FirstData,
         MoreData, Unwrap, WriteError, ClosePipe, Drain, LzTake
    <2> QED BY <2>1 DEF LzEOF, LzClose, LzSend
  <1>2. CASE OutAccept
    <2>1. lz = "writing" BY <1>2 DEF OutAccept, Writing
    <2> QED BY <1>2, <2>1 DEF OutAccept
  <1>3. CASE OutFail("closedpipe")
    <2>1. lz = "writing" BY <1>3 DEF OutFail, Writing
    <2> QED BY <1>3, <2>1 DEF OutFail
  <1> QED BY <1>1, <1>2, <1>3

(* Every step keeps it.                                                    *)
LEMMA RInvNext == RInv /\ [ReaderNext]_readerVars => RInv'
  <1> SUFFICES ASSUME RInv, [ReaderNext]_readerVars PROVE RInv' OBVIOUS
  <1> USE DEF RInv, Handing, Closing, Told
  <1>1. CASE DecryptStep \/ HandOver \/ WriteClosed
    <2>1. UNCHANGED <<gor, owerr, rdone, seen, closing, closeErr, srcOpen>>
      BY <1>1 DEF DecryptStep, HandOver, WriteClosed, pipeVars, callerVars
    <2>2. mpc = "returned" => mpc' = "returned" /\ ret' = ret
      BY <1>1, StaysReturned DEF DecryptStep, HandOver, WriteClosed
    <2> QED BY <2>1, <2>2
  <1>2. CASE Propagate
    BY <1>2 DEF Propagate, vars, callerVars
  <1>3. CASE Send
    BY <1>3 DEF Send, vars, callerVars
  <1>4. CASE ReadBegin
    BY <1>4 DEF ReadBegin, vars, pipeVars
  <1>5. CASE ReadFails
    BY <1>5 DEF ReadFails, ReadError, PipeOpen, vars, pipeVars
  <1>6. CASE CloseBegin
    BY <1>6 DEF CloseBegin, vars
  <1>7. CASE CloseJoin
    <2>1. rdone = <<ret>> BY <1>7 DEF CloseJoin
    <2>2. Head(rdone) = ret /\ Tail(rdone) = <<>> BY <2>1
    <2> QED BY <1>7, <2>2 DEF CloseJoin, vars
  <1>8. ASSUME NEW e \in {"nil", "srcerr"}, CloseExtra(e) PROVE RInv'
    BY <1>8 DEF CloseExtra, vars, pipeVars
  <1>9. CASE CallerMutates
    BY <1>9 DEF CallerMutates, pipeVars, callerVars
  <1>10. CASE UNCHANGED readerVars
    BY <1>10 DEF readerVars, vars, pipeVars, callerVars
  <1> QED BY <1>1, <1>2, <1>3, <1>4, <1>5, <1>6, <1>7, <1>8, <1>9, <1>10
       DEF ReaderNext, Goroutine, Closer

(* What Decrypt itself keeps, kept by the Reader around it.                *)

(* A Reader's step is one of Decrypt's, leaves Decrypt alone, or is the    *)
(* caller writing into its Metadata.                                       *)
LEMMA ReaderStep ==
  ASSUME [ReaderNext]_readerVars PROVE [Next]_vars \/ CallerMutates
  <1>1. "closedpipe" \in SinkErrors BY SinkAssumption
  <1>2. CASE DecryptStep \/ HandOver \/ WriteClosed
    BY <1>1, <1>2 DEF DecryptStep, HandOver, WriteClosed, Next
  <1>3. CASE Goroutine \/ Closer \/ ReadBegin \/ ReadFails \/ CloseBegin
    BY <1>3 DEF Goroutine, Closer, Propagate, Send, CloseJoin, CloseExtra,
       ReadBegin, ReadFails, CloseBegin
  <1>4. CASE UNCHANGED readerVars BY <1>4 DEF readerVars
  <1> QED BY <1>2, <1>3, <1>4 DEF ReaderNext

(* The caller spoils the key before Decrypt recovers it; what was fed and  *)
(* what was delivered stay as they are.                                    *)
LEMMA MutateKeeps ==
  ASSUME IInv, CallerMutates
  PROVE  IInv' /\ UNCHANGED Promise!svars /\ UNCHANGED <<ret, rerr, lzErr>>
  <1>1. UNCHANGED <<mpc, items, snap, pipe, cur, pending, fed, wbuf, rerr,
                    werr, lz, lzErr, doneCh, sbuf, out, ret>>
    BY DEF CallerMutates
  <1>2. mpc = "unwrap" BY DEF CallerMutates
  <1>3. meta' \in Metas BY DEF CallerMutates, IInv, TypeOK, Metas
  <1>4. TypeOK' BY <1>1, <1>3 DEF IInv, TypeOK
  <1>5. Places' /\ Answers' BY <1>1 DEF IInv, Places, Answers, Writing
  <1>6. NothingLost' /\ Prefix'
    BY <1>1 DEF IInv, NothingLost, Prefix, Ahead
  <1>7. SuccessIsComplete' BY <1>1, <1>2 DEF SuccessIsComplete
  <1>8. UNCHANGED Promise!svars BY <1>1 DEF Promise!svars
  <1> QED BY <1>1, <1>4, <1>5, <1>6, <1>7, <1>8 DEF IInv

(* io.EOF as an error comes from the lz4 reader alone.                     *)
EOFCause == ret = "EOF" \/ rerr = "EOF" => lzErr = "EOF"

(* Every step of the Reader keeps that.                                    *)
LEMMA EOFCauseNext ==
  ASSUME IInv, EOFCause, [ReaderNext]_readerVars PROVE EOFCause'
  <1> USE DEF mainVars, innerVars, lzVars, sinkVars, Return, Abort, EOFCause
  <1>0. TypeOK /\ Answers BY DEF IInv
  <1>a. lzErr = "none" => rerr # "EOF" /\ ret # "EOF" OBVIOUS
  <1>1. CASE CallerMutates BY <1>1, MutateKeeps
  <1>2. CASE ReadStream
    BY <1>2 DEF ReadStream, ConsumeMagic, NextError, BadValue, NextEnd,
       AbsorbDict, FirstData, MoreData
  <1>3. CASE Unwrap BY <1>3 DEF Unwrap
  <1>4. CASE WriteError BY <1>4 DEF WriteError
  <1>5. CASE ClosePipe BY <1>5 DEF ClosePipe
  <1>6. CASE Drain
    <2>1. Head(doneCh) \in {"nil", lzErr}
      <3>1. CASE pipe = "lz4"
        <4>1. doneCh = <<lzErr>> BY <1>0, <1>6, <3>1 DEF Answers, Drain
        <4> QED BY <4>1
      <3>2. CASE pipe # "lz4"
        <4>1. doneCh = <<"nil">> BY <1>0, <1>6, <3>2 DEF Answers, Drain
        <4> QED BY <4>1
      <3> QED BY <3>1, <3>2
    <2>2. ret' \in {ret, Head(doneCh), "md5"} BY <1>6 DEF Drain, Verdict
    <2>3. UNCHANGED <<rerr, lzErr>> BY <1>6 DEF Drain
    <2> QED BY <2>1, <2>2, <2>3
  <1>7. CASE LzTake \/ LzEOF
    <2>1. lz = "reading" /\ UNCHANGED <<rerr, ret>>
      BY <1>7 DEF LzTake, LzEOF
    <2>2. lzErr = "none" BY <1>0, <2>1 DEF TypeOK
    <2> QED BY <1>a, <2>1, <2>2
  <1>8. CASE LzClose BY <1>8 DEF LzClose
  <1>9. CASE LzSend BY <1>9 DEF LzSend
  <1>10. CASE OutAccept BY <1>10 DEF OutAccept
  <1>11. ASSUME NEW e \in SinkErrors, OutFail(e) PROVE EOFCause'
    <2>1. /\ UNCHANGED rerr
          /\ \/ lz = "writing" /\ ret' = ret
             \/ ret' = e /\ UNCHANGED lzErr
      BY <1>11 DEF OutFail
    <2>2. lz = "writing" => lzErr = "none" BY <1>0 DEF TypeOK
    <2>3. e # "EOF" BY SinkAssumption
    <2> QED BY <1>a, <2>1, <2>2, <2>3
  <1>12. CASE Done \/ UNCHANGED vars BY <1>12 DEF Done, vars
  <1>13. [Next]_vars \/ CallerMutates BY ReaderStep
  <1> QED
    BY <1>1, <1>2, <1>3, <1>4, <1>5, <1>6, <1>7, <1>8, <1>9, <1>10, <1>11,
       <1>12, <1>13 DEF Next, Internal, Main, Lz

(* The Reader's own variables keep their types.                            *)
LEMMA ReaderTypeNext ==
  ASSUME ReaderTypeOK, IInv, IInv', RInv, [ReaderNext]_readerVars
  PROVE  ReaderTypeOK'
  <1> USE DEF ReaderTypeOK, Errors, Results, LocalErrors
  <1>0. TypeOK' /\ (mpc = "returned" => ret \in Results)
    BY DEF IInv, TypeOK, Answers
  <1>1. CASE DecryptStep \/ HandOver \/ WriteClosed \/ ReadBegin \/ CallerMutates
    BY <1>0, <1>1 DEF DecryptStep, HandOver, WriteClosed, ReadBegin,
       CallerMutates, pipeVars, callerVars
  <1>2. CASE Propagate
    BY <1>0, <1>2, ErrorsAssumption DEF Propagate, callerVars
  <1>3. CASE Send
    BY <1>0, <1>3 DEF Send, callerVars, RInv, Handing
  <1>4. CASE ReadFails
    BY <1>0, <1>4 DEF ReadFails, ReadError, PipeOpen, pipeVars
  <1>5. CASE CloseBegin
    BY <1>0, <1>5 DEF CloseBegin
  <1>6. CASE CloseJoin
    <2>1. rdone = <<ret>> /\ mpc = "returned"
      BY <1>6 DEF CloseJoin, RInv, Handing
    <2>2. Head(rdone) = ret /\ Tail(rdone) = <<>> BY <2>1
    <2> QED BY <1>0, <1>6, <2>1, <2>2 DEF CloseJoin
  <1>7. ASSUME NEW e \in {"nil", "srcerr"}, CloseExtra(e) PROVE ReaderTypeOK'
    <2>1. closeErr' \in {"nil", closeErr, e} BY <1>7 DEF CloseExtra
    <2>2. closeErr' \in Results \cup {"srcerr"} BY <2>1
    <2>3. UNCHANGED <<pipeVars, rd, seen>> /\ closing = "extra"
          /\ srcOpen' = FALSE /\ closing' = "closed"
      BY <1>7 DEF CloseExtra
    <2> QED BY <1>0, <2>2, <2>3 DEF pipeVars
  <1>8. CASE UNCHANGED readerVars
    BY <1>0, <1>8 DEF readerVars, pipeVars, callerVars
  <1> QED BY <1>1, <1>2, <1>3, <1>4, <1>5, <1>6, <1>7, <1>8
       DEF ReaderNext, Goroutine, Closer

(* The inductive invariant: Decrypt's own, who holds its result and since  *)
(* when, and where an io.EOF comes from.                                   *)
ReaderInv == IInv /\ ReaderTypeOK /\ RInv /\ EOFCause

(* It holds at first and every step keeps it.                              *)
LEMMA ReaderInvInit == ReaderInit => ReaderInv
  <1> SUFFICES ASSUME ReaderInit PROVE ReaderInv OBVIOUS
  <1>1. IInv /\ RInv BY InvInit, RInvInit DEF ReaderInit
  <1>2. ReaderTypeOK BY <1>1 DEF ReaderInit, ReaderTypeOK, IInv, Results
  <1>3. EOFCause BY DEF ReaderInit, Init, EOFCause
  <1> QED BY <1>1, <1>2, <1>3 DEF ReaderInv

(* Every step of the Reader keeps it.                                      *)
LEMMA ReaderInvNext == ReaderInv /\ [ReaderNext]_readerVars => ReaderInv'
  BY InvNext, MutateKeeps, ReaderStep, RInvNext, EOFCauseNext,
     ReaderTypeNext DEF ReaderInv

(* The inductive invariant of the Reader.                                  *)
THEOREM ReaderInvariant == ReaderSpec => []ReaderInv
  BY ReaderInvInit, ReaderInvNext, PTL DEF ReaderSpec

(* Type correctness of the Reader, of the pipe and of the calls on it.     *)
THEOREM ReaderTypeCorrect == ReaderSpec => []ReaderTypeOK
  <1>1. ReaderInv => ReaderTypeOK BY DEF ReaderInv
  <1> QED BY <1>1, ReaderInvariant, PTL

(* io.EOF from Read is the end of a whole and verified plaintext, or the   *)
(* lz4 reader's own io.EOF.                                                *)
THEOREM EOFComplete == ReaderSpec => []EOFIsComplete
  <1>1. ReaderInv => EOFIsComplete
    BY DEF ReaderInv, IInv, RInv, Handing, Told, EOFCause, EOFIsComplete
  <1> QED BY <1>1, ReaderInvariant, PTL

(* What the Reads of a Reader return is, in order and each unit once, what *)
(* its stream held, and their end is the stream's: with the caller, the    *)
(* outer pipe and Close around it Decrypt still implements PlaintextStream.*)
THEOREM ReaderImplements == ReaderSpec => ImplementsPromise
  <1>1. ReaderInit => Promise!Init BY PromiseInit DEF ReaderInit
  <1>2. ReaderInv /\ ReaderInv' /\ [ReaderNext]_readerVars
          => [Promise!Next]_(Promise!svars)
    BY ReaderStep, PromiseNext, MutateKeeps DEF ReaderInv
  <1> QED BY <1>1, <1>2, ReaderInvariant, PTL DEF ReaderSpec, ImplementsPromise

(* The source is closed only after Decrypt and its goroutine ended, in     *)
(* every interleaving of Read, Close, Decrypt and the LZ4 stage.           *)
THEOREM SourceOutlives == ReaderSpec => []SourceOutlivesDecrypt
  <1>1. ReaderInv => SourceOutlivesDecrypt
    BY DEF ReaderInv, RInv, Handing, Closing, SourceOutlivesDecrypt
  <1> QED BY <1>1, ReaderInvariant, PTL

(* Close repeats the verdict that Read reported.                           *)
THEOREM CloseAgreesWithRead == ReaderSpec => []CloseAgrees
  <1>1. ReaderInv => CloseAgrees
    BY DEF ReaderInv, RInv, Handing, Closing, Told, CloseAgrees
  <1> QED BY <1>1, ReaderInvariant, PTL

(* Close reports what was wrong with the stream, read or not.              *)
THEOREM CloseTellsCause == ReaderSpec => []CloseReports
  <1>1. ReaderInv => CloseReports BY DEF ReaderInv, RInv, Closing, CloseReports
  <1> QED BY <1>1, ReaderInvariant, PTL
=============================================================================
