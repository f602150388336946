------------------------------ MODULE Decrypt ------------------------------
(***************************************************************************)
(* csenc.Decrypt (decrypt.go): the loop that reads top-level dicts, the    *)
(* one-block lookahead of decryptPipe, the LZ4 goroutine behind an         *)
(* io.Pipe, and the writes to the caller's `out`.                          *)
(*                                                                         *)
(* Payloads are sequences of UNITS.  A unit of Blocks is a piece of        *)
(* content: one LZ4 block when compress=1, a run of plaintext when         *)
(* compress=0.  End is the LZ4 end mark with its checksum.  Pad is a run   *)
(* of bytes that reads as valid PKCS#7 padding: the writer ends the last   *)
(* payload with it, plain content may look like it too, and inside an LZ4  *)
(* frame it is garbage.  AES-CBC is one unit in, one unit out.  The stream *)
(* is not fixed in advance: each Next of the wire reader picks what it     *)
(* returns.                                                                *)
(*                                                                         *)
(* External code is modelled from its use: an io.Pipe write is handed over *)
(* unit by unit to a waiting reader, a zero-length write still needs one   *)
(* read, and after a close the other side gets the error it was closed     *)
(* with; the lz4 reader stops at the end mark, without reading on to the   *)
(* end of its input, and may report whatever it likes when the input ends  *)
(* early.                                                                  *)
(***************************************************************************)
EXTENDS Integers, Sequences

CONSTANTS
  Blocks,     \* units of content
  End, Pad,   \* the LZ4 end mark, and bytes that read as padding
  Payloads,   \* what a data dict may carry; <<>> is a refused payload
  Dicts,      \* metadata dicts: functions from some of Fields
  Sums,       \* recorded file_md5 values, each named by the content it is of
  NoSum,      \* no file_md5 recorded
  NoMeta,     \* OnMetadata has not been called
  SinkErrors, \* errors a write to `out` may return
  MaxItems    \* bound: dicts read from one stream

Units == Blocks \cup {End, Pad}
Fields == {"compress", "encrypt", "key", "sum"}
Metas == [compress : 0..2, encrypt : 0..1,
          key : {"none", "bad", "good"}, sum : Sums \cup {NoSum}]

\* What the calls of this package return; "none" is not yet.
LocalErrors == {"magic", "source", "format", "modes", "secret", "payload",
                "padding", "empty", "md5", "lz4", "EOF", "closedpipe"}
Errors == LocalErrors \cup SinkErrors
Results == Errors \cup {"nil"}

ASSUME UnitsAssumption ==
  /\ End \notin Blocks /\ Pad \notin Blocks /\ End # Pad
  /\ Payloads \subseteq Seq(Units)
  /\ Sums \subseteq Seq(Units) /\ NoSum \notin Sums
ASSUME DictsAssumption ==
  /\ \A d \in Dicts : /\ DOMAIN d \subseteq Fields
                      /\ \A m \in Metas : [f \in Fields |->
                           IF f \in DOMAIN d THEN d[f] ELSE m[f]] \in Metas
  /\ NoMeta \notin Metas
ASSUME ErrorsAssumption == "nil" \notin SinkErrors /\ "none" \notin SinkErrors
ASSUME MaxItemsAssumption == MaxItems \in Nat

VARIABLES
  mpc,      \* where Decrypt's own goroutine is
  items,    \* dicts read so far
  meta,     \* *meta
  snap,     \* the snapshot OnMetadata was called with
  pipe,     \* which decryptPipe is open: "nil", "lz4" or "direct"
  cur,      \* the payload being handled, decrypted
  pending,  \* p.pending, the one-block lookahead
  fed,      \* history: every unit the pipe has accepted from the stream
  wbuf,     \* rest of the write in progress on the inner pipe
  rerr,     \* error the inner pipe's reader side was closed with
  werr,     \* error the inner pipe's writer side was closed with
  lz,       \* where the LZ4 goroutine is
  lzErr,    \* cpErr of the LZ4 goroutine
  doneCh,   \* p.doneCh, buffered, capacity 1
  sbuf,     \* rest of the write in progress on `out`
  out,      \* what `out` has accepted; plaintextMD5 covers the same bytes
  ret       \* what Decrypt returns, once known

mainVars == <<items, meta, snap, pipe, cur, pending, fed>>
innerVars == <<wbuf, rerr, werr>>
lzVars == <<lz, lzErr>>
sinkVars == <<sbuf, out>>
vars == <<mpc, mainVars, innerVars, lzVars, doneCh, sinkVars, ret>>

Init ==
  /\ mpc = "magic" /\ items = 0
  /\ meta = [compress |-> 1, encrypt |-> 1, key |-> "none", sum |-> NoSum]
  /\ snap = NoMeta
  /\ pipe = "nil" /\ cur = <<>> /\ pending = <<>> /\ fed = <<>>
  /\ wbuf = <<>> /\ rerr = "none" /\ werr = "none"
  /\ lz = "idle" /\ lzErr = "none" /\ doneCh = <<>>
  /\ sbuf = <<>> /\ out = <<>> /\ ret = "none"

----------------------------------------------------------------------------
(* How Decrypt leaves its loop.                                            *)

\* A bare `return err`: the pipe, if one is open, is not touched.
Return(e) == mpc' = "returned" /\ ret' = e /\ UNCHANGED <<werr, doneCh>>

\* Mutant: abort closes the pipe but does not wait for the goroutine.
AbortNoWait(e) == /\ mpc' = "returned" /\ ret' = e /\ UNCHANGED doneCh
                  /\ IF pipe = "lz4" THEN werr' = e ELSE UNCHANGED werr

\* `pipe.abort(err); return err`: with the LZ4 stage the pipe is closed with
\* the error and the goroutine's result is awaited.
Abort(e) ==
  IF pipe = "lz4"
  THEN /\ werr' = e /\ ret' = e /\ mpc' = "drain"
       /\ UNCHANGED doneCh
  ELSE Return(e)

----------------------------------------------------------------------------
(* The loop of Decrypt.                                                    *)

ConsumeMagic ==
  /\ mpc = "magic"
  /\ \/ mpc' = "next" /\ UNCHANGED <<werr, doneCh, ret>>
     \/ Return("magic")
  /\ UNCHANGED <<mainVars, wbuf, rerr, lzVars, sinkVars>>

\* sr.Next fails: an open pipe is aborted.
NextError ==
  /\ mpc = "next"
  /\ IF pipe = "nil" THEN Return("source") ELSE Abort("source")
  /\ UNCHANGED <<mainVars, wbuf, rerr, lzVars, sinkVars>>

\* A value that is no dict, a dict without a string "type" or with an unknown
\* one, an enc_key field that is no base64: returned without abort.
BadValue ==
  /\ mpc = "next"
  /\ Return("format")
  /\ UNCHANGED <<mainVars, wbuf, rerr, lzVars, sinkVars>>

\* A metadata dict, wherever it stands in the stream.
AbsorbDict(d) ==
  /\ mpc = "next" /\ items < MaxItems
  /\ items' = items + 1
  /\ meta' = [f \in Fields |-> IF f \in DOMAIN d THEN d[f] ELSE meta[f]]
  /\ UNCHANGED <<mpc, snap, pipe, cur, pending, fed, innerVars, lzVars,
                 doneCh, sinkVars, ret>>

SupportedModes == meta.encrypt = 1 /\ meta.compress \in {0, 1}

\* The first data dict: modes are checked, then OnMetadata gets a copy.
FirstData(p) ==
  /\ mpc = "next" /\ pipe = "nil" /\ items < MaxItems
  /\ items' = items + 1
  /\ IF SupportedModes
     THEN /\ snap' = meta /\ cur' = p /\ mpc' = "unwrap"
          /\ UNCHANGED <<werr, doneCh, ret>>
     ELSE Return("modes") /\ UNCHANGED <<snap, cur>>
  /\ UNCHANGED <<meta, pipe, pending, fed, wbuf, rerr, lzVars, sinkVars>>

\* Mutants: the goroutine is started on both paths; doneCh is answered in
\* advance on both paths, or on none.
OpenPipeSpawns ==
  /\ lz' = "reading"
  /\ IF meta.compress = 1 THEN pipe' = "lz4" /\ UNCHANGED doneCh
                          ELSE pipe' = "direct" /\ doneCh' = <<"nil">>
OpenPipeAnswered ==
  IF meta.compress = 1
  THEN pipe' = "lz4" /\ lz' = "reading" /\ doneCh' = <<"nil">>
  ELSE pipe' = "direct" /\ doneCh' = <<"nil">> /\ UNCHANGED lz
OpenPipeUnanswered ==
  IF meta.compress = 1
  THEN pipe' = "lz4" /\ lz' = "reading" /\ UNCHANGED doneCh
  ELSE pipe' = "direct" /\ UNCHANGED <<doneCh, lz>>

\* newDecryptPipe: the direct path answers its own doneCh, the other one
\* starts the LZ4 goroutine.
OpenPipe ==
  IF meta.compress = 1
  THEN pipe' = "lz4" /\ lz' = "reading" /\ UNCHANGED doneCh
  ELSE pipe' = "direct" /\ doneCh' = <<"nil">> /\ UNCHANGED lz

\* recoverSessionKey: a key envelope that the given secret opens, and hashes
\* that agree with what was recovered.
KeyRecovered == meta.key = "good"

\* recoverSessionKey, newDecryptPipe and the first feed, which only fills
\* the lookahead.  A refused payload aborts the pipe just opened.
Unwrap ==
  /\ mpc = "unwrap"
  /\ IF ~KeyRecovered
     THEN Return("secret") /\ UNCHANGED <<pipe, pending, fed, lz>>
     ELSE /\ OpenPipe
          /\ IF cur = <<>>
             THEN /\ ret' = "payload" /\ UNCHANGED <<pending, fed>>
                  /\ IF meta.compress = 1
                     THEN werr' = "payload" /\ mpc' = "drain"
                     ELSE mpc' = "returned" /\ UNCHANGED werr
             ELSE /\ pending' = cur /\ fed' = cur /\ mpc' = "next"
                  /\ UNCHANGED <<werr, ret>>
  /\ UNCHANGED <<items, meta, snap, cur, wbuf, rerr, lzErr, sinkVars>>

\* writeSink(b) begins.
StartWrite(b) ==
  IF pipe = "lz4" THEN wbuf' = b /\ UNCHANGED sbuf
                  ELSE sbuf' = b /\ UNCHANGED wbuf

\* feed of a later data dict: it is not the tail yet, so the block held back
\* is flushed first.
MoreData(p) ==
  /\ mpc = "next" /\ pipe # "nil" /\ items < MaxItems
  /\ items' = items + 1
  /\ IF p = <<>>
     THEN Abort("payload") /\ UNCHANGED <<cur, fed, wbuf, sbuf>>
     ELSE /\ cur' = p /\ fed' = fed \o p /\ mpc' = "feed"
          /\ StartWrite(pending)
          /\ UNCHANGED <<werr, doneCh, ret>>
  /\ UNCHANGED <<meta, snap, pipe, pending, rerr, lzVars, out>>

\* Mutant: the block held back is written with its padding.
UnpadNothing(b) == b

Unpad(b) == SubSeq(b, 1, Len(b) - 1)

\* A clean end of the stream: finish strips the padding of the block held
\* back and writes the rest, possibly nothing.
NextEnd ==
  /\ mpc = "next"
  /\ \/ /\ pipe = "nil"
        /\ Return("empty") /\ UNCHANGED <<wbuf, sbuf>>
     \/ /\ pipe # "nil" /\ pending[Len(pending)] # Pad
        /\ Abort("padding") /\ UNCHANGED <<wbuf, sbuf>>
     \/ /\ pipe # "nil" /\ pending[Len(pending)] = Pad
        /\ mpc' = "tail" /\ StartWrite(Unpad(pending))
        /\ UNCHANGED <<werr, doneCh, ret>>
  /\ UNCHANGED <<mainVars, rerr, lzVars, out>>

\* Mutant: the block just read does not replace the one held back.
WrittenKeepsPending ==
  /\ UNCHANGED pending
  /\ mpc' = IF mpc = "feed" THEN "next"
             ELSE IF pipe = "lz4" THEN "close" ELSE "drain"

\* writeSink has returned nil.
Written ==
  /\ IF mpc = "feed" THEN pending' = cur ELSE UNCHANGED pending
  /\ mpc' = IF mpc = "feed" THEN "next"
             ELSE IF pipe = "lz4" THEN "close" ELSE "drain"

\* The inner pipe was closed by its reader under the write.
WriteError ==
  /\ mpc \in {"feed", "tail"} /\ pipe = "lz4" /\ rerr # "none"
  /\ IF mpc = "feed"
     THEN Abort(rerr)
     ELSE ret' = rerr /\ mpc' = "drain" /\ UNCHANGED <<werr, doneCh>>
  /\ wbuf' = <<>>
  /\ UNCHANGED <<mainVars, rerr, lzVars, sinkVars>>

ClosePipe ==
  /\ mpc = "close"
  /\ werr' = "EOF" /\ mpc' = "drain"
  /\ UNCHANGED <<mainVars, wbuf, rerr, lzVars, doneCh, sinkVars, ret>>

Verdict(e) ==
  IF e = "nil" /\ meta.sum # NoSum /\ meta.sum # out THEN "md5" ELSE e

\* `<-p.doneCh`, and after finish the file_md5 comparison.
Drain ==
  /\ mpc = "drain" /\ doneCh # <<>>
  /\ doneCh' = Tail(doneCh)
  /\ ret' = IF ret = "none" THEN Verdict(Head(doneCh)) ELSE ret
  /\ mpc' = "returned"
  /\ UNCHANGED <<mainVars, innerVars, lzVars, sinkVars>>

----------------------------------------------------------------------------
(* The LZ4 goroutine: io.Copy from the inner pipe to `out`.                *)

\* One unit of the write in progress is read; the write returns with its
\* last one.  A zero-length write is satisfied by one empty read.
LzTake ==
  /\ lz = "reading" /\ pipe = "lz4" /\ mpc \in {"feed", "tail"}
  /\ IF Len(wbuf) > 1
     THEN wbuf' = Tail(wbuf) /\ UNCHANGED <<mpc, pending>>
     ELSE wbuf' = <<>> /\ Written
  /\ \/ wbuf = <<>> /\ UNCHANGED <<lzVars, sbuf>>
     \/ /\ wbuf # <<>> /\ Head(wbuf) \in Blocks
        /\ sbuf' = <<Head(wbuf)>> /\ lz' = "writing" /\ UNCHANGED lzErr
     \/ /\ wbuf # <<>> /\ Head(wbuf) \in {End, Pad}
        /\ lzErr' = IF Head(wbuf) = End THEN "nil" ELSE "lz4"
        /\ lz' = "ended" /\ UNCHANGED sbuf
  /\ UNCHANGED <<items, meta, snap, pipe, cur, fed, rerr, werr, doneCh, out,
                 ret>>

\* The pipe was closed by its writer.  Where a frame is cut short the lz4
\* reader's verdict is its own.
LzEOF ==
  /\ lz = "reading" /\ werr # "none"
  /\ lzErr' \in IF werr = "EOF" THEN {"nil", "EOF", "lz4"} ELSE {werr}
  /\ lz' = "ended"
  /\ UNCHANGED <<mpc, mainVars, innerVars, doneCh, sinkVars, ret>>

\* Mutant: the pipe is always closed without the error.
LzCloseSilent ==
  /\ lz = "ended"
  /\ rerr' = "closedpipe" /\ lz' = "closed"
  /\ UNCHANGED <<mpc, mainVars, wbuf, werr, lzErr, doneCh, sinkVars, ret>>

LzClose ==
  /\ lz = "ended"
  /\ rerr' = IF lzErr = "nil" THEN "closedpipe" ELSE lzErr
  /\ lz' = "closed"
  /\ UNCHANGED <<mpc, mainVars, wbuf, werr, lzErr, doneCh, sinkVars, ret>>

LzSend ==
  /\ lz = "closed" /\ doneCh = <<>>
  /\ doneCh' = <<lzErr>> /\ lz' = "gone"
  /\ UNCHANGED <<mpc, mainVars, innerVars, lzErr, sinkVars, ret>>

----------------------------------------------------------------------------
(* `out`, behind the MultiWriter: whoever writes to it, the goroutine of   *)
(* the LZ4 stage or Decrypt itself.                                        *)

Writing == lz = "writing" \/ (pipe = "direct" /\ mpc \in {"feed", "tail"})

OutAccept ==
  /\ Writing
  /\ IF sbuf = <<>> THEN UNCHANGED sinkVars
                    ELSE out' = Append(out, Head(sbuf)) /\ sbuf' = Tail(sbuf)
  /\ IF Len(sbuf) > 1
     THEN UNCHANGED <<mpc, pending, lz>>
     ELSE IF lz = "writing"
          THEN lz' = "reading" /\ UNCHANGED <<mpc, pending>>
          ELSE Written /\ UNCHANGED lz
  /\ UNCHANGED <<items, meta, snap, pipe, cur, fed, innerVars, lzErr, doneCh,
                 ret>>

OutFail(e) ==
  /\ Writing
  /\ sbuf' = <<>>
  /\ IF lz = "writing"
     THEN lzErr' = e /\ lz' = "ended" /\ UNCHANGED <<mpc, ret>>
     ELSE mpc' = "returned" /\ ret' = e /\ UNCHANGED lzVars
  /\ UNCHANGED <<mainVars, innerVars, doneCh, out>>

----------------------------------------------------------------------------
ReadStream == \/ ConsumeMagic \/ NextError \/ BadValue \/ NextEnd
              \/ \E d \in Dicts : AbsorbDict(d)
              \/ \E p \in Payloads : FirstData(p) \/ MoreData(p)
Main == Unwrap \/ WriteError \/ ClosePipe \/ Drain
Lz == LzTake \/ LzEOF \/ LzClose \/ LzSend
Internal == ReadStream \/ Main \/ Lz
Done == mpc = "returned" /\ UNCHANGED vars

Next == Internal \/ OutAccept \/ (\E e \in SinkErrors : OutFail(e)) \/ Done

\* Goroutines run, the source answers every read and `out` every write.
Fairness == /\ WF_vars(ReadStream) /\ WF_vars(Main) /\ WF_vars(Lz)
            /\ WF_vars(OutAccept)
Spec == Init /\ [][Next]_vars /\ Fairness

----------------------------------------------------------------------------
(* Properties.                                                             *)

\* Every variable has its type, and the goroutines' places agree with the
\* state they imply: an LZ4 goroutine exists exactly on the "lz4" path, a
\* write is in progress exactly where its writer waits for it, a result is
\* known before the goroutine closes its pipe.
TypeOK ==
  /\ mpc \in {"magic", "next", "unwrap", "feed", "tail", "close", "drain",
              "returned"}
  /\ items \in 0..MaxItems /\ meta \in Metas /\ snap \in Metas \cup {NoMeta}
  /\ pipe \in {"nil", "lz4", "direct"}
  /\ cur \in Seq(Units) /\ pending \in Seq(Units) /\ fed \in Seq(Units)
  /\ wbuf \in Seq(Units) /\ sbuf \in Seq(Units) /\ out \in Seq(Units)
  /\ rerr \in Errors \cup {"none"} /\ werr \in Errors \cup {"none"}
  /\ lz \in {"idle", "reading", "writing", "ended", "closed", "gone"}
  /\ lzErr \in Results \cup {"none"} /\ ret \in Results \cup {"none"}
  /\ doneCh \in Seq(Results) /\ Len(doneCh) <= 1
  /\ mpc \in {"magic", "unwrap"} => pipe = "nil"
  /\ pipe = "lz4" <=> lz # "idle"
  /\ lzErr = "none" <=> lz \in {"idle", "reading", "writing"}

\* Plaintext reaches `out` in stream order, every unit once, and the unit that
\* may still turn out to be padding is held back: at every instant `out` is a
\* proper prefix of what the pipe was fed, also after a failure and in a
\* goroutine that outlives Decrypt (decrypt.go:419-421, 477-493).
OutIsPrefix ==
  /\ out = SubSeq(fed, 1, Len(out))
  /\ fed # <<>> => Len(out) < Len(fed)

\* What Decrypt's own side still holds of what was fed, the padding that finish
\* strips included.
Ahead == IF mpc = "feed" THEN wbuf \o cur
         ELSE IF mpc \in {"tail", "close", "drain"} THEN wbuf \o <<Pad>>
         ELSE pending

\* Nothing is lost, duplicated or reordered between the lookahead, the inner
\* pipe, the LZ4 goroutine and `out`: until something fails they hold exactly
\* what was fed, less the end mark once it was read (decrypt.go:433-518).
NothingLost ==
  ret = "none" /\ lzErr \in {"none", "nil"} =>
    \E e \in {<<>>, <<End>>} :
      /\ fed = out \o (sbuf \o (e \o Ahead))
      /\ lzErr = "none" => e = <<>>

\* A nil result means that everything but the trailer is in `out`, that the
\* recorded file_md5, wherever in the stream it came from, is that of `out`,
\* and that no goroutine is left (decrypt.go:47-50, 495-518).
SuccessIsComplete ==
  ret = "nil" /\ mpc = "returned" =>
    /\ \E t \in {<<Pad>>, <<End, Pad>>} : fed = out \o t
    /\ meta.sum \in {NoSum, out}
    /\ lz \in {"idle", "gone"}

\* Once Decrypt has returned nothing touches `out` any more: every return but
\* the bare ones, for values that are no well-formed dict, joins the LZ4
\* goroutine first (abort and finish, decrypt.go:495-525).
JoinedOnReturn ==
  mpc = "returned" /\ ret # "format" => lz \in {"idle", "gone"} /\ sbuf = <<>>

\* An error met by the LZ4 stage or by `out` is never reported as success,
\* nor hidden behind the "closed pipe" that the writing side sees: that one is
\* only returned after the frame ended well (decrypt.go:454-463, 501-506).
CauseReported ==
  mpc = "returned" /\ lzErr \notin {"none", "nil"} =>
    ret \notin {"nil", "closedpipe"}

\* Decrypt returns, whatever the stream holds and whichever side fails first.
Terminates == <>(mpc = "returned")

\* A stream whose payloads are whole and end with the frame's end mark and the
\* padding is not refused with the inner pipe's own error
\* (encrypt_test.go:31-33: what Encrypt wrote must come back).
WellFormedAccepted ==
  ret = "closedpipe" =>
    ~ \E n \in 0..Len(fed) : /\ fed = SubSeq(fed, 1, n) \o <<End, Pad>>
                             /\ \A i \in 1..n : fed[i] \in Blocks

\* Decrypt implements a plaintext stream: what the pipe was fed is received,
\* what `out` accepted is delivered, and the result is known on return.
Promise == INSTANCE PlaintextStream WITH
  Unit <- Units, Trailers <- {<<Pad>>, <<End, Pad>>}, Failures <- Errors,
  input <- fed, output <- out,
  result <- IF mpc = "returned" THEN ret ELSE "none"
ImplementsPromise == Promise!Init /\ [][Promise!Next]_(Promise!svars)
============================================================================
