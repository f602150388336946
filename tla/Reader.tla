------------------------------- MODULE Reader -------------------------------
(***************************************************************************)
(* csenc.Reader (reader.go, file.go:95-112): Decrypt runs in a goroutine   *)
(* of its own with the writer side of an io.Pipe as its `out`; the caller  *)
(* reads from the other side and closes.                                   *)
(*                                                                         *)
(* The caller may call Read from one goroutine and Close from another, and *)
(* may stop reading at any time.  sync.Once makes further Close calls wait *)
(* for the first and return its answer, so one Close is modelled.          *)
(* Metadata() is a copy of the struct behind r.meta, which is the snapshot *)
(* OnMetadata was called with: `snap` of Decrypt.                          *)
(***************************************************************************)
EXTENDS Decrypt

\* `out` is the outer pipe: a write to it fails when a side of it is closed.
ASSUME SinkAssumption == SinkErrors = {"closedpipe"}

VARIABLES   \* besides Decrypt's, whose `out` is what Read has returned
  gor,      \* the Reader's goroutine, after Decrypt
  owerr,    \* error the outer pipe's writer side was closed with
  orerr,    \* error the outer pipe's reader side was closed with
  rdone,    \* r.doneCh, buffered, capacity 1
  rd,       \* whether a Read is in progress
  seen,     \* the error the last Read before Close returned
  closing,  \* where the caller's Close is
  closeErr, \* r.closeErr
  srcOpen   \* whether extraClose has not been closed yet

pipeVars == <<gor, owerr, orerr, rdone>>
callerVars == <<rd, seen, closing, closeErr, srcOpen>>
readerVars == <<vars, pipeVars, callerVars>>

ReaderInit ==
  /\ Init
  /\ gor = "decrypt" /\ owerr = "none" /\ orerr = "none" /\ rdone = <<>>
  /\ rd = "idle" /\ seen = "none"
  /\ closing = "open" /\ closeErr = "nil" /\ srcOpen = TRUE

PipeOpen == owerr = "none" /\ orerr = "none"

----------------------------------------------------------------------------
(* The goroutine of NewReader.                                             *)

DecryptStep == Internal /\ UNCHANGED <<pipeVars, callerVars>>

\* A write of Decrypt meets a pending Read, which returns with it.
HandOver ==
  /\ PipeOpen /\ rd = "reading"
  /\ OutAccept
  /\ rd' = "idle"
  /\ UNCHANGED <<pipeVars, seen, closing, closeErr, srcOpen>>

WriteClosed ==
  /\ ~PipeOpen
  /\ OutFail("closedpipe")
  /\ UNCHANGED <<pipeVars, callerVars>>

\* Mutant: the pipe is closed without Decrypt's error.
PropagateNil ==
  /\ mpc = "returned" /\ gor = "decrypt"
  /\ owerr' = "EOF" /\ gor' = "sending"
  /\ UNCHANGED <<vars, orerr, rdone, callerVars>>

\* Mutant: the pipe is left open when Decrypt returns.
PropagateNothing ==
  /\ mpc = "returned" /\ gor = "decrypt" /\ gor' = "sending"
  /\ UNCHANGED <<vars, owerr, orerr, rdone, callerVars>>

\* pw.CloseWithError(err): nil becomes io.EOF for the Read side.
Propagate ==
  /\ mpc = "returned" /\ gor = "decrypt"
  /\ owerr' = IF ret = "nil" THEN "EOF" ELSE ret
  /\ gor' = "sending"
  /\ UNCHANGED <<vars, orerr, rdone, callerVars>>

Send ==
  /\ gor = "sending"
  /\ rdone' = <<ret>> /\ gor' = "gone"
  /\ UNCHANGED <<vars, owerr, orerr, callerVars>>

----------------------------------------------------------------------------
(* The caller.                                                             *)

ReadBegin ==
  /\ rd = "idle" /\ rd' = "reading"
  /\ UNCHANGED <<vars, pipeVars, seen, closing, closeErr,
                 srcOpen>>

\* readCloseError of the pipe: the writer's error while only that side is
\* closed.
ReadError == IF orerr = "none" THEN owerr ELSE "closedpipe"

ReadFails ==
  /\ rd = "reading" /\ ~PipeOpen
  /\ rd' = "idle"
  /\ seen' = IF orerr = "none" THEN ReadError ELSE seen
  /\ UNCHANGED <<vars, pipeVars, closing, closeErr, srcOpen>>

\* Mutant: Close only waits.
CloseBeginQuiet ==
  /\ closing = "open" /\ closing' = "waiting"
  /\ UNCHANGED <<vars, pipeVars, rd, seen, closeErr, srcOpen>>

\* Close, first half: r.pr.Close(), which wakes whoever waits on the pipe.
CloseBegin ==
  /\ closing = "open"
  /\ orerr' = "closedpipe" /\ closing' = "waiting"
  /\ UNCHANGED <<vars, gor, owerr, rdone, rd, seen, closeErr,
                 srcOpen>>

\* Mutant: the source is closed without waiting for Decrypt.
CloseJoinAtOnce ==
  /\ closing = "waiting"
  /\ closing' = "extra" /\ UNCHANGED <<closeErr, rdone>>
  /\ UNCHANGED <<vars, gor, owerr, orerr, rd, seen, srcOpen>>

\* err := <-r.doneCh
CloseJoin ==
  /\ closing = "waiting" /\ rdone # <<>>
  /\ closeErr' = Head(rdone) /\ rdone' = Tail(rdone)
  /\ closing' = "extra"
  /\ UNCHANGED <<vars, gor, owerr, orerr, rd, seen, srcOpen>>

\* Mutant: every error of Decrypt is suppressed.
CloseExtraSwallows(e) ==
  /\ closing = "extra"
  /\ srcOpen' = FALSE /\ closing' = "closed"
  /\ closeErr' = IF closeErr = "nil" THEN e ELSE "nil"
  /\ UNCHANGED <<vars, pipeVars, rd, seen>>

\* extraClose.Close() returns e; an error of the closed pipe is suppressed.
CloseExtra(e) ==
  /\ closing = "extra"
  /\ srcOpen' = FALSE /\ closing' = "closed"
  /\ closeErr' = CASE closeErr = "nil" -> e
                   [] closeErr = "closedpipe" -> "nil"
                   [] OTHER -> closeErr
  /\ UNCHANGED <<vars, pipeVars, rd, seen>>

\* The caller writes into a slice of the Metadata it got (enc_key1, salt).
\* The struct was copied, the bytes were not: until the session key is
\* recovered from them they are Decrypt's own.
CallerMutates ==
  /\ mpc = "unwrap" /\ meta.key = "good"
  /\ meta' = [meta EXCEPT !.key = "bad"]
  /\ UNCHANGED <<mpc, items, snap, pipe, cur, pending, fed, wbuf, rerr, werr,
                 lz, lzErr, doneCh, sbuf, out, ret, pipeVars, callerVars>>

----------------------------------------------------------------------------
Goroutine == Propagate \/ Send
Closer == CloseJoin \/ \E e \in {"nil", "srcerr"} : CloseExtra(e)

ReaderNext == \/ DecryptStep \/ HandOver \/ WriteClosed \/ Goroutine
              \/ ReadBegin \/ ReadFails \/ CloseBegin \/ Closer \/ CallerMutates

\* Goroutines run and calls that can return do; the source is a matter of its
\* own, and no caller has to read or to close.
Running ==
  /\ WF_readerVars(Main /\ UNCHANGED <<pipeVars, callerVars>>)
  /\ WF_readerVars(Lz /\ UNCHANGED <<pipeVars, callerVars>>)
  /\ WF_readerVars(HandOver) /\ WF_readerVars(WriteClosed) /\ WF_readerVars(Goroutine)
  /\ WF_readerVars(ReadFails) /\ WF_readerVars(Closer)
SourceAnswers == WF_readerVars(ReadStream /\ UNCHANGED <<pipeVars, callerVars>>)

ReaderSpec == ReaderInit /\ [][ReaderNext]_readerVars /\ Running /\ SourceAnswers

----------------------------------------------------------------------------
(* Properties.                                                             *)

\* Every variable has its type; each end of the pipe is closed exactly once the
\* step that closes it was taken.
ReaderTypeOK ==
  /\ TypeOK
  /\ gor \in {"decrypt", "sending", "gone"}
  /\ owerr \in Errors \cup {"none"} /\ orerr \in {"none", "closedpipe"}
  /\ rdone \in {<<>>} \cup {<<r>> : r \in Results}
  /\ rd \in {"idle", "reading"}
  /\ seen \in Errors \cup {"none"}
  /\ closing \in {"open", "waiting", "extra", "closed"}
  /\ closeErr \in Results \cup {"srcerr"} /\ srcOpen \in BOOLEAN
  /\ owerr = "none" <=> gor = "decrypt"
  /\ orerr = "none" <=> closing = "open"

\* The source handed over with the Reader is never closed under a Decrypt that
\* may still read it, whoever called Close and when (reader.go:103-107).
SourceOutlivesDecrypt == ~srcOpen => mpc = "returned" /\ gor = "gone"

\* A Read that returns io.EOF is the end of a whole and verified plaintext: the
\* pipe never turns a failure into a clean end (reader.go:63-69).  The error
\* io.EOF of an lz4 reader that found no frame is passed on as it is.
EOFIsComplete ==
  seen = "EOF" => \/ SuccessIsComplete /\ ret = "nil"
                  \/ ret = "EOF" /\ lzErr = "EOF"

\* Close repeats what Read has already reported, and answers nil after a clean
\* end unless the source's own Close failed (reader.go:94-99).
CloseAgrees ==
  closing = "closed" /\ seen # "none" =>
    closeErr \in IF ret = "nil" THEN {"nil", "srcerr"}
                 ELSE IF seen = "closedpipe" THEN {"nil"} ELSE {seen}

\* A Close whose Decrypt failed for a reason of the stream says so, read or not
\* (README.md:280), and nothing else but the source's Close makes it fail.
CloseReports ==
  closing = "closed" =>
    IF ret \in {"nil", "closedpipe"} THEN closeErr \in {"nil", "srcerr"}
                                     ELSE closeErr = ret

\* Close returns, even with nobody reading: the writes it interrupts fail, the
\* LZ4 goroutine winds down and Decrypt comes back (reader.go:100-105).
CloseReturns == closing = "waiting" ~> closing = "closed"

\* No Read waits for ever: it gets data, the end or the closed pipe.
ReadReturns == rd = "reading" ~> rd = "idle"

----------------------------------------------------------------------------
(* What the documentation says and the code does not do.                   *)

\* README.md:278: only a Reader that is not closed leaks its goroutine.
CloseReleases == closing = "closed" ~> lz \in {"idle", "gone"}

\* README.md:280: an integrity error at the tail is returned by Close.  Here
\* every byte of the plaintext was read before it.
TailErrorSurfaces ==
  closing = "closed" /\ closeErr = "nil" /\ pipe = "direct"
    /\ fed = out \o <<Pad>> => meta.sum \in {NoSum, out}
=============================================================================
