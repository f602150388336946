------------------------------- MODULE Writer -------------------------------
(***************************************************************************)
(* csenc.Writer and Encrypt (encrypt.go): plaintext goes through the LZ4   *)
(* writer, if there is one, into aesFeeder, which keeps what is no whole   *)
(* cipher block, and on into pendingSink, which keeps what is no whole     *)
(* chunk; Close drains the three, pads, and writes the md5.                *)
(*                                                                         *)
(* One step is one write to `out`, or the calls between two of them.  A    *)
(* byte of ciphertext is named by the byte it encrypts: CBC goes on from   *)
(* one write to the next, so the n-th byte out is always of the n-th byte  *)
(* in.  The LZ4 writer forwards what it likes when it likes, all of it and *)
(* an end mark when it is closed; End stands for the mark.                 *)
(*                                                                         *)
(* The caller is Encrypt, which stops at the first error, or anyone else,  *)
(* who may go on.                                                          *)
(***************************************************************************)
EXTENDS Integers, SequencesExt

CONSTANTS
  BlockSize, \* aes.BlockSize
  ChunkSize, \* dataChunkSize
  End,       \* the LZ4 end mark
  Pieces,    \* what one Write may be given
  MaxBytes,  \* bound: bytes given to one Writer
  MaxItems   \* bound: a Write begins only with fewer items in `out`

ASSUME WriterAssumption ==
  /\ BlockSize \in Nat \ {0} /\ ChunkSize \in Nat \ {0}
  /\ ChunkSize % BlockSize = 0 /\ ChunkSize <= 65535
  /\ End \in Nat /\ Pieces \subseteq Seq(Nat)
  /\ MaxBytes \in Nat /\ MaxItems \in Nat

VARIABLES
  encrypt,  \* the caller is Encrypt
  compress, \* opts.compressOn()
  pc,       \* "idle", or where the call in progress is
  then,     \* where it goes on after pendingSink.Write
  arg,      \* what the Write in progress was given
  started, closed, failed, \* w's fields, failed as a Boolean
  lzBuf,    \* bytes the LZ4 writer has not forwarded
  aesBuf,   \* a.buf
  chunkBuf, \* s.buf
  hashed,   \* what w.md5 covers
  out,      \* what `out` accepted: <<kind, payload>>, "torn" after a failure
  sent,     \* history: the bytes of the payloads in `out`
  given,    \* history: the bytes of all Writes that returned nil
  erred,    \* history: some Write returned an error
  res, closeRes \* results of the last call and of the first Close

options == <<encrypt, compress>>
flags == <<started, closed, failed>>
stages == <<lzBuf, aesBuf, chunkBuf>>
output == <<out, sent>>
history == <<given, erred, res, closeRes>>
vars == <<options, pc, then, arg, flags, stages, hashed, output, history>>

Init ==
  /\ encrypt \in BOOLEAN /\ compress \in BOOLEAN
  /\ pc = "idle" /\ then = "return" /\ arg = <<>>
  /\ started = FALSE /\ closed = FALSE /\ failed = FALSE
  /\ lzBuf = <<>> /\ aesBuf = <<>> /\ chunkBuf = <<>>
  /\ hashed = <<>> /\ out = <<>> /\ sent = <<>>
  /\ given = <<>> /\ erred = FALSE /\ res = "none" /\ closeRes = "none"

\* The call in progress returns.
Return(r) ==
  /\ pc' = "idle" /\ res' = r
  /\ IF closed
     THEN /\ closeRes' = IF closeRes = "none" THEN r ELSE closeRes
          /\ UNCHANGED <<given, erred>>
     ELSE /\ IF r = "nil" THEN given' = given \o arg /\ UNCHANGED erred
                          ELSE erred' = TRUE /\ UNCHANGED given
          /\ UNCHANGED closeRes

Put(kind, payload) ==
  /\ out' = Append(out, <<kind, payload>>)
  /\ sent' = IF kind = "data" THEN sent \o payload ELSE sent

\* A write to `out` fails, perhaps after some bytes.  Close and start record
\* the error, Write does not.
Torn(recorded) ==
  /\ Put("torn", <<>>) /\ Return("error")
  /\ failed' = (failed \/ recorded)

----------------------------------------------------------------------------
(* The calls.                                                              *)

Write(p) ==
  /\ pc = "idle" /\ Len(hashed \o p) <= MaxBytes /\ Len(out) < MaxItems
  /\ encrypt => ~closed /\ ~erred
  /\ IF closed \/ failed
     THEN res' = "error" /\ UNCHANGED <<pc, arg>>
     ELSE /\ arg' = p /\ pc' = IF started THEN "feed" ELSE "start"
          /\ UNCHANGED res
  /\ UNCHANGED <<options, then, flags, stages, hashed, output, given, erred,
                 closeRes>>

Close ==
  /\ pc = "idle"
  /\ encrypt => ~closed /\ ~erred
  /\ closed' = TRUE
  /\ IF closed \/ failed
     THEN /\ res' = IF failed THEN "error" ELSE "nil"
          /\ closeRes' = IF closed THEN closeRes ELSE res'
          /\ UNCHANGED <<pc, arg>>
     ELSE /\ arg' = <<>> /\ pc' = IF started THEN "drain" ELSE "start"
          /\ UNCHANGED <<res, closeRes>>
  /\ UNCHANGED <<options, then, started, failed, stages, hashed, output,
                 given, erred>>

\* Encrypt gives up: a Write failed, or its own source did.
Abort ==
  /\ encrypt /\ pc = "idle" /\ ~closed
  /\ closed' = TRUE /\ res' = "error"
  /\ UNCHANGED <<options, pc, then, arg, started, failed, stages, hashed, output,
                 given, erred, closeRes>>

----------------------------------------------------------------------------
(* The stages.                                                             *)

\* Mutant: Write does not record that start failed.
StartForgets ==
  /\ pc = "start"
  /\ started' = TRUE
  /\ \/ /\ out' = out \o <<<<"magic", <<>>>>, <<"metadata", <<>>>>>>
        /\ pc' = IF closed THEN "drain" ELSE "feed"
        /\ UNCHANGED <<failed, sent, history>>
     \/ Torn(closed)
     \/ Return("error") /\ failed' = closed /\ UNCHANGED output
  /\ UNCHANGED <<options, then, arg, closed, stages, hashed>>

\* start: key material, magic and leading metadata.
Start ==
  /\ pc = "start"
  /\ started' = TRUE
  /\ \/ /\ out' = out \o <<<<"magic", <<>>>>, <<"metadata", <<>>>>>>
        /\ pc' = IF closed THEN "drain" ELSE "feed"
        /\ UNCHANGED <<failed, sent, history>>
     \/ Torn(TRUE)
     \/ Return("error") /\ failed' = TRUE /\ UNCHANGED output
  /\ UNCHANGED <<options, then, arg, closed, stages, hashed>>

Whole(buf) == (Len(buf) \div BlockSize) * BlockSize

\* aesFeeder.Write: whole blocks go on; a.buf is cut only once they went.
Forward(bytes, next) ==
  LET buf == aesBuf \o bytes IN
  /\ aesBuf' = buf /\ chunkBuf' = chunkBuf \o SubSeq(buf, 1, Whole(buf))
  /\ pc' = "emit" /\ then' = next

Feed ==
  /\ pc = "feed"
  /\ hashed' = hashed \o arg
  /\ IF compress
     THEN LET all == lzBuf \o arg IN
          \E n \in 0..Len(all) : /\ Forward(SubSeq(all, 1, n), "return")
                                 /\ lzBuf' = SubSeq(all, n + 1, Len(all))
     ELSE Forward(arg, "return") /\ UNCHANGED lzBuf
  /\ UNCHANGED <<options, arg, flags, output, history>>

\* Close: the LZ4 writer is drained and ends its frame.
DrainLz ==
  /\ pc = "drain"
  /\ IF compress THEN Forward(Append(lzBuf, End), "pad") /\ lzBuf' = <<>>
                 ELSE pc' = "pad" /\ UNCHANGED <<then, stages>>
  /\ UNCHANGED <<options, arg, flags, hashed, output, history>>

\* Mutant: no padding when the content is aligned.
PaddingNone(buf) ==
  LET n == (BlockSize - (Len(buf) % BlockSize)) % BlockSize
  IN [i \in 1..n |-> n]

Padding(buf) == LET n == BlockSize - (Len(buf) % BlockSize)
                IN [i \in 1..n |-> n]

\* aesFeeder.finish
Pad ==
  /\ pc = "pad"
  /\ Forward(Padding(aesBuf), "flush")
  /\ UNCHANGED <<options, arg, flags, lzBuf, hashed, output, history>>

\* Mutant: a buffer of exactly one chunk waits.
FullLate == Len(chunkBuf) > ChunkSize

Full == Len(chunkBuf) >= ChunkSize

\* Mutant: a full buffer goes out in one dict.
EmitAll ==
  /\ pc = "emit" /\ Full
  /\ \/ /\ Put("data", chunkBuf) /\ chunkBuf' = <<>>
        /\ UNCHANGED <<pc, failed, history>>
     \/ Torn(closed) /\ UNCHANGED chunkBuf
  /\ UNCHANGED <<options, then, arg, started, closed, lzBuf, aesBuf, hashed>>

\* pendingSink.Write: one full chunk.
Emit ==
  /\ pc = "emit" /\ Full
  /\ \/ /\ Put("data", SubSeq(chunkBuf, 1, ChunkSize))
        /\ chunkBuf' = SubSeq(chunkBuf, ChunkSize + 1, Len(chunkBuf))
        /\ UNCHANGED <<pc, failed, history>>
     \/ Torn(closed) /\ UNCHANGED chunkBuf
  /\ UNCHANGED <<options, then, arg, started, closed, lzBuf, aesBuf, hashed>>

\* Mutant: every Write drops what is left of the block.
EmittedDrops ==
  /\ pc = "emit" /\ ~Full
  /\ aesBuf' = <<>>
  /\ IF then = "return" THEN Return("nil")
                        ELSE pc' = then /\ UNCHANGED history
  /\ UNCHANGED <<options, then, arg, flags, lzBuf, chunkBuf, hashed, output>>

\* pendingSink.Write returns, and aesFeeder keeps the rest of its buffer.
Emitted ==
  /\ pc = "emit" /\ ~Full
  /\ aesBuf' = SubSeq(aesBuf, Whole(aesBuf) + 1, Len(aesBuf))
  /\ IF then = "return" THEN Return("nil")
                        ELSE pc' = then /\ UNCHANGED history
  /\ UNCHANGED <<options, then, arg, flags, lzBuf, chunkBuf, hashed, output>>

\* pendingSink.flush: what is left is the last chunk.
Flush ==
  /\ pc = "flush"
  /\ \/ /\ chunkBuf = <<>>
        /\ pc' = "sum" /\ UNCHANGED <<failed, chunkBuf, output, history>>
     \/ /\ chunkBuf # <<>> /\ Put("data", chunkBuf) /\ chunkBuf' = <<>>
        /\ pc' = "sum" /\ UNCHANGED <<failed, history>>
     \/ chunkBuf # <<>> /\ Torn(TRUE) /\ UNCHANGED chunkBuf
  /\ UNCHANGED <<options, then, arg, started, closed, lzBuf, aesBuf, hashed>>

\* The trailing metadata dict.
Finish ==
  /\ pc = "sum"
  /\ \/ Put("file_md5", hashed) /\ Return("nil") /\ UNCHANGED failed
     \/ Torn(TRUE)
  /\ UNCHANGED <<options, then, arg, started, closed, stages, hashed>>

Finished == encrypt /\ closed /\ pc = "idle" /\ UNCHANGED vars

Next == \/ (\E p \in Pieces : Write(p)) \/ Close \/ Abort \/ Start \/ Feed
        \/ DrainLz \/ Pad \/ Emit \/ Emitted \/ Flush \/ Finish \/ Finished
Spec == Init /\ [][Next]_vars

----------------------------------------------------------------------------
(* Properties.                                                             *)

Trusted == ~erred /\ ~failed

\* Every variable has its type, and between two calls no stage holds as much
\* as it would pass on.
TypeOK ==
  /\ pc \in {"idle", "start", "feed", "drain", "pad", "emit", "flush", "sum"}
  /\ then \in {"return", "pad", "flush"}
  /\ flags \in BOOLEAN \X BOOLEAN \X BOOLEAN /\ erred \in BOOLEAN
  /\ res \in {"none", "nil", "error"} /\ closeRes \in {"none", "nil", "error"}
  /\ pc = "idle" /\ Trusted =>
       Len(aesBuf) < BlockSize /\ Len(chunkBuf) < ChunkSize

\* While no call failed, what was given is in the payloads and the three
\* stages, in order and once, whatever the sizes of the Writes
\* (encrypt.go:362-440).
StagesHoldAll ==
  pc = "idle" /\ ~closed /\ Trusted =>
    sent \o chunkBuf \o aesBuf \o lzBuf = given

\* Every payload is whole blocks and within the chunk size: what Decrypt's feed
\* accepts and a u16 length can hold (encrypt.go:145-149, decrypt.go:478).
\* While no call failed the k-th one is the k-th chunk of what was sent, so
\* that only the last may be shorter.
Chunk(k) == SubSeq(sent, (k - 1) * ChunkSize + 1,
                   IF Len(sent) < k * ChunkSize THEN Len(sent) ELSE k * ChunkSize)
ChunksFit ==
  /\ \A i \in DOMAIN out : out[i][1] = "data" =>
       /\ out[i][2] # <<>> /\ Len(out[i][2]) % BlockSize = 0
       /\ Len(out[i][2]) <= ChunkSize
       /\ Trusted => out[i][2] = Chunk(i - 2)
  /\ Trusted /\ sent # <<>> =>
       \E i \in DOMAIN out :
         out[i][1] = "data" /\ Len(sent) \in (i - 3) * ChunkSize + 1 ..
                                              (i - 2) * ChunkSize

\* A nil result of Close, or of Encrypt, means a stream that decrypts to what
\* was given: header first, then payloads that are the content and a padding
\* that unpadPKCS7 takes off again, and the md5 of that content last.
CloseIsComplete ==
  closeRes = "nil" /\ (encrypt \/ ~erred) =>
    /\ \E n \in 1..BlockSize :
         sent = (IF compress THEN Append(given, End) ELSE given)
                  \o [i \in 1..n |-> n]
    /\ Len(out) > 3 /\ out[1][1] = "magic" /\ out[2][1] = "metadata"
    /\ \A i \in 3..Len(out) - 1 : out[i][1] = "data"
    /\ out[Len(out)] = <<"file_md5", given>>

\* A stream whose header is not whole, since start failed in a Write or in
\* Close, is never called good by a later call of any caller, and neither is
\* one whose Close has failed: Close repeats its answer (encrypt.go:154-156,
\* 192-200, 210-223).
FailureSticks ==
  /\ started /\ (out = <<>> \/ out[1][1] = "torn") => res # "nil"
  /\ closeRes = "error" => res # "nil"
=============================================================================
