----------------------------- MODULE WriterProofs -----------------------------
(***************************************************************************)
(* Proofs about Writer, for every block and chunk size, every sequence of   *)
(* Writes and every way `out` may fail: what was given is in the payloads   *)
(* or in a stage, the payloads are chunks that Decrypt accepts, and Close   *)
(* says nil only of a complete stream.                                      *)
(***************************************************************************)
EXTENDS Writer, SequenceTheorems, TLAPS

----------------------------------------------------------------------------
(* The inductive invariant.                                                *)

Bytes == Seq(Nat)
Items == {"torn", "magic", "metadata", "data", "file_md5"} \X Bytes

Types ==
  /\ encrypt \in BOOLEAN /\ compress \in BOOLEAN
  /\ pc \in {"idle", "start", "feed", "drain", "pad", "emit", "flush", "sum"}
  /\ then \in {"return", "pad", "flush"}
  /\ started \in BOOLEAN /\ closed \in BOOLEAN /\ failed \in BOOLEAN
  /\ arg \in Bytes /\ lzBuf \in Bytes /\ aesBuf \in Bytes /\ chunkBuf \in Bytes
  /\ hashed \in Bytes /\ sent \in Bytes /\ given \in Bytes
  /\ out \in Seq(Items) /\ erred \in BOOLEAN
  /\ res \in {"none", "nil", "error"} /\ closeRes \in {"none", "nil", "error"}

InWrite == pc = "feed" \/ (pc = "emit" /\ then = "return")
InClose == pc \in {"drain", "pad", "flush", "sum"}
             \/ (pc = "emit" /\ then \in {"pad", "flush"})

\* Which calls are in progress when, and what is known of their results.
Control ==
  /\ InWrite => ~closed
  /\ InClose => closed
  /\ closed /\ pc # "idle" => arg = <<>>
  /\ pc \notin {"idle", "start"} => started
  /\ pc = "start" => ~started
  /\ ~started => out = <<>> /\ sent = <<>>
  /\ failed => pc = "idle" /\ res = "error"
  /\ out # <<>> /\ out[Len(out)][1] = "torn" /\ ~failed => erred
  /\ encrypt /\ erred => pc = "idle" /\ closeRes # "nil"
  /\ ~closed \/ pc # "idle" => closeRes = "none"
  /\ closeRes = "nil" => started /\ ~failed
  /\ closeRes = "error" => failed
  /\ started /\ ~failed => out # <<>> /\ out[1][1] # "torn"

\* How much the stages may hold where.
Stages ==
  /\ ~compress => lzBuf = <<>>
  /\ Len(chunkBuf) % BlockSize = 0
  /\ pc = "emit" /\ then = "flush" => Len(aesBuf) % BlockSize = 0
  /\ pc \in {"flush", "sum"} => aesBuf = <<>>
  /\ pc = "flush" => Len(chunkBuf) < ChunkSize
  /\ pc = "sum" => chunkBuf = <<>>
  /\ pc = "idle" /\ Trusted =>
       Len(aesBuf) < BlockSize /\ Len(chunkBuf) < ChunkSize

\* What `out` holds while no call failed: until flush, only full chunks.
Shape ==
  Trusted /\ started =>
    /\ Len(out) >= 2 /\ out[1][1] = "magic" /\ out[2][1] = "metadata"
    /\ \A i \in 3..Len(out) :
         out[i][1] = "data" \/ (i = Len(out) /\ closeRes = "nil")
    /\ pc # "sum" /\ closeRes # "nil" => Len(sent) = (Len(out) - 2) * ChunkSize

\* What aesFeeder keeps once its whole blocks went on.
Rest == SubSeq(aesBuf, Whole(aesBuf) + 1, Len(aesBuf))
Content == IF compress THEN Append(given, End) ELSE given
Padded(s) == \E n \in 1..BlockSize : s = Content \o [i \in 1..n |-> n]

\* Where every byte given is, while no call failed.
Account ==
  Trusted =>
    /\ pc \in {"idle", "start", "feed", "drain"} /\ closeRes = "none" =>
         /\ sent \o chunkBuf \o aesBuf \o lzBuf = given
         /\ hashed = given
    /\ pc = "emit" /\ then = "return" =>
         /\ sent \o chunkBuf \o Rest \o lzBuf = given \o arg
         /\ hashed = given \o arg
    /\ pc = "emit" /\ then = "pad" => sent \o chunkBuf \o Rest = Content
    /\ pc = "pad" => sent \o chunkBuf \o aesBuf = Content
    /\ (pc = "emit" /\ then = "flush") \/ pc = "flush" =>
         Padded(sent \o chunkBuf)
    /\ pc = "sum" => Padded(sent)
    /\ InClose => hashed = given
    /\ closeRes = "nil" =>
         Padded(sent) /\ out[Len(out)] = <<"file_md5", given>>

IInv == Types /\ Control /\ Stages /\ Shape /\ Account /\ ChunksFit

----------------------------------------------------------------------------
(* Lemmas about blocks and about sequences of bytes.                       *)

\* A length is whole blocks and a rest.
LEMMA Division ==
  ASSUME NEW n \in Nat
  PROVE  LET w == (n \div BlockSize) * BlockSize
         IN  /\ w \in 0..n /\ n - w < BlockSize /\ w % BlockSize = 0
             /\ n % BlockSize \in 0..BlockSize - 1
             /\ n % BlockSize = 0 => w = n
<1>0. BlockSize \in Nat \ {0}
  BY WriterAssumption
<1>1. (n \div BlockSize) * BlockSize \in 0..n
  BY <1>0
<1>2. n - (n \div BlockSize) * BlockSize < BlockSize
  BY <1>0
<1>3. ((n \div BlockSize) * BlockSize) % BlockSize = 0
  BY <1>0
<1>4. n % BlockSize \in 0..BlockSize - 1
  BY <1>0
<1>5. n % BlockSize = 0 => (n \div BlockSize) * BlockSize = n
  BY <1>0
<1> QED BY <1>1, <1>2, <1>3, <1>4, <1>5

\* Sums and differences of whole blocks are whole blocks.
LEMMA WholeSums ==
  ASSUME NEW m \in Nat, NEW n \in Nat,
         m % BlockSize = 0, n % BlockSize = 0
  PROVE  /\ (m + n) % BlockSize = 0
         /\ m >= n => (m - n) % BlockSize = 0
<1>0. BlockSize \in Nat \ {0}
  BY WriterAssumption
<1>1. PICK j \in Nat : m = j * BlockSize
  BY <1>0
<1>2. PICK k \in Nat : n = k * BlockSize
  BY <1>0
<1>3. \A q \in Nat : (q * BlockSize) % BlockSize = 0
  <2> TAKE q \in Nat
  <2> QED BY <1>0
<1>4. j * BlockSize + k * BlockSize = (j + k) * BlockSize
  BY <1>0
<1>5. (m + n) % BlockSize = 0
  BY <1>1, <1>2, <1>3, <1>4
<1>6. ASSUME m >= n PROVE (m - n) % BlockSize = 0
  <2>1. j >= k
    BY <1>0, <1>1, <1>2, <1>6
  <2>2. j * BlockSize - k * BlockSize = (j - k) * BlockSize /\ j - k \in Nat
    BY <1>0, <2>1
  <2> QED BY <1>1, <1>2, <1>3, <2>2
<1> QED BY <1>5, <1>6

\* What padding adds makes whole blocks.
LEMMA PaddingFills ==
  ASSUME NEW buf \in Bytes
  PROVE  /\ Padding(buf) \in Bytes
         /\ (Len(buf) + Len(Padding(buf))) % BlockSize = 0
         /\ \E n \in 1..BlockSize : Padding(buf) = [i \in 1..n |-> n]
<1> DEFINE n == BlockSize - (Len(buf) % BlockSize)
           p == [i \in 1..n |-> n]
<1>1. Len(buf) \in Nat
  BY DEF Bytes
<1>2. n \in 1..BlockSize
  BY <1>1, Division, WriterAssumption
<1>3. (Len(buf) + n) % BlockSize = 0
  <2> DEFINE q == Len(buf) \div BlockSize
             r == Len(buf) - q * BlockSize
  <2>0. BlockSize \in Nat \ {0}
    BY WriterAssumption
  <2>1. q \in Nat /\ r \in 0..BlockSize - 1
    BY <1>1, <2>0
  <2>2. \A k \in Nat, e \in 0..BlockSize - 1 :
           (k * BlockSize + e) % BlockSize = e
    <3> TAKE k \in Nat, e \in 0..BlockSize - 1
    <3> QED BY <2>0
  <2>3. Len(buf) = q * BlockSize + r
    BY <1>1, <2>0
  <2> HIDE DEF q, r
  <2>4. Len(buf) % BlockSize = r
    BY <2>1, <2>2, <2>3
  <2>5. Len(buf) + n = (q + 1) * BlockSize + 0
    BY <2>0, <2>1, <2>3, <2>4
  <2>6. ((q + 1) * BlockSize + 0) % BlockSize = 0
    <3>1. q + 1 \in Nat /\ 0 \in 0..BlockSize - 1
      BY <2>0, <2>1
    <3> QED BY <2>2, <3>1
  <2> QED BY <2>5, <2>6
<1> HIDE DEF n
<1>4. n \in Nat
  BY <1>2, WriterAssumption
<1>5. p \in Bytes /\ Len(p) = n
  BY <1>4 DEF Bytes
<1>6. Padding(buf) = p
  BY DEF Padding, n
<1> QED BY <1>2, <1>3, <1>5, <1>6

\* Concatenation of bytes.
LEMMA Joining ==
  /\ \A s, t \in Bytes : /\ s \o t \in Bytes
                         /\ Len(s \o t) = Len(s) + Len(t)
  /\ \A s, t, u \in Bytes : (s \o t) \o u = s \o (t \o u)
  /\ \A s \in Bytes : s \o <<>> = s /\ <<>> \o s = s /\ Len(s) \in Nat
<1>1. \A s, t \in Bytes : s \o t \in Bytes /\ Len(s \o t) = Len(s) + Len(t)
  BY ConcatProperties DEF Bytes
<1>2. \A s, t, u \in Bytes : (s \o t) \o u = s \o (t \o u)
  BY ConcatAssociative DEF Bytes
<1>3. \A s \in Bytes : s \o <<>> = s /\ <<>> \o s = s
  BY ConcatEmptySeq DEF Bytes
<1>4. \A s \in Bytes : Len(s) \in Nat
  BY LenProperties DEF Bytes
<1> QED BY <1>1, <1>2, <1>3, <1>4

LEMMA Empties ==
  /\ <<>> \in Bytes /\ <<>> \in Seq(Items)
BY EmptySeq DEF Bytes

\* What a write to `out` appends.
LEMMA Putting ==
  ASSUME NEW kind \in {"torn", "magic", "metadata", "data", "file_md5"},
         NEW p \in Bytes, out \in Seq(Items), Put(kind, p)
  PROVE  /\ out' \in Seq(Items) /\ Len(out') = Len(out) + 1
         /\ \A i \in 1..Len(out) : out'[i] = out[i]
         /\ out'[Len(out) + 1] = <<kind, p>>
         /\ sent' = IF kind = "data" THEN sent \o p ELSE sent
<1>1. <<kind, p>> \in Items
  BY DEF Items
<1> QED BY <1>1, AppendProperties DEF Put

\* A buffer cut in two.
LEMMA Cutting ==
  ASSUME NEW b \in Bytes, NEW n \in 0..Len(b)
  PROVE  /\ SubSeq(b, 1, n) \in Bytes /\ Len(SubSeq(b, 1, n)) = n
         /\ SubSeq(b, n + 1, Len(b)) \in Bytes
         /\ Len(SubSeq(b, n + 1, Len(b))) = Len(b) - n
         /\ SubSeq(b, 1, n) \o SubSeq(b, n + 1, Len(b)) = b
<1>1. Len(b) \in Nat /\ \A i \in 1..Len(b) : b[i] \in Nat
  BY DEF Bytes
<1>2. /\ SubSeq(b, 1, n) \in Bytes /\ Len(SubSeq(b, 1, n)) = n
      /\ SubSeq(b, n + 1, Len(b)) \in Bytes
      /\ Len(SubSeq(b, n + 1, Len(b))) = Len(b) - n
  BY <1>1, SubSeqProperties DEF Bytes
<1>3. SubSeq(b, 1, n) \o SubSeq(b, n + 1, Len(b)) = SubSeq(b, 1, Len(b))
  <2>1. 1 \in 1..Len(b) + 1 /\ n \in 1 - 1..Len(b) /\ Len(b) \in n..Len(b)
    BY <1>1
  <2> QED BY <2>1, ConcatAdjacentSubSeq DEF Bytes
<1>4. SubSeq(b, 1, Len(b)) = b
  BY SubSeqFull DEF Bytes
<1> QED BY <1>2, <1>3, <1>4

\* What aesFeeder passes on and what it keeps is what it had.
LEMMA Forwarding ==
  ASSUME NEW c \in Bytes, NEW b \in Bytes, Len(c) % BlockSize = 0
  PROVE  LET d == c \o SubSeq(b, 1, Whole(b))
             r == SubSeq(b, Whole(b) + 1, Len(b))
         IN  /\ d \in Bytes /\ r \in Bytes /\ d \o r = c \o b
             /\ Len(d) % BlockSize = 0 /\ Len(r) < BlockSize
             /\ Len(b) % BlockSize = 0 => r = <<>>
<1>1. Len(b) \in Nat /\ Len(c) \in Nat
  BY Joining
<1>2. /\ Whole(b) \in 0..Len(b) /\ Len(b) - Whole(b) < BlockSize
      /\ Whole(b) % BlockSize = 0
      /\ Len(b) % BlockSize = 0 => Whole(b) = Len(b)
  BY <1>1, Division DEF Whole
<1> DEFINE h == SubSeq(b, 1, Whole(b))
           r == SubSeq(b, Whole(b) + 1, Len(b))
<1>3. /\ h \in Bytes /\ Len(h) = Whole(b) /\ r \in Bytes
      /\ Len(r) = Len(b) - Whole(b) /\ h \o r = b
  BY <1>2, Cutting
<1> HIDE DEF h, r
<1>4. c \o h \in Bytes /\ Len(c \o h) = Len(c) + Len(h) /\ (c \o h) \o r = c \o b
  BY <1>3, Joining
<1>5. Len(c \o h) % BlockSize = 0
  BY <1>1, <1>2, <1>3, <1>4, WholeSums
<1>6. Len(b) % BlockSize = 0 => r = <<>>
  BY <1>1, <1>2, <1>3, EmptySeq DEF Bytes
<1> QED BY <1>1, <1>2, <1>3, <1>4, <1>5, <1>6 DEF h, r

----------------------------------------------------------------------------
(* What stays as it was.                                                   *)

\* Chunks that are out stay chunks.
LEMMA ChunksStay ==
  ASSUME ChunksFit, UNCHANGED output, Trusted' => Trusted
  PROVE  ChunksFit'
BY DEF ChunksFit, Chunk, output

\* Steps that leave what went out and the stages alone.
LEMMA SameStages ==
  ASSUME IInv, UNCHANGED <<options, stages, output, given, started>>,
         Trusted' => Trusted
  PROVE  /\ ChunksFit' /\ Content' = Content /\ Rest' = Rest
         /\ Trusted' /\ started' /\ closeRes' # "nil" /\ closeRes # "nil"
              /\ (pc' = "sum" \/ pc # "sum") => Shape'
<1>1. ChunksFit' /\ Content' = Content /\ Rest' = Rest
  BY ChunksStay DEF IInv, options, stages, Content, Rest, Whole
<1> QED BY <1>1 DEF IInv, Shape, output

LEMMA InvInit == Init => IInv
<1> SUFFICES ASSUME Init PROVE IInv
  OBVIOUS
<1>0. BlockSize \in Nat \ {0} /\ ChunkSize \in Nat \ {0}
  BY WriterAssumption
<1>1. Types
  BY Empties DEF Init, Types
<1>2. Control
  BY DEF Init, Control, InWrite, InClose
<1>3. Stages
  <2>1. 0 % BlockSize = 0
    BY <1>0
  <2> QED BY <1>0, <2>1 DEF Init, Stages
<1>4. Shape /\ ChunksFit
  BY DEF Init, Shape, ChunksFit
<1>5. Account
  <2>1. <<>> \o <<>> \o <<>> \o <<>> = <<>>
    <3>1. <<>> \in Bytes
      BY DEF Bytes
    <3> QED BY <3>1, Joining
  <2> QED BY <2>1 DEF Init, Account, InClose
<1> QED BY <1>1, <1>2, <1>3, <1>4, <1>5 DEF IInv

\* A header that is there stays.
LEMMA HeaderStays ==
  ASSUME Types, NEW kind, NEW b \in Bytes, Put(kind, b),
         out # <<>>, out[1][1] # "torn"
  PROVE  out' # <<>> /\ out'[1][1] # "torn"
<1>1. out \in Seq(Items) /\ Len(out) \in Nat /\ Len(out) # 0
  BY EmptySeq DEF Types
<1>2. out' = Append(out, <<kind, b>>)
  BY DEF Put
<1>3. Len(out') = Len(out) + 1 /\ out'[1] = out[1]
  BY <1>1, <1>2
<1> QED BY <1>1, <1>3

\* A call that fails or ends in an error is no longer trusted.
LEMMA FailStep ==
  ASSUME IInv, pc # "idle", Return("error"), started' = TRUE,
         UNCHANGED <<options, then, arg, closed, stages, hashed>>,
         \/ Put("torn", <<>>) /\ started /\ failed' = (failed \/ closed)
         \/ Put("torn", <<>>) /\ failed' = TRUE
         \/ UNCHANGED output /\ failed' = TRUE /\ out = <<>>
  PROVE  IInv'
<1> USE DEF IInv
<1>1. /\ pc' = "idle" /\ res' = "error" /\ given' = given
      /\ ~closed => erred' = TRUE /\ closeRes' = closeRes
      /\ closed => closeRes' = "error" /\ erred' = erred /\ failed' = TRUE
      /\ failed' \in BOOLEAN /\ sent' = sent
    BY DEF Return, Put, Control, Types, output
<1>2. ~Trusted'
  BY <1>1 DEF Trusted, Types
<1>3. out' \in Seq(Items)
  <2>1. CASE Put("torn", <<>>)
    BY <2>1, Empties, Putting DEF Types
  <2> QED BY <2>1 DEF Types, output
<1>4. Types'
  BY <1>1, <1>3 DEF Types, Return, options, stages, Control
<1>5. Control'
  <2>1. out' # <<>> /\ out'[Len(out')][1] = "torn" /\ ~failed' => erred'
    BY <1>1 DEF Types, output
  <2>2. ~failed' => out' # <<>> /\ out'[1][1] # "torn"
    <3> SUFFICES ASSUME ~failed' PROVE out' # <<>> /\ out'[1][1] # "torn"
      OBVIOUS
    <3>1. Put("torn", <<>>) /\ started /\ ~failed
      BY DEF Types
    <3> QED BY <3>1, Empties, HeaderStays DEF Control
  <2> QED BY <1>1, <2>1, <2>2 DEF Control, InWrite, InClose, options, Types
<1>6. Stages'
  BY <1>1, <1>2 DEF Stages, options, stages
<1>7. ChunksFit'
  <2>1. CASE Put("torn", <<>>)
    <3>1. \A i \in DOMAIN out' : out'[i][1] = "data" =>
            i \in DOMAIN out /\ out'[i] = out[i]
      BY <2>1 DEF Put, Types
    <3> QED BY <1>2, <3>1 DEF ChunksFit
  <2>2. CASE UNCHANGED output
    BY <1>2, <2>2, ChunksStay
  <2> QED BY <2>1, <2>2
<1> QED BY <1>2, <1>4, <1>5, <1>6, <1>7 DEF Shape, Account

----------------------------------------------------------------------------
(* The calls begin.                                                        *)

LEMMA WriteStep ==
  ASSUME IInv, NEW p \in Pieces, Write(p)
  PROVE  IInv'
<1> USE DEF IInv
<1>1. /\ pc = "idle" /\ closeRes' = closeRes /\ erred' = erred
      /\ UNCHANGED <<options, then, flags, stages, hashed, output, given>>
      /\ \/ (closed \/ failed) /\ res' = "error" /\ pc' = pc /\ arg' = arg
         \/ /\ ~closed /\ ~failed /\ arg' = p /\ res' = res
            /\ pc' = IF started THEN "feed" ELSE "start"
      /\ encrypt => ~erred
  BY DEF Write, flags, Types
<1>2. p \in Bytes
  BY WriterAssumption DEF Bytes
<1>3. Types'
  BY <1>1, <1>2 DEF Types, options, flags, stages, output
<1>4. Control'
  BY <1>1 DEF Types, Control, InWrite, InClose, options, flags, stages, output
<1>5. Trusted' = Trusted
  BY <1>1 DEF Trusted, flags
<1>6. Stages'
  BY <1>1, <1>5 DEF Stages, options, stages
<1>7. ChunksFit' /\ Content' = Content
  BY <1>1, <1>5, SameStages DEF flags
<1>8. Shape'
  BY <1>1, <1>5 DEF Shape, flags, output
<1>9. Account'
  BY <1>1, <1>5, <1>7 DEF Account, InClose, Control, Padded, flags, stages, output
<1> QED BY <1>3, <1>4, <1>6, <1>7, <1>8, <1>9

LEMMA CloseStep ==
  ASSUME IInv, Close
  PROVE  IInv'
<1> USE DEF IInv
<1>1. /\ pc = "idle" /\ erred' = erred /\ closed' = TRUE
      /\ UNCHANGED <<options, then, started, failed, stages, hashed, output,
                     given>>
      /\ \/ /\ closed \/ failed
            /\ res' = (IF failed THEN "error" ELSE "nil")
            /\ closeRes' = IF closed THEN closeRes ELSE res'
            /\ pc' = pc /\ arg' = arg
         \/ /\ ~closed /\ ~failed /\ arg' = <<>>
            /\ pc' = (IF started THEN "drain" ELSE "start")
            /\ res' = res /\ closeRes' = closeRes
      /\ encrypt => ~erred
  BY DEF Close, Types
<1>2. closeRes' = "nil" => closeRes = "nil" /\ closed
  BY <1>1 DEF Control
<1>3. Types'
  BY <1>1, Empties DEF Types, options, stages, output
<1>4. Control'
  BY <1>1, <1>2 DEF Types, Control, InWrite, InClose, options, output
<1>5. Trusted' = Trusted
  BY <1>1 DEF Trusted
<1>6. Stages'
  BY <1>1, <1>5 DEF Stages, options, stages
<1>7. ChunksFit' /\ Content' = Content
  BY <1>1, <1>5, SameStages
<1>8. Shape'
  BY <1>1, <1>2, <1>5 DEF Shape, output, Control, Trusted
<1>9. Account'
  BY <1>1, <1>2, <1>5, <1>7
     DEF Account, InClose, Control, Padded, stages, output, Trusted
<1> QED BY <1>3, <1>4, <1>6, <1>7, <1>8, <1>9

LEMMA AbortStep ==
  ASSUME IInv, Abort
  PROVE  IInv'
<1> USE DEF IInv
<1>1. /\ pc = "idle" /\ pc' = pc /\ closed' = TRUE /\ ~closed /\ res' = "error"
      /\ closeRes' = closeRes /\ erred' = erred
      /\ UNCHANGED <<options, then, arg, started, failed, stages, hashed,
                     output, given>>
  BY DEF Abort
<1>2. Types' /\ Control' /\ Trusted' = Trusted
  BY <1>1 DEF Types, Control, InWrite, InClose, options, stages, output, Trusted
<1>3. Stages'
  BY <1>1, <1>2 DEF Stages, options, stages
<1>4. ChunksFit' /\ Content' = Content
  BY <1>1, <1>2, SameStages
<1>5. Shape'
  BY <1>1, <1>2 DEF Shape, output
<1>6. Account'
  BY <1>1, <1>2, <1>4 DEF Account, InClose, Control, Padded, stages, output
<1> QED BY <1>2, <1>3, <1>4, <1>5, <1>6

LEMMA SameStep ==
  ASSUME IInv, UNCHANGED vars
  PROVE  IInv'
<1> USE DEF vars, options, flags, stages, output, history
<1>1. Types' /\ Control' /\ Stages' /\ Trusted' = Trusted
  BY DEF IInv, Types, Control, InWrite, InClose, Stages, Trusted
<1>2. ChunksFit' /\ Content' = Content /\ Rest' = Rest
  BY <1>1, SameStages
<1>3. Shape' /\ Account'
  BY <1>1, <1>2 DEF IInv, Shape, Account, InClose, Padded
<1> QED BY <1>1, <1>2, <1>3 DEF IInv

----------------------------------------------------------------------------
(* The steps of a call.                                                    *)

LEMMA StartStep ==
  ASSUME IInv, Start
  PROVE  IInv'
<1> USE DEF IInv
<1>0. /\ pc = "start" /\ started' = TRUE /\ ~started /\ out = <<>> /\ sent = <<>>
      /\ closeRes = "none" /\ ~failed
      /\ UNCHANGED <<options, then, arg, closed, stages, hashed>>
  BY DEF Start, Control
<1>1. CASE Torn(TRUE)
  BY <1>0, <1>1, FailStep DEF Torn, Types
<1>2. CASE Return("error") /\ failed' = TRUE /\ UNCHANGED output
  BY <1>0, <1>2, FailStep
<1>3. CASE /\ out' = out \o <<<<"magic", <<>>>>, <<"metadata", <<>>>>>>
           /\ pc' = IF closed THEN "drain" ELSE "feed"
           /\ UNCHANGED <<failed, sent, history>>
  <2>1. out' = <<<<"magic", <<>>>>, <<"metadata", <<>>>>>>
    BY <1>0, <1>3
  <2>2. <<"magic", <<>>>> \in Items /\ <<"metadata", <<>>>> \in Items
    BY Empties DEF Items
  <2>3. out' \in Seq(Items) /\ Len(out') = 2
    BY <2>1, <2>2
  <2>4. Types'
    BY <1>0, <1>3, <2>3 DEF Types, options, stages, history
  <2>5. Control'
    BY <1>0, <1>3, <2>1 DEF Types, Control, InWrite, InClose, options, history
  <2>6. Stages' /\ Trusted' = Trusted /\ Content' = Content
    BY <1>0, <1>3 DEF Stages, Trusted, Content, options, stages, history
  <2>7. Shape' /\ ChunksFit'
    <3>1. Len(sent') = 0 /\ (Len(out') - 2) * ChunkSize = 0
      BY <1>0, <1>3, <2>3, WriterAssumption
    <3> QED BY <1>0, <1>3, <2>1, <2>3, <3>1 DEF Shape, ChunksFit
  <2>8. Account'
    BY <1>0, <1>3, <2>6 DEF Account, InClose, stages, history
  <2> QED BY <2>4, <2>5, <2>6, <2>7, <2>8
<1> QED BY <1>1, <1>2, <1>3 DEF Start

\* aesFeeder.Write, as far as the stages behind it are concerned.
LEMMA ForwardStep ==
  ASSUME IInv, NEW x \in Bytes, NEW next, Forward(x, next)
  PROVE  /\ pc' = "emit" /\ then' = next
         /\ aesBuf' \in Bytes /\ Len(aesBuf') = Len(aesBuf) + Len(x)
         /\ chunkBuf' \in Bytes /\ Len(chunkBuf') % BlockSize = 0
         /\ Rest' \in Bytes
         /\ sent \o chunkBuf' \o Rest' = sent \o chunkBuf \o aesBuf \o x
<1> DEFINE b == aesBuf \o x
           d == chunkBuf \o SubSeq(b, 1, Whole(b))
           r == SubSeq(b, Whole(b) + 1, Len(b))
<1>1. /\ pc' = "emit" /\ then' = next /\ aesBuf' = b /\ chunkBuf' = d
      /\ Rest' = r
  BY DEF Forward, Rest, Whole
<1>2. /\ sent \in Bytes /\ chunkBuf \in Bytes /\ aesBuf \in Bytes
      /\ Len(chunkBuf) % BlockSize = 0
  BY DEF IInv, Types, Stages
<1>3. b \in Bytes /\ Len(b) = Len(aesBuf) + Len(x)
  BY <1>2, Joining
<1>4. /\ d \in Bytes /\ r \in Bytes /\ d \o r = chunkBuf \o b
      /\ Len(d) % BlockSize = 0
  <2> HIDE DEF b
  <2> QED BY <1>2, <1>3, Forwarding
<1> HIDE DEF d, r
<1>5. sent \o d \o r = sent \o (chunkBuf \o b)
  <2>1. (sent \o d) \o r = sent \o (d \o r)
    BY <1>2, <1>4, Joining
  <2> QED BY <1>4, <2>1
<1>6. sent \o (chunkBuf \o b) = sent \o chunkBuf \o aesBuf \o x
  <2>1. sent \o (chunkBuf \o b) = (sent \o chunkBuf) \o b
    <3> HIDE DEF b
    <3> QED BY <1>2, <1>3, Joining
  <2>2. sent \o chunkBuf \in Bytes
    BY <1>2, Joining
  <2>3. (sent \o chunkBuf) \o b = sent \o chunkBuf \o aesBuf \o x
    BY <1>2, <2>2, Joining
  <2> QED BY <2>1, <2>3
<1> QED BY <1>1, <1>3, <1>4, <1>5, <1>6

LEMMA FeedStep ==
  ASSUME IInv, Feed
  PROVE  IInv'
<1> USE DEF IInv
<1>0. /\ pc = "feed" /\ hashed' = hashed \o arg /\ ~closed /\ closeRes = "none"
      /\ started /\ UNCHANGED <<options, arg, flags, output, history>>
      /\ Types
  BY DEF Feed, Control, InWrite
<1>1. PICK x \in Bytes : /\ Forward(x, "return") /\ lzBuf' \in Bytes
                         /\ x \o lzBuf' = lzBuf \o arg
                         /\ ~compress => lzBuf' = <<>>
  <2>1. CASE compress
    <3> DEFINE all == lzBuf \o arg
    <3>1. all \in Bytes
      BY <1>0, Joining DEF Types
    <3> HIDE DEF all
    <3>2. PICK n \in 0..Len(all) : /\ Forward(SubSeq(all, 1, n), "return")
                                   /\ lzBuf' = SubSeq(all, n + 1, Len(all))
      BY <2>1 DEF Feed, all
    <3>3. /\ SubSeq(all, 1, n) \in Bytes /\ lzBuf' \in Bytes
          /\ SubSeq(all, 1, n) \o lzBuf' = all
      BY <3>1, <3>2, Cutting
    <3> QED BY <2>1, <3>2, <3>3 DEF all
  <2>2. CASE ~compress
    <3>1. Forward(arg, "return") /\ lzBuf' = lzBuf /\ lzBuf = <<>> /\ arg \in Bytes
      BY <1>0, <2>2 DEF Feed, Types, Stages
    <3>2. arg \o lzBuf' = lzBuf \o arg
      BY <3>1, Joining
    <3> QED BY <3>1, <3>2, Empties
  <2> QED BY <2>1, <2>2 DEF Types
<1>2. /\ pc' = "emit" /\ then' = "return"
      /\ aesBuf' \in Bytes /\ chunkBuf' \in Bytes
      /\ Len(chunkBuf') % BlockSize = 0 /\ Rest' \in Bytes
      /\ sent \o chunkBuf' \o Rest' = sent \o chunkBuf \o aesBuf \o x
  BY <1>1, ForwardStep
<1>3. hashed' \in Bytes
  BY <1>0, Joining DEF Types
<1>4. Types'
  BY <1>0, <1>1, <1>2, <1>3 DEF Types, options, flags, output, history
<1>5. Control'
  BY <1>0, <1>2 DEF Types, Control, InWrite, InClose, options, flags, output,
                    history
<1>6. Stages' /\ Trusted' = Trusted
  BY <1>0, <1>1, <1>2 DEF Stages, Trusted, options, flags, history
<1>7. ChunksFit' /\ Shape'
  BY <1>0, <1>2, <1>6, ChunksStay DEF Shape, flags, output, history
<1>8. Account'
  <2> SUFFICES ASSUME Trusted
               PROVE  /\ sent \o chunkBuf' \o Rest' \o lzBuf' = given \o arg
                      /\ hashed' = given \o arg
    BY <1>0, <1>2, <1>6 DEF Account, InClose, flags, output, history
  <2> DEFINE u == sent \o chunkBuf \o aesBuf
  <2>1. u \in Bytes
    <3>1. sent \o chunkBuf \in Bytes
      BY <1>0, Joining DEF Types
    <3> QED BY <1>0, <3>1, Joining DEF Types
  <2>2. u \o lzBuf = given /\ hashed = given
    BY <1>0 DEF Account
  <2> HIDE DEF u
  <2>3. (u \o x) \o lzBuf' = u \o (x \o lzBuf')
    BY <1>1, <2>1, Joining
  <2>4. u \o (lzBuf \o arg) = (u \o lzBuf) \o arg
    <3>1. lzBuf \in Bytes /\ arg \in Bytes
      BY <1>0 DEF Types
    <3> QED BY <2>1, <3>1, Joining
  <2> QED BY <1>0, <1>1, <1>2, <2>2, <2>3, <2>4 DEF u
<1> QED BY <1>4, <1>5, <1>6, <1>7, <1>8

LEMMA DrainStep ==
  ASSUME IInv, DrainLz
  PROVE  IInv'
<1> USE DEF IInv
<1>0. /\ pc = "drain" /\ closed /\ closeRes = "none" /\ started /\ arg = <<>>
      /\ UNCHANGED <<options, arg, flags, hashed, output, history>> /\ Types
  BY DEF DrainLz, Control, InClose
<1>a. Trusted' = Trusted /\ Content' = Content
  BY <1>0 DEF Trusted, Content, options, flags, history
<1>b. Trusted => /\ sent \o chunkBuf \o aesBuf \o lzBuf = given
                 /\ hashed = given
  BY <1>0 DEF Account
<1> DEFINE u == sent \o chunkBuf \o aesBuf
<1>c. u \in Bytes
  <2>1. sent \o chunkBuf \in Bytes
    BY <1>0, Joining DEF Types
  <2> QED BY <1>0, <2>1, Joining DEF Types
<1>1. CASE compress
  <2> DEFINE x == Append(lzBuf, End)
  <2>1. Forward(x, "pad") /\ lzBuf' = <<>>
    BY <1>1 DEF DrainLz
  <2>2. <<End>> \in Bytes /\ x = lzBuf \o <<End>> /\ x \in Bytes
    <3>1. lzBuf \in Seq(Nat) /\ End \in Nat
      BY <1>0, WriterAssumption DEF Types, Bytes
    <3> QED BY <3>1, AppendIsConcat, AppendProperties DEF Bytes
  <2> HIDE DEF x
  <2>3. /\ pc' = "emit" /\ then' = "pad"
        /\ aesBuf' \in Bytes /\ chunkBuf' \in Bytes
        /\ Len(chunkBuf') % BlockSize = 0 /\ Rest' \in Bytes
        /\ sent \o chunkBuf' \o Rest' = sent \o chunkBuf \o aesBuf \o x
    BY <2>1, <2>2, ForwardStep
  <2>4. Types'
    BY <1>0, <2>1, <2>3, Empties DEF Types, options, flags, output, history
  <2>5. Control'
    BY <1>0, <2>3 DEF Types, Control, InWrite, InClose, options, flags, output,
                      history
  <2>6. Stages'
    BY <1>0, <1>1, <2>1, <2>3, <1>a DEF Stages, options
  <2>7. ChunksFit' /\ Shape'
    BY <1>0, <2>3, <1>a, ChunksStay DEF Shape, flags, output, history
  <2>8. Account'
    <3> SUFFICES ASSUME Trusted
                 PROVE  sent \o chunkBuf' \o Rest' = Content
      BY <1>0, <2>3, <1>a, <1>b DEF Account, InClose, output, history
    <3> HIDE DEF u
    <3>1. u \o (lzBuf \o <<End>>) = (u \o lzBuf) \o <<End>>
      <4>1. lzBuf \in Bytes
        BY <1>0 DEF Types
      <4> QED BY <1>c, <2>2, <4>1, Joining
    <3>2. given \o <<End>> = Append(given, End)
      <4>1. given \in Seq(Nat) /\ End \in Nat
        BY <1>0, WriterAssumption DEF Types, Bytes
      <4> QED BY <4>1, AppendIsConcat
    <3> QED BY <1>b, <1>1, <2>2, <2>3, <3>1, <3>2 DEF u, Content
  <2> QED BY <2>4, <2>5, <2>6, <2>7, <2>8
<1>2. CASE ~compress
  <2>1. pc' = "pad" /\ UNCHANGED <<then, stages>> /\ lzBuf = <<>>
    BY <1>2 DEF DrainLz, Stages
  <2>2. Types' /\ Control' /\ Stages'
    BY <1>0, <1>a, <2>1 DEF Types, Control, InWrite, InClose, Stages, options,
                            flags, stages, output, history
  <2>3. ChunksFit' /\ Shape'
    BY <1>0, <2>1, <1>a, ChunksStay DEF Shape, flags, output, history
  <2>4. Account'
    <3> SUFFICES ASSUME Trusted PROVE u = Content
      BY <1>0, <2>1, <1>a, <1>b DEF Account, InClose, stages, output, history
    <3> HIDE DEF u
    <3>1. u \o <<>> = u
      BY <1>c, Joining
    <3> QED BY <1>b, <1>2, <2>1, <3>1 DEF u, Content
  <2> QED BY <2>2, <2>3, <2>4
<1> QED BY <1>1, <1>2, <1>0 DEF Types

LEMMA PadStep ==
  ASSUME IInv, Pad
  PROVE  IInv'
<1> USE DEF IInv
<1>0. /\ pc = "pad" /\ closed /\ closeRes = "none" /\ started /\ arg = <<>>
      /\ UNCHANGED <<options, arg, flags, lzBuf, hashed, output, history>>
      /\ Types /\ aesBuf \in Bytes /\ Forward(Padding(aesBuf), "flush")
  BY DEF Pad, Control, InClose, Types
<1>1. Trusted' = Trusted /\ Content' = Content
  BY <1>0 DEF Trusted, Content, options, flags, history
<1> DEFINE x == Padding(aesBuf)
<1>2. /\ x \in Bytes /\ (Len(aesBuf) + Len(x)) % BlockSize = 0
      /\ \E n \in 1..BlockSize : x = [i \in 1..n |-> n]
  BY <1>0, PaddingFills
<1> HIDE DEF x
<1>3. /\ pc' = "emit" /\ then' = "flush"
      /\ aesBuf' \in Bytes /\ Len(aesBuf') = Len(aesBuf) + Len(x)
      /\ chunkBuf' \in Bytes /\ Len(chunkBuf') % BlockSize = 0
      /\ Rest' \in Bytes
      /\ sent \o chunkBuf' \o Rest' = sent \o chunkBuf \o aesBuf \o x
  BY <1>0, <1>2, ForwardStep DEF x
<1>4. Types'
  BY <1>0, <1>3 DEF Types, options, flags, output, history
<1>5. Control'
  BY <1>0, <1>3 DEF Types, Control, InWrite, InClose, options, flags, output,
                    history
<1>6. Stages'
  BY <1>0, <1>1, <1>2, <1>3 DEF Stages, options
<1>7. ChunksFit' /\ Shape'
  BY <1>0, <1>3, <1>1, ChunksStay DEF Shape, flags, output, history
<1>8. Account'
  <2> SUFFICES ASSUME Trusted
               PROVE  Padded(sent \o chunkBuf)'
    BY <1>0, <1>3, <1>1 DEF Account, InClose, output, history
  <2>1. Rest' = <<>>
    <3>1. Whole(aesBuf') = Len(aesBuf') /\ Len(aesBuf') \in Nat
      BY <1>2, <1>3, Division, Joining DEF Whole
    <3> QED BY <3>1, SubSeqEmpty DEF Rest, Whole
  <2>2. sent \in Bytes /\ sent \o chunkBuf' \in Bytes
    BY <1>0, <1>3, Joining DEF Types
  <2>3. sent \o chunkBuf' \o <<>> = sent \o chunkBuf'
    BY <2>2, Joining
  <2>4. sent \o chunkBuf \o aesBuf = Content
    BY <1>0 DEF Account
  <2>5. sent' \o chunkBuf' = Content \o x
    BY <1>0, <1>3, <2>1, <2>3, <2>4 DEF output
  <2>6. PICK n \in 1..BlockSize : x = [i \in 1..n |-> n]
    BY <1>2
  <2>7. sent' \o chunkBuf' = Content' \o [i \in 1..n |-> n]
    BY <1>1, <2>5, <2>6
  <2> QED BY <2>7 DEF Padded
<1> QED BY <1>4, <1>5, <1>6, <1>7, <1>8

LEMMA EmittedStep ==
  ASSUME IInv, Emitted
  PROVE  IInv'
<1> USE DEF IInv
<1>0. /\ pc = "emit" /\ ~Full /\ aesBuf' = Rest /\ closeRes = "none" /\ started
      /\ UNCHANGED <<options, then, arg, flags, lzBuf, chunkBuf, hashed, output>>
      /\ Types /\ ~failed
  BY DEF Emitted, Control, Rest
<1>1. /\ Rest \in Bytes /\ Len(Rest) < BlockSize
      /\ Len(aesBuf) % BlockSize = 0 => Rest = <<>>
  <2>1. <<>> \in Bytes /\ aesBuf \in Bytes /\ 0 % BlockSize = 0 /\ Len(<<>>) = 0
    BY <1>0, Empties, Division, EmptySeq DEF Types
  <2> QED BY <2>1, Forwarding DEF Rest
<1>2. Len(chunkBuf) < ChunkSize
  <2>1. Len(chunkBuf) \in Nat
    BY <1>0, Joining DEF Types
  <2> QED BY <1>0, <2>1, WriterAssumption DEF Full
<1>3. CASE then = "return"
  <2>0. /\ ~closed /\ pc' = "idle" /\ res' = "nil" /\ given' = given \o arg
        /\ erred' = erred /\ closeRes' = closeRes
    BY <1>0, <1>3 DEF Emitted, Return, Control, InWrite
  <2>1. given' \in Bytes
    BY <1>0, <2>0, Joining DEF Types
  <2>2. Types'
    BY <1>0, <1>1, <2>0, <2>1 DEF Types, options, flags, output
  <2>3. Control'
    BY <1>0, <2>0 DEF Types, Control, InWrite, InClose, options, flags, output
  <2>4. Stages' /\ Trusted' = Trusted
    BY <1>0, <1>1, <1>2, <2>0 DEF Stages, Trusted, options, flags
  <2>5. ChunksFit' /\ Shape'
    BY <1>0, <2>0, <2>4, ChunksStay DEF Shape, flags, output
  <2>6. Account'
    BY <1>0, <1>3, <2>0, <2>4 DEF Account, InClose, output
  <2> QED BY <2>2, <2>3, <2>4, <2>5, <2>6
<1>4. CASE then # "return"
  <2>0. pc' = then /\ closed /\ then \in {"pad", "flush"} /\ UNCHANGED history
    BY <1>0, <1>4 DEF Emitted, Control, InClose, Types
  <2>2. Types'
    BY <1>0, <1>1, <2>0 DEF Types, options, flags, output, history
  <2>3. Control'
    BY <1>0, <2>0 DEF Types, Control, InWrite, InClose, options, flags, output,
                      history
  <2>4. Stages' /\ Trusted' = Trusted /\ Content' = Content
    BY <1>0, <1>1, <1>2, <2>0 DEF Stages, Trusted, Content, options, flags, history
  <2>5. ChunksFit' /\ Shape'
    BY <1>0, <2>0, <2>4, ChunksStay DEF Shape, flags, output, history
  <2>6. Account'
    BY <1>0, <1>4, <2>0, <2>4 DEF Account, InClose, Padded, output, history
  <2> QED BY <2>2, <2>3, <2>4, <2>5, <2>6
<1> QED BY <1>3, <1>4

\* A payload that goes out is the next chunk.
LEMMA ChunkGoesOut ==
  ASSUME IInv, NEW p \in Bytes, Put("data", p), p # <<>>,
         Len(p) % BlockSize = 0, Len(p) <= ChunkSize,
         started, pc # "sum", closeRes # "nil", Trusted' = Trusted
  PROVE  /\ ChunksFit' /\ out' \in Seq(Items) /\ sent' = sent \o p
         /\ sent' \in Bytes /\ out'[Len(out')][1] = "data"
         /\ Trusted =>
              /\ Len(out') >= 3 /\ out'[1][1] = "magic" /\ out'[2][1] = "metadata"
              /\ \A i \in 3..Len(out') : out'[i][1] = "data"
              /\ Len(sent') = (Len(out') - 3) * ChunkSize + Len(p)
<1>n. PICK n \in Nat : n = Len(out)
  <2>1. Len(out) \in Nat
    BY DEF IInv, Types
  <2> QED BY <2>1
<1>0. /\ ChunkSize \in Nat \ {0} /\ n \in Nat /\ sent \in Bytes
      /\ Len(sent) \in Nat /\ Len(p) \in 1..ChunkSize /\ out \in Seq(Items)
  <2>1. Len(p) # 0 /\ Len(p) \in Nat
    BY EmptySeq DEF Bytes
  <2> QED BY <2>1, WriterAssumption, Joining DEF IInv, Types
<1>1. /\ out' \in Seq(Items) /\ Len(out') = n + 1
      /\ \A i \in 1..n : out'[i] = out[i]
      /\ out'[n + 1] = <<"data", p>> /\ sent' = sent \o p
  BY <1>n, <1>0, Putting
<1>2. sent' \in Bytes /\ Len(sent') = Len(sent) + Len(p)
  BY <1>0, <1>1, Joining
<1>3. /\ DOMAIN out = 1..n /\ DOMAIN out' = 1..n + 1
      /\ out'[Len(out')] = <<"data", p>>
  BY <1>n, <1>0, <1>1
<1>4. CASE ~Trusted
  BY <1>0, <1>1, <1>2, <1>3, <1>4 DEF IInv, ChunksFit
<1>5. CASE Trusted
  <2>1. /\ n >= 2 /\ out[1][1] = "magic" /\ out[2][1] = "metadata"
        /\ \A i \in 3..n : out[i][1] = "data"
        /\ Len(sent) = (n - 2) * ChunkSize
    BY <1>n, <1>5 DEF IInv, Shape
  <2>2. /\ Len(out') >= 3 /\ out'[1][1] = "magic" /\ out'[2][1] = "metadata"
        /\ \A i \in 3..Len(out') : out'[i][1] = "data"
        /\ Len(sent') = (Len(out') - 3) * ChunkSize + Len(p)
    <3>1. Len(out') - 3 = n - 2 /\ Len(out') >= 3
      BY <1>0, <1>1, <2>1
    <3>2. \A i \in 3..n + 1 : i \in 3..n \/ i = n + 1
      BY <1>0
    <3>3. \A i \in 3..n + 1 : out'[i][1] = "data"
      BY <1>0, <1>1, <2>1, <3>2
    <3> QED BY <1>0, <1>1, <1>2, <2>1, <3>1, <3>3
  <2>3. (n - 1) * ChunkSize = (n - 2) * ChunkSize + ChunkSize
    BY <1>0
  <2>4. ASSUME NEW i \in 3..n
        PROVE  out'[i][2] = Chunk(i - 2)'
    <3> DEFINE a == (i - 3) * ChunkSize
    <3>1. a \in Nat /\ (i - 2) * ChunkSize = a + ChunkSize
          /\ a + ChunkSize <= Len(sent)
      <4>1. i - 3 \in Nat /\ n - i \in Nat
        BY <1>0
      <4>2. (n - 2) * ChunkSize = (i - 3) * ChunkSize + ChunkSize
                                    + (n - i) * ChunkSize
        BY <1>0
      <4>3. (n - i) * ChunkSize >= 0 /\ (i - 3) * ChunkSize \in Nat
            /\ (n - i) * ChunkSize \in Nat
        BY <1>0, <4>1
      <4>4. (i - 2) * ChunkSize = (i - 3) * ChunkSize + ChunkSize
        BY <1>0
      <4> QED BY <1>0, <2>1, <4>2, <4>3, <4>4
    <3>2. i - 2 - 1 = i - 3
      OBVIOUS
    <3> HIDE DEF a
    <3>3. Chunk(i - 2) = SubSeq(sent, a + 1, a + ChunkSize)
      <4>1. (IF Len(sent) < (i - 2) * ChunkSize THEN Len(sent)
             ELSE (i - 2) * ChunkSize) = a + ChunkSize
        BY <1>0, <3>1
      <4> QED BY <3>2, <4>1 DEF Chunk, a
    <3>4. Chunk(i - 2)' = SubSeq(sent', a + 1, a + ChunkSize)
      <4>1. (IF Len(sent') < (i - 2) * ChunkSize THEN Len(sent')
             ELSE (i - 2) * ChunkSize) = a + ChunkSize
        BY <1>0, <1>2, <3>1
      <4> QED BY <3>2, <4>1 DEF Chunk, a
    <3>5. SubSeq(sent \o p, a + 1, a + ChunkSize)
            = SubSeq(sent, a + 1, a + ChunkSize)
      <4>1. a + 1 \in 1..Len(sent) /\ a + ChunkSize \in 1..Len(sent)
        BY <1>0, <3>1
      <4>2. sent \in Seq(Nat) /\ p \in Seq(Nat)
        BY <1>0 DEF Bytes
      <4> QED BY <4>1, <4>2, SubSeqOfConcat1
    <3>6. out[i][2] = Chunk(i - 2)
      BY <1>3, <1>5, <2>1 DEF IInv, ChunksFit
    <3>7. out'[i] = out[i]
      BY <1>0, <1>1
    <3> QED BY <1>1, <3>3, <3>4, <3>5, <3>6, <3>7
  <2>5. p = Chunk(n - 1)'
    <3>1. n - 1 - 1 = n - 2
      BY <1>0
    <3>2. (IF Len(sent') < (n - 1) * ChunkSize THEN Len(sent')
           ELSE (n - 1) * ChunkSize) = Len(sent) + Len(p)
      BY <1>0, <1>2, <2>1, <2>3
    <3>3. Chunk(n - 1)' = SubSeq(sent', Len(sent) + 1, Len(sent) + Len(p))
      BY <2>1, <3>1, <3>2 DEF Chunk
    <3>4. SubSeq(sent \o p, Len(sent) + 1, Len(sent) + Len(p))
            = SubSeq(p, 1, Len(p))
      <4>1. /\ Len(sent) + 1 \in Len(sent) + 1..Len(sent) + Len(p)
            /\ Len(sent) + Len(p) \in Len(sent) + 1..Len(sent) + Len(p)
            /\ Len(sent) + 1 - Len(sent) = 1
            /\ Len(sent) + Len(p) - Len(sent) = Len(p)
        BY <1>0
      <4> QED BY <1>0, <4>1, SubSeqOfConcat2 DEF Bytes
    <3>5. SubSeq(p, 1, Len(p)) = p
      BY SubSeqFull DEF Bytes
    <3> QED BY <1>1, <3>3, <3>4, <3>5
  <2>6. Len(sent') \in (n + 1 - 3) * ChunkSize + 1..(n + 1 - 2) * ChunkSize
    <3>1. n + 1 - 3 = n - 2 /\ n + 1 - 2 = n - 1
      BY <1>0
    <3> QED BY <1>0, <1>2, <2>1, <2>3, <3>1
  <2>7. \A i \in DOMAIN out' : out'[i][1] = "data" =>
          /\ out'[i][2] # <<>> /\ Len(out'[i][2]) % BlockSize = 0
          /\ Len(out'[i][2]) <= ChunkSize
          /\ out'[i][2] = Chunk(i - 2)'
    <3> SUFFICES ASSUME NEW i \in 1..n + 1, out'[i][1] = "data"
                 PROVE  /\ out'[i][2] # <<>> /\ Len(out'[i][2]) % BlockSize = 0
                        /\ Len(out'[i][2]) <= ChunkSize
                        /\ out'[i][2] = Chunk(i - 2)'
      BY <1>3
    <3>1. CASE i = n + 1
      <4>1. n + 1 - 2 = n - 1
        BY <1>0
      <4> QED BY <1>1, <2>5, <3>1, <4>1
    <3>2. CASE i \in 3..n
      <4>1. i \in DOMAIN out /\ out'[i] = out[i]
        BY <1>0, <1>1, <1>3, <3>2
      <4>2. /\ out[i][2] # <<>> /\ Len(out[i][2]) % BlockSize = 0
            /\ Len(out[i][2]) <= ChunkSize
        BY <2>1, <3>2, <4>1 DEF IInv, ChunksFit
      <4> QED BY <2>4, <3>2, <4>1, <4>2
    <3>3. i \notin {1, 2}
      BY <2>1, <2>2
    <3> QED BY <1>0, <3>1, <3>2, <3>3
  <2>8. ChunksFit'
    <3>1. n + 1 \in DOMAIN out' /\ out'[n + 1][1] = "data"
      BY <1>0, <1>1, <1>3
    <3> QED BY <2>6, <2>7, <3>1 DEF ChunksFit
  <2> QED BY <1>0, <1>1, <1>2, <2>2, <2>8
<1> QED BY <1>4, <1>5 DEF Trusted

LEMMA EmitStep ==
  ASSUME IInv, Emit
  PROVE  IInv'
<1> USE DEF IInv
<1>0. /\ pc = "emit" /\ Full /\ closeRes = "none" /\ started /\ ~failed /\ Types
      /\ UNCHANGED <<options, then, arg, started, closed, lzBuf, aesBuf, hashed>>
  BY DEF Emit, Control
<1>1. CASE Torn(closed) /\ UNCHANGED chunkBuf
  BY <1>0, <1>1, FailStep DEF Torn, stages
<1>2. CASE /\ Put("data", SubSeq(chunkBuf, 1, ChunkSize))
           /\ chunkBuf' = SubSeq(chunkBuf, ChunkSize + 1, Len(chunkBuf))
           /\ UNCHANGED <<pc, failed, history>>
  <2> DEFINE p == SubSeq(chunkBuf, 1, ChunkSize)
  <2>0. /\ chunkBuf \in Bytes /\ Len(chunkBuf) \in Nat /\ sent \in Bytes
        /\ ChunkSize \in 1..Len(chunkBuf) /\ ChunkSize % BlockSize = 0
        /\ ChunkSize \in Nat /\ Len(chunkBuf) % BlockSize = 0
    BY <1>0, Joining, WriterAssumption DEF Types, Full, Stages
  <2>1. /\ p \in Bytes /\ Len(p) = ChunkSize /\ chunkBuf' \in Bytes
        /\ Len(chunkBuf') = Len(chunkBuf) - ChunkSize /\ p \o chunkBuf' = chunkBuf
    <3>1. ChunkSize \in 0..Len(chunkBuf)
      BY <2>0
    <3> QED BY <1>2, <2>0, <3>1, Cutting
  <2>2. Put("data", p)
    BY <1>2
  <2> HIDE DEF p
  <2>3. Trusted' = Trusted /\ Content' = Content /\ Rest' = Rest
    BY <1>0, <1>2 DEF Trusted, Content, Rest, Whole, options, history
  <2>4. p # <<>> /\ Len(p) % BlockSize = 0 /\ Len(p) <= ChunkSize
    <3>1. Len(p) # Len(<<>>)
      BY <2>0, <2>1, EmptySeq
    <3> QED BY <2>0, <2>1, <3>1
  <2>5. /\ ChunksFit' /\ out' \in Seq(Items) /\ sent' = sent \o p
        /\ sent' \in Bytes /\ out'[Len(out')][1] = "data"
        /\ Trusted =>
             /\ Len(out') >= 3 /\ out'[1][1] = "magic" /\ out'[2][1] = "metadata"
             /\ \A i \in 3..Len(out') : out'[i][1] = "data"
             /\ Len(sent') = (Len(out') - 3) * ChunkSize + Len(p)
    BY <1>0, <2>1, <2>2, <2>3, <2>4, ChunkGoesOut
  <2>6. Types'
    BY <1>0, <1>2, <2>1, <2>5 DEF Types, options, history
  <2>7. Control'
    <3>1. out' # <<>> /\ out'[1][1] # "torn"
      BY <1>0, <2>1, <2>2, HeaderStays DEF Control
    <3> QED BY <1>0, <1>2, <2>5, <3>1
            DEF Types, Control, InWrite, InClose, options, history
  <2>8. Stages'
    <3>1. Len(chunkBuf') % BlockSize = 0
      BY <2>0, <2>1, WholeSums
    <3> QED BY <1>0, <1>2, <3>1 DEF Stages, options
  <2>9. Shape'
    <3> SUFFICES ASSUME Trusted
                 PROVE  Len(sent') = (Len(out') - 2) * ChunkSize
      BY <1>0, <1>2, <2>3, <2>5, <2>0 DEF Shape
    <3>1. Len(out') \in Nat
      BY <2>5
    <3>2. (Len(out') - 2) * ChunkSize = (Len(out') - 3) * ChunkSize + ChunkSize
      BY <2>0, <3>1
    <3> QED BY <2>1, <2>5, <3>2
  <2>10. Account'
    <3>1. sent' \o chunkBuf' = sent \o chunkBuf
      <4>1. (sent \o p) \o chunkBuf' = sent \o (p \o chunkBuf')
        BY <2>0, <2>1, Joining
      <4> QED BY <2>1, <2>5, <4>1
    <3> QED BY <1>0, <1>2, <2>3, <3>1 DEF Account, InClose, Padded, history
  <2> QED BY <2>5, <2>6, <2>7, <2>8, <2>9, <2>10
<1> QED BY <1>1, <1>2 DEF Emit

LEMMA FlushStep ==
  ASSUME IInv, Flush
  PROVE  IInv'
<1> USE DEF IInv
<1>0. /\ pc = "flush" /\ closed /\ closeRes = "none" /\ started /\ ~failed
      /\ UNCHANGED <<options, then, arg, started, closed, lzBuf, aesBuf, hashed>>
      /\ Types /\ aesBuf = <<>> /\ arg = <<>>
  BY DEF Flush, Control, InClose, Stages
<1>a. /\ chunkBuf \in Bytes /\ sent \in Bytes /\ Len(chunkBuf) % BlockSize = 0
      /\ Len(chunkBuf) <= ChunkSize /\ <<>> \in Bytes
      /\ 0 % BlockSize = 0 /\ Len(<<>>) = 0
  <2>1. Len(chunkBuf) \in Nat /\ Len(chunkBuf) < ChunkSize
    BY <1>0, Joining DEF Types, Stages
  <2> QED BY <1>0, <2>1, Empties, Division, EmptySeq, WriterAssumption
          DEF Types, Stages
<1>b. Trusted => Padded(sent \o chunkBuf) /\ hashed = given
  BY <1>0 DEF Account, InClose
<1>1. CASE chunkBuf # <<>> /\ Torn(TRUE) /\ UNCHANGED chunkBuf
  BY <1>0, <1>1, FailStep DEF Torn, stages, Types
<1>2. CASE /\ chunkBuf = <<>> /\ pc' = "sum"
           /\ UNCHANGED <<failed, chunkBuf, output, history>>
  <2>1. Types' /\ Control'
    BY <1>0, <1>2 DEF Types, Control, InWrite, InClose, options, output, history
  <2>2. Stages' /\ Trusted' = Trusted /\ Content' = Content
    BY <1>0, <1>a, <1>2 DEF Stages, Trusted, Content, options, history
  <2>3. ChunksFit' /\ Shape'
    BY <1>0, <1>2, <2>2, ChunksStay DEF Shape, output, history
  <2>4. sent \o chunkBuf = sent
    BY <1>a, <1>2, Joining
  <2>5. Account'
    BY <1>0, <1>b, <1>2, <2>2, <2>4 DEF Account, InClose, Padded, output, history
  <2> QED BY <2>1, <2>2, <2>3, <2>5
<1>3. CASE /\ chunkBuf # <<>> /\ Put("data", chunkBuf) /\ chunkBuf' = <<>>
           /\ pc' = "sum" /\ UNCHANGED <<failed, history>>
  <2>1. Stages' /\ Trusted' = Trusted /\ Content' = Content
    BY <1>0, <1>a, <1>3 DEF Stages, Trusted, Content, options, history
  <2>2. /\ ChunksFit' /\ out' \in Seq(Items) /\ sent' = sent \o chunkBuf
        /\ sent' \in Bytes /\ out'[Len(out')][1] = "data"
        /\ Trusted =>
             /\ Len(out') >= 3 /\ out'[1][1] = "magic" /\ out'[2][1] = "metadata"
             /\ \A i \in 3..Len(out') : out'[i][1] = "data"
             /\ Len(sent') = (Len(out') - 3) * ChunkSize + Len(chunkBuf)
    BY <1>0, <1>a, <1>3, <2>1, ChunkGoesOut
  <2>3. Types'
    BY <1>0, <1>a, <1>3, <2>2 DEF Types, options, history
  <2>4. Control'
    <3>1. out' # <<>> /\ out'[1][1] # "torn"
      BY <1>0, <1>a, <1>3, HeaderStays DEF Control
    <3> QED BY <1>0, <1>3, <2>2, <3>1
            DEF Types, Control, InWrite, InClose, options, history
  <2>5. Shape'
    BY <1>0, <1>3, <2>1, <2>2 DEF Shape
  <2>6. Account'
    BY <1>0, <1>b, <1>3, <2>1, <2>2 DEF Account, InClose, Padded, history
  <2> QED BY <2>1, <2>2, <2>3, <2>4, <2>5, <2>6
<1> QED BY <1>1, <1>2, <1>3 DEF Flush

LEMMA FinishStep ==
  ASSUME IInv, Finish
  PROVE  IInv'
<1> USE DEF IInv
<1>0. /\ pc = "sum" /\ closed /\ closeRes = "none" /\ started /\ ~failed
      /\ UNCHANGED <<options, then, arg, started, closed, stages, hashed>>
      /\ Types /\ aesBuf = <<>> /\ chunkBuf = <<>>
  BY DEF Finish, Control, InClose, Stages
<1>1. CASE Torn(TRUE)
  BY <1>0, <1>1, FailStep DEF Torn, Types
<1>2. CASE Put("file_md5", hashed) /\ Return("nil") /\ UNCHANGED failed
  <2>1. /\ pc' = "idle" /\ res' = "nil" /\ closeRes' = "nil"
        /\ given' = given /\ erred' = erred
    BY <1>0, <1>2 DEF Return
  <2>2. PICK n \in Nat : n = Len(out) /\ DOMAIN out = 1..n
    BY <1>0 DEF Types
  <2>3. /\ out' \in Seq(Items) /\ Len(out') = n + 1
        /\ \A i \in 1..n : out'[i] = out[i]
        /\ out'[n + 1] = <<"file_md5", hashed>> /\ sent' = sent
        /\ DOMAIN out' = 1..n + 1
    <3>1. hashed \in Bytes /\ out \in Seq(Items)
      BY <1>0 DEF Types
    <3> QED BY <1>2, <2>2, <3>1, Putting
  <2>4. Types'
    BY <1>0, <1>2, <2>1, <2>3 DEF Types, options, stages
  <2>5. Control'
    <3>1. out'[Len(out')][1] = "file_md5"
      BY <2>3
    <3>2. out' # <<>> /\ out'[1][1] # "torn"
      BY <1>0, <1>2, HeaderStays DEF Control, Types
    <3> QED BY <1>0, <1>2, <2>1, <3>1, <3>2
            DEF Types, Control, InWrite, InClose, options
  <2>6. Stages' /\ Trusted' = Trusted /\ Content' = Content
    <3>1. BlockSize \in Nat \ {0} /\ ChunkSize \in Nat \ {0} /\ Len(<<>>) = 0
      BY WriterAssumption, EmptySeq
    <3> QED BY <1>0, <1>2, <2>1, <3>1
            DEF Stages, Trusted, Content, options, stages
  <2>7. ChunksFit'
    <3>1. \A k : Chunk(k)' = Chunk(k)
      BY <2>3 DEF Chunk
    <3>2. \A i \in DOMAIN out' : out'[i][1] = "data" =>
            i \in DOMAIN out /\ out'[i] = out[i]
      BY <2>2, <2>3
    <3>3. \A i \in DOMAIN out : i \in DOMAIN out' /\ out'[i] = out[i]
      BY <2>2, <2>3
    <3> QED BY <2>3, <2>6, <3>1, <3>2, <3>3 DEF ChunksFit
  <2>8. Shape'
    <3> SUFFICES ASSUME Trusted
                 PROVE  /\ Len(out') >= 2
                        /\ out'[1][1] = "magic" /\ out'[2][1] = "metadata"
                        /\ \A i \in 3..Len(out') :
                             out'[i][1] = "data" \/ i = Len(out')
      BY <1>0, <2>1, <2>6 DEF Shape
    <3>1. /\ n >= 2 /\ out[1][1] = "magic" /\ out[2][1] = "metadata"
          /\ \A i \in 3..n : out[i][1] = "data"
      BY <1>0, <2>2 DEF Shape
    <3>2. \A i \in 3..n + 1 : i \in 3..n \/ i = n + 1
      OBVIOUS
    <3> QED BY <2>3, <3>1, <3>2
  <2>9. Account'
    <3>1. Trusted => Padded(sent) /\ hashed = given
      BY <1>0 DEF Account, InClose
    <3> QED BY <1>0, <2>1, <2>3, <2>6, <3>1 DEF Account, InClose, Padded
  <2> QED BY <2>4, <2>5, <2>6, <2>7, <2>8, <2>9
<1> QED BY <1>1, <1>2 DEF Finish

LEMMA InvNext == IInv /\ [Next]_vars => IInv'
<1> SUFFICES ASSUME IInv, [Next]_vars PROVE IInv'
  OBVIOUS
<1>1. CASE (\E p \in Pieces : Write(p)) \/ Close \/ Abort
  BY <1>1, WriteStep, CloseStep, AbortStep
<1>2. CASE Start \/ Feed \/ DrainLz \/ Pad
  BY <1>2, StartStep, FeedStep, DrainStep, PadStep
<1>3. CASE Emit \/ Emitted \/ Flush \/ Finish
  BY <1>3, EmitStep, EmittedStep, FlushStep, FinishStep
<1>4. CASE UNCHANGED vars
  BY <1>4, SameStep
<1> QED BY <1>1, <1>2, <1>3, <1>4 DEF Next, Finished

----------------------------------------------------------------------------
(* The results.                                                            *)

\* The inductive invariant: which call is where, what each stage holds, which
\* chunks are out and where every byte given is.
THEOREM Invariant == Spec => []IInv
BY InvInit, InvNext, PTL DEF Spec

\* Every variable has its type, and between two calls no stage holds as much
\* as it would pass on.
THEOREM TypeCorrect == Spec => []TypeOK
<1>1. IInv => TypeOK
  BY DEF IInv, Types, Stages, TypeOK, flags
<1> QED BY <1>1, Invariant, PTL

\* For every sequence of Writes of any sizes, what was given is in the payloads
\* and the stages, in order and once (encrypt.go:362-440).
THEOREM NothingLost == Spec => []StagesHoldAll
<1>1. IInv => StagesHoldAll
  BY DEF IInv, Control, Account, StagesHoldAll
<1> QED BY <1>1, Invariant, PTL

\* Every payload is one that Decrypt accepts, and only the last is short, for
\* every block and chunk size.
THEOREM PayloadsFit == Spec => []ChunksFit
<1>1. IInv => ChunksFit
  BY DEF IInv
<1> QED BY <1>1, Invariant, PTL

\* Close, and Encrypt, say nil only of a stream that decrypts to what was
\* given (encrypt.go:199-245).
THEOREM NilIsComplete == Spec => []CloseIsComplete
<1>1. IInv => CloseIsComplete
  <2> SUFFICES ASSUME IInv, closeRes = "nil", encrypt \/ ~erred
               PROVE  /\ Padded(sent)
                      /\ Len(out) > 3 /\ out[1][1] = "magic"
                      /\ out[2][1] = "metadata"
                      /\ \A i \in 3..Len(out) - 1 : out[i][1] = "data"
                      /\ out[Len(out)] = <<"file_md5", given>>
    BY DEF CloseIsComplete, Padded, Content
  <2>1. Trusted /\ started
    BY DEF IInv, Types, Control, Trusted, Account
  <2>2. Padded(sent) /\ out[Len(out)] = <<"file_md5", given>>
    BY <2>1 DEF IInv, Account
  <2>3. /\ Len(out) >= 2 /\ out[1][1] = "magic" /\ out[2][1] = "metadata"
        /\ \A i \in 3..Len(out) : out[i][1] = "data" \/ i = Len(out)
        /\ Len(out) \in Nat
    BY <2>1 DEF IInv, Shape, Types
  <2>4. sent # <<>>
    <3>1. PICK n \in 1..BlockSize : sent = Content \o [i \in 1..n |-> n]
      BY <2>2 DEF Padded
    <3>2. Content \in Bytes
      <4>1. given \in Seq(Nat) /\ End \in Nat
        BY WriterAssumption DEF IInv, Types, Bytes
      <4> QED BY <4>1, AppendProperties DEF Content, Bytes
    <3>3. [i \in 1..n |-> n] \in Bytes /\ Len([i \in 1..n |-> n]) = n /\ n > 0
      BY WriterAssumption DEF Bytes
    <3>4. Len(sent) = Len(Content) + n /\ Len(Content) \in Nat
      BY <3>1, <3>2, <3>3, Joining
    <3> QED BY <3>3, <3>4, EmptySeq
  <2>5. PICK j \in DOMAIN out : out[j][1] = "data"
    BY <2>1, <2>4 DEF IInv, ChunksFit
  <2>6. j \in 3..Len(out) /\ j # Len(out)
    BY <2>2, <2>3, <2>5 DEF IInv, Types
  <2> QED BY <2>2, <2>3, <2>6
<1> QED BY <1>1, Invariant, PTL

\* Once start failed, in a Write or in Close, or Close did, no later call of any
\* caller says nil (encrypt.go:154-156, 192-200, 210-223).
THEOREM TornIsTold == Spec => []FailureSticks
<1>1. IInv => FailureSticks
  BY DEF IInv, Control, FailureSticks
<1> QED BY <1>1, Invariant, PTL
=============================================================================
