----------------------------- MODULE HeaderProofs -----------------------------
(***************************************************************************)
(* Proofs about Header, for every set of passwords, keys and callers: a     *)
(* key that is returned past a hash that is compared is the right one, who  *)
(* holds a secret gets in, and Inspect shows what the writer was asked for. *)
(***************************************************************************)
EXTENDS Header, TLAPS

----------------------------------------------------------------------------
(* The inductive invariant.                                                *)

Reading == {"written", "sent"}
Opening == {"unwrap", "verify", "failed", "opened"}
Pcs == {"options", "refused", "new", "start", "inspected"}
         \cup Reading \cup Opening

\* What the session key is when it is wrapped.
OnWire == IF major(opts) >= 3 THEN HexOf(RawSession) ELSE RawSession

Keys == {o.publicKey : o \in Callers} \cup {pem.key : pem \in PublicPems}

OptsOK ==
  /\ opts.password \in Passwords \cup {Nil}
  /\ opts.password # Nil => opts.password = opts.typed
  /\ opts.publicKey \in Keys \cup {Nil}

\* A metadata record that says of the file what its writer was asked for,
\* except for the digests another writer may leave out or cut short.
Told(m) ==
  /\ DOMAIN m = DOMAIN newMetadata
  /\ \A f \in {"version", "salt", "enc_key1", "enc_key2", "compress",
               "encrypt", "file_name"} : m[f] = Fields[f]
  /\ m["key1_hash"] \in {Nil, ShortHash, Fields["key1_hash"]}
  /\ m["session_key_hash"] \in {Nil, ShortHash, Fields["session_key_hash"]}

\* The metadata as it will be once the dicts that are left are absorbed.
Outlook ==
  CASE Len(dicts) = 2 -> absorb(absorb(meta, dicts[1]), dicts[2])
    [] Len(dicts) = 1 -> absorb(meta, dicts[1])
    [] OTHER -> meta

DictsOK ==
  /\ pc \in {"options", "new", "start", "written"} => meta = newMetadata
  /\ pc = "written" =>
       dicts = <<Only(Fields, {f \in DOMAIN Fields :
                                 f \in Optional => Fields[f] # Nil})>>
  /\ pc = "sent" => \/ Len(dicts) = 1 /\ dicts = <<dicts[1]>>
                    \/ Len(dicts) = 2 /\ dicts = <<dicts[1], dicts[2]>>
  /\ pc \in {"inspected"} \cup Opening => dicts = <<>>

\* None of the secrets that were tried opens the file.
Shut ==
  /\ ~Empty(opts.password) /\ secret.password # Nil =>
       secret.typed # opts.typed
  /\ secret.password = Nil \/ Empty(opts.password) =>
       opts.publicKey = Nil \/ secret.privateKey # opts.publicKey

IInv ==
  /\ pc \in Pcs
  /\ pc \notin {"options", "refused"} => OptsOK
  /\ DictsOK
  /\ pc \in Reading \cup {"inspected"} \cup Opening => Told(Outlook)
  /\ pc \in Opening /\ secret.password # Nil =>
       secret.password = secret.typed
  /\ pc = "verify" => sk = OnWire \/ (sk = Garbage /\ Shut)
  /\ HolderOpens
  /\ KeyIsTheirs

----------------------------------------------------------------------------
(* Lemmas about the operators.                                             *)

\* What trimEOL leaves of a password, with or without an end of line after
\* it, is the password (main.go:515).
LEMMA Trimmed ==
  ASSUME NEW p \in Passwords, NEW e \in {<<>>, <<Eol>>}
  PROVE  trimEOL(p \o e) = p
<1> DEFINE b == p \o e
           I == {0} \cup {i \in DOMAIN b : b[i] # Eol}
<1>1. p \in Seq(STRING) /\ Len(p) \in Nat
  BY HeaderAssumption
<1>2. /\ \A i \in 1..Len(p) : b[i] = p[i]
      /\ \/ DOMAIN b = 1..Len(p)
         \/ DOMAIN b = 1..(Len(p) + 1) /\ b[Len(p) + 1] = Eol
  <2>1. CASE e = <<>>
    BY <1>1, <2>1
  <2>2. CASE e = <<Eol>>
    BY <1>1, <2>2
  <2> QED BY <2>1, <2>2
<1>3. Len(p) \in I /\ \A i \in I : i <= Len(p)
  <2>1. Len(p) = 0 \/ b[Len(p)] # Eol
    BY <1>1, <1>2, HeaderAssumption DEF Last
  <2> QED BY <1>1, <1>2, <2>1
<1>4. Max(I) = Len(p)
  <2>1. \A i \in I : i \in Nat
    BY <1>2, <1>1
  <2> HIDE DEF I
  <2> QED BY <1>1, <1>3, <2>1 DEF Max
<1>5. SubSeq(b, 1, Len(p)) = p
  BY <1>1, <1>2
<1> QED BY <1>4, <1>5 DEF trimEOL

\* A password that is loaded is the one that was typed (main.go:473-484).
LEMMA Loaded ==
  ASSUME NEW src \in Sources, loadPassword(src) # Nil
  PROVE  loadPassword(src) = src.typed /\ src.typed \in Passwords
<1>1. src.typed \in Passwords /\ src.eols \in {<<>>, <<Eol>>}
  BY DEF Sources
<1> QED BY <1>1, Trimmed DEF loadPassword

\* The fields a header has, and which of them can be Nil.
LEMMA FieldNames ==
  /\ DOMAIN Fields = DOMAIN newMetadata
  /\ DOMAIN newMetadata =
       {"version", "salt", "digest", "enc_key1", "key1_hash", "enc_key2",
        "session_key_hash", "compress", "encrypt", "file_name"}
  /\ \A f \in Optional : newMetadata[f] = Nil
  /\ Optional \subseteq DOMAIN newMetadata
  /\ newMetadata["session_key_hash"] = Nil
BY DEF Fields, newMetadata, Optional

\* A field of the one that wraps the session key is Nil only if nothing
\* wraps it, and a salt is there for the versions that have one.
LEMMA Wrapped ==
  ASSUME OptsOK
  PROVE  /\ (Fields["enc_key1"] = Nil) = Empty(opts.password)
         /\ ~Empty(opts.password) =>
              /\ Fields["enc_key1"].aes = WrapKey(opts.password, Fields["salt"])
              /\ Fields["enc_key1"].of = OnWire
              /\ Fields["key1_hash"] = saltedDigest(opts.password)
         /\ (Fields["enc_key2"] = Nil) = (opts.publicKey = Nil)
         /\ opts.publicKey # Nil =>
              /\ Fields["enc_key2"].rsa = opts.publicKey
              /\ Fields["enc_key2"].of = OnWire
         /\ Fields["session_key_hash"] = saltedDigest(OnWire)
         /\ (Fields["salt"] = Nil) = (OnWire = RawSession)
         /\ Fields["salt"] # Nil => OnWire = HexOf(RawSession)
<1> DEFINE s == IF major(opts) >= 3 THEN "salt" ELSE Nil
<1>1. /\ Fields["salt"] = s
      /\ Fields["enc_key1"] = IF ~Empty(opts.password)
              THEN [aes |-> WrapKey(opts.password, s), of |-> OnWire] ELSE Nil
      /\ Fields["key1_hash"] = IF ~Empty(opts.password)
              THEN saltedDigest(opts.password) ELSE Nil
      /\ Fields["enc_key2"] = IF opts.publicKey = Nil THEN Nil
              ELSE [rsa |-> opts.publicKey, of |-> OnWire]
      /\ Fields["session_key_hash"] = saltedDigest(OnWire)
  BY DEF Fields, OnWire
<1>2. OnWire \in {RawSession, HexOf(RawSession)}
  BY DEF OnWire
<1>3. HexOf(RawSession) # RawSession
  BY DEF HexOf, RawSession
<1>4. ~Empty(opts.password) =>
        [aes |-> WrapKey(opts.password, s), of |-> OnWire] # Nil
  BY <1>2, NilAssumption DEF Empty, OptsOK
<1>5. opts.publicKey # Nil => [rsa |-> opts.publicKey, of |-> OnWire] # Nil
  BY <1>2, NilAssumption DEF OptsOK, Keys
<1>6. (s = Nil) = (OnWire = RawSession) /\ (s # Nil => OnWire = HexOf(RawSession))
  BY <1>3, NilAssumption DEF OnWire
<1>7. (Fields["enc_key1"] = Nil) = Empty(opts.password)
  BY <1>1, <1>4 DEF Empty
<1> HIDE DEF s
<1> QED BY <1>1, <1>4, <1>5, <1>6, <1>7

----------------------------------------------------------------------------
(* What is read is what was written.                                       *)

\* The dict of this writer tells everything.
LEMMA OwnDict ==
  ASSUME NEW d,
         d = Only(Fields, {f \in DOMAIN Fields :
                             f \in Optional => Fields[f] # Nil})
  PROVE  Told(absorb(newMetadata, d))
<1> DEFINE m == absorb(newMetadata, d)
<1>1. /\ \A f \in DOMAIN d : f \in DOMAIN newMetadata /\ d[f] = Fields[f]
      /\ \A f \in DOMAIN newMetadata \ DOMAIN d :
           f \in Optional /\ Fields[f] = Nil
  BY FieldNames DEF Only
<1>2. /\ DOMAIN m = DOMAIN newMetadata
      /\ \A f \in DOMAIN newMetadata :
           m[f] = IF f \in DOMAIN d THEN d[f] ELSE newMetadata[f]
  BY DEF absorb
<1>3. \A f \in DOMAIN newMetadata : m[f] = Fields[f]
  <2> HIDE DEF m
  <2> QED BY <1>1, <1>2, FieldNames
<1> HIDE DEF m
<1>4. Told(m)
  BY <1>2, <1>3, FieldNames DEF Told
<1> QED BY <1>4 DEF m

\* So do the two dicts another writer makes of it, but for the digests left
\* out or cut short.
LEMMA OtherDicts ==
  ASSUME NEW d, NEW omit \in Omitted, NEW short \in Shortened, NEW first,
         Told(absorb(newMetadata, d))
  PROVE  LET all == Cut(Only(d, DOMAIN d \ omit), short)
         IN  Told(absorb(absorb(newMetadata, Only(all, first)),
                         Only(all, DOMAIN all \ first)))
<1> DEFINE all == Cut(Only(d, DOMAIN d \ omit), short)
           one == Only(all, first)
           two == Only(all, DOMAIN all \ first)
           m == absorb(absorb(newMetadata, one), two)
           n == absorb(newMetadata, d)
<1>1. /\ DOMAIN all = DOMAIN d \ omit
      /\ \A f \in DOMAIN all : all[f] = IF f \in short THEN ShortHash ELSE d[f]
  BY DEF Only, Cut
<1>2. DOMAIN one = DOMAIN all \cap first /\ \A f \in DOMAIN one : one[f] = all[f]
  BY DEF Only
<1>3. DOMAIN two = DOMAIN all \ first /\ \A f \in DOMAIN two : two[f] = all[f]
  BY DEF Only
<1>4. /\ DOMAIN m = DOMAIN newMetadata
      /\ \A f \in DOMAIN newMetadata :
           m[f] = IF f \notin DOMAIN d \ omit THEN newMetadata[f]
                  ELSE IF f \in short THEN ShortHash ELSE d[f]
  <2> HIDE DEF all, one, two
  <2> QED BY <1>1, <1>2, <1>3 DEF absorb
<1>5. \A f \in DOMAIN newMetadata :
        n[f] = IF f \in DOMAIN d THEN d[f] ELSE newMetadata[f]
  BY DEF absorb
<1>6. \A f \in DOMAIN newMetadata : f \notin omit \cup short => m[f] = n[f]
  BY <1>4, <1>5
<1>7. \A f \in {"key1_hash", "session_key_hash"} : m[f] \in {Nil, ShortHash, n[f]}
  BY <1>4, <1>5, FieldNames DEF Optional
<1>8. omit \cup short \subseteq {"key1_hash", "session_key_hash", "digest"}
  BY HeaderAssumption
<1>9. Told(m)
  <2> HIDE DEF m
  <2>1. /\ \A f \in {"version", "salt", "enc_key1", "enc_key2", "compress",
                     "encrypt", "file_name"} : n[f] = Fields[f]
        /\ n["key1_hash"] \in {Nil, ShortHash, Fields["key1_hash"]}
        /\ n["session_key_hash"] \in {Nil, ShortHash, Fields["session_key_hash"]}
    BY DEF Told
  <2> HIDE DEF n
  <2> QED BY <1>4, <1>6, <1>7, <1>8, <2>1, FieldNames DEF Told
<1> QED BY <1>9

----------------------------------------------------------------------------
(* The invariant.                                                          *)

LEMMA InvInit == Init => IInv
BY DEF Init, IInv, Pcs, Reading, Opening, DictsOK, HolderOpens, KeyIsTheirs

\* What the steps before the file is read establish.
LEMMA WriterSteps ==
  ASSUME IInv,
         \/ \E src \in Sources, pem \in PublicPems \cup {Nil}, v \in Versions,
               c \in BOOLEAN : Flags(src, pem, v, c)
         \/ \E o \in Callers : Call(o)
         \/ NewWriter
  PROVE  IInv'
<1> USE DEF Pcs, Reading, Opening
<1>1. ASSUME NEW src \in Sources, NEW pem \in PublicPems \cup {Nil},
             NEW v \in Versions, NEW c \in BOOLEAN, Flags(src, pem, v, c)
      PROVE  IInv'
  <2>1. pc = "options" /\ pc' \in {"refused", "new"} /\ meta' = meta
    BY <1>1 DEF Flags
  <2>2. pc' = "new" =>
          /\ opts'.password = loadPassword(src) /\ opts'.typed = src.typed
          /\ opts'.publicKey = IF pem = Nil THEN Nil ELSE LoadRSAPublicKey(pem)
          /\ opts'.publicKey # Error("pem")
    BY <1>1 DEF Flags
  <2>3. OptsOK' \/ pc' = "refused"
    BY <2>1, <2>2, Loaded DEF OptsOK, Keys, LoadRSAPublicKey
  <2> QED BY <2>1, <2>3 DEF IInv, DictsOK, HolderOpens, KeyIsTheirs
<1>2. ASSUME NEW o \in Callers, Call(o)
      PROVE  IInv'
  <2>1. OptsOK'
    BY <1>2, HeaderAssumption DEF Call, OptsOK, Keys
  <2> QED BY <1>2, <2>1 DEF Call, IInv, DictsOK, HolderOpens, KeyIsTheirs
<1>3. CASE NewWriter
  BY <1>3 DEF NewWriter, IInv, OptsOK, DictsOK, HolderOpens, KeyIsTheirs
<1> QED BY <1>1, <1>2, <1>3

\* What a file holds says what its writer was asked for.
LEMMA StartStep ==
  ASSUME IInv, Start
  PROVE  IInv'
<1> USE DEF Pcs, Reading, Opening
<1>1. pc = "start" /\ opts' = opts /\ meta' = newMetadata /\ OptsOK'
  BY DEF Start, IInv, DictsOK, OptsOK
<1>2. CASE pc' = "refused"
  BY <1>1, <1>2 DEF IInv, DictsOK, HolderOpens, KeyIsTheirs
<1>3. CASE pc' = "written"
  <2> DEFINE d == Only(Fields, {f \in DOMAIN Fields :
                                 f \in Optional => Fields[f] # Nil})
  <2>1. dicts' = <<d>>
    BY <1>3 DEF Start
  <2>2. Fields' = Fields
    BY <1>1 DEF Fields, major, minor, compressOn
  <2>3. dicts' = <<d>>'
    BY <2>1, <2>2
  <2>4. Told(Outlook)'
    <3>1. Outlook' = absorb(newMetadata, d)
      <4> HIDE DEF d
      <4> QED BY <1>1, <2>1 DEF Outlook
    <3> QED BY <3>1, OwnDict, <2>2 DEF Told
  <2> QED BY <1>1, <1>3, <2>3, <2>4 DEF IInv, DictsOK, HolderOpens, KeyIsTheirs
<1> QED BY <1>2, <1>3 DEF Start

\* As long as the options stay, so does what the file should say.
LEMMA OptionsStay ==
  ASSUME UNCHANGED opts
  PROVE  Fields' = Fields /\ OnWire' = OnWire /\ OptsOK' = OptsOK
BY DEF Fields, OnWire, OptsOK, major, minor, compressOn

\* Nothing gets lost or made up between the writer and the reader.
LEMMA DictSteps ==
  ASSUME IInv, OtherWriter \/ Absorb
  PROVE  IInv'
<1> USE DEF Pcs, Reading, Opening
<1>1. Fields' = Fields /\ OptsOK'
  BY OptionsStay DEF OtherWriter, Absorb, IInv
<1>2. CASE OtherWriter
  <2> DEFINE d == dicts[1]
  <2>1. PICK omit \in Omitted, short \in Shortened, first \in First :
          LET all == Cut(Only(d, DOMAIN d \ omit), short)
          IN dicts' = <<Only(all, first), Only(all, DOMAIN all \ first)>>
    BY <1>2 DEF OtherWriter
  <2>2. Told(absorb(newMetadata, d))
    BY <1>2, OwnDict DEF OtherWriter, IInv, DictsOK
  <2> DEFINE all == Cut(Only(d, DOMAIN d \ omit), short)
             one == Only(all, first)
             two == Only(all, DOMAIN all \ first)
  <2>3. Told(absorb(absorb(newMetadata, one), two))
    BY <2>2, OtherDicts
  <2>4. dicts' = <<one, two>> /\ meta' = newMetadata /\ pc' = "sent"
    BY <1>2, <2>1 DEF OtherWriter, IInv, DictsOK
  <2> HIDE DEF d, all, one, two
  <2>5. Outlook' = absorb(absorb(newMetadata, one), two)
    BY <2>4 DEF Outlook
  <2>6. Told(Outlook)'
    BY <2>3, <2>5, <1>1 DEF Told
  <2>7. DictsOK'
    BY <2>4 DEF DictsOK
  <2> QED BY <1>1, <2>4, <2>6, <2>7 DEF IInv, HolderOpens, KeyIsTheirs
<1>3. CASE Absorb
  <2>1. \/ Len(dicts) = 1 /\ dicts = <<dicts[1]>> /\ pc' = "inspected"
        \/ Len(dicts) = 2 /\ dicts = <<dicts[1], dicts[2]>> /\ pc' = "sent"
    BY <1>3 DEF Absorb, IInv, DictsOK
  <2>2. meta' = absorb(meta, Head(dicts)) /\ dicts' = Tail(dicts)
    BY <1>3 DEF Absorb
  <2>3. CASE Len(dicts) = 1
    <3> DEFINE d == dicts[1]
    <3>1. dicts = <<d>> /\ dicts' = <<>> /\ meta' = absorb(meta, d)
      BY <2>1, <2>2, <2>3
    <3> HIDE DEF d
    <3>2. Outlook' = Outlook
      BY <3>1 DEF Outlook
    <3>3. DictsOK'
      BY <2>1, <2>3, <3>1 DEF DictsOK
    <3> QED BY <1>1, <1>3, <2>1, <2>3, <3>2, <3>3
            DEF IInv, Absorb, HolderOpens, KeyIsTheirs, Told
  <2>4. CASE Len(dicts) = 2
    <3> DEFINE d == dicts[1]
               e == dicts[2]
    <3>1. dicts = <<d, e>> /\ dicts' = <<e>> /\ meta' = absorb(meta, d)
      <4>1. dicts = <<d, e>>
        BY <2>1, <2>4
      <4> HIDE DEF d, e
      <4>2. Head(<<d, e>>) = d /\ Tail(<<d, e>>) = <<e>>
        OBVIOUS
      <4> QED BY <2>2, <4>1, <4>2
    <3> HIDE DEF d, e
    <3>2. Outlook' = Outlook
      BY <3>1 DEF Outlook
    <3>3. DictsOK'
      BY <2>1, <2>4, <3>1 DEF DictsOK
    <3> QED BY <1>1, <1>3, <2>1, <2>4, <3>2, <3>3
            DEF IInv, Absorb, HolderOpens, KeyIsTheirs, Told
  <2> QED BY <2>1, <2>3, <2>4
<1> QED BY <1>2, <1>3

\* Once all dicts are read, the metadata tells what it should.
LEMMA AllRead ==
  ASSUME IInv, pc \in {"inspected"} \cup Opening
  PROVE  OptsOK /\ Told(meta)
<1>1. dicts = <<>> /\ Told(Outlook) /\ OptsOK
  BY DEF IInv, DictsOK, Opening
<1>2. Outlook = meta
  BY <1>1 DEF Outlook
<1> QED BY <1>1, <1>2

\* The steps that open the file, as far as the invariant is concerned.
LEMMA OpeningSteps ==
  ASSUME IInv, pc \in Opening, pc' \in Opening,
         UNCHANGED <<opts, dicts, meta, secret>>,
         pc' = "verify" => (sk = OnWire \/ (sk = Garbage /\ Shut))',
         pc' = "failed" => Shut,
         KeyIsTheirs'
  PROVE  IInv'
<1> USE DEF Pcs, Reading, Opening
<1>1. Fields' = Fields /\ OptsOK' /\ Outlook' = Outlook /\ DictsOK'
  BY OptionsStay DEF IInv, Outlook, DictsOK
<1>2. HolderOpens'
  BY DEF HolderOpens, Shut
<1> QED BY <1>1, <1>2 DEF IInv, Told

\* A hash that is missing or was cut short is not compared (decrypt.go:381).
LEMMA Unchecked == ~Checked(Nil) /\ ~Checked(ShortHash)
BY DEF Checked, ShortHash

\* recoverSessionKey by password (decrypt.go:329-351).
LEMMA PasswordStep ==
  ASSUME IInv, UnwrapPassword
  PROVE  IInv'
<1> USE DEF Opening
<1>1. OptsOK /\ Told(meta) /\ secret.password # Nil /\ meta.enc_key1 # Nil
  BY AllRead DEF UnwrapPassword, ByPassword
<1>2. /\ pc = "unwrap" /\ pc' \in {"failed", "verify"}
      /\ UNCHANGED <<opts, dicts, meta, secret>>
  BY DEF UnwrapPassword, Fail, Unwrapped
<1>3. /\ ~Empty(opts.password) /\ secret.password = secret.typed
      /\ opts.password = opts.typed
  BY <1>1, <1>2, Wrapped DEF IInv, Told, OptsOK, Empty
<1>4. secret.password # opts.password => Shut
  BY <1>1, <1>3 DEF Shut
<1>5. /\ meta.key1_hash \in {Nil, ShortHash, saltedDigest(opts.password)}
      /\ meta.enc_key1.aes = WrapKey(opts.password, meta.salt)
      /\ meta.enc_key1.of = OnWire
  BY <1>1, <1>3, Wrapped DEF Told
<1>6. pc' = "failed" => Shut
  <2>1. verifyKeyHash(meta.key1_hash, opts.password)
    BY <1>5, Unchecked DEF verifyKeyHash
  <2> QED BY <1>2, <1>4, <1>5, <2>1 DEF UnwrapPassword, Unwrapped
<1>7. pc' = "verify" => (sk = OnWire \/ (sk = Garbage /\ Shut))'
  <2>1. OnWire' = OnWire /\ Shut' = Shut
    BY <1>2, OptionsStay DEF Shut, Empty
  <2> QED BY <1>2, <1>4, <1>5, <2>1 DEF UnwrapPassword, Unwrapped, Fail
<1> QED BY <1>2, <1>6, <1>7, OpeningSteps DEF KeyIsTheirs

\* recoverSessionKey by private key (decrypt.go:353-362).
LEMMA KeyStep ==
  ASSUME IInv, UnwrapKey
  PROVE  IInv'
<1> USE DEF Opening
<1>1. OptsOK /\ Told(meta) /\ ~(secret.password # Nil /\ meta.enc_key1 # Nil)
  BY AllRead DEF UnwrapKey, ByPassword
<1>2. /\ pc = "unwrap" /\ pc' \in {"failed", "verify"}
      /\ UNCHANGED <<opts, dicts, meta, secret>>
  BY DEF UnwrapKey, Fail, Unwrapped
<1>3. secret.password = Nil \/ Empty(opts.password)
  BY <1>1, Wrapped DEF Told
<1>4. /\ meta.enc_key2 = Nil => opts.publicKey = Nil
      /\ opts.publicKey # Nil =>
           meta.enc_key2.rsa = opts.publicKey /\ meta.enc_key2.of = OnWire
  BY <1>1, Wrapped DEF Told
<1>5. pc' = "failed" => Shut
  BY <1>2, <1>3, <1>4 DEF UnwrapKey, Unwrapped, Shut
<1>6. pc' = "verify" => (sk = OnWire)'
  <2>1. OnWire' = OnWire
    BY <1>2, OptionsStay
  <2>2. meta.enc_key2 # Nil => opts.publicKey # Nil
    BY <1>1, Wrapped DEF Told
  <2> QED BY <1>2, <1>4, <2>1, <2>2 DEF UnwrapKey, Unwrapped, Fail
<1> QED BY <1>2, <1>5, <1>6, OpeningSteps DEF KeyIsTheirs

\* A recorded hash lets only the key of the payload through
\* (decrypt.go:364-378).
LEMMA VerifyStep ==
  ASSUME IInv, Verify
  PROVE  IInv'
<1> USE DEF Opening
<1>1. OptsOK /\ Told(meta) /\ (sk = OnWire \/ (sk = Garbage /\ Shut))
  BY AllRead DEF IInv, Verify
<1>2. /\ pc = "verify" /\ pc' \in {"failed", "opened"}
      /\ UNCHANGED <<opts, dicts, meta, secret>>
  BY DEF Verify, Fail, Opened
<1>3. /\ meta.session_key_hash \in {Nil, ShortHash, saltedDigest(OnWire)}
      /\ (meta.salt = Nil) = (OnWire = RawSession)
      /\ meta.salt # Nil => OnWire = HexOf(RawSession)
  BY <1>1, Wrapped DEF Told
<1>4. /\ "hex" \in DOMAIN HexOf(RawSession)
      /\ HexOf(RawSession).hex = RawSession
      /\ HexOf(RawSession) # Garbage
  BY DEF HexOf, Garbage
<1>5. \A a, b : saltedDigest(a) = saltedDigest(b) => a = b
  <2> SUFFICES ASSUME NEW a, NEW b, saltedDigest(a) = saltedDigest(b)
               PROVE  a = b
    OBVIOUS
  <2>1. saltedDigest(a).md5 = a /\ saltedDigest(b).md5 = b
    BY DEF saltedDigest
  <2> QED BY <2>1
<1>6. pc' = "failed" => Shut
  <2>1. verifyKeyHash(meta.session_key_hash, OnWire)
    BY <1>3, Unchecked DEF verifyKeyHash
  <2> QED BY <1>1, <1>2, <1>3, <1>4, <2>1 DEF Verify, Opened
<1>7. KeyIsTheirs'
  <2> SUFFICES ASSUME pc' = "opened", Checked(meta.session_key_hash)
               PROVE  result' = DataKey(RawSession)
    BY <1>2 DEF KeyIsTheirs, Checked
  <2>1. sk = OnWire
    <3>1. verifyKeyHash(meta.session_key_hash, sk)
      BY <1>2 DEF Verify, Fail, verifyKeyHash
    <3>2. meta.session_key_hash = saltedDigest(sk)
      BY <3>1 DEF verifyKeyHash
    <3>3. meta.session_key_hash \notin {Nil, ShortHash}
      BY DEF Checked, ShortHash
    <3> QED BY <1>3, <1>5, <3>2, <3>3
  <2> QED BY <1>2, <1>3, <1>4, <2>1 DEF Verify, Fail, Opened
<1> QED BY <1>2, <1>6, <1>7, OpeningSteps

\* Supplying secrets, and steps that change nothing.
LEMMA OtherSteps ==
  ASSUME IInv,
         \/ \E src \in Sources, pem \in PrivatePems \cup {Nil},
               pass \in {Nil, "pass", "other"} : Supply(src, pem, pass)
         \/ UNCHANGED vars
  PROVE  IInv'
<1> USE DEF Pcs, Reading, Opening
<1>1. ASSUME NEW src \in Sources, NEW pem \in PrivatePems \cup {Nil},
             NEW pass \in {Nil, "pass", "other"}, Supply(src, pem, pass)
      PROVE  IInv'
  <2>1. /\ pc = "inspected" /\ pc' \in {"refused", "unwrap"}
        /\ UNCHANGED <<opts, dicts, meta>>
    BY <1>1 DEF Supply
  <2>2. Fields' = Fields /\ OptsOK' /\ Outlook' = Outlook /\ DictsOK'
    BY <2>1, OptionsStay DEF IInv, Outlook, DictsOK
  <2>3. pc' = "unwrap" /\ secret'.password # Nil =>
          secret'.password = secret'.typed
    <3>1. pc' = "unwrap" => /\ secret'.password = loadPassword(src)
                            /\ secret'.typed = src.typed
      BY <1>1 DEF Supply
    <3> QED BY <3>1, Loaded
  <2> QED BY <2>1, <2>2, <2>3 DEF IInv, Told, HolderOpens, KeyIsTheirs
<1>2. CASE UNCHANGED vars
  <2>1. Fields' = Fields /\ OptsOK' = OptsOK /\ Outlook' = Outlook
        /\ DictsOK' = DictsOK /\ OnWire' = OnWire
    BY <1>2, OptionsStay DEF Outlook, DictsOK, vars
  <2> QED BY <1>2, <2>1
          DEF vars, IInv, Told, HolderOpens, KeyIsTheirs, Shut, Empty
<1> QED BY <1>1, <1>2

LEMMA InvNext == IInv /\ [Next]_vars => IInv'
<1> SUFFICES ASSUME IInv, [Next]_vars PROVE IInv'
  OBVIOUS
<1>1. CASE \/ \E src \in Sources, pem \in PublicPems \cup {Nil},
                v \in Versions, c \in BOOLEAN : Flags(src, pem, v, c)
           \/ \E o \in Callers : Call(o)
           \/ NewWriter
  BY <1>1, WriterSteps
<1>2. CASE Start
  BY <1>2, StartStep
<1>3. CASE OtherWriter \/ Absorb
  BY <1>3, DictSteps
<1>4. CASE \/ \E src \in Sources, pem \in PrivatePems \cup {Nil},
                pass \in {Nil, "pass", "other"} : Supply(src, pem, pass)
           \/ UNCHANGED vars
  BY <1>4, OtherSteps
<1>5. CASE UnwrapPassword \/ UnwrapKey \/ Verify
  BY <1>5, PasswordStep, KeyStep, VerifyStep
<1> QED BY <1>1, <1>2, <1>3, <1>4, <1>5 DEF Next, Done

LEMMA Invariant == Spec => []IInv
BY InvInit, InvNext, PTL DEF Spec

----------------------------------------------------------------------------
(* The results.                                                            *)

\* Past a session key hash that is compared, one of ten characters or more, only
\* the key the payload was encrypted with is returned (decrypt.go:324-389).
THEOREM OnlyTheirKey == Spec => []KeyIsTheirs
<1>1. IInv => KeyIsTheirs
  BY DEF IInv
<1> QED BY <1>1, Invariant, PTL

\* Who gives the right password, or the right private key and no password where
\* there is one, is never turned away, whatever the version, the way the secret
\* is kept and the digests recorded.
THEOREM HoldersGetIn == Spec => []HolderOpens
<1>1. IInv => HolderOpens
  BY DEF IInv
<1> QED BY <1>1, Invariant, PTL

\* Inspect shows what the writer was asked for, even if another writer spread
\* it over two dicts (encrypt.go:38-48, decrypt.go:249-292).
THEOREM InspectIsTrue == Spec => []InspectShows
<1>1. IInv => InspectShows
  <2> SUFFICES ASSUME IInv, pc = "inspected"
               PROVE  InspectShows
    BY DEF InspectShows
  <2>1. OptsOK /\ Told(meta)
    BY AllRead
  <2>2. /\ meta.version = <<major(opts), minor(opts)>>
        /\ meta.compress = IF compressOn(opts) THEN 1 ELSE 0
        /\ meta.encrypt = 1 /\ meta.file_name = opts.filename
    BY <2>1 DEF Told, Fields
  <2>3. /\ (meta.enc_key1 = Nil) = Empty(opts.password)
        /\ (meta.enc_key2 = Nil) = (opts.publicKey = Nil)
    BY <2>1, Wrapped DEF Told
  <2>4. (meta.compress = 0) = (opts.compress = FALSE)
    <3>1. compressOn(opts) <=> opts.compress # FALSE
      BY Zenon DEF compressOn
    <3>2. meta.compress = 0 <=> ~compressOn(opts)
      BY <2>2
    <3> QED BY <3>1, <3>2, Zenon
  <2>5. /\ opts.major # 0 => meta.version = <<opts.major, opts.minor>>
        /\ opts.major = 0 /\ opts.minor = 0 => meta.version = <<3, 1>>
    BY <2>2 DEF major, minor
  <2> QED BY <2>2, <2>3, <2>4, <2>5 DEF InspectShows
<1> QED BY <1>1, Invariant, PTL
=============================================================================
