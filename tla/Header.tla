------------------------------- MODULE Header -------------------------------
(***************************************************************************)
(* The header of a stream and the secrets that open it: what start writes  *)
(* (encrypt.go), what absorb, Inspect and recoverSessionKey make of it     *)
(* (decrypt.go, kdf.go, hash.go), and how the command line comes by its    *)
(* secrets (main.go, file.go).                                             *)
(*                                                                         *)
(* Cryptography is symbolic: a digest or a ciphertext is a term that names *)
(* what went into it.  A wrong key opens a term to Garbage, which may or   *)
(* may not look padded.  Lengths of keys are counted in md5 digests.       *)
(*                                                                         *)
(* A file is written once, by this writer or by another one of the format, *)
(* and then read with some secrets.                                        *)
(***************************************************************************)
EXTENDS Integers, SequencesExt

CONSTANTS
  Nil,        \* a nil slice or pointer, an empty string field
  Passwords,  \* what users type: sequences of characters
  Eol,        \* the end of line an editor leaves in a password file
  PublicPems, PrivatePems, \* PEM files: [type, rsa, passphrase, key]
  Versions,   \* -version, split at its first dot; Nil for what is no number
  Callers,    \* EncryptOptions of callers of the library
  Omitted,    \* sets of fields another writer leaves out
  Shortened,  \* sets of hashes another writer records cut short
  First       \* sets of fields another writer puts into a dict of their own

ASSUME HeaderAssumption ==
  /\ Nil \notin Passwords /\ Passwords \subseteq Seq(STRING)
  /\ \A p \in Passwords : p # <<>> => Last(p) # Eol
  /\ \A o \in Callers : /\ o.password \in Passwords \cup {Nil}
                        /\ o.password # Nil => o.password = o.typed
  /\ \A o \in Omitted : o \subseteq {"key1_hash", "session_key_hash", "digest"}
  /\ \A s \in Shortened : s \subseteq {"key1_hash", "session_key_hash"}

VARIABLES
  pc,     \* where the writer, then the reader is
  opts,   \* EncryptOptions
  dicts,  \* the metadata dicts before the first data dict, yet to be read
  meta,   \* the reader's Metadata
  secret, \* the reader's Options
  sk,     \* sk of recoverSessionKey
  result  \* its data key and iv, or its error

vars == <<pc, opts, dicts, meta, secret, sk, result>>

Empty(b) == b \in {Nil, <<>>}
Error(e) == [error |-> e]
Garbage == [garbage |-> TRUE]

----------------------------------------------------------------------------
(* Key material.                                                           *)

\* Round i digests round i - 1, the password and the salt, count times.
evpKDF(password, salt, count, keyLen, ivLen) ==
  LET Digest[i \in 1..(keyLen + ivLen)] ==
        [md5 |-> <<IF i = 1 THEN <<>> ELSE Digest[i - 1], password, salt>>,
         times |-> IF count < 1 THEN 1 ELSE count]
  IN [key |-> SubSeq(Digest, 1, keyLen),
      iv |-> SubSeq(Digest, keyLen + 1, keyLen + ivLen)]

WrapKey(password, salt) ==
  evpKDF(password, salt, IF salt = Nil THEN 1 ELSE 1000, 2, 1)
DataKey(input) == evpKDF(input, Nil, 1, 2, 1)

\* Ten characters of salt and the digest in hex; its random salt is left out.
saltedDigest(data) == [length |-> 42, md5 |-> data]

\* A recorded hash that is too short to hold a salt.
ShortHash == [length |-> 9]

\* Whether there is anything to check against.
Checked(hash) == hash # Nil /\ hash.length >= 10

\* Mutant: hashes are informational.
VerifyNever(hash, data) == TRUE

verifyKeyHash(hash, data) == Checked(hash) => hash = saltedDigest(data)

RawSession == [raw |-> "session"]
HexOf(key) == [hex |-> key]

\* Nil is none of the values that fields hold.
ASSUME NilAssumption ==
  /\ Nil # "salt"
  /\ \A w \in {RawSession, HexOf(RawSession)} :
       /\ \A p \in Passwords, s \in {Nil, "salt"} :
            [aes |-> WrapKey(p, s), of |-> w] # Nil
       /\ \A o \in Callers : [rsa |-> o.publicKey, of |-> w] # Nil
       /\ \A pem \in PublicPems : [rsa |-> pem.key, of |-> w] # Nil

----------------------------------------------------------------------------
(* The secrets a user supplies: [via, typed, eols], where eols is what      *)
(* stands after the password in its file.                                   *)

Sources == [via : {"none", "inline", "file"}, typed : Passwords,
            eols : {<<>>, <<Eol>>}]

\* Mutant: the file is taken as it is.
TrimNothing(b) == b

trimEOL(b) == SubSeq(b, 1, Max({0} \cup {i \in DOMAIN b : b[i] # Eol}))

loadPassword(src) ==
  CASE src.via = "file" -> trimEOL(src.typed \o src.eols)
    [] src.via = "inline" /\ src.typed # <<>> -> src.typed
    [] OTHER -> Nil

\* A PEM file that cannot be used stops the command.
LoadRSAPrivateKey(pem, passphrase) ==
  IF \/ pem.passphrase # Nil /\ pem.passphrase # passphrase
     \/ pem.type \notin {"RSA PRIVATE KEY", "PRIVATE KEY"} \/ ~pem.rsa
  THEN Error("pem") ELSE pem.key

LoadRSAPublicKey(pem) ==
  IF pem.type \notin {"RSA PUBLIC KEY", "PUBLIC KEY"} \/ ~pem.rsa
  THEN Error("pem") ELSE pem.key

parseVersion(parts) ==
  IF Len(parts) = 2 /\ Nil \notin {parts[1], parts[2]} /\ parts[1] \in {1, 3}
  THEN parts ELSE Error("version")

----------------------------------------------------------------------------
(* The writer.                                                             *)

major(o) == IF o.major = 0 THEN 3 ELSE o.major
minor(o) == IF o.major = 0 /\ o.minor = 0 THEN 1 ELSE o.minor
compressOn(o) == o.compress # FALSE

newMetadata ==
  [version |-> <<0, 0>>, salt |-> Nil, digest |-> Nil, enc_key1 |-> Nil,
   key1_hash |-> Nil, enc_key2 |-> Nil, session_key_hash |-> Nil,
   compress |-> 1, encrypt |-> 1, file_name |-> Nil]

Init ==
  /\ pc = "options" /\ opts = Nil /\ dicts = <<>> /\ secret = Nil
  /\ meta = newMetadata /\ sk = Nil /\ result = Nil

\* runEncrypt: the flags, any of which may stop it.
Flags(src, pem, version, compress) ==
  LET key == IF pem = Nil THEN Nil ELSE LoadRSAPublicKey(pem)
      parsed == parseVersion(version)
      refused == \/ key = Error("pem") \/ parsed = Error("version")
                 \/ loadPassword(src) = Nil /\ key = Nil
  IN /\ pc = "options"
     /\ pc' = IF refused THEN "refused" ELSE "new"
     /\ opts' = IF refused THEN opts ELSE
          [password |-> loadPassword(src), publicKey |-> key,
           major |-> parsed[1], minor |-> parsed[2], compress |-> compress,
           filename |-> "name", typed |-> src.typed]
     /\ UNCHANGED <<dicts, meta, secret, sk, result>>

Call(o) ==
  /\ pc = "options" /\ pc' = "new" /\ opts' = o
  /\ UNCHANGED <<dicts, meta, secret, sk, result>>

NewWriter ==
  /\ pc = "new"
  /\ pc' = IF \/ Empty(opts.password) /\ opts.publicKey = Nil
              \/ major(opts) \notin {1, 3} THEN "refused" ELSE "start"
  /\ UNCHANGED <<opts, dicts, meta, secret, sk, result>>

\* The fields of the leading dict; the optional ones are not written if Nil.
Fields ==
  LET hex == major(opts) >= 3
      wire == IF hex THEN HexOf(RawSession) ELSE RawSession
      salt == IF hex THEN "salt" ELSE Nil
      byPassword == ~Empty(opts.password)
  IN [version |-> <<major(opts), minor(opts)>>, salt |-> salt,
      digest |-> "md5",
      enc_key1 |-> IF byPassword
                   THEN [aes |-> WrapKey(opts.password, salt), of |-> wire]
                   ELSE Nil,
      key1_hash |-> IF byPassword THEN saltedDigest(opts.password) ELSE Nil,
      enc_key2 |-> IF opts.publicKey = Nil THEN Nil
                   ELSE [rsa |-> opts.publicKey, of |-> wire],
      session_key_hash |-> saltedDigest(wire),
      compress |-> IF compressOn(opts) THEN 1 ELSE 0, encrypt |-> 1,
      file_name |-> opts.filename]

Optional == {"salt", "enc_key1", "key1_hash", "enc_key2", "file_name"}

Only(dict, names) == [f \in DOMAIN dict \cap names |-> dict[f]]

\* A negative minor version has no encoding (writeIntBody).
Start ==
  /\ pc = "start"
  /\ IF minor(opts) < 0 THEN pc' = "refused" /\ UNCHANGED dicts
     ELSE /\ pc' = "written"
          /\ dicts' = <<Only(Fields, {f \in DOMAIN Fields :
                                   f \in Optional => Fields[f] # Nil})>>
  /\ UNCHANGED <<opts, meta, secret, sk, result>>

Cut(dict, names) ==
  [f \in DOMAIN dict |-> IF f \in names THEN ShortHash ELSE dict[f]]

\* Another writer of the format: digests left out or cut short, the fields in
\* two dicts.
OtherWriter ==
  /\ pc = "written"
  /\ \E omit \in Omitted, short \in Shortened, first \in First :
       LET all == Cut(Only(dicts[1], DOMAIN dicts[1] \ omit), short)
       IN dicts' = <<Only(all, first), Only(all, DOMAIN all \ first)>>
  /\ pc' = "sent"
  /\ UNCHANGED <<opts, meta, secret, sk, result>>

----------------------------------------------------------------------------
(* The reader.                                                             *)

\* Mutant: every dict starts from nothing.
AbsorbAnew(m, dict) ==
  [f \in DOMAIN m |-> IF f \in DOMAIN dict THEN dict[f] ELSE newMetadata[f]]

absorb(m, dict) ==
  [f \in DOMAIN m |-> IF f \in DOMAIN dict THEN dict[f] ELSE m[f]]

\* One metadata dict of Inspect, or of Decrypt up to the first data dict.
Absorb ==
  /\ pc \in {"written", "sent"} /\ dicts # <<>>
  /\ meta' = absorb(meta, Head(dicts)) /\ dicts' = Tail(dicts)
  /\ pc' = IF Len(dicts) = 1 THEN "inspected" ELSE "sent"
  /\ UNCHANGED <<opts, secret, sk, result>>

\* runDecrypt, or a caller of the library that loads its secrets likewise.
Supply(src, pem, passphrase) ==
  LET key == IF pem = Nil THEN Nil ELSE LoadRSAPrivateKey(pem, passphrase)
      refused == \/ key = Error("pem")
                 \/ loadPassword(src) = Nil /\ key = Nil
  IN /\ pc = "inspected"
     /\ pc' = IF refused THEN "refused" ELSE "unwrap"
     /\ secret' = IF refused THEN secret ELSE
          [password |-> loadPassword(src), privateKey |-> key,
           typed |-> src.typed]
     /\ UNCHANGED <<opts, dicts, meta, sk, result>>

Fail(e) == pc' = "failed" /\ result' = Error(e) /\ UNCHANGED sk
Unwrapped(k) == pc' = "verify" /\ sk' = k /\ UNCHANGED result
ByPassword == secret.password # Nil /\ meta.enc_key1 # Nil

UnwrapPassword ==
  /\ pc = "unwrap" /\ ByPassword
  /\ IF ~verifyKeyHash(meta.key1_hash, secret.password)
     THEN Fail("password hash")
     ELSE IF meta.enc_key1.aes = WrapKey(secret.password, meta.salt)
          THEN Unwrapped(meta.enc_key1.of)
          ELSE Fail("padding") \/ Unwrapped(Garbage)
  /\ UNCHANGED <<opts, dicts, meta, secret>>

UnwrapKey ==
  /\ pc = "unwrap" /\ ~ByPassword
  /\ CASE secret.privateKey = Nil \/ meta.enc_key2 = Nil -> Fail("no secret")
       [] OTHER -> IF meta.enc_key2.rsa = secret.privateKey
                   THEN Unwrapped(meta.enc_key2.of) ELSE Fail("oaep")
  /\ UNCHANGED <<opts, dicts, meta, secret>>

Opened(k) == pc' = "opened" /\ result' = DataKey(k) /\ UNCHANGED sk

\* session_key_hash, hex where there is a salt, and the key of the payload.
Verify ==
  /\ pc = "verify"
  /\ IF ~verifyKeyHash(meta.session_key_hash, sk) THEN Fail("session hash")
     ELSE IF meta.salt = Nil THEN Opened(sk)
     ELSE IF sk = Garbage THEN Fail("hex") \/ Opened(Garbage)
     ELSE IF "hex" \in DOMAIN sk THEN Opened(sk.hex) ELSE Fail("hex")
  /\ UNCHANGED <<opts, dicts, meta, secret>>

Done == pc \in {"refused", "failed", "opened"} /\ UNCHANGED vars

Next ==
  \/ \E src \in Sources, pem \in PublicPems \cup {Nil}, v \in Versions,
        c \in BOOLEAN : Flags(src, pem, v, c)
  \/ \E o \in Callers : Call(o)
  \/ NewWriter \/ Start \/ OtherWriter \/ Absorb
  \/ \E src \in Sources, pem \in PrivatePems \cup {Nil},
        pass \in {Nil, "pass", "other"} : Supply(src, pem, pass)
  \/ UnwrapPassword \/ UnwrapKey \/ Verify \/ Done

Spec == Init /\ [][Next]_vars

----------------------------------------------------------------------------
(* Properties.                                                             *)

\* Whatever secrets were tried, and whoever wrote the file: past a recorded
\* session key hash of ten characters or more, which is all that verifyKeyHash
\* compares, a key that recoverSessionKey returns is the one the payload was
\* encrypted with (decrypt.go:324-389, encrypt.go:262-274, 347).
KeyIsTheirs ==
  pc = "opened" /\ Checked(meta.session_key_hash) =>
    result = DataKey(RawSession)

\* Who holds the password, or supplies only the private key, gets in: for all
\* versions, for passwords typed or kept in a file with or without an end of
\* line, for keys in every kind of PEM file, with digests, without or with short
\* ones (README.md, "recovery paths"; decrypt.go:20-21: the password goes first).
HolderOpens ==
  pc = "failed" =>
    /\ ~Empty(opts.password) /\ secret.password # Nil =>
         secret.typed # opts.typed
    /\ secret.password = Nil \/ Empty(opts.password) =>
         opts.publicKey = Nil \/ secret.privateKey # opts.publicKey

\* What Inspect shows is what the writer was asked for: version, compression,
\* name and which recovery paths there are (encrypt.go:38-48, decrypt.go:249).
InspectShows ==
  pc = "inspected" =>
    /\ opts.major # 0 => meta.version = <<opts.major, opts.minor>>
    /\ opts.major = 0 /\ opts.minor = 0 => meta.version = <<3, 1>>
    /\ (meta.compress = 0) = (opts.compress = FALSE) /\ meta.encrypt = 1
    /\ meta.file_name = opts.filename
    /\ (meta.enc_key1 = Nil) = Empty(opts.password)
    /\ (meta.enc_key2 = Nil) = (opts.publicKey = Nil)
=============================================================================
