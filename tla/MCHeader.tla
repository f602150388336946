------------------------------ MODULE MCHeader ------------------------------
(* An instance of Header: two passwords and the empty one, two key pairs,    *)
(* every kind of PEM file, versions good and bad.                            *)
EXTENDS Header

MCPasswords == {<<>>, <<"p">>, <<"q">>}
Pem(type, rsa, pass, key) ==
  [type |-> type, rsa |-> rsa, passphrase |-> pass, key |-> [pair |-> key]]
MCPublicPems == {Pem("PUBLIC KEY", TRUE, Nil, 1),
                 Pem("RSA PUBLIC KEY", TRUE, Nil, 1),
                 Pem("PUBLIC KEY", FALSE, Nil, 1)}
MCPrivatePems == {Pem("RSA PRIVATE KEY", TRUE, "pass", 1),
                  Pem("PRIVATE KEY", TRUE, Nil, 1),
                  Pem("RSA PRIVATE KEY", TRUE, Nil, 2),
                  Pem("EC PRIVATE KEY", FALSE, Nil, 1)}
MCVersions == {<<3, 1>>, <<3, 0>>, <<1, 0>>, <<3, -1>>, <<2, 0>>, <<3>>,
               <<Nil, 1>>}
Options(p, k, maj, min) ==
  [password |-> p, publicKey |-> k, major |-> maj, minor |-> min,
   compress |-> Nil, filename |-> Nil,
   typed |-> IF p = Nil THEN <<>> ELSE p]
MCCallers == {Options(<<"p">>, Nil, 0, 0), Options(<<"p">>, Nil, 0, 5),
              Options(<<>>, [pair |-> 1], 0, 0), Options(Nil, Nil, 0, 0),
              Options(<<"q">>, [pair |-> 2], 1, 2),
              Options(<<"p">>, Nil, 2, 0)}
MCOmitted == {{}, {"key1_hash"}, {"key1_hash", "session_key_hash"}}
MCShortened == {{}, {"session_key_hash"}, {"key1_hash", "session_key_hash"}}
MCFirst == {{"version", "salt", "enc_key1"}, {"enc_key2", "compress"}}
=============================================================================
