------------------------------- MODULE MCTool -------------------------------
(* Trees and commands for Tool: a tree to encrypt that holds a stream already *)
(* and its decryption; the same with a directory that cannot be listed; one   *)
(* where the output of an encryption is there and cannot be read; one to      *)
(* decrypt with a stream that cannot be read and an output that is there, by  *)
(* inputs that overlap, are missing or are spelled in two ways; a single      *)
(* file, and a command that is refused.                                       *)
EXTENDS Tool

X == [plain |-> "x"]
Y == [plain |-> "y"]
Df == <<"d", "f">>
Dsf == <<"d", "s", "f">>
Bf == <<"b", "f">>
Bsf == <<"b", "s", "f">>
Btf == <<"b", "t", "f">>
MCNames == {"b", "d", "e", "f", "none", "p", "q", "s", "t",
            "t1", "t2", "t3", "t4", "t5", "t6"}
MCTrees ==
  {[files |-> (Df :> X) @@ (Dsf :> [enc |-> Y]), locked |-> l] :
     l \in {{}, {<<"d", "s">>}}}
  \cup {[files |-> (Df :> X) @@ (<<"e", "d", "f">> :> Y),
         locked |-> {<<"e", "d", "f">>}]}
  \cup {[files |-> (Bf :> [enc |-> X]) @@ (Bsf :> [enc |-> Y])
                     @@ (Btf :> [enc |-> X]) @@ (<<"p", "f">> :> X),
         locked |-> {Btf}]}

Command(mode, inputs, outdir, recursive, skip) ==
  [mode |-> mode, inputs |-> inputs, o |-> Nil, outdir |-> outdir,
   recursive |-> recursive, skip |-> skip]
MCCommands ==
  {Command("encrypt", <<Spelled(<<"d">>)>>, <<"e">>, TRUE, skip) : skip \in BOOLEAN}
  \cup {Command("decrypt", <<Spelled(<<"e">>)>>, <<"p">>, TRUE, FALSE),
        Command("decrypt", <<Spelled(Bsf), Spelled(<<"b">>)>>, <<"p">>, TRUE, TRUE),
        Command("decrypt", <<Spelled(<<"none">>), Spelled(Bf), Spelled(Bsf),
                  [path |-> Bf, dot |-> TRUE], Spelled(<<"b">>)>>, <<"p">>, FALSE, TRUE),
        Command("decrypt", <<Spelled(Bf)>>, Nil, FALSE, FALSE),
        [Command("decrypt", <<Spelled(Dsf)>>, Nil, FALSE, FALSE) EXCEPT !.o = <<"q">>]}
MCTempNames == {"t1", "t2", "t3", "t4", "t5", "t6"}
=============================================================================
