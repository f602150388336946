-------------------------------- MODULE Tool --------------------------------
(***************************************************************************)
(* The command line over a directory tree: which files a command finds,    *)
(* where it puts what it makes of them, and how it exits (main.go:76-353,  *)
(* batch.go:218-294), one process after the other, each of which may be    *)
(* killed.  Batch.tla has the counters, slots and times of one batch in    *)
(* detail; here a unit of work is taken, opened, and placed or failed.     *)
(*                                                                         *)
(* A path is a sequence of names, relative to one directory; an input is a *)
(* path and whether it is spelled with a "./" before it.  What a file      *)
(* holds is [plain |-> x], [enc |-> c] for an encryption of c, or a part   *)
(* of a file: Torn, which begins with the magic, and Scrap, which does     *)
(* not.  All files are encrypted and decrypted with the same secret.       *)
(***************************************************************************)
EXTENDS Integers, SequencesExt

CONSTANTS
  Nil,
  Names,     \* of files and directories
  Trees,     \* what the first command may meet: [files, locked]
  Commands,  \* [mode, inputs, o, outdir, recursive, skip]
  Workers,   \* -j, or the number of processors
  MaxRuns,   \* bound: processes, one after the other
  TempNames  \* the names CreateTemp draws from

Paths == Seq(Names)
Inputs == [path : Paths, dot : BOOLEAN]

ASSUME ToolAssumption ==
  /\ Workers \in Nat \ {0} /\ MaxRuns \in Nat
  /\ TempNames \subseteq Names
  /\ Cardinality(TempNames) >= Workers * MaxRuns
  /\ Nil \notin Commands /\ Nil \notin {0, 1, 2}
  /\ \A t \in Trees :
       /\ DOMAIN t.files \subseteq Paths
       /\ t.locked \subseteq Paths /\ IsFiniteSet(t.locked)
       /\ \A p, q \in DOMAIN t.files : ~IsStrictPrefix(p, q)
  /\ \A c \in Commands :
       /\ c.mode \in {"encrypt", "decrypt"} /\ c.inputs \in Seq(Inputs)
       /\ c.o = Nil \/ c.o \in Paths
       /\ c.outdir = Nil \/ c.outdir \in Paths

VARIABLES
  fs,      \* the contents of the files, by path
  locked,  \* files and directories this user may not read
  cmd,     \* the command that runs, Nil if none does
  jobs,    \* its units of work: [at, data, tmp], by [in, out]
  failed,  \* report.Failed
  log      \* the processes so far: [cmd, exit, before]: exit is Nil for those that
           \* run or were killed, before is the fs they began with

vars == <<fs, locked, cmd, jobs, failed, log>>

Torn == [part |-> "magic"]
Scrap == [part |-> "none"]
Encrypted(c) == "enc" \in DOMAIN c

----------------------------------------------------------------------------
(* Paths (path/filepath).                                                  *)

Spelled(p) == [path |-> p, dot |-> FALSE]
Clean(in) == in.path
Base(p) == IF p = <<>> THEN <<>> ELSE <<Last(p)>>
Rel(root, p) == SubSeq(p, Len(root) + 1, Len(p))

Stored(files, p, content) ==
  [q \in DOMAIN files \cup {p} |-> IF q = p THEN content ELSE files[q]]
IsDir(p) == p = <<>> \/ \E q \in DOMAIN fs : IsStrictPrefix(p, q)
Reaches(p) == \A d \in locked : ~IsStrictPrefix(d, p)
Readable(p) == Reaches(p) /\ p \notin locked

----------------------------------------------------------------------------
(* Discovery.                                                              *)

IsCsencFile(p) == Readable(p) /\ (Encrypted(fs[p]) \/ fs[p] = Torn)

\* Mutant: a filter for the encryption, too.
WantedCsenc(mode, p) == IsCsencFile(p)

\* The default filter of a decryption; an encryption has none.
Wanted(mode, p) == mode = "encrypt" \/ IsCsencFile(p)

Unit(in, out) == [in |-> in, out |-> out]

\* Mutant: the files of a walk all land in one directory.
WalkFlat(c, root) ==
  {Unit(Spelled(p), c.outdir \o (Base(root) \o <<Last(p)>>)) :
     p \in {q \in DOMAIN fs : /\ IsStrictPrefix(root, q) /\ Reaches(q)
                              /\ Wanted(c.mode, q)}}

Walk(c, root) ==
  {Unit(Spelled(p), c.outdir \o (Base(root) \o Rel(root, p))) :
     p \in {q \in DOMAIN fs : /\ IsStrictPrefix(root, q) /\ Reaches(q)
                              /\ Wanted(c.mode, q)}}

\* An input that is not there, or is a directory and not to be walked.
Turned(c, p) == \/ ~Reaches(p)
                \/ ~IsDir(p) /\ p \notin DOMAIN fs
                \/ IsDir(p) /\ ~c.recursive

\* What one input yields, and the paths it reports an error for: its own, or
\* those of the directories below it that cannot be listed.
Found(c, in) ==
  LET p == Clean(in)
  IN IF Turned(c, p) THEN {}
     ELSE IF IsDir(p) THEN Walk(c, p)
     ELSE {u \in {Unit(in, c.outdir \o Base(p))} : Wanted(c.mode, p)}
Missed(c, in) ==
  LET p == Clean(in)
  IN IF Turned(c, p) THEN {p}
     ELSE {d \in locked : IsPrefix(p, d) /\ IsDir(d) /\ Reaches(d)}

\* Mutant: files are told apart by their name alone.
SameName(u, v) == Base(Clean(u.in)) = Base(Clean(v.in))

\* A path that an earlier input has brought is not queued again.
Same(u, v) == u.in = v.in

discover(c) ==
  UNION {{u \in Found(c, c.inputs[i]) :
            \A j \in 1..i - 1 : \A v \in Found(c, c.inputs[j]) : ~Same(u, v)} :
         i \in DOMAIN c.inputs}
errors(c) ==
  Cardinality(UNION {{<<i, p>> : p \in Missed(c, c.inputs[i])} :
                     i \in DOMAIN c.inputs})

----------------------------------------------------------------------------
(* A process.                                                              *)

Init ==
  /\ \E t \in Trees : fs = t.files /\ locked = t.locked
  /\ cmd = Nil /\ jobs = <<>> /\ failed = 0 /\ log = <<>>

\* The usage errors of main.
Refused(c) ==
  \/ c.inputs = <<>>
  \/ c.o = Nil /\ c.outdir = Nil
  \/ c.o # Nil /\ (Len(c.inputs) # 1 \/ c.recursive)

Queued == [at |-> "queued", data |-> Nil, tmp |-> Nil]

\* -o goes straight to its file, everything else through a batch.
Invoke(c) ==
  /\ cmd = Nil /\ Len(log) < MaxRuns
  /\ IF Refused(c)
     THEN /\ log' = Append(log, [cmd |-> c, exit |-> 2, before |-> fs])
          /\ UNCHANGED <<cmd, jobs, failed>>
     ELSE /\ cmd' = c
          /\ jobs' = [u \in IF c.o # Nil THEN {Unit(c.inputs[1], c.o)}
                                          ELSE discover(c) |-> Queued]
          /\ failed' = IF c.o # Nil THEN 0 ELSE errors(c)
          /\ log' = Append(log, [cmd |-> c, exit |-> Nil, before |-> fs])
  /\ UNCHANGED <<fs, locked>>

At(u, where) == jobs[u].at = where
Move(u, where) ==
  jobs' = [jobs EXCEPT ![u] = [jobs[u] EXCEPT !.at = where]]

\* Mutant: a skipped unit keeps its slot.
BusyWithSkipped == {u \in DOMAIN jobs :
  ~At(u, "queued") /\ (At(u, "done") => jobs[u].data = Nil)}

Busy == {u \in DOMAIN jobs : At(u, "taken") \/ At(u, "open")}

\* Mutant: existing outputs are made again.
SkipsNever(u) == FALSE

Skips(u) == cmd.skip /\ cmd.o = Nil /\ u.out \in DOMAIN fs

Take(u) ==
  /\ At(u, "queued") /\ Cardinality(Busy) < Workers
  /\ Move(u, IF Skips(u) THEN "done" ELSE "taken")
  /\ UNCHANGED <<fs, locked, cmd, failed, log>>

\* A free name, whose random number hits no target of the run either.
Temps(dir) ==
  {p \in {Append(dir, t) : t \in TempNames} :
     p \notin DOMAIN fs \cup {u.out : u \in DOMAIN jobs} /\ ~IsDir(p)}
CreateTemp(dir) == CHOOSE p \in Temps(dir) : TRUE

\* The source is open, and the temporary file holds what a kill would leave:
\* plaintext, or the beginning of a stream.
Open(u) ==
  LET in == Clean(u.in)
      tmp == CreateTemp(Front(u.out))
  IN /\ At(u, "taken")
     /\ in \in DOMAIN fs /\ Readable(in)
     /\ \A q \in DOMAIN fs : ~IsPrefix(q, Front(u.out))
     /\ Temps(Front(u.out)) # {}
     /\ \E left \in IF cmd.mode = "encrypt" THEN {Torn, Scrap} ELSE {Scrap} :
          fs' = Stored(fs, tmp, left)
     /\ jobs' = [jobs EXCEPT ![u] =
                   [at |-> "open", data |-> fs[in], tmp |-> tmp]]
     /\ UNCHANGED <<locked, cmd, failed, log>>

\* What becomes of a content, for a content that is accepted.
Accepts(mode, c) == mode = "encrypt" \/ Encrypted(c)
Made(mode, c) == IF mode = "encrypt" THEN [enc |-> c] ELSE c.enc

\* Mutant: the temporary file stays.
RemovedNot(files, tmp) == files

Removed(files, tmp) == Restrict(files, DOMAIN files \ {tmp})

\* The temporary file is complete and renamed: who made it may read it.
Place(u) ==
  /\ At(u, "open") /\ Accepts(cmd.mode, jobs[u].data) /\ ~IsDir(u.out)
  /\ fs' = Stored(Restrict(fs, DOMAIN fs \ {jobs[u].tmp}), u.out,
                  Made(cmd.mode, jobs[u].data))
  /\ locked' = locked \ {u.out}
  /\ Move(u, "done")
  /\ UNCHANGED <<cmd, failed, log>>

\* Opening, reading, writing or renaming fails, whenever it may.
Fail(u) ==
  /\ At(u, "taken") \/ At(u, "open")
  /\ fs' = IF At(u, "open") THEN Removed(fs, jobs[u].tmp) ELSE fs
  /\ Move(u, "done")
  /\ failed' = failed + 1
  /\ UNCHANGED <<locked, cmd, log>>

Exit(code) ==
  /\ log' = [log EXCEPT ![Len(log)].exit = code]
  /\ cmd' = Nil /\ jobs' = <<>> /\ failed' = 0
  /\ UNCHANGED <<fs, locked>>

End ==
  /\ cmd # Nil /\ \A u \in DOMAIN jobs : At(u, "done")
  /\ Exit(IF failed > 0 THEN 1 ELSE 0)

Killed == cmd # Nil /\ Exit(Nil)

Over == cmd = Nil /\ Len(log) = MaxRuns /\ UNCHANGED vars

Work == \/ \E u \in DOMAIN jobs : Take(u) \/ Open(u) \/ Place(u) \/ Fail(u)
        \/ End
Next == Work \/ (\E c \in Commands : Invoke(c)) \/ Killed \/ Over

\* Goroutines are scheduled, and files answer.
Spec == Init /\ [][Next]_vars /\ WF_vars(Work)

----------------------------------------------------------------------------
(* Properties, stated from the tree as it was and not from the units.      *)

\* Where a file may go that an input names or contains.
Ways(c, p) ==
  {in \in ToSet(c.inputs) :
     \/ p = Clean(in)
     \/ c.recursive /\ IsStrictPrefix(Clean(in), p)}
Targets(c, p) ==
  {IF c.o # Nil THEN c.o
   ELSE c.outdir \o (Base(Clean(in)) \o Rel(Clean(in), p)) : in \in Ways(c, p)}

\* Outputs that are apart from the inputs.
Apart(c) == c.o = Nil /\ \A in \in ToSet(c.inputs) :
  ~IsPrefix(c.outdir, Clean(in)) /\ ~IsPrefix(Clean(in), c.outdir)

\* The last process, when it has ended with one of these exits.
Ended(exits) ==
  cmd = Nil /\ log # <<>> /\ Last(log).exit \in exits /\ Apart(Last(log).cmd)

\* Makes the content of t, if the command does, from one of its sources.
IsOutput(run, t) ==
  \E q \in DOMAIN run.before :
    /\ t \in Targets(run.cmd, q) /\ Accepts(run.cmd.mode, run.before[q])
    /\ fs[t] = Made(run.cmd.mode, run.before[q])

\* Exit 0 says that every input was there and every directory listed, and that
\* every file the command was to find has an output, made of it (or of another
\* one with the same target) in this run or, with -skip-existing, there before
\* and whole: also after runs that failed or were killed (main.go:135-138,
\* 180-184; batch.go:21-23, 37-38; README.md, batch mode).
ExitTells ==
  Ended({0}) =>
    LET run == Last(log)
        files == {p \in DOMAIN run.before : Ways(run.cmd, p) # {}}
    IN /\ \A in \in ToSet(run.cmd.inputs) :
            \E p \in files : in \in Ways(run.cmd, p)
       /\ \A p \in files : Reaches(p)
       /\ \A p \in files :
            /\ Readable(p)
            /\ run.cmd.mode = "encrypt" \/ Encrypted(run.before[p])
            => \E t \in Targets(run.cmd, p) \cap DOMAIN fs :
                 \/ IsOutput(run, t)
                 \/ /\ run.cmd.skip /\ t \in DOMAIN run.before
                    /\ fs[t] \notin {Torn, Scrap}

\* A process that ends, with whatever failures, has changed nothing but
\* targets, which hold whole outputs: no litter, no source, no target of a unit
\* that failed (file.go:50-53, encrypt.go:98-99).
OnlyOutputs ==
  Ended({0, 1}) =>
    /\ DOMAIN Last(log).before \subseteq DOMAIN fs
    /\ \A p \in DOMAIN fs :
         \/ p \in DOMAIN Last(log).before /\ fs[p] = Last(log).before[p]
         \/ IsOutput(Last(log), p)

\* Targets of no other file.
Lone(e, p) ==
  \A q \in DOMAIN e.before : q # p => Targets(e.cmd, p) \cap Targets(e.cmd, q) = {}

\* The same command as e, with or without -skip-existing, or one that writes
\* neither to the sources of e nor to its outputs.
Spares(c, p) ==
  \/ Refused(c)
  \/ IF c.o # Nil THEN ~IsPrefix(p, c.o)
                  ELSE ~IsPrefix(p, c.outdir) /\ ~IsPrefix(c.outdir, p)
Harmless(c, e) ==
  \/ /\ c.mode = e.mode /\ c.inputs = e.inputs /\ c.o = e.o
     /\ c.outdir = e.outdir /\ c.recursive = e.recursive
  \/ /\ Spares(c, e.outdir)
     /\ \A in \in ToSet(e.inputs) : Spares(c, Clean(in))

Encryption(e) ==
  e.exit = 0 /\ e.cmd.mode = "encrypt" /\ ~e.cmd.skip /\ Apart(e.cmd)

\* Decrypts the tree that e has made, all of it.
Decryption(d, e) ==
  /\ d.cmd.mode = "decrypt" /\ d.cmd.recursive /\ ~d.cmd.skip
  /\ d.cmd.inputs = <<Spelled(e.cmd.outdir)>>

\* What e has read at p, and encrypted, is where d puts the decryption of it.
Back(e, d, p) ==
  {d.cmd.outdir \o (Base(e.cmd.outdir) \o Rel(e.cmd.outdir, t)) :
     t \in Targets(e.cmd, p)}
Returned(e, d, p) ==
  Back(e, d, p) # {} /\ Lone(e, p)
  => \E t \in Back(e, d, p) : t \in DOMAIN fs /\ fs[t] = e.before[p]

\* A tree that was encrypted with success, and is then decrypted with success,
\* comes back, whatever it held and whatever was killed or failed between,
\* the same encryption among it: all but files that share a target
\* (file.go:50-53, encrypt.go:98-99).
RoundTrip ==
  Ended({0}) =>
    \A i \in DOMAIN log :
      /\ Encryption(log[i]) /\ Decryption(Last(log), log[i])
      /\ \A j \in i + 1..Len(log) - 1 : Harmless(log[j].cmd, log[i].cmd)
      => \A p \in DOMAIN log[i].before : Returned(log[i], Last(log), p)

\* The same command with -skip-existing after an exit 0 touches nothing
\* (README.md: reruns are idempotent).
RerunChangesNothing ==
  [][LET n == Len(log)
     IN cmd # Nil /\ cmd.skip /\ Apart(cmd) /\ n > 1
        /\ log[n - 1].cmd = cmd /\ log[n - 1].exit = 0
        => fs' = fs]_vars

\* A process ends: no slot is lost to a unit that was skipped or has failed.
RunEnds == cmd # Nil ~> cmd = Nil
=============================================================================
