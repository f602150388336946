----------------------------- MODULE ToolProofs -----------------------------
(***************************************************************************)
(* Proofs about Tool: what a process may leave in the file system, for     *)
(* every tree, every command, any number of processes and of workers.      *)
(***************************************************************************)
EXTENDS Tool, SequenceTheorems, TLAPS

----------------------------------------------------------------------------
(* Paths.                                                                  *)

(* What a prefix is, name by name.                                         *)
LEMMA PrefixMeans ==
  ASSUME NEW a \in Paths, NEW b \in Paths
  PROVE  IsPrefix(a, b) <=> /\ Len(a) <= Len(b)
                            /\ \A i \in 1..Len(a) : a[i] = b[i]
  <1> USE DEF Paths
  <1>1. Len(a) \in Nat /\ Len(b) \in Nat BY LenProperties
  <1>2. /\ SubSeq(a, 1, Len(a)) \in Paths /\ Len(SubSeq(a, 1, Len(a))) = Len(a)
        /\ \A i \in 1..Len(a) : SubSeq(a, 1, Len(a))[i] = a[i]
    BY <1>1, SubSeqFull
  <1>3. ASSUME Len(a) <= Len(b)
        PROVE  /\ SubSeq(b, 1, Len(a)) \in Paths
               /\ Len(SubSeq(b, 1, Len(a))) = Len(a)
               /\ \A i \in 1..Len(a) : SubSeq(b, 1, Len(a))[i] = b[i]
    <2>1. \A i \in 1..Len(a) : b[i] \in Names BY <1>1, <1>3, ElementOfSeq
    <2> QED BY <1>1, <1>3, <2>1, SubSeqProperties
  <1>4. CASE Len(a) <= Len(b)
    <2> DEFINE s == SubSeq(a, 1, Len(a))
               t == SubSeq(b, 1, Len(a))
    <2>1. /\ s \in Paths /\ t \in Paths /\ Len(s) = Len(a) /\ Len(t) = Len(a)
          /\ \A i \in 1..Len(a) : s[i] = a[i] /\ t[i] = b[i]
      BY <1>2, <1>3, <1>4
    <2>2. IsPrefix(a, b) <=> s = t BY <1>4 DEF IsPrefix
    <2> HIDE DEF s, t
    <2>3. s = t <=> \A i \in 1..Len(a) : s[i] = t[i] BY <2>1, SeqEqual
    <2> QED BY <1>4, <2>1, <2>2, <2>3
  <1>5. CASE ~(Len(a) <= Len(b)) BY <1>5 DEF IsPrefix
  <1> QED BY <1>4, <1>5

(* Two prefixes of one path: one is a prefix of the other.                 *)
LEMMA Comparable ==
  ASSUME NEW a \in Paths, NEW b \in Paths, NEW x \in Paths,
         IsPrefix(a, x), IsPrefix(b, x)
  PROVE  IsPrefix(a, b) \/ IsPrefix(b, a)
  <1>1. Len(a) \in Nat /\ Len(b) \in Nat BY LenProperties DEF Paths
  <1>2. \A i \in 1..Len(a) : a[i] = x[i] BY PrefixMeans
  <1>3. \A i \in 1..Len(b) : b[i] = x[i] BY PrefixMeans
  <1>4. CASE Len(a) <= Len(b) BY <1>1, <1>2, <1>3, <1>4, PrefixMeans
  <1>5. CASE Len(b) <= Len(a) BY <1>1, <1>2, <1>3, <1>5, PrefixMeans
  <1> QED BY <1>1, <1>4, <1>5

(* A path below a directory begins with it.                                *)
LEMMA Below ==
  ASSUME NEW a \in Paths, NEW r \in Paths
  PROVE  a \o r \in Paths /\ IsPrefix(a, a \o r)
  <1>1. /\ a \o r \in Paths /\ Len(a \o r) = Len(a) + Len(r)
        /\ Len(a) \in Nat /\ Len(r) \in Nat
        /\ \A i \in 1..Len(a) : (a \o r)[i] = a[i]
    BY ConcatProperties, LenProperties DEF Paths
  <1>2. Len(a) <= Len(a \o r) BY <1>1
  <1> QED BY <1>1, <1>2, PrefixMeans

(* So does a file beside it, such as a temporary one.                      *)
LEMMA Beside ==
  ASSUME NEW a \in Paths, NEW r \in Paths, r # <<>>, NEW t \in Names
  PROVE  /\ Append(Front(a \o r), t) \in Paths
         /\ IsPrefix(a, Append(Front(a \o r), t))
  <1> DEFINE out == a \o r
  <1>1. /\ out \in Paths /\ Len(out) = Len(a) + Len(r)
        /\ Len(a) \in Nat /\ Len(r) \in Nat
        /\ \A i \in 1..Len(a) : out[i] = a[i]
    BY ConcatProperties, LenProperties DEF Paths
  <1>2. Len(r) # 0 BY EmptySeq DEF Paths
  <1> HIDE DEF out
  <1> DEFINE f == SubSeq(out, 1, Len(out) - 1)
  <1>3. /\ f \in Paths /\ Len(f) = Len(out) - 1
        /\ \A i \in 1..Len(out) - 1 : f[i] = out[i]
    <2>1. \A i \in 1..Len(out) - 1 : out[i] \in Names
      BY <1>1, <1>2, ElementOfSeq DEF Paths
    <2> QED BY <1>1, <1>2, <2>1, SubSeqProperties DEF Paths
  <1> HIDE DEF f
  <1>4. /\ Append(f, t) \in Paths /\ Len(Append(f, t)) = Len(out)
        /\ \A i \in 1..Len(out) - 1 : Append(f, t)[i] = f[i]
    BY <1>1, <1>2, <1>3, AppendProperties DEF Paths
  <1>5. IsPrefix(a, Append(f, t))
    <2>1. Len(a) <= Len(Append(f, t)) BY <1>1, <1>2, <1>4
    <2>2. \A i \in 1..Len(a) : Append(f, t)[i] = a[i]
      BY <1>1, <1>2, <1>3, <1>4
    <2> QED BY <1>4, <2>1, <2>2, PrefixMeans
  <1>6. Front(a \o r) = f BY DEF f, out, Front
  <1> QED BY <1>4, <1>5, <1>6

----------------------------------------------------------------------------
(* Discovery.                                                              *)

(* Commands that go through a batch.                                       *)
Batched(c) == c \in Commands /\ ~Refused(c) /\ c.o = Nil

(* Such a command has inputs and an output directory.                      *)
LEMMA BatchedMeans ==
  ASSUME NEW c, Batched(c)
  PROVE  /\ c.outdir \in Paths
         /\ \A in \in ToSet(c.inputs) : in \in Inputs /\ Clean(in) \in Paths
         /\ \A i \in DOMAIN c.inputs : c.inputs[i] \in ToSet(c.inputs)
  <1>1. c.outdir \in Paths /\ c.inputs \in Seq(Inputs)
    BY ToolAssumption DEF Batched, Refused
  <1>2. \A i \in DOMAIN c.inputs : c.inputs[i] \in Inputs
    BY <1>1, LenProperties, ElementOfSeq
  <1> QED BY <1>1, <1>2 DEF ToSet, Inputs, Clean

(* The last name of a path is a path.                                      *)
LEMMA BaseType ==
  ASSUME NEW p \in Paths
  PROVE  Base(p) \in Paths /\ (p # <<>> => Base(p) # <<>>)
  <1>1. CASE p = <<>> BY <1>1 DEF Base
  <1>2. CASE p # <<>>
    <2>1. p[Len(p)] \in Names
      BY <1>2, LenProperties, EmptySeq, ElementOfSeq DEF Paths
    <2> QED BY <1>2, <2>1 DEF Base, Last, Paths
  <1> QED BY <1>1, <1>2

(* What is below a directory, as seen from there.                          *)
LEMMA RelType ==
  ASSUME NEW a \in Paths, NEW p \in Paths
  PROVE  /\ Rel(a, p) \in Paths
         /\ Rel(<<>>, p) = p
         /\ Rel(p, p) = <<>>
  <1>1. Len(a) \in Nat /\ Len(p) \in Nat BY LenProperties DEF Paths
  <1>2. \A i \in Len(a) + 1..Len(p) : p[i] \in Names
    BY <1>1, ElementOfSeq DEF Paths
  <1>3. SubSeq(p, Len(a) + 1, Len(p)) \in Paths
    BY <1>1, <1>2, SubSeqProperties DEF Paths
  <1>4. SubSeq(p, Len(p) + 1, Len(p)) = <<>> BY <1>1, SubSeqEmpty DEF Paths
  <1>5. Len(<<>>) = 0 OBVIOUS
  <1>6. SubSeq(p, 1, Len(p)) = p BY SubSeqFull DEF Paths
  <1> QED BY <1>3, <1>4, <1>5, <1>6 DEF Rel

(* A target is below the output directory, and its source below an input.  *)
LEMMA TargetsMeans ==
  ASSUME NEW c, Batched(c), NEW p \in Paths, NEW t \in Targets(c, p)
  PROVE  /\ \E r \in Paths : t = c.outdir \o r /\ (p # <<>> => r # <<>>)
         /\ \E in \in ToSet(c.inputs) : IsPrefix(Clean(in), p)
  <1>1. PICK in \in Ways(c, p) :
          t = c.outdir \o (Base(Clean(in)) \o Rel(Clean(in), p))
    BY DEF Targets, Batched
  <1>2. in \in ToSet(c.inputs) /\ Clean(in) \in Paths /\ IsPrefix(Clean(in), p)
    <2>1. in \in ToSet(c.inputs) /\ Clean(in) \in Paths
      BY BatchedMeans DEF Ways
    <2>2. CASE p = Clean(in)
      <3>1. Len(p) <= Len(p) BY LenProperties DEF Paths
      <3> QED BY <2>1, <2>2, <3>1, PrefixMeans
    <2>3. CASE IsStrictPrefix(Clean(in), p) BY <2>1, <2>3 DEF IsStrictPrefix
    <2> QED BY <2>1, <2>2, <2>3 DEF Ways
  <1> DEFINE b == Base(Clean(in))
             q == Rel(Clean(in), p)
  <1>3. b \in Paths /\ q \in Paths BY <1>2, BaseType, RelType
  <1>4. p # <<>> => b # <<>> \/ q # <<>>
    <2>1. CASE Clean(in) = <<>> BY <2>1, RelType
    <2>2. CASE Clean(in) # <<>> BY <1>2, <2>2, BaseType
    <2> QED BY <2>1, <2>2
  <1> HIDE DEF b, q
  <1>5. b \o q \in Paths /\ (b # <<>> \/ q # <<>> => b \o q # <<>>)
    <2>1. /\ b \o q \in Paths /\ Len(b \o q) = Len(b) + Len(q)
          /\ Len(b) \in Nat /\ Len(q) \in Nat
      BY <1>3, ConcatProperties, LenProperties DEF Paths
    <2>2. (b # <<>> => Len(b) # 0) /\ (q # <<>> => Len(q) # 0)
      BY <1>3, EmptySeq DEF Paths
    <2> QED BY <2>1, <2>2, EmptySeq
  <1>6. t = c.outdir \o (b \o q) BY <1>1 DEF b, q
  <1> QED BY <1>2, <1>4, <1>5, <1>6

(* A unit of work goes to a target of its source.                          *)
LEMMA DiscoverMeans ==
  ASSUME NEW c, Batched(c), DOMAIN fs \subseteq Paths, NEW u \in discover(c)
  PROVE  /\ Clean(u.in) \in Paths \ {<<>>}
         /\ u.out \in Targets(c, Clean(u.in))
  <1>1. PICK i \in DOMAIN c.inputs : u \in Found(c, c.inputs[i])
    BY DEF discover
  <1> DEFINE in == c.inputs[i]
             p == Clean(in)
  <1>2. in \in ToSet(c.inputs) /\ p \in Paths BY BatchedMeans
  <1>3. ~Turned(c, p) BY <1>1 DEF Found
  <1>4. CASE IsDir(p)
    <2>1. c.recursive BY <1>3, <1>4 DEF Turned
    <2>2. u \in Walk(c, p) BY <1>1, <1>3, <1>4 DEF Found
    <2>3. PICK q \in DOMAIN fs :
            /\ IsStrictPrefix(p, q)
            /\ u = Unit(Spelled(q), c.outdir \o (Base(p) \o Rel(p, q)))
      BY <2>2 DEF Walk
    <2>4. Clean(u.in) = q /\ u.out = c.outdir \o (Base(p) \o Rel(p, q))
      BY <2>3 DEF Unit, Spelled, Clean
    <2>5. q \in Paths /\ q # <<>>
      <3>1. q \in Paths OBVIOUS
      <3>2. IsPrefix(p, q) /\ p # q BY <2>3 DEF IsStrictPrefix
      <3>3. Len(p) <= Len(q) BY <1>2, <3>1, <3>2, PrefixMeans
      <3>4. q = <<>> => p = <<>>
        BY <1>2, <3>3, LenProperties, EmptySeq DEF Paths
      <3> QED BY <3>1, <3>2, <3>4
    <2>6. in \in Ways(c, q) BY <1>2, <2>1, <2>3 DEF Ways
    <2> QED BY <2>4, <2>5, <2>6 DEF Targets, Batched
  <1>5. CASE ~IsDir(p)
    <2>1. u = Unit(in, c.outdir \o Base(p)) BY <1>1, <1>3, <1>5 DEF Found
    <2>2. p # <<>> BY <1>5 DEF IsDir
    <2>3. Clean(u.in) = p /\ u.out = c.outdir \o Base(p) BY <2>1 DEF Unit
    <2>4. in \in Ways(c, p) BY <1>2 DEF Ways
    <2>5. Base(p) \o Rel(p, p) = Base(p)
      <3>1. Base(p) \in Paths /\ Rel(p, p) = <<>>
        BY <1>2, BaseType, RelType
      <3> QED BY <3>1, ConcatEmptySeq DEF Paths
    <2> QED BY <1>2, <2>2, <2>3, <2>4, <2>5 DEF Targets, Batched
  <1> QED BY <1>4, <1>5

----------------------------------------------------------------------------
(* The inductive invariant.                                                *)

Job(at, data, tmp) == [at |-> at, data |-> data, tmp |-> tmp]

(* The paths there are, and the process that runs.                         *)
Typed ==
  /\ DOMAIN fs \subseteq Paths
  /\ log # <<>> => DOMAIN Last(log).before \subseteq Paths
  /\ cmd # Nil => /\ log # <<>> /\ Last(log).cmd = cmd
                  /\ cmd \in Commands /\ ~Refused(cmd)
  /\ cmd = Nil => DOMAIN jobs = {}
  /\ jobs = [u \in DOMAIN jobs |-> jobs[u]]
  /\ \A u \in DOMAIN jobs :
       /\ Clean(u.in) \in Paths /\ u.out \in Paths
       /\ jobs[u] = Job(jobs[u].at, jobs[u].data, jobs[u].tmp)

(* log is a sequence.                                                      *)
Entries(B0) ==
  [cmd : Commands, exit : {Nil, 0, 1, 2}, before : B0]
Logged == \E S : log \in Seq(Entries(S))

(* Every unit goes to a target of its source.                              *)
Aimed ==
  \A u \in DOMAIN jobs :
    Clean(u.in) # <<>> /\ u.out \in Targets(cmd, Clean(u.in))

(* The tree is as the process met it, but for outputs and the temporary    *)
(* files of the units that are open.                                       *)
Kept ==
  /\ DOMAIN Last(log).before \subseteq DOMAIN fs
  /\ \A p \in DOMAIN fs :
       \/ p \in DOMAIN Last(log).before /\ fs[p] = Last(log).before[p]
       \/ IsOutput(Last(log), p)
       \/ \E u \in DOMAIN jobs : At(u, "open") /\ jobs[u].tmp = p

(* An open unit has read its source as the process met it, and its         *)
(* temporary file is new and apart from the inputs.                        *)
Opened ==
  \A u \in DOMAIN jobs : At(u, "open") =>
    /\ Clean(u.in) \in DOMAIN Last(log).before
    /\ jobs[u].data = Last(log).before[Clean(u.in)]
    /\ jobs[u].tmp \notin DOMAIN Last(log).before
    /\ IsPrefix(cmd.outdir, jobs[u].tmp)

Working == cmd # Nil /\ Apart(cmd) => Aimed /\ Kept /\ Opened

IInv == Typed /\ Logged /\ Working /\ OnlyOutputs

(* One more process in the log.                                            *)
LEMMA LogAppend ==
  ASSUME Logged, NEW c \in Commands, NEW x \in {Nil, 0, 1, 2},
         log' = Append(log, [cmd |-> c, exit |-> x, before |-> fs])
  PROVE  /\ Logged' /\ log' # <<>>
         /\ Last(log') = [cmd |-> c, exit |-> x, before |-> fs]
  <1> DEFINE e == [cmd |-> c, exit |-> x, before |-> fs]
  <1>1. PICK S : log \in Seq(Entries(S)) BY DEF Logged
  <1>2. log \in Seq(Entries(S \cup {fs}))
    <2>1. Entries(S) \subseteq Entries(S \cup {fs}) BY DEF Entries
    <2> QED BY <1>1, <2>1, SeqMonotonic
  <1>3. e \in Entries(S \cup {fs}) BY DEF Entries
  <1> HIDE DEF e
  <1>4. /\ log' \in Seq(Entries(S \cup {fs}))
        /\ Len(log') = Len(log) + 1 /\ log'[Len(log) + 1] = e
        /\ Len(log) \in Nat
    <2>1. log' = Append(log, e) BY DEF e
    <2> QED BY <1>2, <1>3, <2>1, AppendProperties, LenProperties
  <1>5. log' # <<>> BY <1>4, EmptySeq
  <1>6. Last(log') = e BY <1>4 DEF Last
  <1> QED BY <1>4, <1>5, <1>6 DEF e, Logged

(* The last process in the log is over.                                    *)
LEMMA LogExit ==
  ASSUME Logged, log # <<>>, NEW x \in {Nil, 0, 1, 2}, Exit(x)
  PROVE  /\ Logged' /\ log' # <<>>
         /\ Last(log').cmd = Last(log).cmd /\ Last(log').exit = x
         /\ Last(log').before = Last(log).before
  <1>1. PICK S : log \in Seq(Entries(S)) BY DEF Logged
  <1> DEFINE n == Len(log)
             e == [log[n] EXCEPT !.exit = x]
  <1>2. n \in Nat \ {0} /\ log[n] \in Entries(S)
    BY <1>1, LenProperties, EmptySeq, ElementOfSeq
  <1>3. /\ e \in Entries(S) /\ e.exit = x /\ e.cmd = log[n].cmd
        /\ e.before = log[n].before
    BY <1>2 DEF Entries
  <1>4. log' = [log EXCEPT ![n] = e] BY DEF Exit
  <1> HIDE DEF e
  <1>5. log' \in Seq(Entries(S)) /\ Len(log') = n /\ log'[n] = e
    BY <1>1, <1>2, <1>3, <1>4, ExceptSeq
  <1>6. log' # <<>> BY <1>2, <1>5, EmptySeq
  <1>7. Last(log') = e BY <1>5 DEF Last
  <1> QED BY <1>3, <1>5, <1>6, <1>7 DEF Logged, Last

(* A unit moves on, and nothing else changes in the units.                 *)
LEMMA Moved ==
  ASSUME Typed, NEW u \in DOMAIN jobs, NEW w, Move(u, w)
  PROVE  /\ DOMAIN jobs' = DOMAIN jobs
         /\ jobs' = [v \in DOMAIN jobs' |-> jobs'[v]]
         /\ jobs'[u] = Job(w, jobs[u].data, jobs[u].tmp)
         /\ \A v \in DOMAIN jobs : v # u => jobs'[v] = jobs[v]
  <1> DEFINE e == [jobs[u] EXCEPT !.at = w]
  <1>1. e = Job(w, jobs[u].data, jobs[u].tmp) BY DEF Typed, Job
  <1>2. jobs' = [jobs EXCEPT ![u] = e] BY DEF Move
  <1> HIDE DEF e
  <1> QED BY <1>1, <1>2 DEF Typed

(* While units are open, the sources are still as the process met them.    *)
LEMMA SourceKept ==
  ASSUME Typed, Aimed, Kept, Opened, cmd # Nil, Apart(cmd),
         NEW u \in DOMAIN jobs, Clean(u.in) \in DOMAIN fs
  PROVE  /\ Clean(u.in) \in DOMAIN Last(log).before
         /\ fs[Clean(u.in)] = Last(log).before[Clean(u.in)]
  <1> DEFINE p == Clean(u.in)
  <1>1. Batched(cmd) BY DEF Typed, Batched, Apart
  <1>2. p \in Paths /\ Last(log).cmd = cmd /\ cmd.outdir \in Paths
    BY <1>1, BatchedMeans DEF Typed
  <1>3. PICK in \in ToSet(cmd.inputs) : IsPrefix(Clean(in), p)
    BY <1>1, <1>2, TargetsMeans DEF Aimed
  <1>4. ~IsPrefix(cmd.outdir, p)
    <2>1. Clean(in) \in Paths BY <1>1, <1>3, BatchedMeans
    <2>2. ~IsPrefix(cmd.outdir, Clean(in)) /\ ~IsPrefix(Clean(in), cmd.outdir)
      BY <1>3 DEF Apart
    <2> QED BY <1>2, <1>3, <2>1, <2>2, Comparable
  <1>5. ~IsOutput(Last(log), p)
    <2>1. SUFFICES ASSUME NEW q \in DOMAIN Last(log).before,
                          p \in Targets(cmd, q)
                   PROVE  FALSE
      BY <1>2 DEF IsOutput
    <2>2. q \in Paths BY DEF Typed
    <2>3. PICK r \in Paths : p = cmd.outdir \o r
      BY <1>1, <2>1, <2>2, TargetsMeans
    <2> QED BY <1>2, <1>4, <2>3, Below
  <1>6. \A v \in DOMAIN jobs : At(v, "open") => jobs[v].tmp # p
    BY <1>4 DEF Opened
  <1> QED BY <1>5, <1>6 DEF Kept

(* Taking a unit touches no file.                                          *)
LEMMA TakeKeeps ==
  ASSUME IInv, NEW u \in DOMAIN jobs, Take(u) PROVE IInv'
  <1>1. cmd # Nil /\ UNCHANGED <<fs, log, cmd>> BY DEF IInv, Typed, Take
  <1>2. PICK w \in {"done", "taken"} : Move(u, w) BY DEF Take
  <1>3. /\ DOMAIN jobs' = DOMAIN jobs
        /\ jobs' = [v \in DOMAIN jobs' |-> jobs'[v]]
        /\ jobs'[u] = Job(w, jobs[u].data, jobs[u].tmp)
        /\ \A v \in DOMAIN jobs : v # u => jobs'[v] = jobs[v]
    BY <1>2, Moved DEF IInv
  <1>4. jobs'[u].at # "open" BY <1>2, <1>3 DEF Job
  <1>5. jobs[u].at # "open" BY DEF Take, At
  <1>6. Typed' BY <1>1, <1>3 DEF IInv, Typed, Job
  <1>7. Working'
    <2>1. SUFFICES ASSUME Apart(cmd) PROVE (Aimed /\ Kept /\ Opened)'
      BY <1>1 DEF Working
    <2>2. Aimed /\ Kept /\ Opened BY <1>1, <2>1 DEF IInv, Working
    <2>3. Aimed' BY <1>1, <1>3, <2>2 DEF Aimed
    <2>4. Kept'
      <3>1. ASSUME NEW v \in DOMAIN jobs, jobs[v].at = "open"
            PROVE  jobs'[v] = jobs[v] /\ v \in DOMAIN jobs'
        BY <1>3, <1>5, <3>1
      <3>2. \A p : IsOutput(Last(log), p)' <=> IsOutput(Last(log), p)
        BY <1>1 DEF IsOutput
      <3> QED BY <1>1, <2>2, <3>1, <3>2 DEF Kept, At
    <2>5. Opened'
      <3>1. ASSUME NEW v \in DOMAIN jobs', jobs'[v].at = "open"
            PROVE  jobs'[v] = jobs[v] /\ v \in DOMAIN jobs
        BY <1>3, <1>4, <3>1
      <3> QED BY <1>1, <2>2, <3>1 DEF Opened, At
    <2> QED BY <2>3, <2>4, <2>5
  <1>8. OnlyOutputs' BY <1>1 DEF OnlyOutputs, Ended
  <1> QED BY <1>1, <1>6, <1>7, <1>8 DEF IInv, Logged

(* A path the temporary file of a unit may get: free, and no target.       *)
LEMMA TempMeans ==
  ASSUME NEW u, u.out \in Paths, Temps(Front(u.out)) # {}
  PROVE  LET tmp == CreateTemp(Front(u.out))
         IN /\ tmp \notin DOMAIN fs /\ ~IsDir(tmp)
            /\ \A v \in DOMAIN jobs : tmp # v.out
            /\ \E t \in TempNames : t \in Names /\ tmp = Append(Front(u.out), t)
  <1> DEFINE tmp == CreateTemp(Front(u.out))
  <1>1. tmp \in Temps(Front(u.out)) BY DEF CreateTemp
  <1>2. TempNames \subseteq Names BY ToolAssumption
  <1> HIDE DEF tmp
  <1>3. PICK t \in TempNames : tmp = Append(Front(u.out), t)
    BY <1>1, Zenon DEF Temps
  <1>4. tmp \notin DOMAIN fs \cup {v.out : v \in DOMAIN jobs} /\ ~IsDir(tmp)
    BY <1>1 DEF Temps
  <1> QED BY <1>2, <1>3, <1>4 DEF tmp

(* Opening a unit adds its temporary file, and nothing else.               *)
LEMMA OpenKeeps ==
  ASSUME IInv, NEW u \in DOMAIN jobs, Open(u) PROVE IInv'
  <1> DEFINE in == Clean(u.in)
             tmp == CreateTemp(Front(u.out))
             e == Job("open", fs[in], tmp)
  <1>1. cmd # Nil /\ UNCHANGED <<log, cmd>> BY DEF IInv, Typed, Open
  <1>2. u.out \in Paths /\ in \in DOMAIN fs /\ Temps(Front(u.out)) # {}
    BY DEF IInv, Typed, Open
  <1>3. tmp \notin DOMAIN fs /\ tmp \in Paths
    <2>1. PICK t \in Names : tmp = Append(Front(u.out), t) BY <1>2, TempMeans
    <2>2. Front(u.out) \in Paths
      <3>1. Front(<<>>) = <<>> BY SubSeqEmpty DEF Front
      <3>2. CASE u.out = <<>> BY <3>1, <3>2, EmptySeq DEF Paths
      <3>3. CASE u.out # <<>>
        <4>1. Len(u.out) \in Nat \ {0} BY <1>2, <3>3, EmptySeq DEF Paths
        <4>2. \A i \in 1..Len(u.out) - 1 : u.out[i] \in Names
          BY <1>2, <4>1, ElementOfSeq DEF Paths
        <4> QED BY <1>2, <4>1, <4>2, SubSeqProperties DEF Paths, Front
      <3> QED BY <3>2, <3>3
    <2>3. tmp \in Paths BY <2>1, <2>2, AppendProperties DEF Paths
    <2> QED BY <1>2, <2>3, TempMeans
  <1>4. PICK left : fs' = Stored(fs, tmp, left) BY DEF Open
  <1>5. /\ DOMAIN fs' = DOMAIN fs \cup {tmp}
        /\ \A p \in DOMAIN fs : fs'[p] = fs[p]
    BY <1>3, <1>4 DEF Stored
  <1>6. jobs' = [jobs EXCEPT ![u] = e] BY DEF Open, Job
  <1> HIDE DEF tmp
  <1>7. e.at = "open" /\ e.tmp = tmp /\ e.data = fs[in] BY DEF Job
  <1> HIDE DEF e
  <1>8. /\ DOMAIN jobs' = DOMAIN jobs /\ jobs'[u] = e
        /\ jobs' = [v \in DOMAIN jobs' |-> jobs'[v]]
        /\ \A v \in DOMAIN jobs : v # u => jobs'[v] = jobs[v]
    BY <1>6 DEF IInv, Typed
  <1>9. jobs[u].at # "open" BY DEF Open, At
  <1>10. Typed'
    <2>1. e = Job(e.at, e.data, e.tmp) BY <1>7 DEF e
    <2> QED BY <1>1, <1>3, <1>5, <1>8, <2>1 DEF IInv, Typed, Job
  <1>11. Working'
    <2>1. SUFFICES ASSUME Apart(cmd) PROVE (Aimed /\ Kept /\ Opened)'
      BY <1>1 DEF Working
    <2>2. Typed /\ Aimed /\ Kept /\ Opened BY <1>1, <2>1 DEF IInv, Working
    <2>3. Aimed' BY <1>1, <1>8, <2>2 DEF Aimed
    <2>4. Kept'
      <3>1. ASSUME NEW v \in DOMAIN jobs, jobs[v].at = "open"
            PROVE  jobs'[v] = jobs[v] /\ v \in DOMAIN jobs'
        BY <1>8, <1>9, <3>1
      <3>2. \A p \in DOMAIN fs : IsOutput(Last(log), p) => IsOutput(Last(log), p)'
        BY <1>1, <1>5 DEF IsOutput
      <3>3. u \in DOMAIN jobs' /\ jobs'[u].at = "open" /\ jobs'[u].tmp = tmp
        BY <1>7, <1>8
      <3> QED BY <1>1, <1>5, <2>2, <3>1, <3>2, <3>3 DEF Kept, At
    <2>5. Opened'
      <3>1. ASSUME NEW v \in DOMAIN jobs', v # u
            PROVE  jobs'[v] = jobs[v] /\ v \in DOMAIN jobs
        BY <1>8, <3>1
      <3>2. /\ in \in DOMAIN Last(log).before
            /\ fs[in] = Last(log).before[in]
        BY <1>1, <1>2, <2>1, <2>2, SourceKept
      <3>3. tmp \notin DOMAIN Last(log).before BY <1>3, <2>2 DEF Kept
      <3>4. IsPrefix(cmd.outdir, tmp)
        <4>1. Batched(cmd) BY <1>1, <2>1 DEF IInv, Typed, Batched, Apart
        <4>2. cmd.outdir \in Paths /\ in \in Paths /\ in # <<>>
          BY <2>2, <4>1, BatchedMeans DEF Typed, Aimed
        <4>3. PICK r \in Paths : u.out = cmd.outdir \o r /\ r # <<>>
          BY <2>2, <4>1, <4>2, TargetsMeans DEF Aimed
        <4>4. PICK t \in Names : tmp = Append(Front(u.out), t)
          BY <1>2, TempMeans DEF tmp
        <4> QED BY <4>2, <4>3, <4>4, Beside
      <3>5. /\ jobs'[u].data = fs[in] /\ jobs'[u].tmp = tmp BY <1>7, <1>8
      <3> QED BY <1>1, <2>2, <3>1, <3>2, <3>3, <3>4, <3>5 DEF Opened, At
    <2> QED BY <2>3, <2>4, <2>5
  <1>12. OnlyOutputs' BY <1>1 DEF OnlyOutputs, Ended
  <1> QED BY <1>1, <1>10, <1>11, <1>12 DEF IInv, Logged

(* A unit that is done, with some files as they were: what is common to    *)
(* placing it and to its failing.                                          *)
LEMMA DoneKeeps ==
  ASSUME IInv, NEW u \in DOMAIN jobs, Move(u, "done"), UNCHANGED <<log, cmd>>,
         DOMAIN fs' \subseteq Paths,
         cmd # Nil /\ Apart(cmd) => DOMAIN Last(log).before \subseteq DOMAIN fs',
         cmd # Nil /\ Apart(cmd) =>
           \A p \in DOMAIN fs' :
             \/ IsOutput(Last(log), p)'
             \/ /\ p \in DOMAIN fs /\ fs'[p] = fs[p]
                /\ At(u, "open") => p # jobs[u].tmp
  PROVE  IInv'
  <1>1. cmd # Nil BY DEF IInv, Typed
  <1>2. /\ DOMAIN jobs' = DOMAIN jobs
        /\ jobs' = [v \in DOMAIN jobs' |-> jobs'[v]]
        /\ jobs'[u] = Job("done", jobs[u].data, jobs[u].tmp)
        /\ \A v \in DOMAIN jobs : v # u => jobs'[v] = jobs[v]
    BY Moved DEF IInv
  <1>3. Typed' BY <1>1, <1>2 DEF IInv, Typed, Job
  <1>4. Working'
    <2>1. SUFFICES ASSUME Apart(cmd) PROVE (Aimed /\ Kept /\ Opened)'
      BY DEF Working
    <2>2. Aimed /\ Kept /\ Opened BY <1>1, <2>1 DEF IInv, Working
    <2>3. Aimed' BY <1>2, <2>2 DEF Aimed
    <2>4. Kept'
      <3>1. SUFFICES ASSUME NEW p \in DOMAIN fs', ~IsOutput(Last(log), p)'
                     PROVE  \/ /\ p \in DOMAIN Last(log).before
                               /\ fs'[p] = Last(log).before[p]
                            \/ \E v \in DOMAIN jobs :
                                 jobs'[v].at = "open" /\ jobs'[v].tmp = p
        BY <1>1, <1>2, <2>1 DEF Kept, At
      <3>2. /\ p \in DOMAIN fs /\ fs'[p] = fs[p]
            /\ At(u, "open") => p # jobs[u].tmp
        BY <1>1, <2>1, <3>1
      <3>3. ~IsOutput(Last(log), p) BY <3>1, <3>2 DEF IsOutput
      <3>4. CASE \E v \in DOMAIN jobs : At(v, "open") /\ jobs[v].tmp = p
        <4>1. PICK v \in DOMAIN jobs : At(v, "open") /\ jobs[v].tmp = p BY <3>4
        <4>2. v # u BY <3>2, <4>1
        <4> QED BY <1>2, <4>1, <4>2 DEF At
      <3> QED BY <2>2, <3>2, <3>3, <3>4 DEF Kept
    <2>5. Opened'
      <3>1. jobs'[u].at # "open" BY <1>2 DEF Job
      <3>2. ASSUME NEW v \in DOMAIN jobs', jobs'[v].at = "open"
            PROVE  jobs'[v] = jobs[v] /\ v \in DOMAIN jobs
        BY <1>2, <3>1, <3>2
      <3> QED BY <2>2, <3>2 DEF Opened, At
    <2> QED BY <2>3, <2>4, <2>5
  <1>5. OnlyOutputs' BY <1>1 DEF OnlyOutputs, Ended
  <1> QED BY <1>3, <1>4, <1>5 DEF IInv, Logged

(* Placing a unit makes an output of its source.                           *)
LEMMA PlaceKeeps ==
  ASSUME IInv, NEW u \in DOMAIN jobs, Place(u) PROVE IInv'
  <1> DEFINE made == Made(cmd.mode, jobs[u].data)
             tmp == jobs[u].tmp
  <1>1. /\ Move(u, "done") /\ UNCHANGED <<log, cmd>> /\ At(u, "open")
        /\ Accepts(cmd.mode, jobs[u].data)
    BY DEF Place
  <1>2. u.out \in Paths /\ DOMAIN fs \subseteq Paths BY DEF IInv, Typed
  <1>3. fs' = Stored(Restrict(fs, DOMAIN fs \ {tmp}), u.out, made) BY DEF Place
  <1> HIDE DEF made, tmp
  <1>4. /\ DOMAIN fs' = (DOMAIN fs \ {tmp}) \cup {u.out}
        /\ fs'[u.out] = made
        /\ \A p \in DOMAIN fs' : p # u.out =>
             p \in DOMAIN fs /\ p # tmp /\ fs'[p] = fs[p]
    BY <1>3 DEF Stored, Restrict
  <1>5. ASSUME cmd # Nil, Apart(cmd)
        PROVE  /\ DOMAIN Last(log).before \subseteq DOMAIN fs'
               /\ \A p \in DOMAIN fs' :
                    \/ IsOutput(Last(log), p)'
                    \/ /\ p \in DOMAIN fs /\ fs'[p] = fs[p]
                       /\ At(u, "open") => p # jobs[u].tmp
    <2>1. Aimed /\ Kept /\ Opened /\ Last(log).cmd = cmd
      BY <1>5 DEF IInv, Working, Typed
    <2>2. DOMAIN Last(log).before \subseteq DOMAIN fs'
      BY <1>1, <1>4, <2>1 DEF Kept, Opened, tmp
    <2>3. IsOutput(Last(log), u.out)'
      <3>1. /\ Clean(u.in) \in DOMAIN Last(log).before
            /\ jobs[u].data = Last(log).before[Clean(u.in)]
            /\ u.out \in Targets(cmd, Clean(u.in))
        BY <1>1, <2>1 DEF Opened, Aimed
      <3> QED BY <1>1, <1>4, <2>1, <3>1 DEF IsOutput, made
    <2> QED BY <1>4, <2>2, <2>3 DEF tmp
  <1> QED BY <1>1, <1>2, <1>4, <1>5, DoneKeeps

(* A unit that fails leaves nothing behind.                                *)
LEMMA FailKeeps ==
  ASSUME IInv, NEW u \in DOMAIN jobs, Fail(u) PROVE IInv'
  <1>1. Move(u, "done") /\ UNCHANGED <<log, cmd>> BY DEF Fail
  <1>2. /\ DOMAIN fs' \subseteq DOMAIN fs
        /\ \A p \in DOMAIN fs : p \notin DOMAIN fs' =>
             At(u, "open") /\ p = jobs[u].tmp
        /\ \A p \in DOMAIN fs' : /\ fs'[p] = fs[p]
                                 /\ At(u, "open") => p # jobs[u].tmp
    BY DEF Fail, Removed, Restrict
  <1>3. ASSUME cmd # Nil, Apart(cmd)
        PROVE  DOMAIN Last(log).before \subseteq DOMAIN fs'
    <2>1. Kept /\ Opened BY <1>3 DEF IInv, Working
    <2> QED BY <1>2, <2>1 DEF Kept, Opened
  <1>4. DOMAIN fs' \subseteq Paths BY <1>2 DEF IInv, Typed
  <1> QED BY <1>1, <1>2, <1>3, <1>4, DoneKeeps

(* A process that ends, or is killed, leaves the tree as it is.            *)
LEMMA ExitKeeps ==
  ASSUME IInv, cmd # Nil, NEW x \in {Nil, 0, 1}, Exit(x),
         x = Nil \/ \A u \in DOMAIN jobs : ~At(u, "open")
  PROVE  IInv'
  <1>1. log # <<>> /\ Last(log).cmd = cmd /\ Logged BY DEF IInv, Typed
  <1>2. /\ Logged' /\ log' # <<>>
        /\ Last(log').cmd = cmd /\ Last(log').exit = x
        /\ Last(log').before = Last(log).before
    BY <1>1, LogExit
  <1>3. cmd' = Nil /\ DOMAIN jobs' = {} /\ UNCHANGED fs BY DEF Exit
  <1>4. jobs' = [u \in DOMAIN jobs' |-> jobs'[u]] BY DEF Exit
  <1>5. Typed' BY <1>1, <1>2, <1>3, <1>4 DEF IInv, Typed
  <1>6. OnlyOutputs'
    <2>1. SUFFICES ASSUME x # Nil, Apart(cmd)
                   PROVE  /\ DOMAIN Last(log').before \subseteq DOMAIN fs'
                          /\ \A p \in DOMAIN fs' :
                               \/ /\ p \in DOMAIN Last(log').before
                                  /\ fs'[p] = Last(log').before[p]
                               \/ IsOutput(Last(log), p)'
      <3>1. Nil \notin {0, 1} BY ToolAssumption
      <3> QED BY <1>2, <3>1 DEF OnlyOutputs, Ended
    <2>2. Kept /\ \A u \in DOMAIN jobs : ~At(u, "open")
      BY <2>1 DEF IInv, Working
    <2>3. \A p \in DOMAIN fs : IsOutput(Last(log), p) => IsOutput(Last(log), p)'
      BY <1>1, <1>2, <1>3 DEF IsOutput
    <2> QED BY <1>2, <1>3, <2>2, <2>3 DEF Kept
  <1> QED BY <1>2, <1>3, <1>5, <1>6 DEF IInv, Working

(* A process that begins meets the tree as it is.                          *)
LEMMA InvokeKeeps ==
  ASSUME IInv, NEW c \in Commands, Invoke(c) PROVE IInv'
  <1>1. cmd = Nil /\ UNCHANGED fs /\ DOMAIN fs \subseteq Paths
    BY DEF IInv, Typed, Invoke
  <1>2. CASE Refused(c)
    <2>1. /\ log' = Append(log, [cmd |-> c, exit |-> 2, before |-> fs])
          /\ UNCHANGED <<cmd, jobs>>
      BY <1>2 DEF Invoke
    <2>2. /\ Logged' /\ log' # <<>> /\ Last(log').before = fs
          /\ Last(log').exit = 2
      <3>1. Logged /\ 2 \in {Nil, 0, 1, 2} BY DEF IInv
      <3>2. /\ Logged' /\ log' # <<>>
            /\ Last(log') = [cmd |-> c, exit |-> 2, before |-> fs]
        BY <2>1, <3>1, LogAppend
      <3> QED BY <3>2
    <2>3. Typed' BY <1>1, <2>1, <2>2 DEF IInv, Typed, Job
    <2> QED BY <1>1, <2>1, <2>2, <2>3 DEF IInv, Working, OnlyOutputs, Ended
  <1>3. CASE ~Refused(c)
    <2>1. /\ log' = Append(log, [cmd |-> c, exit |-> Nil, before |-> fs])
          /\ cmd' = c
          /\ jobs' = [u \in IF c.o # Nil THEN {Unit(c.inputs[1], c.o)}
                                        ELSE discover(c) |-> Queued]
      BY <1>3 DEF Invoke
    <2>2. /\ Logged' /\ log' # <<>> /\ Last(log').before = fs
          /\ Last(log').cmd = c
      <3>1. Logged /\ Nil \in {Nil, 0, 1, 2} BY DEF IInv
      <3>2. /\ Logged' /\ log' # <<>>
            /\ Last(log') = [cmd |-> c, exit |-> Nil, before |-> fs]
        BY <2>1, <3>1, LogAppend
      <3> QED BY <3>2
    <2>3. c # Nil BY ToolAssumption
    <2>4. \A u \in DOMAIN jobs' : jobs'[u] = Job("queued", Nil, Nil)
      BY <2>1 DEF Queued, Job
    <2>5. \A u \in DOMAIN jobs' : Clean(u.in) \in Paths /\ u.out \in Paths
      <3>1. CASE c.o # Nil
        <4>1. c.o \in Paths /\ c.inputs[1] \in Inputs
          <5>1. c.inputs \in Seq(Inputs) /\ (c.o = Nil \/ c.o \in Paths)
            BY ToolAssumption
          <5>2. Len(c.inputs) = 1 BY <1>3, <3>1 DEF Refused
          <5> QED BY <3>1, <5>1, <5>2, ElementOfSeq
        <4>2. Clean(c.inputs[1]) \in Paths BY <4>1 DEF Inputs, Clean
        <4> QED BY <2>1, <3>1, <4>1, <4>2 DEF Unit
      <3>2. CASE c.o = Nil
        <4>1. Batched(c) BY <1>3, <3>2 DEF Batched
        <4>2. SUFFICES ASSUME NEW u \in discover(c)
                       PROVE  Clean(u.in) \in Paths /\ u.out \in Paths
          BY <2>1, <3>2
        <4>3. Clean(u.in) \in Paths /\ u.out \in Targets(c, Clean(u.in))
          BY <1>1, <4>1, DiscoverMeans
        <4>4. PICK r \in Paths : u.out = c.outdir \o r
          BY <4>1, <4>3, TargetsMeans
        <4> QED BY <4>1, <4>3, <4>4, BatchedMeans, Below
      <3> QED BY <3>1, <3>2
    <2>6. jobs' = [u \in DOMAIN jobs' |-> jobs'[u]] BY <2>1
    <2>7. Typed'
      BY <1>1, <1>3, <2>1, <2>2, <2>3, <2>4, <2>5, <2>6 DEF IInv, Typed, Job
    <2>8. Working'
      <3>1. SUFFICES ASSUME c.o = Nil PROVE (Aimed /\ Kept /\ Opened)'
        BY <2>1 DEF Working, Apart
      <3>2. Batched(c) BY <1>3, <3>1 DEF Batched
      <3>3. DOMAIN jobs' = discover(c) BY <2>1, <3>1
      <3>4. Aimed' BY <1>1, <2>1, <3>2, <3>3, DiscoverMeans DEF Aimed
      <3>5. Kept' BY <1>1, <2>2 DEF Kept
      <3>6. Opened' BY <2>4 DEF Opened, At, Job
      <3> QED BY <3>4, <3>5, <3>6
    <2>9. OnlyOutputs' BY <2>1, <2>3 DEF OnlyOutputs, Ended
    <2> QED BY <2>2, <2>7, <2>8, <2>9 DEF IInv
  <1> QED BY <1>2, <1>3

(* Before any process there is only the tree.                              *)
LEMMA InvInit == Init => IInv
  <1> SUFFICES ASSUME Init PROVE IInv
    OBVIOUS
  <1>1. DOMAIN fs \subseteq Paths
    BY ToolAssumption DEF Init
  <1>2. log \in Seq(Entries({})) BY EmptySeq DEF Init
  <1>3. DOMAIN jobs = {} /\ jobs = [u \in DOMAIN jobs |-> jobs[u]] BY DEF Init
  <1> QED BY <1>1, <1>2, <1>3
       DEF Init, IInv, Typed, Logged, Working, OnlyOutputs, Ended

(* Every step of a process, and its end, keeps the inductive invariant.    *)
LEMMA InvNext == IInv /\ [Next]_vars => IInv'
  <1> SUFFICES ASSUME IInv, [Next]_vars PROVE IInv' OBVIOUS
  <1>1. CASE End
    <2>1. /\ cmd # Nil /\ \A u \in DOMAIN jobs : ~At(u, "open")
          /\ Exit(0) \/ Exit(1)
      BY <1>1 DEF End, At
    <2> QED BY <2>1, ExitKeeps
  <1>2. CASE Killed BY <1>2, ExitKeeps DEF Killed
  <1>3. CASE UNCHANGED vars
    BY <1>3 DEF vars, IInv, Typed, Logged, Working, Aimed, Kept, Opened, At,
       OnlyOutputs, Ended, IsOutput
  <1> QED BY <1>1, <1>2, <1>3, TakeKeeps, OpenKeeps, PlaceKeeps, FailKeeps,
       InvokeKeeps DEF Next, Work, Over

(* The inductive invariant of the tool.                                    *)
THEOREM Invariant == Spec => []IInv
  BY InvInit, InvNext, PTL DEF Spec

(* A process that ends, with whatever failures, has changed nothing but    *)
(* targets, which hold whole outputs.                                      *)
THEOREM OutputsAlone == Spec => []OnlyOutputs
  <1>1. IInv => OnlyOutputs BY DEF IInv
  <1> QED BY <1>1, Invariant, PTL
=============================================================================
