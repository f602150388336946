----------------------------- MODULE ExitProofs -----------------------------
(***************************************************************************)
(* Proofs about Tool: what the exit code of a process says, and what the   *)
(* same command does when it is given again.                               *)
(***************************************************************************)
EXTENDS ToolProofs, FiniteSetTheorems, WellFoundedInduction

----------------------------------------------------------------------------
(* Numbers and paths.                                                      *)

(* Of some numbers one is the least.                                       *)
LEMMA Least ==
  ASSUME NEW T \in SUBSET Nat, T # {}
  PROVE  \E x \in T : \A y \in T : x <= y
  <1> DEFINE R == StrictSubsetOrdering(Nat)
             F == {1..x : x \in T}
  <1>1. \A x \in T : IsFiniteSet(1..x) BY FS_Interval
  <1>2. F \subseteq FiniteSubsetsOf(Nat) BY <1>1 DEF FiniteSubsetsOf
  <1>3. \E f \in F : \A g \in F : <<g, f>> \notin R
    <2>1. IsWellFoundedOn(R, FiniteSubsetsOf(Nat))
      BY FS_StrictSubsetOrderingWellFounded
    <2>2. F # {} OBVIOUS
    <2> HIDE DEF F, R
    <2> QED BY <1>2, <2>1, <2>2, WFMin
  <1>4. PICK x \in T : \A y \in T : <<1..y, 1..x>> \notin R BY <1>3
  <1>5. ASSUME NEW y \in T, y < x PROVE FALSE
    <2>1. 1..y \subseteq 1..x /\ 1..y # 1..x BY <1>5
    <2>2. <<1..y, 1..x>> \in R BY <2>1 DEF StrictSubsetOrdering
    <2> QED BY <1>4, <2>2
  <1> QED BY <1>5

(* Prefixes of prefixes, and of each other.                                *)
LEMMA PrefixOrder ==
  ASSUME NEW a \in Paths, NEW b \in Paths
  PROVE  /\ IsPrefix(a, a) /\ IsPrefix(<<>>, a)
         /\ IsPrefix(a, b) /\ IsPrefix(b, a) => a = b
         /\ \A c \in Paths : IsPrefix(a, b) /\ IsPrefix(b, c) => IsPrefix(a, c)
  <1>1. Len(a) \in Nat /\ Len(b) \in Nat BY LenProperties DEF Paths
  <1>2. IsPrefix(a, a) BY <1>1, PrefixMeans
  <1>3. IsPrefix(<<>>, a)
    <2>1. <<>> \in Paths /\ Len(<<>>) = 0 BY EmptySeq DEF Paths
    <2> QED BY <1>1, <2>1, PrefixMeans
  <1>4. ASSUME IsPrefix(a, b), IsPrefix(b, a) PROVE a = b
    <2>1. Len(a) = Len(b) /\ \A i \in 1..Len(a) : a[i] = b[i]
      BY <1>1, <1>4, PrefixMeans
    <2> QED BY <2>1, SeqEqual DEF Paths
  <1>5. ASSUME NEW c \in Paths, IsPrefix(a, b), IsPrefix(b, c)
        PROVE  IsPrefix(a, c)
    <2>1. Len(c) \in Nat BY LenProperties DEF Paths
    <2>2. Len(a) <= Len(b) /\ \A i \in 1..Len(a) : a[i] = b[i]
      BY <1>5, PrefixMeans
    <2>3. Len(b) <= Len(c) /\ \A i \in 1..Len(b) : b[i] = c[i]
      BY <1>5, PrefixMeans
    <2>4. Len(a) <= Len(c) /\ \A i \in 1..Len(a) : a[i] = c[i]
      BY <1>1, <2>1, <2>2, <2>3
    <2> QED BY <2>4, PrefixMeans
  <1> QED BY <1>2, <1>3, <1>4, <1>5

(* What lies above a file lies above or is its directory.                  *)
LEMMA FrontMeans ==
  ASSUME NEW p \in Paths
  PROVE  /\ Front(p) \in Paths
         /\ p # <<>> => \A q \in Paths :
                          IsStrictPrefix(q, p) <=> IsPrefix(q, Front(p))
  <1>1. CASE p = <<>>
    <2>1. Front(<<>>) = <<>> BY SubSeqEmpty DEF Front
    <2> QED BY <1>1, <2>1
  <1>2. CASE p # <<>>
    <2> DEFINE n == Len(p) - 1
               f == SubSeq(p, 1, n)
    <2>1. Len(p) \in Nat /\ n \in Nat /\ n + 1 = Len(p)
      BY <1>2, LenProperties, EmptySeq DEF Paths
    <2>2. Front(p) = f BY DEF Front
    <2> HIDE DEF n
    <2>3. f \in Paths /\ Len(f) = n /\ \A i \in 1..n : f[i] = p[i]
      <3>1. \A i \in 1..n : p[i] \in Names BY <2>1, ElementOfSeq DEF Paths
      <3> QED BY <2>1, <3>1, SubSeqProperties DEF Paths
    <2> HIDE DEF f
    <2>4. ASSUME NEW q \in Paths
          PROVE  IsStrictPrefix(q, p) <=> IsPrefix(q, f)
      <3>1. Len(q) \in Nat BY LenProperties DEF Paths
      <3>2. ASSUME IsPrefix(q, p), q # p PROVE IsPrefix(q, f)
        <4>1. Len(q) <= Len(p) /\ \A i \in 1..Len(q) : q[i] = p[i]
          BY <3>2, PrefixMeans
        <4>2. Len(q) # Len(p) BY <3>2, <4>1, SeqEqual DEF Paths
        <4>3. Len(q) <= Len(f) /\ \A i \in 1..Len(q) : q[i] = f[i]
          BY <2>1, <2>3, <3>1, <4>1, <4>2
        <4> QED BY <2>3, <4>3, PrefixMeans
      <3>3. ASSUME IsPrefix(q, f) PROVE IsPrefix(q, p) /\ q # p
        <4>1. Len(q) <= Len(f) /\ \A i \in 1..Len(q) : q[i] = f[i]
          BY <2>3, <3>3, PrefixMeans
        <4>2. Len(q) < Len(p) /\ \A i \in 1..Len(q) : q[i] = p[i]
          BY <2>1, <2>3, <3>1, <4>1
        <4>3. Len(q) <= Len(p) BY <2>1, <3>1, <4>2
        <4> QED BY <2>1, <3>1, <4>2, <4>3, PrefixMeans
      <3> QED BY <3>2, <3>3 DEF IsStrictPrefix
    <2> QED BY <2>2, <2>3, <2>4
  <1> QED BY <1>1, <1>2

(* A file in a directory.                                                  *)
LEMMA InDirectory ==
  ASSUME NEW d \in Paths, NEW t \in Names
  PROVE  /\ Append(d, t) \in Paths \ {<<>>}
         /\ Front(Append(d, t)) = d /\ Last(Append(d, t)) = t
  <1> DEFINE p == Append(d, t)
             n == Len(d)
  <1>1. /\ p \in Paths /\ p # <<>> /\ Len(p) = n + 1 /\ n \in Nat
        /\ \A i \in 1..n : p[i] = d[i]
        /\ p[n + 1] = t
    BY AppendProperties, LenProperties DEF Paths
  <1> HIDE DEF p
  <1>2. SubSeq(p, 1, n) = d
    <2>1. \A i \in 1..n : p[i] \in Names BY <1>1, ElementOfSeq DEF Paths
    <2>2. /\ SubSeq(p, 1, n) \in Paths /\ Len(SubSeq(p, 1, n)) = n
          /\ \A i \in 1..n : SubSeq(p, 1, n)[i] = p[i]
      BY <1>1, <2>1, SubSeqProperties DEF Paths
    <2> QED BY <1>1, <2>2, SeqEqual DEF Paths
  <1>3. Len(p) - 1 = n BY <1>1
  <1>4. Front(p) = d BY <1>2, <1>3 DEF Front
  <1>5. Last(p) = t BY <1>1 DEF Last
  <1> QED BY <1>1, <1>4, <1>5 DEF p
----------------------------------------------------------------------------
(* What holds of every process.                                            *)

(* No file lies below a file.                                              *)
Tree == \A p, q \in DOMAIN fs : ~IsStrictPrefix(p, q)

(* An open unit has its temporary file beside its target, for itself.      *)
Held ==
  \A u \in DOMAIN jobs : At(u, "open") =>
    /\ jobs[u].tmp \in DOMAIN fs
    /\ \E t \in TempNames : jobs[u].tmp = Append(Front(u.out), t)
    /\ \A v \in DOMAIN jobs :
         At(v, "open") /\ jobs[v].tmp = jobs[u].tmp => u = v
    /\ \A v \in DOMAIN jobs : jobs[u].tmp # v.out

(* The units a batch works on are those it would find now, too.            *)
Planned == cmd # Nil /\ Apart(cmd) => DOMAIN jobs = discover(cmd)

(* Every input is there, every directory can be listed, and every file     *)
(* that is to be worked on is the source of one of the units.              *)
Covers(c, before, us) ==
  /\ \A in \in ToSet(c.inputs) : \E p \in DOMAIN before : in \in Ways(c, p)
  /\ \A p \in DOMAIN before : Ways(c, p) # {} => Reaches(p)
  /\ \A p \in DOMAIN before :
       Ways(c, p) # {}
         /\ (c.mode = "encrypt" \/ (Readable(p) /\ Encrypted(before[p])))
       => \E u \in us : Clean(u.in) = p /\ u.out \in Targets(c, p)

(* So it is when nothing has failed.                                       *)
Covered ==
  cmd # Nil /\ Apart(cmd) /\ failed = 0 =>
    Covers(cmd, Last(log).before, DOMAIN jobs)

Counted ==
  failed \in Nat /\ locked \subseteq Paths /\ IsFiniteSet(locked)

(* A unit that is done, when nothing has failed, has its output, made in   *)
(* this run or, with -skip-existing, found by it.                          *)
Settled(u) ==
  /\ u.out \in DOMAIN fs
  /\ \/ /\ IsOutput(Last(log), u.out)
        /\ cmd.skip \/ u.out \notin locked
     \/ /\ cmd.skip /\ u.out \in DOMAIN Last(log).before
        /\ fs[u.out] = Last(log).before[u.out]
Progress ==
  cmd # Nil /\ Apart(cmd) /\ failed = 0 =>
    \A u \in DOMAIN jobs : At(u, "done") => Settled(u)

(* After exit 0 every file the command would find has its target.          *)
AllThere ==
  Ended({0}) => \A u \in discover(Last(log).cmd) : u.out \in DOMAIN fs

(* The same command again, with -skip-existing, after exit 0.              *)
Again ==
  LET n == Len(log)
  IN cmd # Nil /\ cmd.skip /\ Apart(cmd) /\ n > 1
     /\ log[n - 1].cmd = cmd /\ log[n - 1].exit = 0
Idle ==
  Again => \A u \in DOMAIN jobs :
             u.out \in DOMAIN fs /\ jobs[u].at \in {"queued", "done"}

EInv == /\ IInv /\ Counted /\ Tree /\ Held
        /\ Planned /\ Covered /\ Progress /\ AllThere /\ Idle

----------------------------------------------------------------------------
(* What holds as long as what a kill leaves is not taken for a file.       *)

Parts == {Torn, Scrap}
Temporary(p) == Last(p) \in TempNames

(* Contents that are whole, and what is made of them.                      *)
Whole(W) ==
  /\ Parts \cap W = {}
  /\ \A c \in W : [enc |-> c] \in W /\ (Encrypted(c) => c.enc \in W)
  /\ \A t \in Trees : \A p \in DOMAIN t.files : t.files[p] \in W

(* A file with the name of a temporary one may be an input of a decryption,*)
(* where it is a part of a file and fails; nothing else takes it up.       *)
LeftoversFail ==
  \A u \in DOMAIN jobs :
    LET in == Clean(u.in)
    IN in \in DOMAIN fs /\ (Temporary(in) \/ Temporary(u.out))
       => cmd.mode = "decrypt" /\ fs[in] \in Parts

(* Files are whole, but for those with the name of a temporary one.        *)
Contents(W) ==
  /\ \A p \in DOMAIN fs : ~Temporary(p) => fs[p] \in W
  /\ log # <<>> => \A p \in DOMAIN Last(log).before :
                     ~Temporary(p) => Last(log).before[p] \in W
  /\ \A u \in DOMAIN jobs : At(u, "open") =>
       \/ jobs[u].data \in W
       \/ cmd.mode = "decrypt" /\ jobs[u].data \in Parts
----------------------------------------------------------------------------
(* The steps of a unit.                                                    *)

UnitStep(u) == Take(u) \/ Open(u) \/ Place(u) \/ Fail(u)

(* A step of a unit is of the process that runs, and of no other unit.     *)
LEMMA StepAlone ==
  ASSUME IInv, NEW u \in DOMAIN jobs, UnitStep(u)
  PROVE  /\ cmd # Nil /\ log # <<>> /\ Last(log).cmd = cmd
         /\ UNCHANGED <<cmd, log>>
         /\ locked' = locked \/ (Place(u) /\ locked' = locked \ {u.out})
         /\ DOMAIN jobs' = DOMAIN jobs
         /\ \A v \in DOMAIN jobs : v # u => jobs'[v] = jobs[v]
  <1>1. cmd # Nil /\ log # <<>> /\ Last(log).cmd = cmd BY DEF IInv, Typed
  <1>2. /\ UNCHANGED <<cmd, log>>
        /\ locked' = locked \/ (Place(u) /\ locked' = locked \ {u.out})
    BY DEF UnitStep, Take, Open, Place, Fail
  <1>3. CASE Open(u)
    <2> DEFINE e == [at |-> "open", data |-> fs[Clean(u.in)],
                     tmp |-> CreateTemp(Front(u.out))]
    <2>1. jobs' = [jobs EXCEPT ![u] = e] BY <1>3 DEF Open
    <2> HIDE DEF e
    <2>2. jobs = [v \in DOMAIN jobs |-> jobs[v]] BY DEF IInv, Typed
    <2>3. DOMAIN jobs' = DOMAIN jobs BY <2>1, <2>2
    <2>4. \A v \in DOMAIN jobs : v # u => jobs'[v] = jobs[v] BY <2>1, <2>2
    <2> QED BY <1>1, <1>2, <2>3, <2>4
  <1>4. CASE ~Open(u)
    <2>1. \E w \in {"taken", "done"} : Move(u, w)
      BY <1>4 DEF UnitStep, Take, Place, Fail
    <2> QED BY <1>1, <1>2, <2>1, Moved DEF IInv
  <1> QED BY <1>3, <1>4

(* What taking a unit does.                                                *)
LEMMA TakeDoes ==
  ASSUME IInv, NEW u \in DOMAIN jobs, Take(u)
  PROVE  /\ jobs[u].at = "queued" /\ UNCHANGED <<fs, failed>>
         /\ jobs'[u].at = IF Skips(u) THEN "done" ELSE "taken"
  <1>1. PICK w : w = (IF Skips(u) THEN "done" ELSE "taken") OBVIOUS
  <1>2. Move(u, w) /\ jobs[u].at = "queued" /\ UNCHANGED <<fs, failed>>
    BY <1>1 DEF Take, At
  <1>3. jobs'[u] = Job(w, jobs[u].data, jobs[u].tmp) BY <1>2, Moved DEF IInv
  <1> QED BY <1>1, <1>2, <1>3 DEF Job

(* What opening a unit does.                                               *)
LEMMA OpenDoes ==
  ASSUME IInv, NEW u \in DOMAIN jobs, Open(u)
  PROVE  LET tmp == jobs'[u].tmp
         IN /\ jobs[u].at = "taken" /\ jobs'[u].at = "open"
            /\ failed' = failed
            /\ Clean(u.in) \in DOMAIN fs /\ jobs'[u].data = fs[Clean(u.in)]
            /\ tmp \in Paths /\ tmp \notin DOMAIN fs /\ ~IsDir(tmp)
            /\ \A v \in DOMAIN jobs : tmp # v.out
            /\ \E t \in TempNames :
                 t \in Names /\ tmp = Append(Front(u.out), t)
            /\ \A q \in DOMAIN fs : ~IsPrefix(q, Front(u.out))
            /\ DOMAIN fs' = DOMAIN fs \cup {tmp}
            /\ \A p \in DOMAIN fs : fs'[p] = fs[p]
  <1> DEFINE tmp == CreateTemp(Front(u.out))
             e == [at |-> "open", data |-> fs[Clean(u.in)], tmp |-> tmp]
  <1>1. /\ u.out \in Paths /\ Temps(Front(u.out)) # {}
        /\ jobs[u].at = "taken" /\ failed' = failed
        /\ Clean(u.in) \in DOMAIN fs
        /\ \A q \in DOMAIN fs : ~IsPrefix(q, Front(u.out))
    BY DEF Open, At, IInv, Typed
  <1>2. /\ tmp \notin DOMAIN fs /\ ~IsDir(tmp)
        /\ \A v \in DOMAIN jobs : tmp # v.out
        /\ \E t \in TempNames : t \in Names /\ tmp = Append(Front(u.out), t)
    BY <1>1, TempMeans
  <1>3. tmp \in Paths BY <1>1, <1>2, FrontMeans, InDirectory
  <1>4. jobs' = [jobs EXCEPT ![u] = e] BY DEF Open
  <1>5. PICK left : fs' = Stored(fs, tmp, left) BY DEF Open
  <1> HIDE DEF tmp
  <1>6. e.at = "open" /\ e.tmp = tmp /\ e.data = fs[Clean(u.in)] OBVIOUS
  <1> HIDE DEF e
  <1>7. jobs'[u] = e
    <2>1. jobs = [v \in DOMAIN jobs |-> jobs[v]] BY DEF IInv, Typed
    <2> QED BY <1>4, <2>1
  <1>8. DOMAIN fs' = DOMAIN fs \cup {tmp} /\ \A p \in DOMAIN fs : fs'[p] = fs[p]
    BY <1>2, <1>5 DEF Stored
  <1> QED BY <1>1, <1>2, <1>3, <1>6, <1>7, <1>8

(* What placing a unit does.                                               *)
LEMMA PlaceDoes ==
  ASSUME IInv, NEW u \in DOMAIN jobs, Place(u)
  PROVE  /\ jobs[u].at = "open" /\ jobs'[u].at = "done" /\ failed' = failed
         /\ Accepts(cmd.mode, jobs[u].data) /\ ~IsDir(u.out)
         /\ DOMAIN fs' = (DOMAIN fs \ {jobs[u].tmp}) \cup {u.out}
         /\ fs'[u.out] = Made(cmd.mode, jobs[u].data)
         /\ \A p \in DOMAIN fs : p # u.out /\ p # jobs[u].tmp => fs'[p] = fs[p]
  <1> DEFINE made == Made(cmd.mode, jobs[u].data)
             tmp == jobs[u].tmp
  <1>1. /\ jobs[u].at = "open" /\ failed' = failed /\ Move(u, "done")
        /\ Accepts(cmd.mode, jobs[u].data) /\ ~IsDir(u.out)
    BY DEF Place, At
  <1>2. jobs'[u].at = "done"
    <2>1. jobs'[u] = Job("done", jobs[u].data, jobs[u].tmp)
      BY <1>1, Moved DEF IInv
    <2> QED BY <2>1 DEF Job
  <1>3. fs' = Stored(Restrict(fs, DOMAIN fs \ {tmp}), u.out, made) BY DEF Place
  <1> HIDE DEF made, tmp
  <1>4. /\ DOMAIN fs' = (DOMAIN fs \ {tmp}) \cup {u.out}
        /\ fs'[u.out] = made
        /\ \A p \in DOMAIN fs : p # u.out /\ p # tmp => fs'[p] = fs[p]
    BY <1>3 DEF Stored, Restrict
  <1> QED BY <1>1, <1>2, <1>4 DEF made, tmp

(* What the failing of a unit does.                                        *)
LEMMA FailDoes ==
  ASSUME IInv, NEW u \in DOMAIN jobs, Fail(u)
  PROVE  /\ jobs[u].at \in {"taken", "open"} /\ jobs'[u].at = "done"
         /\ failed' = failed + 1
         /\ DOMAIN fs' = {p \in DOMAIN fs : At(u, "open") => p # jobs[u].tmp}
         /\ \A p \in DOMAIN fs' : fs'[p] = fs[p]
  <1>1. Move(u, "done") /\ failed' = failed + 1 BY DEF Fail
  <1>2. jobs'[u].at = "done"
    <2>1. jobs'[u] = Job("done", jobs[u].data, jobs[u].tmp)
      BY <1>1, Moved DEF IInv
    <2> QED BY <2>1 DEF Job
  <1>3. /\ DOMAIN fs' = {p \in DOMAIN fs : At(u, "open") => p # jobs[u].tmp}
        /\ \A p \in DOMAIN fs' : fs'[p] = fs[p]
    BY DEF Fail, Removed, Restrict
  <1> QED BY <1>1, <1>2, <1>3 DEF Fail, At

----------------------------------------------------------------------------
(* The shape of the tree and the temporary files.                          *)

(* A step keeps files from lying below files.                              *)
LEMMA TreeNext ==
  ASSUME IInv, Tree, Held, [Next]_vars PROVE Tree'
  <1>1. DOMAIN fs \subseteq Paths BY DEF IInv, Typed
  <1>2. \A p \in Paths : ~IsStrictPrefix(p, p) BY DEF IsStrictPrefix
  <1>3. ASSUME NEW u \in DOMAIN jobs, Open(u) PROVE Tree'
    <2> DEFINE tmp == jobs'[u].tmp
    <2>1. /\ tmp \in Paths /\ ~IsDir(tmp) /\ DOMAIN fs' = DOMAIN fs \cup {tmp}
          /\ \A q \in DOMAIN fs : ~IsPrefix(q, Front(u.out))
          /\ \E t \in TempNames : t \in Names /\ tmp = Append(Front(u.out), t)
      BY <1>3, OpenDoes
    <2>2. tmp # <<>> /\ Front(tmp) = Front(u.out)
      <3>1. Front(u.out) \in Paths BY FrontMeans DEF IInv, Typed
      <3> QED BY <2>1, <3>1, InDirectory
    <2> HIDE DEF tmp
    <2>3. \A q \in DOMAIN fs : ~IsStrictPrefix(q, tmp)
      BY <1>1, <2>1, <2>2, FrontMeans
    <2>4. \A q \in DOMAIN fs : ~IsStrictPrefix(tmp, q) BY <2>1 DEF IsDir
    <2> QED BY <1>1, <1>2, <2>1, <2>3, <2>4 DEF Tree
  <1>4. ASSUME NEW u \in DOMAIN jobs, Place(u) PROVE Tree'
    <2> DEFINE tmp == jobs[u].tmp
    <2>1. /\ At(u, "open") /\ ~IsDir(u.out)
          /\ DOMAIN fs' = (DOMAIN fs \ {tmp}) \cup {u.out}
      BY <1>4, PlaceDoes DEF At
    <2>2. u.out \in Paths /\ u.out # <<>> BY <2>1 DEF IInv, Typed, IsDir
    <2>3. tmp \in DOMAIN fs /\ tmp # <<>> /\ Front(tmp) = Front(u.out)
      <3>1. Front(u.out) \in Paths /\ TempNames \subseteq Names
        BY <2>2, FrontMeans, ToolAssumption
      <3> QED BY <2>1, <3>1, InDirectory DEF Held
    <2> HIDE DEF tmp
    <2>4. \A q \in DOMAIN fs : ~IsStrictPrefix(q, u.out)
      BY <1>1, <2>2, <2>3, FrontMeans DEF Tree
    <2>5. \A q \in DOMAIN fs : ~IsStrictPrefix(u.out, q) BY <2>1 DEF IsDir
    <2> QED BY <1>1, <1>2, <2>1, <2>2, <2>4, <2>5 DEF Tree
  <1>5. ASSUME NEW u \in DOMAIN jobs, Fail(u) PROVE Tree'
    BY <1>5, FailDoes DEF Tree
  <1>6. CASE UNCHANGED fs BY <1>6 DEF Tree
  <1> QED BY <1>3, <1>4, <1>5, <1>6
       DEF Next, Work, Take, End, Exit, Invoke, Killed, Over, vars

(* A step leaves the open units their temporary files.                     *)
LEMMA HeldNext ==
  ASSUME IInv, Held, [Next]_vars PROVE Held'
  <1>1. ASSUME NEW u \in DOMAIN jobs, UnitStep(u) PROVE Held'
    <2>1. /\ DOMAIN jobs' = DOMAIN jobs
          /\ \A v \in DOMAIN jobs : v # u => jobs'[v] = jobs[v]
      BY <1>1, StepAlone
    <2>2. CASE Open(u)
      <3>1. /\ jobs'[u].tmp \notin DOMAIN fs
            /\ \A v \in DOMAIN jobs : jobs'[u].tmp # v.out
            /\ \E t \in TempNames : jobs'[u].tmp = Append(Front(u.out), t)
            /\ DOMAIN fs' = DOMAIN fs \cup {jobs'[u].tmp}
        BY <2>2, OpenDoes
      <3>2. ASSUME NEW v \in DOMAIN jobs, v # u, jobs'[v].at = "open"
            PROVE  jobs'[v].tmp \in DOMAIN fs
        BY <2>1, <3>2 DEF Held, At
      <3>3. ASSUME NEW v \in DOMAIN jobs, v # u, jobs'[v].at = "open"
            PROVE  /\ jobs'[v].tmp \in DOMAIN fs'
                   /\ \E t \in TempNames :
                         jobs'[v].tmp = Append(Front(v.out), t)
                   /\ \A w \in DOMAIN jobs :
                        jobs'[w].at = "open" /\ jobs'[w].tmp = jobs'[v].tmp
                        => v = w
                   /\ \A w \in DOMAIN jobs : jobs'[v].tmp # w.out
        BY <2>1, <3>1, <3>2, <3>3 DEF Held, At
      <3> QED BY <2>1, <3>1, <3>2, <3>3 DEF Held, At
    <2>3. CASE ~Open(u)
      <3>1. jobs'[u].at # "open"
        BY <1>1, <2>3, TakeDoes, PlaceDoes, FailDoes DEF UnitStep
      <3>2. \A v \in DOMAIN jobs : v # u /\ At(v, "open")
              => jobs[v].tmp \in DOMAIN fs'
        <4>1. CASE Take(u) BY <4>1, TakeDoes DEF Held
        <4>2. CASE Place(u) BY <4>2, PlaceDoes DEF Held, At
        <4>3. CASE Fail(u) BY <4>3, FailDoes DEF Held, At
        <4> QED BY <1>1, <2>3, <4>1, <4>2, <4>3 DEF UnitStep
      <3> QED BY <2>1, <3>1, <3>2 DEF Held, At
    <2> QED BY <2>2, <2>3
  <1>2. ASSUME NEW c \in Commands, Invoke(c) PROVE Held'
    <2>1. CASE Refused(c) BY <1>2, <2>1 DEF Invoke, Held, At
    <2>2. CASE ~Refused(c)
      <3>1. \A u \in DOMAIN jobs' : jobs'[u].at = "queued"
        BY <1>2, <2>2 DEF Invoke, Queued
      <3> QED BY <3>1 DEF Held, At
    <2> QED BY <2>1, <2>2
  <1>3. CASE End \/ Killed
    <2>1. DOMAIN jobs' = {} BY <1>3 DEF End, Killed, Exit
    <2> QED BY <2>1 DEF Held
  <1>4. CASE UNCHANGED vars BY <1>4 DEF vars, Held, At
  <1> QED BY <1>1, <1>2, <1>3, <1>4 DEF Next, Work, Over, UnitStep
----------------------------------------------------------------------------
(* Discovery, before and after.                                            *)

(* Whether a file can be reached and read depends on what lies above it.   *)
LEMMA SightStays ==
  ASSUME NEW p \in Paths,
         \A d : IsPrefix(d, p) => (d \in locked' <=> d \in locked)
  PROVE  (Reaches(p)' <=> Reaches(p)) /\ (Readable(p)' <=> Readable(p))
  <1>1. Reaches(p)' <=> Reaches(p) BY DEF Reaches, IsStrictPrefix
  <1>2. p \in locked' <=> p \in locked BY PrefixOrder
  <1> QED BY <1>1, <1>2 DEF Readable

(* An input leads to what lies below it.                                   *)
LEMMA WaysMean ==
  ASSUME NEW c, Batched(c), NEW p \in Paths, NEW in \in Ways(c, p)
  PROVE  in \in ToSet(c.inputs) /\ Clean(in) \in Paths /\ IsPrefix(Clean(in), p)
  <1>1. in \in ToSet(c.inputs) /\ Clean(in) \in Paths BY BatchedMeans DEF Ways
  <1>2. CASE p = Clean(in) BY <1>1, <1>2, PrefixOrder
  <1>3. CASE IsStrictPrefix(Clean(in), p) BY <1>1, <1>3 DEF IsStrictPrefix
  <1> QED BY <1>1, <1>2, <1>3 DEF Ways

(* Where the outputs are apart from the inputs, no step touches a source.  *)
LEMMA SourcesStay ==
  ASSUME IInv, NEW u \in DOMAIN jobs, UnitStep(u), Apart(cmd),
         NEW in \in ToSet(cmd.inputs), NEW p \in Paths, IsPrefix(Clean(in), p)
  PROVE  /\ p \in DOMAIN fs' <=> p \in DOMAIN fs
         /\ p \in DOMAIN fs => fs'[p] = fs[p]
         /\ \A d : IsPrefix(d, p) => (d \in locked' <=> d \in locked)
  <1>1. cmd # Nil /\ UNCHANGED <<cmd, log>> BY StepAlone
  <1>2. Aimed /\ Opened /\ Batched(cmd)
    BY <1>1 DEF IInv, Working, Typed, Batched, Apart
  <1>3. cmd.outdir \in Paths /\ Clean(in) \in Paths BY <1>2, BatchedMeans
  <1>4. ~IsPrefix(cmd.outdir, p)
    BY <1>3, Comparable DEF Apart
  <1>5. u.out # p /\ ~IsPrefix(u.out, p)
    <2>1. u.out \in Targets(cmd, Clean(u.in)) /\ Clean(u.in) \in Paths
      BY <1>2 DEF Aimed, IInv, Typed
    <2>2. PICK r \in Paths : u.out = cmd.outdir \o r
      BY <1>2, <2>1, TargetsMeans
    <2>3. u.out \in Paths /\ IsPrefix(cmd.outdir, u.out) BY <1>3, <2>2, Below
    <2> QED BY <1>3, <1>4, <2>3, PrefixOrder
  <1>6. At(u, "open") => jobs[u].tmp # p BY <1>2, <1>4 DEF Opened
  <1>7. ASSUME Open(u) PROVE jobs'[u].tmp # p
    <2>1. IInv' BY <1>7, OpenKeeps
    <2>2. Opened' BY <1>1, <2>1 DEF IInv, Working, Apart
    <2>3. u \in DOMAIN jobs' /\ jobs'[u].at = "open"
      BY <1>7, StepAlone, OpenDoes DEF UnitStep
    <2> QED BY <1>1, <1>4, <2>2, <2>3 DEF Opened, At
  <1>8. \A d : IsPrefix(d, p) => (d \in locked' <=> d \in locked)
    BY <1>5, StepAlone
  <1>9. CASE Take(u) BY <1>8, <1>9, TakeDoes
  <1>10. CASE Open(u)
    <2>1. /\ DOMAIN fs' = DOMAIN fs \cup {jobs'[u].tmp}
          /\ \A q \in DOMAIN fs : fs'[q] = fs[q]
      BY <1>10, OpenDoes
    <2> QED BY <1>7, <1>8, <1>10, <2>1
  <1>11. CASE Place(u) BY <1>5, <1>6, <1>8, <1>11, PlaceDoes DEF At
  <1>12. CASE Fail(u) BY <1>6, <1>8, <1>12, FailDoes
  <1> QED BY <1>9, <1>10, <1>11, <1>12 DEF UnitStep

(* What is found depends on nothing but what is below the inputs.          *)
LEMMA DiscoverStays ==
  ASSUME NEW c, Batched(c),
         DOMAIN fs \subseteq Paths, DOMAIN fs' \subseteq Paths,
         \A in \in ToSet(c.inputs) : \A p \in Paths :
           IsPrefix(Clean(in), p) =>
             /\ p \in DOMAIN fs' <=> p \in DOMAIN fs
             /\ p \in DOMAIN fs => fs'[p] = fs[p]
             /\ \A d : IsPrefix(d, p) => (d \in locked' <=> d \in locked)
  PROVE  discover(c)' = discover(c)
  <1>1. ASSUME NEW in \in ToSet(c.inputs)
        PROVE  Found(c, in)' = Found(c, in)
    <2> DEFINE p == Clean(in)
    <2>1. p \in Paths BY BatchedMeans
    <2>2. \A q \in Paths : IsPrefix(p, q) =>
            /\ q \in DOMAIN fs' <=> q \in DOMAIN fs
            /\ q \in DOMAIN fs => fs'[q] = fs[q]
            /\ Reaches(q)' <=> Reaches(q)
            /\ Readable(q)' <=> Readable(q)
      BY SightStays
    <2>3. IsPrefix(p, p) BY <2>1, PrefixOrder
    <2> HIDE DEF p
    <2>4. IsDir(p)' <=> IsDir(p) BY <2>2 DEF IsDir, IsStrictPrefix
    <2>5. Turned(c, p)' <=> Turned(c, p)
      BY <2>1, <2>2, <2>3, <2>4 DEF Turned
    <2>6. \A q \in DOMAIN fs : IsPrefix(p, q) =>
            (Wanted(c.mode, q)' <=> Wanted(c.mode, q))
      BY <2>2 DEF Wanted, IsCsencFile
    <2>7. Walk(c, p)' = Walk(c, p)
      <3> DEFINE Q == {q \in DOMAIN fs : /\ IsStrictPrefix(p, q) /\ Reaches(q)
                                         /\ Wanted(c.mode, q)}
      <3>1. Q' = Q BY <2>2, <2>6 DEF IsStrictPrefix
      <3>2. Walk(c, p) = {Unit(Spelled(q), c.outdir \o (Base(p) \o Rel(p, q))) :
                            q \in Q}
        BY DEF Walk
      <3>3. Walk(c, p)' = {Unit(Spelled(q), c.outdir \o (Base(p) \o Rel(p, q))) :
                             q \in Q'}
        BY DEF Walk, Unit, Spelled, Base, Rel
      <3> QED BY <3>1, <3>2, <3>3
    <2>8. ASSUME ~Turned(c, p), ~IsDir(p)
          PROVE  Wanted(c.mode, p)' <=> Wanted(c.mode, p)
      <3>1. p \in DOMAIN fs BY <2>8 DEF Turned
      <3> QED BY <2>3, <2>6, <3>1
    <2>9. CASE Turned(c, p) BY <2>5, <2>9 DEF Found, p
    <2>10. CASE ~Turned(c, p) /\ IsDir(p)
      BY <2>4, <2>5, <2>7, <2>10 DEF Found, p
    <2>11. CASE ~Turned(c, p) /\ ~IsDir(p)
      <3> DEFINE U == {Unit(in, c.outdir \o Base(p))}
      <3>1. Found(c, in) = {u \in U : Wanted(c.mode, p)}
        BY <2>11 DEF Found, p
      <3>2. Found(c, in)' = {u \in U : Wanted(c.mode, p)'}
        BY <2>4, <2>5, <2>11 DEF Found, p, Unit, Base, Clean
      <3> QED BY <2>8, <2>11, <3>1, <3>2
    <2> QED BY <2>9, <2>10, <2>11
  <1>2. \A i \in DOMAIN c.inputs :
          /\ Found(c, c.inputs[i])' = Found(c, c.inputs[i])
          /\ \A j \in 1..i - 1 : Found(c, c.inputs[j])' = Found(c, c.inputs[j])
    <2>1. c.inputs \in Seq(Inputs) BY ToolAssumption DEF Batched
    <2>2. DOMAIN c.inputs = 1..Len(c.inputs) /\ Len(c.inputs) \in Nat
      BY <2>1, LenProperties
    <2>3. \A i \in DOMAIN c.inputs : 1..i - 1 \subseteq DOMAIN c.inputs BY <2>2
    <2>4. \A i \in DOMAIN c.inputs : c.inputs[i] \in ToSet(c.inputs)
      BY BatchedMeans
    <2> QED BY <1>1, <2>3, <2>4
  <1> QED BY <1>2 DEF discover, Same

(* The units stay those that a batch would find.                           *)
LEMMA PlannedNext ==
  ASSUME IInv, Planned, [Next]_vars PROVE Planned'
  <1>1. DOMAIN fs \subseteq Paths /\ DOMAIN fs' \subseteq Paths
    <2>1. IInv' BY InvNext
    <2> QED BY <2>1 DEF IInv, Typed
  <1>2. ASSUME NEW u \in DOMAIN jobs, UnitStep(u) PROVE Planned'
    <2>1. SUFFICES ASSUME Apart(cmd) PROVE DOMAIN jobs' = discover(cmd)'
      BY <1>2, StepAlone DEF Planned, Apart
    <2>2. cmd # Nil /\ DOMAIN jobs' = DOMAIN jobs /\ UNCHANGED cmd
      BY <1>2, StepAlone
    <2>3. SUFFICES ASSUME NEW c, cmd = c PROVE discover(c)' = discover(c)
      BY <2>1, <2>2 DEF Planned
    <2>4. Batched(c) BY <2>1, <2>2, <2>3 DEF IInv, Typed, Batched, Apart
    <2>5. \A in \in ToSet(c.inputs) : \A p \in Paths :
            IsPrefix(Clean(in), p) =>
              /\ p \in DOMAIN fs' <=> p \in DOMAIN fs
              /\ p \in DOMAIN fs => fs'[p] = fs[p]
              /\ \A d : IsPrefix(d, p) => (d \in locked' <=> d \in locked)
      BY <1>2, <2>1, <2>3, SourcesStay
    <2> QED BY <1>1, <2>2, <2>4, <2>5, DiscoverStays
  <1>3. ASSUME NEW c \in Commands, Invoke(c) PROVE Planned'
    <2>1. cmd = Nil /\ UNCHANGED <<fs, locked>> BY <1>3 DEF Invoke
    <2>2. CASE Refused(c) BY <1>3, <2>1, <2>2 DEF Invoke, Planned
    <2>3. CASE ~Refused(c)
      <3>1. cmd' = c BY <1>3, <2>3 DEF Invoke
      <3>2. SUFFICES ASSUME Apart(c) PROVE DOMAIN jobs' = discover(c)'
        BY <3>1 DEF Planned, Apart
      <3>3. c.o = Nil /\ Batched(c) BY <2>3, <3>2 DEF Batched, Apart
      <3>4. DOMAIN jobs' = discover(c) BY <1>3, <2>3, <3>3 DEF Invoke
      <3>5. discover(c)' = discover(c) BY <1>1, <2>1, <3>3, DiscoverStays
      <3> QED BY <3>4, <3>5
    <2> QED BY <2>2, <2>3
  <1>4. CASE End \/ Killed BY <1>4 DEF End, Killed, Exit, Planned
  <1>5. CASE UNCHANGED vars
    <2>1. UNCHANGED <<fs, locked, cmd, jobs>> BY <1>5 DEF vars
    <2>2. ASSUME NEW c, cmd = c, Batched(c) PROVE discover(c)' = discover(c)
      BY <1>1, <2>1, <2>2, DiscoverStays
    <2>3. cmd # Nil /\ Apart(cmd) => Batched(cmd)
      BY DEF IInv, Typed, Batched, Apart
    <2> QED BY <2>1, <2>2, <2>3 DEF Planned, Apart
  <1> QED BY <1>2, <1>3, <1>4, <1>5 DEF Next, Work, Over, UnitStep
----------------------------------------------------------------------------
(* What discovery promises.                                                *)

(* A command whose outputs are apart has no input that is the whole tree.  *)
LEMMA ApartMeans ==
  ASSUME NEW c, Batched(c), Apart(c), NEW in \in ToSet(c.inputs)
  PROVE  Clean(in) \in Paths \ {<<>>}
  <1>1. Clean(in) \in Paths /\ c.outdir \in Paths BY BatchedMeans
  <1> QED BY <1>1, PrefixOrder DEF Apart

(* Errors are counted, and none is none for each input.                    *)
LEMMA ErrorsMean ==
  ASSUME NEW c, Batched(c), IsFiniteSet(locked)
  PROVE  /\ errors(c) \in Nat
         /\ errors(c) = 0 => \A in \in ToSet(c.inputs) : Missed(c, in) = {}
  <1> DEFINE I == DOMAIN c.inputs
             Roots == {Clean(c.inputs[i]) : i \in I}
             E == UNION {{<<i, p>> : p \in Missed(c, c.inputs[i])} : i \in I}
  <1>1. I = 1..Len(c.inputs) /\ Len(c.inputs) \in Nat
    <2>1. c.inputs \in Seq(Inputs) BY ToolAssumption DEF Batched
    <2> QED BY <2>1, LenProperties
  <1>2. IsFiniteSet(I)
    <2>1. IsFiniteSet(1..Len(c.inputs)) BY <1>1, FS_Interval
    <2> QED BY <1>1, <2>1
  <1>3. IsFiniteSet(Roots)
    <2> DEFINE f == [i \in I |-> Clean(c.inputs[i])]
    <2>1. f \in Surjection(I, Roots) BY DEF Surjection
    <2> QED BY <1>2, <2>1, FS_Surjection
  <1>4. E \subseteq I \X (locked \cup Roots) BY DEF Missed
  <1>5. IsFiniteSet(E)
    <2>1. IsFiniteSet(locked \cup Roots) BY <1>3, FS_Union
    <2> HIDE DEF I, Roots, E
    <2>2. IsFiniteSet(I \X (locked \cup Roots)) BY <1>2, <2>1, FS_Product
    <2> QED BY <1>4, <2>2, FS_Subset
  <1>6. errors(c) = Cardinality(E) BY DEF errors
  <1>7. Cardinality(E) \in Nat /\ (Cardinality(E) = 0 => E = {})
    <2> HIDE DEF E
    <2> QED BY <1>5, FS_CardinalityType, FS_EmptySet
  <1>8. ASSUME E = {}, NEW in \in ToSet(c.inputs) PROVE Missed(c, in) = {}
    <2>1. PICK i \in I : in = c.inputs[i] BY DEF ToSet
    <2>2. \A p \in Missed(c, in) : <<i, p>> \in E BY <2>1
    <2> QED BY <1>8, <2>2
  <1> QED BY <1>6, <1>7, <1>8

(* Without an error, an input is there, or is a directory to be walked.    *)
LEMMA InputFound ==
  ASSUME NEW c, Batched(c), Apart(c), NEW in \in ToSet(c.inputs),
         DOMAIN fs \subseteq Paths, Missed(c, in) = {}
  PROVE  /\ ~Turned(c, Clean(in))
         /\ \E p \in DOMAIN fs : in \in Ways(c, p)
  <1> DEFINE r == Clean(in)
  <1>1. ~Turned(c, r) BY DEF Missed
  <1>2. r # <<>> BY ApartMeans
  <1>3. CASE IsDir(r)
    <2>1. c.recursive BY <1>1, <1>3 DEF Turned
    <2>2. PICK q \in DOMAIN fs : IsStrictPrefix(r, q) BY <1>2, <1>3 DEF IsDir
    <2> QED BY <1>1, <2>1, <2>2 DEF Ways
  <1>4. CASE ~IsDir(r)
    <2>1. r \in DOMAIN fs BY <1>1, <1>4 DEF Turned
    <2> QED BY <1>1, <2>1 DEF Ways
  <1> QED BY <1>3, <1>4

(* Without an error, no directory on the way to a file is locked: the      *)
(* topmost one that is would be missed, or the input that lies below it.   *)
LEMMA AllReached ==
  ASSUME NEW c, Batched(c), DOMAIN fs \subseteq Paths, locked \subseteq Paths,
         NEW in \in ToSet(c.inputs), Missed(c, in) = {},
         NEW p \in DOMAIN fs, in \in Ways(c, p)
  PROVE  Reaches(p)
  <1> DEFINE r == Clean(in)
             D == {d \in locked : IsStrictPrefix(d, p)}
             T == {Len(d) : d \in D}
  <1>1. SUFFICES ASSUME D # {} PROVE FALSE BY DEF Reaches
  <1>2. /\ \A d \in D : d \in Paths /\ Len(d) \in Nat
        /\ r \in Paths /\ p \in Paths
    BY BatchedMeans, LenProperties DEF Paths
  <1>3. PICK d \in D : \A e \in D : Len(d) <= Len(e)
    <2>1. T \in SUBSET Nat /\ T # {} BY <1>1, <1>2
    <2> HIDE DEF T
    <2>2. PICK n \in T : \A m \in T : n <= m BY <2>1, Least
    <2> QED BY <2>2 DEF T
  <1>4. Reaches(d)
    <2>1. SUFFICES ASSUME NEW e \in locked, IsStrictPrefix(e, d) PROVE FALSE
      BY DEF Reaches
    <2>2. e \in Paths /\ IsPrefix(e, d) /\ e # d /\ IsPrefix(d, p)
      BY <2>1 DEF IsStrictPrefix
    <2>3. IsPrefix(e, p) /\ e # p
      <3>1. IsPrefix(e, p) BY <1>2, <2>2, PrefixOrder
      <3>2. e # p BY <1>2, <2>2, PrefixOrder
      <3> QED BY <3>1, <3>2
    <2>4. e \in D BY <2>3 DEF IsStrictPrefix
    <2>5. Len(e) = Len(d) /\ \A i \in 1..Len(e) : e[i] = d[i]
      BY <1>2, <1>3, <2>2, <2>4, PrefixMeans
    <2> QED BY <1>2, <2>2, <2>4, <2>5, SeqEqual DEF Paths
  <1>5. IsDir(d) BY DEF IsDir
  <1>6. IsPrefix(r, p)
    <2>1. CASE r = p BY <1>2, <2>1, PrefixOrder
    <2>2. CASE IsStrictPrefix(r, p) BY <2>2 DEF IsStrictPrefix
    <2> QED BY <2>1, <2>2 DEF Ways
  <1>7. IsPrefix(r, d) \/ IsPrefix(d, r)
    BY <1>2, <1>6, Comparable DEF IsStrictPrefix
  <1>8. ~Turned(c, r) BY DEF Missed
  <1>9. CASE IsPrefix(r, d) BY <1>4, <1>5, <1>8, <1>9 DEF Missed
  <1>10. CASE ~IsPrefix(r, d)
    <2>1. IsStrictPrefix(d, r)
      BY <1>2, <1>7, <1>10, PrefixOrder DEF IsStrictPrefix
    <2>2. ~Reaches(r) BY <2>1 DEF Reaches
    <2> QED BY <1>8, <2>2 DEF Turned
  <1> QED BY <1>9, <1>10

(* A file that is to be worked on is the source of a unit: of the first    *)
(* input that brings it under its spelling.                                *)
LEMMA AllFound ==
  ASSUME NEW c, Batched(c), Apart(c), DOMAIN fs \subseteq Paths, Tree,
         NEW in \in ToSet(c.inputs), Missed(c, in) = {},
         NEW p \in DOMAIN fs, in \in Ways(c, p),
         Reaches(p), Wanted(c.mode, p)
  PROVE  \E u \in discover(c) : Clean(u.in) = p /\ u.out \in Targets(c, p)
  <1> DEFINE r == Clean(in)
  <1>1. ~Turned(c, r) /\ r \in Paths \ {<<>>} BY ApartMeans DEF Missed
  <1>2. PICK u \in Found(c, in) : Clean(u.in) = p
    <2>1. CASE p = r
      <3>1. ~IsDir(r) BY <1>1, <2>1 DEF IsDir, Tree
      <3>2. Unit(in, c.outdir \o Base(r)) \in Found(c, in)
        BY <1>1, <2>1, <3>1 DEF Found
      <3> QED BY <2>1, <3>2 DEF Unit
    <2>2. CASE IsStrictPrefix(r, p)
      <3>1. IsDir(r) BY <2>2 DEF IsDir
      <3>2. Unit(Spelled(p), c.outdir \o (Base(r) \o Rel(r, p))) \in Walk(c, r)
        BY <2>2 DEF Walk
      <3>3. Unit(Spelled(p), c.outdir \o (Base(r) \o Rel(r, p))) \in Found(c, in)
        BY <1>1, <3>1, <3>2 DEF Found
      <3> QED BY <3>3 DEF Unit, Spelled, Clean
    <2> QED BY <2>1, <2>2 DEF Ways
  <1> DEFINE J == {j \in DOMAIN c.inputs :
                     \E v \in Found(c, c.inputs[j]) : v.in = u.in}
  <1>3. PICK j \in J : \A k \in J : j <= k
    <2>1. c.inputs \in Seq(Inputs) BY ToolAssumption DEF Batched
    <2>2. DOMAIN c.inputs \subseteq Nat BY <2>1, LenProperties
    <2>3. \E i \in DOMAIN c.inputs : in = c.inputs[i] BY DEF ToSet
    <2>4. J \in SUBSET Nat /\ J # {} BY <2>2, <2>3
    <2> HIDE DEF J
    <2> QED BY <2>4, Least
  <1>4. PICK v \in Found(c, c.inputs[j]) : v.in = u.in OBVIOUS
  <1>5. \A k \in 1..j - 1 : \A w \in Found(c, c.inputs[k]) : ~Same(v, w)
    <2>1. c.inputs \in Seq(Inputs) BY ToolAssumption DEF Batched
    <2>2. DOMAIN c.inputs = 1..Len(c.inputs) /\ Len(c.inputs) \in Nat
      BY <2>1, LenProperties
    <2>3. \A k \in 1..j - 1 : k \in DOMAIN c.inputs /\ ~(j <= k) BY <2>2
    <2> QED BY <1>3, <1>4, <2>3 DEF Same
  <1>6. v \in discover(c) BY <1>3, <1>4, <1>5 DEF discover
  <1>7. Clean(v.in) = p BY <1>2, <1>4
  <1> QED BY <1>6, <1>7, DiscoverMeans

(* A batch that has no error to report works on all it should.             *)
LEMMA Coverage ==
  ASSUME NEW c, Batched(c), Apart(c), DOMAIN fs \subseteq Paths, Tree, Counted,
         errors(c) = 0
  PROVE  Covers(c, fs, discover(c))
  <1>1. \A in \in ToSet(c.inputs) : Missed(c, in) = {}
    BY ErrorsMean DEF Counted
  <1>2. \A in \in ToSet(c.inputs) : \E p \in DOMAIN fs : in \in Ways(c, p)
    BY <1>1, InputFound
  <1>3. ASSUME NEW p \in DOMAIN fs, Ways(c, p) # {} PROVE Reaches(p)
    BY <1>1, <1>3, AllReached DEF Counted, Ways
  <1>4. ASSUME NEW p \in DOMAIN fs, Ways(c, p) # {},
               c.mode = "encrypt" \/ (Readable(p) /\ Encrypted(fs[p]))
        PROVE  \E u \in discover(c) : Clean(u.in) = p /\ u.out \in Targets(c, p)
    <2>1. PICK in \in ToSet(c.inputs) : in \in Ways(c, p) BY <1>4 DEF Ways
    <2>2. Wanted(c.mode, p) BY <1>4 DEF Wanted, IsCsencFile
    <2> QED BY <1>1, <1>3, <1>4, <2>1, <2>2, AllFound
  <1> QED BY <1>2, <1>3, <1>4 DEF Covers
----------------------------------------------------------------------------
(* The process at work, and its end.                                       *)

(* Every process that begins has its units queued.                         *)
LEMMA Begun ==
  ASSUME IInv, NEW c \in Commands, Invoke(c)
  PROVE  /\ cmd = Nil /\ UNCHANGED <<fs, locked>>
         /\ Refused(c) => cmd' = Nil /\ DOMAIN jobs' = {} /\ failed' = failed
         /\ ~Refused(c) =>
              /\ cmd' = c /\ c # Nil /\ Last(log').before = fs
              /\ \A u \in DOMAIN jobs' : jobs'[u].at = "queued"
              /\ failed' = IF c.o # Nil THEN 0 ELSE errors(c)
              /\ c.o = Nil => Batched(c) /\ DOMAIN jobs' = discover(c)
  <1>1. cmd = Nil /\ UNCHANGED <<fs, locked>> /\ DOMAIN jobs = {} /\ c # Nil
    BY ToolAssumption DEF Invoke, IInv, Typed
  <1>2. CASE Refused(c) BY <1>1, <1>2 DEF Invoke
  <1>3. CASE ~Refused(c)
    <2>1. /\ cmd' = c
          /\ failed' = IF c.o # Nil THEN 0 ELSE errors(c)
          /\ jobs' = [u \in IF c.o # Nil THEN {Unit(c.inputs[1], c.o)}
                                        ELSE discover(c) |-> Queued]
          /\ log' = Append(log, [cmd |-> c, exit |-> Nil, before |-> fs])
      BY <1>3 DEF Invoke
    <2>2. Last(log').before = fs
      <3>1. Last(log') = [cmd |-> c, exit |-> Nil, before |-> fs]
        BY <2>1, LogAppend DEF IInv
      <3> QED BY <3>1
    <2>3. \A u \in DOMAIN jobs' : jobs'[u].at = "queued" BY <2>1 DEF Queued
    <2>4. c.o = Nil => Batched(c) /\ DOMAIN jobs' = discover(c)
      BY <1>3, <2>1 DEF Batched
    <2> QED BY <1>1, <1>3, <2>1, <2>2, <2>3, <2>4
  <1> QED BY <1>2, <1>3

(* No error is forgotten before the end.                                   *)
LEMMA StepCounts ==
  ASSUME IInv, Counted, NEW u \in DOMAIN jobs, UnitStep(u)
  PROVE  /\ failed' \in Nat
         /\ failed' = 0 => failed = 0 /\ ~Fail(u)
  <1>1. CASE Fail(u)
    <2>1. failed' = failed + 1 BY <1>1, FailDoes
    <2> QED BY <2>1 DEF Counted
  <1>2. CASE ~Fail(u)
    <2>1. failed' = failed
      BY <1>2, TakeDoes, OpenDoes, PlaceDoes DEF UnitStep
    <2> QED BY <1>2, <2>1 DEF Counted
  <1> QED BY <1>1, <1>2

(* The number of failures stays a number.                                  *)
LEMMA CountedNext ==
  ASSUME IInv, Counted, [Next]_vars PROVE Counted'
  <1>1. locked' \subseteq Paths /\ IsFiniteSet(locked')
    <2>1. locked' \subseteq locked
      BY DEF Next, Work, Take, Open, Place, Fail, End, Exit, Invoke, Killed,
         Over, vars
    <2> QED BY <2>1, FS_Subset DEF Counted
  <1>2. failed' \in Nat
    <2>1. ASSUME NEW u \in DOMAIN jobs, UnitStep(u) PROVE failed' \in Nat
      BY <2>1, StepCounts
    <2>2. ASSUME NEW c \in Commands, Invoke(c) PROVE failed' \in Nat
      <3>1. CASE Refused(c) BY <2>2, <3>1, Begun DEF Counted
      <3>2. CASE ~Refused(c) /\ c.o # Nil BY <2>2, <3>2, Begun
      <3>3. CASE ~Refused(c) /\ c.o = Nil
        <4>1. failed' = errors(c) /\ Batched(c) BY <2>2, <3>3, Begun
        <4> QED BY <4>1, ErrorsMean DEF Counted
      <3> QED BY <3>1, <3>2, <3>3
    <2>3. CASE End \/ Killed BY <2>3 DEF End, Killed, Exit
    <2>4. CASE UNCHANGED vars BY <2>4 DEF vars, Counted
    <2> QED BY <2>1, <2>2, <2>3, <2>4 DEF Next, Work, Over, UnitStep
  <1> QED BY <1>1, <1>2 DEF Counted

(* What discovery promised stays so: it speaks of the tree as it was.      *)
LEMMA CoveredNext ==
  ASSUME IInv, Counted, Tree, Covered, [Next]_vars PROVE Covered'
  <1>1. ASSUME NEW u \in DOMAIN jobs, UnitStep(u) PROVE Covered'
    <2>1. cmd # Nil /\ UNCHANGED <<cmd, log>> /\ DOMAIN jobs' = DOMAIN jobs
      BY <1>1, StepAlone
    <2>2. SUFFICES ASSUME Apart(cmd), failed = 0
                   PROVE  Covers(cmd, Last(log).before, DOMAIN jobs)'
      BY <1>1, <2>1, StepCounts DEF Covered, Apart
    <2>3. Batched(cmd) BY <2>1, <2>2 DEF IInv, Typed, Batched, Apart
    <2>4. ASSUME NEW p \in DOMAIN Last(log).before, Ways(cmd, p) # {}
          PROVE  /\ Reaches(p)' <=> Reaches(p)
                 /\ Readable(p)' <=> Readable(p)
      <3>1. p \in Paths BY <2>1 DEF IInv, Typed
      <3>2. PICK in \in ToSet(cmd.inputs) : IsPrefix(Clean(in), p)
        BY <2>3, <2>4, <3>1, WaysMean
      <3>3. \A d : IsPrefix(d, p) => (d \in locked' <=> d \in locked)
        BY <1>1, <2>2, <3>1, <3>2, SourcesStay
      <3> QED BY <3>1, <3>3, SightStays
    <2>5. Covers(cmd, Last(log).before, DOMAIN jobs)
      BY <2>1, <2>2 DEF Covered
    <2> QED BY <2>1, <2>4, <2>5 DEF Covers
  <1>2. ASSUME NEW c \in Commands, Invoke(c) PROVE Covered'
    <2>1. CASE Refused(c) BY <1>2, <2>1, Begun DEF Covered
    <2>2. CASE ~Refused(c)
      <3>1. cmd' = c /\ Last(log').before = fs /\ UNCHANGED locked
        BY <1>2, <2>2, Begun
      <3>2. SUFFICES ASSUME Apart(c), failed' = 0
                     PROVE  /\ Covers(c, fs, discover(c))
                            /\ DOMAIN jobs' = discover(c)
        BY <3>1 DEF Covered, Apart, Covers, Reaches, Readable
      <3>3. c.o = Nil BY <3>2 DEF Apart
      <3>4. Batched(c) /\ DOMAIN jobs' = discover(c) /\ errors(c) = 0
        BY <1>2, <2>2, <3>2, <3>3, Begun
      <3>5. DOMAIN fs \subseteq Paths BY DEF IInv, Typed
      <3> QED BY <3>2, <3>4, <3>5, Coverage
    <2> QED BY <2>1, <2>2
  <1>3. CASE End \/ Killed BY <1>3 DEF End, Killed, Exit, Covered
  <1>4. CASE UNCHANGED vars
    BY <1>4 DEF vars, Covered, Covers, Apart, Reaches, Readable
  <1> QED BY <1>1, <1>2, <1>3, <1>4 DEF Next, Work, Over, UnitStep

(* A unit that is placed has its output.                                   *)
LEMMA PlacedIsOutput ==
  ASSUME IInv, NEW u \in DOMAIN jobs, Place(u), Apart(cmd)
  PROVE  IsOutput(Last(log), u.out)'
  <1>1. /\ cmd # Nil /\ Last(log).cmd = cmd /\ UNCHANGED <<cmd, log>>
    BY StepAlone DEF UnitStep
  <1>2. Aimed /\ Opened BY <1>1 DEF IInv, Working
  <1>3. /\ At(u, "open") /\ Accepts(cmd.mode, jobs[u].data)
        /\ fs'[u.out] = Made(cmd.mode, jobs[u].data)
    BY PlaceDoes DEF At
  <1>4. /\ Clean(u.in) \in DOMAIN Last(log).before
        /\ jobs[u].data = Last(log).before[Clean(u.in)]
        /\ u.out \in Targets(cmd, Clean(u.in))
    BY <1>2, <1>3 DEF Opened, Aimed
  <1> QED BY <1>1, <1>3, <1>4 DEF IsOutput

(* While nothing fails, each unit that is done has its output.             *)
LEMMA ProgressNext ==
  ASSUME IInv, Counted, Held, Progress, [Next]_vars PROVE Progress'
  <1>1. ASSUME NEW u \in DOMAIN jobs, UnitStep(u) PROVE Progress'
    <2>1. /\ cmd # Nil /\ UNCHANGED <<cmd, log>> /\ DOMAIN jobs' = DOMAIN jobs
          /\ \A v \in DOMAIN jobs : v # u => jobs'[v] = jobs[v]
      BY <1>1, StepAlone
    <2>2. SUFFICES ASSUME Apart(cmd), failed = 0, ~Fail(u),
                          NEW v \in DOMAIN jobs, jobs'[v].at = "done"
                   PROVE  Settled(v)'
      BY <1>1, <2>1, StepCounts DEF Progress, Apart, At
    <2>3. ASSUME Settled(v), v.out \in DOMAIN fs', fs'[v.out] = fs[v.out]
          PROVE  Settled(v)'
      <3>1. locked' \subseteq locked BY <1>1, StepAlone
      <3> QED BY <2>1, <2>3, <3>1 DEF Settled, IsOutput
    <2>4. v # u => Settled(v) BY <2>1, <2>2 DEF Progress, At
    <2>5. CASE Take(u)
      <3>1. UNCHANGED fs BY <2>5, TakeDoes
      <3>2. CASE v # u BY <2>3, <2>4, <3>1, <3>2 DEF Settled
      <3>3. CASE v = u
        <4>1. cmd.skip /\ u.out \in DOMAIN fs
          BY <2>2, <2>5, <3>3, TakeDoes DEF Skips
        <4>2. Kept BY <2>1, <2>2 DEF IInv, Working
        <4>3. \A w \in DOMAIN jobs : At(w, "open") => jobs[w].tmp # u.out
          BY DEF Held
        <4>4. Settled(u) BY <4>1, <4>2, <4>3 DEF Kept, Settled
        <4> QED BY <2>3, <3>1, <3>3, <4>1, <4>4
      <3> QED BY <3>2, <3>3
    <2>6. CASE Open(u)
      <3>1. v # u BY <2>2, <2>6, OpenDoes
      <3> QED BY <2>3, <2>4, <2>6, <3>1, OpenDoes DEF Settled
    <2>7. CASE Place(u)
      <3>1. CASE v.out = u.out
        <4>1. IsOutput(Last(log), u.out)' BY <2>2, <2>7, PlacedIsOutput
        <4>2. u.out \in DOMAIN fs' /\ u.out \notin locked'
          BY <2>7, PlaceDoes DEF Place
        <4> QED BY <3>1, <4>1, <4>2 DEF Settled
      <3>2. CASE v.out # u.out
        <4>1. At(u, "open") BY <2>7, PlaceDoes DEF At
        <4>2. v.out # jobs[u].tmp BY <4>1 DEF Held
        <4>3. Settled(v) BY <2>4, <3>2
        <4> QED BY <2>3, <2>7, <3>2, <4>2, <4>3, PlaceDoes DEF Settled
      <3> QED BY <3>1, <3>2
    <2> QED BY <1>1, <2>2, <2>5, <2>6, <2>7 DEF UnitStep
  <1>2. ASSUME NEW c \in Commands, Invoke(c) PROVE Progress'
    <2>1. CASE Refused(c) BY <1>2, <2>1, Begun DEF Progress
    <2>2. CASE ~Refused(c)
      <3>1. \A u \in DOMAIN jobs' : jobs'[u].at = "queued"
        BY <1>2, <2>2, Begun
      <3> QED BY <3>1 DEF Progress, At
    <2> QED BY <2>1, <2>2
  <1>3. CASE End \/ Killed BY <1>3 DEF End, Killed, Exit, Progress
  <1>4. CASE UNCHANGED vars
    BY <1>4 DEF vars, Progress, Apart, Settled, IsOutput, At
  <1> QED BY <1>1, <1>2, <1>3, <1>4 DEF Next, Work, Over, UnitStep

(* A process that ends with exit 0 has done all its units without failure. *)
LEMMA EndMeans ==
  ASSUME IInv, Counted, [Next]_vars, Ended({0})',
         ~(UNCHANGED <<fs, locked, cmd, log>>)
  PROVE  /\ cmd # Nil /\ Batched(cmd) /\ Apart(cmd) /\ failed = 0
         /\ \A u \in DOMAIN jobs : At(u, "done")
         /\ Last(log').cmd = cmd /\ Last(log').before = Last(log).before
         /\ UNCHANGED <<fs, locked>> /\ Last(log).cmd = cmd
  <1>1. cmd' = Nil /\ Last(log').exit = 0 /\ Apart(Last(log').cmd)
    BY DEF Ended, Apart
  <1>2. 0 \in Nat /\ Nil # 0 BY ToolAssumption
  <1>3. ASSUME NEW x \in {Nil, 0, 1}, cmd # Nil, Exit(x)
        PROVE  /\ x = 0 /\ Batched(cmd) /\ Apart(cmd)
               /\ Last(log').cmd = cmd /\ Last(log').before = Last(log).before
               /\ UNCHANGED <<fs, locked>> /\ Last(log).cmd = cmd
    <2>1. log # <<>> /\ Logged /\ Last(log).cmd = cmd BY <1>3 DEF IInv, Typed
    <2>2. /\ Last(log').cmd = cmd /\ Last(log').exit = x
          /\ Last(log').before = Last(log).before
      BY <1>3, <2>1, LogExit
    <2>3. x = 0 /\ Apart(cmd) BY <1>1, <2>2
    <2>4. Batched(cmd) BY <1>3, <2>3 DEF IInv, Typed, Batched, Apart
    <2> QED BY <1>3, <2>1, <2>2, <2>3, <2>4 DEF Exit
  <1>4. CASE End
    <2>1. /\ cmd # Nil /\ \A u \in DOMAIN jobs : At(u, "done")
          /\ Exit(IF failed > 0 THEN 1 ELSE 0)
      BY <1>4 DEF End
    <2>2. (IF failed > 0 THEN 1 ELSE 0) = 0 BY <1>3, <2>1
    <2>3. failed = 0 BY <2>2 DEF Counted
    <2> QED BY <1>3, <2>1, <2>2, <2>3
  <1>5. CASE Killed
    <2>1. cmd # Nil /\ Exit(Nil) BY <1>5 DEF Killed
    <2> QED BY <1>2, <1>3, <2>1
  <1>6. ASSUME NEW u \in DOMAIN jobs, UnitStep(u) PROVE FALSE
    BY <1>1, <1>6, StepAlone
  <1>7. ASSUME NEW c \in Commands, Invoke(c) PROVE FALSE
    <2>1. CASE Refused(c)
      <3>1. Last(log') = [cmd |-> c, exit |-> 2, before |-> fs]
        BY <1>7, <2>1, LogAppend DEF Invoke, IInv
      <3>2. Last(log').exit = 2 BY <3>1
      <3> QED BY <1>1, <3>2
    <2>2. CASE ~Refused(c) BY <1>1, <1>7, <2>2, Begun
    <2> QED BY <2>1, <2>2
  <1> QED BY <1>4, <1>5, <1>6, <1>7 DEF Next, Work, Over, UnitStep, vars
(* After exit 0 every target is there.                                     *)
LEMMA AllThereNext ==
  ASSUME IInv, Counted, Planned, Progress, AllThere, [Next]_vars
  PROVE  AllThere'
  <1>1. DOMAIN fs \subseteq Paths /\ DOMAIN fs' \subseteq Paths
    <2>1. IInv' BY InvNext
    <2> QED BY <2>1 DEF IInv, Typed
  <1>2. SUFFICES ASSUME Ended({0})', NEW c, Last(log').cmd = c
                 PROVE  \A u \in discover(c)' : u.out \in DOMAIN fs'
    BY DEF AllThere
  <1>3. CASE UNCHANGED <<fs, locked, cmd, log>>
    <2>1. Ended({0}) /\ Last(log).cmd = c BY <1>2, <1>3 DEF Ended, Apart
    <2>2. discover(c)' = discover(c) BY <1>3 DEF discover, Found, Turned, Walk,
       Wanted, IsCsencFile, Reaches, Readable, IsDir, Unit, Spelled, Clean,
       Base, Rel, Same
    <2> QED BY <1>3, <2>1, <2>2 DEF AllThere
  <1>4. CASE ~(UNCHANGED <<fs, locked, cmd, log>>)
    <2>1. /\ cmd # Nil /\ Batched(cmd) /\ Apart(cmd) /\ failed = 0 /\ cmd = c
          /\ \A u \in DOMAIN jobs : At(u, "done")
          /\ UNCHANGED <<fs, locked>>
      BY <1>2, <1>4, EndMeans
    <2>2. \A u \in discover(c) : u.out \in DOMAIN fs
      BY <2>1 DEF Planned, Progress, Settled
    <2>3. discover(c)' = discover(c) BY <1>1, <2>1, DiscoverStays
    <2> QED BY <2>1, <2>2, <2>3
  <1> QED BY <1>3, <1>4

(* The same command, given again with -skip-existing, skips every unit.    *)
LEMMA IdleNext ==
  ASSUME IInv, AllThere, Idle, [Next]_vars PROVE Idle'
  <1>1. ASSUME NEW u \in DOMAIN jobs, UnitStep(u) PROVE Idle'
    <2>1. /\ UNCHANGED <<cmd, log>> /\ DOMAIN jobs' = DOMAIN jobs
          /\ \A v \in DOMAIN jobs : v # u => jobs'[v] = jobs[v]
      BY <1>1, StepAlone
    <2>2. Again' <=> Again BY <2>1 DEF Again, Apart
    <2>3. SUFFICES ASSUME Again
                   PROVE  \A v \in DOMAIN jobs : v.out \in DOMAIN fs' /\
                            jobs'[v].at \in {"queued", "done"}
      BY <2>1, <2>2 DEF Idle
    <2>4. \A v \in DOMAIN jobs :
            v.out \in DOMAIN fs /\ jobs[v].at \in {"queued", "done"}
      BY <2>3 DEF Idle
    <2>5. Take(u)
      BY <1>1, <2>4, OpenDoes, PlaceDoes, FailDoes DEF UnitStep
    <2>6. UNCHANGED fs BY <2>5, TakeDoes
    <2>7. Skips(u) BY <2>3, <2>4 DEF Skips, Again, Apart
    <2>8. jobs'[u].at = "done" BY <2>5, <2>7, TakeDoes
    <2> QED BY <2>1, <2>4, <2>6, <2>8
  <1>2. ASSUME NEW c \in Commands, Invoke(c) PROVE Idle'
    <2>1. CASE Refused(c) BY <1>2, <2>1, Begun DEF Idle, Again
    <2>2. CASE ~Refused(c)
      <3>1. cmd = Nil /\ cmd' = c /\ UNCHANGED fs BY <1>2, <2>2, Begun
      <3>2. SUFFICES ASSUME Again'
                     PROVE  /\ Batched(c) /\ DOMAIN jobs' = discover(c)
                            /\ \A u \in DOMAIN jobs' : jobs'[u].at = "queued"
                            /\ Ended({0}) /\ Last(log).cmd = c
        BY <3>1 DEF Idle, AllThere
      <3>3. Apart(c) /\ c.o = Nil BY <3>1, <3>2 DEF Again, Apart
      <3>4. PICK S : log \in Seq(Entries(S)) BY DEF IInv, Logged
      <3> DEFINE n == Len(log)
                 e == [cmd |-> c, exit |-> Nil, before |-> fs]
      <3>5. log' = Append(log, e) BY <1>2, <2>2 DEF Invoke
      <3>6. Len(log') = n + 1 /\ n \in Nat /\ \A i \in 1..n : log'[i] = log[i]
        <4>1. Entries(S) \subseteq Entries(S \cup {fs}) BY DEF Entries
        <4>2. log \in Seq(Entries(S \cup {fs})) BY <3>4, <4>1, SeqMonotonic
        <4>3. e \in Entries(S \cup {fs}) BY DEF Entries
        <4> HIDE DEF e
        <4> QED BY <3>5, <4>2, <4>3, AppendProperties, LenProperties
      <3>7. n > 0 /\ log'[n].cmd = c /\ log'[n].exit = 0
        BY <3>1, <3>2, <3>6 DEF Again
      <3>8. log # <<>> /\ Last(log).cmd = c /\ Last(log).exit = 0
        <4>1. log # <<>> BY <3>4, <3>7, EmptySeq
        <4>2. log'[n] = log[n] BY <3>6, <3>7
        <4> QED BY <3>7, <4>1, <4>2 DEF Last
      <3>9. Ended({0}) BY <3>1, <3>3, <3>8 DEF Ended
      <3> QED BY <1>2, <2>2, <3>3, <3>8, <3>9, Begun
    <2> QED BY <2>1, <2>2
  <1>3. CASE End \/ Killed BY <1>3 DEF End, Killed, Exit, Idle, Again
  <1>4. CASE UNCHANGED vars BY <1>4 DEF vars, Idle, Again, Apart
  <1> QED BY <1>1, <1>2, <1>3, <1>4 DEF Next, Work, Over, UnitStep

(* Before any process.                                                     *)
LEMMA ExitInit == Init => EInv
  <1> SUFFICES ASSUME Init PROVE EInv
    OBVIOUS
  <1>1. IInv BY InvInit
  <1>2. Counted /\ Tree BY ToolAssumption DEF Init, Counted, Tree
  <1>3. cmd = Nil /\ log = <<>> /\ DOMAIN jobs = {} BY DEF Init
  <1> QED BY <1>1, <1>2, <1>3 DEF EInv, Held, Planned, Covered, Progress,
       AllThere, Ended, Idle, Again

(* What a step of any process keeps.                                       *)
LEMMA ExitNext == EInv /\ [Next]_vars => EInv'
  <1> SUFFICES ASSUME EInv, [Next]_vars PROVE EInv'
    OBVIOUS
  <1>1. /\ IInv /\ Counted /\ Tree /\ Held
        /\ Planned /\ Covered /\ Progress /\ AllThere /\ Idle
    BY DEF EInv
  <1>2. IInv' BY <1>1, InvNext
  <1>3. Counted' /\ Tree' /\ Held' BY <1>1, CountedNext, TreeNext, HeldNext
  <1>4. Planned' /\ Covered' BY <1>1, PlannedNext, CoveredNext
  <1>5. Progress' /\ AllThere' /\ Idle'
    BY <1>1, ProgressNext, AllThereNext, IdleNext
  <1> QED BY <1>2, <1>3, <1>4, <1>5 DEF EInv

(* The inductive invariant: the shape of the tree and the temporary files, *)
(* what discovery promised and what has become of it.                      *)
THEOREM ExitInvariant == Spec => []EInv
  BY ExitInit, ExitNext, PTL DEF Spec

(* The same command with -skip-existing after an exit 0 touches nothing.   *)
THEOREM RerunIsIdle == Spec => RerunChangesNothing
  <1>1. EInv /\ [Next]_vars => [Again => fs' = fs]_vars
    <2> SUFFICES ASSUME EInv, Next, Again PROVE fs' = fs
      BY DEF vars
    <2>1. IInv /\ \A u \in DOMAIN jobs : jobs[u].at \in {"queued", "done"}
      BY DEF EInv, Idle
    <2>2. ASSUME NEW u \in DOMAIN jobs, UnitStep(u) PROVE fs' = fs
      BY <2>1, <2>2, TakeDoes, OpenDoes, PlaceDoes, FailDoes DEF UnitStep
    <2>3. CASE End \/ Killed \/ Over \/ \E c \in Commands : Invoke(c)
      BY <2>3 DEF End, Killed, Exit, Over, vars, Invoke
    <2> QED BY <2>2, <2>3 DEF Next, Work, UnitStep
  <1>2. RerunChangesNothing <=> [][Again => fs' = fs]_vars
    BY DEF RerunChangesNothing, Again
  <1> QED BY <1>1, <1>2, ExitInvariant, PTL DEF Spec
----------------------------------------------------------------------------
(* What exit 0 says.                                                       *)

(* What is made of whole contents is whole, and parts are not accepted.    *)
LEMMA MadeWhole ==
  ASSUME NEW W, Whole(W), NEW mode, NEW c, Accepts(mode, c),
         c \in W \/ (mode = "decrypt" /\ c \in Parts)
  PROVE  Made(mode, c) \in W
  <1>1. \A p \in Parts : ~Encrypted(p) BY DEF Parts, Torn, Scrap, Encrypted
  <1>2. c \in W BY <1>1 DEF Accepts
  <1> QED BY <1>2 DEF Whole, Accepts, Made

(* Where no command takes up what a kill has left, files are whole but for *)
(* those with the name of a temporary one.                                 *)
LEMMA ContentsNext ==
  ASSUME NEW W, Whole(W), IInv, Contents(W), LeftoversFail, [Next]_vars
  PROVE  Contents(W)'
  <1>1. ASSUME NEW u \in DOMAIN jobs, UnitStep(u) PROVE Contents(W)'
    <2>1. /\ UNCHANGED <<cmd, log>> /\ DOMAIN jobs' = DOMAIN jobs
          /\ \A v \in DOMAIN jobs : v # u => jobs'[v] = jobs[v]
      BY <1>1, StepAlone
    <2>2. log # <<>> => \A p \in DOMAIN Last(log).before :
                          ~Temporary(p) => Last(log).before[p] \in W
      BY DEF Contents
    <2>3. CASE Open(u)
      <3> DEFINE in == Clean(u.in)
                 tmp == jobs'[u].tmp
      <3>1. /\ in \in DOMAIN fs /\ jobs'[u].data = fs[in]
            /\ DOMAIN fs' = DOMAIN fs \cup {tmp}
            /\ \A p \in DOMAIN fs : fs'[p] = fs[p]
            /\ \E t \in TempNames : t \in Names /\ tmp = Append(Front(u.out), t)
        BY <2>3, OpenDoes
      <3>2. Temporary(tmp)
        <4>1. Front(u.out) \in Paths BY FrontMeans DEF IInv, Typed
        <4> QED BY <3>1, <4>1, InDirectory DEF Temporary
      <3>3. fs[in] \in W \/ (cmd.mode = "decrypt" /\ fs[in] \in Parts)
        <4>1. CASE Temporary(in) BY <3>1, <4>1 DEF LeftoversFail
        <4>2. CASE ~Temporary(in) BY <3>1, <4>2 DEF Contents
        <4> QED BY <4>1, <4>2
      <3> HIDE DEF tmp, in
      <3>4. \A p \in DOMAIN fs' : ~Temporary(p) => fs'[p] \in W
        BY <3>1, <3>2 DEF Contents
      <3>5. \A v \in DOMAIN jobs : jobs'[v].at = "open" =>
              \/ jobs'[v].data \in W
              \/ cmd.mode = "decrypt" /\ jobs'[v].data \in Parts
        BY <2>1, <3>1, <3>3 DEF Contents, At
      <3> QED BY <2>1, <2>2, <3>4, <3>5 DEF Contents, At, Temporary, Parts
    <2>4. CASE ~Open(u)
      <3>1. jobs'[u].at # "open"
        BY <1>1, <2>4, TakeDoes, PlaceDoes, FailDoes DEF UnitStep
      <3>2. \A p \in DOMAIN fs' : ~Temporary(p) => fs'[p] \in W
        <4>1. CASE Take(u) BY <4>1, TakeDoes DEF Contents
        <4>2. CASE Place(u)
          <5>1. /\ At(u, "open") /\ Accepts(cmd.mode, jobs[u].data)
                /\ DOMAIN fs' = (DOMAIN fs \ {jobs[u].tmp}) \cup {u.out}
                /\ fs'[u.out] = Made(cmd.mode, jobs[u].data)
                /\ \A p \in DOMAIN fs :
                     p # u.out /\ p # jobs[u].tmp => fs'[p] = fs[p]
            BY <4>2, PlaceDoes DEF At
          <5>2. \/ jobs[u].data \in W
                \/ cmd.mode = "decrypt" /\ jobs[u].data \in Parts
            BY <5>1 DEF Contents
          <5>3. Made(cmd.mode, jobs[u].data) \in W BY <5>1, <5>2, MadeWhole
          <5> QED BY <5>1, <5>3 DEF Contents
        <4>3. CASE Fail(u) BY <4>3, FailDoes DEF Contents
        <4> QED BY <1>1, <2>4, <4>1, <4>2, <4>3 DEF UnitStep
      <3>3. \A v \in DOMAIN jobs : jobs'[v].at = "open" =>
              \/ jobs'[v].data \in W
              \/ cmd.mode = "decrypt" /\ jobs'[v].data \in Parts
        BY <2>1, <3>1 DEF Contents, At
      <3> QED BY <2>1, <2>2, <3>2, <3>3 DEF Contents, At, Temporary, Parts
    <2> QED BY <2>3, <2>4
  <1>2. ASSUME NEW c \in Commands, Invoke(c) PROVE Contents(W)'
    <2>1. UNCHANGED fs /\ \A u \in DOMAIN jobs' : jobs'[u].at # "open"
      <3>1. CASE Refused(c) BY <1>2, <3>1, Begun
      <3>2. CASE ~Refused(c) BY <1>2, <3>2, Begun
      <3> QED BY <3>1, <3>2
    <2>2. Last(log').before = fs
      <3>1. CASE Refused(c)
        <4>1. Last(log') = [cmd |-> c, exit |-> 2, before |-> fs]
          BY <1>2, <3>1, LogAppend DEF Invoke, IInv
        <4> QED BY <4>1
      <3>2. CASE ~Refused(c) BY <1>2, <3>2, Begun
      <3> QED BY <3>1, <3>2
    <2> QED BY <2>1, <2>2 DEF Contents, At, Temporary
  <1>3. ASSUME NEW x \in {Nil, 0, 1}, cmd # Nil, Exit(x) PROVE Contents(W)'
    <2>1. log # <<>> /\ Logged BY <1>3 DEF IInv, Typed
    <2>2. Last(log').before = Last(log).before BY <1>3, <2>1, LogExit
    <2>3. UNCHANGED fs /\ DOMAIN jobs' = {} BY <1>3 DEF Exit
    <2> QED BY <2>1, <2>2, <2>3 DEF Contents, Temporary
  <1>4. CASE UNCHANGED vars
    BY <1>4 DEF vars, Contents, At, Temporary, Parts
  <1>5. CASE End \/ Killed
    <2>1. cmd # Nil /\ \E x \in {Nil, 0, 1} : Exit(x)
      BY <1>5 DEF End, Killed
    <2> QED BY <1>3, <2>1
  <1> QED BY <1>1, <1>2, <1>4, <1>5 DEF Next, Work, Over, UnitStep

(* The end of a process with exit 0.                                       *)
LEMMA ExitTellsNext ==
  ASSUME NEW W, Whole(W), EInv, Contents(W), LeftoversFail, ExitTells,
         [Next]_vars
  PROVE  ExitTells'
  <1> SUFFICES ASSUME Ended({0})' PROVE ExitTells'
    BY DEF ExitTells
  <1>1. CASE UNCHANGED <<fs, locked, cmd, log>>
    BY <1>1 DEF ExitTells, Ended, Apart, Reaches, Readable, IsOutput
  <1>2. CASE ~(UNCHANGED <<fs, locked, cmd, log>>)
    <2> DEFINE B == Last(log).before
               files == {p \in DOMAIN B : Ways(cmd, p) # {}}
    <2>1. /\ cmd # Nil /\ Batched(cmd) /\ Apart(cmd) /\ failed = 0
          /\ \A u \in DOMAIN jobs : At(u, "done")
          /\ Last(log').cmd = cmd /\ Last(log').before = B
          /\ UNCHANGED <<fs, locked>> /\ Last(log).cmd = cmd
      BY <1>2, EndMeans DEF EInv
    <2>2. Typed /\ Aimed /\ Kept /\ Opened
      BY <2>1 DEF EInv, IInv, Working
    <2>3. Covers(cmd, B, DOMAIN jobs) /\ \A u \in DOMAIN jobs : Settled(u)
      BY <2>1 DEF EInv, Covered, Progress
    <2>4. ASSUME NEW p \in files, Readable(p),
                 cmd.mode = "encrypt" \/ Encrypted(B[p])
          PROVE  \E t \in Targets(cmd, p) \cap DOMAIN fs :
                   \/ IsOutput(Last(log), t)
                   \/ cmd.skip /\ t \in DOMAIN B /\ fs[t] \notin {Torn, Scrap}
      <3>1. PICK u \in DOMAIN jobs : Clean(u.in) = p /\ u.out \in Targets(cmd, p)
        <4>1. p \in DOMAIN B /\ Ways(cmd, p) # {} BY <2>4
        <4>2. Readable(p) BY <2>4
        <4>3. cmd.mode = "encrypt" \/ Encrypted(B[p]) BY <2>4
        <4> HIDE DEF B, files
        <4> QED BY <2>3, <4>1, <4>2, <4>3 DEF Covers
      <3>2. Settled(u) BY <2>3
      <3>3. CASE ~IsOutput(Last(log), u.out)
        <4>1. /\ cmd.skip /\ u.out \in DOMAIN B /\ u.out \in DOMAIN fs
              /\ fs[u.out] = B[u.out]
          BY <3>2, <3>3 DEF Settled
        <4>2. ~Temporary(u.out)
          <5>1. p \in DOMAIN fs BY <2>2 DEF Kept
          <5>2. fs[p] = B[p] BY <2>1, <2>2, <3>1, <5>1, SourceKept
          <5>3. \A q \in Parts : ~Encrypted(q)
            BY DEF Parts, Torn, Scrap, Encrypted
          <5>4. ~(cmd.mode = "decrypt" /\ fs[p] \in Parts)
            BY <2>4, <5>2, <5>3
          <5> QED BY <3>1, <5>1, <5>4 DEF LeftoversFail
        <4>3. log # <<>> BY <2>1, <2>2 DEF Typed
        <4>4. fs[u.out] \in W BY <4>1, <4>2, <4>3 DEF Contents
        <4>5. fs[u.out] \notin {Torn, Scrap} BY <4>4 DEF Whole, Parts
        <4> QED BY <3>1, <4>1, <4>5
      <3>4. CASE IsOutput(Last(log), u.out) BY <3>1, <3>2, <3>4 DEF Settled
      <3> QED BY <3>3, <3>4
    <2>5. \A t : IsOutput(Last(log), t) => IsOutput(Last(log), t)'
      BY <2>1 DEF IsOutput
    <2>6. \A in \in ToSet(cmd.inputs) : \E p \in files : in \in Ways(cmd, p)
      BY <2>3 DEF Covers
    <2>7. \A p \in files : Reaches(p) BY <2>3 DEF Covers
    <2>8. /\ \A p : Reaches(p)' <=> Reaches(p)
          /\ \A p : Readable(p)' <=> Readable(p)
      BY <2>1 DEF Reaches, Readable
    <2> QED BY <2>1, <2>4, <2>5, <2>6, <2>7, <2>8 DEF ExitTells
  <1> QED BY <1>1, <1>2

(* Exit 0 says that every input was there and every directory listed, and  *)
(* that every file the command was to find has an output, made in this run *)
(* or there before and whole.                                              *)
THEOREM ExitCodeTells ==
  ASSUME NEW CONSTANT W, Whole(W)
  PROVE  Spec /\ []LeftoversFail => []ExitTells
  <1>1. Init => Contents(W) /\ ExitTells
    <2>1. ASSUME Init PROVE Contents(W) /\ ExitTells
      <3>1. \A p \in DOMAIN fs : fs[p] \in W BY <2>1 DEF Init, Whole
      <3>2. cmd = Nil /\ log = <<>> /\ DOMAIN jobs = {} BY <2>1 DEF Init
      <3> QED BY <3>1, <3>2 DEF Contents, ExitTells, Ended
    <2> QED BY <2>1
  <1>2. EInv /\ LeftoversFail /\ (Contents(W) /\ ExitTells) /\ [Next]_vars
        => (Contents(W) /\ ExitTells)'
    BY ContentsNext, ExitTellsNext DEF EInv
  <1> QED BY <1>1, <1>2, ExitInvariant, PTL DEF Spec
----------------------------------------------------------------------------
(* Commands that keep to themselves.                                       *)

(* Where a command puts its temporary files.                               *)
LeavesAt(d, p) ==
  IF d.o # Nil THEN \E t \in TempNames : p = Append(Front(d.o), t)
               ELSE IsPrefix(d.outdir, p)

(* No encryption is given a file or directory that one of the commands     *)
(* writes to, and nobody calls a file what CreateTemp would call it.       *)
Separate ==
  /\ \A t \in Trees : \A p \in DOMAIN t.files : ~Temporary(p)
  /\ \A c \in Commands : c.o # Nil => ~Temporary(c.o)
  /\ \A c, d \in Commands : \A in \in ToSet(c.inputs) :
       c.mode = "encrypt" /\ ~Refused(c) /\ ~Refused(d) =>
         IF d.o # Nil
         THEN \A t \in TempNames : ~IsPrefix(Clean(in), Append(Front(d.o), t))
         ELSE ~IsPrefix(Clean(in), d.outdir) /\ ~IsPrefix(d.outdir, Clean(in))

(* A file with a temporary name is a part that one of the commands left.   *)
Litter ==
  \A p \in DOMAIN fs : Temporary(p) =>
    /\ fs[p] \in Parts
    /\ \E d \in Commands : ~Refused(d) /\ LeavesAt(d, p)

(* A unit comes from an input, keeps its name, and leaves its temporary    *)
(* file where its command does.                                            *)
Placed(c, u) ==
  /\ \E in \in ToSet(c.inputs) :
       Clean(in) \in Paths /\ IsPrefix(Clean(in), Clean(u.in))
  /\ Temporary(u.out) => Temporary(Clean(u.in))
  /\ \A t \in TempNames : LeavesAt(c, Append(Front(u.out), t))

(* A unit to a temporary name has read a part, which will fail.            *)
Doomed(u) ==
  At(u, "open") /\ Temporary(u.out) =>
    cmd.mode = "decrypt" /\ jobs[u].data \in Parts

SInv == Litter /\ \A u \in DOMAIN jobs : Placed(cmd, u) /\ Doomed(u)

(* The last name of a path that ends in another.                           *)
LEMMA LastOfConcat ==
  ASSUME NEW a \in Paths, NEW r \in Paths, r # <<>>
  PROVE  a \o r \in Paths \ {<<>>} /\ Last(a \o r) = Last(r)
  <1>1. Len(a) \in Nat /\ Len(r) \in Nat /\ Len(r) # 0
    BY LenProperties, EmptySeq DEF Paths
  <1>2. /\ a \o r \in Paths /\ Len(a \o r) = Len(a) + Len(r)
        /\ (a \o r)[Len(a) + Len(r)] = r[Len(r)]
    BY <1>1, ConcatProperties DEF Paths
  <1>3. a \o r # <<>> BY <1>1, <1>2, EmptySeq
  <1> QED BY <1>2, <1>3 DEF Last

(* What is below a directory keeps its last name, seen from there.         *)
LEMMA LastOfRel ==
  ASSUME NEW a \in Paths, NEW p \in Paths, IsStrictPrefix(a, p)
  PROVE  Rel(a, p) \in Paths \ {<<>>} /\ Last(Rel(a, p)) = Last(p)
  <1>1. Len(a) \in Nat /\ Len(p) \in Nat BY LenProperties DEF Paths
  <1>2. Len(a) < Len(p)
    <2>1. IsPrefix(a, p) /\ a # p BY DEF IsStrictPrefix
    <2>2. Len(a) <= Len(p) /\ \A i \in 1..Len(a) : a[i] = p[i]
      BY <2>1, PrefixMeans
    <2>3. Len(a) = Len(p) => a = p BY <2>2, SeqEqual DEF Paths
    <2> QED BY <1>1, <2>1, <2>2, <2>3
  <1> DEFINE r == SubSeq(p, Len(a) + 1, Len(p))
             n == Len(p) - Len(a)
  <1>3. \A i \in Len(a) + 1..Len(p) : p[i] \in Names
    BY <1>1, ElementOfSeq DEF Paths
  <1>4. n \in Nat \ {0} /\ Len(a) + n = Len(p) BY <1>1, <1>2
  <1>5. r \in Paths /\ Len(r) = n /\ r[n] = p[Len(a) + n]
    BY <1>1, <1>2, <1>3, SubSeqProperties DEF Paths
  <1> HIDE DEF r, n
  <1>6. r # <<>> BY <1>4, <1>5, EmptySeq
  <1>7. Last(r) = Last(p) BY <1>4, <1>5 DEF Last
  <1>8. Rel(a, p) = r BY DEF r, Rel
  <1> QED BY <1>5, <1>6, <1>7, <1>8

(* A target has the name of its source.                                    *)
LEMMA LastOfTarget ==
  ASSUME NEW c, Batched(c), NEW p \in Paths \ {<<>>}, NEW t \in Targets(c, p)
  PROVE  Last(t) = Last(p)
  <1>1. PICK in \in Ways(c, p) :
          t = c.outdir \o (Base(Clean(in)) \o Rel(Clean(in), p))
    BY DEF Targets, Batched
  <1> DEFINE a == Clean(in)
             b == Base(a)
             r == Rel(a, p)
  <1>2. a \in Paths /\ c.outdir \in Paths /\ (p = a \/ IsStrictPrefix(a, p))
    BY BatchedMeans DEF Ways
  <1>3. b \in Paths /\ r \in Paths BY <1>2, BaseType, RelType
  <1>4. b \o r \in Paths \ {<<>>} /\ Last(b \o r) = Last(p)
    <2>1. CASE p = a
      <3>1. b \o r = b BY <1>2, <1>3, <2>1, RelType, ConcatEmptySeq DEF Paths
      <3>2. b = <<Last(p)>> BY <2>1 DEF Base
      <3>3. b # <<>> /\ Last(b) = Last(p) BY <3>2 DEF Last
      <3> HIDE DEF b, r
      <3> QED BY <1>3, <3>1, <3>3
    <2>2. CASE IsStrictPrefix(a, p)
      <3>1. r # <<>> /\ Last(r) = Last(p) BY <1>2, <2>2, LastOfRel
      <3> HIDE DEF b, r
      <3> QED BY <1>3, <3>1, LastOfConcat
    <2> QED BY <1>2, <2>1, <2>2
  <1> HIDE DEF b, r
  <1>5. t = c.outdir \o (b \o r) BY <1>1 DEF b, r
  <1> QED BY <1>2, <1>4, <1>5, LastOfConcat

(* So it is with every unit a process begins with.                         *)
LEMMA BegunPlaced ==
  ASSUME IInv, Separate, NEW c \in Commands, Invoke(c),
         NEW u \in DOMAIN jobs'
  PROVE  Placed(c, u)
  <1>1. ~Refused(c) /\ c # Nil BY Begun
  <1>2. CASE c.o = Nil
    <2>1. Batched(c) /\ u \in discover(c) BY <1>1, <1>2, Begun
    <2>2. /\ Clean(u.in) \in Paths \ {<<>>}
          /\ u.out \in Targets(c, Clean(u.in))
      BY <2>1, DiscoverMeans DEF IInv, Typed
    <2>3. c.outdir \in Paths BY <2>1, BatchedMeans
    <2>4. PICK r \in Paths : r # <<>> /\ u.out = c.outdir \o r
      BY <2>1, <2>2, TargetsMeans
    <2>5. PICK in \in ToSet(c.inputs) : IsPrefix(Clean(in), Clean(u.in))
      BY <2>1, <2>2, TargetsMeans
    <2>6. Clean(in) \in Paths BY <2>1, BatchedMeans
    <2>7. Last(u.out) = Last(Clean(u.in)) BY <2>1, <2>2, LastOfTarget
    <2>8. \A t \in TempNames : IsPrefix(c.outdir, Append(Front(u.out), t))
      <3>1. TempNames \subseteq Names BY ToolAssumption
      <3> QED BY <2>3, <2>4, <3>1, Beside
    <2> QED BY <1>2, <2>5, <2>6, <2>7, <2>8 DEF Placed, Temporary, LeavesAt
  <1>3. CASE c.o # Nil
    <2>1. u = Unit(c.inputs[1], c.o)
      <3>1. jobs' = [v \in {Unit(c.inputs[1], c.o)} |-> Queued]
        BY <1>1, <1>3 DEF Invoke
      <3> QED BY <3>1
    <2>2. u.in = c.inputs[1] /\ u.out = c.o BY <2>1 DEF Unit
    <2>3. c.inputs \in Seq(Inputs) /\ Len(c.inputs) = 1
      BY <1>1, <1>3, ToolAssumption DEF Refused
    <2>4. c.inputs[1] \in ToSet(c.inputs) /\ c.inputs[1] \in Inputs
      BY <2>3, LenProperties, ElementOfSeq DEF ToSet
    <2>5. Clean(u.in) \in Paths BY <2>2, <2>4 DEF Inputs, Clean
    <2>6. IsPrefix(Clean(u.in), Clean(u.in)) BY <2>5, PrefixOrder
    <2>7. ~Temporary(u.out) BY <1>3, <2>2 DEF Separate
    <2> QED BY <1>3, <2>2, <2>4, <2>5, <2>6, <2>7 DEF Placed, LeavesAt
  <1> QED BY <1>2, <1>3

(* Then leftovers are taken up by decryptions only.                        *)
LEMMA LeftoversKnown ==
  ASSUME IInv, Separate, SInv PROVE LeftoversFail
  <1> SUFFICES ASSUME NEW u \in DOMAIN jobs, Clean(u.in) \in DOMAIN fs,
                      Temporary(Clean(u.in)) \/ Temporary(u.out)
               PROVE  cmd.mode = "decrypt" /\ fs[Clean(u.in)] \in Parts
    BY DEF LeftoversFail
  <1> DEFINE p == Clean(u.in)
  <1>1. Temporary(p) BY DEF SInv, Placed
  <1>2. fs[p] \in Parts BY <1>1 DEF SInv, Litter
  <1>3. PICK d \in Commands : ~Refused(d) /\ LeavesAt(d, p)
    BY <1>1 DEF SInv, Litter
  <1>4. PICK in \in ToSet(cmd.inputs) :
          Clean(in) \in Paths /\ IsPrefix(Clean(in), p)
    BY DEF SInv, Placed
  <1>5. cmd \in Commands /\ ~Refused(cmd) /\ p \in Paths BY DEF IInv, Typed
  <1>6. ASSUME cmd.mode = "encrypt" PROVE FALSE
    <2>1. CASE d.o # Nil
      BY <1>3, <1>4, <1>5, <1>6, <2>1 DEF LeavesAt, Separate
    <2>2. CASE d.o = Nil
      <3>1. IsPrefix(d.outdir, p) BY <1>3, <2>2 DEF LeavesAt
      <3>2. d.outdir \in Paths
        BY <1>3, <2>2, ToolAssumption DEF Refused
      <3>3. IsPrefix(Clean(in), d.outdir) \/ IsPrefix(d.outdir, Clean(in))
        BY <1>4, <1>5, <3>1, <3>2, Comparable
      <3> QED BY <1>3, <1>4, <1>5, <1>6, <2>2, <3>3 DEF Separate
    <2> QED BY <2>1, <2>2
  <1>7. cmd.mode \in {"encrypt", "decrypt"} BY <1>5, ToolAssumption
  <1> QED BY <1>2, <1>6, <1>7

(* And every step keeps it so.                                             *)
LEMMA SInvNext ==
  ASSUME IInv, Separate, SInv, [Next]_vars PROVE SInv'
  <1> USE DEF SInv
  <1>1. ASSUME NEW u \in DOMAIN jobs, UnitStep(u) PROVE SInv'
    <2>1. /\ cmd # Nil /\ UNCHANGED cmd /\ DOMAIN jobs' = DOMAIN jobs
          /\ \A v \in DOMAIN jobs : v # u => jobs'[v] = jobs[v]
      BY <1>1, StepAlone
    <2>2. \A v \in DOMAIN jobs' : Placed(cmd', v) BY <2>1
    <2>3. LeftoversFail BY LeftoversKnown
    <2>4. CASE Open(u)
      <3> DEFINE in == Clean(u.in)
                 tmp == jobs'[u].tmp
      <3>1. /\ in \in DOMAIN fs /\ jobs'[u].data = fs[in]
            /\ tmp \notin DOMAIN fs /\ DOMAIN fs' = DOMAIN fs \cup {tmp}
            /\ \A p \in DOMAIN fs : fs'[p] = fs[p]
            /\ \E t \in TempNames : tmp = Append(Front(u.out), t)
        BY <2>4, OpenDoes
      <3>2. Doomed(u)'
        BY <2>1, <2>3, <3>1 DEF LeftoversFail, Doomed, Temporary, Parts
      <3>3. \A v \in DOMAIN jobs : v # u => Doomed(v)'
        BY <2>1 DEF Doomed, At, Temporary, Parts
      <3>4. fs'[tmp] \in Parts
        <4>1. tmp = CreateTemp(Front(u.out))
          <5> DEFINE e == [at |-> "open", data |-> fs[in],
                           tmp |-> CreateTemp(Front(u.out))]
          <5>1. jobs' = [jobs EXCEPT ![u] = e] BY <2>4 DEF Open
          <5>2. e.tmp = CreateTemp(Front(u.out)) OBVIOUS
          <5> HIDE DEF e
          <5>3. jobs = [v \in DOMAIN jobs |-> jobs[v]] BY DEF IInv, Typed
          <5>4. jobs'[u] = e BY <5>1, <5>3
          <5> QED BY <5>2, <5>4
        <4>2. PICK left \in Parts :
                fs' = Stored(fs, CreateTemp(Front(u.out)), left)
          BY <2>4 DEF Open, Parts
        <4> HIDE DEF tmp
        <4> QED BY <4>1, <4>2 DEF Stored
      <3>5. \E d \in Commands : ~Refused(d) /\ LeavesAt(d, tmp)
        <4>1. cmd \in Commands /\ ~Refused(cmd) BY <2>1 DEF IInv, Typed
        <4>2. LeavesAt(cmd, tmp) BY <3>1 DEF Placed
        <4> QED BY <4>1, <4>2
      <3> HIDE DEF tmp
      <3>6. Litter'
        BY <3>1, <3>4, <3>5 DEF Litter, Temporary, Parts, LeavesAt, Refused
      <3> QED BY <2>1, <2>2, <3>2, <3>3, <3>6
    <2>5. CASE ~Open(u)
      <3>1. jobs'[u].at # "open"
        BY <1>1, <2>5, TakeDoes, PlaceDoes, FailDoes DEF UnitStep
      <3>2. \A v \in DOMAIN jobs : Doomed(v)'
        BY <2>1, <3>1 DEF Doomed, At, Temporary, Parts
      <3>3. \A p \in DOMAIN fs' :
              Temporary(p) => p \in DOMAIN fs /\ fs'[p] = fs[p]
        <4>1. CASE Take(u) BY <4>1, TakeDoes
        <4>2. CASE Place(u)
          <5>1. /\ At(u, "open") /\ Accepts(cmd.mode, jobs[u].data)
                /\ DOMAIN fs' = (DOMAIN fs \ {jobs[u].tmp}) \cup {u.out}
                /\ \A p \in DOMAIN fs :
                     p # u.out /\ p # jobs[u].tmp => fs'[p] = fs[p]
            BY <4>2, PlaceDoes DEF At
          <5>2. ~Temporary(u.out)
            BY <5>1 DEF Doomed, Accepts, Parts, Torn, Scrap, Encrypted
          <5> QED BY <5>1, <5>2
        <4>3. CASE Fail(u) BY <4>3, FailDoes
        <4> QED BY <1>1, <2>5, <4>1, <4>2, <4>3 DEF UnitStep
      <3>4. Litter' BY <3>3 DEF Litter, Temporary, Parts, LeavesAt, Refused
      <3> QED BY <2>1, <2>2, <3>2, <3>4
    <2> QED BY <2>4, <2>5
  <1>2. ASSUME NEW c \in Commands, Invoke(c) PROVE SInv'
    <2>1. UNCHANGED fs BY <1>2, Begun
    <2>2. Litter' BY <2>1 DEF Litter, Temporary, Parts, LeavesAt, Refused
    <2>3. CASE Refused(c)
      <3>1. DOMAIN jobs' = {} BY <1>2, <2>3, Begun
      <3> QED BY <2>2, <3>1
    <2>4. CASE ~Refused(c)
      <3>1. cmd' = c /\ \A u \in DOMAIN jobs' : jobs'[u].at # "open"
        BY <1>2, <2>4, Begun
      <3>2. \A u \in DOMAIN jobs' : Placed(cmd', u) BY <1>2, <3>1, BegunPlaced
      <3>3. \A u \in DOMAIN jobs' : Doomed(u)' BY <3>1 DEF Doomed, At
      <3> QED BY <2>2, <3>2, <3>3
    <2> QED BY <2>3, <2>4
  <1>3. CASE End \/ Killed
    <2>1. UNCHANGED fs /\ DOMAIN jobs' = {} BY <1>3 DEF End, Killed, Exit
    <2>2. Litter' BY <2>1 DEF Litter, Temporary, Parts, LeavesAt, Refused
    <2> QED BY <2>1, <2>2
  <1>4. CASE UNCHANGED vars
    BY <1>4 DEF vars, Litter, Temporary, Parts, LeavesAt, Refused,
                Placed, Doomed, At
  <1> QED BY <1>1, <1>2, <1>3, <1>4 DEF Next, Work, Over, UnitStep

(* Exit 0 says the same of commands none of which encrypts what another    *)
(* writes, whatever was killed, failed or was run before.                  *)
THEOREM ExitCodeTrue ==
  ASSUME NEW CONSTANT W, Whole(W), Separate
  PROVE  Spec => []ExitTells
  <1>1. Init => SInv
    <2>1. ASSUME Init PROVE SInv
      <3>1. \A p \in DOMAIN fs : ~Temporary(p) BY <2>1 DEF Init, Separate
      <3>2. DOMAIN jobs = {} BY <2>1 DEF Init
      <3> QED BY <3>1, <3>2 DEF SInv, Litter
    <2> QED BY <2>1
  <1>2. EInv /\ SInv /\ [Next]_vars => SInv' BY SInvNext DEF EInv
  <1>3. EInv /\ SInv => LeftoversFail BY LeftoversKnown DEF EInv
  <1>4. Spec /\ []LeftoversFail => []ExitTells BY ExitCodeTells
  <1> QED BY <1>1, <1>2, <1>3, <1>4, ExitInvariant, PTL DEF Spec
----------------------------------------------------------------------------
(* The round trip.                                                         *)

Source(e, q) == \E in \in ToSet(e.cmd.inputs) : IsPrefix(Clean(in), q)
SameSources(e, f) ==
  \A q \in Paths : Source(e, q) =>
    /\ q \in DOMAIN f <=> q \in DOMAIN e.before
    /\ q \in DOMAIN f => f[q] = e.before[q]
Has(f, t, c) == t \in DOMAIN f /\ f[t] = c
Bears(e, p) == Ways(e.cmd, p) # {} /\ Lone(e, p)

(* What an encryption e worked on is there in all the trees of S, and so is *)
(* what it made, by one name, which is not one of those in L.              *)
Survives(e, S, L) ==
  /\ Batched(e.cmd) /\ DOMAIN e.before \subseteq Paths
  /\ \A in \in ToSet(e.cmd.inputs) : \E p \in DOMAIN e.before : in \in Ways(e.cmd, p)
  /\ \A f \in S : SameSources(e, f)
  /\ \A p \in DOMAIN e.before : Bears(e, p) =>
       \E t \in Targets(e.cmd, p) :
         t \notin L /\ \A f \in S : Has(f, t, [enc |-> e.before[p]])

(* The tree the last process met, and the one there is, as long as there   *)
(* were but harmless processes since i.                                    *)
Undisturbed(i, n) == \A j \in i + 1..n : Harmless(log[j].cmd, log[i].cmd)
Seen(i) ==
  {f \in {Last(log).before} : i < Len(log) /\ Undisturbed(i, Len(log) - 1)}
  \cup {f \in {fs} : Undisturbed(i, Len(log))}
Intact ==
  \A i \in DOMAIN log : Encryption(log[i]) => Survives(log[i], Seen(i), locked)

(* A unit writes to -o, or below -outdir.                                  *)
WritesTo(c, u) ==
  IF c.o # Nil
  THEN u.out = c.o
  ELSE /\ IsPrefix(c.outdir, u.out)
       /\ \A t \in TempNames : IsPrefix(c.outdir, Append(Front(u.out), t))

(* A process that runs has removed none of the files it met.               *)
Running ==
  cmd # Nil =>
    /\ Last(log).exit = Nil
    /\ DOMAIN Last(log).before \subseteq DOMAIN fs
    /\ \A u \in DOMAIN jobs :
         /\ WritesTo(cmd, u)
         /\ At(u, "open") => jobs[u].tmp \notin DOMAIN Last(log).before

RInv == Running /\ Intact

(* What survives in some trees survives in fewer.                          *)
LEMMA Fewer ==
  ASSUME NEW e, NEW S, NEW L, Survives(e, S, L),
         NEW T \in SUBSET S, NEW M \in SUBSET L
  PROVE  Survives(e, T, M)
  <1>1. ASSUME NEW p \in DOMAIN e.before, Bears(e, p)
        PROVE  \E t \in Targets(e.cmd, p) :
                 t \notin M /\ \A f \in T : Has(f, t, [enc |-> e.before[p]])
    <2>1. PICK t \in Targets(e.cmd, p) :
            t \notin L /\ \A f \in S : Has(f, t, [enc |-> e.before[p]])
      BY <1>1 DEF Survives
    <2> QED BY <2>1
  <1> QED BY <1>1 DEF Survives

(* The log after one more process.                                         *)
LEMMA LogGrows ==
  ASSUME Logged, NEW c \in Commands, NEW x \in {Nil, 0, 1, 2},
         log' = Append(log, [cmd |-> c, exit |-> x, before |-> fs])
  PROVE  /\ Len(log) \in Nat /\ Len(log') = Len(log) + 1
         /\ DOMAIN log = 1..Len(log) /\ DOMAIN log' = 1..Len(log) + 1
         /\ \A i \in DOMAIN log : log'[i] = log[i]
         /\ log'[Len(log) + 1].cmd = c /\ log'[Len(log) + 1].exit = x
         /\ Last(log').before = fs
  <1>1. PICK S : log \in Seq(Entries(S)) BY DEF Logged
  <1> DEFINE e == [cmd |-> c, exit |-> x, before |-> fs]
             n == Len(log)
  <1>2. log \in Seq(Entries(S \cup {fs}))
    <2>1. Entries(S) \subseteq Entries(S \cup {fs}) BY DEF Entries
    <2> QED BY <1>1, <2>1, SeqMonotonic
  <1>3. e \in Entries(S \cup {fs}) BY DEF Entries
  <1>4. e.cmd = c /\ e.exit = x /\ e.before = fs OBVIOUS
  <1> HIDE DEF e
  <1>5. /\ log' \in Seq(Entries(S \cup {fs})) /\ Len(log') = n + 1
        /\ n \in Nat /\ log'[n + 1] = e /\ \A i \in 1..n : log'[i] = log[i]
    <2>1. log' = Append(log, e) BY DEF e
    <2> QED BY <1>2, <1>3, <2>1, AppendProperties, LenProperties
  <1>6. DOMAIN log = 1..n /\ DOMAIN log' = 1..n + 1
    BY <1>1, <1>5, LenProperties
  <1> QED BY <1>4, <1>5, <1>6 DEF Last

(* The log after the end of a process.                                     *)
LEMMA LogEnds ==
  ASSUME Logged, log # <<>>, NEW x \in {Nil, 0, 1, 2}, Exit(x)
  PROVE  /\ Len(log) \in Nat \ {0} /\ Len(log') = Len(log)
         /\ DOMAIN log = 1..Len(log) /\ DOMAIN log' = 1..Len(log)
         /\ \A i \in DOMAIN log :
              /\ log'[i].cmd = log[i].cmd /\ log'[i].before = log[i].before
              /\ i # Len(log) => log'[i] = log[i]
         /\ log'[Len(log)].exit = x
  <1>1. PICK S : log \in Seq(Entries(S)) BY DEF Logged
  <1> DEFINE n == Len(log)
             e == [log[n] EXCEPT !.exit = x]
  <1>2. n \in Nat \ {0} /\ log[n] \in Entries(S)
    BY <1>1, LenProperties, EmptySeq, ElementOfSeq
  <1>3. /\ e \in Entries(S) /\ e.exit = x /\ e.cmd = log[n].cmd
        /\ e.before = log[n].before
    BY <1>2 DEF Entries
  <1>4. log' = [log EXCEPT ![n] = e] BY DEF Exit
  <1> HIDE DEF e
  <1>5. log' \in Seq(Entries(S)) /\ Len(log') = n /\ log'[n] = e
    BY <1>1, <1>2, <1>3, <1>4, ExceptSeq
  <1>6. DOMAIN log = 1..n /\ DOMAIN log' = 1..n BY <1>1, <1>5, LenProperties
  <1>7. \A i \in 1..n : i # n => log'[i] = log[i] BY <1>4, <1>6
  <1>8. \A i \in 1..n : log'[i].cmd = log[i].cmd /\ log'[i].before = log[i].before
    BY <1>3, <1>5, <1>7
  <1> QED BY <1>2, <1>3, <1>5, <1>6, <1>7, <1>8

(* The directory of a file that is not below another lies no deeper.       *)
LEMMA FrontAbove ==
  ASSUME NEW r \in Paths, NEW p \in Paths, IsPrefix(r, Front(p))
  PROVE  IsPrefix(r, p)
  <1>1. CASE p = <<>>
    <2>1. Front(<<>>) = <<>> BY SubSeqEmpty DEF Front
    <2> QED BY <1>1, <2>1
  <1>2. CASE p # <<>>
    <2>1. IsStrictPrefix(r, p) BY <1>2, FrontMeans
    <2> QED BY <2>1 DEF IsStrictPrefix
  <1> QED BY <1>1, <1>2

(* The units a process begins with go where its command writes to.         *)
LEMMA BegunWrites ==
  ASSUME IInv, NEW c \in Commands, Invoke(c), NEW u \in DOMAIN jobs'
  PROVE  WritesTo(c, u)
  <1>1. ~Refused(c) /\ c # Nil BY Begun
  <1>2. CASE c.o = Nil
    <2>1. Batched(c) /\ u \in discover(c) BY <1>1, <1>2, Begun
    <2>2. /\ Clean(u.in) \in Paths \ {<<>>}
          /\ u.out \in Targets(c, Clean(u.in))
      BY <2>1, DiscoverMeans DEF IInv, Typed
    <2>3. c.outdir \in Paths BY <2>1, BatchedMeans
    <2>4. PICK r \in Paths : r # <<>> /\ u.out = c.outdir \o r
      BY <2>1, <2>2, TargetsMeans
    <2>5. \A t \in TempNames : IsPrefix(c.outdir, Append(Front(u.out), t))
      <3>1. TempNames \subseteq Names BY ToolAssumption
      <3> QED BY <2>3, <2>4, <3>1, Beside
    <2>6. IsPrefix(c.outdir, u.out) BY <2>3, <2>4, Below
    <2> QED BY <1>2, <2>5, <2>6 DEF WritesTo
  <1>3. CASE c.o # Nil
    <2>1. jobs' = [v \in {Unit(c.inputs[1], c.o)} |-> Queued]
      BY <1>1, <1>3 DEF Invoke
    <2>2. u = Unit(c.inputs[1], c.o) BY <2>1
    <2>3. u.out = c.o BY <2>2 DEF Unit
    <2> QED BY <1>3, <2>3 DEF WritesTo
  <1> QED BY <1>2, <1>3

(* A process keeps the files it met.                                       *)
LEMMA RunningNext ==
  ASSUME IInv, Held, Running, [Next]_vars PROVE Running'
  <1>1. ASSUME NEW u \in DOMAIN jobs, UnitStep(u) PROVE Running'
    <2> DEFINE B == Last(log).before
    <2>1. /\ cmd # Nil /\ UNCHANGED <<cmd, log>> /\ DOMAIN jobs' = DOMAIN jobs
          /\ \A v \in DOMAIN jobs : v # u => jobs'[v] = jobs[v]
      BY <1>1, StepAlone
    <2>2. /\ Last(log).exit = Nil
          /\ DOMAIN B \subseteq DOMAIN fs
          /\ \A v \in DOMAIN jobs :
               /\ WritesTo(cmd, v)
               /\ jobs[v].at = "open" => jobs[v].tmp \notin DOMAIN B
      BY <2>1 DEF Running, At
    <2>3. /\ DOMAIN B \subseteq DOMAIN fs'
          /\ jobs'[u].at = "open" => jobs'[u].tmp \notin DOMAIN B
      <3>1. CASE Take(u) BY <2>2, <3>1, TakeDoes
      <3>2. CASE Open(u) BY <2>2, <3>2, OpenDoes
      <3>3. CASE Place(u) BY <2>2, <3>3, PlaceDoes
      <3>4. CASE Fail(u) BY <2>2, <3>4, FailDoes DEF At
      <3> QED BY <1>1, <3>1, <3>2, <3>3, <3>4 DEF UnitStep
    <2> HIDE DEF B
    <2>4. \A v \in DOMAIN jobs : jobs'[v].at = "open" => jobs'[v].tmp \notin DOMAIN B
      BY <2>1, <2>2, <2>3
    <2>5. B' = B BY <2>1 DEF B
    <2>6. \A v \in DOMAIN jobs : WritesTo(cmd, v)' BY <2>1, <2>2 DEF WritesTo
    <2> QED BY <2>1, <2>2, <2>3, <2>4, <2>5, <2>6 DEF Running, At, B
  <1>2. ASSUME NEW c \in Commands, Invoke(c) PROVE Running'
    <2>1. CASE Refused(c) BY <1>2, <2>1, Begun DEF Running
    <2>2. CASE ~Refused(c)
      <3>1. /\ cmd' = c /\ UNCHANGED fs
            /\ \A u \in DOMAIN jobs' : jobs'[u].at = "queued"
        BY <1>2, <2>2, Begun
      <3>2. log' = Append(log, [cmd |-> c, exit |-> Nil, before |-> fs])
        BY <1>2, <2>2 DEF Invoke
      <3>3. Last(log') = [cmd |-> c, exit |-> Nil, before |-> fs]
        BY <3>2, LogAppend DEF IInv
      <3>4. Last(log').exit = Nil /\ Last(log').before = fs BY <3>3
      <3>5. \A u \in DOMAIN jobs' : WritesTo(c, u) BY <1>2, BegunWrites
      <3>6. \A u \in DOMAIN jobs' : WritesTo(cmd, u)'
        BY <3>1, <3>5 DEF WritesTo
      <3> QED BY <3>1, <3>4, <3>6 DEF Running, At
    <2> QED BY <2>1, <2>2
  <1>3. CASE End \/ Killed BY <1>3 DEF End, Killed, Exit, Running
  <1>4. CASE UNCHANGED vars BY <1>4 DEF vars, Running, At, WritesTo
  <1> QED BY <1>1, <1>2, <1>3, <1>4 DEF Next, Work, Over, UnitStep

(* A command that spares a file or directory r changes nothing below it,   *)
(* nor r itself, if there is something, or nothing that comes and goes.    *)
LEMMA SparesMeans ==
  ASSUME IInv, Held, Running, NEW u \in DOMAIN jobs, UnitStep(u),
         NEW r \in Paths, Spares(cmd, r), NEW q \in Paths, IsPrefix(r, q),
         q = r => /\ \E x \in DOMAIN fs : IsPrefix(r, x)
                  /\ r \in DOMAIN fs => r \in DOMAIN Last(log).before
  PROVE  /\ q \in DOMAIN fs' <=> q \in DOMAIN fs
         /\ q \in DOMAIN fs => fs'[q] = fs[q]
  <1>1. /\ cmd # Nil /\ cmd \in Commands /\ ~Refused(cmd) /\ u.out \in Paths
        /\ WritesTo(cmd, u)
    BY StepAlone DEF IInv, Typed, Running
  <1>2. /\ cmd.o # Nil => cmd.o \in Paths /\ ~IsPrefix(r, cmd.o)
        /\ cmd.o = Nil => /\ cmd.outdir \in Paths
                          /\ ~IsPrefix(r, cmd.outdir) /\ ~IsPrefix(cmd.outdir, r)
    BY <1>1, ToolAssumption DEF Spares, Refused
  <1>3. cmd.o = Nil => ~IsPrefix(cmd.outdir, q) BY <1>2, Comparable
  <1>4. u.out # q BY <1>1, <1>2, <1>3 DEF WritesTo
  <1>5. ASSUME NEW t \in TempNames, Append(Front(u.out), t) = q
        PROVE  q = r
    <2>1. cmd.o # Nil /\ u.out = cmd.o BY <1>1, <1>3, <1>5 DEF WritesTo
    <2>2. t \in Names /\ Front(u.out) \in Paths
      BY <1>1, FrontMeans, ToolAssumption
    <2>3. q # <<>> /\ Front(q) = Front(u.out) BY <1>5, <2>2, InDirectory
    <2>4. ASSUME IsStrictPrefix(r, q) PROVE FALSE
      <3>1. IsPrefix(r, Front(u.out)) BY <2>3, <2>4, FrontMeans
      <3> QED BY <1>1, <1>2, <2>1, <3>1, FrontAbove
    <2> QED BY <2>4 DEF IsStrictPrefix
  <1>6. CASE Take(u) BY <1>6, TakeDoes
  <1>7. CASE Open(u)
    <2> DEFINE tmp == jobs'[u].tmp
    <2>1. /\ tmp \notin DOMAIN fs /\ ~IsDir(tmp)
          /\ \E t \in TempNames : tmp = Append(Front(u.out), t)
          /\ DOMAIN fs' = DOMAIN fs \cup {tmp}
          /\ \A p \in DOMAIN fs : fs'[p] = fs[p]
      BY <1>7, OpenDoes
    <2> HIDE DEF tmp
    <2>2. ASSUME tmp = q PROVE FALSE
      <3>1. q = r BY <1>5, <2>1, <2>2
      <3>2. PICK x \in DOMAIN fs : IsPrefix(r, x) BY <3>1
      <3> QED BY <2>1, <2>2, <3>1, <3>2 DEF IsDir, IsStrictPrefix
    <2> QED BY <2>1, <2>2
  <1>8. ASSUME At(u, "open"), jobs[u].tmp = q PROVE FALSE
    <2>1. /\ q \in DOMAIN fs
          /\ \E t \in TempNames : q = Append(Front(u.out), t)
      BY <1>8 DEF Held
    <2>2. q \notin DOMAIN Last(log).before BY <1>1, <1>8 DEF Running
    <2> QED BY <1>5, <2>1, <2>2
  <1>9. CASE Place(u) BY <1>4, <1>8, <1>9, PlaceDoes DEF At
  <1>10. CASE Fail(u) BY <1>8, <1>10, FailDoes
  <1> QED BY <1>6, <1>7, <1>9, <1>10 DEF UnitStep

(* An output lies below the output directory, and is not that directory.   *)
LEMMA TargetBelow ==
  ASSUME NEW c, Batched(c), Apart(c), NEW p \in Paths, NEW t \in Targets(c, p)
  PROVE  /\ c.outdir \in Paths /\ t \in Paths
         /\ IsStrictPrefix(c.outdir, t)
  <1>1. p # <<>>
    <2>1. PICK in \in Ways(c, p) : TRUE BY DEF Targets
    <2>2. /\ in \in ToSet(c.inputs) /\ Clean(in) \in Paths
          /\ IsPrefix(Clean(in), p)
      BY <2>1, WaysMean
    <2>3. Clean(in) # <<>> BY <2>2, ApartMeans
    <2>4. IsPrefix(<<>>, Clean(in)) BY <2>2, PrefixOrder
    <2> QED BY <2>2, <2>3, <2>4, PrefixOrder
  <1>2. PICK a \in Paths : a = c.outdir BY BatchedMeans
  <1>3. PICK r \in Paths : t = a \o r /\ r # <<>>
    BY <1>1, <1>2, TargetsMeans
  <1>4. t \in Paths /\ IsPrefix(a, t) BY <1>3, Below
  <1>5. /\ Len(a \o r) = Len(a) + Len(r)
        /\ Len(a) \in Nat /\ Len(r) \in Nat /\ Len(r) # 0
    BY <1>3, ConcatProperties, LenProperties, EmptySeq DEF Paths
  <1>6. Len(a \o r) # Len(a) BY <1>5
  <1> QED BY <1>2, <1>3, <1>4, <1>6 DEF IsStrictPrefix

(* Where every input was there, a file named by one of them is none that   *)
(* comes and goes; the tree as it was has it, or a file below it.          *)
LEMMA SourceMeans ==
  ASSUME NEW e, NEW S, NEW L, Survives(e, S, L), Apart(e.cmd),
         NEW f \in S, NEW in \in ToSet(e.cmd.inputs)
  PROVE  /\ Clean(in) \in Paths \ {<<>>} /\ Source(e, Clean(in))
         /\ \E x \in DOMAIN f : IsPrefix(Clean(in), x)
  <1>1. Batched(e.cmd) /\ DOMAIN e.before \subseteq Paths /\ SameSources(e, f)
    BY DEF Survives
  <1>2. Clean(in) \in Paths \ {<<>>} BY <1>1, ApartMeans
  <1>3. PICK x \in DOMAIN e.before : in \in Ways(e.cmd, x) BY DEF Survives
  <1>4. x \in Paths /\ IsPrefix(Clean(in), x) BY <1>1, <1>3, WaysMean
  <1>5. x \in DOMAIN f BY <1>1, <1>4 DEF SameSources, Source
  <1>6. IsPrefix(Clean(in), Clean(in)) BY <1>2, PrefixOrder
  <1> QED BY <1>2, <1>4, <1>5, <1>6 DEF Source

(* A step of a harmless process leaves the sources alone.                  *)
LEMMA HarmlessKeepsSources ==
  ASSUME IInv, Held, Running, NEW u \in DOMAIN jobs, UnitStep(u),
         NEW e, NEW L, Survives(e, {Last(log).before, fs}, L), Apart(e.cmd),
         Harmless(cmd, e.cmd)
  PROVE  SameSources(e, fs')
  <1> DEFINE B == Last(log).before
             S == {B, fs}
  <1>1. SameSources(e, B) /\ SameSources(e, fs) BY DEF Survives
  <1>2. SUFFICES ASSUME NEW q \in Paths, NEW in \in ToSet(e.cmd.inputs),
                        IsPrefix(Clean(in), q)
                 PROVE  /\ q \in DOMAIN fs' <=> q \in DOMAIN fs
                        /\ q \in DOMAIN fs => fs'[q] = fs[q]
    BY <1>1 DEF SameSources, Source
  <1>3. CASE cmd.inputs = e.cmd.inputs /\ cmd.outdir = e.cmd.outdir /\ cmd.o = e.cmd.o
    <2>1. Apart(cmd) /\ in \in ToSet(cmd.inputs) BY <1>3 DEF Apart, ToSet
    <2> QED BY <1>2, <2>1, SourcesStay
  <1>4. CASE Spares(cmd, Clean(in))
    <2> DEFINE r == Clean(in)
    <2>1. /\ r \in Paths /\ Source(e, r)
          /\ \E x \in DOMAIN fs : IsPrefix(r, x)
      BY SourceMeans
    <2>2. r \in DOMAIN fs => r \in DOMAIN B BY <1>1, <2>1 DEF SameSources
    <2> HIDE DEF r
    <2>3. IsPrefix(r, q) /\ Spares(cmd, r) BY <1>2, <1>4 DEF r
    <2> QED BY <2>1, <2>2, <2>3, SparesMeans
  <1> QED BY <1>3, <1>4 DEF Harmless

(* And the outputs.                                                        *)
LEMMA HarmlessKeepsOutputs ==
  ASSUME IInv, Held, Running, NEW u \in DOMAIN jobs, UnitStep(u),
         NEW e, NEW L, Survives(e, {Last(log).before, fs}, L), Encryption(e),
         Harmless(cmd, e.cmd), NEW p \in DOMAIN e.before, Bears(e, p),
         NEW t \in Targets(e.cmd, p), NEW c, c = [enc |-> e.before[p]],
         Has(Last(log).before, t, c), Has(fs, t, c)
  PROVE  Has(fs', t, c)
  <1> DEFINE B == Last(log).before
  <1>1. /\ Batched(e.cmd) /\ p \in Paths /\ Apart(e.cmd)
        /\ SameSources(e, B) /\ cmd # Nil
    BY StepAlone DEF Survives, Encryption
  <1>2. CASE /\ cmd.mode = e.cmd.mode /\ cmd.inputs = e.cmd.inputs
             /\ cmd.o = e.cmd.o /\ cmd.outdir = e.cmd.outdir
             /\ cmd.recursive = e.cmd.recursive
    <2>1. Apart(cmd) /\ cmd.mode = "encrypt" BY <1>1, <1>2 DEF Apart, Encryption
    <2>2. Aimed /\ Opened /\ Batched(cmd)
      BY <1>1, <2>1 DEF IInv, Working, Typed, Batched, Apart
    <2>3. \A x : Targets(cmd, x) = Targets(e.cmd, x)
      BY <1>2 DEF Targets, Ways, ToSet
    <2>4. t \in DOMAIN B /\ t \in DOMAIN fs /\ fs[t] = c BY DEF Has
    <2>5. At(u, "open") => jobs[u].tmp # t BY <1>1, <2>4 DEF Running
    <2>6. CASE Take(u) BY <2>4, <2>6, TakeDoes DEF Has
    <2>7. CASE Open(u) BY <2>4, <2>7, OpenDoes DEF Has
    <2>8. CASE Fail(u) BY <2>4, <2>5, <2>8, FailDoes DEF Has
    <2>9. CASE Place(u)
      <3>1. /\ At(u, "open") /\ u.out \in DOMAIN fs'
            /\ fs'[u.out] = Made(cmd.mode, jobs[u].data)
            /\ DOMAIN fs' = (DOMAIN fs \ {jobs[u].tmp}) \cup {u.out}
            /\ \A x \in DOMAIN fs :
                 x # u.out /\ x # jobs[u].tmp => fs'[x] = fs[x]
        BY <2>9, PlaceDoes DEF At
      <3>2. CASE t # u.out BY <2>4, <2>5, <3>1, <3>2 DEF Has
      <3>3. CASE t = u.out
        <4> DEFINE q == Clean(u.in)
        <4>1. /\ q \in Paths /\ q \in DOMAIN B /\ jobs[u].data = B[q]
              /\ u.out \in Targets(cmd, q)
          BY <2>2, <3>1 DEF Aimed, Opened, IInv, Typed
        <4> HIDE DEF q
        <4>2. PICK in \in ToSet(cmd.inputs) : IsPrefix(Clean(in), q)
          BY <2>2, <4>1, TargetsMeans
        <4>3. Source(e, q) BY <1>2, <4>2 DEF Source, ToSet
        <4> HIDE DEF B
        <4>4. q \in DOMAIN e.before /\ B[q] = e.before[q]
          BY <1>1, <4>1, <4>3 DEF SameSources
        <4>5. t \in Targets(e.cmd, q) BY <2>3, <3>3, <4>1
        <4>6. q = p BY <4>4, <4>5 DEF Bears, Lone
        <4>7. fs'[t] = [enc |-> e.before[p]]
          BY <2>1, <3>1, <3>3, <4>1, <4>4, <4>6 DEF Made
        <4> QED BY <3>1, <3>3, <4>7 DEF Has
      <3> QED BY <3>2, <3>3
    <2> QED BY <2>6, <2>7, <2>8, <2>9 DEF UnitStep
  <1>3. CASE Spares(cmd, e.cmd.outdir)
    <2>1. /\ e.cmd.outdir \in Paths /\ t \in Paths
          /\ IsPrefix(e.cmd.outdir, t) /\ t # e.cmd.outdir
      BY <1>1, TargetBelow DEF IsStrictPrefix
    <2>2. t \in DOMAIN fs' /\ fs'[t] = fs[t]
      BY <1>3, <2>1, SparesMeans DEF Has
    <2> QED BY <2>2 DEF Has
  <1> QED BY <1>2, <1>3 DEF Harmless

(* Harmless processes keep what has survived.                              *)
LEMMA HarmlessKeeps ==
  ASSUME IInv, Held, Running, NEW u \in DOMAIN jobs, UnitStep(u),
         NEW e, Encryption(e), Harmless(cmd, e.cmd),
         NEW B, B = Last(log).before, Survives(e, {B, fs}, locked)
  PROVE  Survives(e, {B, fs'}, locked')
  <1>1. SameSources(e, fs') BY HarmlessKeepsSources DEF Encryption
  <1>2. locked' \subseteq locked BY StepAlone
  <1>3. ASSUME NEW p \in DOMAIN e.before, Bears(e, p)
        PROVE  \E t \in Targets(e.cmd, p) :
                 /\ t \notin locked'
                 /\ \A f \in {B, fs'} : Has(f, t, [enc |-> e.before[p]])
    <2>1. PICK c : c = [enc |-> e.before[p]] OBVIOUS
    <2>2. PICK t \in Targets(e.cmd, p) :
            t \notin locked /\ \A f \in {B, fs} : Has(f, t, c)
      BY <1>3, <2>1 DEF Survives
    <2>3. Has(fs', t, c) BY <1>3, <2>1, <2>2, HarmlessKeepsOutputs
    <2> QED BY <1>2, <2>1, <2>2, <2>3
  <1> QED BY <1>1, <1>3 DEF Survives

(* So every step of a unit keeps what was seen of an encryption.           *)
LEMMA StepIntact ==
  ASSUME IInv, Held, RInv, NEW u \in DOMAIN jobs, UnitStep(u)
  PROVE  Intact'
  <1>1. /\ cmd # Nil /\ log # <<>> /\ Last(log).cmd = cmd
        /\ UNCHANGED log /\ locked' \subseteq locked
    BY StepAlone
  <1>2. SUFFICES ASSUME NEW i \in DOMAIN log, Encryption(log[i])
                 PROVE  Survives(log[i], Seen(i)', locked')
    BY <1>1 DEF Intact
  <1>3. PICK e : e = log[i] OBVIOUS
  <1>4. PICK B : B = Last(log).before OBVIOUS
  <1>5. PICK n : n = Len(log) OBVIOUS
  <1>6. Survives(e, Seen(i), locked) /\ Running BY <1>2, <1>3 DEF RInv, Intact
  <1>7. n \in Nat \ {0} /\ i \in 1..n
    <2>1. PICK S : log \in Seq(Entries(S)) BY DEF IInv, Logged
    <2> QED BY <1>1, <1>5, <2>1, LenProperties, EmptySeq
  <1>8. (\A k \in {n - 1, n} : Undisturbed(i, k)' <=> Undisturbed(i, k))
    BY <1>1 DEF Undisturbed
  <1>9. /\ Seen(i) = {f \in {B} : i < n /\ Undisturbed(i, n - 1)}
                        \cup {f \in {fs} : Undisturbed(i, n)}
        /\ Seen(i)' = {f \in {B} : i < n /\ Undisturbed(i, n - 1)}
                        \cup {f \in {fs'} : Undisturbed(i, n)}
    BY <1>1, <1>4, <1>5, <1>8 DEF Seen
  <1>10. CASE ~Undisturbed(i, n)
    <2>1. Seen(i)' \subseteq Seen(i) BY <1>9, <1>10
    <2> QED BY <1>1, <1>3, <1>6, <2>1, Fewer
  <1>11. CASE Undisturbed(i, n)
    <2>1. Last(log).exit = Nil /\ Nil # 0
      BY <1>1, <1>6, ToolAssumption DEF Running
    <2>2. i # n BY <1>2, <1>5, <2>1 DEF Encryption, Last
    <2>3. i < n /\ i \in Nat /\ n \in i + 1..n BY <1>7, <2>2
    <2>4. Undisturbed(i, n - 1)
      <3>1. \A j \in i + 1..n - 1 : j \in i + 1..n BY <1>7
      <3> QED BY <1>11, <3>1 DEF Undisturbed
    <2>5. Seen(i) = {B, fs} /\ Seen(i)' = {B, fs'} BY <1>9, <1>11, <2>3, <2>4
    <2>6. Harmless(cmd, e.cmd)
      BY <1>1, <1>3, <1>5, <1>11, <2>3 DEF Undisturbed, Last
    <2>7. Encryption(e) /\ Survives(e, {B, fs}, locked)
      BY <1>2, <1>3, <1>6, <2>5
    <2>8. Survives(e, {B, fs'}, locked')
      BY <1>4, <1>6, <2>6, <2>7, HarmlessKeeps
    <2> QED BY <1>3, <2>5, <2>8
  <1> QED BY <1>10, <1>11

(* Every process begins with what survived those before.                   *)
LEMMA InvokeIntact ==
  ASSUME IInv, RInv, NEW c \in Commands, Invoke(c)
  PROVE  Intact'
  <1>1. PICK x \in {Nil, 2} :
          log' = Append(log, [cmd |-> c, exit |-> x, before |-> fs])
    BY DEF Invoke
  <1>2. UNCHANGED <<fs, locked>> BY DEF Invoke
  <1>3. x \in {Nil, 0, 1, 2} /\ x # 0 /\ Logged BY ToolAssumption DEF IInv
  <1>4. PICK n : n = Len(log) OBVIOUS
  <1>5. /\ n \in Nat /\ Len(log') = n + 1
        /\ DOMAIN log = 1..n /\ DOMAIN log' = 1..n + 1
        /\ \A i \in DOMAIN log : log'[i] = log[i]
        /\ log'[n + 1].exit = x /\ Last(log').before = fs
    BY <1>1, <1>3, <1>4, LogGrows
  <1>6. SUFFICES ASSUME NEW i \in DOMAIN log', Encryption(log'[i])
                 PROVE  Survives(log'[i], Seen(i)', locked')
    BY DEF Intact
  <1>7. i # n + 1 BY <1>3, <1>5, <1>6 DEF Encryption
  <1>8. i \in 1..n /\ log'[i] = log[i] BY <1>5, <1>7
  <1>9. Survives(log[i], Seen(i), locked)
    BY <1>5, <1>6, <1>8 DEF RInv, Intact
  <1>10. ASSUME NEW k \in {n, n + 1}, Undisturbed(i, k)'
         PROVE  Undisturbed(i, n)
    <2>1. \A j \in i + 1..n : /\ j \in i + 1..k /\ j \in DOMAIN log
                              /\ log'[j] = log[j]
      BY <1>5, <1>8
    <2> QED BY <1>8, <1>10, <2>1 DEF Undisturbed
  <1>11. Seen(i)' \subseteq Seen(i)
    <2>1. SUFFICES ASSUME NEW f \in Seen(i)' PROVE f = fs /\ Undisturbed(i, n)
      BY <1>4 DEF Seen
    <2>2. n + 1 - 1 = n BY <1>5
    <2>3. f = fs BY <1>2, <1>5 DEF Seen
    <2>4. \E k \in {n, n + 1} : Undisturbed(i, k)' BY <1>5, <2>2 DEF Seen
    <2> QED BY <1>10, <2>3, <2>4
  <1> QED BY <1>2, <1>8, <1>9, <1>11, Fewer

(* An encryption that ends with exit 0 has made an output of every file.   *)
LEMMA EndIntact ==
  ASSUME IInv, Covered, Progress, cmd # Nil, Apart(cmd), failed = 0,
         \A u \in DOMAIN jobs : At(u, "done"),
         cmd.mode = "encrypt", ~cmd.skip,
         NEW e, e.cmd = cmd, e.before = Last(log).before
  PROVE  Survives(e, {fs}, locked)
  <1> DEFINE B == Last(log).before
  <1>1. /\ Batched(cmd) /\ DOMAIN B \subseteq Paths /\ DOMAIN fs \subseteq Paths
        /\ Kept /\ Opened /\ Last(log).cmd = cmd
    BY DEF IInv, Working, Typed, Batched, Apart
  <1>2. Covers(cmd, B, DOMAIN jobs) /\ \A u \in DOMAIN jobs : Settled(u)
    BY DEF Covered, Progress
  <1>3. SameSources(e, fs)
    <2>1. SUFFICES ASSUME NEW q \in Paths, NEW in \in ToSet(cmd.inputs),
                          IsPrefix(Clean(in), q), q \in DOMAIN fs
                   PROVE  q \in DOMAIN B /\ fs[q] = B[q]
      BY <1>1 DEF SameSources, Source, Kept
    <2>2. cmd.outdir \in Paths /\ Clean(in) \in Paths BY <1>1, BatchedMeans
    <2>3. ~IsPrefix(cmd.outdir, q) BY <2>1, <2>2, Comparable DEF Apart
    <2>4. ~IsOutput(Last(log), q)
      <3>1. SUFFICES ASSUME NEW x \in DOMAIN B, q \in Targets(cmd, x)
                     PROVE  FALSE
        BY <1>1 DEF IsOutput
      <3>2. PICK r \in Paths : q = cmd.outdir \o r
        BY <1>1, <3>1, TargetsMeans
      <3> QED BY <2>2, <2>3, <3>2, Below
    <2>5. \A u \in DOMAIN jobs : ~At(u, "open") BY DEF At
    <2> QED BY <1>1, <2>1, <2>4, <2>5 DEF Kept
  <1>4. ASSUME NEW p \in DOMAIN B, Bears(e, p)
        PROVE  \E t \in Targets(cmd, p) :
                 t \notin locked /\ Has(fs, t, [enc |-> B[p]])
    <2>1. PICK u \in DOMAIN jobs : u.out \in Targets(cmd, p)
      BY <1>2, <1>4 DEF Covers, Bears
    <2>2. /\ u.out \in DOMAIN fs /\ IsOutput(Last(log), u.out)
          /\ u.out \notin locked
      BY <1>2 DEF Settled
    <2>3. PICK q \in DOMAIN B :
            u.out \in Targets(cmd, q) /\ fs[u.out] = Made(cmd.mode, B[q])
      BY <1>1, <2>2 DEF IsOutput
    <2>4. q = p BY <1>4, <2>1, <2>3 DEF Bears, Lone
    <2> QED BY <2>1, <2>2, <2>3, <2>4 DEF Has, Made
  <1>5. \A in \in ToSet(cmd.inputs) : \E p \in DOMAIN B : in \in Ways(cmd, p)
    BY <1>2 DEF Covers
  <1> QED BY <1>1, <1>3, <1>4, <1>5 DEF Survives

(* The end of a process, of whatever kind.                                 *)
LEMMA EndIs ==
  ASSUME IInv, [Next]_vars, cmd # Nil, cmd' = Nil
  PROVE  \E x \in {Nil, 0, 1} : Exit(x)
  <1>1. CASE End BY <1>1 DEF End
  <1>2. CASE Killed BY <1>2 DEF Killed
  <1>3. ASSUME NEW u \in DOMAIN jobs, UnitStep(u) PROVE FALSE
    BY <1>3, StepAlone
  <1>4. CASE UNCHANGED vars BY <1>4 DEF vars
  <1> QED BY <1>1, <1>2, <1>3, <1>4 DEF Next, Work, Over, Invoke, UnitStep

(* The end of a process keeps what survived it, and adds its own outputs.  *)
LEMMA ExitIntact ==
  ASSUME EInv, RInv, [Next]_vars, End \/ Killed
  PROVE  Intact'
  <1>1. IInv /\ Counted /\ Covered /\ Progress BY DEF EInv
  <1>2. cmd # Nil /\ cmd' = Nil BY DEF End, Killed, Exit
  <1>3. PICK x \in {Nil, 0, 1} : Exit(x) BY <1>1, <1>2, EndIs
  <1>4. UNCHANGED <<fs, locked>> BY <1>3 DEF Exit
  <1>5. Logged /\ log # <<>> /\ Last(log).cmd = cmd
    BY <1>1, <1>2 DEF IInv, Typed
  <1>6. PICK n : n = Len(log) OBVIOUS
  <1>7. /\ n \in Nat \ {0} /\ Len(log') = n
        /\ DOMAIN log = 1..n /\ DOMAIN log' = 1..n
        /\ \A i \in DOMAIN log :
             /\ log'[i].cmd = log[i].cmd /\ log'[i].before = log[i].before
             /\ i # n => log'[i] = log[i]
        /\ log'[n].exit = x
    BY <1>3, <1>5, <1>6, LogEnds
  <1>8. log' # <<>> /\ Last(log').before = Last(log).before
    BY <1>3, <1>5, LogExit
  <1>9. SUFFICES ASSUME NEW i \in 1..n, Encryption(log'[i])
                 PROVE  Survives(log'[i], Seen(i)', locked')
    BY <1>7 DEF Intact
  <1>10. CASE i # n
    <2>1. log'[i] = log[i] /\ i \in DOMAIN log BY <1>7, <1>10
    <2>2. Survives(log[i], Seen(i), locked) BY <1>9, <2>1 DEF RInv, Intact
    <2>3. ASSUME NEW k \in {n - 1, n}
          PROVE  Undisturbed(i, k)' <=> Undisturbed(i, k)
      <3>1. \A j \in i + 1..k : log'[j].cmd = log[j].cmd BY <1>7
      <3> QED BY <2>1, <3>1 DEF Undisturbed
    <2>4. Seen(i)' = Seen(i) BY <1>4, <1>6, <1>7, <1>8, <2>3 DEF Seen
    <2> QED BY <1>4, <2>1, <2>2, <2>4
  <1>11. CASE i = n
    <2>1. PICK e : e = log'[n] OBVIOUS
    <2>2. /\ Encryption(e) /\ e.cmd = cmd /\ e.before = Last(log).before
          /\ Last(log') = e
      <3>1. e.cmd = log[n].cmd /\ e.before = log[n].before BY <1>7, <2>1
      <3> QED BY <1>5, <1>6, <1>7, <1>9, <1>11, <2>1, <3>1 DEF Last
    <2>3. Ended({0})'
      <3>1. Ended({0})' <=> /\ cmd' = Nil /\ log' # <<>>
                            /\ Last(log').exit \in {0} /\ Apart(Last(log').cmd)
        BY DEF Ended, Apart
      <3> QED BY <1>2, <1>8, <2>2, <3>1 DEF Encryption
    <2>4. failed = 0 /\ \A u \in DOMAIN jobs : At(u, "done")
      BY <1>1, <1>2, <2>3, EndMeans
    <2>5. Survives(e, {fs}, locked)
      BY <1>1, <1>2, <2>2, <2>4, EndIntact DEF Encryption
    <2>6. Seen(i)' \subseteq {fs}
      BY <1>4, <1>7, <1>11 DEF Seen
    <2> QED BY <1>4, <1>11, <2>1, <2>5, <2>6, Fewer
  <1> QED BY <1>10, <1>11

(* Every step keeps what survives.                                         *)
LEMMA RInvNext ==
  ASSUME EInv, RInv, [Next]_vars PROVE RInv'
  <1>1. IInv /\ Held BY DEF EInv
  <1>2. Running' BY <1>1, RunningNext DEF RInv
  <1>3. CASE UNCHANGED vars
    BY <1>2, <1>3 DEF vars, RInv, Intact, Seen, Undisturbed
  <1>4. ASSUME NEW u \in DOMAIN jobs, UnitStep(u) PROVE Intact'
    BY <1>1, <1>4, StepIntact
  <1>5. ASSUME NEW c \in Commands, Invoke(c) PROVE Intact'
    BY <1>1, <1>5, InvokeIntact
  <1>6. CASE End \/ Killed BY <1>2, <1>6, ExitIntact DEF RInv
  <1> QED BY <1>2, <1>3, <1>4, <1>5, <1>6
       DEF Next, Work, Over, UnitStep, RInv

(* A walk of one directory gives each file a target of its own.            *)
LEMMA OneInput ==
  ASSUME NEW c, Batched(c), NEW r \in Paths, c.inputs = <<Spelled(r)>>,
         NEW p \in Paths, NEW q \in Paths,
         NEW x \in Targets(c, p), x \in Targets(c, q)
  PROVE  p = q
  <1>1. \A in \in ToSet(c.inputs) : Clean(in) = r
    BY DEF ToSet, Spelled, Clean
  <1>2. PICK in \in Ways(c, p) : x = c.outdir \o (Base(r) \o Rel(r, p))
    BY <1>1 DEF Targets, Batched, Ways
  <1>3. PICK im \in Ways(c, q) : x = c.outdir \o (Base(r) \o Rel(r, q))
    BY <1>1 DEF Targets, Batched, Ways
  <1>4. IsPrefix(r, p) /\ IsPrefix(r, q)
    <2>1. in \in ToSet(c.inputs) /\ IsPrefix(Clean(in), p) BY <1>2, WaysMean
    <2>2. im \in ToSet(c.inputs) /\ IsPrefix(Clean(im), q) BY <1>3, WaysMean
    <2> QED BY <1>1, <2>1, <2>2
  <1> DEFINE a == c.outdir
             b == Base(r)
             y == Rel(r, p)
             z == Rel(r, q)
  <1>5. a \in Paths /\ b \in Paths /\ y \in Paths /\ z \in Paths
    BY BatchedMeans, BaseType, RelType
  <1>6. a \o (b \o y) = a \o (b \o z) BY <1>2, <1>3
  <1>7. y = z
    <2> HIDE DEF a, b, y, z
    <2>1. b \o y \in Paths /\ b \o z \in Paths
      BY <1>5, ConcatProperties DEF Paths
    <2>2. b \o y = b \o z
      BY <1>5, <1>6, <2>1, ConcatSimplifications DEF Paths
    <2> QED BY <1>5, <2>2, ConcatSimplifications DEF Paths
  <1>8. ASSUME NEW w \in Paths, IsPrefix(r, w)
        PROVE  w = r \o Rel(r, w)
    <2>1. Len(r) \in Nat /\ Len(w) \in Nat /\ Len(r) <= Len(w)
      BY <1>8, PrefixMeans, LenProperties DEF Paths
    <2>2. SubSeq(w, 1, Len(r)) = r
      <3>1. SubSeq(r, 1, Len(r)) = r BY SubSeqFull DEF Paths
      <3> QED BY <1>8, <3>1 DEF IsPrefix
    <2>3. SubSeq(w, 1, Len(r)) \o SubSeq(w, Len(r) + 1, Len(w)) = SubSeq(w, 1, Len(w))
      <3>1. PICK k \in Nat : k = Len(r) BY <2>1
      <3>2. PICK m \in Nat : m = Len(w) BY <2>1
      <3>3. 1 \in 1..m + 1 /\ k \in 1 - 1..m /\ m \in k..m BY <2>1, <3>1, <3>2
      <3>4. SubSeq(w, 1, k) \o SubSeq(w, k + 1, m) = SubSeq(w, 1, m)
        BY <3>2, <3>3, ConcatAdjacentSubSeq DEF Paths
      <3> QED BY <3>1, <3>2, <3>4
    <2>4. SubSeq(w, 1, Len(w)) = w BY SubSeqFull DEF Paths
    <2> QED BY <2>2, <2>3, <2>4 DEF Rel
  <1> QED BY <1>4, <1>7, <1>8

(* A decryption that ends with exit 0 brings back what it met.             *)
LEMMA RoundTripNext ==
  ASSUME EInv, RInv, RoundTrip, [Next]_vars PROVE RoundTrip'
  <1>1. IInv /\ Counted /\ Covered /\ Progress BY DEF EInv
  <1>2. CASE UNCHANGED <<fs, locked, cmd, log>>
    <2>1. Ended({0})' <=> Ended({0}) BY <1>2 DEF Ended, Apart
    <2>2. ASSUME NEW e, NEW d, NEW p
          PROVE  Returned(e, d, p)' <=> Returned(e, d, p)
      BY <1>2 DEF Returned
    <2> QED BY <1>2, <2>1, <2>2 DEF RoundTrip
  <1>3. CASE ~(UNCHANGED <<fs, locked, cmd, log>>)
    <2> SUFFICES ASSUME
          Ended({0})', NEW i \in DOMAIN log', NEW e, e = log'[i],
          NEW d, d = Last(log'), Encryption(e), Decryption(d, e),
          \A j \in i + 1..Len(log') - 1 : Harmless(log'[j].cmd, e.cmd)
        PROVE \A p \in DOMAIN e.before : Returned(e, d, p)'
      BY DEF RoundTrip
    <2> SUFFICES ASSUME NEW p \in DOMAIN e.before, Back(e, d, p) # {}, Lone(e, p)
                 PROVE  \E t \in Back(e, d, p) : t \in DOMAIN fs' /\ fs'[t] = e.before[p]
      BY DEF Returned
    <2> DEFINE B == Last(log).before
    <2>1. /\ cmd # Nil /\ Batched(cmd) /\ Apart(cmd) /\ failed = 0
          /\ \A u \in DOMAIN jobs : At(u, "done")
          /\ d.cmd = cmd /\ UNCHANGED fs /\ Last(log).cmd = cmd
      BY <1>1, <1>3, EndMeans
    <2>2. cmd' = Nil /\ log # <<>> /\ Logged /\ DOMAIN B \subseteq Paths
      BY <1>1, <2>1 DEF Ended, Apart, IInv, Typed
    <2>3. PICK x \in {Nil, 0, 1} : Exit(x) BY <1>1, <2>1, <2>2, EndIs
    <2>4. PICK n : n = Len(log) OBVIOUS
    <2>5. /\ n \in Nat \ {0} /\ Len(log') = n
          /\ DOMAIN log = 1..n /\ DOMAIN log' = 1..n
          /\ \A j \in DOMAIN log :
               /\ log'[j].cmd = log[j].cmd /\ log'[j].before = log[j].before
               /\ j # n => log'[j] = log[j]
      BY <2>2, <2>3, <2>4, LogEnds
    <2>6. i # n BY <2>5 DEF Encryption, Decryption, Last
    <2>7. i \in 1..n /\ i < n /\ e = log[i] BY <2>5, <2>6
    <2>8. Undisturbed(i, n - 1)
      <3>1. \A j \in i + 1..n - 1 : log'[j].cmd = log[j].cmd BY <2>5, <2>7
      <3> QED BY <2>5, <2>7, <3>1 DEF Undisturbed
    <2>9. Survives(e, Seen(i), locked)
      BY <2>5, <2>7 DEF RInv, Intact
    <2>10. B \in Seen(i) BY <2>4, <2>7, <2>8 DEF Seen
    <2> HIDE DEF B
    <2>11. Batched(e.cmd) /\ p \in Paths BY <2>9 DEF Survives
    <2>12. Ways(e.cmd, p) # {}
      <3>1. Targets(e.cmd, p) # {} BY DEF Back
      <3> QED BY <3>1 DEF Targets
    <2>13. PICK t \in Targets(e.cmd, p) :
             /\ t \notin locked /\ t \in DOMAIN B
             /\ B[t] = [enc |-> e.before[p]]
      <3>1. Bears(e, p) BY <2>12 DEF Bears
      <3> QED BY <2>9, <2>10, <3>1 DEF Survives, Has
    <2> DEFINE r == e.cmd.outdir
    <2>14. r \in Paths /\ t \in Paths /\ IsStrictPrefix(r, t)
      BY <2>2, <2>9, <2>11, <2>12, <2>13, TargetBelow DEF Encryption
    <2>15. Spelled(r) \in Ways(cmd, t)
      <3>1. Spelled(r) \in ToSet(cmd.inputs) BY <2>1 DEF ToSet, Decryption
      <3>2. Clean(Spelled(r)) = r BY DEF Clean, Spelled
      <3> QED BY <2>1, <2>14, <3>1, <3>2 DEF Ways, Decryption
    <2>16. Covers(cmd, B, DOMAIN jobs) /\ \A u \in DOMAIN jobs : Settled(u)
      BY <1>1, <2>1 DEF Covered, Progress, B
    <2>17. Readable(t)
      BY <2>13, <2>15, <2>16 DEF Covers, Readable
    <2>18. Encrypted(B[t]) BY <2>13 DEF Encrypted
    <2>19. PICK u \in DOMAIN jobs : u.out \in Targets(cmd, t)
      BY <2>13, <2>15, <2>16, <2>17, <2>18 DEF Covers
    <2>20. u.out \in DOMAIN fs /\ IsOutput(Last(log), u.out)
      BY <2>1, <2>16 DEF Settled, Decryption
    <2>21. PICK q \in DOMAIN B :
             u.out \in Targets(cmd, q) /\ fs[u.out] = Made(cmd.mode, B[q])
      BY <2>1, <2>20 DEF IsOutput, B
    <2>22. q = t
      BY <2>1, <2>2, <2>14, <2>19, <2>21, OneInput DEF B, Decryption
    <2>23. fs[u.out] = e.before[p] BY <2>1, <2>13, <2>21, <2>22 DEF Made, Decryption
    <2>24. u.out \in Back(e, d, p)
      <3>1. \A in \in ToSet(cmd.inputs) : Clean(in) = r
        BY <2>1 DEF ToSet, Spelled, Clean, Decryption
      <3>2. u.out = cmd.outdir \o (Base(r) \o Rel(r, t))
        BY <2>1, <2>19, <3>1 DEF Targets, Batched, Ways
      <3> QED BY <2>1, <3>2 DEF Back
    <2> QED BY <2>1, <2>20, <2>23, <2>24
  <1> QED BY <1>2, <1>3

(* What was encrypted with success and is decrypted with success comes     *)
(* back, whatever else was run, failed or was killed between that does not *)
(* write to the sources or the outputs, the encryption itself among it.    *)
THEOREM TreeComesBack == Spec => []RoundTrip
  <1>1. Init => RInv /\ RoundTrip
    <2> SUFFICES ASSUME Init PROVE RInv /\ RoundTrip OBVIOUS
    <2>1. cmd = Nil /\ DOMAIN log = {} BY DEF Init
    <2> QED BY <2>1 DEF RInv, Running, Intact, RoundTrip
  <1>2. EInv /\ (RInv /\ RoundTrip) /\ [Next]_vars => (RInv /\ RoundTrip)'
    BY RInvNext, RoundTripNext
  <1> QED BY <1>1, <1>2, ExitInvariant, PTL DEF Spec
=============================================================================
