-------------------------------- MODULE Batch --------------------------------
(***************************************************************************)
(* csenc.Batch, runOne (batch.go) and DecryptFile (file.go) over the part  *)
(* of the file system they share: target names and temporary files.  The   *)
(* process may die at any step and be run again; the file system stays,    *)
(* except that a power loss takes what was never synced.                   *)
(*                                                                         *)
(* A file is named by the job that wrote it and the run it did so in.      *)
(* os.CreateTemp opens with O_EXCL; two temporary files never share a      *)
(* name.  What Decrypt does to its file is taken from its own promise: the *)
(* plaintext is whole when it returned nil, and only then.                 *)
(***************************************************************************)
EXTENDS Integers, Sequences, FiniteSets

CONSTANTS
  N,            \* number of units discovered
  OutPath,      \* target of each unit
  OldTargets,   \* targets that exist before the first run
  Workers,      \* cfg.Concurrency, resolved
  PreserveTime, \* cfg.PreserveTime
  NoFile, OldFile,
  MaxRuns,      \* bound: runs of the process
  MaxDiscErrs   \* bound: inputs that discovery reports as errors

Jobs == 1..N
Runs == 1..MaxRuns
Targets == {OutPath[j] : j \in Jobs}
Inodes == Jobs \X Runs
Now == 0

ASSUME BatchAssumption ==
  /\ N \in Nat /\ Workers \in Nat \ {0}
  /\ MaxRuns \in Nat \ {0} /\ MaxDiscErrs \in Nat
  /\ OldTargets \subseteq Targets
  /\ PreserveTime \in BOOLEAN
  /\ NoFile # OldFile /\ {NoFile, OldFile} \cap Inodes = {}

VARIABLES
  target,  \* what stands under each target name
  temps,   \* files that stand under a temporary name
  whole,   \* files written to the end and closed
  mtime,   \* whose source's mtime a file carries, Now if no one's
  run,     \* the current run
  skip,    \* cfg.SkipExisting of this run
  bpc,     \* where Batch's own goroutine is
  next,    \* next unit to start
  sem, wg, \* slots taken, goroutines not yet done
  jpc,     \* where each worker is
  outcome, \* the Kind of each unit's terminal event
  rep,     \* the report's counters
  nerr,    \* len(rep.Errors)
  derrs,   \* errors of discovery
  events   \* what OnEvent was called with, per unit

files == <<target, temps, whole, mtime>>
batch == <<run, skip, bpc, next, derrs>>
report == <<rep, nerr, events>>
vars == <<files, batch, sem, wg, jpc, outcome, report>>

Each(x) == [j \in Jobs |-> x]
NoReport == [discovered |-> 0, succeeded |-> 0, skipped |-> 0, failed |-> 0]

Init ==
  /\ target = [t \in Targets |-> IF t \in OldTargets THEN OldFile ELSE NoFile]
  /\ temps = {} /\ whole = {} /\ mtime = [i \in Inodes |-> Now]
  /\ run = 1 /\ skip \in BOOLEAN
  /\ bpc = "discover" /\ next = 1 /\ derrs = 0 /\ sem = 0 /\ wg = 0
  /\ jpc = Each("queued") /\ outcome = Each("none")
  /\ rep = NoReport /\ nerr = 0 /\ events = Each(<<>>)

Goto(j, pc) == jpc' = [jpc EXCEPT ![j] = pc]
Mine(j) == <<j, run>>
End(j, kind) == outcome' = [outcome EXCEPT ![j] = kind]

----------------------------------------------------------------------------
(* Batch's own goroutine.                                                  *)

\* discover, its errors, and the announcements; no worker runs yet.
Discover(d) ==
  /\ bpc = "discover"
  /\ derrs' = d /\ nerr' = d
  /\ rep' = [rep EXCEPT !.failed = d, !.discovered = N]
  /\ events' = Each(<<"discovered">>)
  /\ bpc' = "spawn"
  /\ UNCHANGED <<files, run, skip, next, sem, wg, jpc, outcome>>

\* No OutputDir, or no secret: a report with one error and no unit.
Refuse ==
  /\ bpc = "discover" /\ bpc' = "refused"
  /\ rep' = [NoReport EXCEPT !.failed = 1] /\ nerr' = 1
  /\ UNCHANGED <<files, run, skip, next, derrs, sem, wg, jpc, outcome, events>>

\* Mutant: the semaphore has one slot too many.
SpawnExtra ==
  /\ bpc = "spawn" /\ next <= N /\ sem <= Workers
  /\ sem' = sem + 1 /\ wg' = wg + 1 /\ next' = next + 1
  /\ Goto(next, "stat")
  /\ UNCHANGED <<files, run, skip, bpc, derrs, outcome, report>>

\* sem <- struct{}{}; wg.Add(1); go ...
Spawn ==
  /\ bpc = "spawn" /\ next <= N /\ sem < Workers
  /\ sem' = sem + 1 /\ wg' = wg + 1 /\ next' = next + 1
  /\ Goto(next, "stat")
  /\ UNCHANGED <<files, run, skip, bpc, derrs, outcome, report>>

\* wg.Wait()
Wait ==
  /\ bpc = "spawn" /\ next > N /\ wg = 0
  /\ bpc' = "done"
  /\ UNCHANGED <<files, run, skip, next, derrs, sem, wg, jpc, outcome, report>>

Unsynced == {target[t] : t \in Targets} \cap Inodes

\* The process ends, of itself or not, and is started again.  If it was the
\* power, files that were renamed into place may have lost their data: they are
\* not synced.  What stood there before the first run is safe.
Restart(lost) ==
  /\ run < MaxRuns
  /\ run' = run + 1 /\ skip' \in BOOLEAN
  /\ bpc' = "discover" /\ next' = 1 /\ derrs' = 0 /\ sem' = 0 /\ wg' = 0
  /\ jpc' = Each("queued") /\ outcome' = Each("none")
  /\ rep' = NoReport /\ nerr' = 0 /\ events' = Each(<<>>)
  /\ whole' = whole \ lost
  /\ UNCHANGED <<target, temps, mtime>>

----------------------------------------------------------------------------
(* runOne and DecryptFile.                                                 *)

\* Mutant: the target is not looked at.
CheckTargetNever(j) ==
  /\ jpc[j] = "stat"
  /\ Goto(j, "create")
  /\ UNCHANGED <<files, batch, sem, wg, outcome, report>>

\* SkipExisting: os.Stat of the target.
CheckTarget(j) ==
  /\ jpc[j] = "stat"
  /\ IF skip /\ target[OutPath[j]] # NoFile
     THEN Goto(j, "count") /\ End(j, "skipped")
     ELSE Goto(j, "create") /\ UNCHANGED outcome
  /\ UNCHANGED <<files, batch, sem, wg, report>>

\* The source cannot be opened, or the directory or the file not be made.
CreateFails(j) ==
  /\ jpc[j] = "create"
  /\ Goto(j, "count") /\ End(j, "failed")
  /\ UNCHANGED <<files, batch, sem, wg, report>>

CreateTemp(j) ==
  /\ jpc[j] = "create"
  /\ temps' = temps \cup {Mine(j)}
  /\ Goto(j, "decrypt")
  /\ UNCHANGED <<target, whole, mtime, batch, sem, wg, outcome, report>>

\* Decrypt or tmp.Close fails: the deferred Remove is what is left to do.
DecryptFails(j) ==
  /\ jpc[j] = "decrypt"
  /\ Goto(j, "remove") /\ End(j, "failed")
  /\ UNCHANGED <<files, batch, sem, wg, report>>

\* Mutant: the file is moved into place whatever became of Decrypt.
DecryptIgnored(j) ==
  /\ jpc[j] = "decrypt"
  /\ Goto(j, "rename")
  /\ \/ whole' = whole \cup {Mine(j)}
     \/ UNCHANGED whole
  /\ UNCHANGED <<target, temps, mtime, batch, sem, wg, outcome, report>>

DecryptReturns(j) ==
  /\ jpc[j] = "decrypt"
  /\ Goto(j, "rename")
  /\ whole' = whole \cup {Mine(j)}
  /\ UNCHANGED <<target, temps, mtime, batch, sem, wg, outcome, report>>

\* Mutant: the rename is taken for granted.
RenameForgiven(j) ==
  /\ jpc[j] = "rename"
  /\ Goto(j, "remove") /\ End(j, "succeeded")
  /\ UNCHANGED <<files, batch, sem, wg, report>>

RenameFails(j) ==
  /\ jpc[j] = "rename"
  /\ Goto(j, "remove") /\ End(j, "failed")
  /\ UNCHANGED <<files, batch, sem, wg, report>>

Rename(j) ==
  /\ jpc[j] = "rename"
  /\ target' = [target EXCEPT ![OutPath[j]] = Mine(j)]
  /\ temps' = temps \ {Mine(j)}
  /\ Goto(j, "remove") /\ End(j, "succeeded")
  /\ UNCHANGED <<whole, mtime, batch, sem, wg, report>>

AfterRemove(j) ==
  IF outcome[j] = "succeeded" /\ PreserveTime THEN "chtimes" ELSE "count"

\* Mutant: only a successful job cleans up.
RemoveOnSuccess(j) ==
  /\ jpc[j] = "remove"
  /\ temps' = IF outcome[j] = "succeeded" THEN temps \ {Mine(j)} ELSE temps
  /\ Goto(j, AfterRemove(j))
  /\ UNCHANGED <<target, whole, mtime, batch, sem, wg, outcome, report>>

\* The deferred os.Remove(tmpPath), on every way out after CreateTemp.
Remove(j) ==
  /\ jpc[j] = "remove"
  /\ temps' = temps \ {Mine(j)}
  /\ Goto(j, AfterRemove(j))
  /\ UNCHANGED <<target, whole, mtime, batch, sem, wg, outcome, report>>

\* Mutant: the stamp is the one of the unit started last.
ChtimesLast(j) ==
  /\ jpc[j] = "chtimes"
  /\ Goto(j, "count")
  /\ target[OutPath[j]] \in Inodes
  /\ mtime' = [mtime EXCEPT ![target[OutPath[j]]] = next - 1]
  /\ UNCHANGED <<target, temps, whole, batch, sem, wg, outcome, report>>

\* PreserveTime: os.Stat of the source, os.Chtimes of whatever stands under
\* the target's name by now.  Either may fail, which fails nothing.
Chtimes(j) ==
  /\ jpc[j] = "chtimes"
  /\ Goto(j, "count")
  /\ \/ UNCHANGED mtime
     \/ /\ target[OutPath[j]] \in Inodes
        /\ mtime' = [mtime EXCEPT ![target[OutPath[j]]] = j]
  /\ UNCHANGED <<target, temps, whole, batch, sem, wg, outcome, report>>

----------------------------------------------------------------------------
(* The worker, after runOne.                                               *)

Count(j) ==
  /\ jpc[j] = "count"
  /\ rep' = [rep EXCEPT ![outcome[j]] = @ + 1]
  /\ Goto(j, IF outcome[j] = "failed" THEN "record" ELSE "event")
  /\ UNCHANGED <<files, batch, sem, wg, outcome, nerr, events>>

\* Mutant: errMu is not taken, and an append may be lost.
RecordRacy(j) ==
  /\ jpc[j] = "record"
  /\ nerr' \in {nerr, nerr + 1}
  /\ Goto(j, "event")
  /\ UNCHANGED <<files, batch, sem, wg, outcome, rep, events>>

\* rep.Errors, under errMu.
Record(j) ==
  /\ jpc[j] = "record"
  /\ nerr' = nerr + 1
  /\ Goto(j, "event")
  /\ UNCHANGED <<files, batch, sem, wg, outcome, rep, events>>

Event(j) ==
  /\ jpc[j] = "event"
  /\ events' = [events EXCEPT ![j] = Append(@, outcome[j])]
  /\ Goto(j, "release")
  /\ UNCHANGED <<files, batch, sem, wg, outcome, rep, nerr>>

\* Mutant: the slot is never given back.
ReleaseNothing(j) ==
  /\ jpc[j] = "release"
  /\ Goto(j, "signal")
  /\ UNCHANGED <<files, batch, sem, wg, outcome, report>>

Release(j) ==
  /\ jpc[j] = "release"
  /\ sem' = sem - 1
  /\ Goto(j, "signal")
  /\ UNCHANGED <<files, batch, wg, outcome, report>>

Signal(j) ==
  /\ jpc[j] = "signal"
  /\ wg' = wg - 1
  /\ Goto(j, "gone")
  /\ UNCHANGED <<files, batch, sem, outcome, report>>

----------------------------------------------------------------------------
Decrypting(j) == \/ CheckTarget(j) \/ CreateFails(j) \/ CreateTemp(j)
                 \/ DecryptFails(j) \/ DecryptReturns(j) \/ RenameFails(j)
                 \/ Rename(j) \/ Remove(j) \/ Chtimes(j)
Reporting(j) == Count(j) \/ Record(j) \/ Event(j) \/ Release(j) \/ Signal(j)
Worker(j) == Decrypting(j) \/ Reporting(j)
Main == (\E d \in 0..MaxDiscErrs : Discover(d)) \/ Refuse \/ Spawn \/ Wait
Finished == bpc \in {"done", "refused"} /\ UNCHANGED vars

Next == \/ Main \/ Finished
        \/ \E lost \in SUBSET Unsynced : Restart(lost)
        \/ \E j \in Jobs : Worker(j)

\* Goroutines run; Decrypt returns, as its own specification promises.
Spec == Init /\ [][Next]_vars /\ WF_vars(Main)
             /\ \A j \in Jobs : WF_vars(Worker(j))

----------------------------------------------------------------------------
(* Properties.                                                             *)

Kinds == {"succeeded", "skipped", "failed"}

\* Every variable has its type, slots are counted by the workers that hold
\* them, and so are the goroutines waited for.
TypeOK ==
  /\ target \in [Targets -> Inodes \cup {NoFile, OldFile}]
  /\ temps \subseteq Inodes /\ whole \subseteq Inodes
  /\ mtime \in [Inodes -> Jobs \cup {Now}]
  /\ run \in Runs /\ skip \in BOOLEAN /\ bpc \in {"discover", "spawn", "done", "refused"}
  /\ next \in 1..(N + 1) /\ nerr \in Nat /\ derrs \in 0..MaxDiscErrs
  /\ jpc \in [Jobs -> {"queued", "stat", "create", "decrypt", "rename",
                       "remove", "chtimes", "count", "record", "event",
                       "release", "signal", "gone"}]
  /\ outcome \in [Jobs -> Kinds \cup {"none"}]
  /\ DOMAIN rep = {"discovered"} \cup Kinds
  /\ sem = Cardinality({j \in Jobs :
                          jpc[j] \notin {"queued", "signal", "gone"}})
  /\ wg = Cardinality({j \in Jobs : jpc[j] \notin {"queued", "gone"}})

\* Seen from the output directory, through every interleaving of workers and
\* every end of the process: a target is absent or whole, and is replaced in
\* one step (file.go:50-52), unless the power fails (file.go:80-83).
Torn == <<0, 0>>
Store == INSTANCE TargetStore WITH
  Names <- Targets, Nothing <- NoFile, Files <- Inodes \cup {OldFile},
  Broken <- Torn, boots <- run,
  store <- [t \in Targets |-> IF target[t] \in whole \cup {NoFile, OldFile}
                               THEN target[t] ELSE Torn]
ReplacesAtomically == Store!Spec

\* Under the target of a unit reported as succeeded stands a whole plaintext of
\* this run, its own or that of a unit with the same target, whatever other
\* workers do meanwhile (batch.go:310-327, file.go:83).
SuccessStands ==
  \A j \in Jobs : outcome[j] = "succeeded" =>
    \E k \in Jobs : /\ OutPath[k] = OutPath[j]
                    /\ target[OutPath[j]] = Mine(k) /\ Mine(k) \in whole

\* When Batch returns no temporary file of its run is left, whichever step of
\* whichever job failed (file.go:71-74).
NoLitter == bpc = "done" => \A j \in Jobs : Mine(j) \notin temps

\* At most Workers files are being written at once, however the spawning loop
\* and the workers' releases interleave; wherever the process is stopped, a run
\* leaves no more temporary files behind (batch.go:41-43, file.go:66-74).
LitterBounded ==
  \A r \in Runs : Cardinality({i \in temps : i[2] = r}) <= Workers

\* When Batch returns the report is settled: every unit is counted once, the
\* errors of discovery and of the jobs are all listed, and every unit had its
\* two events (batch.go:59-63, 106-117).
ReportSettled ==
  /\ bpc = "refused" => rep.failed = 1 /\ nerr = 1
  /\ bpc = "done" =>
       /\ rep.discovered = N
       /\ rep.succeeded + rep.skipped + rep.failed = N + derrs
       /\ nerr = rep.failed
       /\ \A j \in Jobs : events[j] = <<"discovered", outcome[j]>>

\* A target carries its own time or the mtime of a source that goes there, its
\* own one if no other does, although the stamp is put on a name that another
\* worker may have replaced (batch.go:49-51, 320-324).
TimesAreOwn ==
  \A t \in Targets : target[t] \in Inodes =>
    mtime[target[t]] \in {Now} \cup {k \in Jobs : OutPath[k] = t}

\* With SkipExisting a target that was there before the run is never replaced
\* (batch.go:45-47), although it is looked at before a decryption and renamed
\* after it; one of this run only by another unit with the same target.
ExistingKept ==
  [][skip => \A t \in Targets :
       \/ target[t] = NoFile \/ target'[t] = target[t]
       \/ \E j, k \in Jobs : /\ j # k /\ OutPath[j] = t /\ OutPath[k] = t
                             /\ target[t] = Mine(j) /\ target'[t] = Mine(k)]_vars

\* Batch returns, and no run of it hangs: the slots a worker takes come back
\* and every goroutine waited for signals (batch.go:177-205).
BatchReturns == bpc = "discover" ~> bpc \in {"done", "refused"}
=============================================================================
