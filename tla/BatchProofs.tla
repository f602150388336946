----------------------------- MODULE BatchProofs ----------------------------
(***************************************************************************)
(* Proofs about Batch, for every number of units, workers and runs of the  *)
(* process, and wherever a run is killed.                                  *)
(***************************************************************************)
EXTENDS Batch, FiniteSetTheorems, SequenceTheorems, TLAPS

Pcs == {"queued", "stat", "create", "decrypt", "rename", "remove", "chtimes",
        "count", "record", "event", "release", "signal", "gone"}
Undecided == {"queued", "stat", "create", "decrypt", "rename"}
Counted == {"record", "event", "release", "signal", "gone"}
Recorded == {"event", "release", "signal", "gone"}
Told == {"release", "signal", "gone"}

Held == {j \in Jobs : jpc[j] \notin {"queued", "signal", "gone"}}
Awaited == {j \in Jobs : jpc[j] \notin {"queued", "gone"}}
Ended(kind, pcs) == {j \in Jobs : outcome[j] = kind /\ jpc[j] \in pcs}

(* The types, without what is counted.                                     *)
Typed ==
  /\ target \in [Targets -> Inodes \cup {NoFile, OldFile}]
  /\ temps \subseteq Inodes /\ whole \subseteq Inodes
  /\ mtime \in [Inodes -> Jobs \cup {Now}]
  /\ run \in Runs /\ skip \in BOOLEAN
  /\ bpc \in {"discover", "spawn", "done", "refused"}
  /\ next \in 1..(N + 1) /\ nerr \in Nat /\ derrs \in 0..MaxDiscErrs
  /\ jpc \in [Jobs -> Pcs]
  /\ outcome \in [Jobs -> Kinds \cup {"none"}]
  /\ rep \in [{"discovered"} \cup Kinds -> Nat]
  /\ events \in [Jobs -> Seq({"discovered"} \cup Kinds)]

(* Units start in order; a worker runs only while Batch spawns or waits; a *)
(* unit has an outcome once runOne knows it.                               *)
Control ==
  /\ \A j \in Jobs : jpc[j] = "queued" <=> j >= next
  /\ bpc \in {"discover", "refused"} => next = 1
  /\ bpc = "done" => \A j \in Jobs : jpc[j] = "gone"
  /\ \A j \in Jobs :
       /\ jpc[j] \in Undecided <=> outcome[j] = "none"
       /\ jpc[j] = "chtimes" => outcome[j] = "succeeded"
       /\ jpc[j] = "remove" => outcome[j] # "skipped"
       /\ jpc[j] = "record" => outcome[j] = "failed"

(* Which files of this run there are at each stage of a job, and that none *)
(* is of a run to come.                                                    *)
Places ==
  /\ \A j \in Jobs :
       /\ jpc[j] = "rename" \/ outcome[j] = "succeeded" => Mine(j) \in whole
       /\ Mine(j) \in temps => jpc[j] \in {"decrypt", "rename", "remove"}
  /\ \A i \in temps : i[2] <= run
  /\ \A t \in Targets, j \in Jobs, r \in Runs :
       target[t] = <<j, r>> =>
         r <= run /\ (r = run => outcome[j] = "succeeded")

(* The semaphore and the WaitGroup count workers.                          *)
Slots ==
  /\ sem = Cardinality(Held) /\ sem <= Workers
  /\ wg = Cardinality(Awaited)

(* What the report holds while the jobs run.                               *)
Tally ==
  /\ bpc = "discover" => rep = NoReport /\ nerr = 0 /\ derrs = 0
  /\ bpc = "refused" => rep.failed = 1 /\ nerr = 1
  /\ bpc \in {"spawn", "done"} =>
       /\ rep.discovered = N
       /\ rep.succeeded = Cardinality(Ended("succeeded", Counted))
       /\ rep.skipped = Cardinality(Ended("skipped", Counted))
       /\ rep.failed = derrs + Cardinality(Ended("failed", Counted))
       /\ nerr = derrs + Cardinality(Ended("failed", Recorded))
       /\ \A j \in Jobs :
            events[j] = IF jpc[j] \in Told THEN <<"discovered", outcome[j]>>
                                           ELSE <<"discovered">>

IInv == Typed /\ Control /\ Places /\ Slots /\ LitterBounded /\ Tally

(* Whose source's time a file may carry.                                   *)
Kin(j) == {Now} \cup {k \in Jobs : OutPath[k] = OutPath[j]}

(* A file stands where its own unit goes and has a time from there; what a *)
(* job that found no target meets at its rename is of this run.            *)
Own ==
  /\ SuccessStands
  /\ \A j \in Jobs, r \in Runs : mtime[<<j, r>>] \in Kin(j)
  /\ \A t \in Targets, j \in Jobs, r \in Runs :
       target[t] = <<j, r>> => OutPath[j] = t
  /\ \A j \in Jobs : skip /\ jpc[j] \in {"create", "decrypt", "rename"} =>
       target[OutPath[j]] \in {NoFile} \cup {Mine(k) : k \in Jobs}
----------------------------------------------------------------------------
(* What any step is: one of the main goroutine, a restart, a worker's.     *)
LEMMA Steps ==
  [Next]_vars =>
    \/ UNCHANGED vars \/ Refuse \/ Spawn \/ Wait
    \/ \E d \in 0..MaxDiscErrs : Discover(d)
    \/ \E lost \in SUBSET Unsynced : Restart(lost)
    \/ \E j \in Jobs : Worker(j)
  BY DEF Next, Main, Finished

(* An empty report is a report.                                            *)
LEMMA NoReportType ==
  /\ NoReport \in [{"discovered"} \cup Kinds -> Nat]
  /\ NoReport.discovered = 0 /\ NoReport.succeeded = 0
  /\ NoReport.skipped = 0 /\ NoReport.failed = 0
  BY DEF NoReport, Kinds

(* Initially everything has its type.                                      *)
LEMMA TypedInit == Init => Typed
  BY BatchAssumption, NoReportType
  DEF Init, Typed, Each, Pcs, Now, Runs, Jobs, Kinds

(* The types and the control state are kept by the main goroutine.         *)
LEMMA TypedMain ==
  ASSUME Typed, Control,
         \/ UNCHANGED vars \/ Refuse \/ Spawn \/ Wait
         \/ \E d \in 0..MaxDiscErrs : Discover(d)
         \/ \E lost \in SUBSET Unsynced : Restart(lost)
  PROVE  Typed'
  <1>1. CASE UNCHANGED vars
    BY <1>1 DEF Typed, vars, files, batch, report
  <1>2. CASE Refuse
    BY <1>2, NoReportType DEF Typed, Refuse, files, Kinds
  <1>3. CASE Spawn
    BY <1>3, BatchAssumption DEF Typed, Spawn, files, report, Goto, Pcs, Jobs
  <1>4. CASE Wait
    BY <1>4 DEF Typed, Wait, files, report
  <1>5. ASSUME NEW d \in 0..MaxDiscErrs, Discover(d) PROVE Typed'
    <2>1. N \in Nat /\ d \in Nat BY BatchAssumption
    <2>2. rep' \in [{"discovered"} \cup Kinds -> Nat]
      BY <1>5, <2>1 DEF Typed, Discover, Kinds
    <2>3. events' \in [Jobs -> Seq({"discovered"} \cup Kinds)]
      <3>1. <<"discovered">> \in Seq({"discovered"} \cup Kinds) OBVIOUS
      <3> QED BY <1>5, <3>1, Zenon DEF Discover, Each
    <2> QED BY <1>5, <2>1, <2>2, <2>3 DEF Typed, Discover, files
  <1>6. ASSUME NEW lost \in SUBSET Unsynced, Restart(lost) PROVE Typed'
    BY <1>6, BatchAssumption, NoReportType
    DEF Typed, Restart, Each, Pcs, Runs, Kinds
  <1> QED BY <1>1, <1>2, <1>3, <1>4, <1>5, <1>6

(* They are kept by a worker.                                              *)
LEMMA TypedWorker ==
  ASSUME Typed, Control, NEW j \in Jobs, Worker(j)
  PROVE  Typed'
  <1>1. Mine(j) \in Inodes BY DEF Mine, Inodes, Typed
  <1>2. OutPath[j] \in Targets BY DEF Targets
  <1>a. CASE CheckTarget(j)
    BY <1>a DEF Typed, CheckTarget, files, batch, report, Goto, End, Pcs, Kinds
  <1>b. CASE CreateFails(j)
    BY <1>b DEF Typed, CreateFails, files, batch, report, Goto, End, Pcs, Kinds
  <1>c. CASE CreateTemp(j)
    BY <1>c, <1>1 DEF Typed, CreateTemp, batch, report, Goto, Pcs
  <1>d. CASE DecryptFails(j)
    BY <1>d DEF Typed, DecryptFails, files, batch, report, Goto, End, Pcs, Kinds
  <1>e. CASE DecryptReturns(j)
    BY <1>e, <1>1 DEF Typed, DecryptReturns, batch, report, Goto, Pcs
  <1>f. CASE RenameFails(j)
    BY <1>f DEF Typed, RenameFails, files, batch, report, Goto, End, Pcs, Kinds
  <1>g. CASE Rename(j)
    BY <1>g, <1>1, <1>2 DEF Typed, Rename, batch, report, Goto, End, Pcs, Kinds
  <1>h. CASE Remove(j)
    BY <1>h DEF Typed, Remove, batch, report, Goto, AfterRemove, Pcs
  <1>i. CASE Chtimes(j)
    BY <1>i DEF Typed, Chtimes, batch, report, Goto, Pcs
  <1>k. CASE Count(j)
    <2>1. outcome[j] \in Kinds
      BY <1>k DEF Typed, Control, Count, Undecided
    <2>2. rep' \in [{"discovered"} \cup Kinds -> Nat]
      BY <1>k, <2>1 DEF Typed, Count
    <2> QED BY <1>k, <2>2 DEF Typed, Count, files, batch, Goto, Pcs
  <1>l. CASE Record(j)
    BY <1>l DEF Typed, Record, files, batch, Goto, Pcs
  <1>m. CASE Event(j)
    <2>1. outcome[j] \in {"discovered"} \cup Kinds
      BY <1>m DEF Typed, Control, Event, Undecided
    <2>2. events' \in [Jobs -> Seq({"discovered"} \cup Kinds)]
      BY <1>m, <2>1 DEF Typed, Event
    <2> QED BY <1>m, <2>2 DEF Typed, Event, files, batch, Goto, Pcs
  <1>n. CASE Release(j)
    BY <1>n DEF Typed, Release, files, batch, report, Goto, Pcs
  <1>o. CASE Signal(j)
    BY <1>o DEF Typed, Signal, files, batch, report, Goto, Pcs
  <1> QED BY <1>a, <1>b, <1>c, <1>d, <1>e, <1>f, <1>g, <1>h, <1>i, <1>k, <1>l,
             <1>m, <1>n, <1>o DEF Worker, Decrypting, Reporting

----------------------------------------------------------------------------
(* Counting workers: one that moves changes a count by one or by nothing.  *)

(* The jobs, and any of them, can be counted.                              *)
LEMMA JobsFinite ==
  /\ IsFiniteSet(Jobs) /\ Cardinality(Jobs) = N
  /\ \A S \in SUBSET Jobs : IsFiniteSet(S) /\ Cardinality(S) \in Nat
  <1>1. IsFiniteSet(Jobs) /\ Cardinality(Jobs) = N
    BY BatchAssumption, FS_Interval DEF Jobs
  <1>2. \A S \in SUBSET Jobs : IsFiniteSet(S) BY <1>1, FS_Subset
  <1> QED BY <1>1, <1>2, FS_CardinalityType

(* A count with one job more, one less, or the same ones.                  *)
LEMMA OneMore ==
  \A S \in SUBSET Jobs, j \in Jobs :
    /\ j \notin S => Cardinality(S \cup {j}) = Cardinality(S) + 1
    /\ j \in S => Cardinality(S \ {j}) = Cardinality(S) - 1
  BY JobsFinite, FS_AddElement, FS_RemoveElement

(* A worker that is neither started nor done by a step stays counted.      *)
LEMMA SlotsWorker ==
  ASSUME Typed, Slots, NEW j \in Jobs, Worker(j)
  PROVE  Slots'
  <1>0. Held \in SUBSET Jobs /\ Awaited \in SUBSET Jobs BY DEF Held, Awaited
  <1>1. CASE Release(j)
    <2>1. Held' = Held \ {j} /\ j \in Held /\ Awaited' = Awaited
      BY <1>1 DEF Typed, Release, Goto, Held, Awaited
    <2>2. Cardinality(Held) \in Nat BY <1>0, JobsFinite
    <2> QED BY <1>0, <1>1, <2>1, <2>2, OneMore, BatchAssumption DEF Slots, Release
  <1>2. CASE Signal(j)
    <2>1. Awaited' = Awaited \ {j} /\ j \in Awaited /\ Held' = Held
      BY <1>2 DEF Typed, Signal, Goto, Held, Awaited
    <2> QED BY <1>0, <1>2, <2>1, OneMore DEF Slots, Signal
  <1>3. CASE ~Release(j) /\ ~Signal(j)
    <2>1. sem' = sem /\ wg' = wg
      BY <1>3 DEF Worker, Decrypting, Reporting,
         CheckTarget, CreateFails, CreateTemp, DecryptFails,
         DecryptReturns, RenameFails, Rename, Remove, Chtimes, Count, Record,
         Event
    <2>2. PICK pc \in Pcs \ {"queued", "signal", "gone"} :
            /\ jpc' = [jpc EXCEPT ![j] = pc]
            /\ jpc[j] \notin {"queued", "signal", "gone"}
      BY <1>3 DEF Worker, Decrypting, Reporting,
         CheckTarget, CreateFails, CreateTemp, DecryptFails,
         DecryptReturns, RenameFails, Rename, Remove, Chtimes, Count, Record,
         Event, Goto, AfterRemove, Pcs
    <2>3. Held' = Held /\ Awaited' = Awaited
      BY <2>2 DEF Typed, Held, Awaited
    <2> QED BY <2>1, <2>3 DEF Slots
  <1> QED BY <1>1, <1>2, <1>3

(* The main goroutine counts what it starts, and a restart starts nothing. *)
LEMMA SlotsMain ==
  ASSUME Typed, Control, Slots,
         \/ UNCHANGED vars \/ Refuse \/ Spawn \/ Wait
         \/ \E d \in 0..MaxDiscErrs : Discover(d)
         \/ \E lost \in SUBSET Unsynced : Restart(lost)
  PROVE  Slots'
  <1>0. Held \in SUBSET Jobs /\ Awaited \in SUBSET Jobs BY DEF Held, Awaited
  <1>1. CASE Spawn
    <2>1. next \in Jobs /\ jpc[next] = "queued"
      BY <1>1, BatchAssumption DEF Typed, Control, Spawn, Jobs
    <2>2. /\ Held' = Held \cup {next} /\ next \notin Held
          /\ Awaited' = Awaited \cup {next} /\ next \notin Awaited
      BY <1>1, <2>1 DEF Typed, Spawn, Goto, Held, Awaited
    <2>3. Cardinality(Held) \in Nat BY <1>0, JobsFinite
    <2> QED BY <1>0, <1>1, <2>1, <2>2, <2>3, OneMore, BatchAssumption
         DEF Slots, Spawn
  <1>2. ASSUME NEW lost \in SUBSET Unsynced, Restart(lost) PROVE Slots'
    <2>1. Held' = {} /\ Awaited' = {}
      BY <1>2 DEF Restart, Each, Held, Awaited
    <2> QED BY <1>2, <2>1, FS_EmptySet, BatchAssumption DEF Slots, Restart
  <1>3. CASE UNCHANGED <<jpc, sem, wg>>
    BY <1>3 DEF Slots, Held, Awaited
  <1> QED BY <1>1, <1>2, <1>3 DEF vars, Refuse, Wait, Discover

(* No job runs before the first is started.                                *)
LEMMA SlotsInit == Init => Slots
  <1> SUFFICES ASSUME Init PROVE Slots OBVIOUS
  <1>1. Held = {} /\ Awaited = {} BY DEF Init, Each, Held, Awaited
  <1> QED BY <1>1, FS_EmptySet, BatchAssumption DEF Slots, Init

----------------------------------------------------------------------------
(* Control.                                                                *)

(* No unit is started before discovery.                                    *)
LEMMA ControlInit == Init => Control
  BY BatchAssumption DEF Init, Control, Each, Undecided, Jobs

(* What the main goroutine does to the jobs.                               *)
LEMMA ControlMain ==
  ASSUME Typed, Control, Slots,
         \/ UNCHANGED vars \/ Refuse \/ Spawn \/ Wait
         \/ \E d \in 0..MaxDiscErrs : Discover(d)
         \/ \E lost \in SUBSET Unsynced : Restart(lost)
  PROVE  Control'
  <1>1. CASE UNCHANGED vars
    BY <1>1 DEF Control, vars, batch
  <1>2. CASE Refuse
    BY <1>2 DEF Control, Refuse
  <1>3. CASE Spawn
    <2>1. next \in Jobs /\ jpc[next] = "queued"
      BY <1>3, BatchAssumption DEF Typed, Control, Spawn, Jobs
    <2> QED BY <1>3, <2>1 DEF Typed, Control, Spawn, Goto, Undecided, Jobs
  <1>4. CASE Wait
    <2>1. Awaited \in SUBSET Jobs BY DEF Awaited
    <2>2. Awaited = {} BY <1>4, <2>1, JobsFinite, FS_EmptySet DEF Slots, Wait
    <2>3. \A j \in Jobs : jpc[j] # "queued"
      BY <1>4, BatchAssumption DEF Typed, Control, Wait, Jobs
    <2>4. \A j \in Jobs : jpc[j] = "gone" BY <2>2, <2>3 DEF Awaited
    <2> QED BY <1>4, <2>4 DEF Control, Wait
  <1>5. ASSUME NEW d \in 0..MaxDiscErrs, Discover(d) PROVE Control'
    BY <1>5 DEF Control, Discover
  <1>6. ASSUME NEW lost \in SUBSET Unsynced, Restart(lost) PROVE Control'
    BY <1>6, BatchAssumption DEF Control, Restart, Each, Undecided, Jobs
  <1> QED BY <1>1, <1>2, <1>3, <1>4, <1>5, <1>6

(* A job decides its outcome once, and stays started.                      *)
LEMMA ControlWorker ==
  ASSUME Typed, Control, NEW j \in Jobs, Worker(j)
  PROVE  Control'
  <1>1. /\ jpc[j] \notin {"queued", "gone"} /\ jpc'[j] # "queued"
        /\ \A k \in Jobs : k # j => jpc'[k] = jpc[k] /\ outcome'[k] = outcome[k]
        /\ bpc' = bpc /\ next' = next
    BY DEF Typed, Worker, Decrypting, Reporting,
       CheckTarget, CreateFails, CreateTemp, DecryptFails,
       DecryptReturns, RenameFails, Rename, Remove, Chtimes, Count, Record,
       Event, Release, Signal, Goto, End, AfterRemove, batch
  <1>2. /\ jpc'[j] \in Undecided <=> outcome'[j] = "none"
        /\ jpc'[j] = "chtimes" => outcome'[j] = "succeeded"
        /\ jpc'[j] = "remove" => outcome'[j] # "skipped"
        /\ jpc'[j] = "record" => outcome'[j] = "failed"
    BY DEF Typed, Control, Undecided, Worker, Decrypting, Reporting,
       CheckTarget, CreateFails,
       CreateTemp, DecryptFails, DecryptReturns, RenameFails, Rename, Remove,
       Chtimes, Count, Record, Event, Release, Signal, Goto, End, AfterRemove
  <1> QED BY <1>1, <1>2, Zenon DEF Control

----------------------------------------------------------------------------
(* The files of this run and of those before it.                           *)

(* Nothing of this program is there before it runs.                        *)
LEMMA PlacesInit == Init => Places
  <1> SUFFICES ASSUME Init PROVE Places OBVIOUS
  <1>1. \A t \in Targets : target[t] \in {NoFile, OldFile} BY DEF Init
  <1>2. \A t \in Targets, j \in Jobs, r \in Runs : target[t] # <<j, r>>
    BY <1>1, BatchAssumption DEF Inodes
  <1> QED BY <1>2 DEF Init, Places, Each

(* A run that begins owns nothing of what earlier runs left.               *)
LEMMA PlacesMain ==
  ASSUME Typed, Control, Places,
         \/ UNCHANGED vars \/ Refuse \/ Spawn \/ Wait
         \/ \E d \in 0..MaxDiscErrs : Discover(d)
         \/ \E lost \in SUBSET Unsynced : Restart(lost)
  PROVE  Places'
  <1>1. CASE UNCHANGED <<files, run, outcome, jpc>>
    BY <1>1, Zenon DEF Places, files, Mine
  <1>2. CASE Spawn
    <2>1. next \in Jobs BY <1>2, BatchAssumption DEF Typed, Spawn, Jobs
    <2>2. /\ UNCHANGED <<target, temps, whole, run, outcome>>
          /\ jpc[next] = "queued" /\ jpc'[next] = "stat"
          /\ \A k \in Jobs : k # next => jpc'[k] = jpc[k]
      BY <1>2, <2>1 DEF Typed, Control, Spawn, Goto, files, Jobs
    <2> QED BY <2>1, <2>2 DEF Places, Mine
  <1>3. ASSUME NEW lost \in SUBSET Unsynced, Restart(lost) PROVE Places'
    <2>1. /\ run \in Int /\ run' = run + 1
          /\ \A j \in Jobs : jpc'[j] = "queued" /\ outcome'[j] = "none"
          /\ temps' = temps /\ target' = target
      BY <1>3, BatchAssumption DEF Typed, Restart, Each, Runs
    <2>2. \A i \in temps : i[2] <= run /\ i[2] \in Int
      BY BatchAssumption DEF Typed, Places, Inodes, Runs
    <2>3. \A i \in temps' : i[2] <= run' BY <2>1, <2>2
    <2>4. \A j \in Jobs : Mine(j)' \notin temps' BY <2>1, <2>2 DEF Mine
    <2>5. \A t \in Targets, j \in Jobs, r \in Runs :
            target'[t] = <<j, r>> => r <= run' /\ r # run'
      BY <2>1, BatchAssumption DEF Places, Runs
    <2> QED BY <2>1, <2>3, <2>4, <2>5 DEF Places
  <1> QED BY <1>1, <1>2, <1>3 DEF vars, batch, Refuse, Wait, Discover

(* A worker creates, moves and removes its own file only.                  *)
LEMMA PlacesWorker ==
  ASSUME Typed, Control, Places, NEW j \in Jobs, Worker(j)
  PROVE  Places'
  <1>0. /\ Mine(j) = <<j, run>> /\ Mine(j)' = Mine(j) /\ run' = run
        /\ run \in Runs /\ run <= run /\ OutPath[j] \in Targets
    BY BatchAssumption
    DEF Mine, Worker, Decrypting, Reporting,
       CheckTarget, CreateFails, CreateTemp, DecryptFails,
        DecryptReturns, RenameFails, Rename, Remove, Chtimes, Count, Record,
        Event, Release, Signal, batch, Typed, Runs, Targets
  <1>1. \A k \in Jobs : k # j => /\ Mine(k) # Mine(j) /\ Mine(k)' = Mine(k)
                                 /\ jpc'[k] = jpc[k] /\ outcome'[k] = outcome[k]
    BY <1>0 DEF Typed, Mine, Worker, Decrypting, Reporting,
       CheckTarget, CreateFails, CreateTemp,
       DecryptFails, DecryptReturns, RenameFails, Rename, Remove, Chtimes,
       Count, Record, Event, Release, Signal, Goto, End
  <1>2. \/ temps' = temps
        \/ temps' = temps \cup {Mine(j)}
        \/ temps' = temps \ {Mine(j)}
    BY DEF Worker, Decrypting, Reporting, CheckTarget, CreateFails, CreateTemp,
       DecryptFails, DecryptReturns, RenameFails, Rename, Remove, Chtimes,
       Count, Record, Event, Release, Signal, files
  <1>3. whole \subseteq whole' /\ (jpc'[j] = "rename" => Mine(j) \in whole')
    BY DEF Typed, Worker, Decrypting, Reporting,
       CheckTarget, CreateFails, CreateTemp,
       DecryptFails, DecryptReturns, RenameFails, Rename, Remove, Chtimes,
       Count, Record, Event, Release, Signal, files, Goto, AfterRemove
  <1>4. outcome'[j] = "succeeded" => outcome[j] = "succeeded" \/ jpc[j] = "rename"
    BY DEF Typed, Worker, Decrypting, Reporting,
       CheckTarget, CreateFails, CreateTemp,
       DecryptFails, DecryptReturns, RenameFails, Rename, Remove, Chtimes,
       Count, Record, Event, Release, Signal, End
  <1>5. Mine(j) \in temps' => jpc'[j] \in {"decrypt", "rename", "remove"}
    BY DEF Typed, Places, Worker, Decrypting, Reporting,
       CheckTarget, CreateFails, CreateTemp,
       DecryptFails, DecryptReturns, RenameFails, Rename, Remove, Chtimes,
       Count, Record, Event, Release, Signal, files, Goto
  <1>6. \A i \in temps' : i[2] <= run' BY <1>0, <1>2 DEF Places
  <1>7. \/ target' = target /\ (outcome[j] = "succeeded" => outcome'[j] = "succeeded")
        \/ Rename(j)
    BY DEF Typed, Control, Undecided, Worker, Decrypting, Reporting,
       CheckTarget, CreateFails,
       CreateTemp, DecryptFails, DecryptReturns, RenameFails, Remove, Chtimes,
       Count, Record, Event, Release, Signal, files, End
  <1>8. \A t \in Targets, k \in Jobs, r \in Runs :
          target'[t] = <<k, r>> => r <= run' /\ (r = run' => outcome'[k] = "succeeded")
    <2>1. CASE ~Rename(j) BY <1>0, <1>1, <1>7, <2>1 DEF Places
    <2>2. CASE Rename(j)
      <3>1. /\ target'[OutPath[j]] = <<j, run>> /\ outcome'[j] = "succeeded"
            /\ \A t \in Targets : t # OutPath[j] => target'[t] = target[t]
        BY <1>0, <2>2 DEF Typed, Rename, End
      <3> QED BY <1>0, <1>1, <3>1 DEF Places
    <2> QED BY <2>1, <2>2
  <1>9. \A k \in Jobs :
          /\ jpc'[k] = "rename" \/ outcome'[k] = "succeeded" => Mine(k)' \in whole'
          /\ Mine(k)' \in temps' => jpc'[k] \in {"decrypt", "rename", "remove"}
    <2>1. \A k \in Jobs : k # j => (Mine(k)' \in temps' <=> Mine(k) \in temps)
      BY <1>1, <1>2
    <2> QED BY <1>0, <1>1, <1>3, <1>4, <1>5, <2>1 DEF Places
  <1> QED BY <1>6, <1>8, <1>9 DEF Places

----------------------------------------------------------------------------
(* Litter.                                                                 *)

(* Every temporary file of this run belongs to a worker that has a slot.   *)
LEMMA LitterNow ==
  Typed /\ Places /\ Slots =>
    Cardinality({i \in temps : i[2] = run}) <= Workers
  <1> SUFFICES ASSUME Typed, Places, Slots
               PROVE  Cardinality({i \in temps : i[2] = run}) <= Workers
    OBVIOUS
  <1> DEFINE L == {i \in temps : i[2] = run}
             owner == [i \in L |-> i[1]]
  <1>1. \A i \in L : i = Mine(i[1]) /\ i[1] \in Jobs
    BY DEF Typed, Inodes, Mine
  <1>2. \A i \in L : i[1] \in Held BY <1>1 DEF Places, Held
  <1>3. \A a, b \in L : a[1] = b[1] => a = b BY <1>1
  <1>4. owner \in Injection(L, Held)
    <2> HIDE DEF L
    <2>1. owner \in [L -> Held] BY <1>2
    <2>2. \A a, b \in L : owner[a] = owner[b] => a = b BY <1>3
    <2> QED BY <2>1, <2>2 DEF Injection, IsInjective
  <1>5. IsFiniteSet(Held) /\ Cardinality(Held) \in Nat BY JobsFinite DEF Held
  <1>6. IsFiniteSet(L) /\ Cardinality(L) <= Cardinality(Held)
    <2> HIDE DEF L, owner
    <2> QED BY <1>4, <1>5, FS_Injection
  <1>7. Cardinality(L) \in Nat
    <2> HIDE DEF L
    <2> QED BY <1>6, FS_CardinalityType
  <1> QED BY <1>5, <1>6, <1>7, BatchAssumption DEF Slots

(* What earlier runs left is not added to.                                 *)
LEMMA LitterNext ==
  ASSUME Typed, Typed', Places', Slots', LitterBounded, [Next]_vars
  PROVE  LitterBounded'
  <1>1. Cardinality({i \in temps' : i[2] = run'}) <= Workers
    <2>1. (Typed /\ Places /\ Slots =>
             Cardinality({i \in temps : i[2] = run}) <= Workers)'
      BY LitterNow, PTL
    <2> QED BY <2>1
  <1>2. temps' = temps \/ \E j \in Jobs : /\ run' = run
                                         /\ \/ temps' = temps \cup {<<j, run>>}
                                            \/ temps' = temps \ {<<j, run>>}
    BY Steps DEF Worker, Decrypting, Reporting,
       CheckTarget, CreateFails, CreateTemp,
       DecryptFails, DecryptReturns, RenameFails, Rename, Remove, Chtimes,
       Count, Record, Event, Release, Signal, files, batch, Mine, vars, Refuse,
       Spawn, Wait, Discover, Restart
  <1>3. \A r \in Runs : r # run' =>
          {i \in temps' : i[2] = r} = {i \in temps : i[2] = r}
    BY <1>2
  <1> QED BY <1>1, <1>3 DEF LitterBounded

(* No run has left anything before the first.                              *)
LEMMA LitterInit == Init => LitterBounded
  <1> SUFFICES ASSUME Init PROVE LitterBounded OBVIOUS
  <1>1. \A r : {i \in temps : i[2] = r} = {} BY DEF Init
  <1> QED BY <1>1, FS_EmptySet, BatchAssumption DEF LitterBounded

----------------------------------------------------------------------------
(* The report.                                                             *)

(* The second event of a unit goes after the first.                        *)
LEMMA AppendPair == \A a, b : Append(<<a>>, b) = <<a, b>>
  <1> SUFFICES ASSUME NEW a, NEW b PROVE Append(<<a>>, b) = <<a, b>>
    OBVIOUS
  <1>1. <<a>> \in Seq({a, b}) /\ <<a, b>> \in Seq({a, b}) OBVIOUS
  <1>2. /\ Append(<<a>>, b) \in Seq({a, b}) /\ Len(Append(<<a>>, b)) = 2
        /\ Append(<<a>>, b)[1] = a /\ Append(<<a>>, b)[2] = b
    BY <1>1, AppendProperties
  <1>3. \A i \in 1..2 : Append(<<a>>, b)[i] = <<a, b>>[i] BY <1>2
  <1> QED BY <1>1, <1>2, <1>3, SeqEqual

(* A report that has not begun holds nothing.                              *)
LEMMA TallyInit == Init => Tally
  BY DEF Init, Tally

(* Discovery opens the report; nothing else the main goroutine does is in  *)
(* it.                                                                     *)
LEMMA TallyMain ==
  ASSUME Typed, Control, Tally,
         \/ UNCHANGED vars \/ Refuse \/ Spawn \/ Wait
         \/ \E d \in 0..MaxDiscErrs : Discover(d)
         \/ \E lost \in SUBSET Unsynced : Restart(lost)
  PROVE  Tally'
  <1>1. CASE UNCHANGED <<rep, nerr, derrs, events, outcome, jpc>> /\ (bpc' = bpc \/ Wait)
    BY <1>1 DEF Tally, Ended, Wait
  <1>2. CASE Refuse
    BY <1>2, NoReportType DEF Tally, Refuse, Kinds
  <1>3. CASE Spawn
    <2>1. /\ next \in Jobs /\ jpc[next] = "queued" /\ jpc'[next] = "stat"
          /\ \A k \in Jobs : k # next => jpc'[k] = jpc[k]
      BY <1>3, BatchAssumption DEF Typed, Control, Spawn, Goto, Jobs
    <2>2. UNCHANGED <<rep, nerr, derrs, events, outcome, bpc>> /\ bpc = "spawn"
      BY <1>3 DEF Spawn, report
    <2>3. \A k : /\ Ended(k, Counted)' = Ended(k, Counted)
                 /\ Ended(k, Recorded)' = Ended(k, Recorded)
      BY <2>1, <2>2 DEF Ended, Counted, Recorded
    <2>4. \A k \in Jobs : jpc'[k] \in Told <=> jpc[k] \in Told
      BY <2>1 DEF Told
    <2> QED BY <2>2, <2>3, <2>4 DEF Tally
  <1>4. ASSUME NEW d \in 0..MaxDiscErrs, Discover(d) PROVE Tally'
    <2>1. \A j \in Jobs : jpc'[j] = "queued"
      <3>1. bpc = "discover" /\ jpc' = jpc BY <1>4, Zenon DEF Discover
      <3> QED BY <3>1, BatchAssumption DEF Typed, Control, Jobs
    <2>2. \A k : Ended(k, Counted)' = {} /\ Ended(k, Recorded)' = {}
      BY <2>1 DEF Ended, Counted, Recorded
    <2>3. rep = NoReport /\ nerr = 0 BY <1>4 DEF Tally, Discover
    <2>4. /\ rep'.discovered = N /\ rep'.failed = d
          /\ rep'.succeeded = 0 /\ rep'.skipped = 0
      <3> DEFINE F == {"discovered"} \cup Kinds
      <3>1. rep' = [[rep EXCEPT !["failed"] = d] EXCEPT !["discovered"] = N]
        BY <1>4, Zenon DEF Discover
      <3>2. /\ "discovered" \in F /\ "failed" \in F /\ "succeeded" \in F
            /\ "skipped" \in F /\ rep \in [F -> Nat]
        BY DEF Typed, Kinds
      <3>3. rep["succeeded"] = 0 /\ rep["skipped"] = 0 BY <2>3, NoReportType
      <3> HIDE DEF F
      <3>4. PICK r : r = [rep EXCEPT !["failed"] = d] OBVIOUS
      <3>5. rep' = [r EXCEPT !["discovered"] = N] BY <3>1, <3>4, Zenon
      <3> QED BY <3>2, <3>3, <3>4, <3>5
    <2>6. derrs' = d /\ nerr' = d /\ d \in Nat /\ bpc' = "spawn"
      <3>1. d \in Nat BY BatchAssumption
      <3> QED BY <1>4, <3>1, Zenon DEF Discover
    <2>5. \A j \in Jobs : events'[j] = <<"discovered">> /\ jpc'[j] \notin Told
      BY <1>4, <2>1 DEF Discover, Each, Told
    <2> QED BY <2>2, <2>4, <2>5, <2>6, FS_EmptySet DEF Tally
  <1>5. ASSUME NEW lost \in SUBSET Unsynced, Restart(lost) PROVE Tally'
    BY <1>5 DEF Tally, Restart
  <1> QED BY <1>1, <1>2, <1>3, <1>4, <1>5
       DEF vars, batch, report, Wait

(* A worker counts its unit once, lists its error once, tells once.        *)
LEMMA TallyWorker ==
  ASSUME Typed, Control, Tally, NEW j \in Jobs, Worker(j)
  PROVE  Tally'
  <1>0. /\ bpc = "spawn" /\ bpc' = "spawn" /\ derrs' = derrs /\ derrs \in Nat
        /\ jpc[j] \notin {"queued", "gone"}
    <2>1. jpc[j] \notin {"queued", "gone"} /\ bpc' = bpc /\ derrs' = derrs
      BY DEF Worker, Decrypting, Reporting,
         CheckTarget, CreateFails, CreateTemp, DecryptFails,
         DecryptReturns, RenameFails, Rename, Remove, Chtimes, Count, Record,
         Event, Release, Signal, batch
    <2>2. ~(j >= 1 /\ next = 1) BY <2>1 DEF Control
    <2>3. bpc = "spawn" BY <2>1, <2>2, BatchAssumption DEF Typed, Control, Jobs
    <2> QED BY <2>1, <2>3, BatchAssumption DEF Typed
  <1>1. \A k \in Jobs : k # j => jpc'[k] = jpc[k] /\ outcome'[k] = outcome[k]
    BY DEF Typed, Worker, Decrypting, Reporting,
       CheckTarget, CreateFails, CreateTemp,
       DecryptFails, DecryptReturns, RenameFails, Rename, Remove, Chtimes,
       Count, Record, Event, Release, Signal, Goto, End
  <1>2. \A k : /\ Ended(k, Counted) \in SUBSET Jobs
               /\ Ended(k, Recorded) \in SUBSET Jobs
    BY DEF Ended
  <1>3. \A k : /\ Cardinality(Ended(k, Counted)) \in Nat
               /\ Cardinality(Ended(k, Recorded)) \in Nat
    BY <1>2, JobsFinite
  <1>4. CASE Count(j)
    <2>1. /\ outcome' = outcome /\ outcome[j] \in Kinds /\ jpc[j] = "count"
          /\ jpc'[j] = IF outcome[j] = "failed" THEN "record" ELSE "event"
          /\ nerr' = nerr /\ events' = events
      BY <1>4 DEF Typed, Control, Count, Goto, Undecided
    <2>2. \A k \in Kinds : rep'[k] = IF k = outcome[j] THEN rep[k] + 1 ELSE rep[k]
      BY <1>4, <2>1 DEF Typed, Count
    <2>3. rep'["discovered"] = rep["discovered"]
      BY <1>4, <2>1 DEF Typed, Count, Kinds
    <2>4a. PICK o \in Kinds : o = outcome[j] BY <2>1
    <2>4. /\ Ended(o, Counted)' = Ended(o, Counted) \cup {j}
          /\ j \notin Ended(o, Counted)
          /\ \A k : k # o => Ended(k, Counted)' = Ended(k, Counted)
          /\ Ended("failed", Recorded)' = Ended("failed", Recorded)
      BY <1>1, <2>1, <2>4a DEF Ended, Counted, Recorded
    <2>5. /\ Cardinality(Ended(o, Counted)') = Cardinality(Ended(o, Counted)) + 1
          /\ \A k \in Kinds : k # o =>
               Cardinality(Ended(k, Counted)') = Cardinality(Ended(k, Counted))
      BY <1>2, <2>4, OneMore
    <2>6. \A k \in Jobs : jpc'[k] \in Told <=> jpc[k] \in Told
      BY <1>1, <2>1 DEF Told
    <2>7. /\ rep'.discovered = N
          /\ rep'.succeeded = Cardinality(Ended("succeeded", Counted)')
          /\ rep'.skipped = Cardinality(Ended("skipped", Counted)')
      BY <1>0, <2>2, <2>3, <2>5, <2>4a DEF Tally, Kinds
    <2>8. rep'.failed = derrs' + Cardinality(Ended("failed", Counted)')
      BY <1>0, <1>3, <2>2, <2>5, <2>4a DEF Tally, Kinds
    <2> QED BY <1>0, <2>1, <2>4, <2>6, <2>7, <2>8 DEF Tally
  <1>5. CASE Record(j)
    <2>1. /\ outcome' = outcome /\ outcome[j] = "failed" /\ jpc[j] = "record"
          /\ jpc'[j] = "event" /\ rep' = rep /\ nerr' = nerr + 1 /\ events' = events
      BY <1>5 DEF Typed, Control, Record, Goto
    <2>2. /\ Ended("failed", Recorded)' = Ended("failed", Recorded) \cup {j}
          /\ j \notin Ended("failed", Recorded)
          /\ \A k : Ended(k, Counted)' = Ended(k, Counted)
      BY <1>1, <2>1 DEF Ended, Counted, Recorded
    <2>3. Cardinality(Ended("failed", Recorded)') =
            Cardinality(Ended("failed", Recorded)) + 1
      BY <1>2, <2>2, OneMore
    <2>4. \A k \in Jobs : jpc'[k] \in Told <=> jpc[k] \in Told
      BY <1>1, <2>1 DEF Told
    <2> QED BY <1>0, <1>3, <2>1, <2>2, <2>3, <2>4 DEF Tally
  <1>6. CASE ~Count(j) /\ ~Record(j)
    <2>1. rep' = rep /\ nerr' = nerr
      BY <1>6 DEF Worker, Decrypting, Reporting,
         CheckTarget, CreateFails, CreateTemp, DecryptFails,
         DecryptReturns, RenameFails, Rename, Remove, Chtimes, Event, Release,
         Signal, report
    <2>2. /\ jpc'[j] \in Counted <=> jpc[j] \in Counted
          /\ jpc'[j] \in Recorded <=> jpc[j] \in Recorded
          /\ outcome'[j] = outcome[j] \/ jpc[j] \notin Counted
      BY <1>6 DEF Typed, Worker, Decrypting, Reporting,
         CheckTarget, CreateFails, CreateTemp,
         DecryptFails, DecryptReturns, RenameFails, Rename, Remove, Chtimes,
         Event, Release, Signal, Goto, AfterRemove, End, Counted, Recorded
    <2>3. Recorded \subseteq Counted BY DEF Recorded, Counted
    <2>4. \A k : /\ Ended(k, Counted)' = Ended(k, Counted)
                 /\ Ended(k, Recorded)' = Ended(k, Recorded)
      BY <1>1, <2>2, <2>3 DEF Ended
    <2>5. ASSUME NEW k \in Jobs
          PROVE  events'[k] = IF jpc'[k] \in Told THEN <<"discovered", outcome'[k]>>
                                                  ELSE <<"discovered">>
      <3>1. CASE Event(j) /\ k = j
        <4>1. /\ jpc[j] = "event" /\ jpc'[j] = "release" /\ outcome'[j] = outcome[j]
              /\ events'[j] = Append(events[j], outcome[j])
          BY <3>1 DEF Typed, Event, Goto
        <4>2. events[j] = <<"discovered">> BY <1>0, <4>1 DEF Tally, Told
        <4>3. events'[j] = <<"discovered", outcome[j]>> BY <4>1, <4>2, AppendPair
        <4> QED BY <3>1, <4>1, <4>3 DEF Told
      <3>2. CASE ~Event(j) \/ k # j
        <4>1. events'[k] = events[k]
          BY <1>6, <3>2 DEF Typed, Worker, Decrypting, Reporting,
             CheckTarget, CreateFails, CreateTemp,
             DecryptFails, DecryptReturns, RenameFails, Rename, Remove,
             Chtimes, Event, Release, Signal, report
        <4>2. /\ jpc'[k] \in Told <=> jpc[k] \in Told
              /\ outcome'[k] = outcome[k] \/ jpc[k] \notin Told
          BY <1>1, <1>6, <3>2 DEF Typed, Worker, Decrypting, Reporting,
             CheckTarget, CreateFails,
             CreateTemp, DecryptFails, DecryptReturns, RenameFails, Rename,
             Remove, Chtimes, Release, Signal, Goto, AfterRemove, End, Told
        <4> QED BY <1>0, <4>1, <4>2 DEF Tally
      <3> QED BY <3>1, <3>2
    <2> QED BY <1>0, <2>1, <2>4, <2>5 DEF Tally
  <1> QED BY <1>4, <1>5, <1>6

----------------------------------------------------------------------------
(* The invariant.                                                          *)

(* It holds initially.                                                     *)
LEMMA InvInit == Init => IInv
  BY TypedInit, ControlInit, PlacesInit, SlotsInit, LitterInit, TallyInit
  DEF IInv

(* Every step keeps it, a kill and a power loss included.                  *)
LEMMA InvNext == IInv /\ [Next]_vars => IInv'
  <1> SUFFICES ASSUME IInv, [Next]_vars PROVE IInv' OBVIOUS
  <1>1. Typed' /\ Control' /\ Places' /\ Slots' /\ Tally'
    <2>1. CASE \E j \in Jobs : Worker(j)
      BY <2>1, TypedWorker, ControlWorker, PlacesWorker, SlotsWorker, TallyWorker
      DEF IInv
    <2>2. CASE ~\E j \in Jobs : Worker(j)
      BY <2>2, Steps, TypedMain, ControlMain, PlacesMain, SlotsMain, TallyMain
      DEF IInv
    <2> QED BY <2>1, <2>2
  <1>2. LitterBounded' BY <1>1, LitterNext DEF IInv
  <1> QED BY <1>1, <1>2 DEF IInv

(* The inductive invariant: at which stage a job is, which files it has    *)
(* there, what is counted of it.                                           *)
THEOREM Invariant == Spec => []IInv
  BY InvInit, InvNext, PTL DEF Spec

(* Every variable keeps its type; the semaphore counts the workers that    *)
(* hold a slot, and the WaitGroup those that have not signalled.           *)
THEOREM TypeCorrect == Spec => []TypeOK
  <1>1. IInv => TypeOK
    <2> SUFFICES ASSUME IInv PROVE TypeOK OBVIOUS
    <2>1. DOMAIN rep = {"discovered"} \cup Kinds BY DEF IInv, Typed
    <2> QED BY <2>1 DEF IInv, Typed, Slots, TypeOK, Pcs, Held, Awaited
  <1> QED BY <1>1, Invariant, PTL

(* However many units there are, and wherever runs are killed, a run has   *)
(* at most Workers temporary files.                                        *)
THEOREM LitterIsBounded == Spec => []LitterBounded
  <1>1. IInv => LitterBounded BY DEF IInv
  <1> QED BY <1>1, Invariant, PTL

(* A run that returns leaves none.                                         *)
THEOREM NothingLeft == Spec => []NoLitter
  <1>1. IInv => NoLitter BY DEF IInv, Control, Places, NoLitter
  <1> QED BY <1>1, Invariant, PTL

(* All units have ended: each is in one of three sets.                     *)
LEMMA Partition ==
  ASSUME IInv, bpc = "done"
  PROVE  Cardinality(Ended("succeeded", Counted))
         + Cardinality(Ended("skipped", Counted))
         + Cardinality(Ended("failed", Counted)) = N
  <1> DEFINE A == Ended("succeeded", Counted)
             B == Ended("skipped", Counted)
             C == Ended("failed", Counted)
  <1>1. \A j \in Jobs : jpc[j] = "gone" /\ outcome[j] \in Kinds
    BY DEF IInv, Typed, Control, Undecided
  <1>2. A \cup B \cup C = Jobs BY <1>1 DEF Ended, Counted, Kinds
  <1>3. A \cap B = {} /\ (A \cup B) \cap C = {} BY DEF Ended
  <1>4. A \in SUBSET Jobs /\ B \in SUBSET Jobs /\ C \in SUBSET Jobs BY DEF Ended
  <1> HIDE DEF A, B, C
  <1>5. IsFiniteSet(A) /\ IsFiniteSet(B) /\ IsFiniteSet(C) BY <1>4, JobsFinite
  <1>6. /\ IsFiniteSet(A \cup B)
        /\ Cardinality(A \cup B) = Cardinality(A) + Cardinality(B) - Cardinality(A \cap B)
    BY <1>5, FS_Union
  <1>7. Cardinality((A \cup B) \cup C) =
          Cardinality(A \cup B) + Cardinality(C) - Cardinality((A \cup B) \cap C)
    BY <1>5, <1>6, FS_Union
  <1>8. /\ Cardinality(A) \in Nat /\ Cardinality(B) \in Nat /\ Cardinality(C) \in Nat
    BY <1>4, JobsFinite
  <1>9. Cardinality(A) + Cardinality(B) + Cardinality(C) = Cardinality(Jobs)
    <2>1. Cardinality(A \cap B) = 0 /\ Cardinality((A \cup B) \cap C) = 0
      BY <1>3, FS_EmptySet
    <2>2. Cardinality(A \cup B) = Cardinality(A) + Cardinality(B)
      BY <1>6, <1>8, <2>1
    <2>3. Cardinality(Jobs) = Cardinality(A \cup B) + Cardinality(C)
      <3>1. Cardinality(Jobs) = Cardinality(A \cup B) + Cardinality(C)
                                - Cardinality((A \cup B) \cap C)
        BY <1>2, <1>7, Zenon
      <3> QED BY <1>8, <2>1, <2>2, <3>1
    <2> QED BY <2>2, <2>3
  <1> QED BY <1>9, JobsFinite DEF A, B, C

(* When Batch returns every unit is counted once, every error listed, and  *)
(* every unit was told of twice.                                           *)
THEOREM ReportIsSettled == Spec => []ReportSettled
  <1>1. IInv => ReportSettled
    <2> SUFFICES ASSUME IInv PROVE ReportSettled OBVIOUS
    <2>1. bpc = "refused" => rep.failed = 1 /\ nerr = 1 BY DEF IInv, Tally
    <2>2. CASE bpc = "done"
      <3>1. \A j \in Jobs : jpc[j] = "gone" BY <2>2 DEF IInv, Control
      <3>2. \A k : Ended(k, Counted) = Ended(k, Recorded)
        BY <3>1 DEF Ended, Counted, Recorded
      <3>3. rep.failed = derrs + Cardinality(Ended("failed", Counted)) /\ nerr = rep.failed
        BY <2>2, <3>2 DEF IInv, Tally
      <3>4. \A S \in SUBSET Jobs : Cardinality(S) \in Nat BY JobsFinite
      <3>5. \A k : Cardinality(Ended(k, Counted)) \in Nat BY <3>4 DEF Ended
      <3>6. derrs \in Nat /\ N \in Nat BY BatchAssumption DEF IInv, Typed
      <3>7. rep.succeeded + rep.skipped + rep.failed = N + derrs
        BY <2>2, <3>3, <3>5, <3>6, Partition DEF IInv, Tally
      <3>8. rep.discovered = N BY <2>2 DEF IInv, Tally
      <3>9. \A j \in Jobs : events[j] = <<"discovered", outcome[j]>>
        BY <2>2, <3>1 DEF IInv, Tally, Told
      <3> QED BY <2>2, <3>3, <3>7, <3>8, <3>9 DEF ReportSettled
    <2> QED BY <2>1, <2>2 DEF ReportSettled
  <1> QED BY <1>1, Invariant, PTL

----------------------------------------------------------------------------
(* Units and their targets.                                                *)

(* Initially a target holds an old file or none.                           *)
LEMMA OwnInit == Init => Own
  <1> SUFFICES ASSUME Init PROVE Own OBVIOUS
  <1>1. \A t \in Targets : target[t] \in {OldFile, NoFile} BY DEF Init
  <1>2. \A j \in Jobs, r \in Runs : <<j, r>> \in Inodes BY DEF Inodes
  <1>3. \A j \in Jobs : outcome[j] = "none" /\ jpc[j] = "queued"
    BY DEF Init, Each
  <1>4. \A j \in Jobs, r \in Runs : mtime[<<j, r>>] = Now BY <1>2 DEF Init
  <1> QED BY <1>1, <1>2, <1>3, <1>4, BatchAssumption DEF Own, Kin, SuccessStands

(* The main goroutine and a restart leave the targets alone.               *)
LEMMA OwnMain ==
  ASSUME Typed, Control, Own,
         \/ UNCHANGED vars \/ Refuse \/ Spawn \/ Wait
         \/ \E d \in 0..MaxDiscErrs : Discover(d)
         \/ \E lost \in SUBSET Unsynced : Restart(lost)
  PROVE  Own'
  <1>1. CASE UNCHANGED <<files, run, skip, outcome, jpc>>
    <2>1. \A k \in Jobs : Mine(k)' = Mine(k) BY <1>1 DEF Mine
    <2>2. {Mine(k) : k \in Jobs}' = {Mine(k) : k \in Jobs} BY <2>1
    <2>3. SuccessStands' BY <1>1, <2>1 DEF Own, SuccessStands, files
    <2> QED BY <1>1, <2>2, <2>3 DEF Own, files
  <1>2. CASE Spawn
    <2>1. next \in Jobs BY <1>2, BatchAssumption DEF Typed, Spawn, Jobs
    <2>2. /\ UNCHANGED <<files, run, skip, outcome>> /\ jpc'[next] = "stat"
          /\ \A k \in Jobs : k # next => jpc'[k] = jpc[k]
      BY <1>2, <2>1 DEF Typed, Spawn, Goto
    <2>3. \A k \in Jobs : Mine(k)' = Mine(k) BY <2>2 DEF Mine
    <2>4. {Mine(k) : k \in Jobs}' = {Mine(k) : k \in Jobs} BY <2>3
    <2>5. SuccessStands' BY <2>2, <2>3 DEF Own, SuccessStands, files
    <2> QED BY <2>1, <2>2, <2>4, <2>5 DEF Own, files
  <1>3. ASSUME NEW lost \in SUBSET Unsynced, Restart(lost) PROVE Own'
    BY <1>3 DEF Own, SuccessStands, Restart, Each
  <1> QED BY <1>1, <1>2, <1>3 DEF vars, batch, Refuse, Wait, Discover

(* What a worker puts under its target, and what it leaves alone.          *)
LEMMA OwnWorker ==
  ASSUME Typed, Control, Places, Own, NEW j \in Jobs, Worker(j)
  PROVE  Own'
  <1>0. /\ Mine(j) = <<j, run>> /\ run' = run /\ skip' = skip
        /\ run \in Runs /\ OutPath[j] \in Targets
    BY DEF Mine, Worker, Decrypting, Reporting,
       CheckTarget, CreateFails, CreateTemp, DecryptFails,
       DecryptReturns, RenameFails, Rename, Remove, Chtimes, Count, Record,
       Event, Release, Signal, batch, Typed, Targets
  <1>1. \A k \in Jobs : k # j => jpc'[k] = jpc[k] /\ outcome'[k] = outcome[k]
    BY DEF Typed, Worker, Decrypting, Reporting,
       CheckTarget, CreateFails, CreateTemp,
       DecryptFails, DecryptReturns, RenameFails, Rename, Remove, Chtimes,
       Count, Record, Event, Release, Signal, Goto, End
  <1>2. whole \subseteq whole'
    BY DEF Worker, Decrypting, Reporting, CheckTarget, CreateFails, CreateTemp,
       DecryptFails, DecryptReturns, RenameFails, Rename, Remove, Chtimes,
       Count, Record, Event, Release, Signal, files
  <1>3. \A k \in Jobs : Mine(k)' = Mine(k) /\ OutPath[k] \in Targets
    BY <1>0 DEF Mine, Targets
  <1>4. CASE Rename(j)
    <2>1. /\ target'[OutPath[j]] = Mine(j) /\ jpc'[j] = "remove" /\ mtime' = mtime
          /\ jpc[j] = "rename"
          /\ \A t \in Targets : t # OutPath[j] => target'[t] = target[t]
      BY <1>0, <1>4 DEF Typed, Rename, Goto
    <2>2. Mine(j) \in whole' BY <1>2, <2>1 DEF Places
    <2>3. SuccessStands'
      <3> SUFFICES ASSUME NEW i \in Jobs, outcome'[i] = "succeeded"
                   PROVE  \E k \in Jobs :
                            /\ OutPath[k] = OutPath[i]
                            /\ target'[OutPath[i]] = Mine(k) /\ Mine(k) \in whole'
        BY <1>3 DEF SuccessStands
      <3>1. CASE OutPath[i] = OutPath[j] BY <2>1, <2>2, <3>1
      <3>2. CASE OutPath[i] # OutPath[j]
        <4>1. i # j /\ outcome[i] = "succeeded" BY <1>1, <3>2
        <4>2. PICK k \in Jobs : /\ OutPath[k] = OutPath[i]
                                /\ target[OutPath[i]] = Mine(k) /\ Mine(k) \in whole
          BY <4>1 DEF Own, SuccessStands
        <4> QED BY <1>2, <1>3, <2>1, <3>2, <4>2
      <3> QED BY <3>1, <3>2
    <2>4. \A t \in Targets, k \in Jobs, r \in Runs :
            target'[t] = <<k, r>> => OutPath[k] = t
      BY <1>0, <2>1 DEF Own
    <2>5. \A k \in Jobs : skip /\ jpc'[k] \in {"create", "decrypt", "rename"} =>
            target'[OutPath[k]] \in {NoFile} \cup {Mine(i) : i \in Jobs}
      BY <1>1, <1>3, <2>1 DEF Own
    <2>6. {Mine(i) : i \in Jobs}' = {Mine(i) : i \in Jobs} BY <1>3
    <2> QED BY <1>0, <2>1, <2>3, <2>4, <2>5, <2>6 DEF Own
  <1>5. CASE ~Rename(j)
    <2>1. target' = target
      BY <1>5 DEF Worker, Decrypting, Reporting,
         CheckTarget, CreateFails, CreateTemp, DecryptFails,
         DecryptReturns, RenameFails, Remove, Chtimes, Count, Record, Event,
         Release, Signal, files
    <2>2. outcome'[j] = "succeeded" => outcome[j] = "succeeded"
      BY <1>5 DEF Typed, Worker, Decrypting, Reporting,
         CheckTarget, CreateFails, CreateTemp,
         DecryptFails, DecryptReturns, RenameFails, Remove, Chtimes, Count,
         Record, Event, Release, Signal, End
    <2>3. SuccessStands'
      BY <1>1, <1>2, <1>3, <2>1, <2>2 DEF Own, SuccessStands
    <2>4. ASSUME skip, jpc'[j] \in {"create", "decrypt", "rename"}
          PROVE  target[OutPath[j]] \in {NoFile} \cup {Mine(k) : k \in Jobs}
      BY <1>5, <2>4 DEF Own, Typed, Worker, Decrypting, Reporting,
         CheckTarget, CreateFails, CreateTemp,
         DecryptFails, DecryptReturns, RenameFails, Remove, Chtimes, Count,
         Record, Event, Release, Signal, Goto, AfterRemove
    <2>5. \A k \in Jobs, r \in Runs : mtime'[<<k, r>>] \in Kin(k)
      <3>1. CASE Chtimes(j) /\ mtime' # mtime
        <4>1. PICK i \in Jobs, r \in Runs : target[OutPath[j]] = <<i, r>>
          BY <3>1 DEF Chtimes, Inodes
        <4>2. mtime' = [mtime EXCEPT ![<<i, r>>] = j]
          BY <3>1, <4>1 DEF Chtimes
        <4>3. j \in Kin(i) BY <1>0, <4>1 DEF Own, Kin
        <4> QED BY <4>2, <4>3 DEF Own, Typed, Inodes
      <3>2. CASE mtime' = mtime BY <3>2 DEF Own
      <3>3. mtime' = mtime \/ Chtimes(j)
        BY DEF Worker, Decrypting, Reporting,
           CheckTarget, CreateFails, CreateTemp, DecryptFails,
           DecryptReturns, RenameFails, Rename, Remove, Count, Record, Event,
           Release, Signal, files
      <3> QED BY <3>1, <3>2, <3>3
    <2>6. {Mine(i) : i \in Jobs}' = {Mine(i) : i \in Jobs} BY <1>3
    <2> QED BY <1>0, <1>1, <2>1, <2>3, <2>4, <2>5, <2>6 DEF Own
  <1> QED BY <1>4, <1>5

(* Every step keeps what is known of the targets.                          *)
LEMMA OwnNext ==
  ASSUME IInv, Own, [Next]_vars
  PROVE  Own'
  BY Steps, OwnMain, OwnWorker DEF IInv

(* A file stands under the target of its unit, a success is not undone but *)
(* by another one, and what was there before a run keeps its jobs away.    *)
THEOREM OwnInvariant == Spec => []Own
  <1>1. IInv /\ Own /\ [Next]_vars => Own' BY OwnNext
  <1> QED BY <1>1, OwnInit, Invariant, PTL DEF Spec

(* Under the target of a unit reported as succeeded stands a whole         *)
(* plaintext of this run and of a unit that goes there.                    *)
THEOREM SuccessHolds == Spec => []SuccessStands
  <1>1. Own => SuccessStands BY DEF Own
  <1> QED BY <1>1, OwnInvariant, PTL

(* A target carries its own time or that of a source that goes there,      *)
(* whoever replaces it before it is stamped (batch.go:320-324).            *)
THEOREM TimesAreKept == Spec => []TimesAreOwn
  <1>1. Own => TimesAreOwn
    <2> SUFFICES ASSUME Own, NEW t \in Targets, target[t] \in Inodes
                 PROVE  mtime[target[t]] \in {Now} \cup {k \in Jobs : OutPath[k] = t}
      BY DEF TimesAreOwn
    <2>1. PICK j \in Jobs, r \in Runs : target[t] = <<j, r>> BY DEF Inodes
    <2> QED BY <2>1 DEF Own, Kin
  <1> QED BY <1>1, OwnInvariant, PTL

(* With SkipExisting no step replaces a file that was there before the     *)
(* run, and one of this run only another unit with its target.             *)
THEOREM ExistingIsKept == Spec => ExistingKept
  <1> DEFINE Kept(t) ==
        \/ target[t] = NoFile \/ target'[t] = target[t]
        \/ \E j, k \in Jobs : /\ j # k /\ OutPath[j] = t /\ OutPath[k] = t
                              /\ target[t] = Mine(j) /\ target'[t] = Mine(k)
  <1>1. Own /\ IInv /\ [Next]_vars => [skip => \A t \in Targets : Kept(t)]_vars
    <2> SUFFICES ASSUME Own, IInv, [Next]_vars, skip, NEW t \in Targets
                 PROVE  Kept(t)
      OBVIOUS
    <2>1. target' = target \/ \E j \in Jobs : Rename(j)
      BY Steps DEF Worker, Decrypting, Reporting,
         CheckTarget, CreateFails, CreateTemp, DecryptFails,
         DecryptReturns, RenameFails, Remove, Chtimes, Count, Record, Event,
         Release, Signal, files, vars, Refuse, Spawn, Wait, Discover, Restart
    <2>2. ASSUME NEW k \in Jobs, Rename(k) PROVE Kept(t)
      <3>1. OutPath[k] \in Targets /\ run \in Runs BY DEF Targets, IInv, Typed
      <3>2. CASE t # OutPath[k] BY <2>2, <3>1, <3>2 DEF IInv, Typed, Rename
      <3>3. CASE t = OutPath[k] /\ target[t] # NoFile
        <4>1. target'[t] = Mine(k) BY <2>2, <3>1, <3>3 DEF IInv, Typed, Rename
        <4>2. PICK j \in Jobs : target[t] = Mine(j)
          BY <2>2, <3>3 DEF Own, Rename
        <4>3. OutPath[j] = t BY <3>1, <4>2 DEF Own, Mine
        <4>4. outcome[j] = "succeeded" BY <3>1, <4>2 DEF IInv, Places, Mine
        <4>5. outcome[k] = "none" BY <2>2 DEF IInv, Control, Undecided, Rename
        <4> QED BY <3>3, <4>1, <4>2, <4>3, <4>4, <4>5
      <3> QED BY <3>2, <3>3
    <2> QED BY <2>1, <2>2
  <1> QED BY <1>1, Invariant, OwnInvariant, PTL DEF Spec, ExistingKept

----------------------------------------------------------------------------
(* The store that a reader of the output directory sees.                   *)
shown == [t \in Targets |-> IF target[t] \in whole \cup {NoFile, OldFile}
                            THEN target[t] ELSE Torn]

(* At first it shows what was there.                                       *)
LEMMA StoreInit == Init => Store!Init
  <1> SUFFICES ASSUME Init PROVE Store!Init OBVIOUS
  <1>1. \A t \in Targets : target[t] \in {NoFile, OldFile} BY DEF Init
  <1> QED BY <1>1 DEF Store!Init, Init

(* Every step replaces one whole file by another, reboots, or is not seen. *)
LEMMA StoreNext ==
  ASSUME IInv, [Next]_vars
  PROVE  Store!Next \/ UNCHANGED <<shown, run>>
  <1>1. CASE UNCHANGED <<target, whole, run>>
    BY <1>1 DEF shown
  <1>2. ASSUME NEW j \in Jobs, DecryptReturns(j)
        PROVE  UNCHANGED <<shown, run>>
    <2>1. /\ target' = target /\ whole' = whole \cup {Mine(j)} /\ run' = run
          /\ outcome[j] = "none" /\ run \in Runs /\ Mine(j) \in Inodes
      BY <1>2 DEF DecryptReturns, batch, IInv, Typed, Control, Undecided, Mine,
         Inodes
    <2>2. \A t \in Targets : target[t] # Mine(j)
      BY <2>1 DEF IInv, Places, Mine
    <2> QED BY <2>1, <2>2 DEF shown
  <1>3. ASSUME NEW j \in Jobs, Rename(j) PROVE Store!Next
    <2>1. /\ OutPath[j] \in Targets /\ Mine(j) \in Inodes /\ Mine(j) \in whole
          /\ whole' = whole /\ run' = run
          /\ target' = [target EXCEPT ![OutPath[j]] = Mine(j)]
          /\ target \in [Targets -> Inodes \cup {NoFile, OldFile}]
      BY <1>3 DEF Rename, Targets, IInv, Typed, Places, Mine, Inodes, batch
    <2>2. shown' = [shown EXCEPT ![OutPath[j]] = Mine(j)] BY <2>1 DEF shown
    <2>3. Mine(j) \in Inodes \cup {OldFile} BY <2>1
    <2>4. \E n \in Targets, f \in Inodes \cup {OldFile} :
            shown' = [shown EXCEPT ![n] = f] /\ UNCHANGED run
      BY <2>1, <2>2, <2>3
    <2> QED BY <2>4, Zenon DEF Store!Next, Store!Replace, shown
  <1>4. ASSUME NEW lost \in SUBSET Unsynced, Restart(lost) PROVE Store!Next
    <2> DEFINE gone == {t \in Targets : target[t] \in lost /\ target[t] \in whole}
    <2>1. /\ target' = target /\ whole' = whole \ lost /\ run' = run + 1
          /\ lost \subseteq Inodes /\ NoFile \notin Inodes /\ OldFile \notin Inodes
      BY <1>4, BatchAssumption DEF Restart, Unsynced
    <2>2. gone \in SUBSET {t \in Targets : shown[t] # NoFile}
      BY <2>1 DEF shown
    <2>3. shown' = [t \in Targets |-> IF t \in gone THEN Torn ELSE shown[t]]
      BY <2>1 DEF shown
    <2>4. \E down \in SUBSET {t \in Targets : shown[t] # NoFile} :
            /\ run' = run + 1
            /\ shown' = [t \in Targets |-> IF t \in down THEN Torn ELSE shown[t]]
      BY <2>1, <2>2, <2>3, Zenon
    <2> QED BY <2>4, Zenon DEF Store!Next, Store!Reboot, shown
  <1>5. \/ UNCHANGED <<target, whole, run>>
        \/ \E j \in Jobs : DecryptReturns(j) \/ Rename(j)
        \/ \E lost \in SUBSET Unsynced : Restart(lost)
    BY Steps DEF Worker, Decrypting, Reporting,
       CheckTarget, CreateFails, CreateTemp, DecryptFails,
       RenameFails, Remove, Chtimes, Count, Record, Event, Release, Signal,
       files, batch, vars, Refuse, Spawn, Wait, Discover
  <1> QED BY <1>1, <1>2, <1>3, <1>4, <1>5

(* Batch implements a store of whole files, through every interleaving,    *)
(* kill and power loss.                                                    *)
THEOREM Implements == Spec => ReplacesAtomically
  <1>1. IInv /\ [Next]_vars => [Store!Next]_<<shown, run>> BY StoreNext
  <1> QED BY <1>1, StoreInit, Invariant, PTL
       DEF Spec, ReplacesAtomically, Store!Spec, shown
=============================================================================
