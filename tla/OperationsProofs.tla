--------------------------- MODULE OperationsProofs ---------------------------
(***************************************************************************)
(* Theorems about what runs and what saves the platform: the life of the   *)
(* process (Lifecycle), for any set of collectors, any of which crash, and *)
(* any number of restarts; and the runs of the backup (Backup), for any    *)
(* number of them that overlap.  The two share no variable.                *)
(***************************************************************************)
EXTENDS Lifecycle, Backup, TLAPS

(* Where the order of the shutdown comes from, stage by stage: Polymarket  *)
(* is not supervised before the backfill is over; no stop() is called      *)
(* before the signal, so that no supervisor starts a collector that was    *)
(* stopped; a stop() that returned leaves no loop and no bar, one that     *)
(* raised no loop; supervisors are cancelled after every stop(), and       *)
(* clients closed after them.                                              *)
NotYetPolymarket == main = "backfill" => sup[Polymarket] = "none"
StopAfterSignal ==
    /\ main = "stopping" => signalled
    /\ \A c \in Collectors : stop[c] # "no" => signalled
StoppedIsEmpty ==
    \A c \in BarKeepers :
        /\ stop[c] \in Ended => c \notin loops
        /\ stop[c] = "returned" => c \notin bars
StopsBeforeCancels ==
    main \in {"cancelling"} \cup Closing \cup {"exited"} =>
        \A c \in Collectors : stop[c] \in Ended
CancelsBeforeCloses ==
    main \in Closing \cup {"exited"} => \A c \in Collectors : sup[c] = "done"
FlushedAtExit == main = "exited" => rows # "sender"

IInv ==
    /\ TypeOK /\ NotYetPolymarket /\ StopAfterSignal /\ StoppedIsEmpty
    /\ StopsBeforeCancels /\ CancelsBeforeCloses /\ FlushedAtExit

USE DEF Closing, Gone, Ended, Waits, NotYetPolymarket, StopAfterSignal, StoppedIsEmpty,
        StopsBeforeCancels, CancelsBeforeCloses, FlushedAtExit

(* Nothing has been told to stop and nothing is buffered. *)
LEMMA InitInv == Init => IInv
<1> SUFFICES ASSUME Init PROVE IInv
  OBVIOUS
<1>1. sup = [c \in Collectors |-> IF c = Polymarket THEN "none" ELSE "ready"]
  BY DEF Init, Started
<1>2. /\ main = "backfill" /\ signalled = FALSE /\ rows = "none" /\ loops = {}
      /\ bars = {} /\ restarts = 0 /\ stop = [c \in Collectors |-> "no"]
  BY DEF Init
<1>3. TypeOK
  <2>1. sup \in [Collectors -> {"none", "ready", "running", "delay", "done"}]
    BY <1>1
  <2>2. 0 \in 0 .. MaxRestarts
    BY LifecycleAssumption
  <2> QED
    BY <1>2, <2>1, <2>2 DEF TypeOK
<1>4. NotYetPolymarket
  BY <1>1, LifecycleAssumption
<1> QED
  BY <1>2, <1>3, <1>4 DEF IInv

(* The supervisors. *)
LEMMA SupervisorInv ==
    ASSUME IInv, NEW c \in Collectors, Supervisor(c)
    PROVE  IInv'
<1> USE LifecycleAssumption DEF IInv, TypeOK
<1>1. CASE SupEnter(c)
  BY <1>1 DEF SupEnter
<1>2. CASE DelayOver(c)
  BY <1>2 DEF DelayOver
<1>3. CASE SupReturns(c)
  BY <1>3 DEF SupReturns
<1>4. CASE CancelSupervisor(c)
  BY <1>4 DEF CancelSupervisor
<1> QED
  BY <1>1, <1>2, <1>3, <1>4 DEF Supervisor

(* The steps of stop(). *)
LEMMA StoppingInv ==
    ASSUME IInv, NEW c \in Collectors, Stopping(c)
    PROVE  IInv'
<1> USE LifecycleAssumption DEF IInv, TypeOK
<1>1. CASE CallStop(c)
  BY <1>1 DEF CallStop
<1>2. CASE LoopsCancelled(c)
  BY <1>2 DEF LoopsCancelled
<1>3. CASE LastFlush(c)
  BY <1>3 DEF LastFlush, FlushAll
<1> QED
  BY <1>1, <1>2, <1>3 DEF Stopping

(* The loops: one that still runs keeps its supervisor from being done, so *)
(* nothing is closed yet.                                                  *)
LEMMA LoopInv ==
    ASSUME IInv, NEW c \in Collectors,
           Crash(c) \/ KeepBar(c) \/ WriteRows(c) \/ FlushRows(c) \/ LoopSeesStop(c)
    PROVE  IInv'
<1> USE LifecycleAssumption DEF IInv, TypeOK
<1>1. CASE Crash(c)
  BY <1>1 DEF Crash
<1>2. CASE KeepBar(c)
  BY <1>2 DEF KeepBar
<1>3. CASE WriteRows(c)
  BY <1>3 DEF WriteRows
<1>4. CASE FlushRows(c)
  BY <1>4 DEF FlushRows
<1>5. CASE LoopSeesStop(c)
  BY <1>5 DEF LoopSeesStop
<1> QED
  BY <1>1, <1>2, <1>3, <1>4, <1>5

(* main_async. *)
LEMMA MainInv ==
    ASSUME IInv, Main
    PROVE  IInv'
<1> USE LifecycleAssumption DEF IInv, TypeOK
<1>1. CASE EndBackfill
  BY <1>1 DEF EndBackfill
<1>2. CASE BeginStop
  BY <1>2 DEF BeginStop
<1>3. CASE AllStopped
  BY <1>3 DEF AllStopped
<1>4. CASE AllEnded
  BY <1>4 DEF AllEnded
<1>5. CASE CloseClient
  BY <1>5 DEF CloseClient
<1>6. CASE CloseDb
  BY <1>6 DEF CloseDb
<1> QED
  BY <1>1, <1>2, <1>3, <1>4, <1>5, <1>6 DEF Main

(* The backfill, the signal, the end of the process and a new one. *)
LEMMA ProcessInv ==
    ASSUME IInv, BackfillWrites \/ Signal \/ CloseRaises \/ Kill \/ Boot
    PROVE  IInv'
<1> USE LifecycleAssumption DEF IInv, TypeOK
<1>1. CASE BackfillWrites
  BY <1>1 DEF BackfillWrites
<1>2. CASE Signal
  BY <1>2 DEF Signal
<1>3. CASE CloseRaises \/ Kill
  BY <1>3 DEF CloseRaises, Kill, Lose
<1>4. CASE Boot
  <2>1. /\ restarts' \in 0 .. MaxRestarts
        /\ signalled' = FALSE /\ rows' = "none" /\ loops' = {} /\ bars' = {}
        /\ stop' = [c \in Collectors |-> "no"]
    BY <1>4 DEF Boot
  <2>2. CASE main' = "backfill"
    <3>1. sup' = [c \in Collectors |-> IF c = Polymarket THEN "none" ELSE "ready"]
      BY <1>4, <2>2 DEF Boot, Started
    <3> QED
      BY <2>1, <2>2, <3>1
  <2>3. CASE main' = "down"
    <3>1. sup' = [c \in Collectors |-> "none"]
      BY <1>4, <2>3 DEF Boot
    <3> QED
      BY <2>1, <2>3, <3>1
  <2> QED
    BY <1>4, <2>2, <2>3 DEF Boot
<1> QED
  BY <1>1, <1>2, <1>3, <1>4

(* Every step keeps the invariant. *)
LEMMA Inductive == IInv /\ [Next]_vars => IInv'
<1> SUFFICES ASSUME IInv, [Next]_vars PROVE IInv'
  OBVIOUS
<1>1. CASE Next
  BY <1>1, SupervisorInv, StoppingInv, LoopInv, MainInv, ProcessInv DEF Next
<1>2. CASE UNCHANGED vars
  BY <1>2 DEF vars, IInv, TypeOK
<1> QED
  BY <1>1, <1>2

(* The invariant implies the property. *)
LEMMA InvCleanExit == IInv => CleanExit
  BY LifecycleAssumption DEF IInv, TypeOK, CleanExit

(* The types, and: loops run only under a supervisor that waits for them. *)
THEOREM TypeCorrect == Spec => []TypeOK
<1>1. IInv => TypeOK
  BY DEF IInv
<1> QED
  BY InitInv, Inductive, <1>1, PTL DEF Spec

(* The shutdown is in the order the clients need, whatever the collectors  *)
(* do and whenever the signal comes (main_async, stop()).                  *)
THEOREM CleanExitInvariant == Spec => []CleanExit
  BY InitInv, Inductive, InvCleanExit, PTL DEF Spec

-----------------------------------------------------------------------------
(* The runs of the backup. *)

Mishaps == {"answer lost", "before arming", "complete failed", "released twice", "killed"}

BackupTypes ==
    /\ pc \in [Runs -> Commands \cup {"idle", "trap", "ended"}]
    /\ mishap \in [Runs -> SUBSET Mishaps]
    /\ active \subseteq Runs /\ holder \in Runs \cup {None}

Twice(q) == "released twice" \in mishap[q]

(* The runs that may yet release a snapshot, in their course or in the     *)
(* trap: it is their own, or a run has released twice.                     *)
WillRelease(r) == pc[r] \in {"arm", "tar", "complete"} \/ (pc[r] = "trap" /\ r \in active)
ReleasesItsOwn == \A r \in Runs : WillRelease(r) => holder = r \/ \E q \in Runs : Twice(q)

TwiceIsOver  == \A q \in Runs : Twice(q) => pc[q] \in {"trap", "ended"}
ActiveIsTold == \A r \in active : pc[r] \in {"tar", "complete", "disarm", "trap"}

BackupInv == BackupTypes /\ ReleasesItsOwn /\ TwiceIsOver /\ ActiveIsTold

(* No run has started. *)
LEMMA BackupInitInv == BackupInit => BackupInv
  BY DEF BackupInit, BackupInv, BackupTypes, ReleasesItsOwn, TwiceIsOver, ActiveIsTold, Twice, WillRelease, Commands

(* What befalls a run changes the history of no other. *)
LEMMA SuffersFacts ==
    ASSUME BackupTypes, NEW r \in Runs, NEW what \in Mishaps,
           mishap' = [mishap EXCEPT ![r] = mishap[r] \cup {what}]
    PROVE  /\ mishap' \in [Runs -> SUBSET Mishaps]
           /\ \A q \in Runs : Twice(q) => Twice(q)'
           /\ \A q \in Runs \ {r} : Twice(q)' => Twice(q)
           /\ what # "released twice" => (Twice(r)' => Twice(r))
           /\ what = "released twice" => Twice(r)'
  BY DEF BackupTypes, Twice

(* Goto moves one run and no other. *)
LEMMA GotoFacts ==
    ASSUME BackupTypes, NEW r \in Runs, NEW where \in Commands \cup {"trap", "ended"}, Goto(r, where)
    PROVE  /\ pc' \in [Runs -> Commands \cup {"idle", "trap", "ended"}]
           /\ pc'[r] = where /\ \A q \in Runs \ {r} : pc'[q] = pc[q]
  BY DEF Goto, BackupTypes, Commands

(* What a step of run r has to show for the invariant, all in terms of r   *)
(* and of what happens to the snapshot.                                    *)
LEMMA StepInv ==
    ASSUME BackupInv, NEW r \in Runs,
           NEW where \in Commands \cup {"trap", "ended"}, Goto(r, where),
           active' \subseteq active \cup {r},
           active \ {r} \subseteq active',
           r \in active' => where \in {"tar", "complete", "disarm", "trap"},
           mishap' \in [Runs -> SUBSET Mishaps],
           holder' \in Runs \cup {None},
           \A q \in Runs : Twice(q) => Twice(q)',
           \A q \in Runs \ {r} : Twice(q)' => Twice(q),
           Twice(r)' => where \in {"trap", "ended"},
           (where \in {"arm", "tar", "complete"} \/ (where = "trap" /\ r \in active'))
               => holder' = r \/ \E p \in Runs : Twice(p)',
           \A q \in Runs \ {r} : holder = q => holder' = q \/ \E p \in Runs : Twice(p)'
    PROVE  BackupInv'
<1>1. BackupTypes
  BY DEF BackupInv
<1>2. pc' \in [Runs -> Commands \cup {"idle", "trap", "ended"}]
      /\ pc'[r] = where /\ \A q \in Runs \ {r} : pc'[q] = pc[q]
  BY <1>1, GotoFacts
<1>3. BackupTypes'
  BY <1>1, <1>2 DEF BackupTypes
<1>4. TwiceIsOver'
  <2> SUFFICES ASSUME NEW q \in Runs, Twice(q)' PROVE pc'[q] \in {"trap", "ended"}
    BY DEF TwiceIsOver
  <2>1. CASE q = r
    BY <1>2, <2>1
  <2>2. CASE q # r
    BY <1>2, <2>2 DEF BackupInv, TwiceIsOver
  <2> QED
    BY <2>1, <2>2
<1>5. ActiveIsTold'
  BY <1>1, <1>2 DEF BackupInv, ActiveIsTold, BackupTypes
<1>6. ReleasesItsOwn'
  <2> SUFFICES ASSUME NEW q \in Runs, WillRelease(q)' PROVE (holder = q \/ \E p \in Runs : Twice(p))'
    BY DEF ReleasesItsOwn
  <2>1. CASE q = r
    BY <1>2, <2>1 DEF WillRelease
  <2>2. CASE q # r
    <3>1. WillRelease(q)
      BY <1>2, <2>2 DEF WillRelease
    <3>2. holder = q \/ \E p \in Runs : Twice(p)
      BY <3>1 DEF BackupInv, ReleasesItsOwn
    <3> QED
      BY <2>2, <3>2
  <2> QED
    BY <2>1, <2>2
<1> QED
  BY <1>3, <1>4, <1>5, <1>6 DEF BackupInv

(* SNAPSHOT COMPLETE of a run that may release: its own snapshot is gone,  *)
(* or it stays and the run has a failure to its name.                      *)
LEMMA CompleteFacts ==
    ASSUME BackupInv, NEW r \in Runs, WillRelease(r), SnapshotComplete(r)
    PROVE  /\ mishap' \in [Runs -> SUBSET Mishaps] /\ holder' \in Runs \cup {None}
           /\ \A q \in Runs : Twice(q)' <=> Twice(q)
           /\ \A q \in Runs \ {r} : holder = q => holder' = q \/ \E p \in Runs : Twice(p)'
<1>0. BackupTypes /\ (holder = r \/ \E p \in Runs : Twice(p))
  BY DEF BackupInv, ReleasesItsOwn
<1>1. CASE holder' = None /\ UNCHANGED mishap
  <2>1. \A q \in Runs : Twice(q)' <=> Twice(q)
    BY <1>1 DEF Twice
  <2> QED
    BY <1>0, <1>1, <2>1 DEF BackupTypes
<1>2. CASE UNCHANGED holder /\ Suffers(r, "complete failed")
  <2>1. mishap' \in [Runs -> SUBSET Mishaps] /\ \A q \in Runs : Twice(q)' <=> Twice(q)
    BY <1>0, <1>2, SuffersFacts DEF Suffers, Mishaps
  <2> QED
    BY <1>0, <1>2, <2>1 DEF BackupTypes
<1> QED
  BY <1>1, <1>2 DEF SnapshotComplete

(* A step that notes no mishap changes nothing about second releases. *)
LEMMA QuietFacts ==
    ASSUME BackupTypes, UNCHANGED mishap
    PROVE  mishap' \in [Runs -> SUBSET Mishaps] /\ \A q \in Runs : Twice(q)' <=> Twice(q)
  BY DEF BackupTypes, Twice

(* A run that stands at a command has not released twice. *)
LEMMA NotTwice ==
    ASSUME BackupInv, NEW r \in Runs, pc[r] \in Commands
    PROVE  ~Twice(r) /\ BackupTypes
  BY DEF BackupInv, TwiceIsOver, Commands

(* One step per command of a run. *)
LEMMA CommandInv ==
    ASSUME BackupInv, NEW r \in Runs, Command(r)
    PROVE  BackupInv'
<1>0. BackupTypes
  BY DEF BackupInv
<1>1. CASE Prepare(r)
  <2>1. holder = None /\ holder' = r /\ pc[r] = "prepare" /\ active' = active
    BY <1>1 DEF Prepare
  <2>2. ~Twice(r) /\ r \notin active
    BY <2>1, NotTwice DEF BackupInv, ActiveIsTold, Commands
  <2>3. CASE Goto(r, "arm") /\ UNCHANGED mishap
    BY <1>0, <2>1, <2>2, <2>3, BackupAssumption, QuietFacts, StepInv DEF Commands
  <2>4. CASE Goto(r, "trap") /\ Suffers(r, "answer lost")
    <3>1. mishap' \in [Runs -> SUBSET Mishaps] /\ \A q \in Runs : Twice(q)' <=> Twice(q)
      BY <1>0, <2>4, SuffersFacts DEF Suffers, Mishaps
    <3> QED
      BY <2>1, <2>2, <2>4, <3>1, BackupAssumption, StepInv DEF Commands
  <2> QED
    BY <1>1, <2>3, <2>4 DEF Prepare
<1>2. CASE PrepareFails(r)
  <2>1. pc[r] = "prepare" /\ Goto(r, "trap") /\ active' = active /\ holder' = holder
    BY <1>2 DEF PrepareFails
  <2>2. ~Twice(r) /\ r \notin active
    BY <2>1, NotTwice DEF BackupInv, ActiveIsTold, Commands
  <2>3. mishap' \in [Runs -> SUBSET Mishaps] /\ \A q \in Runs : Twice(q)' <=> Twice(q)
    BY <1>0, <1>2, QuietFacts DEF PrepareFails
  <2>4. holder' \in Runs \cup {None}
    BY <1>0, <2>1 DEF BackupTypes
  <2> QED
    BY <2>1, <2>2, <2>3, <2>4, StepInv
<1>3. CASE Arm(r)
  <2>1. pc[r] = "arm" /\ Goto(r, "tar") /\ active' = active \cup {r} /\ holder' = holder
    BY <1>3 DEF Arm
  <2>2. ~Twice(r) /\ (holder = r \/ \E p \in Runs : Twice(p))
    BY <2>1, NotTwice DEF BackupInv, ReleasesItsOwn, WillRelease, Commands
  <2>3. mishap' \in [Runs -> SUBSET Mishaps] /\ \A q \in Runs : Twice(q)' <=> Twice(q)
    BY <1>0, <1>3, QuietFacts DEF Arm
  <2>4. holder' \in Runs \cup {None} /\ "tar" \in Commands
    BY <1>0, <2>1 DEF BackupTypes, Commands
  <2> QED
    BY <2>1, <2>2, <2>3, <2>4, StepInv
<1>4. CASE Tar(r)
  <2>1. pc[r] = "tar" /\ active' = active /\ holder' = holder
    BY <1>4 DEF Tar
  <2>2. ~Twice(r) /\ (holder = r \/ \E p \in Runs : Twice(p))
    BY <2>1, NotTwice DEF BackupInv, ReleasesItsOwn, WillRelease, Commands
  <2>3. mishap' \in [Runs -> SUBSET Mishaps] /\ \A q \in Runs : Twice(q)' <=> Twice(q)
    BY <1>0, <1>4, QuietFacts DEF Tar
  <2>4. holder' \in Runs \cup {None} /\ "complete" \in Commands
    BY <1>0, <2>1 DEF BackupTypes, Commands
  <2>5. CASE Goto(r, "complete")
    BY <2>1, <2>2, <2>3, <2>4, <2>5, StepInv
  <2>6. CASE Goto(r, "trap")
    BY <2>1, <2>2, <2>3, <2>4, <2>6, StepInv
  <2> QED
    BY <1>4, <2>5, <2>6 DEF Tar
<1>5. CASE Complete(r)
  <2>1. pc[r] = "complete" /\ Goto(r, "disarm") /\ active' = active /\ SnapshotComplete(r)
    BY <1>5 DEF Complete
  <2>2. ~Twice(r) /\ WillRelease(r) /\ "disarm" \in Commands
    BY <2>1, NotTwice DEF WillRelease, Commands
  <2>3. /\ mishap' \in [Runs -> SUBSET Mishaps] /\ holder' \in Runs \cup {None}
        /\ \A q \in Runs : Twice(q)' <=> Twice(q)
        /\ \A q \in Runs \ {r} : holder = q => holder' = q \/ \E p \in Runs : Twice(p)'
    BY <2>1, <2>2, CompleteFacts
  <2> QED
    BY <2>1, <2>2, <2>3, StepInv
<1>6. CASE Disarm(r)
  <2>1. pc[r] = "disarm" /\ Goto(r, "offload") /\ active' = active \ {r} /\ holder' = holder
    BY <1>6 DEF Disarm
  <2>2. ~Twice(r) /\ "offload" \in Commands
    BY <2>1, NotTwice DEF Commands
  <2>3. mishap' \in [Runs -> SUBSET Mishaps] /\ \A q \in Runs : Twice(q)' <=> Twice(q)
    BY <1>0, <1>6, QuietFacts DEF Disarm
  <2>4. holder' \in Runs \cup {None}
    BY <1>0, <2>1 DEF BackupTypes
  <2> QED
    BY <2>1, <2>2, <2>3, <2>4, StepInv
<1>7. CASE Offload(r)
  <2>1. pc[r] = "offload" /\ Goto(r, "trap") /\ active' = active /\ holder' = holder
    BY <1>7 DEF Offload
  <2>2. ~Twice(r) /\ r \notin active
    BY <2>1, NotTwice DEF BackupInv, ActiveIsTold, Commands
  <2>3. mishap' \in [Runs -> SUBSET Mishaps] /\ \A q \in Runs : Twice(q)' <=> Twice(q)
    BY <1>0, <1>7, QuietFacts DEF Offload
  <2>4. holder' \in Runs \cup {None}
    BY <1>0, <2>1 DEF BackupTypes
  <2> QED
    BY <2>1, <2>2, <2>3, <2>4, StepInv
<1>8. CASE Cleanup(r)
  <2>1. pc[r] = "trap" /\ Goto(r, "ended") /\ active' = active \ {r}
    BY <1>8 DEF Cleanup
  <2>2. CASE r \in active
    <3>1. WillRelease(r) /\ SnapshotComplete(r)
      BY <1>8, <2>1, <2>2 DEF WillRelease, Cleanup
    <3>2. /\ mishap' \in [Runs -> SUBSET Mishaps] /\ holder' \in Runs \cup {None}
          /\ \A q \in Runs : Twice(q)' <=> Twice(q)
          /\ \A q \in Runs \ {r} : holder = q => holder' = q \/ \E p \in Runs : Twice(p)'
      BY <3>1, CompleteFacts
    <3> QED
      BY <2>1, <3>2, StepInv
  <2>3. CASE r \notin active
    <3>1. UNCHANGED <<holder, mishap>>
      BY <1>8, <2>3 DEF Cleanup
    <3>2. mishap' \in [Runs -> SUBSET Mishaps] /\ \A q \in Runs : Twice(q)' <=> Twice(q)
      BY <1>0, <3>1, QuietFacts
    <3>3. holder' = holder /\ holder' \in Runs \cup {None}
      BY <1>0, <3>1 DEF BackupTypes
    <3> QED
      BY <2>1, <3>2, <3>3, StepInv
  <2> QED
    BY <2>2, <2>3
<1> QED
  BY <1>1, <1>2, <1>3, <1>4, <1>5, <1>6, <1>7, <1>8 DEF Command

(* A signal: the run goes to its trap, which acts if the run was armed.    *)
LEMMA SignalRunInv ==
    ASSUME BackupInv, NEW r \in Runs, SignalRun(r)
    PROVE  BackupInv'
<1>0. BackupTypes /\ pc[r] \in Commands /\ Goto(r, "trap") /\ active' = active /\ ~Twice(r)
  BY NotTwice DEF SignalRun
<1>1. r \in active => pc[r] \in {"tar", "complete", "disarm"}
  BY <1>0 DEF BackupInv, ActiveIsTold, Commands
<1>2. CASE pc[r] = "prepare" /\ holder = None /\ holder' = r /\ Suffers(r, "before arming")
  <2>1. mishap' \in [Runs -> SUBSET Mishaps] /\ \A q \in Runs : Twice(q)' <=> Twice(q)
    BY <1>0, <1>2, SuffersFacts DEF Suffers, Mishaps
  <2> QED
    BY <1>0, <1>1, <1>2, <2>1, BackupAssumption, StepInv
<1>3. CASE pc[r] = "arm" /\ Suffers(r, "before arming") /\ UNCHANGED holder
  <2>1. mishap' \in [Runs -> SUBSET Mishaps] /\ \A q \in Runs : Twice(q)' <=> Twice(q)
    BY <1>0, <1>3, SuffersFacts DEF Suffers, Mishaps
  <2>2. holder' = holder /\ holder' \in Runs \cup {None}
    BY <1>0, <1>3 DEF BackupTypes
  <2> QED
    BY <1>0, <1>1, <1>3, <2>1, <2>2, StepInv
<1>4. CASE Suffers(r, "released twice") /\ (holder' = None \/ UNCHANGED holder)
  <2>1. /\ mishap' \in [Runs -> SUBSET Mishaps] /\ Twice(r)'
        /\ \A q \in Runs : Twice(q) => Twice(q)'
        /\ \A q \in Runs \ {r} : Twice(q)' => Twice(q)
    BY <1>0, <1>4, SuffersFacts DEF Suffers, Mishaps
  <2>2. holder' \in Runs \cup {None}
    BY <1>0, <1>4 DEF BackupTypes
  <2>3. \E p \in Runs : Twice(p)'
    BY <2>1
  <2> QED
    BY <1>0, <2>1, <2>2, <2>3, StepInv
<1>5. CASE pc[r] # "arm" /\ pc[r] # "disarm" /\ UNCHANGED <<holder, mishap>>
  <2>1. mishap' \in [Runs -> SUBSET Mishaps] /\ \A q \in Runs : Twice(q)' <=> Twice(q)
    BY <1>0, <1>5, QuietFacts
  <2>2. holder' = holder /\ holder' \in Runs \cup {None}
    BY <1>0, <1>5 DEF BackupTypes
  <2>3. r \in active => holder = r \/ \E p \in Runs : Twice(p)
    BY <1>1, <1>5 DEF BackupInv, ReleasesItsOwn, WillRelease
  <2> QED
    BY <1>0, <2>1, <2>2, <2>3, StepInv
<1> QED
  BY <1>2, <1>3, <1>4, <1>5 DEF SignalRun

(* A kill: no trap, and the server may have done the command under way.    *)
LEMMA KillRunInv ==
    ASSUME BackupInv, NEW r \in Runs, KillRun(r)
    PROVE  BackupInv'
<1>0. BackupTypes /\ Goto(r, "ended") /\ Suffers(r, "killed") /\ active' = active \ {r}
  BY DEF KillRun, BackupInv
<1>1. mishap' \in [Runs -> SUBSET Mishaps] /\ \A q \in Runs : Twice(q)' <=> Twice(q)
  BY <1>0, SuffersFacts DEF Suffers, Mishaps
<1>2. /\ holder' \in Runs \cup {None}
      /\ \A q \in Runs \ {r} : holder = q => holder' = q \/ \E p \in Runs : Twice(p)'
  <2>1. CASE UNCHANGED holder
    BY <1>0, <2>1 DEF BackupTypes
  <2>2. CASE pc[r] = "prepare" /\ holder = None /\ holder' = r
    BY <2>2, BackupAssumption
  <2>3. CASE (pc[r] = "complete" \/ (pc[r] = "trap" /\ r \in active)) /\ holder' = None
    <3>1. holder = r \/ \E p \in Runs : Twice(p)
      BY <2>3 DEF BackupInv, ReleasesItsOwn, WillRelease
    <3> QED
      BY <1>1, <2>3, <3>1
  <2> QED
    BY <2>1, <2>2, <2>3 DEF KillRun
<1> QED
  BY <1>0, <1>1, <1>2, StepInv

(* A run that begins holds nothing, and nothing befell it. *)
LEMMA StartInv ==
    ASSUME BackupInv, NEW r \in Runs, Start(r)
    PROVE  BackupInv'
<1>1. ~Twice(r) /\ r \notin active
  BY DEF Start, BackupInv, TwiceIsOver, ActiveIsTold
<1>2. Goto(r, "prepare") /\ UNCHANGED <<active, holder, mishap>> /\ BackupTypes
  BY DEF Start, BackupInv
<1>3. mishap' \in [Runs -> SUBSET Mishaps] /\ \A q \in Runs : Twice(q)' <=> Twice(q)
  BY <1>2, QuietFacts
<1>4. holder' = holder /\ active' = active /\ holder' \in Runs \cup {None} /\ "prepare" \in Commands
  BY <1>2 DEF BackupTypes, Commands
<1> QED
  BY <1>1, <1>2, <1>3, <1>4, StepInv

(* Every step keeps the invariant. *)
LEMMA BackupInductive == BackupInv /\ [BackupNext]_backupVars => BackupInv'
<1> SUFFICES ASSUME BackupInv, [BackupNext]_backupVars PROVE BackupInv'
  OBVIOUS
<1>1. CASE BackupNext
  BY <1>1, StartInv, CommandInv, SignalRunInv, KillRunInv DEF BackupNext
<1>2. CASE UNCHANGED backupVars
  BY <1>2 DEF backupVars, BackupInv, BackupTypes, ReleasesItsOwn, TwiceIsOver, ActiveIsTold, Twice, WillRelease
<1> QED
  BY <1>1, <1>2

(* A run that released twice is over, so it is another than the one whose  *)
(* tar is at work.                                                         *)
LEMMA InvTar == BackupInv => TarUnderOwnSnapshot
  BY DEF BackupInv, TarUnderOwnSnapshot, ReleasesItsOwn, TwiceIsOver, Twice, WillRelease

(* Whatever other runs do and wherever they fail, tar reads under the      *)
(* snapshot its own run prepared, but for a second release (backup.sh).    *)
THEOREM TarUnderOwnSnapshotInvariant == BackupSpec => []TarUnderOwnSnapshot
  BY BackupInitInv, BackupInductive, InvTar, PTL DEF BackupSpec

(* Why a snapshot is released: as long as it is pending, its run has yet   *)
(* to release it, in its course or in the trap, which is armed by then; or *)
(* something befell the run that keeps it from doing so.                   *)
Excused(r) == mishap[r] \cap {"killed", "complete failed", "answer lost", "before arming"} # {}
HolderWillRelease == \A r \in Runs : holder = r => Excused(r) \/ WillRelease(r)
ArmedIsActive     == \A r \in Runs : pc[r] \in {"tar", "complete"} => r \in active
ReleaseInv == HolderWillRelease /\ ArmedIsActive

(* What a step of run r has to show: where it goes, and that it will       *)
(* release the snapshot if the snapshot is its own.                        *)
LEMMA ReleaseStep ==
    ASSUME BackupTypes, ReleaseInv, NEW r \in Runs,
           NEW where \in Commands \cup {"trap", "ended"}, Goto(r, where),
           active \ {r} \subseteq active', where \in {"tar", "complete"} => r \in active',
           \A q \in Runs \ {r} : mishap'[q] = mishap[q],
           \A q \in Runs \ {r} : holder' = q => holder = q,
           holder' = r => \/ mishap'[r] \cap {"killed", "complete failed", "answer lost", "before arming"} # {}
                          \/ where \in {"arm", "tar", "complete"}
                          \/ where = "trap" /\ r \in active'
    PROVE  ReleaseInv'
<1>1. pc'[r] = where /\ \A q \in Runs \ {r} : pc'[q] = pc[q]
  BY GotoFacts
<1>2. ArmedIsActive'
  BY <1>1 DEF ReleaseInv, ArmedIsActive
<1>3. ASSUME NEW q \in Runs, holder' = q PROVE (Excused(q) \/ WillRelease(q))'
  <2>1. CASE q = r
    BY <1>1, <1>3, <2>1 DEF Excused, WillRelease
  <2>2. CASE q # r
    <3>1. Excused(q) \/ WillRelease(q)
      BY <1>3, <2>2 DEF ReleaseInv, HolderWillRelease
    <3> QED
      BY <1>1, <2>2, <3>1 DEF Excused, WillRelease
  <2> QED
    BY <2>1, <2>2
<1> QED
  BY <1>2, <1>3 DEF ReleaseInv, HolderWillRelease

(* What befell a run stays noted, and one more thing with it. *)
LEMMA MishapNoted ==
    ASSUME BackupTypes, NEW r \in Runs, NEW what, Suffers(r, what)
    PROVE  /\ what \in mishap'[r] /\ mishap[r] \subseteq mishap'[r]
           /\ \A q \in Runs \ {r} : mishap'[q] = mishap[q]
  BY DEF Suffers, BackupTypes

(* SNAPSHOT COMPLETE releases the snapshot or notes that it failed. *)
LEMMA CompleteReleases ==
    ASSUME BackupTypes, NEW r \in Runs, SnapshotComplete(r)
    PROVE  /\ \A q \in Runs \ {r} : mishap'[q] = mishap[q]
           /\ \A q \in Runs : holder' = q => holder = q
           /\ holder' = r => "complete failed" \in mishap'[r]
  BY MishapNoted, BackupAssumption DEF SnapshotComplete

(* Every step leaves a pending snapshot with a run that will release it.   *)
LEMMA ReleaseInductive == BackupTypes /\ ReleaseInv /\ [BackupNext]_backupVars => ReleaseInv'
<1> SUFFICES ASSUME BackupTypes, ReleaseInv, [BackupNext]_backupVars PROVE ReleaseInv'
  OBVIOUS
<1>1. ASSUME NEW r \in Runs, Start(r) \/ PrepareFails(r) \/ Arm(r) \/ Tar(r) \/ Disarm(r) \/ Offload(r)
      PROVE  ReleaseInv'
  <2>1. UNCHANGED <<holder, mishap>>
    BY <1>1 DEF Start, PrepareFails, Arm, Tar, Disarm, Offload
  <2>2. holder = r => Excused(r) \/ WillRelease(r)
    BY DEF ReleaseInv, HolderWillRelease
  <2>3. pc[r] = "tar" => r \in active
    BY DEF ReleaseInv, ArmedIsActive
  <2>4. CASE Start(r)
    BY <2>1, <2>2, <2>4, ReleaseStep DEF Start, Commands, Excused, WillRelease
  <2>5. CASE PrepareFails(r)
    BY <2>1, <2>2, <2>5, ReleaseStep DEF PrepareFails, Excused, WillRelease
  <2>6. CASE Arm(r)
    BY <2>1, <2>2, <2>6, ReleaseStep DEF Arm, Commands
  <2>7. CASE Tar(r)
    <3>1. CASE Goto(r, "complete")
      BY <2>1, <2>3, <2>7, <3>1, ReleaseStep DEF Tar, Commands
    <3>2. CASE Goto(r, "trap")
      BY <2>1, <2>3, <2>7, <3>2, ReleaseStep DEF Tar
    <3> QED
      BY <2>7, <3>1, <3>2 DEF Tar
  <2>8. CASE Disarm(r)
    BY <2>1, <2>2, <2>8, ReleaseStep DEF Disarm, Commands, Excused, WillRelease
  <2>9. CASE Offload(r)
    BY <2>1, <2>2, <2>9, ReleaseStep DEF Offload, Excused, WillRelease
  <2> QED
    BY <1>1, <2>4, <2>5, <2>6, <2>7, <2>8, <2>9
<1>2. ASSUME NEW r \in Runs, Prepare(r) PROVE ReleaseInv'
  <2>1. holder' = r /\ active' = active
    BY <1>2 DEF Prepare
  <2>2. CASE Goto(r, "arm") /\ UNCHANGED mishap
    BY <2>1, <2>2, ReleaseStep DEF Commands
  <2>3. CASE Goto(r, "trap") /\ Suffers(r, "answer lost")
    BY <2>1, <2>3, MishapNoted, ReleaseStep
  <2> QED
    BY <1>2, <2>2, <2>3 DEF Prepare
<1>3. ASSUME NEW r \in Runs, Complete(r) PROVE ReleaseInv'
  <2>1. SnapshotComplete(r) /\ Goto(r, "disarm") /\ active' = active
    BY <1>3 DEF Complete
  <2> QED
    BY <2>1, CompleteReleases, ReleaseStep DEF Commands
<1>4. ASSUME NEW r \in Runs, Cleanup(r) PROVE ReleaseInv'
  <2>1. pc[r] = "trap" /\ Goto(r, "ended") /\ active' = active \ {r}
    BY <1>4 DEF Cleanup
  <2>2. CASE r \in active
    BY <1>4, <2>1, <2>2, CompleteReleases, ReleaseStep DEF Cleanup
  <2>3. CASE r \notin active
    <3>1. UNCHANGED <<holder, mishap>>
      BY <1>4, <2>3 DEF Cleanup
    <3>2. holder = r => Excused(r)
      BY <2>1, <2>3 DEF ReleaseInv, HolderWillRelease, WillRelease
    <3> QED
      BY <2>1, <3>1, <3>2, ReleaseStep DEF Excused
  <2> QED
    BY <2>2, <2>3
<1>5. ASSUME NEW r \in Runs, SignalRun(r) PROVE ReleaseInv'
  <2>1. pc[r] \in Commands /\ Goto(r, "trap") /\ active' = active
    BY <1>5 DEF SignalRun
  <2>2. holder = r => Excused(r) \/ WillRelease(r)
    BY DEF ReleaseInv, HolderWillRelease
  <2>3. pc[r] \in {"tar", "complete"} => r \in active
    BY DEF ReleaseInv, ArmedIsActive
  <2>4. CASE (holder' = r \/ UNCHANGED holder) /\ Suffers(r, "before arming")
    BY <2>1, <2>4, MishapNoted, ReleaseStep
  <2>5. CASE holder' = None /\ Suffers(r, "released twice")
    BY <2>1, <2>5, MishapNoted, BackupAssumption, ReleaseStep
  <2>6. CASE pc[r] = "disarm" /\ Suffers(r, "released twice") /\ UNCHANGED holder
    <3>1. holder = r => Excused(r)
      BY <2>2, <2>6 DEF WillRelease
    <3> QED
      BY <2>1, <2>6, <3>1, MishapNoted, ReleaseStep DEF Excused
  <2>7. CASE pc[r] # "arm" /\ pc[r] # "disarm" /\ UNCHANGED <<holder, mishap>>
    <3>1. holder = r => Excused(r) \/ r \in active
      BY <2>1, <2>2, <2>3, <2>7 DEF WillRelease, Commands
    <3> QED
      BY <2>1, <2>7, <3>1, ReleaseStep DEF Excused
  <2> QED
    BY <1>5, <2>4, <2>5, <2>6, <2>7 DEF SignalRun
<1>6. ASSUME NEW r \in Runs, KillRun(r) PROVE ReleaseInv'
  <2>1. Goto(r, "ended") /\ Suffers(r, "killed") /\ active' = active \ {r}
        /\ holder' \in {holder, r, None}
    BY <1>6 DEF KillRun
  <2> QED
    BY <2>1, MishapNoted, BackupAssumption, ReleaseStep
<1>7. CASE UNCHANGED backupVars
  BY <1>7 DEF backupVars, ReleaseInv, HolderWillRelease, ArmedIsActive, Excused, WillRelease
<1> QED
  BY <1>1, <1>2, <1>3, <1>4, <1>5, <1>6, <1>7 DEF BackupNext, Command

(* "If PREPARE succeeds, COMPLETE MUST run": a run that is over, or past   *)
(* its COMPLETE, leaves no snapshot of its own pending, unless it was      *)
(* killed, its COMPLETE failed, or the trap could not know that PREPARE    *)
(* took effect.  With the fact that every run ends it is SnapshotReleased. *)
THEOREM NoSnapshotLeft ==
    BackupSpec => [](\A r \in Runs :
        holder = r /\ pc[r] \in {"idle", "offload", "ended"} => Excused(r))
<1>1. BackupInit => ReleaseInv
  BY BackupAssumption DEF BackupInit, ReleaseInv, HolderWillRelease, ArmedIsActive
<1>2. BackupInv => BackupTypes
  BY DEF BackupInv
<1>3. ReleaseInv => \A r \in Runs :
          holder = r /\ pc[r] \in {"idle", "offload", "ended"} => Excused(r)
  BY DEF ReleaseInv, HolderWillRelease, WillRelease
<1> QED
  BY BackupInitInv, BackupInductive, ReleaseInductive, <1>1, <1>2, <1>3, PTL DEF BackupSpec

=============================================================================
