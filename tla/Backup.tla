--------------------------------- MODULE Backup ---------------------------------
(***************************************************************************)
(* scripts/backup.sh: runs of the daily backup against one QuestDB, which  *)
(* may overlap (a long tar, or a run by hand beside cron's).               *)
(*                                                                         *)
(* One step per command.  `set -e' sends a failed command to the EXIT      *)
(* trap, and so does a signal between two commands or during one; SIGKILL  *)
(* skips the trap.  SNAPSHOT_ACTIVE is a variable of the run, the pending  *)
(* snapshot one of the server: PREPARE fails while there is one, COMPLETE  *)
(* releases it whoever prepared it.  A signal is meant for the process     *)
(* group: tar does not outlive its shell.                                  *)
(*                                                                         *)
(* OperationsProofs extends this module and Lifecycle, hence the names     *)
(* with Backup and Run in them.                                            *)
(***************************************************************************)
CONSTANTS Runs, None

ASSUME BackupAssumption == None \notin Runs

VARIABLES
    pc,        \* per run: the command it stands at
    active,    \* runs with SNAPSHOT_ACTIVE=1
    holder,    \* the run whose PREPARE the server still holds, or None
    mishap     \* per run: what befell it (history)

backupVars == <<pc, active, holder, mishap>>

Commands == {"prepare", "arm", "tar", "complete", "disarm", "offload"}

BackupInit ==
    /\ pc = [r \in Runs |-> "idle"] /\ active = {} /\ holder = None
    /\ mishap = [r \in Runs |-> {}]

Goto(r, where) == pc' = [pc EXCEPT ![r] = where]
Suffers(r, what) == mishap' = [mishap EXCEPT ![r] = @ \cup {what}]

\* cron, or an operator
Start(r) ==
    /\ pc[r] = "idle" /\ Goto(r, "prepare")
    /\ UNCHANGED <<active, holder, mishap>>

\* curl -sf: the answer may be lost after the server prepared the snapshot.
Prepare(r) ==
    /\ pc[r] = "prepare" /\ holder = None /\ holder' = r
    /\ \/ Goto(r, "arm") /\ UNCHANGED mishap
       \/ Goto(r, "trap") /\ Suffers(r, "answer lost")
    /\ UNCHANGED active

PrepareFails(r) ==
    /\ pc[r] = "prepare" /\ Goto(r, "trap")
    /\ UNCHANGED <<active, holder, mishap>>

\* Mutated form: the trap is never armed.
ArmForgotten(r) ==
    /\ pc[r] = "arm" /\ Goto(r, "tar") /\ UNCHANGED <<active, holder, mishap>>

Arm(r) ==
    /\ pc[r] = "arm" /\ active' = active \cup {r} /\ Goto(r, "tar")
    /\ UNCHANGED <<holder, mishap>>

Tar(r) ==
    /\ pc[r] = "tar" /\ (Goto(r, "complete") \/ Goto(r, "trap"))
    /\ UNCHANGED <<active, holder, mishap>>

\* snapshot_complete, whose failure `|| true' hides.
SnapshotComplete(r) ==
    \/ holder' = None /\ UNCHANGED mishap
    \/ UNCHANGED holder /\ Suffers(r, "complete failed")

Complete(r) ==
    /\ pc[r] = "complete" /\ SnapshotComplete(r) /\ Goto(r, "disarm")
    /\ UNCHANGED active

Disarm(r) ==
    /\ pc[r] = "disarm" /\ active' = active \ {r} /\ Goto(r, "offload")
    /\ UNCHANGED <<holder, mishap>>

\* find -delete || true, then aws s3 sync, which may fail.
Offload(r) ==
    /\ pc[r] = "offload" /\ Goto(r, "trap")
    /\ UNCHANGED <<active, holder, mishap>>

\* Mutated form: the trap releases whatever snapshot is pending.
CleanupAlways(r) ==
    /\ pc[r] = "trap" /\ Goto(r, "ended") /\ active' = active \ {r}
    /\ SnapshotComplete(r)

\* cleanup, on every exit that runs traps.
Cleanup(r) ==
    /\ pc[r] = "trap" /\ Goto(r, "ended") /\ active' = active \ {r}
    /\ IF r \in active THEN SnapshotComplete(r) ELSE UNCHANGED <<holder, mishap>>

\* The signal may come while curl has prepared the snapshot and the trap does
\* not know it, or when the snapshot is released and the trap releases again.
SignalRun(r) ==
    /\ pc[r] \in Commands /\ Goto(r, "trap")
    /\ \/ pc[r] = "prepare" /\ holder = None /\ holder' = r /\ Suffers(r, "before arming")
       \/ pc[r] = "arm" /\ Suffers(r, "before arming") /\ UNCHANGED holder
       \/ pc[r] = "complete" /\ holder' = None /\ Suffers(r, "released twice")
       \/ pc[r] = "disarm" /\ Suffers(r, "released twice") /\ UNCHANGED holder
       \/ pc[r] # "arm" /\ pc[r] # "disarm" /\ UNCHANGED <<holder, mishap>>
    /\ UNCHANGED active

KillRun(r) ==
    /\ pc[r] \in Commands \cup {"trap"} /\ Goto(r, "ended") /\ Suffers(r, "killed")
    /\ \/ UNCHANGED holder
       \/ pc[r] = "prepare" /\ holder = None /\ holder' = r
       \/ (pc[r] = "complete" \/ (pc[r] = "trap" /\ r \in active)) /\ holder' = None
    /\ active' = active \ {r}

Command(r) ==
    \/ Prepare(r) \/ PrepareFails(r) \/ Arm(r) \/ Tar(r) \/ Complete(r)
    \/ Disarm(r) \/ Offload(r) \/ Cleanup(r)

BackupNext == \E r \in Runs : Start(r) \/ Command(r) \/ SignalRun(r) \/ KillRun(r)

BackupSpec == BackupInit /\ [][BackupNext]_backupVars

\* A command that was started ends (curl answers or fails, tar finishes).
FairBackupSpec == BackupSpec /\ \A r \in Runs : WF_backupVars(Command(r))

-----------------------------------------------------------------------------
(* The archive is point-in-time consistent: while a run's tar reads the    *)
(* files, the snapshot pending is the one this run prepared, although      *)
(* other runs start, fail, are signalled and clean up meanwhile.  Only a   *)
(* run that is signalled between COMPLETE and SNAPSHOT_ACTIVE=0 may        *)
(* release a snapshot that is not its own.                                 *)
TarUnderOwnSnapshot ==
    \A r \in Runs : pc[r] = "tar" =>
        holder = r \/ \E q \in Runs \ {r} : "released twice" \in mishap[q]

(* "If PREPARE succeeds, COMPLETE MUST run": a snapshot does not stay      *)
(* pending, unless its run is killed, its COMPLETE fails, or the trap      *)
(* could not know that PREPARE took effect.                                *)
SnapshotReleased ==
    \A r \in Runs :
        holder = r ~> (holder # r \/ mishap[r] \cap
            {"killed", "complete failed", "answer lost", "before arming"} # {})

=============================================================================
