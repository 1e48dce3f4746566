------------------------------- MODULE Lifecycle -------------------------------
(***************************************************************************)
(* src/main.py: the start-up, supervision and shutdown of the platform,    *)
(* with the start() and stop() of the four collectors.                     *)
(*                                                                         *)
(* main_async starts a supervisor (run_with_restart) per collector, the    *)
(* Polymarket one only after the backfill, waits for a signal, stops the   *)
(* collectors, cancels the supervisors and closes the clients.  BarKeepers *)
(* run their loops as tasks of their own, which stop() cancels before it   *)
(* flushes the bars left; the other collectors loop inside the task of     *)
(* their supervisor and stop() only sets a flag.  What a loop does is      *)
(* reduced to the bars it keeps in memory and to where the rows wait that  *)
(* it handed to the client: in the Sender or, when the server is not       *)
(* reached, in the client's own buffer.                                    *)
(***************************************************************************)
EXTENDS Naturals

CONSTANTS Collectors, BarKeepers,
          Polymarket,    \* the collector started after the backfill
          Crashing,      \* collectors whose start() can raise
          Flushing,      \* collectors that call db.flush()
          MaxRestarts    \* bound on the restarts by systemd

ASSUME LifecycleAssumption ==
    /\ BarKeepers \subseteq Collectors /\ Polymarket \in BarKeepers
    /\ Crashing \subseteq Collectors \ BarKeepers /\ Flushing \subseteq Collectors
    /\ MaxRestarts \in Nat

VARIABLES
    main,         \* where main_async stands
    signalled,    \* stop_event is set
    sup,          \* per collector: where run_with_restart stands
    loops,        \* collectors whose loops run
    stop,         \* per collector: whether stop() was called, and how it ended
    bars,         \* bar keepers with bars in memory
    rows,         \* where rows wait for the table
    restarts

vars == <<main, signalled, sup, loops, stop, bars, rows, restarts>>

Closing == {"apis", "redis", "db"}
Gone    == {"exited", "down"}
Ended   == {"returned", "raised"}

\* write_row leaves a row with the Sender, which may flush by itself, or in the
\* buffer, and may replay the buffer before.
Waits == {"none", "sender", "buffer"}

\* main_async up to the backfill: every supervisor but Polymarket's is scheduled.
Started == [c \in Collectors |-> IF c = Polymarket THEN "none" ELSE "ready"]

Init ==
    /\ main = "backfill" /\ signalled = FALSE
    /\ sup = Started /\ loops = {}
    /\ stop = [c \in Collectors |-> "no"]
    /\ bars = {} /\ rows = "none" /\ restarts = 0

-----------------------------------------------------------------------------
(* run_with_restart.                                                       *)

SupEnter(c) ==
    /\ sup[c] = "ready"
    /\ \/ signalled /\ sup' = [sup EXCEPT ![c] = "done"] /\ UNCHANGED loops
       \/ ~signalled /\ sup' = [sup EXCEPT ![c] = "running"] /\ loops' = loops \cup {c}
    /\ UNCHANGED <<main, signalled, stop, bars, rows, restarts>>

\* Mutated form: a loop outlives the crash of start().
CrashKeepsLoop(c) ==
    /\ c \in Crashing \cap loops
    /\ sup' = [sup EXCEPT ![c] = "delay"]
    /\ UNCHANGED <<main, signalled, loops, stop, bars, rows, restarts>>

\* start() raises: the supervisor waits for RESTART_DELAY_SECONDS or the signal.
Crash(c) ==
    /\ c \in Crashing \cap loops
    /\ loops' = loops \ {c} /\ sup' = [sup EXCEPT ![c] = "delay"]
    /\ UNCHANGED <<main, signalled, stop, bars, rows, restarts>>

\* Mutated form: a timeout ends the supervisor as the signal does.
DelayOverEnds(c) ==
    /\ sup[c] = "delay" /\ sup' = [sup EXCEPT ![c] = "done"]
    /\ UNCHANGED <<main, signalled, loops, stop, bars, rows, restarts>>

\* wait_for returns (the signal) or times out.
DelayOver(c) ==
    /\ sup[c] = "delay"
    /\ \/ signalled /\ sup' = [sup EXCEPT ![c] = "done"]
       \/ ~signalled /\ sup' = [sup EXCEPT ![c] = "ready"]
    /\ UNCHANGED <<main, signalled, loops, stop, bars, rows, restarts>>

\* start() of a bar keeper returns once its loops have ended.
SupReturns(c) ==
    /\ c \in BarKeepers \ loops /\ sup[c] = "running"
    /\ sup' = [sup EXCEPT ![c] = "done"]
    /\ UNCHANGED <<main, signalled, loops, stop, bars, rows, restarts>>

-----------------------------------------------------------------------------
(* The loops.                                                              *)

KeepBar(c) ==
    /\ c \in BarKeepers \cap loops
    /\ bars' = bars \cup {c}
    /\ UNCHANGED <<main, signalled, sup, loops, stop, rows, restarts>>

\* Rows of a loop go to the client, those of a bar keeper's due bars with them,
\* unless write_row raises: the loop goes on.
WriteRows(c) ==
    /\ c \in loops
    /\ bars' \in {bars, bars \ {c}}
    /\ rows' \in Waits
    /\ UNCHANGED <<main, signalled, sup, loops, stop, restarts>>

\* flush() empties the Sender, also when it fails, and leaves the buffer alone.
FlushRows(c) ==
    /\ c \in Flushing \cap loops /\ rows = "sender"
    /\ rows' = "none"
    /\ UNCHANGED <<main, signalled, sup, loops, stop, bars, restarts>>

\* A loop in the supervisor's task sees the flag that stop() set (the tracer's
\* only when a request arrives), and start() returns.
LoopSeesStop(c) ==
    /\ c \in loops \ BarKeepers /\ stop[c] # "no"
    /\ loops' = loops \ {c} /\ sup' = [sup EXCEPT ![c] = "done"]
    /\ UNCHANGED <<main, signalled, stop, bars, rows, restarts>>

-----------------------------------------------------------------------------
(* main_async.                                                             *)

\* backfill_history writes rows while the other collectors run.
BackfillWrites ==
    /\ main = "backfill" /\ rows' \in Waits
    /\ UNCHANGED <<main, signalled, sup, loops, stop, bars, restarts>>

\* It returns or raises; the signal is not looked at before.
EndBackfill ==
    /\ main = "backfill" /\ main' = "waiting"
    /\ sup' = [sup EXCEPT ![Polymarket] = "ready"]
    /\ UNCHANGED <<signalled, loops, stop, bars, rows, restarts>>

Signal ==
    /\ main \notin Gone /\ ~signalled /\ signalled' = TRUE
    /\ UNCHANGED <<main, sup, loops, stop, bars, rows, restarts>>

BeginStop ==
    /\ main = "waiting" /\ signalled /\ main' = "stopping"
    /\ UNCHANGED <<signalled, sup, loops, stop, bars, rows, restarts>>

\* stop(): a bar keeper's waits for the tasks it cancels.
CallStop(c) ==
    /\ main = "stopping" /\ stop[c] = "no"
    /\ stop' = [stop EXCEPT ![c] = IF c \in BarKeepers THEN "called" ELSE "returned"]
    /\ UNCHANGED <<main, signalled, sup, loops, bars, rows, restarts>>

\* The cancelled tasks end at the await they stand at.
LoopsCancelled(c) ==
    /\ c \in BarKeepers \cap loops /\ stop[c] = "called"
    /\ loops' = loops \ {c}
    /\ UNCHANGED <<main, signalled, sup, stop, bars, rows, restarts>>

\* _flush_due_bars(force=True): a bar is popped and its row written, one after
\* the other.  What write_row raises leaves the other bars in memory and ends
\* stop(), and gather(..., return_exceptions=True) drops the exception.
FlushAll(c) ==
    /\ stop[c] = "called"
    /\ rows' \in IF c \in bars THEN Waits ELSE {rows}
    /\ \/ stop' = [stop EXCEPT ![c] = "returned"] /\ bars' = bars \ {c}
       \/ /\ c \in bars
          /\ stop' = [stop EXCEPT ![c] = "raised"] /\ bars' \in {bars, bars \ {c}}
    /\ UNCHANGED <<main, signalled, sup, loops, restarts>>

\* Mutated form: stop() does not wait for the tasks it cancelled.
LastFlushAtOnce(c) == FlushAll(c)

LastFlush(c) == c \notin loops /\ FlushAll(c)

AllStopped ==
    /\ main = "stopping" /\ \A c \in Collectors : stop[c] \in Ended
    /\ main' = "cancelling"
    /\ UNCHANGED <<signalled, sup, loops, stop, bars, rows, restarts>>

\* Mutated form: main waits for the supervisors that are running start().
CancelIdleSupervisor(c) ==
    /\ main = "cancelling" /\ sup[c] \notin {"running", "done"}
    /\ sup' = [sup EXCEPT ![c] = "done"]
    /\ UNCHANGED <<main, signalled, loops, stop, bars, rows, restarts>>

\* t.cancel() of a supervisor, which also ends a loop in its task.
CancelSupervisor(c) ==
    /\ main = "cancelling" /\ sup[c] # "done"
    /\ sup' = [sup EXCEPT ![c] = "done"] /\ loops' = loops \ {c}
    /\ UNCHANGED <<main, signalled, stop, bars, rows, restarts>>

AllEnded ==
    /\ main = "cancelling" /\ \A c \in Collectors : sup[c] = "done"
    /\ main' = "apis"
    /\ UNCHANGED <<signalled, sup, loops, stop, bars, rows, restarts>>

CloseClient ==
    /\ \/ main = "apis" /\ main' = "redis"
       \/ main = "redis" /\ main' = "db"
    /\ UNCHANGED <<signalled, sup, loops, stop, bars, rows, restarts>>

\* db.close() flushes the Sender, not the buffer, main_async returns and
\* asyncio.run cancels what is still running.
CloseDb ==
    /\ main = "db" /\ main' = "exited"
    /\ rows' = IF rows = "sender" THEN "none" ELSE rows
    /\ UNCHANGED <<signalled, sup, loops, stop, bars, restarts>>

Lose ==
    /\ main' = "down" /\ signalled' = FALSE
    /\ sup' = [c \in Collectors |-> "none"] /\ loops' = {}
    /\ stop' = [c \in Collectors |-> "no"]
    /\ bars' = {} /\ rows' = "none"

\* The closing of an API or of Redis raises out of main_async: the clients
\* behind it are not closed.
CloseRaises == main \in {"apis", "redis"} /\ Lose /\ UNCHANGED restarts

Kill == main \notin Gone /\ Lose /\ UNCHANGED restarts

\* systemd: Restart=always.  ensure_tables may raise, and the process is gone
\* again.
Boot ==
    /\ main \in Gone /\ restarts < MaxRestarts /\ restarts' = restarts + 1
    /\ main' \in {"backfill", "down"}
    /\ sup' = IF main' = "backfill" THEN Started ELSE [c \in Collectors |-> "none"]
    /\ signalled' = FALSE /\ stop' = [c \in Collectors |-> "no"]
    /\ loops' = {} /\ bars' = {} /\ rows' = "none"

Main == EndBackfill \/ BeginStop \/ AllStopped \/ AllEnded \/ CloseClient \/ CloseDb

Supervisor(c) == SupEnter(c) \/ DelayOver(c) \/ SupReturns(c) \/ CancelSupervisor(c)

Stopping(c) == CallStop(c) \/ LoopsCancelled(c) \/ LastFlush(c)

Next ==
    \/ Main \/ BackfillWrites \/ Signal
    \/ \E c \in Collectors :
          \/ Supervisor(c) \/ Stopping(c)
          \/ Crash(c) \/ KeepBar(c) \/ WriteRows(c) \/ FlushRows(c) \/ LoopSeesStop(c)
    \/ CloseRaises \/ Kill \/ Boot

Spec == Init /\ [][Next]_vars

(* The event loop runs every task that is ready; the backfill makes finitely *)
(* many HTTP calls, each with a timeout.  A cancelled task ends: most awaits *)
(* raise at once, but the tracer acknowledges in a finally clause, and main  *)
(* awaits the closing of Redis, whose client has no timeout: that Redis      *)
(* answers these two, or refuses, is an assumption on it.  Nothing makes the *)
(* tracer see its flag: it waits for a request.                              *)
FairSpec ==
    /\ Spec /\ WF_vars(Main)
    /\ \A c \in Collectors : WF_vars(Supervisor(c)) /\ WF_vars(Stopping(c))

-----------------------------------------------------------------------------
(* The types, and: loops run only under a supervisor that waits for them.  *)
TypeOK ==
    /\ main \in {"backfill", "waiting", "stopping", "cancelling"} \cup Closing \cup Gone
    /\ sup \in [Collectors -> {"none", "ready", "running", "delay", "done"}]
    /\ stop \in [Collectors -> {"no", "called"} \cup Ended]
    /\ loops \subseteq Collectors /\ bars \subseteq BarKeepers
    /\ signalled \in BOOLEAN /\ rows \in Waits /\ restarts \in 0..MaxRestarts
    /\ \A c \in loops : sup[c] = "running"

(* Shutdown in the order the clients need: when the first client is closed *)
(* no loop and no supervisor runs any more; bars are left in memory only   *)
(* by a stop() whose forced flush raised, which main_async does not see;   *)
(* and a process that exits leaves no row in the Sender unflushed, so that *)
(* what it can leave behind are the rows of the client's own buffer        *)
(* (main_async, stop() of the collectors, QuestDBClient.close).            *)
CleanExit ==
    /\ main \in Closing \cup {"exited"} =>
          /\ loops = {} /\ \A c \in Collectors : sup[c] = "done"
          /\ \A c \in bars : stop[c] = "raised"
    /\ main = "exited" => rows # "sender"

(* A signal ends the process, whatever the collectors do: during the       *)
(* backfill, while a supervisor waits out a crash, with a tracer that no   *)
(* request wakes up (main_async, run_with_restart).                        *)
SignalStops == signalled ~> main \in Gone

(* Every collector gets to run, and runs again after a crash, until the    *)
(* process is told to stop (run_with_restart).                             *)
CollectorsRun ==
    \A c \in Collectors :
        (main \in {"backfill", "waiting"} /\ c \notin loops)
            ~> (c \in loops \/ signalled \/ main = "down")

=============================================================================
