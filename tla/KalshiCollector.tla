--------------------------- MODULE KalshiCollector ---------------------------
(***************************************************************************)
(* src/ingestion/kalshi.py, composed with the database client it writes    *)
(* through (DB, an instance of QuestDBClient): discovery, the poll tasks    *)
(* and the flush loop, which writes the bars of past minutes and then      *)
(* makes the client flush.                                                 *)
(*                                                                         *)
(* A task gives way only at an await: the book, the tape, a publication.   *)
(* Between two awaits it holds the event loop (LoopFree is false) while    *)
(* its rows go to the client one by one, each write_row with any outcome   *)
(* the client allows.  The collector differs from Polymarket's: a book     *)
(* that cannot be had is neither a price nor a skip, there is no fallback  *)
(* to the last trade, and every market tracked is polled.  Discovery is    *)
(* there for its rows and for the markets it makes known: any market may   *)
(* come up, and pass the filter, on any page of any cycle.                 *)
(***************************************************************************)
EXTENDS Naturals, Sequences, FiniteSets, Functions

CONSTANTS Markets,
          Ignored,      \* trades without outcome, count or price
          Unparsable,   \* trades whose count or price is not a number
          Untimed,      \* trades without a readable created_time
          MaxBuffer,    \* max_buffer of the client
          MaxTrades, MaxMinute, MaxFailures, MaxRestarts,   \* bounds
          MaxRows       \* bound: no round begins with more rows written

ASSUME KalshiAssumption ==
    /\ IsFiniteSet(Markets) /\ MaxBuffer \in Nat \ {0}
    /\ MaxTrades \in Nat /\ MaxMinute \in Nat /\ MaxFailures \in Nat
    /\ MaxRestarts \in Nat /\ MaxRows \in Nat
    /\ Ignored \cup Unparsable \cup Untimed \subseteq Nat

VARIABLES
    minute,     \* the current UTC minute
    happened,   \* the trades of the exchange: their market and minute
    active,     \* _active, the markets tracked
    task,       \* where the poll task of each market stands
    todo,       \* the trades left of the tape it is ingesting
    stamp,      \* minute of the trade it is publishing
    seen,       \* _seen_trades; its bound is the subject of PolymarketCollector
    bars,       \* _bars: key <<market, minute>> to the bar in progress
    due,        \* keys the flush loop has yet to write
    flusher,    \* "asleep", or "loop" or "stop" while it writes due bars
    rows,       \* what each write_row wrote; the rows of DB are its indices
    running,    \* start() called, stop() not
    failures,
    buffer, sender, pending, table, restarts    \* of the client

(* Rows there can be when no round begins with more than MaxRows: a round  *)
(* adds its trades, and a process one bar for each market and minute;      *)
(* discovery adds none from there on.                                      *)
RowBound == MaxRows + MaxTrades + Cardinality(Markets) * (MaxMinute + 1) * (MaxRestarts + 1)
DB == INSTANCE QuestDBClient WITH issued <- Len(rows), Malformed <- {}, Rejected <- {},
                                  MaxRows <- RowBound, MaxStored <- MaxRows + 1

polls    == <<active, task, todo, stamp, seen>>
flushing == <<bars, due, flusher>>
client   == <<rows, buffer, sender, pending, table, restarts>>
vars == <<minute, happened, polls, flushing, running, failures, client>>

NewBar == [prob |-> FALSE, trades |-> <<>>]
NoBars == [k \in {} |-> NewBar]
MarketRow(m) == <<"market", m>>
TradeRow(t)  == <<"trade", t>>
BarRow(k, b) == <<"bar", k, b.trades>>

Init ==
    /\ minute = 0 /\ happened = <<>>
    /\ active = {} /\ task = [m \in Markets |-> "idle"] /\ todo = [m \in Markets |-> {}]
    /\ stamp = [m \in Markets |-> 0] /\ seen = {}
    /\ bars = NoBars /\ due = {} /\ flusher = "asleep"
    /\ rows = <<>> /\ running = TRUE /\ failures = 0
    /\ DB!Init

(* Mutated form: the flush loop gives way between two bars. *)
LoopFreeOfTasks == \A m \in Markets : task[m] # "ingest"

(* No task is between two awaits. *)
LoopFree == flusher = "asleep" /\ \A m \in Markets : task[m] # "ingest"

(* write_row of the database client. *)
WriteRow(r) == rows' = Append(rows, r) /\ DB!Write

------------------------------------------------------------------------------
(* The world *)

Tick == /\ LoopFree /\ minute < MaxMinute
        /\ minute' = minute + 1
        /\ UNCHANGED <<happened, polls, flushing, running, failures, client>>

Happen(m) ==
    /\ LoopFree /\ Len(happened) < MaxTrades
    /\ happened' = Append(happened, [market |-> m, minute |-> minute])
    /\ UNCHANGED <<minute, polls, flushing, running, failures, client>>

(* The trade tape of a market; its limit is in PolymarketCollector. *)
Tape(m) == {t \in DOMAIN happened : happened[t].market = m}

------------------------------------------------------------------------------
(* Discovery *)

(* _discover_once: a market of the page just read passes the filter.  Its  *)
(* row is written before the market is tracked.  A page that fails ends    *)
(* the cycle, and what it tracked stays.  (Here other tasks may come       *)
(* between two markets of a page, which the code does not let them.)       *)
Discover(m) ==
    /\ LoopFree /\ running /\ Len(rows) < MaxRows
    /\ WriteRow(MarketRow(m))
    /\ active' = active \cup {m}
    /\ UNCHANGED <<minute, happened, task, todo, stamp, seen, flushing, running, failures>>

------------------------------------------------------------------------------
(* The poll tasks *)

(* _bars.setdefault(k, BarBuilder()), then the bar becomes b. *)
BarAt(k)     == IF k \in DOMAIN bars THEN bars[k] ELSE NewBar
SetBar(k, b) == bars' = [x \in DOMAIN bars \cup {k} |-> IF x = k THEN b ELSE bars[x]]
AddTrade(k, t) == SetBar(k, [BarAt(k) EXCEPT !.trades = Append(@, t)])

Goto(m, s, q) == task' = [task EXCEPT ![m] = s] /\ todo' = [todo EXCEPT ![m] = q]

(* The trade the loop over the tape of m is at: a tape has the newest first. *)
At(m, t) == t \in todo[m] /\ \A u \in todo[m] : u <= t

(* _poll_loop: the next round, once all tasks of the last one are done. *)
StartRound ==
    /\ LoopFree /\ running /\ Len(rows) <= MaxRows /\ active # {}
    /\ \A m \in Markets : task[m] = "idle"
    /\ task' = [m \in Markets |-> IF m \in active THEN "book" ELSE "idle"]
    /\ UNCHANGED <<minute, happened, active, todo, stamp, seen, flushing, running, failures, client>>

(* An exception leaves the poll of m. *)
Fail(m) == failures < MaxFailures /\ failures' = failures + 1 /\ Goto(m, "idle", {})

(* _midpoint_from_orderbook: a bid on either side gives a price. *)
Priced(bids) == bids # {}

(* _poll_probability: the book prices the bar of this minute, if it has a  *)
(* bid on a side; an API error passes for no book; any other exception     *)
(* ends the poll.                                                          *)
PollProbability(m) ==
    /\ LoopFree /\ task[m] = "book"
    /\ \/ /\ Goto(m, "tape", {}) /\ UNCHANGED failures
          /\ \E bids \in SUBSET {"yes", "no"} :
                IF Priced(bids)
                THEN SetBar(<<m, minute>>, [BarAt(<<m, minute>>) EXCEPT !.prob = TRUE])
                ELSE UNCHANGED bars
       \/ Fail(m) /\ UNCHANGED bars
    /\ UNCHANGED <<minute, happened, active, stamp, seen, due, flusher, running, client>>

FetchTape(m) ==
    /\ LoopFree /\ task[m] = "tape"
    /\ (Goto(m, "ingest", Tape(m)) /\ UNCHANGED failures) \/ Fail(m)
    /\ UNCHANGED <<minute, happened, active, stamp, seen, flushing, running, client>>

EndTape(m) ==
    /\ task[m] = "ingest" /\ todo[m] = {}
    /\ Goto(m, "idle", {})
    /\ UNCHANGED <<minute, happened, active, stamp, seen, flushing, running, failures, client>>

(* _ingest_trade does nothing: the trade was seen before, or is marked as  *)
(* seen and left out, or its numbers cannot be read, which ends the tape.  *)
IgnoreTrade(m) ==
    /\ task[m] = "ingest"
    /\ \E t \in seen \cup Ignored \cup Unparsable :
       /\ At(m, t)
       /\ seen' = seen \cup {t}
       /\ IF t \in Unparsable \ seen THEN Goto(m, "idle", {})
                                     ELSE Goto(m, "ingest", todo[m] \ {t})
    /\ UNCHANGED <<minute, happened, active, stamp, flushing, running, failures, client>>

(* _ingest_trade up to its await: the row is written, then published. *)
IngestTrade(m) ==
    /\ task[m] = "ingest"
    /\ \E t \in todo[m] \ (seen \cup Ignored \cup Unparsable) :
       /\ At(m, t)
       /\ seen' = seen \cup {t}
       /\ stamp' = [stamp EXCEPT ![m] =
              IF t \in Untimed THEN minute ELSE happened[t].minute]
       /\ WriteRow(TradeRow(t))
    /\ Goto(m, "publish", todo[m])
    /\ UNCHANGED <<minute, happened, active, flushing, running, failures>>

(* After the await the trade is counted in the bar of its minute; another  *)
(* error of Redis than a lost connection leaves it uncounted.              *)
Publish(m) ==
    /\ LoopFree /\ task[m] = "publish"
    /\ \/ /\ \E t \in todo[m] :
                /\ At(m, t)
                /\ AddTrade(<<m, stamp[m]>>, t)
                /\ Goto(m, "ingest", todo[m] \ {t})
          /\ UNCHANGED failures
       \/ Fail(m) /\ UNCHANGED bars
    /\ stamp' = [stamp EXCEPT ![m] = 0]
    /\ UNCHANGED <<minute, happened, active, seen, due, flusher, running, client>>

------------------------------------------------------------------------------
(* The flush loop, stop and the process *)

(* _flush_bars_loop: the bars of past minutes are due. *)
StartFlush ==
    /\ LoopFree /\ running
    /\ due' = {k \in DOMAIN bars : k[2] < minute} /\ flusher' = "loop"
    /\ due' # {} \/ pending # <<>>      \* otherwise the turn changes nothing
    /\ UNCHANGED <<minute, happened, polls, bars, running, failures, client>>

(* _flush_due_bars: a due bar leaves memory, for the table if it saw a     *)
(* price.                                                                  *)
FlushBar(k) ==
    /\ k \in due /\ due' = due \ {k}
    /\ bars' = Restrict(bars, DOMAIN bars \ {k})
    /\ IF bars[k].prob THEN WriteRow(BarRow(k, bars[k])) ELSE UNCHANGED client
    /\ UNCHANGED <<minute, happened, polls, flusher, running, failures>>

(* Mutated form: the loop leaves the flush to the thresholds of the sender. *)
EndFlushBarsOnly ==
    /\ flusher = "loop" /\ due = {}
    /\ flusher' = "asleep"
    /\ UNCHANGED <<minute, happened, polls, bars, due, running, failures, client>>

(* All are written: self._db.flush(), and the loop sleeps. *)
EndFlush ==
    /\ flusher = "loop" /\ due = {}
    /\ flusher' = "asleep"
    /\ UNCHANGED rows /\ DB!Flush
    /\ UNCHANGED <<minute, happened, polls, bars, due, running, failures>>

(* stop(): every task is cancelled at its await; all bars are due. *)
Stop ==
    /\ LoopFree /\ running
    /\ running' = FALSE
    /\ task' = [m \in Markets |-> "idle"] /\ todo' = [m \in Markets |-> {}]
    /\ due' = DOMAIN bars /\ flusher' = "stop"
    /\ UNCHANGED <<minute, happened, active, stamp, seen, bars, failures, client>>

(* The last bar is written; main_async closes the client. *)
EndStop ==
    /\ flusher = "stop" /\ due = {}
    /\ flusher' = "asleep"
    /\ UNCHANGED rows
    /\ IF sender = "open" THEN DB!Close ELSE UNCHANGED client
    /\ UNCHANGED <<minute, happened, polls, bars, due, running, failures>>

(* A new process with a new client. *)
Restart ==
    /\ UNCHANGED rows /\ DB!Restart
    /\ running' = TRUE /\ active' = {}
    /\ task' = [m \in Markets |-> "idle"] /\ todo' = [m \in Markets |-> {}]
    /\ stamp' = [m \in Markets |-> 0] /\ seen' = {}
    /\ bars' = NoBars /\ due' = {} /\ flusher' = "asleep"
    /\ UNCHANGED <<minute, happened, failures>>

(* A step that takes no answer of Redis, and any step *)
OwnStep(m)  == \/ PollProbability(m) \/ FetchTape(m) \/ EndTape(m)
               \/ IgnoreTrade(m) \/ IngestTrade(m)
TaskStep(m) == OwnStep(m) \/ Publish(m)
FlushStep   == StartFlush \/ EndFlush \/ EndStop \/ \E k \in due : FlushBar(k)

Next == \/ Tick \/ StartRound \/ FlushStep \/ Stop \/ Restart
        \/ \E m \in Markets : Happen(m) \/ Discover(m) \/ TaskStep(m)

Spec == Init /\ [][Next]_vars

(* The event loop serves ready tasks in turn, so a task that is held up    *)
(* now and then is still served; HTTP requests end (ApiClient).  The Redis *)
(* client has no timeout: a publication may take for ever.                 *)
FairSpec == Spec /\ SF_vars(FlushStep) /\ \A m \in Markets : WF_vars(OwnStep(m))

------------------------------------------------------------------------------
(* Properties *)

Keys == Markets \X (0 .. MaxMinute)

(* Types; only one task holds the event loop. *)
TypeOK ==
    /\ DB!TypeOK
    /\ active \subseteq Markets
    /\ task \in [Markets -> {"idle", "book", "tape", "ingest", "publish"}]
    /\ todo \in [Markets -> SUBSET DOMAIN happened]
    /\ stamp \in [Markets -> 0 .. MaxMinute] /\ seen \subseteq DOMAIN happened
    /\ DOMAIN bars \subseteq Keys /\ due \subseteq DOMAIN bars
    /\ flusher \in {"asleep", "loop", "stop"}
    /\ \A m \in Markets : task[m] = "ingest" =>
           flusher = "asleep" /\ \A n \in Markets \ {m} : task[n] # "ingest"

(* What a reader of the bar in row r joins with it. *)
Joined(r) == {MarketRow(rows[r][2][1])} \cup {TradeRow(t) : t \in Range(rows[r][3])}

(* Whoever reads a bar finds its market and its trades: when the row of a  *)
(* bar is in the table, the market and every trade it counts were handed   *)
(* to the client before it, and are in the table too or were given up;     *)
(* none is still waiting in a queue behind the bar.                        *)
BarAfterItsTrades ==
    \A r \in Range(table) : rows[r][1] = "bar" =>
        \A x \in Joined(r) :
            /\ \E s \in 1 .. r - 1 : rows[s] = x
            /\ \A s \in 1 .. r - 1 : rows[s] = x =>
                   s \in Range(table) \/ s \notin Range(DB!Held)

(* Rows of quiet markets do not stay in the sender: whatever waits there   *)
(* leaves it, although no threshold of the sender is ever reached.         *)
RowsFlushed == pending # <<>> ~> pending = <<>>

==============================================================================
