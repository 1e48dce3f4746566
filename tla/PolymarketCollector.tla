------------------------- MODULE PolymarketCollector -------------------------
(***************************************************************************)
(* src/ingestion/polymarket.py: the poll loop, which turns order books and *)
(* trade tapes into rows of pm_trades and one-minute bars, and the flush   *)
(* loop, which writes the bars of past minutes to pm_probabilities.        *)
(*                                                                         *)
(* Everything runs on one event loop: a task gives way only at an await.   *)
(* A market's poll task awaits the order book ("book"), the trade tape     *)
(* ("tape") and, for every new trade, the publication ("publish"); while   *)
(* it is in the loop over the tape ("ingest") it holds the event loop and  *)
(* no other action is enabled.  The clock is read in minutes.              *)
(*                                                                         *)
(* Trades are numbered in the order they happen; the dedup set holds their *)
(* ids, which several trades may share and some lack.  write_row either    *)
(* returns, and the row is with the database client, or raises; what the   *)
(* client then does with the row (store, hold, repeat or lose it) is the   *)
(* subject of QuestDBClient.  The set of tracked markets, the skip         *)
(* counters and the backfill belong to discovery and are not state here.   *)
(***************************************************************************)
EXTENDS Naturals, Sequences, FiniteSets, Functions

CONSTANTS Markets,      \* the markets in _active
          Gated,        \* those whose order book is not polled
          DedupSize,    \* TRADE_DEDUP_SIZE (50_000 in production)
          TapeLimit,    \* trades per tape request (100)
          Id,           \* the id of each trade, 0 for none: the first that has it
          Ignored,      \* dust trades and trades of an excluded contract
          Unparsable,   \* trades whose size or price is not a number
          Untimed,      \* trades without a readable timestamp
          MaxTrades, MaxMinute, MaxFailures, MaxRestarts,   \* bounds
          MaxRows       \* bound: no tape is fetched once pm_trades has so many

ASSUME CollectorAssumption ==
    /\ Gated \subseteq Markets
    /\ DedupSize \in Nat \ {0} /\ TapeLimit \in Nat \ {0}
    /\ MaxTrades \in Nat /\ MaxMinute \in Nat
    /\ MaxFailures \in Nat /\ MaxRestarts \in Nat /\ MaxRows \in Nat
    /\ Id \in [1 .. MaxTrades -> Nat] /\ \A t \in 1 .. MaxTrades : Id[t] <= t
    /\ Ignored \cup Unparsable \cup Untimed \subseteq Nat

VARIABLES
    minute,      \* the current UTC minute
    happened,    \* the trades of the exchange: their market and minute
    task,        \* where the poll task of each market stands
    todo,        \* the trades left of the tape it is ingesting
    stamp,       \* minute of the trade it is publishing
    seen,        \* _seen_trades, the ids, oldest first
    bars,        \* _bars: key <<market, minute>> to the bar in progress
    tradeRows,   \* rows of pm_trades, as trades, in the order they were written
    barRows,     \* rows of pm_probabilities of each key, as trade lists
    running,     \* start() called, stop() not
    failures, restarts,
    \* history, which no action reads
    lostIds,     \* ids marked as seen whose row write_row refused
    lostBars,    \* keys of bars that left memory without the row they should have
    oldTrades, oldBars  \* how many of the rows earlier processes wrote

clients  == <<task, todo, stamp>>
tables   == <<tradeRows, barRows>>
counters == <<failures, restarts>>
lost     == <<lostIds, lostBars>>
old      == <<oldTrades, oldBars>>
vars == <<minute, happened, clients, seen, bars, tables, running, counters, lost, old>>

Trade   == 1 .. MaxTrades
Keys    == Markets \X (0 .. MaxMinute)
NewBar  == [prob |-> FALSE, trades |-> <<>>]
NoBars  == [k \in {} |-> NewBar]

Init ==
    /\ minute = 0 /\ happened = <<>>
    /\ task = [m \in Markets |-> "idle"]
    /\ todo = [m \in Markets |-> {}]
    /\ stamp = [m \in Markets |-> 0]
    /\ seen = <<>> /\ bars = NoBars
    /\ tradeRows = <<>> /\ barRows = [k \in Keys |-> <<>>]
    /\ running = TRUE /\ failures = 0 /\ restarts = 0
    /\ lostIds = {} /\ lostBars = {}
    /\ oldTrades = 0 /\ oldBars = [k \in Keys |-> 0]

(* No task is between two awaits. *)
LoopFree == \A m \in Markets : task[m] # "ingest"

------------------------------------------------------------------------------
(* The world: time passes and trades happen. *)

Tick == /\ LoopFree /\ minute < MaxMinute
        /\ minute' = minute + 1
        /\ UNCHANGED <<happened, clients, seen, bars, tables, running, counters, lost, old>>

Happen(m) ==
    /\ LoopFree /\ Len(happened) < MaxTrades
    /\ happened' = Append(happened, [market |-> m, minute |-> minute])
    /\ UNCHANGED <<minute, clients, seen, bars, tables, running, counters, lost, old>>

(* The trade tape of a market: its latest trades. *)
Mine(m) == {t \in DOMAIN happened : happened[t].market = m}
Tape(m) == {t \in Mine(m) : Cardinality({u \in Mine(m) : u > t}) < TapeLimit}

------------------------------------------------------------------------------
(* Data structures of the collector *)

(* Mutated forms: the set is taken to be full one entry early or late. *)
SeenAddEarly(s, t) == IF Len(s) + 1 >= DedupSize /\ s # <<>>
                      THEN Append(Tail(s), t) ELSE Append(s, t)

SeenAddLate(s, t) == IF Len(s) > DedupSize THEN Append(Tail(s), t) ELSE Append(s, t)

(* BoundedSeenSet.add of a new id: the oldest id is evicted when full. *)
SeenAdd(s, t) == IF Len(s) >= DedupSize THEN Append(Tail(s), t) ELSE Append(s, t)

(* _bars.setdefault(k, BarBuilder()), then the bar becomes b(bar). *)
BarAt(k)     == IF k \in DOMAIN bars THEN bars[k] ELSE NewBar
SetBar(k, b) == bars' = [x \in DOMAIN bars \cup {k} |-> IF x = k THEN b ELSE bars[x]]

UpdateBook(k) == SetBar(k, [BarAt(k) EXCEPT !.prob = TRUE])
AddTrade(k, t) == SetBar(k, [BarAt(k) EXCEPT !.trades = Append(@, t)])

------------------------------------------------------------------------------
(* The poll tasks *)

(* The task of m goes on to state s with the tape q left to ingest. *)
Goto(m, s, q) == /\ task' = [task EXCEPT ![m] = s]
                 /\ todo' = [todo EXCEPT ![m] = q]

(* The trade the loop over the tape of m is at: a tape has the newest first. *)
At(m, t) == t \in todo[m] /\ \A u \in todo[m] : u <= t

(* An API or Redis exception ends the task's part in this round. *)
Fail(m) == /\ failures < MaxFailures
           /\ failures' = failures + 1
           /\ Goto(m, "idle", {})

(* _poll_loop: one task per market, once all tasks of the last round are   *)
(* done (the gather is a barrier).                                         *)
StartRound ==
    /\ running /\ \A m \in Markets : task[m] = "idle"
    /\ task' = [m \in Markets |-> IF m \in Gated THEN "tape" ELSE "book"]
    /\ UNCHANGED <<minute, happened, todo, stamp, seen, bars, tables, running, counters,
                   lost, old>>

(* _poll_probability: a price was found in the book or as the last trade   *)
(* and goes to the bar of the minute it is now; or none was; or an         *)
(* exception other than PolymarketAPIError ends the poll of the market.    *)
PollProbability(m) ==
    /\ LoopFree /\ task[m] = "book"
    /\ \/ UpdateBook(<<m, minute>>) /\ Goto(m, "tape", {}) /\ UNCHANGED failures
       \/ UNCHANGED <<bars, failures>> /\ Goto(m, "tape", {})
       \/ Fail(m) /\ UNCHANGED bars
    /\ UNCHANGED <<minute, happened, stamp, seen, tables, running, restarts, lost, old>>

(* _poll_trades: the tape arrives, or the request fails. *)
FetchTape(m) ==
    /\ LoopFree /\ task[m] = "tape" /\ Len(tradeRows) < MaxRows
    /\ \/ Goto(m, "ingest", Tape(m)) /\ UNCHANGED failures
       \/ Fail(m)
    /\ UNCHANGED <<minute, happened, stamp, seen, bars, tables, running, restarts,
                   lost, old>>

(* The tape is used up. *)
EndTape(m) ==
    /\ task[m] = "ingest" /\ todo[m] = {}
    /\ Goto(m, "idle", {})
    /\ UNCHANGED <<minute, happened, stamp, seen, bars, tables, running, counters,
                   lost, old>>

(* Mutated form: a known trade ends the tape, the rest being taken for known. *)
SkipSeenEndsTape(m, t) == Goto(m, "idle", {})

(* A trade that was seen before, or has no id, is skipped. *)
SkipSeen(m, t) == Goto(m, "ingest", todo[m] \ {t})

(* A trade is passed over: the id of the trade or one that shares it is    *)
(* known, or it has none.                                                  *)
Known(t) == Id[t] = 0 \/ Id[t] \in Range(seen)

(* _ingest_trade up to its await, for the trade the tape is at.  The id is *)
(* marked as seen before anything else.  A dust trade is then dropped; a   *)
(* size that is no number raises and ends the task's round, as write_row   *)
(* may; any other trade is written and offered for publication.            *)
IngestTrade(m) ==
    /\ task[m] = "ingest"
    /\ \E t \in todo[m] : At(m, t) /\
       \/ /\ Known(t)
          /\ SkipSeen(m, t)
          /\ UNCHANGED <<seen, stamp, tradeRows, failures, lostIds>>
       \/ /\ ~Known(t)
          /\ seen' = SeenAdd(seen, Id[t])
          /\ \/ /\ t \in Unparsable
                /\ Goto(m, "idle", {})
                /\ UNCHANGED <<stamp, tradeRows, failures, lostIds>>
             \/ /\ t \in Ignored \ Unparsable
                /\ Goto(m, "ingest", todo[m] \ {t})
                /\ UNCHANGED <<stamp, tradeRows, failures, lostIds>>
             \/ /\ t \notin Ignored \cup Unparsable
                /\ stamp' = [stamp EXCEPT ![m] =
                       IF t \in Untimed THEN minute ELSE happened[t].minute]
                /\ tradeRows' = Append(tradeRows, t)
                /\ Goto(m, "publish", todo[m])
                /\ UNCHANGED <<failures, lostIds>>
             \/ /\ t \notin Ignored \cup Unparsable
                /\ Fail(m)
                /\ lostIds' = lostIds \cup {Id[t]}
                /\ UNCHANGED <<stamp, tradeRows>>
    /\ UNCHANGED <<minute, happened, bars, barRows, running, restarts, lostBars, old>>

(* Mutated forms: the trade is counted in the minute it is now, not in its *)
(* own; the bar is left alone.                                             *)
CountNow(m) ==
    /\ \E t \in todo[m] : /\ At(m, t)
                         /\ AddTrade(<<m, minute>>, t)
                         /\ Goto(m, "ingest", todo[m] \ {t})
    /\ UNCHANGED failures
CountNothing(m) ==
    /\ \E t \in todo[m] : At(m, t) /\ Goto(m, "ingest", todo[m] \ {t})
    /\ UNCHANGED <<bars, failures>>

(* After the await: the trade is counted in the bar of its minute, which   *)
(* is created again when it has been flushed in the meantime.              *)
CountTrade(m) ==
    /\ \E t \in todo[m] : /\ At(m, t)
                         /\ AddTrade(<<m, stamp[m]>>, t)
                         /\ Goto(m, "ingest", todo[m] \ {t})
    /\ UNCHANGED failures

(* publish_to_stream returns, a lost connection included, or another Redis *)
(* error ends the task's round with the trade written but not counted.     *)
Publish(m) ==
    /\ LoopFree /\ task[m] = "publish"
    /\ CountTrade(m) \/ (Fail(m) /\ UNCHANGED bars)
    /\ UNCHANGED <<minute, happened, stamp, seen, tables, running, restarts, lost, old>>

(* A step that takes no answer of Redis, and any step *)
OwnStep(m)  == PollProbability(m) \/ FetchTape(m) \/ EndTape(m) \/ IngestTrade(m)
TaskStep(m) == OwnStep(m) \/ Publish(m)

------------------------------------------------------------------------------
(* The flush loop, stop and restart *)

(* Mutated form: the bar of the current minute is due as well. *)
DueNow == {k \in DOMAIN bars : k[2] <= minute}

(* The bars of past minutes. *)
Due == {k \in DOMAIN bars : k[2] < minute}

(* The bars of done and gone leave memory; those of done that saw a price  *)
(* become rows of pm_probabilities.                                        *)
WriteBars(done, gone) ==
    /\ bars' = Restrict(bars, DOMAIN bars \ (done \cup gone))
    /\ barRows' = [k \in Keys |-> IF k \in done /\ bars[k].prob
                                  THEN Append(barRows[k], bars[k].trades)
                                  ELSE barRows[k]]

(* Mutated form: all due bars are taken out before the first is written. *)
FlushBarsAtOnce(due, again) ==
    \/ WriteBars(due, {}) /\ UNCHANGED <<failures, lostBars>>
    \/ \E k \in due, done \in SUBSET due :
          /\ bars[k].prob /\ k \notin done
          /\ failures < MaxFailures /\ failures' = failures + 1
          /\ WriteBars(done, due \ done)
          /\ lostBars' = lostBars \cup IF again THEN {k} ELSE due \ done

(* _flush_due_bars: all due bars are flushed; or write_row raises for the  *)
(* bar of k, which has been taken out by then, and the others behind it    *)
(* stay: the flush loop comes back for them, stop() does not.  They may be *)
(* any of the others, the order of a dict not being part of the model.     *)
FlushBars(due, again) ==
    \/ WriteBars(due, {}) /\ UNCHANGED <<failures, lostBars>>
    \/ \E k \in due, done \in SUBSET due :
          /\ bars[k].prob /\ k \notin done
          /\ failures < MaxFailures /\ failures' = failures + 1
          /\ WriteBars(done, {k})
          /\ lostBars' = lostBars \cup IF again THEN {k} ELSE due \ done

(* _flush_bars_loop: an exception is logged and the loop goes on. *)
FlushDueBars ==
    /\ LoopFree /\ running /\ Due # {}
    /\ FlushBars(Due, TRUE)
    /\ UNCHANGED <<minute, happened, clients, seen, tradeRows, running, restarts,
                   lostIds, old>>

(* stop(): every task is cancelled at its await, then all bars are         *)
(* flushed; an exception leaves stop() with the other bars in memory.      *)
Stop ==
    /\ LoopFree /\ running
    /\ running' = FALSE
    /\ task' = [m \in Markets |-> "idle"] /\ todo' = [m \in Markets |-> {}]
    /\ FlushBars(DOMAIN bars, FALSE)
    /\ UNCHANGED <<minute, happened, stamp, seen, tradeRows, restarts, lostIds, old>>

(* A new process, after stop() or after a kill: memory starts empty. *)
Restart ==
    /\ restarts < MaxRestarts
    /\ restarts' = restarts + 1
    /\ running' = TRUE
    /\ task' = [m \in Markets |-> "idle"] /\ todo' = [m \in Markets |-> {}]
    /\ stamp' = [m \in Markets |-> 0]
    /\ seen' = <<>> /\ bars' = NoBars
    /\ oldTrades' = Len(tradeRows) /\ oldBars' = [k \in Keys |-> Len(barRows[k])]
    /\ UNCHANGED <<minute, happened, tables, failures, lost>>

Next == \/ Tick \/ StartRound \/ FlushDueBars \/ Stop \/ Restart
        \/ \E m \in Markets : Happen(m) \/ TaskStep(m)

Spec == Init /\ [][Next]_vars

(* The event loop runs every task that is ready, in the order they became  *)
(* ready; a task is only ever held up while another holds the loop, and    *)
(* the HTTP requests have a timeout.  The Redis client has none, so        *)
(* nothing is assumed of Publish; nor are time, trades, failures, stop and *)
(* restart assumed to happen.                                              *)
Fairness == /\ SF_vars(StartRound) /\ SF_vars(FlushDueBars)
            /\ \A m \in Markets : SF_vars(OwnStep(m))

FairSpec == Spec /\ Fairness

------------------------------------------------------------------------------
(* Properties *)

InBar(k) == Range(BarAt(k).trades)

TypeOK ==
    /\ minute \in 0 .. MaxMinute
    /\ happened \in Seq([market : Markets, minute : 0 .. MaxMinute])
    /\ task \in [Markets -> {"idle", "book", "tape", "ingest", "publish"}]
    /\ todo \in [Markets -> SUBSET Trade]
    /\ stamp \in [Markets -> 0 .. MaxMinute]
    /\ seen \in Seq(Trade) /\ Len(seen) <= DedupSize
    /\ DOMAIN bars \subseteq Keys
    /\ \A k \in DOMAIN bars : bars[k] \in [prob : BOOLEAN, trades : Seq(Trade)]
    /\ tradeRows \in Seq(Trade)
    /\ barRows \in [Keys -> Seq(Seq(Trade))]
    /\ running \in BOOLEAN
    /\ failures \in 0 .. MaxFailures /\ restarts \in 0 .. MaxRestarts
    /\ lostIds \subseteq Trade /\ lostBars \subseteq Keys
    /\ oldTrades \in Nat /\ oldBars \in [Keys -> Nat]

(* A process writes at most one row of a minute of a market, although late *)
(* trades re-create flushed bars, flushes fail half way and stop() flushes *)
(* bars that the next process builds again.                                *)
OneRowPerBar == \A k \in Keys : Len(barRows[k]) <= oldBars[k] + 1

(* The trades of a key, in memory and in the table, each as often as it is *)
(* counted there.                                                          *)
Counted(k) == LET rows == barRows[k]
              IN  {<<0, i>> : i \in DOMAIN BarAt(k).trades} \cup
                  UNION {{<<r, i>> : i \in DOMAIN rows[r]} : r \in DOMAIN rows}
CountedAt(k, c) == IF c[1] = 0 THEN BarAt(k).trades[c[2]] ELSE barRows[k][c[1]][c[2]]

(* Volume is never invented: a bar counts only trades that pm_trades has,  *)
(* in the market and the minute they happened in, and, as long as the      *)
(* dedup set never filled up and the process never restarted, no trade is  *)
(* counted twice.                                                          *)
BarsCountWrittenTrades ==
    \A k \in Keys :
        /\ \A c \in Counted(k) :
              LET t == CountedAt(k, c)
              IN  /\ t \in Range(tradeRows) /\ happened[t].market = k[1]
                  /\ t \notin Untimed => happened[t].minute = k[2]
        /\ restarts = 0 /\ Len(happened) <= DedupSize =>
              \A c, d \in Counted(k) : CountedAt(k, c) = CountedAt(k, d) => c = d

(* As long as the dedup set never filled up, a process writes at most one  *)
(* of the trades with the same id to pm_trades, and that one once, whatever *)
(* polls failed half way through a tape and whatever write_row refused.    *)
TradeWrittenOnce ==
    Len(happened) <= DedupSize =>
        \A i, j \in DOMAIN tradeRows :
            i > oldTrades /\ j > oldTrades /\ Id[tradeRows[i]] = Id[tradeRows[j]] => i = j

(* While nothing failed, the bar of the current minute is complete: it     *)
(* counts every written trade of the minute but those being published.     *)
CurrentBarComplete ==
    running /\ restarts = 0 /\ failures = 0 =>
        \A t \in Range(tradeRows) \ Untimed :
            LET m == happened[t].market
            IN  happened[t].minute = minute =>
                    \/ t \in InBar(<<m, minute>>)
                    \/ task[m] = "publish" /\ At(m, t)

(* A bar of a past minute that saw a price reaches the table, unless       *)
(* write_row raises for that very bar, or for any when stop() flushes: a   *)
(* write that fails costs the loop no other bar.  The bars of a process    *)
(* that was killed are lost.                                               *)
PastBarsWritten ==
    \A k \in Keys :
        (k \in DOMAIN bars /\ bars[k].prob /\ k[2] < minute)
            ~> (barRows[k] # <<>> \/ k \in lostBars \/ restarts > 0)

(* No trade with the id of t is one that is marked as seen and not written. *)
Writable(t) == Id[t] # 0 /\ \A u \in Ignored \cup Unparsable : u \in Trade => Id[u] # Id[t]

(* As long as Redis answers what is published, a trade that stays on the   *)
(* tape while the collector runs is written, it or one with its id,        *)
(* however polls fail and unless write_row refused that id, if the dedup   *)
(* set can remember the tapes.                                             *)
TapeIngested ==
    (\A m \in Markets : []<>(task[m] # "publish")) =>
    \A t \in Trade :
        (t \in DOMAIN happened /\ Writable(t) /\ MaxTrades <= DedupSize)
            ~> (\/ \E u \in Range(tradeRows) : Id[u] = Id[t]
                \/ Id[t] \in lostIds \/ ~running
                \/ \A m \in Markets : t \notin Tape(m))

==============================================================================
