------------------------ MODULE KalshiCollectorProofs ------------------------
(***************************************************************************)
(* Theorems about the Kalshi collector together with the database client   *)
(* it writes through, for any markets, trades and bounds.  What the client *)
(* promises is not proved again: the collector uses the client as its      *)
(* specification allows (CollectorUsesClient), so the theorems of          *)
(* QuestDBClientProofs hold of the client inside the collector.            *)
(***************************************************************************)
EXTENDS KalshiCollector, SequenceTheorems, FiniteSetTheorems, TLAPS

Client == INSTANCE QuestDBClientProofs
              WITH issued <- Len(rows), Malformed <- {}, Rejected <- {},
                   MaxRows <- RowBound, MaxStored <- MaxRows + 1

Places == {"idle", "book", "tape", "ingest", "publish"}
Bar    == [prob : BOOLEAN, trades : Seq(Nat)]
Row    == {MarketRow(m) : m \in Markets} \cup {TradeRow(t) : t \in Nat}
              \cup {BarRow(k, b) : k \in Keys, b \in Bar}

(* The bars in memory are bars of keys. *)
BarsType == DOMAIN bars \subseteq Keys /\ \A k \in DOMAIN bars : bars[k] \in Bar

(* A task that holds the event loop is alone with it. *)
OneHolds == \A m \in Markets : task[m] = "ingest" =>
                flusher = "asleep" /\ \A n \in Markets \ {m} : task[n] # "ingest"

(* TypeOK without the client, whose types are its own theorem. *)
TypeInv ==
    /\ minute \in 0 .. MaxMinute
    /\ happened \in Seq([market : Markets, minute : 0 .. MaxMinute])
    /\ active \subseteq Markets
    /\ task \in [Markets -> Places]
    /\ todo \in [Markets -> SUBSET DOMAIN happened]
    /\ stamp \in [Markets -> 0 .. MaxMinute] /\ seen \subseteq DOMAIN happened
    /\ BarsType /\ due \subseteq DOMAIN bars
    /\ flusher \in {"asleep", "loop", "stop"}
    /\ OneHolds
    /\ rows \in Seq(Row)

(* The task of m awaits the publication of trade t. *)
Publishing(m, t) == task[m] = "publish" /\ At(m, t)

(* What a reader of row x joins with it, if x is the row of a bar. *)
JoinedWith(x) == {MarketRow(x[2][1])} \cup {TradeRow(t) : t \in Range(x[3])}

(* The row of a bar comes after the rows it is joined with. *)
Complete(q) == \A r \in DOMAIN q : q[r][1] = "bar" =>
                   \A x \in JoinedWith(q[r]) : \E s \in 1 .. r - 1 : q[s] = x

(* Whatever a bar may come to be joined with is written before the bar is: *)
(* only tracked markets are polled, a market is written before it is       *)
(* tracked, and a trade is written before it is published and counted.     *)
WrittenInv ==
    /\ \A m \in active : MarketRow(m) \in Range(rows)
    /\ \A m \in Markets : task[m] # "idle" => m \in active
    /\ \A m \in Markets, t \in Nat : Publishing(m, t) => TradeRow(t) \in Range(rows)
    /\ \A k \in DOMAIN bars : /\ k[1] \in active
                               /\ \A t \in Range(bars[k].trades) : TradeRow(t) \in Range(rows)
    /\ Complete(rows)

------------------------------------------------------------------------------
(* The client of the collector *)

(* The client's constants are as it assumes. *)
LEMMA ClientConstants == Client!ClientAssumption
<1>1. Cardinality(Markets) \in Nat
  BY KalshiAssumption, FS_CardinalityType DEF KalshiAssumption
<1>2. RowBound \in Nat
  BY <1>1, KalshiAssumption, SMT DEF RowBound, KalshiAssumption
<1> QED
  BY <1>2, KalshiAssumption DEF Client!ClientAssumption, KalshiAssumption

(* A write_row of the collector is a call of the client. *)
LEMMA WriteIsCall == DB!Write => Client!Next
<1>1. DB!Write => Client!Write
  BY DEF DB!Write, DB!WriteOpen, DB!WriteUnreachable, DB!WriteReplayed,
         DB!WriteReplayFails, DB!WriteReplayRaises, DB!SenderRow, DB!RowFails,
         DB!FlushFails, DB!Flushed, DB!Storable, DB!BufferAppend, DB!Requeue,
         DB!EncodableRun, DB!PrefixStored,
         Client!Write, Client!WriteOpen, Client!WriteUnreachable,
         Client!WriteReplayed, Client!WriteReplayFails, Client!WriteReplayRaises,
         Client!SenderRow, Client!RowFails, Client!FlushFails, Client!Flushed,
         Client!Storable, Client!BufferAppend, Client!Requeue,
         Client!EncodableRun, Client!PrefixStored
<1> QED
  BY <1>1 DEF Client!Next

(* So is its flush, *)
LEMMA FlushIsCall == UNCHANGED rows /\ DB!Flush => Client!Next
BY DEF DB!Flush, DB!FlushSender, DB!Flushed, DB!FlushFails, DB!Storable,
       Client!Next, Client!Flush, Client!FlushSender, Client!Flushed,
       Client!FlushFails, Client!Storable

(* its close when main_async ends, *)
LEMMA CloseIsCall == UNCHANGED rows /\ DB!Close => Client!Next
BY DEF DB!Close, DB!FlushSender, DB!Flushed, DB!FlushFails, DB!Storable,
       Client!Next, Client!Close, Client!FlushSender, Client!Flushed,
       Client!FlushFails, Client!Storable

(* and the end of the process. *)
LEMMA RestartIsCall == UNCHANGED rows /\ DB!Restart => Client!Next
BY DEF DB!Restart, Client!Next, Client!Restart

(* Every step of the collector is a call of the client or leaves it alone. *)
LEMMA StepIsCall == [Next]_vars => [Client!Next]_Client!vars
<1> SUFFICES ASSUME [Next]_vars PROVE Client!Next \/ UNCHANGED Client!vars
  OBVIOUS
<1>1. UNCHANGED client => UNCHANGED Client!vars
  BY DEF client, Client!vars
<1>2. ASSUME NEW r, WriteRow(r) PROVE Client!Next
  BY <1>2, WriteIsCall DEF WriteRow
<1>3. CASE Tick \/ StartRound \/ Stop \/ StartFlush \/ UNCHANGED vars
  BY <1>1, <1>3 DEF Tick, StartRound, Stop, StartFlush, vars
<1>4. CASE Restart
  BY <1>4, RestartIsCall DEF Restart
<1>5. CASE EndFlush
  BY <1>5, FlushIsCall DEF EndFlush
<1>6. CASE EndStop
  BY <1>1, <1>6, CloseIsCall DEF EndStop
<1>7. ASSUME NEW k \in due, FlushBar(k) PROVE Client!Next \/ UNCHANGED Client!vars
  BY <1>1, <1>2, <1>7 DEF FlushBar
<1>8. ASSUME NEW m \in Markets, Happen(m) \/ Discover(m) \/ TaskStep(m)
      PROVE  Client!Next \/ UNCHANGED Client!vars
  <2>1. CASE Discover(m)
    BY <1>2, <2>1 DEF Discover
  <2>2. CASE IngestTrade(m)
    BY <1>2, <2>2 DEF IngestTrade
  <2>3. CASE Happen(m) \/ PollProbability(m) \/ FetchTape(m) \/ EndTape(m)
               \/ IgnoreTrade(m) \/ Publish(m)
    BY <1>1, <2>3, Zenon DEF Happen, PollProbability, FetchTape, EndTape, IgnoreTrade, Publish
  <2> QED
    BY <1>8, <2>1, <2>2, <2>3 DEF TaskStep, OwnStep
<1> QED
  BY <1>3, <1>4, <1>5, <1>6, <1>7, <1>8, Zenon DEF Next, FlushStep

(* The collector uses the client as the client's specification allows: it  *)
(* implements it, whatever its own steps do in between.                    *)
THEOREM CollectorUsesClient == Spec => Client!Spec
<1>1. Init => Client!Init
  BY EmptySeq DEF Init, DB!Init, Client!Init
<1> QED
  BY <1>1, StepIsCall, PTL DEF Spec, Client!Spec

(* So what is proved of the client holds in the collector: rows reach the  *)
(* table for the first time in the order the collector wrote them.         *)
LEMMA ClientKeepsOrder == Spec => [](Client!TypeOK /\ Client!FirstStoredInOrder)
BY CollectorUsesClient, ClientConstants, Client!TypeCorrect,
   Client!FirstStoredInOrderInvariant, PTL

(* What a caller relies on holds of the client inside the collector: the   *)
(* rows of its polls and of its flush loop go through one lossy first-in   *)
(* first-out channel, wait in one queue in the order they were written,    *)
(* and are stored twice only by a replay (write_row, flush).               *)
THEOREM CollectorHasRowChannel ==
    Spec => /\ Client!IsRowChannel
            /\ [](Client!OneQueue /\ Client!HeldInOrder /\ Client!OnlyReplayDuplicates)
BY CollectorUsesClient, ClientConstants, Client!ClientIsRowChannel, Client!OneQueueInvariant,
   Client!HeldInOrderInvariant, Client!OnlyReplayDuplicatesInvariant, PTL

------------------------------------------------------------------------------
(* The parts of the state *)

(* Trades are numbered, and a tape has trades that happened. *)
LEMMA TradesHappened ==
    ASSUME TypeInv
    PROVE  /\ DOMAIN happened \subseteq Nat
           /\ \A t \in DOMAIN happened : happened[t].minute \in 0 .. MaxMinute
           /\ \A m \in Markets : Tape(m) \subseteq DOMAIN happened
<1>1. happened \in Seq([market : Markets, minute : 0 .. MaxMinute])
  BY DEF TypeInv
<1>2. Len(happened) \in Nat /\ DOMAIN happened = 1 .. Len(happened)
  BY <1>1, LenProperties
<1>3. \A t \in DOMAIN happened : happened[t] \in [market : Markets, minute : 0 .. MaxMinute]
  BY <1>1, <1>2, ElementOfSeq
<1> QED
  BY <1>2, <1>3 DEF Tape

(* What a row that is written does to the rows. *)
LEMMA RowIsWritten ==
    ASSUME NEW S, NEW q \in Seq(S), NEW x \in S
    PROVE  /\ Append(q, x) \in Seq(S)
           /\ DOMAIN q = 1 .. Len(q) /\ Len(q) \in Nat
           /\ DOMAIN Append(q, x) = 1 .. Len(q) + 1
           /\ \A i \in DOMAIN q : Append(q, x)[i] = q[i]
           /\ Append(q, x)[Len(q) + 1] = x
           /\ Range(Append(q, x)) = Range(q) \cup {x}
<1>1. /\ Append(q, x) \in Seq(S) /\ Len(Append(q, x)) = Len(q) + 1
      /\ \A i \in 1 .. Len(q) : Append(q, x)[i] = q[i]
      /\ Append(q, x)[Len(q) + 1] = x
  BY AppendProperties
<1>2. DOMAIN q = 1 .. Len(q) /\ Len(q) \in Nat
  BY LenProperties
<1>3. DOMAIN Append(q, x) = 1 .. Len(q) + 1
  BY <1>1, LenProperties
<1>4. Range(Append(q, x)) = Range(q) \cup {x}
  BY <1>1, <1>2, <1>3 DEF Range
<1> QED
  BY <1>1, <1>2, <1>3, <1>4

(* A task that goes on keeps the types, and the event loop for itself if   *)
(* it had it or if it was free.                                            *)
LEMMA GotoType ==
    ASSUME TypeInv, NEW m \in Markets, NEW s \in Places,
           NEW q \in SUBSET DOMAIN happened, Goto(m, s, q), flusher' = flusher,
           s = "ingest" => LoopFree \/ task[m] = "ingest"
    PROVE  /\ task' \in [Markets -> Places]
           /\ todo' \in [Markets -> SUBSET DOMAIN happened]
           /\ OneHolds'
           /\ task'[m] = s /\ todo'[m] = q
           /\ \A n \in Markets \ {m} : task'[n] = task[n] /\ todo'[n] = todo[n]
<1>1. task \in [Markets -> Places] /\ todo \in [Markets -> SUBSET DOMAIN happened] /\ OneHolds
  BY DEF TypeInv
<1>2. /\ task'[m] = s /\ todo'[m] = q
      /\ \A n \in Markets \ {m} : task'[n] = task[n] /\ todo'[n] = todo[n]
      /\ task' \in [Markets -> Places] /\ todo' \in [Markets -> SUBSET DOMAIN happened]
  BY <1>1 DEF Goto
<1>3. OneHolds'
  BY <1>1, <1>2 DEF OneHolds, LoopFree
<1> QED
  BY <1>2, <1>3

(* A bar that is set replaces the bar of its key and no other. *)
LEMMA BarIsSet ==
    ASSUME BarsType, NEW k \in Keys, NEW b \in Bar, SetBar(k, b)
    PROVE  /\ BarsType'
           /\ DOMAIN bars' = DOMAIN bars \cup {k}
           /\ bars'[k] = b
           /\ \A x \in DOMAIN bars \ {k} : bars'[x] = bars[x]
<1>1. /\ DOMAIN bars' = DOMAIN bars \cup {k}
      /\ bars'[k] = b
      /\ \A x \in DOMAIN bars \ {k} : bars'[x] = bars[x]
  BY DEF SetBar
<1>2. BarsType'
  BY <1>1 DEF BarsType
<1> QED
  BY <1>1, <1>2

(* The bar of a key is a bar, the one in memory or a new one without       *)
(* trades.                                                                 *)
LEMMA BarOfKey ==
    ASSUME BarsType, NEW k \in Keys
    PROVE  /\ BarAt(k) \in Bar
           /\ k \in DOMAIN bars => BarAt(k) = bars[k]
           /\ k \notin DOMAIN bars => Range(BarAt(k).trades) = {}
<1>1. NewBar \in Bar /\ Range(NewBar.trades) = {}
  BY EmptySeq DEF NewBar, Bar, Range
<1> QED
  BY <1>1 DEF BarAt, BarsType

------------------------------------------------------------------------------
(* What a step does to tasks, bars and rows *)

(* No row is written: a task comes no nearer to its publication, and a bar *)
(* is new only for a market that is polled; a trade it counts it counted   *)
(* before or was being published.                                          *)
Polls ==
    /\ UNCHANGED <<active, rows>>
    /\ \A m \in Markets : task'[m] # "idle" => task[m] # "idle" \/ m \in active
    /\ \A m \in Markets, t \in Nat : Publishing(m, t)' => Publishing(m, t)
    /\ \A k \in DOMAIN bars' :
           /\ k \in DOMAIN bars \/ (k[1] \in Markets /\ task[k[1]] # "idle")
           /\ \A t \in Range(bars'[k].trades) :
                  \/ k \in DOMAIN bars /\ t \in Range(bars[k].trades)
                  \/ t \in Nat /\ \E m \in Markets : Publishing(m, t)

(* A trade is written, and is the one its task publishes. *)
Ingests ==
    /\ UNCHANGED <<active, bars>>
    /\ \A m \in Markets : task'[m] # "idle" => task[m] # "idle"
    /\ \E t \in Nat : /\ rows' = Append(rows, TradeRow(t))
                      /\ \A m \in Markets, u \in Nat :
                             Publishing(m, u)' => Publishing(m, u) \/ u = t

(* A market is written and tracked. *)
Discovers == \E m \in Markets : /\ rows' = Append(rows, MarketRow(m))
                                /\ active' = active \cup {m}
                                /\ UNCHANGED <<task, todo, bars>>

(* A bar leaves memory, with its row or without. *)
Flushes == \E k \in DOMAIN bars :
               /\ UNCHANGED <<active, task, todo>>
               /\ rows' = rows \/ rows' = Append(rows, BarRow(k, bars[k]))
               /\ DOMAIN bars' = DOMAIN bars \ {k}
               /\ \A x \in DOMAIN bars' : bars'[x] = bars[x]

(* A process ends with all it knew. *)
Forgets == /\ rows' = rows /\ active' = {} /\ bars' = NoBars
           /\ \A m \in Markets : task'[m] = "idle"

Shape == Polls \/ Ingests \/ Discovers \/ Flushes \/ Forgets

(* The tasks that stand still publish what they published. *)
LEMMA PublishingKept ==
    ASSUME NEW m \in Markets, task'[m] = task[m], todo'[m] = todo[m]
    PROVE  \A t : Publishing(m, t)' <=> Publishing(m, t)
BY DEF Publishing, At

(* The world and the turns of the flush loop: no task and no bar changes. *)
LEMMA WaitStep ==
    ASSUME TypeInv,
           Tick \/ StartFlush \/ EndFlush \/ EndStop \/ UNCHANGED vars
               \/ \E m \in Markets : Happen(m)
    PROVE  TypeInv' /\ Polls
<1>1. UNCHANGED <<active, task, todo, stamp, seen, bars, rows>>
  BY DEF Tick, StartFlush, EndFlush, EndStop, Happen, vars, polls, flushing, client
<1>2. BarsType' /\ rows' \in Seq(Row) /\ stamp' \in [Markets -> 0 .. MaxMinute]
  BY <1>1 DEF TypeInv, BarsType
<1>3. Polls
  <2>1. \A k \in DOMAIN bars : \A t \in Range(bars[k].trades) :
           k \in DOMAIN bars /\ t \in Range(bars[k].trades)
    OBVIOUS
  <2>2. \A m \in Markets, t \in Nat : Publishing(m, t)' => Publishing(m, t)
    BY <1>1, Zenon DEF Publishing, At
  <2> QED
    BY <1>1, <2>1, <2>2, Zenon DEF Polls
<1>4. /\ minute' \in 0 .. MaxMinute
      /\ due' \subseteq DOMAIN bars /\ flusher' \in {"asleep", "loop", "stop"}
      /\ flusher' = "asleep" \/ LoopFree \/ flusher' = flusher
  <2>1. minute' = minute \/ (minute < MaxMinute /\ minute' = minute + 1)
    BY DEF Tick, StartFlush, EndFlush, EndStop, Happen, vars
  <2>2. minute' \in 0 .. MaxMinute
    BY <2>1, KalshiAssumption DEF TypeInv, KalshiAssumption
  <2>3. \/ due' = due /\ flusher' = flusher
        \/ due' = due /\ flusher' = "asleep"
        \/ due' \subseteq DOMAIN bars /\ flusher' = "loop" /\ LoopFree
    BY DEF Tick, StartFlush, EndFlush, EndStop, Happen, vars, flushing
  <2> QED
    BY <2>2, <2>3 DEF TypeInv
<1>5. OneHolds'
  BY <1>1, <1>4 DEF OneHolds, LoopFree, TypeInv
<1>6. /\ happened' \in Seq([market : Markets, minute : 0 .. MaxMinute])
      /\ DOMAIN happened \subseteq DOMAIN happened'
  <2> DEFINE Event == [market : Markets, minute : 0 .. MaxMinute]
  <2>1. happened \in Seq(Event)
    BY DEF TypeInv
  <2>2. CASE happened' = happened
    BY <2>1, <2>2
  <2>3. ASSUME NEW m \in Markets, Happen(m)
        PROVE  happened' \in Seq(Event) /\ DOMAIN happened \subseteq DOMAIN happened'
    <3> DEFINE e == [market |-> m, minute |-> minute]
    <3>1. e \in Event /\ happened' = Append(happened, e)
      BY <2>3 DEF Happen, TypeInv
    <3> HIDE DEF e, Event
    <3>2. /\ Append(happened, e) \in Seq(Event)
          /\ DOMAIN happened = 1 .. Len(happened) /\ Len(happened) \in Nat
          /\ DOMAIN Append(happened, e) = 1 .. Len(happened) + 1
      BY <2>1, <3>1, RowIsWritten
    <3> QED
      BY <3>1, <3>2
  <2> QED
    BY <2>2, <2>3 DEF Tick, StartFlush, EndFlush, EndStop, vars
<1>7. /\ todo' \in [Markets -> SUBSET DOMAIN happened'] /\ seen' \subseteq DOMAIN happened'
      /\ task' \in [Markets -> Places] /\ active' \subseteq Markets
  BY <1>1, <1>6 DEF TypeInv
<1> QED
  BY <1>1, <1>2, <1>3, <1>4, <1>5, <1>6, <1>7, Zenon DEF TypeInv

(* A round begins for the tracked markets. *)
LEMMA RoundStep == ASSUME TypeInv, StartRound PROVE TypeInv' /\ Polls
<1>1. /\ UNCHANGED <<minute, happened, active, todo, stamp, seen, bars, due, flusher, rows>>
      /\ task' = [m \in Markets |-> IF m \in active THEN "book" ELSE "idle"]
  BY DEF StartRound, flushing, client
<1>2. /\ task' \in [Markets -> Places]
      /\ \A m \in Markets : /\ task'[m] # "idle" => m \in active
                            /\ task'[m] \notin {"ingest", "publish"}
  BY <1>1 DEF Places
<1>3. OneHolds' /\ BarsType'
  BY <1>1, <1>2 DEF OneHolds, BarsType, TypeInv
<1>4. Polls
  BY <1>1, <1>2, Zenon DEF Polls, Publishing
<1> QED
  BY <1>1, <1>2, <1>3, <1>4, Zenon DEF TypeInv

(* stop() cancels the tasks and makes all bars due. *)
LEMMA StopStep == ASSUME TypeInv, Stop PROVE TypeInv' /\ Polls
<1>1. /\ UNCHANGED <<minute, happened, active, stamp, seen, bars, rows>>
      /\ task' = [m \in Markets |-> "idle"] /\ todo' = [m \in Markets |-> {}]
      /\ due' = DOMAIN bars /\ flusher' = "stop"
  BY DEF Stop, client
<1>2. /\ task' \in [Markets -> Places] /\ todo' \in [Markets -> SUBSET DOMAIN happened]
      /\ \A m \in Markets : task'[m] = "idle"
  BY <1>1 DEF Places
<1>3. OneHolds' /\ BarsType' /\ flusher' \in {"asleep", "loop", "stop"}
  BY <1>1, <1>2 DEF OneHolds, BarsType, TypeInv
<1>4. Polls
  BY <1>1, <1>2, Zenon DEF Polls, Publishing
<1> QED
  BY <1>1, <1>2, <1>3, <1>4, Zenon DEF TypeInv

(* A new process starts with empty memory and the old table. *)
LEMMA RestartStep == ASSUME TypeInv, Restart PROVE TypeInv' /\ Forgets
<1>1. /\ UNCHANGED <<minute, happened, rows>> /\ active' = {} /\ seen' = {}
      /\ task' = [m \in Markets |-> "idle"] /\ todo' = [m \in Markets |-> {}]
      /\ stamp' = [m \in Markets |-> 0]
      /\ bars' = NoBars /\ due' = {} /\ flusher' = "asleep"
  BY DEF Restart
<1>2. /\ task' \in [Markets -> Places] /\ todo' \in [Markets -> SUBSET DOMAIN happened]
      /\ stamp' \in [Markets -> 0 .. MaxMinute]
      /\ \A m \in Markets : task'[m] = "idle"
  BY <1>1, KalshiAssumption DEF Places
<1>3. OneHolds' /\ BarsType' /\ flusher' \in {"asleep", "loop", "stop"}
  BY <1>1, <1>2 DEF OneHolds, BarsType, NoBars
<1> QED
  BY <1>1, <1>2, <1>3 DEF TypeInv, Forgets

(* A task goes on without a row and without a bar: to a place from which   *)
(* nothing is published.                                                   *)
LEMMA TaskPolls ==
    ASSUME TypeInv, NEW m \in Markets, NEW s \in Places \ {"publish"},
           NEW q \in SUBSET DOMAIN happened, Goto(m, s, q), task[m] # "idle",
           s = "ingest" => LoopFree \/ task[m] = "ingest",
           UNCHANGED <<minute, happened, active, bars, due, flusher, rows>>,
           seen' \subseteq DOMAIN happened, stamp' \in [Markets -> 0 .. MaxMinute]
    PROVE  TypeInv' /\ Polls
<1>1. /\ task' \in [Markets -> Places] /\ todo' \in [Markets -> SUBSET DOMAIN happened]
      /\ OneHolds' /\ task'[m] = s
      /\ \A n \in Markets \ {m} : task'[n] = task[n] /\ todo'[n] = todo[n]
  BY GotoType
<1>2. BarsType'
  BY DEF BarsType, TypeInv
<1>3. TypeInv'
  BY <1>1, <1>2, Zenon DEF TypeInv
<1>4. \A n \in Markets, t \in Nat : Publishing(n, t)' => Publishing(n, t)
  BY <1>1, PublishingKept DEF Publishing
<1>5. \A n \in Markets : task'[n] # "idle" => task[n] # "idle"
  BY <1>1
<1> QED
  BY <1>3, <1>4, <1>5, Zenon DEF Polls

(* A task goes on and one bar of its market changes: what it counts then   *)
(* it counted before, or was being published.                              *)
LEMMA TaskCounts ==
    ASSUME TypeInv, NEW m \in Markets, NEW s \in Places \ {"publish"},
           NEW q \in SUBSET DOMAIN happened, Goto(m, s, q), task[m] # "idle", LoopFree,
           UNCHANGED <<minute, happened, active, seen, due, flusher, rows>>,
           stamp' \in [Markets -> 0 .. MaxMinute],
           NEW k \in Keys, k[1] = m, NEW b \in Bar, SetBar(k, b),
           \A t \in Range(b.trades) : \/ t \in Range(BarAt(k).trades)
                                      \/ t \in Nat /\ Publishing(m, t)
    PROVE  TypeInv' /\ Polls
<1>1. /\ task' \in [Markets -> Places] /\ todo' \in [Markets -> SUBSET DOMAIN happened]
      /\ OneHolds' /\ task'[m] = s
      /\ \A n \in Markets \ {m} : task'[n] = task[n] /\ todo'[n] = todo[n]
  BY GotoType
<1>2. /\ BarsType' /\ DOMAIN bars' = DOMAIN bars \cup {k} /\ bars'[k] = b
      /\ \A x \in DOMAIN bars \ {k} : bars'[x] = bars[x]
  BY BarIsSet DEF TypeInv
<1>3. due' \subseteq DOMAIN bars'
  BY <1>2 DEF TypeInv
<1>4. TypeInv'
  BY <1>1, <1>2, <1>3, Zenon DEF TypeInv
<1>5. \A n \in Markets, t \in Nat : Publishing(n, t)' => Publishing(n, t)
  BY <1>1, PublishingKept DEF Publishing
<1>6. \A n \in Markets : task'[n] # "idle" => task[n] # "idle"
  BY <1>1
<1>7. ASSUME NEW x \in DOMAIN bars'
      PROVE  /\ x \in DOMAIN bars \/ (x[1] \in Markets /\ task[x[1]] # "idle")
             /\ \A t \in Range(bars'[x].trades) :
                    \/ x \in DOMAIN bars /\ t \in Range(bars[x].trades)
                    \/ t \in Nat /\ \E n \in Markets : Publishing(n, t)
  <2>1. CASE x = k
    <3>1. /\ k \in DOMAIN bars => BarAt(k) = bars[k]
          /\ k \notin DOMAIN bars => Range(BarAt(k).trades) = {}
      BY BarOfKey DEF TypeInv
    <3> QED
      BY <1>2, <2>1, <3>1, Zenon
  <2>2. CASE x # k
    BY <1>2, <2>2, Zenon
  <2> QED
    BY <2>1, <2>2
<1> QED
  BY <1>4, <1>5, <1>6, <1>7, Zenon DEF Polls

(* The price of the minute goes to its bar, which counts no other trades   *)
(* than before.                                                            *)
LEMMA ProbabilityStep ==
    ASSUME TypeInv, NEW m \in Markets, PollProbability(m)
    PROVE  TypeInv' /\ Polls
<1> DEFINE k == <<m, minute>>
           b == [BarAt(k) EXCEPT !.prob = TRUE]
<1>1. /\ LoopFree /\ task[m] = "book" /\ {} \in SUBSET DOMAIN happened
      /\ UNCHANGED <<minute, happened, active, stamp, seen, due, flusher, rows>>
      /\ seen \subseteq DOMAIN happened /\ stamp \in [Markets -> 0 .. MaxMinute]
      /\ {"idle", "tape"} \subseteq Places \ {"publish"}
  BY DEF PollProbability, client, Places, TypeInv
<1>2. k \in Keys /\ k[1] = m
  BY DEF Keys, TypeInv
<1>3. BarAt(k) \in Bar
  BY <1>2, BarOfKey DEF TypeInv
<1>4. b \in Bar /\ b.trades = BarAt(k).trades
  BY <1>3 DEF Bar
<1> HIDE DEF b
<1>5. CASE Goto(m, "tape", {}) /\ SetBar(k, b)
  <2>1. \A t \in Range(b.trades) : t \in Range(BarAt(k).trades)
    BY <1>4
  <2> HIDE DEF k
  <2> QED
    BY <1>1, <1>2, <1>4, <1>5, <2>1, TaskCounts
<1>6. CASE Goto(m, "tape", {}) /\ UNCHANGED bars
  BY <1>1, <1>6, TaskPolls
<1>7. CASE Goto(m, "idle", {}) /\ UNCHANGED bars
  BY <1>1, <1>7, TaskPolls
<1> QED
  BY <1>5, <1>6, <1>7 DEF PollProbability, Fail, b

(* The tape arrives, ends, or is passed over in part. *)
LEMMA TapeStep ==
    ASSUME TypeInv, NEW m \in Markets, FetchTape(m) \/ EndTape(m) \/ IgnoreTrade(m)
    PROVE  TypeInv' /\ Polls
<1>1. /\ task[m] # "idle" /\ {} \in SUBSET DOMAIN happened
      /\ Tape(m) \in SUBSET DOMAIN happened
      /\ todo[m] \in SUBSET DOMAIN happened
      /\ UNCHANGED <<minute, happened, active, stamp, bars, due, flusher, rows>>
      /\ {"idle", "ingest"} \subseteq Places \ {"publish"}
      /\ stamp \in [Markets -> 0 .. MaxMinute] /\ seen \subseteq DOMAIN happened
  BY TradesHappened DEF FetchTape, EndTape, IgnoreTrade, flushing, client, Places, TypeInv
<1>2. CASE FetchTape(m)
  <2>1. /\ LoopFree /\ seen' = seen
        /\ Goto(m, "ingest", Tape(m)) \/ Goto(m, "idle", {})
    BY <1>2 DEF FetchTape, Fail
  <2> QED
    BY <1>1, <2>1, TaskPolls
<1>3. CASE EndTape(m)
  <2>1. seen' = seen /\ Goto(m, "idle", {})
    BY <1>3 DEF EndTape
  <2> QED
    BY <1>1, <2>1, TaskPolls
<1>4. CASE IgnoreTrade(m)
  <2>1. PICK t \in seen \cup Ignored \cup Unparsable :
           /\ At(m, t) /\ seen' = seen \cup {t}
           /\ Goto(m, "idle", {}) \/ Goto(m, "ingest", todo[m] \ {t})
    BY <1>4 DEF IgnoreTrade
  <2>2. task[m] = "ingest" /\ seen' \subseteq DOMAIN happened
    BY <1>1, <1>4, <2>1 DEF IgnoreTrade, At
  <2>3. todo[m] \ {t} \in SUBSET DOMAIN happened
    BY <1>1
  <2> QED
    BY <1>1, <2>1, <2>2, <2>3, TaskPolls
<1> QED
  BY <1>2, <1>3, <1>4

(* After its publication the trade is counted in the bar of its minute. *)
LEMMA PublishStep ==
    ASSUME TypeInv, NEW m \in Markets, Publish(m)
    PROVE  TypeInv' /\ Polls
<1>1. /\ LoopFree /\ task[m] = "publish" /\ {} \in SUBSET DOMAIN happened
      /\ UNCHANGED <<minute, happened, active, seen, due, flusher, rows>>
      /\ seen \subseteq DOMAIN happened
      /\ {"idle", "ingest"} \subseteq Places \ {"publish"}
  BY DEF Publish, client, Places, TypeInv
<1>2. stamp' \in [Markets -> 0 .. MaxMinute]
  BY KalshiAssumption DEF Publish, TypeInv, KalshiAssumption
<1>3. CASE Goto(m, "idle", {}) /\ UNCHANGED bars
  BY <1>1, <1>2, <1>3, TaskPolls
<1>4. ASSUME NEW t \in todo[m], At(m, t), AddTrade(<<m, stamp[m]>>, t),
             Goto(m, "ingest", todo[m] \ {t})
      PROVE  TypeInv' /\ Polls
  <2> DEFINE k == <<m, stamp[m]>>
             b == [BarAt(k) EXCEPT !.trades = Append(@, t)]
  <2>1. k \in Keys /\ k[1] = m
    BY DEF Keys, TypeInv
  <2>2. BarAt(k) \in Bar
    BY <2>1, BarOfKey DEF TypeInv
  <2>3. BarAt(k).trades \in Seq(Nat) /\ t \in Nat
    BY <2>2, TradesHappened DEF Bar, TypeInv
  <2>4. /\ Append(BarAt(k).trades, t) \in Seq(Nat)
        /\ Range(Append(BarAt(k).trades, t)) = Range(BarAt(k).trades) \cup {t}
    <3>1. \A q \in Seq(Nat) : \A u \in Nat :
             Append(q, u) \in Seq(Nat) /\ Range(Append(q, u)) = Range(q) \cup {u}
      BY RowIsWritten
    <3> QED
      BY <2>3, <3>1, Zenon
  <2>5. b \in Bar /\ b.trades = Append(BarAt(k).trades, t)
    BY <2>2, <2>4 DEF Bar
  <2>6. SetBar(k, b) /\ Publishing(m, t)
    BY <1>1, <1>4 DEF AddTrade, Publishing
  <2>7. \A u \in Range(b.trades) : \/ u \in Range(BarAt(k).trades)
                                   \/ u \in Nat /\ Publishing(m, u)
    BY <2>3, <2>4, <2>5, <2>6
  <2>8. todo[m] \ {t} \in SUBSET DOMAIN happened
    BY DEF TypeInv
  <2> HIDE DEF k, b
  <2> QED
    BY <1>1, <1>2, <1>4, <2>1, <2>5, <2>6, <2>7, <2>8, TaskCounts
<1> QED
  BY <1>3, <1>4 DEF Publish, Fail

(* A trade is written and its task awaits the publication. *)
LEMMA IngestStep ==
    ASSUME TypeInv, NEW m \in Markets, IngestTrade(m)
    PROVE  TypeInv' /\ Ingests
<1>1. PICK t \in todo[m] :
         /\ At(m, t) /\ seen' = seen \cup {t}
         /\ stamp' = [stamp EXCEPT ![m] = IF t \in Untimed THEN minute ELSE happened[t].minute]
         /\ rows' = Append(rows, TradeRow(t))
  BY DEF IngestTrade, WriteRow
<1>2. /\ UNCHANGED <<minute, happened, active, bars, due, flusher>>
      /\ task[m] = "ingest" /\ Goto(m, "publish", todo[m])
  BY DEF IngestTrade, flushing
<1>3. /\ todo[m] \in SUBSET DOMAIN happened /\ t \in DOMAIN happened /\ t \in Nat
      /\ happened[t].minute \in 0 .. MaxMinute
      /\ DOMAIN happened \subseteq Nat
      /\ "publish" \in Places
  BY <1>1, TradesHappened DEF TypeInv, Places
<1>4. /\ task' \in [Markets -> Places] /\ todo' \in [Markets -> SUBSET DOMAIN happened]
      /\ OneHolds' /\ todo'[m] = todo[m]
      /\ \A n \in Markets \ {m} : task'[n] = task[n] /\ todo'[n] = todo[n]
  BY <1>2, <1>3, GotoType
<1>5. stamp' \in [Markets -> 0 .. MaxMinute] /\ seen' \subseteq DOMAIN happened
  BY <1>1, <1>3 DEF TypeInv
<1>6. rows' \in Seq(Row)
  <2>1. rows \in Seq(Row) /\ TradeRow(t) \in Row
    BY <1>3 DEF TypeInv, Row
  <2>2. \A q \in Seq(Row) : \A x \in Row : Append(q, x) \in Seq(Row)
    BY RowIsWritten
  <2> QED
    BY <1>1, <2>1, <2>2, Zenon
<1>7. TypeInv'
  <2>1. BarsType'
    BY <1>2 DEF TypeInv, BarsType
  <2> QED
    BY <1>2, <1>4, <1>5, <1>6, <2>1, Zenon DEF TypeInv
<1>8. \A u \in Nat : Publishing(m, u)' => u = t
  <2> SUFFICES ASSUME NEW u \in Nat, Publishing(m, u)' PROVE u = t
    OBVIOUS
  <2>1. u \in todo[m] /\ t <= u
    BY <1>1, <1>4 DEF Publishing, At
  <2>2. u <= t
    BY <1>1, <2>1 DEF At
  <2> QED
    BY <1>3, <2>1, <2>2
<1>9. \A n \in Markets, u \in Nat : Publishing(n, u)' => Publishing(n, u) \/ u = t
  BY <1>4, <1>8, PublishingKept
<1>10. \A n \in Markets : task'[n] # "idle" => task[n] # "idle"
  BY <1>2, <1>4
<1> QED
  BY <1>1, <1>2, <1>3, <1>7, <1>9, <1>10, Zenon DEF Ingests

(* A market is written, then tracked. *)
LEMMA DiscoverStep ==
    ASSUME TypeInv, NEW m \in Markets, Discover(m)
    PROVE  TypeInv' /\ Discovers
<1>1. /\ UNCHANGED <<minute, happened, task, todo, stamp, seen, bars, due, flusher>>
      /\ active' = active \cup {m} /\ rows' = Append(rows, MarketRow(m))
  BY DEF Discover, WriteRow, flushing
<1>2. rows' \in Seq(Row)
  <2>1. rows \in Seq(Row) /\ MarketRow(m) \in Row
    BY DEF TypeInv, Row
  <2>2. \A q \in Seq(Row) : \A x \in Row : Append(q, x) \in Seq(Row)
    BY RowIsWritten
  <2> QED
    BY <1>1, <2>1, <2>2, Zenon
<1>3. BarsType' /\ OneHolds' /\ active' \subseteq Markets
  BY <1>1 DEF TypeInv, BarsType, OneHolds
<1> QED
  BY <1>1, <1>2, <1>3, Zenon DEF TypeInv, Discovers

(* A due bar leaves memory, as a row if it saw a price. *)
LEMMA FlushStepType ==
    ASSUME TypeInv, NEW k \in due, FlushBar(k)
    PROVE  TypeInv' /\ Flushes
<1>1. /\ UNCHANGED <<minute, happened, active, task, todo, stamp, seen, flusher>>
      /\ due' = due \ {k}
      /\ rows' = rows \/ rows' = Append(rows, BarRow(k, bars[k]))
  BY DEF FlushBar, WriteRow, polls, client
<1>2. /\ DOMAIN bars' = DOMAIN bars \ {k} /\ \A x \in DOMAIN bars' : bars'[x] = bars[x]
      /\ k \in DOMAIN bars
  BY DEF FlushBar, Restrict, TypeInv
<1>3. rows' \in Seq(Row)
  <2>1. rows \in Seq(Row) /\ BarRow(k, bars[k]) \in Row
    BY <1>2 DEF TypeInv, Row, BarsType
  <2>2. \A q \in Seq(Row) : \A x \in Row : Append(q, x) \in Seq(Row)
    BY RowIsWritten
  <2> QED
    BY <1>1, <2>1, <2>2, Zenon
<1>4. BarsType' /\ OneHolds' /\ due' \subseteq DOMAIN bars'
  BY <1>1, <1>2 DEF TypeInv, BarsType, OneHolds
<1> QED
  BY <1>1, <1>2, <1>3, <1>4, Zenon DEF TypeInv, Flushes

(* Every step keeps the types and has one of the shapes. *)
LEMMA Shaped == TypeInv /\ [Next]_vars => TypeInv' /\ Shape
<1> SUFFICES ASSUME TypeInv, [Next]_vars PROVE TypeInv' /\ Shape
  OBVIOUS
<1>1. CASE Tick \/ StartFlush \/ EndFlush \/ EndStop \/ UNCHANGED vars
  BY <1>1, WaitStep DEF Shape
<1>2. CASE StartRound
  BY <1>2, RoundStep DEF Shape
<1>3. CASE Stop
  BY <1>3, StopStep DEF Shape
<1>4. CASE Restart
  BY <1>4, RestartStep DEF Shape
<1>5. ASSUME NEW k \in due, FlushBar(k) PROVE TypeInv' /\ Shape
  BY <1>5, FlushStepType DEF Shape
<1>6. ASSUME NEW m \in Markets, Happen(m) PROVE TypeInv' /\ Shape
  BY <1>6, WaitStep DEF Shape
<1>7. ASSUME NEW m \in Markets, Discover(m) PROVE TypeInv' /\ Shape
  BY <1>7, DiscoverStep DEF Shape
<1>8. ASSUME NEW m \in Markets, TaskStep(m) PROVE TypeInv' /\ Shape
  BY <1>8, ProbabilityStep, TapeStep, IngestStep, PublishStep DEF TaskStep, OwnStep, Shape
<1> QED
  BY <1>1, <1>2, <1>3, <1>4, <1>5, <1>6, <1>7, <1>8, Zenon DEF Next, FlushStep

(* TypeInv holds in every state. *)
LEMMA TypeInvariant == Spec => []TypeInv
<1>1. Init => TypeInv
  <2> SUFFICES ASSUME Init PROVE TypeInv
    OBVIOUS
  <2>1. happened = <<>> /\ rows = <<>>
    BY DEF Init
  <2>2. happened \in Seq([market : Markets, minute : 0 .. MaxMinute]) /\ rows \in Seq(Row)
    BY <2>1, EmptySeq
  <2>3. BarsType /\ OneHolds /\ due \subseteq DOMAIN bars
    BY DEF Init, BarsType, NoBars, OneHolds
  <2>4. minute \in 0 .. MaxMinute /\ stamp \in [Markets -> 0 .. MaxMinute]
    BY KalshiAssumption DEF Init, KalshiAssumption
  <2>5. /\ active \subseteq Markets /\ task \in [Markets -> Places]
        /\ todo \in [Markets -> SUBSET DOMAIN happened]
        /\ seen \subseteq DOMAIN happened /\ flusher \in {"asleep", "loop", "stop"}
    BY DEF Init, Places
  <2> QED
    BY <2>2, <2>3, <2>4, <2>5, Zenon DEF TypeInv
<1> QED
  BY <1>1, Shaped, PTL DEF Spec

(* The client's queues and table hold rows that the collector wrote, tasks *)
(* poll tracked markets, and only one of them holds the event loop.        *)
THEOREM TypeCorrect == Spec => []TypeOK
<1>1. Client!TypeOK => DB!TypeOK
  BY DEF Client!TypeOK, DB!TypeOK
<1>2. TypeInv /\ Client!TypeOK => TypeOK
  BY <1>1, Zenon DEF TypeInv, TypeOK, Places, BarsType, OneHolds
<1> QED
  BY <1>2, TypeInvariant, ClientKeepsOrder, PTL

------------------------------------------------------------------------------
(* A bar is written after its market and its trades *)

(* A row behind complete rows leaves them complete, if it is no bar or has *)
(* what it is joined with among them.                                      *)
LEMMA CompleteAppend ==
    ASSUME NEW S, NEW q \in Seq(S), NEW x \in S, Complete(q),
           x[1] = "bar" => JoinedWith(x) \subseteq Range(q)
    PROVE  Complete(Append(q, x))
<1>1. /\ DOMAIN q = 1 .. Len(q) /\ Len(q) \in Nat
      /\ DOMAIN Append(q, x) = 1 .. Len(q) + 1
      /\ \A i \in DOMAIN q : Append(q, x)[i] = q[i]
      /\ Append(q, x)[Len(q) + 1] = x
  BY RowIsWritten
<1> SUFFICES ASSUME NEW r \in DOMAIN Append(q, x), Append(q, x)[r][1] = "bar",
                    NEW y \in JoinedWith(Append(q, x)[r])
             PROVE  \E s \in 1 .. r - 1 : Append(q, x)[s] = y
  BY DEF Complete
<1>2. CASE r \in DOMAIN q
  <2>1. PICK s \in 1 .. r - 1 : q[s] = y
    BY <1>1, <1>2, Zenon DEF Complete
  <2>2. s \in DOMAIN q
    BY <1>1, <1>2, <2>1
  <2> QED
    BY <1>1, <2>1, <2>2
<1>3. CASE r \notin DOMAIN q
  <2>1. r = Len(q) + 1
    BY <1>1, <1>3
  <2>2. y \in Range(q)
    BY <1>1, <2>1
  <2>3. PICK s \in DOMAIN q : q[s] = y
    BY <2>2 DEF Range
  <2>4. s \in 1 .. r - 1
    BY <1>1, <2>1, <2>3
  <2> QED
    BY <1>1, <2>3, <2>4
<1> QED
  BY <1>2, <1>3

(* What is written stays written. *)
LEMMA RowsGrow ==
    ASSUME TypeInv, NEW x \in Row, rows' = Append(rows, x)
    PROVE  Range(rows') = Range(rows) \cup {x}
<1>1. rows \in Seq(Row)
  BY DEF TypeInv
<1> QED
  BY <1>1, RowIsWritten

(* A poll counts only what is written. *)
LEMMA PollsWritten == ASSUME TypeInv, WrittenInv, Polls PROVE WrittenInv'
<1>1. \A m \in Markets : task'[m] # "idle" => m \in active
  BY Zenon DEF Polls, WrittenInv
<1>2. \A m \in Markets, t \in Nat : Publishing(m, t)' => TradeRow(t) \in Range(rows)
  BY Zenon DEF Polls, WrittenInv
<1>3. ASSUME NEW k \in DOMAIN bars'
      PROVE  k[1] \in active /\ \A t \in Range(bars'[k].trades) : TradeRow(t) \in Range(rows)
  BY <1>3, Zenon DEF Polls, WrittenInv
<1>4. (rows' = rows /\ active' = active) /\ Complete(rows)
  BY DEF Polls, WrittenInv
<1> QED
  BY <1>1, <1>2, <1>3, <1>4, Zenon DEF Polls, WrittenInv

(* A trade that awaits its publication is written. *)
LEMMA IngestsWritten == ASSUME TypeInv, WrittenInv, Ingests PROVE WrittenInv'
<1>1. PICK t \in Nat : /\ rows' = Append(rows, TradeRow(t))
                      /\ \A m \in Markets, u \in Nat :
                             Publishing(m, u)' => Publishing(m, u) \/ u = t
  BY DEF Ingests
<1>2. TradeRow(t) \in Row /\ TradeRow(t)[1] # "bar" /\ rows \in Seq(Row)
  BY DEF Row, TradeRow, TypeInv
<1>3. Range(rows') = Range(rows) \cup {TradeRow(t)}
  BY <1>1, <1>2, RowsGrow
<1>4. Complete(rows')
  BY <1>1, <1>2, CompleteAppend DEF WrittenInv
<1>5. \A m \in Markets, u \in Nat : Publishing(m, u)' => TradeRow(u) \in Range(rows')
  BY <1>1, <1>3, Zenon DEF WrittenInv
<1> QED
  BY <1>3, <1>4, <1>5, Zenon DEF Ingests, WrittenInv

(* A market that is tracked is written. *)
LEMMA DiscoversWritten == ASSUME TypeInv, WrittenInv, Discovers PROVE WrittenInv'
<1>1. PICK m \in Markets : /\ rows' = Append(rows, MarketRow(m))
                          /\ active' = active \cup {m}
                          /\ UNCHANGED <<task, todo, bars>>
  BY DEF Discovers
<1>2. MarketRow(m) \in Row /\ MarketRow(m)[1] # "bar" /\ rows \in Seq(Row)
  BY DEF Row, MarketRow, TypeInv
<1>3. Range(rows') = Range(rows) \cup {MarketRow(m)}
  BY <1>1, <1>2, RowsGrow
<1>4. Complete(rows')
  BY <1>1, <1>2, CompleteAppend DEF WrittenInv
<1>5. \A n \in Markets, u \in Nat : Publishing(n, u)' => TradeRow(u) \in Range(rows')
  BY <1>1, <1>3, Zenon DEF WrittenInv, Publishing, At
<1> QED
  BY <1>1, <1>3, <1>4, <1>5, Zenon DEF WrittenInv

(* The row of a bar comes behind its market and its trades. *)
LEMMA FlushesWritten == ASSUME TypeInv, WrittenInv, Flushes PROVE WrittenInv'
<1>1. PICK k \in DOMAIN bars :
         /\ UNCHANGED <<active, task, todo>>
         /\ rows' = rows \/ rows' = Append(rows, BarRow(k, bars[k]))
         /\ DOMAIN bars' = DOMAIN bars \ {k}
         /\ \A x \in DOMAIN bars' : bars'[x] = bars[x]
  BY DEF Flushes
<1>2. BarRow(k, bars[k]) \in Row /\ rows \in Seq(Row)
  BY DEF Row, TypeInv, BarsType
<1>3. JoinedWith(BarRow(k, bars[k])) \subseteq Range(rows)
  <2>1. k[1] \in active /\ MarketRow(k[1]) \in Range(rows)
    BY DEF WrittenInv
  <2>2. \A t \in Range(bars[k].trades) : TradeRow(t) \in Range(rows)
    BY DEF WrittenInv
  <2>3. JoinedWith(BarRow(k, bars[k]))
            = {MarketRow(k[1])} \cup {TradeRow(t) : t \in Range(bars[k].trades)}
    BY DEF JoinedWith, BarRow
  <2> QED
    BY <2>1, <2>2, <2>3, Zenon
<1>4. Range(rows) \subseteq Range(rows') /\ Complete(rows')
  <2>1. CASE rows' = rows
    BY <2>1 DEF WrittenInv
  <2>2. CASE rows' = Append(rows, BarRow(k, bars[k]))
    BY <1>2, <1>3, <2>2, RowsGrow, CompleteAppend DEF WrittenInv
  <2> QED
    BY <1>1, <2>1, <2>2
<1>5. \A m \in Markets, t \in Nat : Publishing(m, t)' => TradeRow(t) \in Range(rows')
  BY <1>1, <1>4, Zenon DEF WrittenInv, Publishing, At
<1> QED
  BY <1>1, <1>4, <1>5, Zenon DEF WrittenInv

(* A new process keeps the rows and counts nothing. *)
LEMMA ForgetsWritten == ASSUME WrittenInv, Forgets PROVE WrittenInv'
<1>1. \A m \in Markets, t \in Nat : ~Publishing(m, t)'
  BY DEF Forgets, Publishing
<1>2. DOMAIN bars' = {}
  BY DEF Forgets, NoBars
<1> QED
  BY <1>1, <1>2 DEF Forgets, WrittenInv

(* Markets and trades are written before what counts on them. *)
LEMMA WrittenInvariant == Spec => []WrittenInv
<1>1. Init => WrittenInv
  BY DEF Init, WrittenInv, Complete, Publishing, NoBars
<1>2. TypeInv /\ WrittenInv /\ Shape => WrittenInv'
  BY PollsWritten, IngestsWritten, DiscoversWritten, FlushesWritten, ForgetsWritten,
     Zenon DEF Shape
<1> QED
  BY <1>1, <1>2, Shaped, TypeInvariant, PTL DEF Spec

(* Whoever reads a bar finds its market and its trades: their rows were    *)
(* written before the row of the bar, and none of them is still waiting in *)
(* a queue of the client when the bar is in the table, whatever flushes    *)
(* and replays failed in between.                                          *)
THEOREM BarAfterItsTradesInvariant == Spec => []BarAfterItsTrades
<1>1. ASSUME TypeInv, WrittenInv, Client!TypeOK, Client!FirstStoredInOrder
      PROVE  BarAfterItsTrades
  <2> SUFFICES ASSUME NEW r \in Range(table), rows[r][1] = "bar", NEW x \in Joined(r)
               PROVE  /\ \E s \in 1 .. r - 1 : rows[s] = x
                      /\ \A s \in 1 .. r - 1 : rows[s] = x =>
                             s \in Range(table) \/ s \notin Range(DB!Held)
    BY DEF BarAfterItsTrades
  <2>1. DB!Held = Client!Held
    BY DEF DB!Held, Client!Held
  <2>2. r \in Nat /\ r \in DOMAIN rows
    <3>1. table \in Seq(1 .. Len(rows))
      BY <1>1 DEF Client!TypeOK
    <3>2. r \in 1 .. Len(rows)
      BY <3>1, ElementOfSeq, LenProperties DEF Range
    <3> QED
      BY <1>1, <3>2, LenProperties DEF TypeInv
  <2>3. \E s \in 1 .. r - 1 : rows[s] = x
    BY <1>1, <2>2 DEF WrittenInv, Complete, Joined, JoinedWith
  <2>4. ASSUME NEW s \in 1 .. r - 1, s \notin Range(table), s \in Range(DB!Held)
        PROVE  FALSE
    <3>1. r < s
      BY <1>1, <2>1, <2>4 DEF Client!FirstStoredInOrder, Client!Range, Range
    <3> QED
      BY <2>2, <3>1
  <2> QED
    BY <2>3, <2>4
<1> QED
  BY <1>1, TypeInvariant, WrittenInvariant, ClientKeepsOrder, PTL

=============================================================================
