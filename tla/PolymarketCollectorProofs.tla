---------------------- MODULE PolymarketCollectorProofs ----------------------
(***************************************************************************)
(* Theorems about the Polymarket collector, for any markets, any sizes of  *)
(* the dedup set and of the tape, and any number of trades, minutes,       *)
(* failures and restarts.                                                  *)
(***************************************************************************)
EXTENDS PolymarketCollector, SequenceTheorems, FiniteSetTheorems, TLAPS

Bar == [prob : BOOLEAN, trades : Seq(Trade)]

(* Trades come from the exchange: what is on a tape, remembered or written *)
(* has happened, not later than now, and is remembered once.               *)
KnownInv == /\ Len(happened) <= MaxTrades
            /\ \A t \in DOMAIN happened : happened[t].minute <= minute
            /\ \A m \in Markets : todo[m] \subseteq Mine(m)
            /\ Range(seen) \subseteq DOMAIN happened /\ IsInjective(seen)
            /\ Range(tradeRows) \subseteq DOMAIN happened
            /\ restarts = 0 => oldTrades = 0

(* A collector that was stopped does nothing. *)
StoppedInv == ~running => \A m \in Markets : task[m] = "idle"

TypeInv == TypeOK /\ KnownInv /\ StoppedInv

------------------------------------------------------------------------------
(* Sequences and the dedup set *)

(* What an added element does to the elements of a sequence. *)
LEMMA AppendElements ==
    ASSUME NEW S, NEW s \in Seq(S), NEW t \in S
    PROVE  /\ Append(s, t) \in Seq(S) /\ Len(Append(s, t)) = Len(s) + 1
           /\ DOMAIN Append(s, t) = 1 .. Len(s) + 1
           /\ \A i \in DOMAIN s : Append(s, t)[i] = s[i]
           /\ Append(s, t)[Len(s) + 1] = t
           /\ Range(Append(s, t)) = Range(s) \cup {t}
<1>1. /\ Append(s, t) \in Seq(S) /\ Len(Append(s, t)) = Len(s) + 1
      /\ \A i \in 1 .. Len(s) : Append(s, t)[i] = s[i]
      /\ Append(s, t)[Len(s) + 1] = t
  BY AppendProperties
<1>2. DOMAIN s = 1 .. Len(s) /\ Len(s) \in Nat
  BY LenProperties
<1>3. DOMAIN Append(s, t) = 1 .. Len(s) + 1
  BY <1>1, LenProperties
<1>4. Range(Append(s, t)) = Range(s) \cup {t}
  BY <1>1, <1>2, <1>3 DEF Range
<1> QED
  BY <1>1, <1>2, <1>3, <1>4

(* A sequence without repetitions stays one when a new element is added. *)
LEMMA AppendDistinct ==
    ASSUME NEW S, NEW s \in Seq(S), NEW t \in S, IsInjective(s), t \notin Range(s)
    PROVE  IsInjective(Append(s, t))
<1>1. DOMAIN s = 1 .. Len(s) /\ Len(s) \in Nat
  BY LenProperties
<1>2. \A i \in DOMAIN s : s[i] # t
  BY DEF Range
<1>3. /\ DOMAIN Append(s, t) = 1 .. Len(s) + 1
      /\ \A i \in DOMAIN s : Append(s, t)[i] = s[i]
      /\ Append(s, t)[Len(s) + 1] = t
  BY AppendElements
<1>4. ASSUME NEW i \in DOMAIN Append(s, t), NEW j \in DOMAIN Append(s, t),
             Append(s, t)[i] = Append(s, t)[j]
      PROVE  i = j
  <2>1. i \in DOMAIN s \/ i = Len(s) + 1
    BY <1>1, <1>3
  <2>2. j \in DOMAIN s \/ j = Len(s) + 1
    BY <1>1, <1>3
  <2> QED
    BY <1>2, <1>3, <1>4, <2>1, <2>2, Zenon DEF IsInjective
<1> QED
  BY <1>4, Zenon DEF IsInjective

(* Dropping the first element. *)
LEMMA TailElements ==
    ASSUME NEW S, NEW s \in Seq(S), s # <<>>
    PROVE  /\ Tail(s) \in Seq(S) /\ Len(Tail(s)) = Len(s) - 1
           /\ Range(Tail(s)) \subseteq Range(s)
           /\ IsInjective(s) => IsInjective(Tail(s))
<1>1. /\ Tail(s) \in Seq(S) /\ Len(Tail(s)) = Len(s) - 1
      /\ \A i \in 1 .. Len(Tail(s)) : Tail(s)[i] = s[i + 1]
  BY HeadTailProperties
<1>2. /\ DOMAIN s = 1 .. Len(s) /\ Len(s) \in Nat
      /\ DOMAIN Tail(s) = 1 .. Len(Tail(s)) /\ Len(Tail(s)) \in Nat
  BY <1>1, LenProperties
<1>3. \A i \in DOMAIN Tail(s) : i + 1 \in DOMAIN s /\ Tail(s)[i] = s[i + 1]
  BY <1>1, <1>2
<1>4. Range(Tail(s)) \subseteq Range(s)
  BY <1>3 DEF Range
<1>5. ASSUME IsInjective(s) PROVE IsInjective(Tail(s))
  <2>1. ASSUME NEW i \in DOMAIN Tail(s), NEW j \in DOMAIN Tail(s), Tail(s)[i] = Tail(s)[j]
        PROVE  i = j
    <3>1. i + 1 = j + 1
      BY <1>3, <1>5, <2>1 DEF IsInjective
    <3> QED
      BY <1>2, <3>1
  <2> QED
    BY <2>1 DEF IsInjective
<1> QED
  BY <1>1, <1>4, <1>5

(* BoundedSeenSet.add keeps the set within its size and free of            *)
(* repetitions, remembers the new id, and forgets one only when full.      *)
LEMMA SeenAddRemembers ==
    ASSUME NEW s \in Seq(Trade), NEW t \in Trade,
           Len(s) <= DedupSize, IsInjective(s), t \notin Range(s)
    PROVE  /\ SeenAdd(s, t) \in Seq(Trade) /\ Len(SeenAdd(s, t)) <= DedupSize
           /\ IsInjective(SeenAdd(s, t))
           /\ Range(SeenAdd(s, t)) \subseteq Range(s) \cup {t}
           /\ Len(s) < DedupSize => Range(SeenAdd(s, t)) = Range(s) \cup {t}
<1>0. DedupSize \in Nat \ {0} /\ Len(s) \in Nat
  BY CollectorAssumption, LenProperties
<1>1. CASE Len(s) >= DedupSize
  <2>1. s # <<>>
    BY <1>0, <1>1, EmptySeq
  <2>2. /\ Tail(s) \in Seq(Trade) /\ Len(Tail(s)) = Len(s) - 1
        /\ Range(Tail(s)) \subseteq Range(s) /\ IsInjective(Tail(s))
    BY <2>1, TailElements, Zenon
  <2>3. SeenAdd(s, t) = Append(Tail(s), t)
    BY <1>1 DEF SeenAdd
  <2>4. /\ Append(Tail(s), t) \in Seq(Trade) /\ Len(Append(Tail(s), t)) = Len(Tail(s)) + 1
        /\ Range(Append(Tail(s), t)) = Range(Tail(s)) \cup {t}
    <3>1. PICK r \in Seq(Trade) : r = Tail(s)
      BY <2>2
    <3>2. /\ Append(r, t) \in Seq(Trade) /\ Len(Append(r, t)) = Len(r) + 1
          /\ Range(Append(r, t)) = Range(r) \cup {t}
      BY AppendElements
    <3> QED
      BY <3>1, <3>2, Zenon
  <2>5. IsInjective(Append(Tail(s), t))
    <3>1. t \notin Range(Tail(s))
      BY <2>2
    <3> QED
      BY <2>2, <3>1, AppendDistinct, Zenon
  <2>6. Len(SeenAdd(s, t)) <= DedupSize /\ ~(Len(s) < DedupSize)
    BY <1>0, <1>1, <2>2, <2>3, <2>4
  <2> QED
    BY <2>2, <2>3, <2>4, <2>5, <2>6, Zenon
<1>2. CASE Len(s) < DedupSize
  <2>1. SeenAdd(s, t) = Append(s, t)
    BY <1>0, <1>2 DEF SeenAdd
  <2>2. /\ Append(s, t) \in Seq(Trade) /\ Len(Append(s, t)) = Len(s) + 1
        /\ Range(Append(s, t)) = Range(s) \cup {t}
    BY AppendElements
  <2>3. IsInjective(Append(s, t))
    BY AppendDistinct, Zenon
  <2>4. Len(SeenAdd(s, t)) <= DedupSize
    BY <1>0, <1>2, <2>1, <2>2
  <2> QED
    BY <2>1, <2>2, <2>3, <2>4, Zenon
<1>3. Len(s) >= DedupSize \/ Len(s) < DedupSize
  BY <1>0
<1> QED
  BY <1>1, <1>2, <1>3, Zenon

(* Distinct ids out of 1 .. n that miss one of them are fewer than n. *)
LEMMA RoomForOne ==
    ASSUME NEW n \in Nat, NEW S, NEW s \in Seq(S), IsInjective(s),
           Range(s) \subseteq 1 .. n, NEW t \in 1 .. n, t \notin Range(s)
    PROVE  Len(s) < n
<1> DEFINE T == (1 .. n) \ {t}
<1>1. DOMAIN s = 1 .. Len(s) /\ Len(s) \in Nat /\ s \in [1 .. Len(s) -> S]
  BY LenProperties
<1>2. s \in [1 .. Len(s) -> T]
  BY <1>1 DEF Range
<1>3. s \in Injection(1 .. Len(s), T)
  BY <1>2, Zenon DEF Injection
<1>4. IsFiniteSet(1 .. n) /\ Cardinality(1 .. n) = n
  BY FS_Interval
<1>5. IsFiniteSet(T) /\ Cardinality(T) = n - 1
  BY <1>4, FS_RemoveElement
<1>6. Cardinality(1 .. Len(s)) <= Cardinality(T)
  BY <1>3, <1>5, FS_Injection
<1>7. Cardinality(1 .. Len(s)) = IF 1 > Len(s) THEN 0 ELSE Len(s) - 1 + 1
  <2>1. 1 \in Int /\ Len(s) \in Int
    BY <1>1
  <2> QED
    BY <2>1, FS_Interval, Zenon
<1> QED
  BY <1>1, <1>5, <1>6, <1>7

------------------------------------------------------------------------------
(* The parts of the state *)

Places == {"idle", "book", "tape", "ingest", "publish"}

(* The bars in memory are bars of keys. *)
BarsType == DOMAIN bars \subseteq Keys /\ \A k \in DOMAIN bars : bars[k] \in Bar

(* Trades are numbered from 1, and a tape has trades of its market. *)
LEMMA TradesHappened ==
    ASSUME TypeInv
    PROVE  /\ Len(happened) \in Nat /\ DOMAIN happened = 1 .. Len(happened)
           /\ DOMAIN happened \subseteq Trade
           /\ \A t \in DOMAIN happened : /\ happened[t].market \in Markets
                                         /\ happened[t].minute \in 0 .. MaxMinute
           /\ \A m \in Markets : Mine(m) \subseteq DOMAIN happened /\ Tape(m) \subseteq Mine(m)
<1>1. /\ happened \in Seq([market : Markets, minute : 0 .. MaxMinute])
      /\ Len(happened) <= MaxTrades /\ MaxTrades \in Nat
  BY CollectorAssumption DEF TypeInv, TypeOK, KnownInv
<1>2. Len(happened) \in Nat /\ DOMAIN happened = 1 .. Len(happened)
  BY <1>1, LenProperties
<1>3. DOMAIN happened \subseteq Trade
  BY <1>1, <1>2 DEF Trade
<1>4. \A t \in DOMAIN happened : happened[t] \in [market : Markets, minute : 0 .. MaxMinute]
  BY <1>1, <1>2, ElementOfSeq
<1>5. \A m \in Markets : Mine(m) \subseteq DOMAIN happened /\ Tape(m) \subseteq Mine(m)
  BY DEF Mine, Tape
<1> QED
  BY <1>2, <1>3, <1>4, <1>5

(* A bar that is set replaces the bar of its key and no other. *)
LEMMA BarIsSet ==
    ASSUME BarsType, NEW k \in Keys, NEW b \in Bar, SetBar(k, b)
    PROVE  /\ BarsType'
           /\ DOMAIN bars' = DOMAIN bars \cup {k}
           /\ bars'[k] = b
           /\ \A x \in DOMAIN bars \ {k} : bars'[x] = bars[x]
           /\ BarAt(k)' = b
           /\ \A x \in Keys \ {k} : BarAt(x)' = BarAt(x)
<1>1. /\ DOMAIN bars' = DOMAIN bars \cup {k}
      /\ bars'[k] = b
      /\ \A x \in DOMAIN bars \ {k} : bars'[x] = bars[x]
  BY DEF SetBar
<1>2. BarsType'
  BY <1>1 DEF BarsType
<1> QED
  BY <1>1, <1>2, Zenon DEF BarAt

(* The bar of a key is a bar, the one in memory or a new one. *)
LEMMA BarOfKey == BarsType => \A k \in Keys : BarAt(k) \in Bar
<1>1. NewBar \in Bar
  BY EmptySeq DEF NewBar, Bar
<1> QED
  BY <1>1, Zenon DEF BarAt, BarsType

(* The id of a trade that is not passed over is the number of a trade that *)
(* happened, and it is not remembered.                                     *)
LEMMA IdIsNew ==
    ASSUME TypeInv, NEW t \in DOMAIN happened, ~Known(t)
    PROVE  Id[t] \in DOMAIN happened \ Range(seen) /\ Id[t] \in Trade
<1>1. /\ Len(happened) \in Nat /\ DOMAIN happened = 1 .. Len(happened)
      /\ DOMAIN happened \subseteq Trade
  BY TradesHappened
<1>2. Id[t] \in Nat /\ Id[t] <= t /\ Id[t] # 0 /\ Id[t] \notin Range(seen)
  BY <1>1, CollectorAssumption DEF Known, Trade
<1> QED
  BY <1>1, <1>2

(* Flushing bars leaves the others in memory, and adds rows to the table.  *)
LEMMA BarsAreFlushed ==
    ASSUME TypeOK, NEW done \in SUBSET DOMAIN bars, NEW gone \in SUBSET DOMAIN bars,
           WriteBars(done, gone)
    PROVE  /\ BarsType' /\ barRows' \in [Keys -> Seq(Seq(Trade))]
           /\ DOMAIN bars' = DOMAIN bars \ (done \cup gone)
           /\ \A x \in DOMAIN bars' : bars'[x] = bars[x]
           /\ \A x \in done \cup gone : BarAt(x)' = NewBar
           /\ \A x \in Keys \ (done \cup gone) : BarAt(x)' = BarAt(x)
           /\ \A x \in Keys \ done : barRows'[x] = barRows[x]
           /\ \A x \in done : barRows'[x] = IF bars[x].prob
                                            THEN Append(barRows[x], BarAt(x).trades)
                                            ELSE barRows[x]
<1>1. BarsType /\ barRows \in [Keys -> Seq(Seq(Trade))]
  BY DEF TypeOK, BarsType, Bar
<1>2. DOMAIN bars' = DOMAIN bars \ (done \cup gone) /\ \A x \in DOMAIN bars' : bars'[x] = bars[x]
  BY DEF WriteBars, Restrict
<1>3. BarsType'
  BY <1>1, <1>2 DEF BarsType
<1>4. done \subseteq Keys /\ \A x \in done : BarAt(x) = bars[x]
  BY <1>1 DEF BarsType, BarAt
<1>5. \A x \in done \cup gone : BarAt(x)' = NewBar
  BY <1>2 DEF BarAt
<1>6. \A x \in Keys : barRows'[x] = IF x \in done /\ bars[x].prob
                                    THEN Append(barRows[x], bars[x].trades)
                                    ELSE barRows[x]
  BY DEF WriteBars
<1>7. \A x \in Keys \ (done \cup gone) : BarAt(x)' = BarAt(x)
  BY <1>2, Zenon DEF BarAt
<1>8. ASSUME NEW x \in Keys PROVE barRows'[x] \in Seq(Seq(Trade))
  <2>1. barRows[x] \in Seq(Seq(Trade))
    BY <1>1
  <2>2. CASE x \in done /\ bars[x].prob
    <3>1. bars[x].trades \in Seq(Trade)
      BY <1>1, <2>2 DEF BarsType, Bar
    <3>2. \A S : \A q \in Seq(S) : \A e \in S : Append(q, e) \in Seq(S)
      BY AppendProperties
    <3>3. Append(barRows[x], bars[x].trades) \in Seq(Seq(Trade))
      BY <2>1, <3>1, <3>2, Zenon
    <3> QED
      BY <1>6, <2>2, <3>3, Zenon
  <2>3. CASE ~(x \in done /\ bars[x].prob)
    BY <1>6, <2>1, <2>3
  <2> QED
    BY <2>2, <2>3
<1>9. barRows' \in [Keys -> Seq(Seq(Trade))]
  BY <1>8, Zenon DEF WriteBars
<1> QED
  BY <1>2, <1>3, <1>4, <1>5, <1>6, <1>7, <1>9, Zenon

------------------------------------------------------------------------------
(* Types *)

(* A step of a running collector keeps the types when what it changes has  *)
(* its type.                                                               *)
LEMMA StepType ==
    ASSUME TypeInv, running,
           UNCHANGED <<minute, happened, running, restarts, oldTrades, oldBars>>,
           lostIds' \subseteq Trade, lostBars' \subseteq Keys,
           task' \in [Markets -> Places], todo' \in [Markets -> SUBSET Trade],
           \A m \in Markets : todo'[m] \subseteq Mine(m),
           stamp' \in [Markets -> 0 .. MaxMinute],
           \/ seen' = seen
           \/ \E t \in DOMAIN happened \ Range(seen) : seen' = SeenAdd(seen, t),
           BarsType',
           \/ tradeRows' = tradeRows
           \/ \E t \in DOMAIN happened : tradeRows' = Append(tradeRows, t),
           barRows' \in [Keys -> Seq(Seq(Trade))],
           failures' \in 0 .. MaxFailures
    PROVE  TypeInv'
<1>1. /\ Len(happened) \in Nat /\ DOMAIN happened \subseteq Trade
  BY TradesHappened
<1>2. seen' \in Seq(Trade) /\ Len(seen') <= DedupSize
      /\ Range(seen') \subseteq DOMAIN happened /\ IsInjective(seen')
  <2>1. /\ seen \in Seq(Trade) /\ Len(seen) <= DedupSize
        /\ Range(seen) \subseteq DOMAIN happened /\ IsInjective(seen)
    BY Zenon DEF TypeInv, TypeOK, KnownInv
  <2>2. CASE seen' = seen
    BY <2>1, <2>2, Zenon
  <2>3. ASSUME NEW t \in DOMAIN happened \ Range(seen), seen' = SeenAdd(seen, t)
        PROVE  /\ seen' \in Seq(Trade) /\ Len(seen') <= DedupSize
               /\ Range(seen') \subseteq DOMAIN happened /\ IsInjective(seen')
    <3>1. t \in Trade /\ t \notin Range(seen)
      BY <1>1, <2>3
    <3>2. /\ SeenAdd(seen, t) \in Seq(Trade) /\ Len(SeenAdd(seen, t)) <= DedupSize
          /\ IsInjective(SeenAdd(seen, t))
          /\ Range(SeenAdd(seen, t)) \subseteq Range(seen) \cup {t}
      BY <2>1, <3>1, SeenAddRemembers, Zenon
    <3>3. Range(seen') \subseteq DOMAIN happened
      BY <2>1, <2>3, <3>2
    <3> QED
      BY <2>3, <3>2, <3>3, Zenon
  <2> QED
    BY <2>2, <2>3, Zenon
<1>3. tradeRows' \in Seq(Trade) /\ Range(tradeRows') \subseteq DOMAIN happened
  <2>1. tradeRows \in Seq(Trade) /\ Range(tradeRows) \subseteq DOMAIN happened
    BY DEF TypeInv, TypeOK, KnownInv
  <2>2. ASSUME NEW t \in DOMAIN happened, tradeRows' = Append(tradeRows, t)
        PROVE  tradeRows' \in Seq(Trade) /\ Range(tradeRows') \subseteq DOMAIN happened
    <3>1. t \in Trade
      BY <1>1
    <3>2. /\ Append(tradeRows, t) \in Seq(Trade)
          /\ Range(Append(tradeRows, t)) = Range(tradeRows) \cup {t}
      BY <2>1, <3>1, AppendElements
    <3> QED
      BY <2>1, <2>2, <3>2
  <2> QED
    BY <2>1, <2>2, Zenon
<1>4. KnownInv'
  <2>1. /\ Len(happened) <= MaxTrades
        /\ \A t \in DOMAIN happened : happened[t].minute <= minute
        /\ restarts = 0 => oldTrades = 0
    BY DEF TypeInv, KnownInv
  <2>2. \A m \in Markets : todo'[m] \subseteq Mine(m)'
    BY Zenon DEF Mine
  <2> QED
    BY <1>2, <1>3, <2>1, <2>2, Zenon DEF KnownInv
<1>5. TypeOK'
  <2>1. /\ minute \in 0 .. MaxMinute /\ restarts \in 0 .. MaxRestarts
        /\ happened \in Seq([market : Markets, minute : 0 .. MaxMinute])
        /\ running \in BOOLEAN /\ oldTrades \in Nat /\ oldBars \in [Keys -> Nat]
    BY DEF TypeInv, TypeOK
  <2> QED
    BY <1>2, <1>3, <2>1, Zenon DEF TypeOK, BarsType, Bar, Places
<1> QED
  BY <1>4, <1>5, Zenon DEF TypeInv, StoppedInv

(* A task that is under way is one of a running collector. *)
LEMMA TaskRuns == TypeInv => \A m \in Markets : task[m] # "idle" => running
BY DEF TypeInv, StoppedInv

(* The parts that a step leaves alone have their types. *)
LEMMA PartTypes ==
    TypeInv => /\ task \in [Markets -> Places] /\ todo \in [Markets -> SUBSET Trade]
               /\ \A m \in Markets : todo[m] \subseteq Mine(m)
               /\ stamp \in [Markets -> 0 .. MaxMinute]
               /\ BarsType /\ barRows \in [Keys -> Seq(Seq(Trade))]
               /\ failures \in 0 .. MaxFailures /\ minute \in 0 .. MaxMinute
               /\ lostIds \subseteq Trade /\ lostBars \subseteq Keys
BY Zenon DEF TypeInv, TypeOK, KnownInv, Places, BarsType, Bar

(* A task that goes on keeps, of its tape, what it says. *)
LEMMA GotoType ==
    ASSUME TypeInv, NEW m \in Markets, NEW s \in Places, NEW q \in SUBSET Mine(m),
           Goto(m, s, q)
    PROVE  /\ task' \in [Markets -> Places] /\ todo' \in [Markets -> SUBSET Trade]
           /\ \A x \in Markets : todo'[x] \subseteq Mine(x)
           /\ task'[m] = s /\ todo'[m] = q
           /\ \A x \in Markets \ {m} : task'[x] = task[x] /\ todo'[x] = todo[x]
<1>1. task \in [Markets -> Places] /\ todo \in [Markets -> SUBSET Trade]
      /\ \A x \in Markets : todo[x] \subseteq Mine(x)
  BY PartTypes
<1>2. q \in SUBSET Trade
  BY TradesHappened
<1>3. task' = [task EXCEPT ![m] = s] /\ todo' = [todo EXCEPT ![m] = q]
  BY DEF Goto
<1> QED
  BY <1>1, <1>2, <1>3

(* Time passes and trades happen. *)
LEMMA WorldType == TypeInv /\ (Tick \/ \E m \in Markets : Happen(m)) => TypeInv'
<1>1. ASSUME TypeInv, Tick PROVE TypeInv'
  <2>1. minute' = minute + 1 /\ minute' \in 0 .. MaxMinute /\ minute \in Nat
    BY <1>1, CollectorAssumption DEF Tick, TypeInv, TypeOK
  <2>2. UNCHANGED <<happened, task, todo, stamp, seen, bars, tradeRows, barRows,
                    running, failures, restarts, lostIds, lostBars, oldTrades, oldBars>>
    BY <1>1, Zenon DEF Tick, clients, tables, counters, lost, old
  <2>3. \A t \in DOMAIN happened : happened[t].minute \in Nat /\ happened[t].minute <= minute
    BY <1>1, TradesHappened DEF TypeInv, KnownInv
  <2>4. \A t \in DOMAIN happened : happened[t].minute <= minute'
    BY <2>1, <2>3
  <2>5. TypeOK'
    BY <1>1, <2>1, <2>2, Zenon DEF TypeInv, TypeOK
  <2>6. KnownInv' /\ StoppedInv'
    BY <1>1, <2>2, <2>4, Zenon DEF TypeInv, KnownInv, StoppedInv, Mine
  <2> QED
    BY <2>5, <2>6 DEF TypeInv
<1>2. ASSUME TypeInv, NEW m \in Markets, Happen(m) PROVE TypeInv'
  <2> DEFINE e == [market |-> m, minute |-> minute]
  <2>1. /\ UNCHANGED <<minute, task, todo, stamp, seen, bars, tradeRows, barRows,
                       running, failures, restarts, lostIds, lostBars, oldTrades, oldBars>>
        /\ happened' = Append(happened, e) /\ Len(happened) < MaxTrades
    BY <1>2, Zenon DEF Happen, clients, tables, counters, lost, old
  <2>2. e \in [market : Markets, minute : 0 .. MaxMinute] /\ minute \in Nat
    BY <1>2 DEF TypeInv, TypeOK
  <2>3. /\ happened \in Seq([market : Markets, minute : 0 .. MaxMinute])
        /\ Len(happened) \in Nat /\ DOMAIN happened = 1 .. Len(happened)
    BY <1>2, TradesHappened DEF TypeInv, TypeOK
  <2>4. /\ happened' \in Seq([market : Markets, minute : 0 .. MaxMinute])
        /\ Len(happened') = Len(happened) + 1
        /\ DOMAIN happened' = 1 .. Len(happened) + 1
        /\ \A t \in DOMAIN happened : happened'[t] = happened[t]
        /\ happened'[Len(happened) + 1] = e
    BY <2>1, <2>2, <2>3, AppendElements
  <2>5. DOMAIN happened \subseteq DOMAIN happened'
    BY <2>3, <2>4
  <2>6. Len(happened') <= MaxTrades
    BY <2>1, <2>3, <2>4, CollectorAssumption
  <2>7. \A t \in DOMAIN happened' : happened'[t].minute <= minute'
    <3>1. \A t \in DOMAIN happened : happened[t].minute <= minute
      BY <1>2 DEF TypeInv, KnownInv
    <3>2. e.minute <= minute
      BY <2>2
    <3> QED
      BY <2>1, <2>3, <2>4, <3>1, <3>2
  <2>8. \A x \in Markets : todo'[x] \subseteq Mine(x)'
    <3>1. \A x \in Markets : Mine(x) \subseteq Mine(x)'
      BY <2>4, <2>5, Zenon DEF Mine
    <3> QED
      BY <1>2, <2>1, <3>1, PartTypes
  <2>9. TypeOK'
    BY <1>2, <2>1, <2>4, Zenon DEF TypeInv, TypeOK
  <2>10. KnownInv'
    <3>1. /\ Range(seen) \subseteq DOMAIN happened /\ IsInjective(seen)
          /\ Range(tradeRows) \subseteq DOMAIN happened
          /\ restarts = 0 => oldTrades = 0
      BY <1>2 DEF TypeInv, KnownInv
    <3>2. /\ Range(seen') \subseteq DOMAIN happened' /\ IsInjective(seen')
          /\ Range(tradeRows') \subseteq DOMAIN happened'
          /\ restarts' = 0 => oldTrades' = 0
      BY <2>1, <2>5, <3>1
    <3> QED
      BY <2>6, <2>7, <2>8, <3>2 DEF KnownInv
  <2> QED
    BY <1>2, <2>1, <2>9, <2>10, Zenon DEF TypeInv, StoppedInv
<1> QED
  BY <1>1, <1>2

------------------------------------------------------------------------------
(* What a step may be: six shapes that the invariants need to tell apart *)

(* The task of m is publishing trade t. *)
Publishing(m, t) == task[m] = "publish" /\ At(m, t)

(* Nothing is written or counted; a trade may be marked as seen, a price   *)
(* may arrive in a bar of the current minute, a publication may be given   *)
(* up.                                                                     *)
Polls ==
    /\ running /\ UNCHANGED <<minute, happened, running, restarts, tradeRows, barRows,
                              oldTrades, oldBars>>
    /\ \/ seen' = seen
       \/ \E t \in DOMAIN happened \ Range(seen) : seen' = SeenAdd(seen, t)
    /\ \A m \in Markets, t \in Trade :
          Publishing(m, t)' => Publishing(m, t) /\ stamp'[m] = stamp[m]
    /\ failures' = 0 => /\ failures = 0
                        /\ \A m \in Markets, t \in Trade : Publishing(m, t) => Publishing(m, t)'
    /\ \A k \in Keys : /\ BarAt(k)'.trades = BarAt(k).trades
                       /\ BarAt(k)'.prob => BarAt(k).prob \/ k[2] = minute

(* A task that does not publish, before or after its step, leaves the      *)
(* publications of the others alone.                                       *)
LEMMA PublishingKept ==
    ASSUME TypeInv, NEW m \in Markets, NEW s \in Places, NEW q \in SUBSET Mine(m),
           Goto(m, s, q), s # "publish"
    PROVE  /\ \A x \in Markets, t \in Trade : Publishing(x, t)' => x # m /\ Publishing(x, t)
           /\ task[m] # "publish" =>
                 \A x \in Markets, t \in Trade : Publishing(x, t) => Publishing(x, t)'
<1>1. /\ task'[m] = s
      /\ \A x \in Markets \ {m} : task'[x] = task[x] /\ todo'[x] = todo[x]
  BY GotoType
<1>2. \A x \in Markets \ {m}, t \in Trade : Publishing(x, t)' <=> Publishing(x, t)
  BY <1>1, Zenon DEF Publishing, At
<1>3. \A t \in Trade : ~Publishing(m, t)'
  BY <1>1 DEF Publishing
<1>4. task[m] # "publish" => \A t \in Trade : ~Publishing(m, t)
  BY DEF Publishing
<1> QED
  BY <1>2, <1>3, <1>4, Zenon

(* Counters of failures *)
LEMMA FailCounts ==
    ASSUME TypeInv, NEW m \in Markets, Fail(m)
    PROVE  failures' \in 0 .. MaxFailures /\ failures' # 0 /\ Goto(m, "idle", {})
BY CollectorAssumption DEF TypeInv, TypeOK, Fail

(* _poll_loop *)
LEMMA StartRoundStep == TypeInv /\ StartRound => TypeInv' /\ Polls
<1> SUFFICES ASSUME TypeInv, StartRound PROVE TypeInv' /\ Polls
  OBVIOUS
<1>1. /\ UNCHANGED <<minute, happened, todo, stamp, seen, bars, tradeRows, barRows,
                     running, failures, restarts, lostIds, lostBars, oldTrades, oldBars>>
      /\ running
      /\ task' = [m \in Markets |-> IF m \in Gated THEN "tape" ELSE "book"]
      /\ \A m \in Markets : task[m] = "idle"
  BY Zenon DEF StartRound, tables, counters, lost, old
<1>2. task' \in [Markets -> Places]
  BY <1>1 DEF Places
<1>3. TypeInv'
  <2>1. BarsType'
    BY <1>1, PartTypes, Zenon DEF BarsType
  <2> QED
    BY <1>1, <1>2, <2>1, PartTypes, StepType
<1>4. \A m \in Markets, t \in Trade : ~Publishing(m, t) /\ ~Publishing(m, t)'
  BY <1>1 DEF Publishing
<1>5. \A k \in Keys : BarAt(k)' = BarAt(k)
  BY <1>1, Zenon DEF BarAt
<1> QED
  BY <1>1, <1>3, <1>4, <1>5, Zenon DEF Polls

(* A step of one task that neither writes nor counts a trade. *)
LEMMA TaskPolls ==
    ASSUME TypeInv, NEW m \in Markets, task[m] # "idle",
           NEW s \in Places \ {"publish"}, NEW q \in SUBSET Mine(m), Goto(m, s, q),
           UNCHANGED <<minute, happened, stamp, tradeRows, barRows, running, restarts,
                       oldTrades, oldBars>>,
           lostIds' \subseteq Trade, lostBars' \subseteq Keys,
           \/ seen' = seen
           \/ \E t \in DOMAIN happened \ Range(seen) : seen' = SeenAdd(seen, t),
           \/ bars' = bars
           \/ UpdateBook(<<m, minute>>),
           \/ failures' = failures /\ task[m] # "publish"
           \/ failures' \in (0 .. MaxFailures) \ {0}
    PROVE  TypeInv' /\ Polls
<1>1. running
  BY TaskRuns
<1>2. BarsType /\ failures \in 0 .. MaxFailures /\ <<m, minute>> \in Keys
  BY PartTypes DEF Keys
<1>3. /\ BarsType'
      /\ \A k \in Keys : /\ BarAt(k)'.trades = BarAt(k).trades
                         /\ BarAt(k)'.prob => BarAt(k).prob \/ k[2] = minute
  <2>1. CASE bars' = bars
    <3>1. \A k \in Keys : BarAt(k)' = BarAt(k)
      BY <2>1, Zenon DEF BarAt
    <3>2. BarsType'
      BY <1>2, <2>1, Zenon DEF BarsType
    <3> QED
      BY <3>1, <3>2, Zenon
  <2>2. CASE UpdateBook(<<m, minute>>)
    <3> DEFINE b == [BarAt(<<m, minute>>) EXCEPT !.prob = TRUE]
    <3>1. BarAt(<<m, minute>>) \in Bar
      BY <1>2, BarOfKey
    <3>2. b \in Bar /\ b.trades = BarAt(<<m, minute>>).trades
      BY <3>1 DEF Bar
    <3>3. /\ BarsType' /\ BarAt(<<m, minute>>)' = b
          /\ \A x \in Keys \ {<<m, minute>>} : BarAt(x)' = BarAt(x)
      BY <1>2, <2>2, <3>2, BarIsSet, Zenon DEF UpdateBook
    <3> HIDE DEF b
    <3>4. <<m, minute>>[2] = minute
      OBVIOUS
    <3> QED
      BY <3>2, <3>3, <3>4, Zenon
  <2> QED
    BY <2>1, <2>2, Zenon
<1>4. /\ task' \in [Markets -> Places] /\ todo' \in [Markets -> SUBSET Trade]
      /\ \A x \in Markets : todo'[x] \subseteq Mine(x)
  BY GotoType
<1>5. failures' \in 0 .. MaxFailures
  BY <1>2
<1>6. TypeInv'
  <2>1. stamp' \in [Markets -> 0 .. MaxMinute] /\ barRows' \in [Keys -> Seq(Seq(Trade))]
    BY PartTypes
  <2> QED
    BY <1>1, <1>3, <1>4, <1>5, <2>1, StepType
<1>7. /\ \A x \in Markets, t \in Trade : Publishing(x, t)' => Publishing(x, t)
      /\ task[m] # "publish" =>
            \A x \in Markets, t \in Trade : Publishing(x, t) => Publishing(x, t)'
  BY PublishingKept
<1>8. failures' = 0 => failures = 0 /\ task[m] # "publish"
  BY <1>2
<1> QED
  BY <1>1, <1>3, <1>6, <1>7, <1>8, Zenon DEF Polls

(* A new trade is written and offered for publication. *)
Writes(m, t) ==
    /\ running /\ UNCHANGED <<minute, happened, bars, barRows, running, failures, restarts,
                              oldTrades, oldBars>>
    /\ t \in Mine(m) /\ Id[t] \in DOMAIN happened \ Range(seen) /\ task[m] = "ingest"
    /\ seen' = SeenAdd(seen, Id[t]) /\ tradeRows' = Append(tradeRows, t)
    /\ t \notin Untimed => stamp'[m] = happened[t].minute
    /\ \A x \in Markets \ {m} : stamp'[x] = stamp[x]
    /\ \A x \in Markets, u \in Trade :
          Publishing(x, u)' <=> (x = m /\ u = t) \/ Publishing(x, u)

(* A published trade is counted in the bar of its minute. *)
Counts(m, t) ==
    /\ running
    /\ UNCHANGED <<minute, happened, stamp, seen, tradeRows, barRows, running,
                   failures, restarts, oldTrades, oldBars>>
    /\ Publishing(m, t)
    /\ \A x \in Markets, u \in Trade : Publishing(x, u)' <=> x # m /\ Publishing(x, u)
    /\ \E k \in Keys :
          /\ k = <<m, stamp[m]>>
          /\ BarAt(k)'.prob = BarAt(k).prob
          /\ BarAt(k)'.trades = Append(BarAt(k).trades, t)
          /\ \A x \in Keys : x # k => BarAt(x)' = BarAt(x)

(* The trade the tape is at is the newest of the tape. *)
LEMMA AtNewest ==
    ASSUME TypeInv, NEW m \in Markets
    PROVE  /\ \A t \in todo[m] : t \in Mine(m) /\ t \in Trade /\ t \in DOMAIN happened
           /\ \A t, u : At(m, t) /\ At(m, u) => t = u
<1>1. todo[m] \subseteq Mine(m) /\ Mine(m) \subseteq DOMAIN happened
      /\ DOMAIN happened \subseteq Trade
  BY PartTypes, TradesHappened
<1>2. todo[m] \subseteq Nat
  BY <1>1 DEF Trade
<1>3. ASSUME NEW t, NEW u, At(m, t), At(m, u) PROVE t = u
  BY <1>2, <1>3 DEF At
<1> QED
  BY <1>1, <1>3

(* _poll_probability, _poll_trades, and the end of a tape *)
LEMMA PollStep ==
    ASSUME TypeInv, NEW m \in Markets, PollProbability(m) \/ FetchTape(m) \/ EndTape(m)
    PROVE  TypeInv' /\ Polls
<1>1. {} \subseteq Mine(m) /\ Tape(m) \subseteq Mine(m)
  BY TradesHappened
<1>2. CASE PollProbability(m)
  <2>1. /\ task[m] = "book" /\ seen' = seen
        /\ UNCHANGED <<minute, happened, stamp, tradeRows, barRows, running, restarts,
                       oldTrades, oldBars>>
        /\ lostIds' \subseteq Trade /\ lostBars' \subseteq Keys
    BY <1>2, PartTypes, Zenon DEF PollProbability, tables, lost, old
  <2>2. CASE Fail(m) /\ UNCHANGED bars
    BY <1>1, <2>1, <2>2, FailCounts, TaskPolls DEF Places
  <2>3. CASE Goto(m, "tape", {}) /\ UNCHANGED failures
             /\ (UpdateBook(<<m, minute>>) \/ bars' = bars)
    BY <1>1, <2>1, <2>3, TaskPolls DEF Places
  <2> QED
    BY <1>2, <2>2, <2>3, Zenon DEF PollProbability
<1>3. CASE FetchTape(m)
  <2>1. /\ task[m] = "tape" /\ seen' = seen /\ bars' = bars
        /\ UNCHANGED <<minute, happened, stamp, tradeRows, barRows, running, restarts,
                       oldTrades, oldBars>>
        /\ lostIds' \subseteq Trade /\ lostBars' \subseteq Keys
    BY <1>3, PartTypes, Zenon DEF FetchTape, tables, lost, old
  <2>2. CASE Fail(m)
    BY <1>1, <2>1, <2>2, FailCounts, TaskPolls DEF Places
  <2>3. CASE Goto(m, "ingest", Tape(m)) /\ UNCHANGED failures
    BY <1>1, <2>1, <2>3, TaskPolls DEF Places
  <2> QED
    BY <1>3, <2>2, <2>3, Zenon DEF FetchTape
<1>4. CASE EndTape(m)
  <2>1. /\ task[m] = "ingest" /\ seen' = seen /\ bars' = bars /\ failures' = failures
        /\ Goto(m, "idle", {})
        /\ UNCHANGED <<minute, happened, stamp, tradeRows, barRows, running, restarts,
                       oldTrades, oldBars>>
        /\ lostIds' \subseteq Trade /\ lostBars' \subseteq Keys
    BY <1>4, PartTypes, Zenon DEF EndTape, tables, counters, lost, old
  <2> QED
    BY <1>1, <2>1, TaskPolls DEF Places
<1> QED
  BY <1>2, <1>3, <1>4

(* _ingest_trade up to its await *)
LEMMA IngestStep ==
    ASSUME TypeInv, NEW m \in Markets, IngestTrade(m)
    PROVE  TypeInv' /\ (Polls \/ \E t \in Mine(m) : Writes(m, t))
<1>1. /\ task[m] = "ingest" /\ bars' = bars
      /\ UNCHANGED <<minute, happened, barRows, running, restarts, oldTrades, oldBars>>
      /\ lostBars' \subseteq Keys /\ lostIds \subseteq Trade
  BY PartTypes, Zenon DEF IngestTrade, old
<1>2. PICK t \in todo[m] :
       /\ At(m, t)
       /\ \/ /\ SkipSeen(m, t)
             /\ UNCHANGED <<seen, stamp, tradeRows, failures, lostIds>>
          \/ /\ ~Known(t) /\ seen' = SeenAdd(seen, Id[t])
             /\ \/ Goto(m, "idle", {}) /\ UNCHANGED <<stamp, tradeRows, failures, lostIds>>
                \/ /\ Goto(m, "ingest", todo[m] \ {t})
                   /\ UNCHANGED <<stamp, tradeRows, failures, lostIds>>
                \/ /\ stamp' = [stamp EXCEPT ![m] =
                          IF t \in Untimed THEN minute ELSE happened[t].minute]
                   /\ tradeRows' = Append(tradeRows, t)
                   /\ Goto(m, "publish", todo[m])
                   /\ UNCHANGED <<failures, lostIds>>
                \/ /\ Fail(m) /\ lostIds' = lostIds \cup {Id[t]}
                   /\ UNCHANGED <<stamp, tradeRows>>
  BY Zenon DEF IngestTrade
<1>3. /\ t \in Mine(m) /\ t \in Trade /\ t \in DOMAIN happened
      /\ {} \subseteq Mine(m) /\ todo[m] \subseteq Mine(m) /\ todo[m] \ {t} \subseteq Mine(m)
  BY <1>2, AtNewest
<1>4. CASE SkipSeen(m, t) /\ UNCHANGED <<seen, stamp, tradeRows, failures, lostIds>>
  BY <1>1, <1>3, <1>4, TaskPolls DEF Places, SkipSeen
<1>5. ~Known(t) => Id[t] \in DOMAIN happened \ Range(seen) /\ Id[t] \in Trade
  BY <1>3, IdIsNew
<1>6. CASE ~Known(t) /\ seen' = SeenAdd(seen, Id[t])
           /\ Goto(m, "idle", {}) /\ UNCHANGED <<stamp, tradeRows, failures, lostIds>>
  BY <1>1, <1>3, <1>6, <1>5, TaskPolls DEF Places
<1>7. CASE ~Known(t) /\ seen' = SeenAdd(seen, Id[t])
           /\ Goto(m, "ingest", todo[m] \ {t})
           /\ UNCHANGED <<stamp, tradeRows, failures, lostIds>>
  BY <1>1, <1>3, <1>7, <1>5, TaskPolls DEF Places
<1>8. CASE ~Known(t) /\ seen' = SeenAdd(seen, Id[t])
           /\ Fail(m) /\ lostIds' = lostIds \cup {Id[t]} /\ UNCHANGED <<stamp, tradeRows>>
  <2>1. lostIds' \subseteq Trade
    BY <1>1, <1>5, <1>8
  <2> QED
    BY <1>1, <1>3, <1>5, <1>8, <2>1, FailCounts, TaskPolls DEF Places
<1>9. CASE /\ ~Known(t) /\ seen' = SeenAdd(seen, Id[t])
           /\ stamp' = [stamp EXCEPT ![m] =
                  IF t \in Untimed THEN minute ELSE happened[t].minute]
           /\ tradeRows' = Append(tradeRows, t)
           /\ Goto(m, "publish", todo[m])
           /\ UNCHANGED <<failures, lostIds>>
  <2>1. running
    BY <1>1, TaskRuns
  <2>2. /\ task' \in [Markets -> Places] /\ todo' \in [Markets -> SUBSET Trade]
        /\ \A x \in Markets : todo'[x] \subseteq Mine(x)
        /\ task'[m] = "publish" /\ todo'[m] = todo[m]
        /\ \A x \in Markets \ {m} : task'[x] = task[x] /\ todo'[x] = todo[x]
    BY <1>3, <1>9, GotoType DEF Places
  <2>3. /\ stamp' \in [Markets -> 0 .. MaxMinute]
        /\ t \notin Untimed => stamp'[m] = happened[t].minute
        /\ \A x \in Markets \ {m} : stamp'[x] = stamp[x]
    <3>1. stamp \in [Markets -> 0 .. MaxMinute] /\ minute \in 0 .. MaxMinute
      BY PartTypes
    <3>2. happened[t].minute \in 0 .. MaxMinute
      BY <1>3, TradesHappened
    <3> QED
      BY <1>9, <3>1, <3>2
  <2>4. TypeInv'
    <3>1. /\ BarsType' /\ barRows' \in [Keys -> Seq(Seq(Trade))] /\ failures' \in 0 .. MaxFailures
          /\ lostIds' \subseteq Trade
      BY <1>1, <1>9, PartTypes, Zenon DEF BarsType
    <3>2. Id[t] \in DOMAIN happened \ Range(seen)
      BY <1>9, <1>5
    <3> QED
      BY <1>1, <1>3, <1>9, <2>1, <2>2, <2>3, <3>1, <3>2, StepType
  <2>5. \A x \in Markets, u \in Trade :
           Publishing(x, u)' <=> (x = m /\ u = t) \/ Publishing(x, u)
    <3>1. \A x \in Markets \ {m}, u \in Trade : Publishing(x, u)' <=> Publishing(x, u)
      BY <2>2, Zenon DEF Publishing, At
    <3>2. \A u \in Trade : Publishing(m, u)' <=> At(m, u)
      BY <2>2, Zenon DEF Publishing, At
    <3>3. \A u \in Trade : At(m, u) <=> u = t
      BY <1>2, AtNewest
    <3>4. \A u \in Trade : ~Publishing(m, u)
      BY <1>1 DEF Publishing
    <3> QED
      BY <3>1, <3>2, <3>3, <3>4, Zenon
  <2>6. Writes(m, t)
    BY <1>1, <1>3, <1>9, <1>5, <2>1, <2>3, <2>5, Zenon DEF Writes
  <2> QED
    BY <1>3, <2>4, <2>6
<1> QED
  BY <1>2, <1>4, <1>6, <1>7, <1>9, <1>8, Zenon

(* _ingest_trade after its await *)
LEMMA PublishStep ==
    ASSUME TypeInv, NEW m \in Markets, Publish(m)
    PROVE  TypeInv' /\ (Polls \/ \E t \in Mine(m) : Counts(m, t))
<1>1. /\ task[m] = "publish"
      /\ UNCHANGED <<minute, happened, stamp, seen, tradeRows, barRows, running, restarts,
                     oldTrades, oldBars>>
      /\ lostIds' \subseteq Trade /\ lostBars' \subseteq Keys
  BY PartTypes, Zenon DEF Publish, tables, lost, old
<1>2. CASE Fail(m) /\ UNCHANGED bars
  <2>1. {} \subseteq Mine(m)
    OBVIOUS
  <2> QED
    BY <1>1, <1>2, <2>1, FailCounts, TaskPolls DEF Places
<1>3. CASE CountTrade(m)
  <2>1. PICK t \in todo[m] : /\ At(m, t) /\ AddTrade(<<m, stamp[m]>>, t)
                             /\ Goto(m, "ingest", todo[m] \ {t})
    BY <1>3, Zenon DEF CountTrade
  <2>2. /\ failures' = failures /\ running
        /\ BarsType /\ barRows \in [Keys -> Seq(Seq(Trade))]
        /\ stamp \in [Markets -> 0 .. MaxMinute] /\ failures \in 0 .. MaxFailures
    BY <1>1, <1>3, TaskRuns, PartTypes, Zenon DEF CountTrade
  <2>3. t \in Mine(m) /\ t \in Trade /\ todo[m] \ {t} \subseteq Mine(m)
    BY <2>1, AtNewest
  <2>4. PICK k \in Keys : k = <<m, stamp[m]>>
    <3>1. <<m, stamp[m]>> \in Keys
      BY <2>2 DEF Keys
    <3> QED
      BY <3>1, Zenon
  <2> DEFINE b == [BarAt(k) EXCEPT !.trades = Append(@, t)]
  <2>5. b \in Bar /\ b.prob = BarAt(k).prob /\ b.trades = Append(BarAt(k).trades, t)
    <3>1. BarAt(k) \in Bar
      BY <2>2, <2>4, BarOfKey, Zenon
    <3>2. PICK bar \in Bar : bar = BarAt(k)
      BY <3>1, Zenon
    <3>3. bar.trades \in Seq(Trade)
      BY DEF Bar
    <3>4. Append(bar.trades, t) \in Seq(Trade)
      BY <2>3, <3>3, AppendProperties
    <3>5. /\ [bar EXCEPT !.trades = Append(@, t)] \in Bar
          /\ [bar EXCEPT !.trades = Append(@, t)].prob = bar.prob
          /\ [bar EXCEPT !.trades = Append(@, t)].trades = Append(bar.trades, t)
      BY <3>4 DEF Bar
    <3> QED
      BY <3>2, <3>5, Zenon
  <2>6. SetBar(k, b)
    BY <2>1, <2>4, Zenon DEF AddTrade
  <2> HIDE DEF b
  <2>7. /\ BarsType' /\ BarAt(k)' = b
        /\ \A x \in Keys \ {k} : BarAt(x)' = BarAt(x)
    BY <2>2, <2>4, <2>5, <2>6, BarIsSet, Zenon
  <2>8. /\ task' \in [Markets -> Places] /\ todo' \in [Markets -> SUBSET Trade]
        /\ \A x \in Markets : todo'[x] \subseteq Mine(x)
        /\ task'[m] = "ingest"
        /\ \A x \in Markets \ {m} : task'[x] = task[x] /\ todo'[x] = todo[x]
    BY <2>1, <2>3, GotoType DEF Places
  <2>9. TypeInv'
    BY <1>1, <2>2, <2>7, <2>8, StepType
  <2>10. \A x \in Markets, u \in Trade : Publishing(x, u)' <=> x # m /\ Publishing(x, u)
    <3>1. \A x \in Markets \ {m}, u \in Trade : Publishing(x, u)' <=> Publishing(x, u)
      BY <2>8, Zenon DEF Publishing, At
    <3>2. \A u \in Trade : ~Publishing(m, u)'
      BY <2>8 DEF Publishing
    <3> QED
      BY <3>1, <3>2, Zenon
  <2>11. Publishing(m, t)
    BY <1>1, <2>1, Zenon DEF Publishing
  <2>12. /\ k \in Keys /\ BarAt(k)'.prob = BarAt(k).prob
         /\ BarAt(k)'.trades = Append(BarAt(k).trades, t)
         /\ \A x \in Keys : x # k => BarAt(x)' = BarAt(x)
    BY <2>4, <2>5, <2>7, Zenon
  <2>13. Counts(m, t)
    BY <1>1, <2>2, <2>4, <2>10, <2>11, <2>12, Zenon DEF Counts
  <2> QED
    BY <2>3, <2>9, <2>13, Zenon
<1> QED
  BY <1>2, <1>3, Zenon DEF Publish

(* Bars leave memory, those of done for the table: of past minutes while   *)
(* the collector runs, or any when it stops.                               *)
Flushes(done, gone) ==
    /\ running /\ UNCHANGED <<minute, happened, seen, stamp, tradeRows, restarts,
                              oldTrades, oldBars>>
    /\ failures' = 0 => failures = 0
    /\ WriteBars(done, gone)
    /\ \/ running' /\ done \cup gone \subseteq Due /\ UNCHANGED <<task, todo>>
       \/ ~running' /\ \A m \in Markets, t \in Trade : ~Publishing(m, t)'

(* _flush_due_bars writes some of the due bars, and may lose one. *)
LEMMA SomeFlushed ==
    ASSUME TypeInv, NEW due \in SUBSET DOMAIN bars, NEW again, FlushBars(due, again)
    PROVE  /\ BarsType' /\ barRows' \in [Keys -> Seq(Seq(Trade))]
           /\ lostBars' \subseteq Keys /\ failures' \in 0 .. MaxFailures
           /\ failures' = 0 => failures = 0
           /\ \E done, gone \in SUBSET DOMAIN bars :
                 WriteBars(done, gone) /\ done \cup gone \subseteq due
<1>1. /\ failures \in 0 .. MaxFailures /\ MaxFailures \in Nat
      /\ lostBars \subseteq Keys /\ DOMAIN bars \subseteq Keys
  BY PartTypes, CollectorAssumption DEF BarsType
<1>2. CASE WriteBars(due, {}) /\ UNCHANGED <<failures, lostBars>>
  <2>1. {} \in SUBSET DOMAIN bars /\ due \cup {} \subseteq due
    OBVIOUS
  <2>2. BarsType' /\ barRows' \in [Keys -> Seq(Seq(Trade))]
    BY <1>2, <2>1, BarsAreFlushed, Zenon DEF TypeInv
  <2> QED
    BY <1>1, <1>2, <2>1, <2>2, Zenon
<1>3. ASSUME NEW k \in due, NEW done \in SUBSET due,
             failures < MaxFailures, failures' = failures + 1, WriteBars(done, {k}),
             lostBars' = lostBars \cup IF again THEN {k} ELSE due \ done
      PROVE  /\ BarsType' /\ barRows' \in [Keys -> Seq(Seq(Trade))]
             /\ lostBars' \subseteq Keys /\ failures' \in 0 .. MaxFailures
             /\ failures' = 0 => failures = 0
             /\ \E d, gone \in SUBSET DOMAIN bars :
                   WriteBars(d, gone) /\ d \cup gone \subseteq due
  <2>1. /\ {k} \in SUBSET DOMAIN bars /\ done \in SUBSET DOMAIN bars
        /\ done \cup {k} \subseteq due
    OBVIOUS
  <2>2. BarsType' /\ barRows' \in [Keys -> Seq(Seq(Trade))]
    BY <1>3, <2>1, BarsAreFlushed, Zenon DEF TypeInv
  <2>3. lostBars' \subseteq Keys
    BY <1>1, <1>3
  <2>4. failures' \in 0 .. MaxFailures /\ failures' # 0
    BY <1>1, <1>3
  <2> QED
    BY <1>3, <2>1, <2>2, <2>3, <2>4, Zenon
<1> QED
  BY <1>2, <1>3, Zenon DEF FlushBars

(* _flush_bars_loop *)
LEMMA FlushStep ==
    TypeInv /\ FlushDueBars =>
        TypeInv' /\ \E done, gone \in SUBSET DOMAIN bars : Flushes(done, gone)
<1> SUFFICES ASSUME TypeInv, FlushDueBars
             PROVE  TypeInv' /\ \E done, gone \in SUBSET DOMAIN bars : Flushes(done, gone)
  OBVIOUS
<1>1. /\ running /\ FlushBars(Due, TRUE)
      /\ UNCHANGED <<minute, happened, task, todo, stamp, seen, tradeRows, running,
                     restarts, lostIds, oldTrades, oldBars>>
  BY Zenon DEF FlushDueBars, clients, old
<1>2. Due \in SUBSET DOMAIN bars
  BY DEF Due
<1>3. /\ BarsType' /\ barRows' \in [Keys -> Seq(Seq(Trade))]
      /\ lostBars' \subseteq Keys /\ failures' \in 0 .. MaxFailures
      /\ failures' = 0 => failures = 0
      /\ \E done, gone \in SUBSET DOMAIN bars :
            WriteBars(done, gone) /\ done \cup gone \subseteq Due
  BY <1>1, <1>2, SomeFlushed, Zenon
<1>4. TypeInv'
  BY <1>1, <1>3, PartTypes, StepType
<1> QED
  BY <1>1, <1>3, <1>4, Zenon DEF Flushes

(* stop() *)
LEMMA StopStep ==
    TypeInv /\ Stop =>
        TypeInv' /\ \E done, gone \in SUBSET DOMAIN bars : Flushes(done, gone)
<1> SUFFICES ASSUME TypeInv, Stop
             PROVE  TypeInv' /\ \E done, gone \in SUBSET DOMAIN bars : Flushes(done, gone)
  OBVIOUS
<1>1. /\ running /\ running' = FALSE /\ FlushBars(DOMAIN bars, FALSE)
      /\ task' = [m \in Markets |-> "idle"] /\ todo' = [m \in Markets |-> {}]
      /\ UNCHANGED <<minute, happened, stamp, seen, tradeRows, restarts, lostIds,
                     oldTrades, oldBars>>
  BY Zenon DEF Stop, old
<1>2. /\ BarsType' /\ barRows' \in [Keys -> Seq(Seq(Trade))]
      /\ lostBars' \subseteq Keys /\ failures' \in 0 .. MaxFailures
      /\ failures' = 0 => failures = 0
      /\ \E done, gone \in SUBSET DOMAIN bars : WriteBars(done, gone)
  BY <1>1, SomeFlushed, Zenon
<1>3. /\ \A m \in Markets : task'[m] = "idle" /\ todo'[m] = {}
      /\ task' \in [Markets -> Places] /\ todo' \in [Markets -> SUBSET Trade]
  BY <1>1 DEF Places
<1>4. TypeOK'
  BY <1>1, <1>2, <1>3, Zenon DEF TypeInv, TypeOK, BarsType, Bar, Places
<1>5. KnownInv'
  <2>1. \A m \in Markets : todo'[m] \subseteq Mine(m)'
    BY <1>3
  <2> QED
    BY <1>1, <2>1, Zenon DEF TypeInv, KnownInv
<1>6. StoppedInv'
  BY <1>3 DEF StoppedInv
<1>7. \A m \in Markets, t \in Trade : ~Publishing(m, t)'
  BY <1>3 DEF Publishing
<1> QED
  BY <1>1, <1>2, <1>4, <1>5, <1>6, <1>7, Zenon DEF TypeInv, Flushes

(* The memory of the process is gone. *)
Forgets ==
    /\ restarts' # 0
    /\ UNCHANGED <<minute, happened, tradeRows, barRows>>
    /\ oldTrades' = Len(tradeRows) /\ oldBars' = [k \in Keys |-> Len(barRows[k])]
    /\ \A k \in Keys : BarAt(k)' = NewBar
    /\ \A m \in Markets, t \in Trade : ~Publishing(m, t)'

(* A new process *)
LEMMA RestartStep == TypeInv /\ Restart => TypeInv' /\ Forgets
<1> SUFFICES ASSUME TypeInv, Restart PROVE TypeInv' /\ Forgets
  OBVIOUS
<1>1. /\ running' = TRUE /\ seen' = <<>> /\ bars' = NoBars
      /\ task' = [m \in Markets |-> "idle"] /\ todo' = [m \in Markets |-> {}]
      /\ stamp' = [m \in Markets |-> 0]
      /\ oldTrades' = Len(tradeRows) /\ oldBars' = [k \in Keys |-> Len(barRows[k])]
      /\ UNCHANGED <<minute, happened, tradeRows, barRows, failures, lostIds, lostBars>>
  BY Zenon DEF Restart, tables, lost
<1>2. restarts' \in 0 .. MaxRestarts /\ restarts' # 0
  BY CollectorAssumption DEF Restart, TypeInv, TypeOK
<1>3. /\ \A m \in Markets : task'[m] = "idle" /\ todo'[m] = {}
      /\ task' \in [Markets -> Places] /\ todo' \in [Markets -> SUBSET Trade]
      /\ stamp' \in [Markets -> 0 .. MaxMinute]
  BY <1>1, CollectorAssumption DEF Places
<1>4. /\ seen' \in Seq(Trade) /\ Len(seen') <= DedupSize
      /\ Range(seen') = {} /\ IsInjective(seen')
  BY <1>1, EmptySeq, CollectorAssumption DEF Range, IsInjective
<1>5. DOMAIN bars' = {}
  BY <1>1 DEF NoBars
<1>6. oldTrades' \in Nat /\ oldBars' \in [Keys -> Nat]
  <2>1. tradeRows \in Seq(Trade) /\ \A k \in Keys : barRows[k] \in Seq(Seq(Trade))
    BY DEF TypeInv, TypeOK
  <2>2. Len(tradeRows) \in Nat /\ \A k \in Keys : Len(barRows[k]) \in Nat
    BY <2>1, LenProperties, Zenon
  <2> QED
    BY <1>1, <2>2, Zenon
<1>7. TypeOK'
  BY <1>1, <1>2, <1>3, <1>4, <1>5, <1>6, Zenon DEF TypeInv, TypeOK, Places
<1>8. KnownInv'
  BY <1>1, <1>2, <1>3, <1>4, Zenon DEF TypeInv, KnownInv
<1>9. \A k \in Keys : BarAt(k)' = NewBar
  BY <1>5, Zenon DEF BarAt
<1>10. \A m \in Markets, t \in Trade : ~Publishing(m, t)'
  BY <1>3 DEF Publishing
<1> QED
  BY <1>1, <1>2, <1>7, <1>8, <1>9, <1>10, Zenon DEF TypeInv, StoppedInv, Forgets

(* Time passes or trades happen: the collector does nothing. *)
Clocks ==
    /\ UNCHANGED <<task, todo, stamp, seen, bars, tradeRows, barRows, running,
                   failures, restarts, oldTrades, oldBars>>
    /\ minute' = minute \/ minute' = minute + 1
    /\ Len(happened') \in Nat /\ Len(happened') >= Len(happened)
    /\ \A t \in DOMAIN happened : t \in DOMAIN happened' /\ happened'[t] = happened[t]

(* Time and the tape move alone. *)
LEMMA WorldStep ==
    TypeInv /\ (Tick \/ (\E m \in Markets : Happen(m)) \/ UNCHANGED vars) => TypeInv' /\ Clocks
<1>1. ASSUME TypeInv, Tick \/ UNCHANGED vars PROVE TypeInv' /\ Clocks
  <2>1. /\ UNCHANGED <<happened, task, todo, stamp, seen, bars, tradeRows, barRows, running,
                       failures, restarts, lostIds, lostBars, oldTrades, oldBars>>
        /\ minute' = minute \/ minute' = minute + 1
    BY <1>1, Zenon DEF Tick, vars, clients, tables, counters, lost, old
  <2>2. TypeInv'
    <3>1. CASE Tick
      BY <1>1, <3>1, WorldType
    <3>2. CASE UNCHANGED vars
      <4>1. minute' = minute
        BY <3>2, Zenon DEF vars
      <4>2. TypeOK'
        BY <1>1, <2>1, <4>1, Zenon DEF TypeInv, TypeOK
      <4>3. KnownInv'
        BY <1>1, <2>1, <4>1, Zenon DEF TypeInv, KnownInv, Mine
      <4>4. StoppedInv'
        BY <1>1, <2>1, Zenon DEF TypeInv, StoppedInv
      <4> QED
        BY <4>2, <4>3, <4>4 DEF TypeInv
    <3> QED
      BY <1>1, <3>1, <3>2
  <2>3. Len(happened') \in Nat /\ Len(happened') >= Len(happened)
    BY <1>1, <2>1, TradesHappened
  <2> QED
    BY <2>1, <2>2, <2>3, Zenon DEF Clocks
<1>2. ASSUME TypeInv, NEW m \in Markets, Happen(m) PROVE TypeInv' /\ Clocks
  <2>1. /\ UNCHANGED <<minute, task, todo, stamp, seen, bars, tradeRows, barRows, running,
                       failures, restarts, oldTrades, oldBars>>
        /\ happened' = Append(happened, [market |-> m, minute |-> minute])
    BY <1>2, Zenon DEF Happen, clients, tables, counters, old
  <2>2. /\ happened \in Seq([market : Markets, minute : 0 .. MaxMinute])
        /\ [market |-> m, minute |-> minute] \in [market : Markets, minute : 0 .. MaxMinute]
        /\ DOMAIN happened = 1 .. Len(happened) /\ Len(happened) \in Nat
    BY <1>2, TradesHappened DEF TypeInv, TypeOK
  <2>3. /\ Len(happened') = Len(happened) + 1 /\ DOMAIN happened' = 1 .. Len(happened) + 1
        /\ \A t \in DOMAIN happened : happened'[t] = happened[t]
    BY <2>1, <2>2, AppendElements
  <2>4. /\ Len(happened') \in Nat /\ Len(happened') >= Len(happened)
        /\ \A t \in DOMAIN happened : t \in DOMAIN happened' /\ happened'[t] = happened[t]
    BY <2>2, <2>3
  <2>5. TypeInv'
    BY <1>2, WorldType
  <2> QED
    BY <2>1, <2>4, <2>5, Zenon DEF Clocks
<1> QED
  BY <1>1, <1>2, Zenon

Shape == \/ Clocks \/ Polls \/ Forgets
         \/ \E m \in Markets : \E t \in Mine(m) : Writes(m, t) \/ Counts(m, t)
         \/ \E done, gone \in SUBSET DOMAIN bars : Flushes(done, gone)

(* Every step keeps the types and has one of the shapes. *)
LEMMA Shaped == TypeInv /\ [Next]_vars => TypeInv' /\ Shape
<1> SUFFICES ASSUME TypeInv, [Next]_vars PROVE TypeInv' /\ Shape
  OBVIOUS
<1>1. CASE Tick \/ (\E m \in Markets : Happen(m)) \/ UNCHANGED vars
  BY <1>1, WorldStep, Zenon DEF Shape
<1>2. CASE StartRound
  BY <1>2, StartRoundStep, Zenon DEF Shape
<1>3. CASE FlushDueBars
  BY <1>3, FlushStep, Zenon DEF Shape
<1>4. CASE Stop
  BY <1>4, StopStep, Zenon DEF Shape
<1>5. CASE Restart
  BY <1>5, RestartStep, Zenon DEF Shape
<1>6. ASSUME NEW m \in Markets, TaskStep(m) PROVE TypeInv' /\ Shape
  BY <1>6, PollStep, IngestStep, PublishStep, Zenon DEF TaskStep, OwnStep, Shape
<1> QED
  BY <1>1, <1>2, <1>3, <1>4, <1>5, <1>6, Zenon DEF Next

(* The collector starts with nothing known. *)
LEMMA InitType == Init => TypeInv
<1> SUFFICES ASSUME Init PROVE TypeInv
  OBVIOUS
<1>1. /\ minute = 0 /\ happened = <<>> /\ seen = <<>> /\ bars = NoBars /\ tradeRows = <<>>
      /\ running = TRUE /\ failures = 0 /\ restarts = 0
      /\ task = [m \in Markets |-> "idle"] /\ todo = [m \in Markets |-> {}]
      /\ stamp = [m \in Markets |-> 0] /\ barRows = [k \in Keys |-> <<>>]
      /\ lostIds = {} /\ lostBars = {} /\ oldTrades = 0 /\ oldBars = [k \in Keys |-> 0]
  BY Zenon DEF Init
<1>2. /\ happened \in Seq([market : Markets, minute : 0 .. MaxMinute])
      /\ seen \in Seq(Trade) /\ tradeRows \in Seq(Trade)
      /\ Len(seen) = 0 /\ Len(happened) = 0
  BY <1>1, EmptySeq
<1>3. /\ minute \in 0 .. MaxMinute /\ failures \in 0 .. MaxFailures
      /\ restarts \in 0 .. MaxRestarts /\ Len(seen) <= DedupSize /\ Len(happened) <= MaxTrades
  BY <1>1, <1>2, CollectorAssumption
<1>4. /\ \A m \in Markets : task[m] = "idle" /\ todo[m] = {}
      /\ task \in [Markets -> Places] /\ todo \in [Markets -> SUBSET Trade]
      /\ stamp \in [Markets -> 0 .. MaxMinute]
  BY <1>1, CollectorAssumption DEF Places
<1>5. barRows \in [Keys -> Seq(Seq(Trade))]
  <2>1. <<>> \in Seq(Seq(Trade))
    BY EmptySeq
  <2> QED
    BY <1>1, <2>1, Zenon
<1>6. DOMAIN bars = {}
  BY <1>1 DEF NoBars
<1>7. TypeOK
  <2>1. /\ lostIds \subseteq Trade /\ lostBars \subseteq Keys
        /\ oldTrades \in Nat /\ oldBars \in [Keys -> Nat]
    BY <1>1
  <2> QED
    BY <1>1, <1>2, <1>3, <1>4, <1>5, <1>6, <2>1, Zenon DEF TypeOK, Places
<1>8. DOMAIN happened = {} /\ Range(seen) = {} /\ Range(tradeRows) = {} /\ IsInjective(seen)
  BY <1>1 DEF Range, IsInjective
<1>9. KnownInv
  BY <1>1, <1>3, <1>4, <1>8, Zenon DEF KnownInv
<1> QED
  BY <1>4, <1>7, <1>9, Zenon DEF TypeInv, StoppedInv

(* TypeInv holds in every state. *)
LEMMA TypeInvariant == Spec => []TypeInv
BY InitType, Shaped, PTL DEF Spec

(* The dedup set never exceeds its size, and tasks, bars, tables and       *)
(* clocks hold what they should, whatever fails.                           *)
THEOREM TypeCorrect == Spec => []TypeOK
BY TypeInvariant, PTL DEF TypeInv

------------------------------------------------------------------------------
(* Every trade is written once *)

(* The dedup set has room for all that happened.                           *)
Room == Len(happened) <= DedupSize

(* The dedup set never had to forget: it has room, and is the one of the   *)
(* first process.                                                          *)
Remembers == restarts = 0 /\ Room

(* What is being published was written, and its minute noted. *)
PublishedInv ==
    \A m \in Markets, t \in Trade : Publishing(m, t) =>
        /\ t \in Range(tradeRows)
        /\ t \notin Untimed => stamp[m] = happened[t].minute

(* What this process wrote. *)
OwnRows == {i \in DOMAIN tradeRows : i > oldTrades}

WrittenInv == /\ PublishedInv
              /\ Room => \A i \in OwnRows : Id[tradeRows[i]] \in Range(seen)
              /\ TradeWrittenOnce

(* As long as the set has room, adding an id forgets none: the ids in it   *)
(* are distinct and one of those that happened is not among them.          *)
LEMMA NothingForgotten ==
    ASSUME TypeInv, Room, NEW t \in DOMAIN happened \ Range(seen)
    PROVE  Range(SeenAdd(seen, t)) = Range(seen) \cup {t}
<1>1. /\ seen \in Seq(Trade) /\ IsInjective(seen) /\ Len(seen) <= DedupSize
      /\ Range(seen) \subseteq DOMAIN happened
  BY Zenon DEF TypeInv, TypeOK, KnownInv
<1>2. /\ Len(happened) \in Nat /\ DOMAIN happened = 1 .. Len(happened)
      /\ DOMAIN happened \subseteq Trade
  BY TradesHappened
<1>3. t \in 1 .. Len(happened) /\ t \in Trade /\ t \notin Range(seen)
  BY <1>2
<1>4. Len(seen) < Len(happened)
  BY <1>1, <1>2, <1>3, RoomForOne
<1>5. Len(seen) < DedupSize
  BY <1>1, <1>2, <1>4, LenProperties, CollectorAssumption DEF Room
<1> QED
  BY <1>1, <1>3, <1>5, SeenAddRemembers, Zenon

(* While the first process remembers, an id that is not in the set is that *)
(* of no row.                                                              *)
LEMMA NewIsUnwritten ==
    ASSUME TypeInv, WrittenInv, Remembers, NEW t, Id[t] \notin Range(seen)
    PROVE  t \notin Range(tradeRows)
<1>1. oldTrades = 0 /\ tradeRows \in Seq(Trade)
  BY DEF TypeInv, TypeOK, KnownInv, Remembers
<1>2. \A i \in DOMAIN tradeRows : i > oldTrades
  BY <1>1, LenProperties
<1>3. \A i \in DOMAIN tradeRows : Id[tradeRows[i]] \in Range(seen)
  BY <1>2, Zenon DEF WrittenInv, Remembers, OwnRows
<1> QED
  BY <1>3 DEF Range

(* A poll that keeps a trade it has seen forgets nothing. *)
LEMMA PollsWritten == ASSUME TypeInv, WrittenInv, Polls PROVE WrittenInv'
<1>1. UNCHANGED <<happened, restarts, tradeRows, oldTrades>> /\ (Room' <=> Room)
  BY Zenon DEF Polls, Room
<1>2. PublishedInv'
  BY <1>1, Zenon DEF WrittenInv, PublishedInv, Polls
<1>3. ASSUME Room PROVE Range(seen) \subseteq Range(seen')
  <2>1. CASE seen' = seen
    BY <2>1
  <2>2. ASSUME NEW t \in DOMAIN happened \ Range(seen), seen' = SeenAdd(seen, t)
        PROVE  Range(seen) \subseteq Range(seen')
    <3>1. Range(SeenAdd(seen, t)) = Range(seen) \cup {t}
      BY <1>3, NothingForgotten
    <3> QED
      BY <2>2, <3>1
  <2> QED
    BY <2>1, <2>2, Zenon DEF Polls
<1>4. Room' => \A i \in OwnRows' : Id[tradeRows'[i]] \in Range(seen')
  <2>1. OwnRows' = OwnRows
    BY <1>1, Zenon DEF OwnRows
  <2> QED
    BY <1>1, <1>3, <2>1 DEF WrittenInv
<1>5. TradeWrittenOnce'
  BY <1>1, Zenon DEF WrittenInv, TradeWrittenOnce
<1> QED
  BY <1>2, <1>4, <1>5 DEF WrittenInv

(* A trade is written only when the set does not know it, and at once joins it. *)
LEMMA WritesWritten ==
    ASSUME TypeInv, WrittenInv, NEW m \in Markets, NEW t \in Mine(m), Writes(m, t)
    PROVE  WrittenInv'
<1>1. /\ UNCHANGED <<happened, restarts, oldTrades>> /\ (Room' <=> Room)
      /\ seen' = SeenAdd(seen, Id[t]) /\ tradeRows' = Append(tradeRows, t)
      /\ Id[t] \in DOMAIN happened \ Range(seen)
  BY Zenon DEF Writes, Room
<1>2. t \in Trade /\ t \in DOMAIN happened /\ tradeRows \in Seq(Trade)
  BY TradesHappened DEF TypeInv, TypeOK
<1>3. /\ Range(tradeRows') = Range(tradeRows) \cup {t}
      /\ DOMAIN tradeRows' = 1 .. Len(tradeRows) + 1
      /\ \A i \in DOMAIN tradeRows : tradeRows'[i] = tradeRows[i]
      /\ tradeRows'[Len(tradeRows) + 1] = t
  BY <1>1, <1>2, AppendElements
<1>4. PublishedInv'
  <2>1. ASSUME NEW x \in Markets, NEW u \in Trade, Publishing(x, u)'
        PROVE  u \in Range(tradeRows') /\ (u \notin Untimed => stamp'[x] = happened'[u].minute)
    <3>1. CASE x = m /\ u = t
      BY <1>1, <1>3, <3>1 DEF Writes
    <3>2. CASE Publishing(x, u)
      <4>1. x # m
        BY <3>2 DEF Writes, Publishing
      <4>2. stamp'[x] = stamp[x]
        BY <4>1 DEF Writes
      <4> QED
        BY <1>1, <1>3, <3>2, <4>2 DEF WrittenInv, PublishedInv
    <3> QED
      BY <2>1, <3>1, <3>2, Zenon DEF Writes
  <2> QED
    BY <2>1, Zenon DEF PublishedInv
<1>5. ASSUME Room
      PROVE  /\ \A i \in OwnRows' : Id[tradeRows'[i]] \in Range(seen')
             /\ \A i, j \in OwnRows' : Id[tradeRows'[i]] = Id[tradeRows'[j]] => i = j
  <2>1. Range(seen') = Range(seen) \cup {Id[t]}
    BY <1>1, <1>5, NothingForgotten
  <2>2. \A i \in OwnRows : Id[tradeRows[i]] \in Range(seen)
    BY <1>5 DEF WrittenInv
  <2>3. \A i, j \in OwnRows : Id[tradeRows[i]] = Id[tradeRows[j]] => i = j
    BY <1>5, Zenon DEF WrittenInv, TradeWrittenOnce, Room, OwnRows
  <2>4. DOMAIN tradeRows = 1 .. Len(tradeRows)
    BY <1>2, LenProperties
  <2>5. \A i \in OwnRows' : \/ i \in OwnRows /\ tradeRows'[i] = tradeRows[i]
                            \/ i = Len(tradeRows) + 1 /\ tradeRows'[i] = t
    BY <1>1, <1>2, <1>3, <2>4, LenProperties DEF OwnRows
  <2>6. \A i \in OwnRows : Id[tradeRows[i]] # Id[t]
    BY <1>1, <2>2
  <2>7. \A i \in OwnRows' : Id[tradeRows'[i]] \in Range(seen')
    BY <2>1, <2>2, <2>5
  <2>8. \A i, j \in OwnRows' : Id[tradeRows'[i]] = Id[tradeRows'[j]] => i = j
    BY <2>3, <2>5, <2>6, Zenon
  <2> QED
    BY <2>7, <2>8
<1>6. TradeWrittenOnce'
  BY <1>1, <1>5, Zenon DEF TradeWrittenOnce, Room, OwnRows
<1> QED
  BY <1>1, <1>4, <1>5, <1>6, Zenon DEF WrittenInv

(* Steps that leave the dedup set and the trade rows alone. *)
LEMMA OthersWritten ==
    ASSUME TypeInv, WrittenInv, UNCHANGED <<seen, tradeRows, oldTrades>>,
           Room' => Room,
           \A t \in DOMAIN happened : happened'[t] = happened[t],
           \A m \in Markets, t \in Trade :
               Publishing(m, t)' => Publishing(m, t) /\ stamp'[m] = stamp[m]
    PROVE  WrittenInv'
<1>1. PublishedInv'
  <2>1. ASSUME NEW m \in Markets, NEW t \in Trade, Publishing(m, t)'
        PROVE  t \in Range(tradeRows') /\ (t \notin Untimed => stamp'[m] = happened'[t].minute)
    <3>1. Publishing(m, t) /\ stamp'[m] = stamp[m]
      BY <2>1, Zenon
    <3>2. t \in Range(tradeRows) /\ (t \notin Untimed => stamp[m] = happened[t].minute)
      BY <3>1, Zenon DEF WrittenInv, PublishedInv
    <3>3. t \in DOMAIN happened
      BY <3>2 DEF TypeInv, KnownInv
    <3> QED
      BY <3>1, <3>2, <3>3
  <2> QED
    BY <2>1, Zenon DEF PublishedInv
<1>2. TradeWrittenOnce'
  BY Zenon DEF WrittenInv, TradeWrittenOnce, Room
<1>3. Room' => \A i \in OwnRows' : Id[tradeRows'[i]] \in Range(seen')
  <2>1. OwnRows' = OwnRows
    BY Zenon DEF OwnRows
  <2> QED
    BY <2>1, Zenon DEF WrittenInv
<1> QED
  BY <1>1, <1>2, <1>3, Zenon DEF WrittenInv

(* The tape only grows: a set that has room had it before. *)
LEMMA ClocksRoom == TypeInv /\ Clocks => (Room' => Room)
<1> SUFFICES ASSUME TypeInv, Clocks PROVE Room' => Room
  OBVIOUS
<1>1. Len(happened) \in Nat /\ Len(happened') \in Nat /\ Len(happened') >= Len(happened)
  BY TradesHappened DEF Clocks
<1> QED
  BY <1>1, CollectorAssumption DEF Room

(* While there is room, every trade the process wrote stays remembered. *)
LEMMA WrittenStep == TypeInv /\ WrittenInv /\ Shape => WrittenInv'
<1> SUFFICES ASSUME TypeInv, WrittenInv, Shape PROVE WrittenInv'
  OBVIOUS
<1>1. CASE Clocks
  <2>2. \A m \in Markets, t \in Trade :
           Publishing(m, t)' => Publishing(m, t) /\ stamp'[m] = stamp[m]
    BY <1>1, Zenon DEF Clocks, Publishing, At
  <2> QED
    BY <1>1, <2>2, ClocksRoom, OthersWritten, Zenon DEF Clocks
<1>2. CASE Polls
  BY <1>2, PollsWritten
<1>3. CASE Forgets
  <2>1. PublishedInv'
    BY <1>3, Zenon DEF Forgets, PublishedInv
  <2>2. tradeRows \in Seq(Trade) /\ tradeRows' = tradeRows /\ oldTrades' = Len(tradeRows)
    BY <1>3 DEF Forgets, TypeInv, TypeOK
  <2>3. OwnRows' = {}
    BY <2>2, LenProperties DEF OwnRows
  <2>4. TradeWrittenOnce'
    BY <2>3, Zenon DEF TradeWrittenOnce, OwnRows
  <2> QED
    BY <2>1, <2>3, <2>4, Zenon DEF WrittenInv
<1>4. ASSUME NEW m \in Markets, NEW t \in Mine(m), Writes(m, t) PROVE WrittenInv'
  BY <1>4, WritesWritten
<1>5. ASSUME NEW m \in Markets, NEW t \in Mine(m), Counts(m, t) PROVE WrittenInv'
  <2>1. /\ UNCHANGED <<seen, tradeRows, happened, stamp, oldTrades>>
        /\ \A x \in Markets, u \in Trade : Publishing(x, u)' => Publishing(x, u)
    BY <1>5, Zenon DEF Counts
  <2> QED
    BY <2>1, OthersWritten, Zenon DEF Room
<1>6. ASSUME NEW done \in SUBSET DOMAIN bars, NEW gone \in SUBSET DOMAIN bars,
             Flushes(done, gone)
      PROVE  WrittenInv'
  <2>1. /\ UNCHANGED <<seen, tradeRows, happened, stamp, oldTrades>>
        /\ \A x \in Markets, u \in Trade : Publishing(x, u)' => Publishing(x, u)
    BY <1>6, Zenon DEF Flushes, Publishing, At
  <2> QED
    BY <2>1, OthersWritten, Zenon DEF Room
<1> QED
  BY <1>1, <1>2, <1>3, <1>4, <1>5, <1>6, Zenon DEF Shape

(* TypeInv and WrittenInv hold in every state. *)
LEMMA WrittenInvariant == Spec => [](TypeInv /\ WrittenInv)
<1>1. Init => WrittenInv
  <2>1. ASSUME Init PROVE Range(tradeRows) = {} /\ DOMAIN tradeRows = {} /\ PublishedInv
    <3>1. tradeRows = <<>> /\ \A m \in Markets : task[m] = "idle"
      BY <2>1 DEF Init
    <3> QED
      BY <3>1 DEF Range, PublishedInv, Publishing
  <2> QED
    BY <2>1, Zenon DEF WrittenInv, TradeWrittenOnce, OwnRows
<1>2. TypeInv /\ WrittenInv /\ [Next]_vars => WrittenInv'
  BY Shaped, WrittenStep
<1> QED
  BY <1>1, <1>2, TypeInvariant, PTL DEF Spec

(* While the dedup set has not filled up, a process writes at most one of  *)
(* the trades with an id to pm_trades, once, however many tapes they are   *)
(* on, whatever polls fail half way through one and write_row refuses.     *)
THEOREM TradeWrittenOnceInvariant == Spec => []TradeWrittenOnce
BY WrittenInvariant, PTL DEF WrittenInv

------------------------------------------------------------------------------
(* Every bar gets one row *)

(* A key that got a row from this process will not get another, since no   *)
(* price arrives for a minute that is over and a bar that was created      *)
(* again by a late trade has none.                                         *)
RowInv == \A k \in Keys :
              \/ Len(barRows[k]) = oldBars[k]
              \/ /\ Len(barRows[k]) = oldBars[k] + 1
                 /\ k[2] < minute \/ ~running
                 /\ ~BarAt(k).prob

(* The minute of a key is a number, the one it is now as well. *)
LEMMA KeyMinutes == TypeInv => minute \in Nat /\ \A k \in Keys : k[2] \in Nat
BY CollectorAssumption DEF TypeInv, TypeOK, Keys

(* A flush gives a row to bars that are due and empties them as it does. *)
LEMMA FlushesRow ==
    ASSUME TypeInv, RowInv, NEW done \in SUBSET DOMAIN bars, NEW gone \in SUBSET DOMAIN bars,
           Flushes(done, gone)
    PROVE  RowInv'
<1>1. /\ running /\ UNCHANGED <<minute, oldBars>> /\ WriteBars(done, gone)
      /\ done \subseteq Due \/ ~running'
  BY DEF Flushes
<1>2. /\ \A x \in done \cup gone : BarAt(x)' = NewBar
      /\ \A x \in Keys \ (done \cup gone) : BarAt(x)' = BarAt(x)
      /\ \A x \in Keys \ done : barRows'[x] = barRows[x]
      /\ \A x \in done : barRows'[x] = IF bars[x].prob
                                       THEN Append(barRows[x], BarAt(x).trades)
                                       ELSE barRows[x]
  BY <1>1, BarsAreFlushed, Zenon DEF TypeInv
<1>3. ~NewBar.prob
  BY DEF NewBar
<1>4. ASSUME NEW k \in Keys
      PROVE  \/ Len(barRows'[k]) = oldBars[k]
             \/ /\ Len(barRows'[k]) = oldBars[k] + 1
                /\ k[2] < minute \/ ~running'
                /\ ~BarAt(k)'.prob
  <2>1. \/ Len(barRows[k]) = oldBars[k]
        \/ /\ Len(barRows[k]) = oldBars[k] + 1 /\ k[2] < minute
           /\ ~BarAt(k).prob
    BY <1>1, Zenon DEF RowInv
  <2>2. CASE k \notin done \/ ~bars[k].prob
    <3>1. barRows'[k] = barRows[k]
      BY <1>2, <2>2, Zenon
    <3>2. BarAt(k)' = BarAt(k) \/ BarAt(k)' = NewBar
      BY <1>2, Zenon
    <3> QED
      BY <1>3, <2>1, <3>1, <3>2, Zenon
  <2>3. CASE k \in done /\ bars[k].prob
    <3>1. Len(barRows[k]) = oldBars[k]
      BY <2>1, <2>3, Zenon DEF BarAt
    <3>2. BarAt(k).trades \in Seq(Trade) /\ barRows[k] \in Seq(Seq(Trade))
      BY PartTypes, BarOfKey DEF Bar
    <3>3. Len(Append(barRows[k], BarAt(k).trades)) = Len(barRows[k]) + 1
      BY <3>2, AppendProperties
    <3>4. barRows'[k] = Append(barRows[k], BarAt(k).trades)
      BY <1>2, <2>3, Zenon
    <3>5. Len(barRows'[k]) = oldBars[k] + 1
      BY <3>1, <3>3, <3>4, Zenon
    <3>6. k[2] < minute \/ ~running'
      BY <1>1, <2>3 DEF Due
    <3>7. ~BarAt(k)'.prob
      BY <1>2, <1>3, <2>3, Zenon
    <3> QED
      BY <3>5, <3>6, <3>7
  <2> QED
    BY <2>2, <2>3, Zenon
<1> QED
  BY <1>1, <1>4, Zenon DEF RowInv

(* Steps that write no row of a bar. *)
LEMMA OthersRow ==
    ASSUME TypeInv, RowInv, UNCHANGED <<barRows, running, oldBars>>,
           minute' \in Nat, minute' >= minute,
           \A k \in Keys : BarAt(k)'.prob => BarAt(k).prob \/ (running /\ k[2] = minute)
    PROVE  RowInv'
<1>1. ASSUME NEW k \in Keys
      PROVE  \/ Len(barRows[k]) = oldBars[k]
             \/ /\ Len(barRows[k]) = oldBars[k] + 1
                /\ (k[2] < minute' \/ ~running) /\ ~BarAt(k)'.prob
  <2>1. minute \in Nat /\ k[2] \in Nat
    BY KeyMinutes
  <2>2. \/ Len(barRows[k]) = oldBars[k]
        \/ /\ Len(barRows[k]) = oldBars[k] + 1
           /\ (k[2] < minute \/ ~running) /\ ~BarAt(k).prob
    BY Zenon DEF RowInv
  <2>3. k[2] < minute => k[2] < minute' /\ k[2] # minute
    BY <2>1
  <2> QED
    BY <2>2, <2>3, Zenon
<1> QED
  BY <1>1, Zenon DEF RowInv

(* No bar is refilled once its row is written. *)
LEMMA RowStep == TypeInv /\ RowInv /\ Shape => RowInv'
<1> SUFFICES ASSUME TypeInv, RowInv, Shape PROVE RowInv'
  OBVIOUS
<1>0. minute \in Nat
  BY KeyMinutes
<1>1. CASE Clocks
  <2>1. \A k \in Keys : BarAt(k)' = BarAt(k)
    BY <1>1, Zenon DEF Clocks, BarAt
  <2>2. minute' \in Nat /\ minute' >= minute
    BY <1>0, <1>1 DEF Clocks
  <2> QED
    BY <1>1, <2>1, <2>2, OthersRow, Zenon DEF Clocks
<1>2. CASE Polls
  <2>1. minute' = minute /\ minute >= minute
    BY <1>0, <1>2 DEF Polls
  <2> QED
    BY <1>0, <1>2, <2>1, OthersRow, Zenon DEF Polls
<1>3. CASE Forgets
  <2>1. barRows' = barRows /\ \A k \in Keys : oldBars'[k] = Len(barRows[k])
    BY <1>3, Zenon DEF Forgets
  <2> QED
    BY <2>1, Zenon DEF RowInv
<1>4. ASSUME NEW m \in Markets, NEW t \in Mine(m), Writes(m, t) PROVE RowInv'
  <2>1. minute' = minute /\ minute >= minute
    BY <1>0, <1>4 DEF Writes
  <2>2. \A k \in Keys : BarAt(k)' = BarAt(k)
    BY <1>4, Zenon DEF Writes, BarAt
  <2> QED
    BY <1>0, <1>4, <2>1, <2>2, OthersRow, Zenon DEF Writes
<1>5. ASSUME NEW m \in Markets, NEW t \in Mine(m), Counts(m, t) PROVE RowInv'
  <2>1. minute' = minute /\ minute >= minute
    BY <1>0, <1>5 DEF Counts
  <2>2. \A k \in Keys : BarAt(k)'.prob = BarAt(k).prob
    BY <1>5, Zenon DEF Counts
  <2> QED
    BY <1>0, <1>5, <2>1, <2>2, OthersRow, Zenon DEF Counts
<1>6. ASSUME NEW done \in SUBSET DOMAIN bars, NEW gone \in SUBSET DOMAIN bars,
             Flushes(done, gone)
      PROVE  RowInv'
  BY <1>6, FlushesRow
<1> QED
  BY <1>1, <1>2, <1>3, <1>4, <1>5, <1>6, Zenon DEF Shape

(* A process writes at most one row of a minute of a market: neither late  *)
(* trades nor flushes that fail half way nor stop() add a second.          *)
THEOREM OneRowPerBarInvariant == Spec => []OneRowPerBar
<1>1. Init => RowInv
  <2>1. ASSUME Init PROVE \A k \in Keys : Len(barRows[k]) = oldBars[k]
    BY <2>1, EmptySeq DEF Init
  <2> QED
    BY <2>1, Zenon DEF RowInv
<1>2. TypeInv /\ RowInv /\ [Next]_vars => RowInv'
  BY Shaped, RowStep
<1>3. TypeInv /\ RowInv => OneRowPerBar
  <2>1. TypeInv => \A k \in Keys : oldBars[k] \in Nat
    BY DEF TypeInv, TypeOK
  <2> QED
    BY <2>1 DEF RowInv, OneRowPerBar
<1> QED
  BY <1>1, <1>2, <1>3, TypeInvariant, PTL DEF Spec

------------------------------------------------------------------------------
(* The bar of the current minute is complete *)

(* As CurrentBarComplete, of a market and the key of its current bar. *)
CompleteInv ==
    running /\ restarts = 0 /\ failures = 0 =>
        \A t \in Range(tradeRows) \ Untimed, m \in Markets, k \in Keys :
            happened[t].market = m /\ happened[t].minute = minute /\ k = <<m, minute>> =>
                t \in Range(BarAt(k).trades) \/ Publishing(m, t)

(* A written trade of the running minute is in its bar or about to enter it. *)
LEMMA CompleteStep ==
    TypeInv /\ WrittenInv /\ CompleteInv /\ Shape => CompleteInv'
<1> SUFFICES ASSUME TypeInv, WrittenInv, CompleteInv, Shape,
                    running', restarts' = 0, failures' = 0,
                    NEW t \in Range(tradeRows') \ Untimed,
                    NEW m \in Markets, NEW k \in Keys,
                    happened'[t].market = m, happened'[t].minute = minute',
                    k = <<m, minute'>>
             PROVE  t \in Range(BarAt(k)'.trades) \/ Publishing(m, t)'
  BY Zenon DEF CompleteInv
<1>0. /\ minute \in Nat /\ Range(tradeRows) \subseteq DOMAIN happened
      /\ DOMAIN happened \subseteq Trade
      /\ \A u \in DOMAIN happened : happened[u].minute \in Nat /\ happened[u].minute <= minute
  BY KeyMinutes, TradesHappened DEF TypeInv, KnownInv
<1>1. CASE Clocks
  <2>1. t \in DOMAIN happened /\ happened'[t] = happened[t] /\ t \in Range(tradeRows)
    BY <1>0, <1>1 DEF Clocks
  <2>2. minute' = minute
    BY <1>0, <1>1, <2>1 DEF Clocks
  <2>3. t \in Range(BarAt(k).trades) \/ Publishing(m, t)
    BY <1>1, <2>1, <2>2, Zenon DEF CompleteInv, Clocks
  <2> QED
    BY <1>1, <2>3, Zenon DEF Clocks, BarAt, Publishing, At
<1>2. CASE Polls
  <2>0. /\ UNCHANGED <<minute, happened, running, restarts, tradeRows>>
        /\ running /\ failures = 0
    BY <1>2, Zenon DEF Polls
  <2>1. t \in Range(BarAt(k).trades) \/ Publishing(m, t)
    BY <2>0, Zenon DEF CompleteInv
  <2>2. t \in Trade
    BY <1>0, <1>2 DEF Polls
  <2> QED
    BY <1>2, <2>1, <2>2, Zenon DEF Polls
<1>3. CASE Forgets
  BY <1>3 DEF Forgets
<1>4. ASSUME NEW x \in Markets, NEW u \in Mine(x), Writes(x, u)
      PROVE  t \in Range(BarAt(k)'.trades) \/ Publishing(m, t)'
  <2>1. u \in Trade /\ happened[u].market = x /\ tradeRows \in Seq(Trade)
    BY TradesHappened DEF Mine, TypeInv, TypeOK
  <2>2. Range(tradeRows') = Range(tradeRows) \cup {u}
    BY <1>4, <2>1, AppendElements DEF Writes
  <2>3. CASE t = u
    BY <1>4, <2>1, <2>3, Zenon DEF Writes
  <2>4. CASE t \in Range(tradeRows)
    <3>1. t \in Range(BarAt(k).trades) \/ Publishing(m, t)
      BY <1>4, <2>4, Zenon DEF CompleteInv, Writes
    <3>2. BarAt(k)' = BarAt(k)
      BY <1>4, Zenon DEF Writes, BarAt
    <3>3. t \in Trade
      BY <1>0, <2>4
    <3> QED
      BY <1>4, <3>1, <3>2, <3>3, Zenon DEF Writes
  <2> QED
    BY <2>2, <2>3, <2>4
<1>5. ASSUME NEW x \in Markets, NEW u \in Mine(x), Counts(x, u)
      PROVE  t \in Range(BarAt(k)'.trades) \/ Publishing(m, t)'
  <2>1. /\ t \in Range(tradeRows) /\ t \in Trade
        /\ t \in Range(BarAt(k).trades) \/ Publishing(m, t)
    BY <1>0, <1>5, Zenon DEF CompleteInv, Counts
  <2>2. PICK b \in Keys : /\ b = <<x, stamp[x]>>
                          /\ BarAt(b)'.trades = Append(BarAt(b).trades, u)
                          /\ \A y \in Keys : y # b => BarAt(y)' = BarAt(y)
    BY <1>5, Zenon DEF Counts
  <2>3. u \in Trade /\ BarAt(b).trades \in Seq(Trade)
    BY TradesHappened, PartTypes, BarOfKey DEF Bar
  <2>4. Range(Append(BarAt(b).trades, u)) = Range(BarAt(b).trades) \cup {u}
    <3>1. PICK q \in Seq(Trade) : q = BarAt(b).trades
      BY <2>3
    <3>2. Range(Append(q, u)) = Range(q) \cup {u}
      BY <2>3, AppendElements
    <3> QED
      BY <3>1, <3>2, Zenon
  <2>5. CASE t \in Range(BarAt(k).trades)
    <3>1. CASE k = b
      BY <2>2, <2>4, <2>5, <3>1
    <3>2. CASE k # b
      BY <2>2, <2>5, <3>2, Zenon
    <3> QED
      BY <3>1, <3>2
  <2>6. CASE Publishing(m, t) /\ m # x
    BY <1>5, <2>1, <2>6, Zenon DEF Counts
  <2>7. CASE Publishing(m, t) /\ m = x
    <3>1. t = u
      <4>1. At(m, t) /\ At(m, u)
        BY <1>5, <2>7, Zenon DEF Counts, Publishing
      <4> QED
        BY <4>1, AtNewest
    <3>2. stamp[x] = happened[t].minute
      BY <2>1, <2>7, Zenon DEF WrittenInv, PublishedInv
    <3>3. k = b
      BY <1>5, <2>2, <2>7, <3>2, Zenon DEF Counts
    <3> QED
      BY <2>2, <2>4, <3>1, <3>3
  <2> QED
    BY <2>1, <2>5, <2>6, <2>7
<1>6. ASSUME NEW done \in SUBSET DOMAIN bars, NEW gone \in SUBSET DOMAIN bars,
             Flushes(done, gone)
      PROVE  t \in Range(BarAt(k)'.trades) \/ Publishing(m, t)'
  <2>1. /\ running /\ done \cup gone \subseteq Due /\ WriteBars(done, gone)
        /\ UNCHANGED <<minute, happened, tradeRows, restarts, task, todo>> /\ failures = 0
    BY <1>6, Zenon DEF Flushes
  <2>2. t \in Range(BarAt(k).trades) \/ Publishing(m, t)
    BY <2>1, Zenon DEF CompleteInv
  <2>3. k \notin done \cup gone
    BY <1>0, <2>1 DEF Due
  <2>4. BarAt(k)' = BarAt(k)
    BY <2>1, <2>3, BarsAreFlushed, Zenon DEF TypeInv
  <2> QED
    BY <2>1, <2>2, <2>4, Zenon DEF Publishing, At
<1> QED
  BY <1>1, <1>2, <1>3, <1>4, <1>5, <1>6, Zenon DEF Shape

(* While nothing failed, the bar of the current minute counts every        *)
(* written trade of the minute but those being published.                  *)
THEOREM CurrentBarCompleteInvariant == Spec => []CurrentBarComplete
<1>1. Init => CompleteInv
  <2>1. ASSUME Init PROVE Range(tradeRows) = {}
    BY <2>1 DEF Init, Range
  <2> QED
    BY <2>1, Zenon DEF CompleteInv
<1>2. TypeInv /\ WrittenInv /\ CompleteInv /\ [Next]_vars => CompleteInv'
  BY Shaped, CompleteStep
<1>3. TypeInv /\ CompleteInv => CurrentBarComplete
  <2> SUFFICES ASSUME TypeInv, CompleteInv, running, restarts = 0, failures = 0,
                      NEW t \in Range(tradeRows) \ Untimed, happened[t].minute = minute
               PROVE  LET m == happened[t].market
                      IN  \/ t \in InBar(<<m, minute>>)
                          \/ task[m] = "publish" /\ At(m, t)
    BY Zenon DEF CurrentBarComplete
  <2>1. t \in DOMAIN happened /\ happened[t].market \in Markets
    BY TradesHappened DEF TypeInv, KnownInv
  <2>2. <<happened[t].market, minute>> \in Keys
    BY <2>1, PartTypes DEF Keys
  <2> QED
    BY <2>1, <2>2, Zenon DEF CompleteInv, InBar, Publishing
<1> QED
  BY <1>1, <1>2, <1>3, WrittenInvariant, PTL DEF Spec

------------------------------------------------------------------------------
(* Volume is never invented *)

(* As Counted and CountedAt, of a bar with trades s and a table with rows  *)
(* that are lists of trades.                                               *)
Cells(s, rows) == {<<0, i>> : i \in DOMAIN s} \cup
                  UNION {{<<r, i>> : i \in DOMAIN rows[r]} : r \in DOMAIN rows}
CellAt(s, rows, c) == IF c[1] = 0 THEN s[c[2]] ELSE rows[c[1]][c[2]]

(* The trades counted, and that none is counted twice. *)
Values(s, rows) == {CellAt(s, rows, c) : c \in Cells(s, rows)}
CountedOnce(s, rows) ==
    \A c, d \in Cells(s, rows) : CellAt(s, rows, c) = CellAt(s, rows, d) => c = d

(* A cell is a position in the bar or one in a row. *)
IsCell(s, rows, c) == \/ \E i \in DOMAIN s : c = <<0, i>>
                      \/ \E r \in DOMAIN rows : \E i \in DOMAIN rows[r] : c = <<r, i>>

(* A cell is a trade of the tape without a row, or a trade of a row. *)
LEMMA CellCases ==
    ASSUME NEW s, NEW rows
    PROVE  \A c : c \in Cells(s, rows) <=> IsCell(s, rows, c)
<1>1. ASSUME NEW c
      PROVE  c \in UNION {{<<r, i>> : i \in DOMAIN rows[r]} : r \in DOMAIN rows} <=>
             \E r \in DOMAIN rows : \E i \in DOMAIN rows[r] : c = <<r, i>>
  OBVIOUS
<1>2. ASSUME NEW c
      PROVE  c \in {<<0, i>> : i \in DOMAIN s} <=> \E i \in DOMAIN s : c = <<0, i>>
  OBVIOUS
<1> QED
  BY <1>1, <1>2 DEF Cells, IsCell

(* Adding a trade to a bar counts that trade once more, and no other. *)
LEMMA CountAdded ==
    ASSUME NEW s \in Seq(Trade), NEW rows \in Seq(Seq(Trade)), NEW t \in Trade
    PROVE  /\ Values(Append(s, t), rows) = Values(s, rows) \cup {t}
           /\ CountedOnce(s, rows) /\ t \notin Values(s, rows) =>
                 CountedOnce(Append(s, t), rows)
<1>1. PICK a \in Seq(Trade) : a = Append(s, t)
  BY AppendElements, Zenon
<1>2. Len(s) \in Nat /\ DOMAIN s = 1 .. Len(s) /\ DOMAIN a = 1 .. Len(s) + 1
      /\ a[Len(s) + 1] = t /\ \A i \in 1 .. Len(s) : a[i] = s[i]
  BY <1>1, LenProperties, AppendProperties
<1> DEFINE new == <<0, Len(s) + 1>>
<1>3. Cells(a, rows) = Cells(s, rows) \cup {new} /\ new \notin Cells(s, rows)
  <2>1. \A c : (\E i \in DOMAIN a : c = <<0, i>>) <=>
               (\E i \in DOMAIN s : c = <<0, i>>) \/ c = new
    BY <1>2
  <2>2. \A c : IsCell(a, rows, c) <=> IsCell(s, rows, c) \/ c = new
    <3> HIDE DEF new
    <3> QED
      BY <2>1 DEF IsCell
  <2>3. ~IsCell(s, rows, new)
    <3>1. \A i \in DOMAIN s : new # <<0, i>>
      BY <1>2
    <3>2. \A r \in DOMAIN rows : \A i : new # <<r, i>>
      BY LenProperties
    <3> HIDE DEF new
    <3> QED
      BY <3>1, <3>2 DEF IsCell
  <2> HIDE DEF new
  <2> QED
    BY <2>2, <2>3, CellCases, Zenon
<1>4. CellAt(a, rows, new) = t
  BY <1>2 DEF CellAt
<1>5. \A c \in Cells(s, rows) : CellAt(a, rows, c) = CellAt(s, rows, c)
  <2>1. ASSUME NEW i \in DOMAIN s PROVE CellAt(a, rows, <<0, i>>) = CellAt(s, rows, <<0, i>>)
    BY <1>2 DEF CellAt
  <2>2. ASSUME NEW r \in DOMAIN rows, NEW i
        PROVE  CellAt(a, rows, <<r, i>>) = CellAt(s, rows, <<r, i>>)
    BY LenProperties DEF CellAt
  <2>3. ASSUME NEW c, IsCell(s, rows, c) PROVE CellAt(a, rows, c) = CellAt(s, rows, c)
    BY <2>1, <2>2, <2>3 DEF IsCell
  <2> QED
    BY <2>3, CellCases, Zenon
<1> HIDE DEF new
<1>6. Values(a, rows) = Values(s, rows) \cup {t}
  BY <1>3, <1>4, <1>5, Zenon DEF Values
<1>7. CountedOnce(s, rows) /\ t \notin Values(s, rows) => CountedOnce(a, rows)
  BY <1>3, <1>4, <1>5, Zenon DEF Values, CountedOnce
<1> QED
  BY <1>1, <1>6, <1>7, Zenon

(* A bar that becomes a row counts what it counted. *)
LEMMA CountMoved ==
    ASSUME NEW s \in Seq(Trade), NEW rows \in Seq(Seq(Trade))
    PROVE  /\ Values(<<>>, Append(rows, s)) \subseteq Values(s, rows)
           /\ CountedOnce(s, rows) => CountedOnce(<<>>, Append(rows, s))
<1>1. PICK a \in Seq(Seq(Trade)) : a = Append(rows, s)
  BY AppendProperties, Zenon
<1>2. Len(rows) \in Nat /\ DOMAIN rows = 1 .. Len(rows) /\ DOMAIN a = 1 .. Len(rows) + 1
      /\ a[Len(rows) + 1] = s /\ \A r \in 1 .. Len(rows) : a[r] = rows[r]
  BY <1>1, LenProperties, AppendProperties
<1>3. PICK e : e = <<>> /\ DOMAIN e = {}
  OBVIOUS
(* The cell where the trade of a cell was before *)
<1> DEFINE from(c) == IF c[1] = Len(rows) + 1 THEN <<0, c[2]>> ELSE c
<1>4. ASSUME NEW c \in Cells(e, a)
      PROVE  /\ from(c) \in Cells(s, rows)
             /\ CellAt(s, rows, from(c)) = CellAt(e, a, c)
             /\ \/ \E i : c = <<Len(rows) + 1, i>> /\ from(c) = <<0, i>>
                \/ c[1] \in 1 .. Len(rows) /\ from(c) = c
  <2>1. IsCell(e, a, c)
    BY CellCases, Zenon
  <2>2. PICK r \in DOMAIN a : \E i \in DOMAIN a[r] : c = <<r, i>>
    BY <1>3, <2>1 DEF IsCell
  <2>3. PICK i \in DOMAIN a[r] : c = <<r, i>>
    BY <2>2
  <2>4. CellAt(e, a, c) = a[r][i]
    BY <1>2, <2>3 DEF CellAt
  <2>5. CASE r = Len(rows) + 1
    <3>1. from(c) = <<0, i>> /\ i \in DOMAIN s /\ a[r][i] = s[i]
      BY <1>2, <2>3, <2>5
    <3>2. from(c) \in Cells(s, rows)
      <4>1. IsCell(s, rows, from(c))
        BY <3>1 DEF IsCell
      <4> QED
        BY <4>1, CellCases, Zenon
    <3>3. CellAt(s, rows, from(c)) = s[i]
      BY <3>1 DEF CellAt
    <3>4. c = <<Len(rows) + 1, i>>
      BY <2>3, <2>5
    <3>5. \E j : c = <<Len(rows) + 1, j>> /\ from(c) = <<0, j>>
      BY <3>1, <3>4, Zenon
    <3>6. CellAt(s, rows, from(c)) = CellAt(e, a, c)
      BY <2>4, <3>1, <3>3, Zenon
    <3> QED
      BY <3>2, <3>5, <3>6, Zenon
  <2>6. CASE r \in 1 .. Len(rows)
    <3>1. r # Len(rows) + 1 /\ c[1] = r
      BY <1>2, <2>3, <2>6
    <3>2. from(c) = c /\ i \in DOMAIN rows[r] /\ a[r][i] = rows[r][i]
      BY <1>2, <2>3, <2>6, <3>1
    <3>3. c \in Cells(s, rows)
      <4>1. r \in DOMAIN rows
        BY <1>2, <2>6
      <4>2. IsCell(s, rows, c)
        BY <2>3, <3>2, <4>1 DEF IsCell
      <4> QED
        BY <4>2, CellCases, Zenon
    <3>4. CellAt(s, rows, c) = rows[r][i]
      BY <2>3, <2>6, <3>2 DEF CellAt
    <3> QED
      BY <2>4, <2>6, <3>1, <3>2, <3>3, <3>4, Zenon
  <2>7. r = Len(rows) + 1 \/ r \in 1 .. Len(rows)
    BY <1>2, <2>2
  <2> QED
    BY <2>5, <2>6, <2>7, Zenon
<1>5. ASSUME NEW c \in Cells(e, a), NEW d \in Cells(e, a), from(c) = from(d) PROVE c = d
  <2>1. \A i : <<0, i>>[1] = 0
    OBVIOUS
  <2>2. \A n \in 1 .. Len(rows) : n # 0
    OBVIOUS
  <2>3. \A i, j : <<0, i>> = <<0, j>> => i = j
    OBVIOUS
  <2> HIDE DEF from
  <2>4. CASE \E i, j : /\ c = <<Len(rows) + 1, i>> /\ from(c) = <<0, i>>
                       /\ d = <<Len(rows) + 1, j>> /\ from(d) = <<0, j>>
    BY <1>5, <2>3, <2>4, Zenon
  <2>5. CASE from(c) = c /\ from(d) = d
    BY <1>5, <2>5
  <2>6. CASE \/ (\E i : from(c) = <<0, i>>) /\ d[1] \in 1 .. Len(rows) /\ from(d) = d
             \/ (\E i : from(d) = <<0, i>>) /\ c[1] \in 1 .. Len(rows) /\ from(c) = c
    BY <1>5, <2>1, <2>2, <2>6, Zenon
  <2> QED
    BY <1>4, <2>4, <2>5, <2>6, Zenon
<1> HIDE DEF from
<1>6. Values(e, a) \subseteq Values(s, rows)
  BY <1>4, Zenon DEF Values
<1>7. CountedOnce(s, rows) => CountedOnce(e, a)
  BY <1>4, <1>5, Zenon DEF CountedOnce
<1> QED
  BY <1>1, <1>3, <1>6, <1>7, Zenon

(* A bar that is dropped counts no more; the rows count what they did. *)
LEMMA CountDropped ==
    ASSUME NEW s \in Seq(Trade), NEW rows \in Seq(Seq(Trade))
    PROVE  /\ Values(<<>>, rows) \subseteq Values(s, rows)
           /\ CountedOnce(s, rows) => CountedOnce(<<>>, rows)
<1>1. PICK e : e = <<>> /\ DOMAIN e = {}
  OBVIOUS
<1>2. ASSUME NEW c \in Cells(e, rows)
      PROVE  c \in Cells(s, rows) /\ CellAt(s, rows, c) = CellAt(e, rows, c)
  <2>1. IsCell(e, rows, c)
    BY CellCases, Zenon
  <2>2. PICK r \in DOMAIN rows : \E i \in DOMAIN rows[r] : c = <<r, i>>
    BY <1>1, <2>1 DEF IsCell
  <2>3. c \in Cells(s, rows)
    <3>1. IsCell(s, rows, c)
      BY <2>2 DEF IsCell
    <3> QED
      BY <3>1, CellCases, Zenon
  <2>4. CellAt(s, rows, c) = CellAt(e, rows, c)
    BY <2>2, LenProperties DEF CellAt
  <2> QED
    BY <2>3, <2>4
<1> QED
  BY <1>1, <1>2, Zenon DEF Values, CountedOnce

(* The trades that may be counted in the bar of a key *)
Countable(k) == {t \in Range(tradeRows) :
                    /\ happened[t].market = k[1]
                    /\ t \notin Untimed => happened[t].minute = k[2]}

(* A key counts what may be counted in it, once; and what is being         *)
(* published has not been counted.                                         *)
CountInv ==
    \A k \in Keys :
        LET s == BarAt(k).trades
            rows == barRows[k]
        IN  /\ Values(s, rows) \subseteq Countable(k)
            /\ Remembers => /\ CountedOnce(s, rows)
                            /\ \A m \in Markets, t \in Trade :
                                  Publishing(m, t) => t \notin Values(s, rows)

(* The bar and the rows of a key are lists of trades. *)
LEMMA KeyParts ==
    TypeInv => \A k \in Keys : /\ BarAt(k).trades \in Seq(Trade)
                               /\ barRows[k] \in Seq(Seq(Trade))
BY PartTypes, BarOfKey DEF Bar

(* What may be counted in a key may be counted later. *)
LEMMA CountableStays ==
    ASSUME TypeInv, Range(tradeRows) \subseteq Range(tradeRows'),
           \A t \in DOMAIN happened : happened'[t] = happened[t]
    PROVE  \A k \in Keys : Countable(k) \subseteq Countable(k)'
BY DEF Countable, TypeInv, KnownInv

(* Steps after which no key counts more than before. *)
LEMMA OthersCount ==
    ASSUME TypeInv, CountInv,
           Range(tradeRows) \subseteq Range(tradeRows'),
           \A t \in DOMAIN happened : happened'[t] = happened[t],
           Remembers' => Remembers,
           \A k \in Keys :
              /\ Values(BarAt(k)'.trades, barRows'[k]) \subseteq
                 Values(BarAt(k).trades, barRows[k])
              /\ CountedOnce(BarAt(k).trades, barRows[k]) =>
                    CountedOnce(BarAt(k)'.trades, barRows'[k]),
           Remembers' => \A m \in Markets, t \in Trade : Publishing(m, t)' =>
              \/ Publishing(m, t)
              \/ \A k \in Keys : t \notin Values(BarAt(k).trades, barRows[k])
    PROVE  CountInv'
<1>1. \A k \in Keys : Countable(k) \subseteq Countable(k)'
  BY CountableStays
<1>2. ASSUME NEW k \in Keys
      PROVE  Values(BarAt(k)'.trades, barRows'[k]) \subseteq Countable(k)'
  <2>1. Values(BarAt(k).trades, barRows[k]) \subseteq Countable(k)
    BY Zenon DEF CountInv
  <2> QED
    BY <1>1, <2>1
<1>3. ASSUME NEW k \in Keys, Remembers'
      PROVE  /\ CountedOnce(BarAt(k)'.trades, barRows'[k])
             /\ \A m \in Markets, t \in Trade :
                   Publishing(m, t)' => t \notin Values(BarAt(k)'.trades, barRows'[k])
  <2>1. /\ CountedOnce(BarAt(k).trades, barRows[k])
        /\ \A m \in Markets, t \in Trade :
              Publishing(m, t) => t \notin Values(BarAt(k).trades, barRows[k])
    BY <1>3, Zenon DEF CountInv
  <2>2. CountedOnce(BarAt(k)'.trades, barRows'[k])
    BY <2>1, Zenon
  <2>3. ASSUME NEW m \in Markets, NEW t \in Trade, Publishing(m, t)'
        PROVE  t \notin Values(BarAt(k)'.trades, barRows'[k])
    <3>1. t \notin Values(BarAt(k).trades, barRows[k])
      BY <1>3, <2>1, <2>3, Zenon
    <3> QED
      BY <3>1
  <2> QED
    BY <2>2, <2>3, Zenon
<1> QED
  BY <1>2, <1>3, Zenon DEF CountInv

(* A key whose bar counts the same and whose rows are the same *)
LEMMA SameCount ==
    ASSUME \A k \in Keys : BarAt(k)'.trades = BarAt(k).trades /\ barRows'[k] = barRows[k]
    PROVE  \A k \in Keys :
              /\ Values(BarAt(k)'.trades, barRows'[k]) \subseteq
                 Values(BarAt(k).trades, barRows[k])
              /\ CountedOnce(BarAt(k).trades, barRows[k]) =>
                    CountedOnce(BarAt(k)'.trades, barRows'[k])
<1> SUFFICES ASSUME NEW k \in Keys
             PROVE  /\ Values(BarAt(k)'.trades, barRows'[k]) \subseteq
                       Values(BarAt(k).trades, barRows[k])
                    /\ CountedOnce(BarAt(k).trades, barRows[k]) =>
                          CountedOnce(BarAt(k)'.trades, barRows'[k])
  OBVIOUS
<1>1. BarAt(k)'.trades = BarAt(k).trades /\ barRows'[k] = barRows[k]
  OBVIOUS
<1> QED
  BY <1>1, Zenon

(* A bar that leaves memory: its trades stay counted in its row, or are    *)
(* counted no more.                                                        *)
LEMMA FlushesCount ==
    ASSUME TypeInv, WrittenInv, CountInv, NEW done \in SUBSET DOMAIN bars,
           NEW gone \in SUBSET DOMAIN bars, Flushes(done, gone)
    PROVE  CountInv'
<1>1. /\ WriteBars(done, gone)
      /\ UNCHANGED <<tradeRows, happened, restarts>>
      /\ \A m \in Markets, t \in Trade : Publishing(m, t)' => Publishing(m, t)
  BY Zenon DEF Flushes, Publishing, At
<1>2. /\ \A x \in done \cup gone : BarAt(x)' = NewBar
      /\ \A x \in Keys \ (done \cup gone) : BarAt(x)' = BarAt(x)
      /\ \A x \in Keys \ done : barRows'[x] = barRows[x]
      /\ \A x \in done : barRows'[x] = IF bars[x].prob
                                       THEN Append(barRows[x], BarAt(x).trades)
                                       ELSE barRows[x]
  BY <1>1, BarsAreFlushed, Zenon DEF TypeInv
<1>3. ASSUME NEW k \in Keys
      PROVE  /\ Values(BarAt(k)'.trades, barRows'[k]) \subseteq
                Values(BarAt(k).trades, barRows[k])
             /\ CountedOnce(BarAt(k).trades, barRows[k]) =>
                   CountedOnce(BarAt(k)'.trades, barRows'[k])
  <2>1. PICK s \in Seq(Trade) : s = BarAt(k).trades
    BY KeyParts, Zenon
  <2>2. PICK rows \in Seq(Seq(Trade)) : rows = barRows[k]
    BY KeyParts, Zenon
  <2>3. NewBar.trades = <<>>
    BY DEF NewBar
  <2>4. CASE k \notin done \cup gone
    <3>1. BarAt(k)' = BarAt(k) /\ barRows'[k] = barRows[k]
      BY <1>2, <2>4, Zenon
    <3> QED
      BY <3>1, Zenon
  <2>5. CASE k \in done /\ bars[k].prob
    <3>1. BarAt(k)'.trades = <<>> /\ barRows'[k] = Append(rows, s)
      BY <1>2, <2>1, <2>2, <2>3, <2>5, Zenon
    <3> QED
      BY <2>1, <2>2, <3>1, CountMoved, Zenon
  <2>6. CASE k \in done \cup gone /\ ~(k \in done /\ bars[k].prob)
    <3>1. BarAt(k)'.trades = <<>> /\ barRows'[k] = rows
      BY <1>2, <2>2, <2>3, <2>6, Zenon
    <3> QED
      BY <2>1, <2>2, <3>1, CountDropped, Zenon
  <2> QED
    BY <2>4, <2>5, <2>6, Zenon
<1> QED
  BY <1>1, <1>3, OthersCount, Zenon DEF Remembers, Room

(* The trade that was published is counted for the first time. *)
LEMMA CountsCount ==
    ASSUME TypeInv, WrittenInv, CountInv,
           NEW x \in Markets, NEW u \in Mine(x), Counts(x, u)
    PROVE  CountInv'
<1>1. /\ UNCHANGED <<happened, tradeRows, barRows, restarts>> /\ (Remembers' <=> Remembers)
      /\ Publishing(x, u)
      /\ \A m \in Markets, t \in Trade : Publishing(m, t)' => m # x /\ Publishing(m, t)
  BY Zenon DEF Counts, Remembers, Room
<1>2. PICK b \in Keys : /\ b = <<x, stamp[x]>>
                        /\ BarAt(b)'.trades = Append(BarAt(b).trades, u)
                        /\ \A y \in Keys : y # b => BarAt(y)' = BarAt(y)
  BY Zenon DEF Counts
<1>3. u \in Trade /\ u \in DOMAIN happened /\ happened[u].market = x
  BY TradesHappened DEF Mine
<1>4. PICK s \in Seq(Trade) : s = BarAt(b).trades
  BY KeyParts, Zenon
<1>5. PICK rows \in Seq(Seq(Trade)) : rows = barRows[b]
  BY KeyParts, Zenon
<1>6. /\ Values(Append(s, u), rows) = Values(s, rows) \cup {u}
      /\ CountedOnce(s, rows) /\ u \notin Values(s, rows) => CountedOnce(Append(s, u), rows)
  BY <1>3, CountAdded
<1>7. /\ Values(s, rows) \subseteq Countable(b)
      /\ Remembers => /\ CountedOnce(s, rows)
                      /\ \A m \in Markets, t \in Trade :
                            Publishing(m, t) => t \notin Values(s, rows)
  BY <1>4, <1>5, Zenon DEF CountInv
<1>8. u \in Countable(b)
  <2>1. u \in Range(tradeRows) /\ (u \notin Untimed => stamp[x] = happened[u].minute)
    BY <1>1, <1>3, Zenon DEF WrittenInv, PublishedInv
  <2>2. b[1] = x /\ b[2] = stamp[x]
    BY <1>2
  <2> QED
    BY <1>3, <2>1, <2>2, Zenon DEF Countable
<1>9. \A k \in Keys : Countable(k)' = Countable(k)
  BY <1>1, Zenon DEF Countable
(* Another task publishes a trade of another market. *)
<1>10. \A m \in Markets, t \in Trade : Publishing(m, t) /\ m # x => t # u
  <2>1. \A m \in Markets, t \in Trade : Publishing(m, t) => happened[t].market = m
    BY AtNewest, Zenon DEF Publishing, At, Mine
  <2> QED
    BY <1>3, <2>1, Zenon
<1>11. ASSUME NEW k \in Keys, k = b
       PROVE  /\ Values(BarAt(k)'.trades, barRows'[k]) \subseteq Countable(k)'
              /\ Remembers' => /\ CountedOnce(BarAt(k)'.trades, barRows'[k])
                               /\ \A m \in Markets, t \in Trade : Publishing(m, t)' =>
                                     t \notin Values(BarAt(k)'.trades, barRows'[k])
  <2>1. BarAt(k)'.trades = Append(s, u) /\ barRows'[k] = rows /\ Countable(k)' = Countable(b)
    BY <1>1, <1>2, <1>4, <1>5, <1>9, <1>11, Zenon
  <2>2. Values(Append(s, u), rows) \subseteq Countable(b)
    BY <1>6, <1>7, <1>8
  <2>3. Remembers => CountedOnce(Append(s, u), rows)
    BY <1>1, <1>3, <1>6, <1>7, Zenon
  <2>4. Remembers => \A m \in Markets, t \in Trade :
                        Publishing(m, t)' => t \notin Values(Append(s, u), rows)
    BY <1>1, <1>6, <1>7, <1>10, Zenon
  <2> QED
    BY <1>1, <2>1, <2>2, <2>3, <2>4, Zenon
<1>12. ASSUME NEW k \in Keys, k # b
       PROVE  /\ Values(BarAt(k)'.trades, barRows'[k]) \subseteq Countable(k)'
              /\ Remembers' => /\ CountedOnce(BarAt(k)'.trades, barRows'[k])
                               /\ \A m \in Markets, t \in Trade : Publishing(m, t)' =>
                                     t \notin Values(BarAt(k)'.trades, barRows'[k])
  <2>1. BarAt(k)' = BarAt(k) /\ barRows'[k] = barRows[k] /\ Countable(k)' = Countable(k)
    BY <1>1, <1>2, <1>9, <1>12, Zenon
  <2>2. /\ Values(BarAt(k).trades, barRows[k]) \subseteq Countable(k)
        /\ Remembers => /\ CountedOnce(BarAt(k).trades, barRows[k])
                        /\ \A m \in Markets, t \in Trade :
                              Publishing(m, t) => t \notin Values(BarAt(k).trades, barRows[k])
    BY Zenon DEF CountInv
  <2> QED
    BY <1>1, <2>1, <2>2, Zenon
<1> QED
  BY <1>11, <1>12, Zenon DEF CountInv

(* A step neither counts a trade that was not written nor counts one twice. *)
LEMMA CountStep == TypeInv /\ WrittenInv /\ CountInv /\ Shape => CountInv'
<1> SUFFICES ASSUME TypeInv, WrittenInv, CountInv, Shape PROVE CountInv'
  OBVIOUS
<1>1. CASE Clocks
  <2>1. \A k \in Keys : BarAt(k)'.trades = BarAt(k).trades /\ barRows'[k] = barRows[k]
    BY <1>1, Zenon DEF Clocks, BarAt
  <2>2. Remembers' => Remembers
    BY <1>1, ClocksRoom, Zenon DEF Clocks, Remembers
  <2>3. \A m \in Markets, t \in Trade : Publishing(m, t)' => Publishing(m, t)
    BY <1>1, Zenon DEF Clocks, Publishing, At
  <2>4. tradeRows' = tradeRows /\ \A t \in DOMAIN happened : happened'[t] = happened[t]
    BY <1>1, Zenon DEF Clocks
  <2>5. Range(tradeRows) \subseteq Range(tradeRows')
    BY <2>4
  <2> QED
    BY <2>1, <2>2, <2>3, <2>4, <2>5, SameCount, OthersCount, Zenon
<1>2. CASE Polls
  <2>1. UNCHANGED <<happened, tradeRows, barRows, restarts>>
    BY <1>2, Zenon DEF Polls
  <2>2. \A k \in Keys : BarAt(k)'.trades = BarAt(k).trades /\ barRows'[k] = barRows[k]
    BY <1>2, Zenon DEF Polls
  <2>3. \A m \in Markets, t \in Trade : Publishing(m, t)' => Publishing(m, t)
    BY <1>2, Zenon DEF Polls
  <2>4. Range(tradeRows) \subseteq Range(tradeRows')
    BY <2>1
  <2> QED
    BY <2>1, <2>2, <2>3, <2>4, SameCount, OthersCount, Zenon DEF Remembers, Room
<1>3. CASE Forgets
  <2>1. /\ UNCHANGED <<happened, tradeRows, barRows>> /\ ~Remembers'
        /\ \A k \in Keys : BarAt(k)' = NewBar
    BY <1>3, Zenon DEF Forgets, Remembers
  <2>2. ASSUME NEW k \in Keys
        PROVE  /\ Values(BarAt(k)'.trades, barRows'[k]) \subseteq
                  Values(BarAt(k).trades, barRows[k])
               /\ CountedOnce(BarAt(k).trades, barRows[k]) =>
                     CountedOnce(BarAt(k)'.trades, barRows'[k])
    <3>1. PICK s \in Seq(Trade) : s = BarAt(k).trades
      BY KeyParts, Zenon
    <3>2. PICK rows \in Seq(Seq(Trade)) : rows = barRows[k]
      BY KeyParts, Zenon
    <3>3. NewBar.trades = <<>>
      BY DEF NewBar
    <3>4. BarAt(k)'.trades = <<>> /\ barRows'[k] = rows
      BY <2>1, <3>2, <3>3, Zenon
    <3> QED
      BY <3>1, <3>2, <3>4, CountDropped, Zenon
  <2>3. Range(tradeRows) \subseteq Range(tradeRows')
    BY <2>1
  <2> QED
    BY <2>1, <2>2, <2>3, OthersCount, Zenon
<1>4. ASSUME NEW x \in Markets, NEW u \in Mine(x), Writes(x, u) PROVE CountInv'
  <2>1. /\ UNCHANGED <<happened, barRows, restarts>> /\ (Remembers' <=> Remembers)
        /\ \A k \in Keys : BarAt(k)'.trades = BarAt(k).trades /\ barRows'[k] = barRows[k]
        /\ tradeRows' = Append(tradeRows, u) /\ Id[u] \notin Range(seen)
    BY <1>4, Zenon DEF Writes, Remembers, Room, BarAt
  <2>2. Range(tradeRows) \subseteq Range(tradeRows')
    <3>1. u \in Trade /\ tradeRows \in Seq(Trade)
      BY TradesHappened DEF TypeInv, TypeOK
    <3>2. Range(Append(tradeRows, u)) = Range(tradeRows) \cup {u}
      BY <3>1, AppendElements
    <3> QED
      BY <2>1, <3>2
  <2>3. Remembers => \A k \in Keys : u \notin Values(BarAt(k).trades, barRows[k])
    <3>1. ASSUME Remembers, NEW k \in Keys PROVE u \notin Values(BarAt(k).trades, barRows[k])
      <4>1. Values(BarAt(k).trades, barRows[k]) \subseteq Countable(k)
        BY Zenon DEF CountInv
      <4>2. Countable(k) \subseteq Range(tradeRows)
        BY DEF Countable
      <4>3. u \notin Range(tradeRows)
        BY <2>1, <3>1, NewIsUnwritten
      <4> QED
        BY <4>1, <4>2, <4>3
    <3> QED
      BY <3>1, Zenon
  <2>4. Remembers' => \A m \in Markets, t \in Trade : Publishing(m, t)' =>
           \/ Publishing(m, t)
           \/ \A k \in Keys : t \notin Values(BarAt(k).trades, barRows[k])
    BY <1>4, <2>1, <2>3, Zenon DEF Writes
  <2> QED
    BY <2>1, <2>2, <2>4, SameCount, OthersCount, Zenon
<1>5. ASSUME NEW x \in Markets, NEW u \in Mine(x), Counts(x, u) PROVE CountInv'
  BY <1>5, CountsCount
<1>6. ASSUME NEW done \in SUBSET DOMAIN bars, NEW gone \in SUBSET DOMAIN bars,
             Flushes(done, gone)
      PROVE  CountInv'
  BY <1>6, FlushesCount
<1> QED
  BY <1>1, <1>2, <1>3, <1>4, <1>5, <1>6, Zenon DEF Shape

(* Volume is never invented: a bar counts only trades that pm_trades has,  *)
(* in the market and the minute they happened in; and no trade is counted  *)
(* twice while the dedup set remembers, whatever is flushed, stopped or    *)
(* fails while the trade is being published.                               *)
THEOREM BarsCountWrittenTradesInvariant == Spec => []BarsCountWrittenTrades
<1>1. Init => CountInv
  <2> SUFFICES ASSUME Init, NEW k \in Keys
               PROVE  /\ Values(BarAt(k).trades, barRows[k]) = {}
                      /\ CountedOnce(BarAt(k).trades, barRows[k])
    BY Zenon DEF CountInv
  <2>1. BarAt(k).trades = <<>> /\ barRows[k] = <<>>
    BY DEF Init, BarAt, NoBars, NewBar
  <2>2. Cells(<<>>, <<>>) = {}
    BY DEF Cells
  <2> QED
    BY <2>1, <2>2, Zenon DEF Values, CountedOnce
<1>2. TypeInv /\ WrittenInv /\ CountInv /\ [Next]_vars => CountInv'
  BY Shaped, CountStep
<1>3. TypeInv /\ CountInv => BarsCountWrittenTrades
  <2> SUFFICES ASSUME TypeInv, CountInv, NEW k \in Keys
               PROVE  /\ \A c \in Counted(k) :
                            LET t == CountedAt(k, c)
                            IN  /\ t \in Range(tradeRows) /\ happened[t].market = k[1]
                                /\ t \notin Untimed => happened[t].minute = k[2]
                      /\ Remembers => \A c, d \in Counted(k) :
                            CountedAt(k, c) = CountedAt(k, d) => c = d
    BY Zenon DEF BarsCountWrittenTrades, Remembers, Room
  <2>1. /\ Counted(k) = Cells(BarAt(k).trades, barRows[k])
        /\ \A c : CountedAt(k, c) = CellAt(BarAt(k).trades, barRows[k], c)
    BY Zenon DEF Counted, CountedAt, Cells, CellAt
  <2>2. ASSUME NEW c \in Counted(k) PROVE CountedAt(k, c) \in Countable(k)
    BY <2>1, Zenon DEF CountInv, Values
  <2>3. Remembers => CountedOnce(BarAt(k).trades, barRows[k])
    BY Zenon DEF CountInv
  <2>4. Remembers => \A c, d \in Counted(k) : CountedAt(k, c) = CountedAt(k, d) => c = d
    BY <2>1, <2>3, Zenon DEF CountedOnce
  <2> QED
    BY <2>2, <2>4, Zenon DEF Countable
<1> QED
  BY <1>1, <1>2, <1>3, WrittenInvariant, PTL DEF Spec

==============================================================================
