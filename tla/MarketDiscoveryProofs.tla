------------------------- MODULE MarketDiscoveryProofs -------------------------
(***************************************************************************)
(* Theorems about discovery, backfill and the stale counter of the         *)
(* Polymarket collector, for any exchange, any page size and threshold,    *)
(* and any number of openings, closings, failures and restarts.            *)
(***************************************************************************)
EXTENDS MarketDiscovery, SequenceTheorems, TLAPS

(* The types, part by part: the objects and who holds them, the exchange   *)
(* and the counts, the backfill.                                           *)
Tradable == {m \in Markets : Info[m].id /\ Info[m].token}
Objects ==
    /\ DOMAIN orphan \subseteq polling /\ polling \subseteq DOMAIN active
    /\ DOMAIN active \subseteq Tradable
    /\ \A m \in DOMAIN active : active[m] \in Counter
    /\ \A m \in DOMAIN orphan : orphan[m] \in Counter
    /\ silent \in [Markets -> 0 .. StaleAfter] /\ stale \subseteq Markets
Around ==
    /\ listing \in Seq(Markets) /\ offset \in Nat
    /\ churn \in 0 .. MaxChurn /\ failures \in 0 .. MaxFailures
    /\ restarts \in 0 .. MaxRestarts
Loading ==
    /\ phase \in {"boot", "discover", "history", "run"} /\ rate \in {"full", "half"}
    /\ todo \cup unsent \subseteq DOMAIN active /\ stored \in [Markets -> Nat]
    /\ barStored \in BOOLEAN /\ blind \in BOOLEAN /\ resent \subseteq Markets
Types == Objects /\ Around /\ Loading

(* Why no alarm is false.  A counter never exceeds the polls without a     *)
(* price, until these are enough for the alarm; and an object that         *)
(* replaced the one of a poll under way counts nothing before that poll is *)
(* over, so that a price the poll finds makes no older count a lie.        *)
Deserved(n, m) == n <= silent[m] \/ silent[m] = StaleAfter
CountersDeserved ==
    /\ \A m \in DOMAIN active : Deserved(active[m], m)
    /\ \A m \in DOMAIN orphan : Deserved(orphan[m], m) /\ active[m] = 0

(* Why the backfill is exact.  Until it loads histories nothing waits in   *)
(* the sender, and when the check was right nothing is stored either; the  *)
(* markets it has yet to load are untouched.  Only it lowers the rate.     *)
NothingSentYet == phase \in {"boot", "discover"} => unsent = {}
Untouched == ~blind =>
    /\ phase = "discover" => \A m \in Markets : stored[m] = 0
    /\ phase = "history"  => \A m \in todo : stored[m] = 0 /\ m \notin unsent
RateLowered == phase # "history" => rate = "full"
BackfillInv == NothingSentYet /\ Untouched /\ HistoryOnce /\ RateLowered

IInv == Types /\ CountersDeserved /\ BackfillInv

(* The parts make the type invariant. *)
LEMMA TypesGiveTypeOK == Types => TypeOK
  BY Zenon DEF Types, Objects, Around, Loading, TypeOK, Tradable

--------------------------------------------------------------------------------
(* A page of the listing. *)

(* A page is a sequence of markets, wherever the cycle stands.             *)
LEMMA PageIsSeq ==
    ASSUME listing \in Seq(Markets), offset \in Nat
    PROVE  Page \in Seq(Markets)
<1> DEFINE rest == IF offset < Len(listing) THEN Len(listing) - offset ELSE 0
           last == offset + (IF rest < PageSize THEN rest ELSE PageSize)
<1>1. Len(listing) \in Nat /\ PageSize \in Nat
  BY DiscoveryAssumption
<1>2. last \in Int /\ offset + 1 \in Int /\ \A i \in offset + 1 .. last : i \in 1 .. Len(listing)
  BY <1>1
<1>3. \A i \in offset + 1 .. last : listing[i] \in Markets
  BY <1>2
<1> HIDE DEF last
<1>4. SubSeq(listing, offset + 1, last) \in Seq(Markets)
  BY <1>2, <1>3, SubSeqProperties
<1> QED
  BY <1>4 DEF Page, last

(* So is the part of one that a cycle handled before it failed. *)
LEMMA PrefixIsSeq ==
    ASSUME NEW p \in Seq(Markets), NEW n \in 0 .. Len(p)
    PROVE  SubSeq(p, 1, n) \in Seq(Markets)
<1>1. \A i \in 1 .. n : p[i] \in Markets
  OBVIOUS
<1> QED
  BY <1>1, SubSeqProperties

(* What is tracked has an identifier and a token: a market without either  *)
(* is left out, and one whose volume is no number is not parsed.           *)
LEMMA FoundIsTradable ==
    ASSUME NEW p \in Seq(Markets)
    PROVE  Found(p) \subseteq Tradable
<1> SUFFICES ASSUME NEW i \in Readable(p), ~Skipped(p[i]) PROVE p[i] \in Tradable
  BY DEF Found
<1>1. i \in DOMAIN p /\ i \in 1 .. i /\ p[i] \in Markets
  BY DEF Readable
<1>2. ~Raises(p[i])
  BY <1>1 DEF Readable
<1> QED
  BY <1>1, <1>2, Zenon DEF Skipped, Raises, Tradable

(* Tracking keeps the objects well formed, and forgets no market. *)
LEMMA TrackObjects ==
    ASSUME Objects, NEW ms \in SUBSET Tradable, Track(ms), UNCHANGED <<polling, silent, stale>>
    PROVE  Objects' /\ DOMAIN active \subseteq DOMAIN active'
<1>1. 0 \in Counter
  BY DiscoveryAssumption DEF Counter
<1>2. \A m \in polling : Skips(m) \in Counter
  BY DEF Objects, Skips
<1>3. DOMAIN active' = ms \cup DOMAIN active
      /\ \A m \in DOMAIN active' : active'[m] = IF m \in ms THEN 0 ELSE active[m]
  BY DEF Track
<1>4. DOMAIN orphan' = DOMAIN orphan \cup (ms \cap polling)
      /\ \A m \in DOMAIN orphan' : orphan'[m] = Skips(m)
  BY DEF Track
<1> QED
  BY <1>1, <1>2, <1>3, <1>4 DEF Objects

(* The end of a cycle, and of the discovery inside backfill_history. *)
LEMMA EndCycleFacts ==
    ASSUME Types, NEW ok \in BOOLEAN, EndCycle(ok), DOMAIN active \subseteq DOMAIN active'
    PROVE  /\ offset' \in Nat
           /\ phase' \in {"boot", "discover", "history", "run"} /\ rate' \in {"full", "half"}
           /\ todo' \subseteq DOMAIN active'
<1>1. offset' \in Nat
  BY DiscoveryAssumption DEF EndCycle, NoCycle
<1>2. todo \subseteq DOMAIN active
  BY DEF Types, Loading
<1> QED
  BY <1>1, <1>2, Zenon DEF EndCycle, Types, Loading

--------------------------------------------------------------------------------
(* Types. *)

(* The process starts with nothing tracked and nothing sent. *)
LEMMA InitTypes == Init => Types
<1> SUFFICES ASSUME Init PROVE Types
  OBVIOUS
<1>1. DOMAIN NoOne = {}
  BY DEF NoOne
<1>2. Objects
  BY <1>1, DiscoveryAssumption DEF Init, Objects
<1>3. Around
  BY DiscoveryAssumption DEF Init, Around, NoCycle
<1>4. Loading
  BY DEF Init, Loading
<1> QED
  BY <1>2, <1>3, <1>4 DEF Types

(* The exchange opens a market, or closes one. *)
LEMMA ExchangeTypes ==
    ASSUME Types, NEW m \in Markets, Open(m) \/ Close(m)
    PROVE  Types'
<1>1. UNCHANGED <<phase, offset, active, polls, backfill, barStored, faults>>
  BY DEF Open, Close
<1>2. listing' \in Seq(Markets) /\ churn' \in 0 .. MaxChurn
  <2>1. CASE Open(m)
    BY <2>1, DiscoveryAssumption DEF Types, Around, Open
  <2>2. CASE Close(m)
    <3>1. churn' \in 0 .. MaxChurn
      BY <2>2, DiscoveryAssumption DEF Types, Around, Close
    <3>2. PICK i \in DOMAIN listing :
            listing' = SubSeq(listing, 1, i - 1) \o SubSeq(listing, i + 1, Len(listing))
      BY <2>2 DEF Close
    <3>3. /\ \A j \in 1 .. i - 1 : listing[j] \in Markets
          /\ \A j \in i + 1 .. Len(listing) : listing[j] \in Markets
          /\ i \in Int /\ Len(listing) \in Int
      <4>1. listing \in Seq(Markets) /\ i \in 1 .. Len(listing) /\ Len(listing) \in Nat
        BY DEF Types, Around
      <4> QED
        BY <4>1
    <3>4. /\ SubSeq(listing, 1, i - 1) \in Seq(Markets)
          /\ SubSeq(listing, i + 1, Len(listing)) \in Seq(Markets)
      BY <3>3, SubSeqProperties
    <3> QED
      BY <3>1, <3>2, <3>4, ConcatProperties
  <2> QED
    BY <2>1, <2>2
<1>3. Objects' /\ Loading'
  BY <1>1, Zenon DEF Types, Objects, Loading, polls, backfill, faults, Counter
<1>4. Around'
  BY <1>1, <1>2 DEF Types, Around, faults
<1> QED
  BY <1>3, <1>4 DEF Types

(* A discovery cycle begins, or its next page arrives or does not. *)
LEMMA DiscoveryTypes ==
    ASSUME Types, StartCycle \/ DiscoverPage \/ DiscoverFails
    PROVE  Types'
<1>1. CASE StartCycle
  <2>1. Objects' /\ Loading'
    BY <1>1, Zenon DEF StartCycle, Types, Objects, Loading, polls, backfill, faults, Counter
  <2>2. Around'
    BY <1>1 DEF StartCycle, Types, Around, faults
  <2> QED
    BY <2>1, <2>2 DEF Types
<1>2. CASE DiscoverPage
  <2>1. Found(Page) \in SUBSET Tradable
    BY PageIsSeq, FoundIsTradable DEF Types, Around
  <2>2. Objects' /\ DOMAIN active \subseteq DOMAIN active'
    BY <1>2, <2>1, TrackObjects, Zenon DEF DiscoverPage, Types
  <2>3. /\ offset' \in Nat
        /\ phase' \in {"boot", "discover", "history", "run"} /\ rate' \in {"full", "half"}
        /\ todo' \subseteq DOMAIN active'
    <3>1. CASE EndCycle(TRUE) \/ EndCycle(FALSE)
      BY <2>2, <3>1, EndCycleFacts
    <3>2. CASE offset' = offset + PageSize /\ UNCHANGED <<phase, rate, todo>>
      BY <2>2, <3>2, DiscoveryAssumption DEF Types, Around, Loading
    <3> QED
      BY <1>2, <3>1, <3>2, Zenon DEF DiscoverPage
  <2>4. UNCHANGED <<listing, unsent, stored, barStored, churn, faults>>
    BY <1>2 DEF DiscoverPage
  <2>5. Around'
    BY <2>3, <2>4 DEF Types, Around, faults
  <2>6. Loading'
    BY <2>2, <2>3, <2>4, Zenon DEF Types, Loading, faults
  <2> QED
    BY <2>2, <2>5, <2>6 DEF Types
<1>3. CASE DiscoverFails
  <2>1. PICK n \in 0 .. Len(Page) : Track(Found(SubSeq(Page, 1, n)))
    BY <1>3 DEF DiscoverFails
  <2>2. Found(SubSeq(Page, 1, n)) \in SUBSET Tradable
    BY PageIsSeq, PrefixIsSeq, FoundIsTradable DEF Types, Around
  <2>3. Objects' /\ DOMAIN active \subseteq DOMAIN active'
    BY <1>3, <2>1, <2>2, TrackObjects, Zenon DEF DiscoverFails, Types
  <2>4. /\ offset' \in Nat
        /\ phase' \in {"boot", "discover", "history", "run"} /\ rate' \in {"full", "half"}
        /\ todo' \subseteq DOMAIN active'
    BY <1>3, <2>3, EndCycleFacts DEF DiscoverFails
  <2>5. UNCHANGED <<listing, unsent, stored, barStored, churn, restarts, blind, resent>>
    BY <1>3 DEF DiscoverFails
  <2>6. Around'
    BY <1>3, <2>4, <2>5, DiscoveryAssumption DEF DiscoverFails, Types, Around
  <2>7. Loading'
    BY <2>3, <2>4, <2>5, Zenon DEF Types, Loading
  <2> QED
    BY <2>3, <2>6, <2>7 DEF Types
<1> QED
  BY <1>1, <1>2, <1>3

(* backfill_history, and the sender. *)
LEMMA BackfillTypes ==
    ASSUME Types, CheckBackfill \/ EndBackfill \/ Commit \/ CommitFails \/ \E m \in Markets : LoadHistory(m)
    PROVE  Types'
<1>1. Objects'
  BY Zenon DEF CheckBackfill, EndBackfill, Commit, CommitFails, LoadHistory, Types, Objects, polls, Counter
<1>2. Around'
  BY DiscoveryAssumption DEF CheckBackfill, EndBackfill, Commit, CommitFails, LoadHistory, HistoryFails,
                             Types, Around, faults
<1>3. Loading'
  <2>1. CASE CheckBackfill
    BY <2>1, Zenon DEF CheckBackfill, Types, Loading, backfill, faults
  <2>2. CASE EndBackfill
    BY <2>2, Zenon DEF EndBackfill, Types, Loading, faults
  <2>3. CASE Commit \/ CommitFails
    <3>1. stored' \in [Markets -> Nat]
      BY <2>3 DEF Commit, CommitFails, Store, Types, Loading
    <3>2. unsent' \subseteq unsent /\ UNCHANGED <<phase, rate, todo, active, barStored, blind>>
      BY <2>3 DEF Commit, CommitFails, faults
    <3>3. resent' \subseteq resent \cup unsent
      BY <2>3 DEF Commit, CommitFails, faults
    <3>4. DOMAIN active \subseteq Markets
      BY DEF Types, Objects, Tradable
    <3> QED
      BY <3>1, <3>2, <3>3, <3>4 DEF Types, Loading
  <2>4. CASE \E m \in Markets : LoadHistory(m)
    <3>1. PICK m \in Markets : LoadHistory(m)
      BY <2>4
    <3>2. unsent' \cup todo' \subseteq DOMAIN active'
      BY <3>1 DEF LoadHistory, HistoryFails, Types, Loading
    <3> QED
      BY <3>1, <3>2, Zenon DEF LoadHistory, HistoryFails, Types, Loading
  <2> QED
    BY <2>1, <2>2, <2>3, <2>4
<1> QED
  BY <1>1, <1>2, <1>3 DEF Types

(* What the end of a poll does to the objects. *)
LEMMA EndPollObjects ==
    ASSUME Objects, NEW m \in polling, NEW n \in Counter, EndPoll(m, n),
           silent' \in [Markets -> 0 .. StaleAfter], stale' \subseteq Markets
    PROVE  Objects' /\ DOMAIN active' = DOMAIN active
<1>1. m \in DOMAIN active
  BY DEF Objects
<1>2. /\ DOMAIN active' = DOMAIN active
      /\ \A x \in DOMAIN active : active'[x] = active[x] \/ active'[x] = n
  BY <1>1 DEF EndPoll
<1>3. DOMAIN orphan' = DOMAIN orphan \ {m} /\ \A x \in DOMAIN orphan' : orphan'[x] = orphan[x]
  BY DEF EndPoll
<1>4. polling' = polling \ {m}
  BY DEF EndPoll
<1> QED
  BY <1>2, <1>3, <1>4 DEF Objects

(* The polls. *)
LEMMA PollTypes ==
    ASSUME Types, NEW m \in Markets, PollPriced(m) \/ PollSkipped(m) \/ PollRaises(m)
    PROVE  Types'
<1>1. m \in polling /\ Objects /\ m \in DOMAIN active
  BY DEF PollPriced, PollSkipped, PollRaises, Types, Objects
<1>2. Skips(m) \in Counter
  BY <1>1 DEF Skips, Objects
<1>3. StaleAfter \in Nat \ {0} /\ Counter = 0 .. StaleAfter + 1
  BY DiscoveryAssumption DEF Counter
<1>4. CountUp(Skips(m), StaleAfter + 1) \in Counter
  BY <1>2, <1>3 DEF CountUp
<1>5. silent \in [Markets -> 0 .. StaleAfter] /\ CountUp(silent[m], StaleAfter) \in 0 .. StaleAfter
  BY <1>1, <1>3 DEF Objects, CountUp
<1>6. Objects' /\ DOMAIN active' = DOMAIN active
  <2>1. CASE PollPriced(m)
    <3>1. silent' \in [Markets -> 0 .. StaleAfter] /\ stale' \subseteq Markets
          /\ 0 \in Counter /\ EndPoll(m, 0)
      BY <2>1, <1>1, <1>3 DEF PollPriced, Objects
    <3> QED
      BY <3>1, <1>1, EndPollObjects
  <2>2. CASE PollSkipped(m)
    <3>1. silent' \in [Markets -> 0 .. StaleAfter]
      BY <2>2, <1>5 DEF PollSkipped
    <3>2. stale' \subseteq Markets /\ EndPoll(m, CountUp(Skips(m), StaleAfter + 1))
      BY <2>2, <1>1 DEF PollSkipped, Objects
    <3> QED
      BY <3>1, <3>2, <1>1, <1>4, EndPollObjects
  <2>3. CASE PollRaises(m)
    <3>1. silent' = silent /\ stale' = stale /\ EndPoll(m, Skips(m))
      BY <2>3 DEF PollRaises
    <3>2. silent' \in [Markets -> 0 .. StaleAfter] /\ stale' \subseteq Markets
      BY <3>1, <1>1 DEF Objects
    <3> QED
      BY <3>1, <3>2, <1>1, <1>2, EndPollObjects
  <2> QED
    BY <2>1, <2>2, <2>3
<1>7. UNCHANGED <<listing, phase, offset, backfill, churn, faults>>
      /\ barStored' \in {barStored, TRUE}
  BY Zenon DEF PollPriced, PollSkipped, PollRaises
<1>8. Around'
  BY <1>7 DEF Types, Around, faults
<1>9. Loading'
  BY <1>6, <1>7, Zenon DEF Types, Loading, backfill, faults
<1> QED
  BY <1>6, <1>8, <1>9 DEF Types

(* A round of polls begins, or the process is killed and a new one started. *)
LEMMA RoundTypes ==
    ASSUME Types, StartRound \/ Restart
    PROVE  Types'
<1>1. CASE StartRound
  <2>1. DOMAIN orphan \subseteq polling' /\ polling' \subseteq DOMAIN active
    BY <1>1 DEF StartRound, Types, Objects
  <2>2. Objects' /\ Loading'
    BY <1>1, <2>1, Zenon DEF StartRound, Types, Objects, Loading, backfill, faults, Counter
  <2>3. Around'
    BY <1>1 DEF StartRound, Types, Around, faults
  <2> QED
    BY <2>2, <2>3 DEF Types
<1>2. CASE Restart
  <2>1. DOMAIN NoOne = {}
    BY DEF NoOne
  <2>2. Objects'
    BY <1>2, <2>1, DiscoveryAssumption DEF Restart, Objects
  <2>3. Around'
    BY <1>2, DiscoveryAssumption DEF Restart, Types, Around, NoCycle
  <2>4. Loading'
    BY <1>2, Zenon DEF Restart, Types, Loading
  <2> QED
    BY <2>2, <2>3, <2>4 DEF Types
<1> QED
  BY <1>1, <1>2

(* Every step keeps the types. *)
LEMMA StepTypes == Types /\ [Next]_vars => Types'
<1> SUFFICES ASSUME Types, [Next]_vars PROVE Types'
  OBVIOUS
<1>1. CASE Next
  BY <1>1, ExchangeTypes, DiscoveryTypes, BackfillTypes, PollTypes, RoundTypes DEF Next
<1>2. CASE UNCHANGED vars
  BY <1>2, Zenon DEF vars, polls, backfill, faults, Types, Objects, Around, Loading, Counter
<1> QED
  BY <1>1, <1>2

--------------------------------------------------------------------------------
(* The stale counter. *)

(* Nothing is counted yet. *)
LEMMA InitCounters == Init => CountersDeserved
  BY DEF Init, CountersDeserved, NoOne

(* Tracking: a new object has counted nothing, and a poll under way takes  *)
(* the count of the old one with it.                                       *)
LEMMA TrackCounters ==
    ASSUME Types, CountersDeserved, NEW ms \in SUBSET Tradable, Track(ms), UNCHANGED silent
    PROVE  CountersDeserved'
<1>1. \A m \in Markets : silent[m] \in 0 .. StaleAfter
  BY DEF Types, Objects
<1>2. DOMAIN active' = ms \cup DOMAIN active
      /\ \A m \in DOMAIN active' : active'[m] = IF m \in ms THEN 0 ELSE active[m]
  BY DEF Track
<1>3. DOMAIN orphan' = DOMAIN orphan \cup (ms \cap polling)
      /\ \A m \in DOMAIN orphan' : orphan'[m] = Skips(m)
  BY DEF Track
<1>4. \A m \in polling : Deserved(Skips(m), m)
  BY DEF Types, Objects, CountersDeserved, Skips
<1>5. ms \subseteq Markets /\ StaleAfter \in Nat
  BY DiscoveryAssumption DEF Tradable
<1>6. \A m \in DOMAIN active' : Deserved(active'[m], m)
  BY <1>1, <1>2, <1>5 DEF CountersDeserved, Deserved
<1>7. \A m \in DOMAIN orphan' : Deserved(orphan'[m], m) /\ active'[m] = 0
  BY <1>2, <1>3, <1>4 DEF Types, Objects, CountersDeserved
<1> QED
  BY <1>6, <1>7 DEF CountersDeserved, Deserved

(* A step that touches no object and no count. *)
LEMMA SameCounters ==
    ASSUME CountersDeserved, UNCHANGED <<active, orphan, silent>>
    PROVE  CountersDeserved'
  BY DEF CountersDeserved, Deserved

(* A poll ends and leaves its object with n skips, when silent' allows n.  *)
LEMMA EndPollCounters ==
    ASSUME Types, CountersDeserved, NEW m \in polling, NEW n \in Counter, EndPoll(m, n),
           silent' \in [Markets -> 0 .. StaleAfter],
           \A x \in Markets \ {m} : silent'[x] = silent[x],
           n <= silent'[m] \/ silent'[m] = StaleAfter
    PROVE  CountersDeserved'
<1>1. /\ polling \subseteq DOMAIN active /\ DOMAIN orphan \subseteq polling
      /\ DOMAIN active \subseteq Markets
  BY DEF Types, Objects, Tradable
<1>2. 0 <= silent'[m]
  BY <1>1, DiscoveryAssumption
<1>3. /\ DOMAIN active' = DOMAIN active
      /\ \A x \in DOMAIN active \ {m} : active'[x] = active[x]
      /\ active'[m] = IF m \in DOMAIN orphan THEN active[m] ELSE n
  BY <1>1 DEF EndPoll
<1>4. DOMAIN orphan' = DOMAIN orphan \ {m} /\ \A x \in DOMAIN orphan' : orphan'[x] = orphan[x]
  BY DEF EndPoll
<1>5. ASSUME NEW x \in DOMAIN active' PROVE active'[x] <= silent'[x] \/ silent'[x] = StaleAfter
  <2>1. CASE x = m
    BY <1>2, <1>3, <2>1 DEF Deserved, CountersDeserved
  <2>2. CASE x # m
    BY <1>1, <1>3, <2>2 DEF Deserved, CountersDeserved
  <2> QED
    BY <2>1, <2>2
<1>6. ASSUME NEW x \in DOMAIN orphan'
      PROVE  (orphan'[x] <= silent'[x] \/ silent'[x] = StaleAfter) /\ active'[x] = 0
  BY <1>1, <1>3, <1>4 DEF Deserved, CountersDeserved
<1> QED
  BY <1>5, <1>6 DEF CountersDeserved, Deserved

(* The polls.  A price sets both the count and its measure to zero, a skip *)
(* adds one to both; the count goes on past the threshold, where the       *)
(* measure stays.                                                          *)
LEMMA PollCounters ==
    ASSUME Types, CountersDeserved, NEW m \in Markets,
           PollPriced(m) \/ PollSkipped(m) \/ PollRaises(m)
    PROVE  CountersDeserved'
<1>1. m \in polling /\ m \in DOMAIN active
  BY DEF PollPriced, PollSkipped, PollRaises, Types, Objects
<1>2. Skips(m) \in Counter /\ (Skips(m) <= silent[m] \/ silent[m] = StaleAfter)
  BY <1>1 DEF Skips, Types, Objects, CountersDeserved, Deserved
<1>3. StaleAfter \in Nat \ {0} /\ Counter = 0 .. StaleAfter + 1
  BY DiscoveryAssumption DEF Counter
<1>4. silent \in [Markets -> 0 .. StaleAfter]
  BY DEF Types, Objects
<1>5. CASE PollPriced(m)
  <2>1. /\ silent' \in [Markets -> 0 .. StaleAfter]
        /\ \A x \in Markets \ {m} : silent'[x] = silent[x]
        /\ 0 <= silent'[m] /\ 0 \in Counter /\ EndPoll(m, 0)
    BY <1>3, <1>4, <1>5 DEF PollPriced
  <2> QED
    BY <1>1, <2>1, EndPollCounters
<1>6. CASE PollSkipped(m)
  <2>1. /\ silent' \in [Markets -> 0 .. StaleAfter]
        /\ \A x \in Markets \ {m} : silent'[x] = silent[x]
        /\ silent'[m] = IF silent[m] < StaleAfter THEN silent[m] + 1 ELSE StaleAfter
    BY <1>3, <1>4, <1>6 DEF PollSkipped, CountUp
  <2> DEFINE n == CountUp(Skips(m), StaleAfter + 1)
  <2>2. n \in Counter /\ (n <= silent'[m] \/ silent'[m] = StaleAfter)
    BY <1>2, <1>3, <1>4, <2>1 DEF CountUp
  <2>3. EndPoll(m, n)
    BY <1>6 DEF PollSkipped
  <2> HIDE DEF n
  <2> QED
    BY <1>1, <2>1, <2>2, <2>3, EndPollCounters
<1>7. CASE PollRaises(m)
  <2>1. silent' = silent /\ EndPoll(m, Skips(m))
    BY <1>7 DEF PollRaises
  <2> QED
    BY <1>1, <1>2, <1>4, <2>1, EndPollCounters
<1> QED
  BY <1>5, <1>6, <1>7

(* Every step keeps the counters deserved. *)
LEMMA StepCounters == Types /\ CountersDeserved /\ [Next]_vars => CountersDeserved'
<1> SUFFICES ASSUME Types, CountersDeserved, [Next]_vars PROVE CountersDeserved'
  OBVIOUS
<1>1. CASE StartCycle \/ CheckBackfill \/ EndBackfill \/ Commit \/ CommitFails \/ StartRound
  BY <1>1, SameCounters DEF StartCycle, CheckBackfill, EndBackfill, Commit, CommitFails, StartRound, polls
<1>2. CASE DiscoverPage
  <2>1. Found(Page) \in SUBSET Tradable
    BY PageIsSeq, FoundIsTradable DEF Types, Around
  <2> QED
    BY <1>2, <2>1, TrackCounters DEF DiscoverPage
<1>3. CASE DiscoverFails
  <2>1. PICK n \in 0 .. Len(Page) : Track(Found(SubSeq(Page, 1, n)))
    BY <1>3 DEF DiscoverFails
  <2>2. Found(SubSeq(Page, 1, n)) \in SUBSET Tradable
    BY PageIsSeq, PrefixIsSeq, FoundIsTradable DEF Types, Around
  <2> QED
    BY <1>3, <2>1, <2>2, TrackCounters DEF DiscoverFails
<1>4. CASE Restart
  BY <1>4 DEF Restart, NoOne, CountersDeserved
<1>5. CASE \E m \in Markets : Open(m) \/ Close(m) \/ LoadHistory(m)
  BY <1>5, SameCounters DEF Open, Close, LoadHistory, polls
<1>6. CASE \E m \in Markets : PollPriced(m) \/ PollSkipped(m) \/ PollRaises(m)
  BY <1>6, PollCounters
<1>7. CASE UNCHANGED vars
  BY <1>7, SameCounters DEF vars, polls
<1> QED
  BY <1>1, <1>2, <1>3, <1>4, <1>5, <1>6, <1>7 DEF Next

(* Where the alarm is raised the count is one short of the threshold, and  *)
(* the polls without a price were at least as many.                        *)
LEMMA StepStale ==
    Types /\ CountersDeserved /\ [Next]_vars =>
        [\A m \in stale' \ stale : silent'[m] = StaleAfter]_vars
<1> SUFFICES ASSUME Types, CountersDeserved, Next, NEW m \in stale' \ stale
             PROVE  silent'[m] = StaleAfter
  OBVIOUS
<1>1. m \in Markets /\ PollSkipped(m) /\ Skips(m) + 1 = StaleAfter
  BY DEF Next, StartCycle, DiscoverPage, DiscoverFails, CheckBackfill, EndBackfill, Commit, CommitFails,
         StartRound, Restart, Open, Close, LoadHistory, PollPriced, PollSkipped, PollRaises, polls
<1>2. m \in DOMAIN active
  BY <1>1 DEF PollSkipped, Types, Objects
<1>3. Skips(m) \in Counter /\ (Skips(m) <= silent[m] \/ silent[m] = StaleAfter)
  BY <1>2 DEF Skips, Types, Objects, CountersDeserved, Deserved
<1>4. silent \in [Markets -> 0 .. StaleAfter] /\ StaleAfter \in Nat \ {0}
  BY DiscoveryAssumption DEF Types, Objects
<1>5. silent'[m] = IF silent[m] < StaleAfter THEN silent[m] + 1 ELSE StaleAfter
  BY <1>1, <1>4 DEF PollSkipped, CountUp
<1> QED
  BY <1>1, <1>3, <1>4, <1>5 DEF Counter

--------------------------------------------------------------------------------
(* The backfill. *)

(* Nothing is sent, nothing is stored and the rate is full. *)
LEMMA InitBackfill == Init => BackfillInv
  BY DEF Init, BackfillInv, NothingSentYet, Untouched, HistoryOnce, RateLowered

(* A step that touches neither the stage of the backfill nor its rows. *)
LEMMA SameBackfill ==
    ASSUME BackfillInv, UNCHANGED <<phase, backfill, blind, resent>>
    PROVE  BackfillInv'
  BY Zenon DEF BackfillInv, NothingSentYet, Untouched, HistoryOnce, RateLowered, backfill

(* The end of a cycle: the histories are loaded only after a whole cycle   *)
(* inside backfill_history, and until then none is stored.                 *)
LEMMA EndCycleBackfill ==
    ASSUME Types, BackfillInv, NEW ok \in BOOLEAN, EndCycle(ok),
           DOMAIN active' \subseteq Markets, UNCHANGED <<unsent, stored, blind, resent>>
    PROVE  BackfillInv'
<1>1. CASE phase # "discover"
  BY <1>1, Zenon DEF EndCycle, BackfillInv, NothingSentYet, Untouched, HistoryOnce, RateLowered
<1>2. CASE phase = "discover"
  <2>1. unsent = {} /\ rate = "full" /\ (~blind => \A m \in Markets : stored[m] = 0)
    BY <1>2 DEF BackfillInv, NothingSentYet, Untouched, RateLowered
  <2>2. /\ phase' = IF ok THEN "history" ELSE "run"
        /\ rate' = IF ok THEN "half" ELSE rate
        /\ todo' = IF ok THEN DOMAIN active' ELSE {}
    BY <1>2 DEF EndCycle
  <2>3. HistoryOnce'
    BY DEF BackfillInv, HistoryOnce
  <2>4. NothingSentYet' /\ RateLowered'
    BY <2>1, <2>2 DEF NothingSentYet, RateLowered
  <2>5. Untouched'
    BY <2>1, <2>2 DEF Untouched
  <2> QED
    BY <2>3, <2>4, <2>5 DEF BackfillInv
<1> QED
  BY <1>1, <1>2

(* The check: it lets a backfill begin on an empty table, or blindly. *)
LEMMA CheckBackfillInv ==
    ASSUME Types, BackfillInv, CheckBackfill
    PROVE  BackfillInv'
<1>1. phase = "boot" /\ phase' \in {"discover", "run"} /\ UNCHANGED <<backfill, resent>>
  BY DEF CheckBackfill, faults
<1>2. (blind => blind') /\ (~blind' /\ phase' = "discover" => \A m \in Markets : stored[m] = 0)
  <2>1. CASE NeedsBackfill /\ UNCHANGED faults
    BY <2>1 DEF NeedsBackfill, faults
  <2>2. CASE phase' = "run" /\ UNCHANGED <<offset, faults>>
    BY <2>2 DEF faults
  <2>3. CASE blind' = TRUE
    BY <2>3
  <2> QED
    BY <2>1, <2>2, <2>3 DEF CheckBackfill
<1>3. NothingSentYet' /\ RateLowered'
  BY <1>1 DEF BackfillInv, NothingSentYet, RateLowered, backfill
<1>4. Untouched'
  BY <1>1, <1>2, Zenon DEF Untouched, backfill
<1>5. HistoryOnce'
  BY <1>1, <1>2 DEF BackfillInv, HistoryOnce, backfill
<1> QED
  BY <1>3, <1>4, <1>5 DEF BackfillInv

(* One history is handed to the sender, whole, in part or not at all: the  *)
(* market is no longer to be loaded.                                       *)
LEMMA LoadHistoryInv ==
    ASSUME Types, BackfillInv, NEW m \in Markets, LoadHistory(m)
    PROVE  BackfillInv'
<1>1. /\ phase = "history" /\ m \in todo /\ phase' = phase /\ todo' = todo \ {m}
      /\ unsent' \in {unsent, unsent \cup {m}} /\ UNCHANGED <<rate, stored, blind, resent>>
  BY DEF LoadHistory, HistoryFails
<1>2. ~blind => stored[m] = 0 /\ m \notin unsent
  BY <1>1 DEF BackfillInv, Untouched
<1>3. NothingSentYet' /\ RateLowered'
  BY <1>1 DEF BackfillInv, NothingSentYet, RateLowered
<1>4. Untouched'
  BY <1>1 DEF BackfillInv, Untouched
<1>5. HistoryOnce'
  BY <1>1, <1>2 DEF BackfillInv, HistoryOnce
<1> QED
  BY <1>3, <1>4, <1>5 DEF BackfillInv

(* A flush: a history that waited is stored, lost, or kept; one that was   *)
(* both stored and kept counts as sent again.                              *)
LEMMA CommitInv ==
    ASSUME Types, BackfillInv, Commit \/ CommitFails
    PROVE  BackfillInv'
<1>1. PICK reached \in SUBSET unsent, kept \in SUBSET unsent :
          /\ Store(reached) /\ unsent' = kept
          /\ resent' = resent \cup (reached \cap kept)
  <2>1. CASE Commit
    BY <2>1 DEF Commit, faults
  <2>2. CASE CommitFails
    BY <2>2, Zenon DEF CommitFails
  <2> QED
    BY <2>1, <2>2
<1>2. unsent # {} /\ UNCHANGED <<phase, rate, todo, blind>>
  BY DEF Commit, CommitFails, faults
<1>3. \A m \in Markets : stored'[m] = IF m \in reached THEN stored[m] + 1 ELSE stored[m]
  BY <1>1 DEF Store
<1>4. stored \in [Markets -> Nat] /\ todo \subseteq Markets
  BY DEF Types, Loading, Objects, Tradable
<1>5. NothingSentYet' /\ RateLowered'
  BY <1>1, <1>2 DEF BackfillInv, NothingSentYet, RateLowered
<1>6. Untouched'
  BY <1>1, <1>2, <1>3, <1>4 DEF BackfillInv, NothingSentYet, Untouched
<1>7. HistoryOnce'
  BY <1>1, <1>2, <1>3, <1>4 DEF BackfillInv, HistoryOnce
<1> QED
  BY <1>5, <1>6, <1>7 DEF BackfillInv

(* A new process: what was in the sender is gone, what is stored is not. *)
LEMMA RestartInv ==
    ASSUME Types, BackfillInv, Restart
    PROVE  BackfillInv'
<1>1. /\ phase' = "boot" /\ rate' = "full" /\ unsent' = {} /\ UNCHANGED <<stored, blind, resent>>
  BY DEF Restart
<1>2. stored \in [Markets -> Nat]
  BY DEF Types, Loading
<1>3. NothingSentYet' /\ RateLowered' /\ Untouched'
  BY <1>1 DEF NothingSentYet, RateLowered, Untouched
<1>4. HistoryOnce'
  BY <1>1, <1>2 DEF BackfillInv, HistoryOnce
<1> QED
  BY <1>3, <1>4 DEF BackfillInv

(* Every step keeps the backfill exact. *)
LEMMA StepBackfill == Types /\ Types' /\ BackfillInv /\ [Next]_vars => BackfillInv'
<1> SUFFICES ASSUME Types, Types', BackfillInv, [Next]_vars PROVE BackfillInv'
  OBVIOUS
<1>1. DOMAIN active' \subseteq Markets
  BY DEF Types, Objects, Tradable
<1>2. CASE StartCycle \/ StartRound
  BY <1>2, SameBackfill DEF StartCycle, StartRound, faults
<1>3. CASE DiscoverPage
  <2>1. UNCHANGED <<unsent, stored, blind, resent>>
    BY <1>3 DEF DiscoverPage, faults
  <2>2. CASE UNCHANGED <<phase, rate, todo>>
    BY <2>1, <2>2, SameBackfill DEF backfill
  <2>3. CASE EndCycle(TRUE) \/ EndCycle(FALSE)
    BY <1>1, <2>1, <2>3, EndCycleBackfill
  <2> QED
    BY <1>3, <2>2, <2>3, Zenon DEF DiscoverPage
<1>4. CASE DiscoverFails
  BY <1>1, <1>4, EndCycleBackfill DEF DiscoverFails
<1>5. CASE EndBackfill
  BY <1>5 DEF EndBackfill, faults, BackfillInv, NothingSentYet, Untouched, HistoryOnce, RateLowered
<1>6. CASE CheckBackfill \/ Commit \/ CommitFails \/ Restart \/ \E m \in Markets : LoadHistory(m)
  BY <1>6, CheckBackfillInv, CommitInv, RestartInv, LoadHistoryInv
<1>7. CASE \E m \in Markets : Open(m) \/ Close(m) \/ PollPriced(m) \/ PollSkipped(m) \/ PollRaises(m)
  BY <1>7, SameBackfill DEF Open, Close, PollPriced, PollSkipped, PollRaises, faults
<1>8. CASE UNCHANGED vars
  BY <1>8, SameBackfill DEF vars, faults
<1> QED
  BY <1>2, <1>3, <1>4, <1>5, <1>6, <1>7, <1>8 DEF Next

--------------------------------------------------------------------------------
(* What a discovery cycle finds. *)

(* How far the cycle under way has come: what can be reached up to its     *)
(* offset is tracked.                                                      *)
TrackedUpTo(n) ==
    \A i \in DOMAIN listing :
        i <= n /\ i \in Readable(listing) /\ ~Skipped(listing[i]) => listing[i] \in DOMAIN active
CycleTracks == offset # NoCycle => TrackedUpTo(offset)

(* The listing does not change while a cycle is under way; the cycle ends  *)
(* of itself, with the last page or at a market that cannot be parsed.     *)
QuietCycle == offset # NoCycle => listing' = listing
CycleEnds  == DiscoverPage /\ (LastPage(Page) \/ Readable(Page) # DOMAIN Page)

(* Where a page lies in the listing. *)
LEMMA PagePlace ==
    ASSUME listing \in Seq(Markets), offset \in Nat
    PROVE  /\ Len(Page) \in 0 .. PageSize
           /\ \A j \in 1 .. Len(Page) : offset + j \in DOMAIN listing /\ Page[j] = listing[offset + j]
           /\ \A i \in DOMAIN listing : i > offset /\ i <= offset + PageSize => i - offset \in 1 .. Len(Page)
<1> DEFINE rest == IF offset < Len(listing) THEN Len(listing) - offset ELSE 0
           size == IF rest < PageSize THEN rest ELSE PageSize
<1>1. Len(listing) \in Nat /\ PageSize \in Nat /\ DOMAIN listing = 1 .. Len(listing)
  BY DiscoveryAssumption
<1>2. /\ size \in 0 .. PageSize /\ rest \in Nat
      /\ \A i \in offset + 1 .. offset + size : i \in 1 .. Len(listing)
      /\ \A i \in 1 .. Len(listing) : i > offset /\ i <= offset + PageSize => i - offset \in 1 .. size
  BY <1>1
<1>3. \A i \in offset + 1 .. offset + size : listing[i] \in Markets
  BY <1>2
<1> HIDE DEF size
<1>4. /\ Len(SubSeq(listing, offset + 1, offset + size)) = size
      /\ \A j \in 1 .. size : SubSeq(listing, offset + 1, offset + size)[j] = listing[offset + j]
  <2>1. offset + 1 \in Int /\ offset + size \in Int
    BY <1>1, <1>2
  <2> DEFINE s == SubSeq(listing, offset + 1, offset + size)
             a == offset + 1
             b == offset + size
  <2>2. /\ Len(s) = IF a <= b THEN b - a + 1 ELSE 0
        /\ \A j \in 1 .. b - a + 1 : s[j] = listing[a + j - 1]
    BY <1>3, <2>1, SubSeqProperties
  <2> HIDE DEF s
  <2>3. Len(s) = size /\ b - a + 1 = size /\ \A j \in 1 .. size : a + j - 1 = offset + j
    BY <1>1, <1>2, <2>2
  <2>4. \A j \in 1 .. size : s[j] = listing[offset + j]
    BY <2>2, <2>3
  <2> QED
    BY <2>3, <2>4 DEF s
<1>5. Page = SubSeq(listing, offset + 1, offset + size)
  BY DEF Page, size
<1>6. Len(Page) = size /\ \A j \in 1 .. size : Page[j] = listing[offset + j]
  BY <1>4, <1>5
<1>7. \A j \in 1 .. size : offset + j \in DOMAIN listing
  BY <1>1, <1>2
<1> QED
  BY <1>1, <1>2, <1>6, <1>7

(* A page that arrives takes the cycle on by its length. *)
LEMMA PageTracks ==
    ASSUME Types, DiscoverPage, listing' = listing, TrackedUpTo(offset)
    PROVE  \A i \in DOMAIN listing :
               i <= offset + Len(Page) /\ i \in Readable(listing) /\ ~Skipped(listing[i])
                   => listing[i] \in DOMAIN active'
<1> SUFFICES ASSUME NEW i \in DOMAIN listing, i <= offset + Len(Page),
                    i \in Readable(listing), ~Skipped(listing[i])
             PROVE  listing[i] \in DOMAIN active'
  OBVIOUS
<1>1. /\ listing \in Seq(Markets) /\ offset \in Nat /\ i \in Nat /\ i >= 1
      /\ Page \in Seq(Markets) /\ PageSize \in Nat
  BY PageIsSeq, DiscoveryAssumption DEF Types, Around
<1>2. DOMAIN active' = Found(Page) \cup DOMAIN active
  BY DEF DiscoverPage, Track
<1>3. CASE i <= offset
  BY <1>2, <1>3 DEF TrackedUpTo
<1>4. CASE i > offset
  <2>1. Len(Page) \in 0 .. PageSize /\ i - offset \in 1 .. Len(Page) /\ offset + (i - offset) = i
    BY <1>1, <1>4, PagePlace
  <2>2. PICK j \in 1 .. Len(Page) : offset + j = i
    BY <2>1
  <2>3. Page[j] = listing[i] /\ j \in DOMAIN Page
    BY <1>1, <2>2, PagePlace
  <2>4. ASSUME NEW k \in 1 .. j PROVE ~Raises(Page[k])
    <3>1. k \in 1 .. Len(Page) /\ offset + k \in 1 .. i
      BY <1>1, <2>1, <2>2
    <3>2. ~Raises(listing[offset + k])
      BY <3>1 DEF Readable
    <3> QED
      BY <1>1, <3>1, <3>2, PagePlace
  <2>5. j \in Readable(Page) /\ ~Skipped(Page[j])
    BY <2>3, <2>4 DEF Readable
  <2> QED
    BY <1>2, <2>3, <2>5 DEF Found
<1> QED
  BY <1>1, <1>3, <1>4

(* A cycle that ends of itself has nothing left to reach: behind the last  *)
(* page there is nothing, and behind a market that cannot be parsed        *)
(* nothing can be reached.                                                 *)
LEMMA CycleEndTracks ==
    ASSUME Types, CycleTracks, QuietCycle, CycleEnds
    PROVE  \A m \in Markets : Reachable(m) => m \in DOMAIN active'
<1> SUFFICES ASSUME NEW i \in DOMAIN listing, i \in Readable(listing), ~Skipped(listing[i])
             PROVE  listing[i] \in DOMAIN active'
  BY DEF Reachable
<1>1. /\ listing \in Seq(Markets) /\ offset \in Nat /\ i \in Nat
      /\ Page \in Seq(Markets) /\ Len(Page) \in Nat /\ PageSize \in Nat
  BY PageIsSeq, DiscoveryAssumption DEF Types, Around
<1>2. DiscoverPage /\ listing' = listing /\ TrackedUpTo(offset)
  BY DEF CycleEnds, DiscoverPage, QuietCycle, CycleTracks
<1>3. CASE i <= offset + Len(Page)
  BY <1>2, <1>3, PageTracks
<1>4. CASE i > offset + Len(Page)
  <2>1. ~LastPage(Page)
    <3> DEFINE next == offset + Len(Page) + 1
    <3>1. next \in DOMAIN listing /\ next > offset /\ next - offset = Len(Page) + 1
      BY <1>1, <1>4
    <3>2. ~(next <= offset + PageSize)
      BY <1>1, <3>1, PagePlace
    <3> QED
      BY <1>1, <3>2 DEF LastPage
  <2>2. PICK j \in 1 .. Len(Page) : Raises(Page[j])
    <3>1. DOMAIN Page = 1 .. Len(Page) /\ Readable(Page) # DOMAIN Page
      BY <1>1, <2>1 DEF CycleEnds
    <3>2. PICK k \in 1 .. Len(Page) : k \notin Readable(Page)
      BY <3>1 DEF Readable
    <3>3. PICK j \in 1 .. k : Raises(Page[j])
      BY <3>1, <3>2 DEF Readable
    <3> QED
      BY <1>1, <3>3
  <2>3. Raises(listing[offset + j])
    BY <1>1, <2>2, PagePlace
  <2>4. offset + j \in 1 .. i
    BY <1>1, <1>4
  <2> QED
    BY <2>3, <2>4 DEF Readable
<1> QED
  BY <1>1, <1>3, <1>4

(* Every step takes a quiet cycle on. *)
LEMMA StepCycle ==
    ASSUME Types, CycleTracks, [Next]_vars, [QuietCycle]_vars
    PROVE  CycleTracks'
<1>1. Types'
  BY StepTypes
<1>2. CASE DiscoverPage
  <2>1. listing' = listing /\ TrackedUpTo(offset)
    BY <1>2 DEF DiscoverPage, CycleTracks
  <2>2. offset' = NoCycle \/ (offset' = offset + PageSize /\ ~LastPage(Page))
    BY <1>2, Zenon DEF DiscoverPage, EndCycle
  <2>3. Len(Page) \in 0 .. PageSize /\ PageSize \in Nat
    BY PagePlace, DiscoveryAssumption DEF Types, Around
  <2>4. CASE offset' = offset + PageSize /\ ~LastPage(Page)
    <3>1. Len(Page) = PageSize
      BY <2>3, <2>4 DEF LastPage
    <3> QED
      BY <1>2, <2>1, <2>4, <3>1, PageTracks DEF CycleTracks, TrackedUpTo, Readable
  <2>5. CASE offset' = NoCycle
    BY <2>5 DEF CycleTracks, NoCycle
  <2> QED
    BY <2>2, <2>4, <2>5
<1>3. CASE offset' = NoCycle
  BY <1>3 DEF CycleTracks, NoCycle
<1>4. CASE offset' = 0
  BY <1>1, <1>4 DEF CycleTracks, TrackedUpTo, Types, Around
<1>5. CASE UNCHANGED <<listing, offset>> /\ DOMAIN active \subseteq DOMAIN active'
  BY <1>5 DEF CycleTracks, TrackedUpTo, NoCycle, Readable
<1>6. CASE \E m \in Markets : Open(m) \/ Close(m)
  <2>1. offset' = offset /\ active' = active
    BY <1>6 DEF Open, Close
  <2>2. CASE offset = NoCycle
    BY <2>1, <2>2 DEF CycleTracks, NoCycle
  <2>3. CASE offset # NoCycle /\ listing' = listing
    BY <1>5, <2>1, <2>3
  <2> QED
    BY <2>1, <2>2, <2>3 DEF QuietCycle, vars
<1>7. CASE \E m \in Markets : PollPriced(m) \/ PollSkipped(m) \/ PollRaises(m)
  <2>1. UNCHANGED <<listing, offset>> /\ DOMAIN active' = DOMAIN active
    BY <1>7 DEF PollPriced, PollSkipped, PollRaises, EndPoll
  <2> QED
    BY <1>5, <2>1
<1>8. CASE EndBackfill \/ Commit \/ CommitFails \/ StartRound \/ (\E m \in Markets : LoadHistory(m)) \/ UNCHANGED vars
  <2>1. UNCHANGED <<listing, offset, active>>
    BY <1>8 DEF EndBackfill, Commit, CommitFails, StartRound, LoadHistory, vars
  <2> QED
    BY <1>5, <2>1
<1>9. CASE CheckBackfill
  <2>1. offset' = 0 \/ UNCHANGED <<listing, offset, active>>
    BY <1>9 DEF CheckBackfill
  <2> QED
    BY <1>4, <1>5, <2>1
<1>10. CASE StartCycle \/ DiscoverFails \/ Restart
  <2>1. offset' = 0 \/ offset' = NoCycle
    BY <1>10, Zenon DEF StartCycle, DiscoverFails, Restart, EndCycle
  <2> QED
    BY <1>3, <1>4, <2>1
<1> QED
  BY <1>2, <1>6, <1>7, <1>8, <1>9, <1>10 DEF Next

--------------------------------------------------------------------------------
(* The theorems. *)

(* The invariant holds at first and every step keeps it. *)
LEMMA InitInv == Init => IInv
  BY InitTypes, InitCounters, InitBackfill DEF IInv

(* Every step keeps the invariant. *)
LEMMA Inductive == IInv /\ [Next]_vars => IInv'
  BY StepTypes, StepCounters, StepBackfill DEF IInv

(* Types; a poll task is of a tracked market, an orphaned counter belongs  *)
(* to a poll task, and every tracked market can be asked for its book,     *)
(* whatever the listing says and wherever a cycle stops                    *)
(* (parse_market, _discover_once).                                         *)
THEOREM TypeCorrect == Spec => []TypeOK
<1>1. IInv => TypeOK
  BY TypesGiveTypeOK DEF IInv
<1> QED
  BY InitInv, Inductive, <1>1, PTL DEF Spec

(* Unless a needed-check could not read the table, no history is stored    *)
(* twice but one that the client sent again after a flush of it failed,    *)
(* whenever the process is killed; and the rate of the backfill never      *)
(* outlives it (backfill_history, _needs_backfill).                        *)
THEOREM BackfillExactInvariant == Spec => []BackfillExact
<1>1. IInv => BackfillExact
  BY DEF IInv, BackfillInv, RateLowered, BackfillExact, RateRestored
<1> QED
  BY InitInv, Inductive, <1>1, PTL DEF Spec

(* A market is reported as stale only when StaleAfter polls of it in a row *)
(* found no price, although discovery replaces the objects that count them *)
(* (_poll_probability, _discover_once).                                    *)
THEOREM StaleAlarmDeserved == Spec => StaleDeserved
<1>1. IInv /\ [Next]_vars => [\A m \in stale' \ stale : silent'[m] = StaleAfter]_vars
  BY StepStale DEF IInv
<1> QED
  BY InitInv, Inductive, <1>1, PTL DEF Spec, StaleDeserved

(* What ListedIsTracked rests on: a discovery cycle during which the       *)
(* listing does not change, and which ends of itself, has tracked every    *)
(* market that can be reached, for any page size and any listing, one with *)
(* a malformed market on it or one that fills its last page                *)
(* (_discover_once, iter_markets).                                         *)
THEOREM QuietCycleTracksReachable ==
    Spec /\ [][QuietCycle]_vars =>
        [][CycleEnds => \A m \in Markets : Reachable(m) => m \in DOMAIN active']_vars
<1>1. Init => CycleTracks
  BY DEF Init, CycleTracks
<1>2. Types /\ CycleTracks /\ [Next]_vars /\ [QuietCycle]_vars => CycleTracks'
  BY StepCycle
<1>3. Types /\ CycleTracks /\ [Next]_vars /\ [QuietCycle]_vars =>
          [CycleEnds => \A m \in Markets : Reachable(m) => m \in DOMAIN active']_vars
  BY CycleEndTracks
<1> QED
  BY InitTypes, StepTypes, <1>1, <1>2, <1>3, PTL DEF Spec

================================================================================
