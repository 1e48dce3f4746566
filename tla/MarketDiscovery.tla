--------------------------- MODULE MarketDiscovery ---------------------------
(***************************************************************************)
(* src/ingestion/polymarket.py: which markets the collector tracks, the    *)
(* history it loads before it polls them, and the counter that declares a  *)
(* market stale.                                                           *)
(*                                                                         *)
(* A discovery cycle walks the exchange's listing of open markets page by  *)
(* page, by offset, while markets open and close.  Every page is one       *)
(* await; the markets of a page are handled without one.  The first cycle  *)
(* of a process may run inside backfill_history, before there is a poll    *)
(* loop.  A poll task holds the ParsedMarket it was started with: when     *)
(* discovery replaces the market's object meanwhile, what the task counts  *)
(* goes to the old object, which dies with the task (`orphan`).            *)
(*                                                                         *)
(* Bars and trades are the subject of PolymarketCollector; here a poll of  *)
(* a market finds a price or does not.                                     *)
(***************************************************************************)
EXTENDS Naturals, Sequences, Functions

CONSTANTS Markets,       \* the markets of the exchange
          Info,          \* what the listing says of each (see MarketInfo)
          Priority,      \* CATEGORY_PRIORITY
          Allowed,       \* probability_polling_categories; {} for all
          PageSize,      \* page_size of iter_markets (500)
          StaleAfter,    \* consecutive skips that declare a market stale (10)
          Listed,        \* the listing when the exchange is first asked
          MaxChurn, MaxFailures, MaxRestarts   \* bounds

(* id: has an identifier; token: a YES token can be found; number: its     *)
(* volume is one; keywords: the categories whose pattern its text matches; *)
(* keep: its title matches one of title_keep_patterns.                     *)
MarketInfo == [id : BOOLEAN, token : BOOLEAN, number : BOOLEAN,
               keywords : SUBSET Range(Priority), keep : BOOLEAN]

ASSUME DiscoveryAssumption ==
    /\ Info \in [Markets -> MarketInfo]
    /\ Listed \in Seq(Markets)
    /\ PageSize \in Nat \ {0} /\ StaleAfter \in Nat \ {0}
    /\ MaxChurn \in Nat /\ MaxFailures \in Nat /\ MaxRestarts \in Nat

VARIABLES
    listing,   \* the exchange: its open markets in the order it lists them
    phase,     \* "boot", "discover", "history" (backfill_history), or "run"
    offset,    \* of the page a discovery cycle awaits; NoCycle between cycles
    active,    \* _active: market to the consecutive_skips of its object
    polling,   \* the markets whose poll task awaits a price
    orphan,    \* consecutive_skips of replaced objects that a task still holds
    silent,    \* polls of the market in a row that found no price
    stale,     \* the markets reported as pm_market_stale
    rate,      \* request rate: "full" or "half"
    todo,      \* markets whose history backfill_history has yet to load
    unsent,    \* markets whose history rows wait in the database client
    stored,    \* how often the table has a market's history
    barStored, \* the table has a bar of live polling
    churn, failures, restarts,
    \* history
    blind,     \* a needed-check failed, so a backfill ran without knowing
    resent     \* markets whose stored rows the client kept to send again

polls    == <<polling, orphan, silent, stale>>
backfill == <<rate, todo, unsent, stored>>
faults   == <<failures, restarts, blind, resent>>
vars == <<listing, phase, offset, active, polls, backfill, barStored, churn, faults>>

NoCycle == Len(Listed) + MaxChurn + PageSize + 1    \* beyond any listing
NoOne   == [m \in {} |-> 0]

Init ==
    /\ listing = Listed
    /\ phase = "boot" /\ offset = NoCycle
    /\ active = NoOne /\ polling = {} /\ orphan = NoOne
    /\ silent = [m \in Markets |-> 0] /\ stale = {}
    /\ rate = "full" /\ todo = {} /\ unsent = {}
    /\ stored = [m \in Markets |-> 0] /\ barStored = FALSE
    /\ churn = 0 /\ failures = 0 /\ restarts = 0 /\ blind = FALSE /\ resent = {}

------------------------------------------------------------------------------
(* The exchange *)

Open(m) ==
    /\ churn < MaxChurn /\ m \notin Range(listing)
    /\ listing' = Append(listing, m) /\ churn' = churn + 1
    /\ UNCHANGED <<phase, offset, active, polls, backfill, barStored, faults>>

Close(m) ==
    /\ churn < MaxChurn /\ churn' = churn + 1
    /\ \E i \in DOMAIN listing :
          /\ listing[i] = m
          /\ listing' = SubSeq(listing, 1, i - 1) \o SubSeq(listing, i + 1, Len(listing))
    /\ UNCHANGED <<phase, offset, active, polls, backfill, barStored, faults>>

------------------------------------------------------------------------------
(* Parsing *)

(* Mutated form: a market without a token is tracked. *)
SkippedNoId(m) == ~Info[m].id

(* parse_market and the test of its result.  No identifier or no token:    *)
(* the market is left out.  A volume that is not a number: float() raises. *)
Skipped(m) == ~Info[m].id \/ (Info[m].number /\ ~Info[m].token)
Raises(m)  == Info[m].id /\ ~Info[m].number

(* classify_category: the first category, by priority, that matches. *)
Category(m) ==
    LET hits == SelectSeq(Priority, LAMBDA c : c \in Info[m].keywords)
    IN  IF hits = <<>> THEN "other" ELSE Head(hits)

(* should_poll_probability *)
ShouldPoll(m) == Allowed = {} \/ Category(m) \in Allowed \/ Info[m].keep

------------------------------------------------------------------------------
(* A discovery cycle *)

(* One page of GET /markets. *)
Page == LET rest == IF offset < Len(listing) THEN Len(listing) - offset ELSE 0
        IN  SubSeq(listing, offset + 1, offset + (IF rest < PageSize THEN rest ELSE PageSize))

(* The markets of page p that come before the first one that raises. *)
Readable(p) == {i \in DOMAIN p : \A j \in 1 .. i : ~Raises(p[j])}
Found(p)    == {p[i] : i \in {j \in Readable(p) : ~Skipped(p[j])}}

(* consecutive_skips of the object that the poll task of m holds. *)
Skips(m) == IF m \in DOMAIN orphan THEN orphan[m] ELSE active[m]

(* Mutated form: a market that is found again keeps its counter. *)
TrackCarriesOver(ms) ==
    /\ active' = [m \in ms \cup DOMAIN active |-> IF m \in DOMAIN active THEN active[m] ELSE 0]
    /\ orphan' = [m \in DOMAIN orphan \cup (ms \cap polling) |-> Skips(m)]

(* _active[market_id] = parsed: a new object with a counter of zero.  The  *)
(* object it replaces lives on in the poll task that holds it.             *)
Track(ms) ==
    /\ active' = [m \in ms \cup DOMAIN active |-> IF m \in ms THEN 0 ELSE active[m]]
    /\ orphan' = [m \in DOMAIN orphan \cup (ms \cap polling) |-> Skips(m)]

(* The cycle is over.  Inside backfill_history the histories come next, at *)
(* half the rate, or, when the cycle raised, the collector goes live.      *)
EndCycle(ok) ==
    /\ offset' = NoCycle
    /\ IF phase = "discover"
       THEN /\ phase' = IF ok THEN "history" ELSE "run"
            /\ rate' = IF ok THEN "half" ELSE rate
            /\ todo' = IF ok THEN DOMAIN active' ELSE {}
       ELSE UNCHANGED <<phase, rate, todo>>

(* _discovery_loop: the next cycle begins. *)
StartCycle ==
    /\ phase = "run" /\ offset = NoCycle
    /\ offset' = 0
    /\ UNCHANGED <<listing, phase, active, polls, backfill, barStored, churn, faults>>

(* Mutated form: a page that is just full is taken for the last. *)
LastPageEarly(p) == Len(p) <= PageSize

(* iter_markets stops at an empty page and after one that is not full. *)
LastPage(p) == Len(p) < PageSize

(* A page arrives and its markets are tracked up to the first that raises. *)
DiscoverPage ==
    /\ offset # NoCycle
    /\ Track(Found(Page))
    /\ \/ /\ Readable(Page) = DOMAIN Page /\ ~LastPage(Page)
          /\ offset' = offset + PageSize
          /\ UNCHANGED <<phase, rate, todo>>
       \/ Readable(Page) = DOMAIN Page /\ LastPage(Page) /\ EndCycle(TRUE)
       \/ Readable(Page) # DOMAIN Page /\ EndCycle(FALSE)
    /\ UNCHANGED <<listing, polling, silent, stale, unsent, stored, barStored, churn, faults>>

(* The page cannot be had, or write_row raises for one of its markets: the *)
(* cycle is abandoned until the next one.                                  *)
DiscoverFails ==
    /\ offset # NoCycle /\ failures < MaxFailures
    /\ failures' = failures + 1
    /\ \E n \in 0 .. Len(Page) : Track(Found(SubSeq(Page, 1, n)))
    /\ EndCycle(FALSE)
    /\ UNCHANGED <<listing, polling, silent, stale, unsent, stored, barStored, churn, restarts, blind, resent>>

------------------------------------------------------------------------------
(* backfill_history *)

(* _needs_backfill: pm_probabilities has no row of Polymarket. *)
NeedsBackfill == ~barStored /\ \A m \in Markets : stored[m] = 0

(* The check, which runs a backfill when the query itself fails.  _active  *)
(* is empty, so a discovery cycle comes first.                             *)
CheckBackfill ==
    /\ phase = "boot"
    /\ \/ /\ NeedsBackfill
          /\ phase' = "discover" /\ offset' = 0
          /\ UNCHANGED faults
       \/ /\ ~NeedsBackfill
          /\ phase' = "run"
          /\ UNCHANGED <<offset, faults>>
       \/ /\ failures < MaxFailures
          /\ failures' = failures + 1 /\ blind' = TRUE
          /\ phase' = "discover" /\ offset' = 0
          /\ UNCHANGED <<restarts, resent>>
    /\ UNCHANGED <<listing, active, polls, backfill, barStored, churn>>

(* Mutated form: a failed request ends the backfill and leaves the rate.   *)
HistoryFailsOut(m) ==
    /\ failures < MaxFailures /\ failures' = failures + 1
    /\ phase' = "run" /\ todo' = {}

(* The request or the writing of the rows fails: logged, next market. *)
HistoryFails(m) ==
    /\ failures < MaxFailures /\ failures' = failures + 1
    /\ todo' = todo \ {m}
    /\ UNCHANGED phase

(* _backfill_one: the rows of one market, if there are any, are handed to  *)
(* the sender; a failure may have handed over some of them.                *)
LoadHistory(m) ==
    /\ phase = "history" /\ m \in todo
    /\ unsent' \in {unsent, unsent \cup {m}}
    /\ \/ todo' = todo \ {m} /\ UNCHANGED <<phase, failures>>
       \/ HistoryFails(m)
    /\ UNCHANGED <<listing, offset, active, polls, rate, stored, barStored, churn,
                   restarts, blind, resent>>

(* All are loaded: the rate is restored and live polling begins. *)
EndBackfill ==
    /\ phase = "history" /\ todo = {}
    /\ phase' = "run" /\ rate' = "full"
    /\ UNCHANGED <<listing, offset, active, polls, todo, unsent, stored, barStored, churn, faults>>

(* The histories of ms reach the table. *)
Store(ms) == stored' = [m \in Markets |-> IF m \in ms THEN stored[m] + 1 ELSE stored[m]]

(* What waits in the client reaches the table. *)
Commit ==
    /\ unsent # {}
    /\ Store(unsent) /\ unsent' = {}
    /\ UNCHANGED <<listing, phase, offset, active, polls, rate, todo, barStored, churn, faults>>

(* A flush or a replay of the buffer fails: some rows may have reached the *)
(* table, whose answer is lost; some are kept for another attempt, others  *)
(* are lost.  Which ones is the subject of QuestDBClient.                  *)
CommitFails ==
    /\ unsent # {} /\ failures < MaxFailures
    /\ failures' = failures + 1
    /\ \E reached, kept \in SUBSET unsent :
          /\ Store(reached) /\ unsent' = kept
          /\ resent' = resent \cup (reached \cap kept)
    /\ UNCHANGED <<listing, phase, offset, active, polls, rate, todo, barStored, churn,
                   restarts, blind>>

------------------------------------------------------------------------------
(* Polling *)

(* _poll_loop: a round over the objects tracked now. *)
StartRound ==
    /\ phase = "run" /\ polling = {}
    /\ polling' = {m \in DOMAIN active : ShouldPoll(m)}
    /\ polling' # {}
    /\ UNCHANGED <<listing, phase, offset, active, orphan, silent, stale, backfill,
                   barStored, churn, faults>>

CountUp(n, max) == IF n < max THEN n + 1 ELSE max

(* The task of m is done and leaves its object with n skips; beyond        *)
(* StaleAfter their number no longer matters.                              *)
EndPoll(m, n) ==
    /\ polling' = polling \ {m}
    /\ orphan'  = [x \in DOMAIN orphan \ {m} |-> orphan[x]]
    /\ active'  = IF m \in DOMAIN orphan THEN active ELSE [active EXCEPT ![m] = n]

(* A price was found: it goes to the bar, which some time is written. *)
PollPriced(m) ==
    /\ m \in polling /\ EndPoll(m, 0)
    /\ silent' = [silent EXCEPT ![m] = 0]
    /\ barStored' \in {barStored, TRUE}
    /\ UNCHANGED <<listing, phase, offset, stale, backfill, churn, faults>>

(* Neither the book nor the last trade had a price.  The tenth skip in a   *)
(* row is the one that is reported.                                        *)
PollSkipped(m) ==
    /\ m \in polling /\ EndPoll(m, CountUp(Skips(m), StaleAfter + 1))
    /\ silent' = [silent EXCEPT ![m] = CountUp(@, StaleAfter)]
    /\ stale' = IF Skips(m) + 1 = StaleAfter THEN stale \cup {m} ELSE stale
    /\ UNCHANGED <<listing, phase, offset, backfill, barStored, churn, faults>>

(* Another exception ends the poll: neither a price nor a skip. *)
PollRaises(m) ==
    /\ m \in polling /\ EndPoll(m, Skips(m))
    /\ UNCHANGED <<listing, phase, offset, silent, stale, backfill, barStored, churn, faults>>

(* The process is killed and a new one started. *)
Restart ==
    /\ restarts < MaxRestarts /\ restarts' = restarts + 1
    /\ phase' = "boot" /\ offset' = NoCycle
    /\ active' = NoOne /\ polling' = {} /\ orphan' = NoOne
    /\ silent' = [m \in Markets |-> 0] /\ stale' = {}
    /\ rate' = "full" /\ todo' = {} /\ unsent' = {}
    /\ UNCHANGED <<listing, stored, barStored, churn, failures, blind, resent>>

Next ==
    \/ StartCycle \/ DiscoverPage \/ DiscoverFails
    \/ CheckBackfill \/ EndBackfill \/ Commit \/ CommitFails
    \/ StartRound \/ Restart
    \/ \E m \in Markets : \/ Open(m) \/ Close(m) \/ LoadHistory(m)
                          \/ PollPriced(m) \/ PollSkipped(m) \/ PollRaises(m)

Spec == Init /\ [][Next]_vars

(* The event loop runs the discovery loop and the backfill, and every      *)
(* request ends (ApiClient).  Polling and the exchange are not assumed.    *)
Fairness == /\ WF_vars(StartCycle) /\ WF_vars(DiscoverPage)
            /\ WF_vars(CheckBackfill) /\ WF_vars(EndBackfill)
            /\ WF_vars(\E m \in Markets : LoadHistory(m))

FairSpec == Spec /\ Fairness

------------------------------------------------------------------------------
(* Properties *)

Counter == 0 .. StaleAfter + 1

(* Types; a poll task is of a tracked market, an orphaned counter belongs  *)
(* to a poll task, and every tracked market can be asked for its book.     *)
TypeOK ==
    /\ listing \in Seq(Markets)
    /\ phase \in {"boot", "discover", "history", "run"}
    /\ offset \in Nat
    /\ DOMAIN orphan \subseteq polling /\ polling \subseteq DOMAIN active
    /\ \A m \in DOMAIN active : active[m] \in Counter /\ Info[m].id /\ Info[m].token
    /\ \A m \in DOMAIN orphan : orphan[m] \in Counter
    /\ silent \in [Markets -> 0 .. StaleAfter] /\ stale \subseteq Markets
    /\ rate \in {"full", "half"}
    /\ todo \cup unsent \subseteq DOMAIN active
    /\ stored \in [Markets -> Nat] /\ barStored \in BOOLEAN
    /\ churn \in 0 .. MaxChurn /\ failures \in 0 .. MaxFailures
    /\ restarts \in 0 .. MaxRestarts /\ blind \in BOOLEAN /\ resent \subseteq Markets

(* No false alarm: a market is reported as stale only when StaleAfter      *)
(* polls of it in a row found no price, although discovery replaces the    *)
(* object that counts them while a poll holds the old one.                 *)
StaleDeserved ==
    [][\A m \in stale' \ stale : silent'[m] = StaleAfter]_vars

(* The backfill is exact.  Unless a needed-check could not read the table, *)
(* a market's history is stored twice only if a flush failed after it had  *)
(* stored it and the client sent it again, whatever process was killed in  *)
(* the middle (the tables have no deduplication); and polling is never     *)
(* left at the backfill's rate, however the backfill ended.                *)
HistoryOnce == ~blind => \A m \in Markets \ resent :
                   stored[m] + (IF m \in unsent THEN 1 ELSE 0) <= 1
RateRestored == phase = "run" => rate = "full"
BackfillExact == HistoryOnce /\ RateRestored

(* The listing reaches every tradable market before a malformed one. *)
Reachable(m) ==
    \E i \in DOMAIN listing :
        listing[i] = m /\ ~Skipped(m) /\ i \in Readable(listing)

(* A market that stays on the listing, with no market before it that       *)
(* cannot be parsed, is tracked some day, although pages shift under the   *)
(* cycle as markets close, cycles fail and the process restarts.           *)
ListedIsTracked ==
    \A m \in Markets : []<>(m \in DOMAIN active \/ ~Reachable(m))

==============================================================================
