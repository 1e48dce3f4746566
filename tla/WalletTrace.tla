----------------------------- MODULE WalletTrace -----------------------------
(***************************************************************************)
(* src/ingestion/wallet_tracer.py, _trace_one: what one trace asks the     *)
(* Polygon node, in which order, and the profile it ends with, under the   *)
(* budget of RPC calls per wallet and the budget per hour that all traces  *)
(* share.  WalletTracer drives it, one trace at a time.                    *)
(*                                                                         *)
(* pc names the call the trace is about to make or, while `waiting`, the   *)
(* call in flight.  Between two calls the trace keeps the event loop, so   *)
(* time passes only while it waits or is over.  The node answers anything: *)
(* a call ends in an answer, an AlchemyError or another exception.  A call *)
(* is one _rpc of alchemy.py, whatever its retries.                        *)
(***************************************************************************)
EXTENDS Naturals, Sequences, FiniteSets

CONSTANTS Exchanges, Aggregators,  \* config/exchange_wallets.json
          Others,                  \* any other funding address
          None, Unknown,           \* no address; UNKNOWN_VIA_AGGREGATOR
          WalletCap,               \* MAX_RPC_PER_WALLET (20)
          HourCap,                 \* MAX_RPC_PER_HOUR (5000)
          Hour,                    \* length of the window, in ticks
          MaxClock                 \* bound: the last tick

ASSUME TraceAssumption ==
    /\ WalletCap \in Nat \ {0} /\ HourCap \in Nat \ {0} /\ Hour \in Nat \ {0}
    /\ MaxClock \in Nat
    /\ Exchanges \cap Others = {} /\ Aggregators \cap Others = {}
    /\ {None, Unknown} \cap (Exchanges \cup Aggregators \cup Others) = {}

VARIABLES pc, waiting,
          profile,          \* the WalletProfile under construction
          used,             \* budget.used
          failed, refused,  \* history: an AlchemyError, a refused reservation
          asked,            \* history: whose funder the second hop asked for
          started, count,   \* _hourly_window_started_at, _hourly_count
          clock,
          log               \* history: the tick of each call that was granted

window  == <<started, count>>
history == <<failed, refused, asked>>
vars == <<pc, waiting, profile, used, history, window, clock, log>>

Sources == Exchanges \cup Aggregators \cup Others
Calls   == {"code", "count", "transfers", "block", "hop1", "hop2"}

(* The profile at the start of a trace; txs is the transaction count. *)
Fresh == [status |-> "ok", first |-> "none", txs |-> "none",
          source1 |-> None, source2 |-> None, exchange |-> FALSE]

Init == /\ pc = "idle" /\ waiting = FALSE /\ profile = Fresh /\ used = 0
        /\ failed = FALSE /\ refused = FALSE /\ asked = None
        /\ started = 0 /\ count = 0 /\ clock = 0
        /\ log = <<>>

Tick == /\ waiting \/ pc \in {"idle", "done"}
        /\ clock < MaxClock /\ clock' = clock + 1
        /\ UNCHANGED <<pc, waiting, profile, used, history, window, log>>

(* A request, the PM statistics (no RPC), and on to the first call. *)
Begin == /\ pc \in {"idle", "done"}
         /\ pc' = "code" /\ profile' = Fresh /\ used' = 0
         /\ failed' = FALSE /\ refused' = FALSE /\ asked' = None
         /\ UNCHANGED <<waiting, window, clock, log>>

------------------------------------------------------------------------------
(* The budgets *)

Expired == clock - started >= Hour

(* Mutated form: the count is reset and the window is not moved. *)
RollOverKeepsStart == /\ started' = started
                      /\ count' = IF Expired THEN 1 ELSE count + 1

(* _reserve_rpc grants a call: a new window starts when the last is over. *)
RollOver == /\ started' = IF Expired THEN clock ELSE started
            /\ count' = IF Expired THEN 1 ELSE count + 1

(* Mutated form: the test for the hourly budget is off by one. *)
GrantedLate == /\ pc = "code" \/ used < WalletCap
               /\ Expired \/ count <= HourCap

(* Neither budget is exhausted; the first call is not held to the wallet's. *)
Granted == /\ pc = "code" \/ used < WalletCap
           /\ Expired \/ count < HourCap

Call == /\ pc \in Calls /\ ~waiting /\ Granted
        /\ waiting' = TRUE /\ used' = used + 1
        /\ RollOver
        /\ log' = Append(log, clock)
        /\ asked' = IF pc = "hop2" THEN profile.source1 ELSE asked
        /\ UNCHANGED <<pc, profile, failed, refused, clock>>

------------------------------------------------------------------------------
(* What the trace does with the outcome of a call *)

Return(p) == pc' = "done" /\ profile' = p
GoTo(call, p) == pc' = call /\ profile' = p

(* Mutated form: a wallet without transactions is traced on. *)
AfterAgeTracesOn(first, p) == GoTo("hop1", [p EXCEPT !.first = first])

(* first_seen is known or given up: a wallet without transactions is new,  *)
(* any other one has its funding traced.                                   *)
AfterAge(first, p) ==
    IF p.txs = "zero" THEN Return([p EXCEPT !.first = "now", !.status = "zero_tx"])
                      ELSE GoTo("hop1", [p EXCEPT !.first = first])

(* The largest funder is s: exchanges and aggregators end the trace. *)
FirstHop(s) ==
    \/ s \in Exchanges /\ Return([profile EXCEPT !.source1 = s, !.exchange = TRUE])
    \/ /\ s \in Aggregators \ Exchanges
       /\ Return([profile EXCEPT !.source1 = s, !.source2 = Unknown])
    \/ /\ s \notin Exchanges \cup Aggregators
       /\ GoTo("hop2", [profile EXCEPT !.source1 = s])

SecondHop(s) ==
    Return([profile EXCEPT !.source2 = IF s \in Aggregators THEN Unknown ELSE s])

(* The calls of alchemy.py that take an empty result for an answer.  A     *)
(* count that is no number raises; an empty code is that of a person.      *)
MayBeEmpty == {"transfers", "block", "hop1", "hop2"}

(* Nothing was found: no transfer, no block, no USDC. *)
Nothing == CASE pc \in {"transfers", "block"} -> AfterAge("none", profile)
             [] pc \in {"hop1", "hop2"} -> Return(profile)

Answer ==
    /\ pc \in Calls /\ waiting /\ waiting' = FALSE
    /\ \/ pc = "code" /\ GoTo("count", profile)
       \/ /\ pc = "count"
          /\ \E n \in {"zero", "some"} : GoTo("transfers", [profile EXCEPT !.txs = n])
       \/ pc = "transfers" /\ GoTo("block", profile)
       \/ pc = "block" /\ AfterAge("block", profile)
       \/ pc = "hop1" /\ \E s \in Sources : FirstHop(s)
       \/ pc = "hop2" /\ \E s \in Sources : SecondHop(s)
       \/ pc \in MayBeEmpty /\ Nothing
    /\ UNCHANGED <<used, history, window, clock, log>>

(* A refused reservation only shows in the status of the first two calls. *)
Refuse ==
    /\ pc \in Calls /\ ~waiting /\ ~Granted
    /\ refused' = TRUE
    /\ IF pc \in {"code", "count"}
       THEN Return([profile EXCEPT !.status = "budget_exhausted"])
       ELSE Nothing
    /\ UNCHANGED <<waiting, used, failed, asked, window, clock, log>>

(* An AlchemyError: fatal at first, a mark while the age is looked up, and *)
(* no mark at all once the funding is traced.                              *)
OnError ==
    LET marked == [profile EXCEPT !.status = "rpc_failed"]
    IN  \/ pc \in {"code", "count"} /\ Return(marked)
        \/ pc \in {"transfers", "block"} /\ AfterAge("none", marked)
        \/ pc \in {"hop1", "hop2"} /\ Return(profile)

Fails == /\ pc \in Calls /\ waiting /\ waiting' = FALSE
         /\ failed' = TRUE
         /\ OnError
         /\ UNCHANGED <<used, refused, asked, window, clock, log>>

(* Any other exception leaves _trace_one: there is no profile. *)
Raises == /\ pc \in Calls /\ waiting /\ waiting' = FALSE
          /\ pc' = "idle"
          /\ UNCHANGED <<profile, used, history, window, clock, log>>

Next == Tick \/ Begin \/ Call \/ Answer \/ Refuse \/ Fails \/ Raises

Spec == Init /\ [][Next]_vars

------------------------------------------------------------------------------
(* Properties *)

TypeOK ==
    /\ pc \in Calls \cup {"idle", "done"} /\ waiting \in BOOLEAN
    /\ profile \in [status : {"ok", "rpc_failed", "budget_exhausted", "zero_tx"},
                    first : {"none", "block", "now"}, txs : {"none", "zero", "some"},
                    source1 : Sources \cup {None},
                    source2 : Sources \cup {None, Unknown}, exchange : BOOLEAN]
    /\ used \in 0 .. Cardinality(Calls)
    /\ failed \in BOOLEAN /\ refused \in BOOLEAN /\ asked \in Others \cup {None}
    /\ clock \in 0 .. MaxClock /\ started \in 0 .. clock /\ count \in 0 .. HourCap
    /\ log \in Seq(0 .. clock)

(* The calls granted from one tick to another, and how many they are. *)
GrantedIn(from, to) == {i \in DOMAIN log : from <= log[i] /\ log[i] <= to}
CallsIn(from, to)   == Cardinality(GrantedIn(from, to))

(* The window is fixed, not sliding; still no period of one hour, wherever *)
(* it starts, sees more than twice the hourly budget.                      *)
SlidingBound == \A t \in 0 .. MaxClock : CallsIn(t, t + Hour - 1) <= 2 * HourCap

(* What the count of the window stands for: the calls since it started,    *)
(* never more than the hourly budget.                                      *)
WindowCounted == count = CallsIn(started, clock) /\ count <= HourCap

(* A finished profile says what the trace found out.  Its status has its   *)
(* cause in the trace, and a profile that is neither new nor broken knows  *)
(* the wallet has a history.  The trace never looked behind an exchange or *)
(* an aggregator: the second hop was only asked for another address,       *)
(* exchanges are marked, and an aggregator never counts as a second source. *)
ProfileJustified ==
    pc = "done" =>
        /\ CASE profile.status = "rpc_failed"       -> failed
             [] profile.status = "budget_exhausted" -> refused /\ profile.txs = "none"
             [] profile.status = "zero_tx"          -> profile.txs = "zero" /\ profile.first = "now"
             [] profile.status = "ok"               -> profile.txs = "some"
        /\ asked # None => asked = profile.source1 /\ asked \in Others
        /\ profile.exchange <=> profile.source1 \in Exchanges
        /\ profile.source1 \in Exchanges => profile.source2 = None
        /\ profile.source2 \notin Aggregators
        /\ profile.source2 \in Sources => asked # None

==============================================================================
