-------------------------- MODULE WalletTraceProofs --------------------------
(***************************************************************************)
(* Theorems about one trace and its two budgets, for every budget, every   *)
(* length of the window and every set of known addresses.                  *)
(***************************************************************************)
EXTENDS WalletTrace, FiniteSetTheorems, SequenceTheorems, TLAPS

(* How many calls may have come before the one the trace is about to make. *)
Before(c) == CASE c = "code" -> 0  [] c = "count" -> 1 [] c = "transfers" -> 2
               [] c = "block" -> 3 [] c = "hop1" -> 4  [] c = "hop2" -> 5
               [] OTHER -> 6

(* A call in flight is one of the six, and the calls used are at most      *)
(* those up to where the trace stands: this is why a trace cannot use more *)
(* than six.                                                               *)
TypeInv == /\ TypeOK
           /\ waiting => pc \in Calls
           /\ used <= Before(pc) \/ (waiting /\ used = Before(pc) + 1)

(* What the trace knows while it is under way. *)
Underway ==
    pc \in Calls =>
        /\ profile.exchange = FALSE /\ profile.source2 = None
        /\ profile.status \in {"ok", "rpc_failed"}
        /\ profile.status = "rpc_failed" => failed
        /\ pc \in {"code", "count"} => profile.txs = "none" /\ profile.status = "ok"
        /\ pc \notin {"code", "count"} => profile.txs # "none"
        /\ pc \in {"hop1", "hop2"} => profile.txs = "some"
        /\ IF pc = "hop2" THEN profile.source1 \in Others ELSE profile.source1 = None
        /\ asked # None => pc = "hop2" /\ asked = profile.source1
        /\ pc = "hop2" /\ waiting => asked # None

ProfileInv == Underway /\ ProfileJustified

(* The calls granted since tick t, in windows before this one. *)
EarlierSince(t) == {i \in DOMAIN log : t <= log[i] /\ log[i] < started}

(* The count is that of this window, no call was granted after its end     *)
(* without a new one, and the hour before it saw no more than one budget:  *)
(* all of it lies in the window before.                                    *)
WindowInv ==
    /\ \A i \in DOMAIN log : log[i] < started + Hour
    /\ count = CallsIn(started, clock)
    /\ \A t \in 0 .. MaxClock :
           t + Hour > started => Cardinality(EarlierSince(t)) <= HourCap

------------------------------------------------------------------------------
(* Types *)

Profiles == [status : {"ok", "rpc_failed", "budget_exhausted", "zero_tx"},
             first : {"none", "block", "now"}, txs : {"none", "zero", "some"},
             source1 : Sources \cup {None},
             source2 : Sources \cup {None, Unknown}, exchange : BOOLEAN]

(* There are six calls to make. *)
LEMMA SixCalls == Cardinality(Calls) = 6
<1>1. IsFiniteSet({"code"}) /\ Cardinality({"code"}) = 1
  BY FS_Singleton
<1> DEFINE two   == {"code"} \cup {"count"}
           three == two \cup {"transfers"}
           four  == three \cup {"block"}
           five  == four \cup {"hop1"}
           six   == five \cup {"hop2"}
<1>2. IsFiniteSet(two) /\ Cardinality(two) = 2
  BY <1>1, FS_AddElement
<1>3. IsFiniteSet(three) /\ Cardinality(three) = 3
  <2>1. "transfers" \notin two
    OBVIOUS
  <2> HIDE DEF two
  <2> QED
    BY <1>2, <2>1, FS_AddElement
<1>4. IsFiniteSet(four) /\ Cardinality(four) = 4
  <2>1. "block" \notin three
    OBVIOUS
  <2> HIDE DEF three
  <2> QED
    BY <1>3, <2>1, FS_AddElement
<1>5. IsFiniteSet(five) /\ Cardinality(five) = 5
  <2>1. "hop1" \notin four
    OBVIOUS
  <2> HIDE DEF four
  <2> QED
    BY <1>4, <2>1, FS_AddElement
<1>6. Cardinality(six) = 6
  <2>1. "hop2" \notin five
    OBVIOUS
  <2> HIDE DEF five
  <2> QED
    BY <1>5, <2>1, FS_AddElement
<1>7. six = Calls
  BY DEF Calls
<1> QED
  BY <1>6, <1>7

(* The order of the calls. *)
LEMMA CallOrder ==
    /\ Before("code") = 0 /\ Before("count") = 1 /\ Before("transfers") = 2
    /\ Before("block") = 3 /\ Before("hop1") = 4 /\ Before("hop2") = 5
    /\ Before("done") = 6 /\ Before("idle") = 6
    /\ \A c \in Calls : Before(c) \in 0 .. 5
BY DEF Before, Calls

(* The profiles a trace may end with are well formed. *)
LEMMA ProfileEnds ==
    ASSUME NEW p \in Profiles
    PROVE  /\ [p EXCEPT !.first = "now", !.status = "zero_tx"] \in Profiles
           /\ \A s \in Sources :
                 /\ [p EXCEPT !.source1 = s, !.exchange = TRUE] \in Profiles
                 /\ [p EXCEPT !.source1 = s, !.source2 = Unknown] \in Profiles
                 /\ [p EXCEPT !.source1 = s] \in Profiles
                 /\ [p EXCEPT !.source2 = IF s \in Aggregators THEN Unknown ELSE s] \in Profiles
<1>1. [p EXCEPT !.first = "now", !.status = "zero_tx"] \in Profiles
  BY DEF Profiles
<1>2. ASSUME NEW s \in Sources PROVE [p EXCEPT !.source1 = s, !.exchange = TRUE] \in Profiles
  BY DEF Profiles
<1>3. ASSUME NEW s \in Sources PROVE [p EXCEPT !.source1 = s, !.source2 = Unknown] \in Profiles
  BY DEF Profiles
<1>4. ASSUME NEW s \in Sources PROVE [p EXCEPT !.source1 = s] \in Profiles
  BY DEF Profiles
<1>5. ASSUME NEW s \in Sources
      PROVE  [p EXCEPT !.source2 = IF s \in Aggregators THEN Unknown ELSE s] \in Profiles
  <2>1. PICK x \in Sources \cup {None, Unknown} : x = IF s \in Aggregators THEN Unknown ELSE s
    OBVIOUS
  <2>2. [p EXCEPT !.source2 = x] \in Profiles
    BY DEF Profiles
  <2> QED
    BY <2>1, <2>2
<1> QED
  BY <1>1, <1>2, <1>3, <1>4, <1>5, Zenon

(* A trace that goes on or returns keeps a well-formed profile and leaves  *)
(* the call behind.                                                        *)
LEMMA OutcomeType ==
    ASSUME TypeOK, pc \in Calls, Answer \/ Fails \/ Refuse
    PROVE  /\ pc' \in Calls \cup {"done"} /\ profile' \in Profiles
           /\ Before(pc') >= Before(pc) + 1
<1> DEFINE Fits == /\ pc' \in Calls \cup {"done"} /\ profile' \in Profiles
                   /\ Before(pc') >= Before(pc) + 1
<1>1. profile \in Profiles
  BY DEF TypeOK, Profiles
<1>2. ASSUME NEW p \in Profiles, Return(p) PROVE Fits
  <2>1. pc' = "done" /\ profile' \in Profiles
    BY <1>2 DEF Return
  <2>2. Before(pc') = 6 /\ Before(pc) \in 0 .. 5
    BY <2>1, CallOrder
  <2> QED
    BY <2>1, <2>2
<1>3. ASSUME NEW p \in Profiles, NEW c \in Calls, GoTo(c, p), Before(c) >= Before(pc) + 1
      PROVE  Fits
  BY <1>3 DEF GoTo
<1>4. ASSUME NEW p \in Profiles, NEW first \in {"none", "block"}, AfterAge(first, p),
             pc \in {"transfers", "block"}
      PROVE  Fits
  <2>1. CASE Return([p EXCEPT !.first = "now", !.status = "zero_tx"])
    <3>1. [p EXCEPT !.first = "now", !.status = "zero_tx"] \in Profiles
      BY ProfileEnds
    <3> QED
      BY <1>2, <2>1, <3>1
  <2>2. CASE GoTo("hop1", [p EXCEPT !.first = first])
    <3>1. [p EXCEPT !.first = first] \in Profiles
      BY DEF Profiles
    <3>2. "hop1" \in Calls /\ Before("hop1") >= Before(pc) + 1
      BY <1>4, CallOrder DEF Calls
    <3> QED
      BY <1>3, <2>2, <3>1, <3>2
  <2> QED
    BY <1>4, <2>1, <2>2 DEF AfterAge
<1>5. ASSUME pc \in MayBeEmpty, Nothing PROVE Fits
  <2>1. CASE pc \in {"transfers", "block"}
    BY <1>1, <1>4, <1>5, <2>1 DEF Nothing
  <2>2. CASE pc \in {"hop1", "hop2"}
    BY <1>1, <1>2, <1>5, <2>2 DEF Nothing
  <2> QED
    BY <1>5, <2>1, <2>2 DEF MayBeEmpty
<1>6. CASE Answer
  <2>1. CASE pc = "code" /\ GoTo("count", profile)
    BY <1>1, <1>3, <2>1, CallOrder DEF Calls
  <2>2. ASSUME pc = "count", NEW n \in {"zero", "some"},
               GoTo("transfers", [profile EXCEPT !.txs = n])
        PROVE  Fits
    <3>1. [profile EXCEPT !.txs = n] \in Profiles
      BY <1>1 DEF Profiles
    <3>2. "transfers" \in Calls /\ Before("transfers") >= Before(pc) + 1
      BY <2>2, CallOrder DEF Calls
    <3> QED
      BY <1>3, <2>2, <3>1, <3>2
  <2>3. CASE pc = "transfers" /\ GoTo("block", profile)
    BY <1>1, <1>3, <2>3, CallOrder DEF Calls
  <2>4. CASE pc = "block" /\ AfterAge("block", profile)
    BY <1>1, <1>4, <2>4
  <2>5. ASSUME pc = "hop1", NEW s \in Sources, FirstHop(s) PROVE Fits
    <3>1. /\ [profile EXCEPT !.source1 = s, !.exchange = TRUE] \in Profiles
          /\ [profile EXCEPT !.source1 = s, !.source2 = Unknown] \in Profiles
          /\ [profile EXCEPT !.source1 = s] \in Profiles
      BY <1>1, ProfileEnds, Zenon
    <3>2. "hop2" \in Calls /\ Before("hop2") >= Before(pc) + 1
      BY <2>5, CallOrder DEF Calls
    <3> QED
      BY <1>2, <1>3, <2>5, <3>1, <3>2, Zenon DEF FirstHop
  <2>6. ASSUME pc = "hop2", NEW s \in Sources, SecondHop(s) PROVE Fits
    <3>1. [profile EXCEPT !.source2 = IF s \in Aggregators THEN Unknown ELSE s] \in Profiles
      BY <1>1, ProfileEnds, Zenon
    <3> QED
      BY <1>2, <2>6, <3>1, Zenon DEF SecondHop
  <2>7. CASE pc \in MayBeEmpty /\ Nothing
    BY <1>5, <2>7
  <2> QED
    BY <1>6, <2>1, <2>2, <2>3, <2>4, <2>5, <2>6, <2>7, Zenon DEF Answer
<1>7. CASE Fails
  <2> DEFINE marked == [profile EXCEPT !.status = "rpc_failed"]
  <2>1. marked \in Profiles
    BY <1>1 DEF Profiles
  <2>2. OnError
    BY <1>7 DEF Fails
  <2>3. \/ Return(marked) \/ Return(profile)
        \/ pc \in {"transfers", "block"} /\ AfterAge("none", marked)
    BY <2>2, Zenon DEF OnError
  <2> HIDE DEF marked
  <2> QED
    BY <1>1, <1>2, <1>4, <2>1, <2>3
<1>8. CASE Refuse
  <2>1. CASE Return([profile EXCEPT !.status = "budget_exhausted"])
    <3>1. [profile EXCEPT !.status = "budget_exhausted"] \in Profiles
      BY <1>1 DEF Profiles
    <3> QED
      BY <1>2, <2>1, <3>1
  <2>2. CASE pc \notin {"code", "count"} /\ Nothing
    BY <1>5, <2>2 DEF MayBeEmpty, Calls
  <2> QED
    BY <1>8, <2>1, <2>2 DEF Refuse
<1> QED
  BY <1>6, <1>7, <1>8

(* Every step keeps the types; whose funder the second hop asks for is an  *)
(* address of no exchange and no aggregator.                               *)
LEMMA TypeStep == TypeInv /\ Underway /\ [Next]_vars => TypeInv'
<1> SUFFICES ASSUME TypeInv, Underway, [Next]_vars PROVE TypeInv'
  OBVIOUS
<1>1. /\ clock \in Nat /\ started \in Nat /\ started <= clock /\ used \in Nat
      /\ count \in 0 .. HourCap /\ log \in Seq(0 .. clock) /\ MaxClock \in Nat
      /\ HourCap \in Nat \ {0} /\ Hour \in Nat \ {0}
      /\ profile \in Profiles /\ used \in 0 .. 6 /\ clock <= MaxClock
      /\ pc \in Calls \cup {"idle", "done"} /\ waiting \in BOOLEAN /\ (waiting => pc \in Calls)
      /\ failed \in BOOLEAN /\ refused \in BOOLEAN /\ asked \in Others \cup {None}
      /\ used <= Before(pc) \/ (waiting /\ used = Before(pc) + 1)
  BY SixCalls, TraceAssumption DEF TypeInv, TypeOK, Profiles
<1> DEFINE Budgets == /\ used' \in 0 .. 6 /\ clock' \in 0 .. MaxClock /\ started' \in 0 .. clock'
                      /\ count' \in 0 .. HourCap /\ log' \in Seq(0 .. clock')
           Rest == /\ pc' \in Calls \cup {"idle", "done"} /\ waiting' \in BOOLEAN
                   /\ profile' \in Profiles
                   /\ failed' \in BOOLEAN /\ refused' \in BOOLEAN
                   /\ asked' \in Others \cup {None}
                   /\ waiting' => pc' \in Calls
                   /\ used' <= Before(pc') \/ (waiting' /\ used' = Before(pc') + 1)
<1>2. SUFFICES Budgets /\ Rest
  BY SixCalls DEF TypeInv, TypeOK, Profiles
<1>3. ASSUME UNCHANGED <<used, window, clock, log>> PROVE Budgets
  BY <1>1, <1>3 DEF window
<1>4. ASSUME UNCHANGED <<pc, waiting, profile, used, history>> PROVE Rest
  BY <1>1, <1>4 DEF history, TypeInv, TypeOK
<1>5. CASE Tick
  <2>1. clock' = clock + 1 /\ clock' \in 0 .. MaxClock /\ UNCHANGED <<used, started, count, log>>
    BY <1>1, <1>5 DEF Tick, window
  <2>2. 0 .. clock \subseteq 0 .. clock'
    BY <1>1, <2>1
  <2>3. log' \in Seq(0 .. clock')
    BY <1>1, <2>1, <2>2, SeqMonotonic
  <2>4. Rest
    BY <1>4, <1>5 DEF Tick
  <2> QED
    BY <1>1, <2>1, <2>3, <2>4
<1>6. CASE Begin
  <2>1. /\ pc' = "code" /\ profile' = Fresh /\ used' = 0 /\ waiting' = waiting
        /\ failed' = FALSE /\ refused' = FALSE /\ asked' = None
        /\ pc \in {"idle", "done"} /\ UNCHANGED <<window, clock, log>>
    BY <1>6 DEF Begin
  <2>2. ~waiting
    BY <2>1 DEF TypeInv, Calls
  <2>3. Fresh \in Profiles
    BY DEF Fresh, Profiles
  <2> QED
    <3>1. pc' \in Calls /\ Before(pc') = 0
      BY <2>1, CallOrder DEF Calls
    <3>2. Rest
      <4>1. used' <= Before(pc') /\ ~waiting'
        BY <2>1, <2>2, <3>1
      <4>2. failed' \in BOOLEAN /\ refused' \in BOOLEAN /\ waiting' \in BOOLEAN
        BY <1>1, <2>1, Zenon
      <4> QED
        BY <2>1, <2>3, <3>1, <4>1, <4>2, Zenon
    <3>3. Budgets
      BY <1>1, <2>1 DEF window
    <3> QED
      BY <3>2, <3>3
<1>7. CASE Call
  <2>1. /\ pc \in Calls /\ ~waiting /\ Granted /\ waiting' = TRUE /\ used' = used + 1
        /\ RollOver /\ log' = Append(log, clock)
        /\ asked' = IF pc = "hop2" THEN profile.source1 ELSE asked
        /\ UNCHANGED <<pc, profile, failed, refused, clock>>
    BY <1>7 DEF Call
  <2>2. log' \in Seq(0 .. clock')
    BY <1>1, <2>1, AppendProperties
  <2>3. asked' \in Others \cup {None}
    BY <2>1 DEF Underway, TypeInv, TypeOK
  <2>4. (used' <= Before(pc) \/ used' = Before(pc) + 1) /\ Before(pc) \in 0 .. 5
    BY <1>1, <2>1, CallOrder
  <2>5. count' \in 0 .. HourCap /\ started' \in 0 .. clock
    BY <1>1, <2>1 DEF Granted, RollOver
  <2>6. used' \in 0 .. 6
    BY <1>1, <2>1, <2>4, CallOrder
  <2>7. Budgets
    BY <1>1, <2>1, <2>2, <2>5, <2>6
  <2>8. Rest
    BY <1>1, <2>1, <2>3, <2>4
  <2> QED
    BY <2>7, <2>8
<1>8. CASE Answer \/ Fails \/ Refuse
  <2>1. /\ pc \in Calls /\ UNCHANGED <<used, window, clock, log, asked>> /\ waiting' = FALSE
        /\ failed' \in BOOLEAN /\ refused' \in BOOLEAN
    BY <1>8 DEF Answer, Fails, Refuse, history, TypeInv, TypeOK
  <2>2. /\ pc' \in Calls \cup {"done"} /\ profile' \in Profiles
        /\ Before(pc') >= Before(pc) + 1
    BY <1>8, <2>1, OutcomeType DEF TypeInv
  <2>3. used <= Before(pc) + 1 /\ Before(pc) \in Nat /\ Before(pc') \in Nat
    BY <1>1, <2>1, <2>2, CallOrder
  <2>4. Budgets
    BY <1>3, <2>1
  <2>5. used' <= Before(pc') /\ asked' \in Others \cup {None}
    BY <1>1, <2>1, <2>2, <2>3
  <2>6. Rest
    BY <2>1, <2>2, <2>5
  <2> QED
    BY <2>4, <2>6
<1>9. CASE Raises
  <2>1. /\ waiting' = FALSE /\ pc' = "idle" /\ UNCHANGED <<profile, used, history, window, clock, log>>
    BY <1>9 DEF Raises
  <2>2. Before(pc') = 6
    BY <2>1, CallOrder
  <2>3. Rest
    <3>1. used' <= Before(pc')
      BY <1>1, <2>1, <2>2
    <3>2. UNCHANGED <<profile, failed, refused, asked>>
      BY <2>1 DEF history
    <3>3. waiting' \in BOOLEAN /\ ~waiting'
      BY <2>1
    <3> QED
      BY <1>1, <2>1, <3>1, <3>2, <3>3, Zenon
  <2>4. Budgets
    BY <1>3, <2>1
  <2> QED
    BY <2>3, <2>4
<1>10. CASE UNCHANGED vars
  BY <1>3, <1>4, <1>10 DEF vars
<1> QED
  BY <1>5, <1>6, <1>7, <1>8, <1>9, <1>10 DEF Next

------------------------------------------------------------------------------
(* The profile *)

(* The known addresses and the two that are none. *)
LEMMA Addresses ==
    /\ None \notin Sources /\ Unknown \notin Sources
    /\ \A s \in Others : s \notin Exchanges /\ s \notin Aggregators
BY TraceAssumption DEF Sources

(* A profile that the trace may return: its parts have their causes. *)
Returns(p) ==
    /\ \/ p.status = "rpc_failed" /\ failed'
       \/ p.status = "budget_exhausted" /\ refused' /\ p.txs = "none"
       \/ p.status = "zero_tx" /\ p.txs = "zero" /\ p.first = "now"
       \/ p.status = "ok" /\ p.txs = "some"
    /\ asked' # None => asked' = p.source1 /\ asked' \in Others
    /\ p.exchange <=> p.source1 \in Exchanges
    /\ p.source1 \in Exchanges => p.source2 = None
    /\ p.source2 \notin Aggregators
    /\ p.source2 \in Sources => asked' # None

(* The trace ends with such a profile, or goes on. *)
LEMMA ReturnJustified ==
    ASSUME NEW p, Return(p), Returns(p)
    PROVE  ProfileInv'
<1>1. pc' = "done" /\ profile' = p
  BY DEF Return
<1>2. Underway'
  BY <1>1 DEF Underway, Calls
<1>3. ProfileJustified'
  BY <1>1 DEF Returns, ProfileJustified
<1> QED
  BY <1>2, <1>3 DEF ProfileInv

(* What the trace knows of the profile before a call. *)
Knows(c, p) ==
    /\ p.exchange = FALSE /\ p.source2 = None
    /\ p.status \in {"ok", "rpc_failed"}
    /\ p.status = "rpc_failed" => failed'
    /\ c \in {"code", "count"} => p.txs = "none" /\ p.status = "ok"
    /\ c \notin {"code", "count"} => p.txs # "none"
    /\ c \in {"hop1", "hop2"} => p.txs = "some"
    /\ IF c = "hop2" THEN p.source1 \in Others ELSE p.source1 = None

(* Before the second hop is asked, nobody's funder has been asked for. *)
LEMMA GoToKnows ==
    ASSUME NEW p, NEW c \in Calls, GoTo(c, p), Knows(c, p), asked' = None, waiting' = FALSE
    PROVE  ProfileInv'
<1>1. pc' = c /\ profile' = p /\ c # "done"
  BY DEF GoTo, Calls
<1>2. Underway'
  BY <1>1 DEF Underway, Knows
<1>3. ProfileJustified'
  BY <1>1 DEF ProfileJustified
<1> QED
  BY <1>2, <1>3 DEF ProfileInv

(* An outcome of a call leads to a justified profile, or to the next call. *)
LEMMA OutcomeJustified ==
    ASSUME TypeInv, ProfileInv, pc \in Calls, Answer \/ Fails \/ Refuse
    PROVE  ProfileInv'
<1>1. /\ profile \in Profiles /\ asked \in Others \cup {None}
      /\ asked' = asked /\ waiting' = FALSE
      /\ (failed => failed') /\ (refused => refused')
  <2>1. profile \in Profiles /\ asked \in Others \cup {None}
    BY DEF TypeInv, TypeOK, Profiles
  <2>2. asked' = asked /\ waiting' \in {FALSE, waiting}
    BY DEF Answer, Fails, Refuse, history
  <2>3. (failed => failed') /\ (refused => refused')
    <3>1. CASE Answer
      <4>1. failed' = failed /\ refused' = refused
        BY <3>1 DEF Answer, history
      <4> QED
        BY <4>1, SMT
    <3>2. CASE Fails
      <4>1. failed' = TRUE /\ refused' = refused
        BY <3>2 DEF Fails
      <4> QED
        BY <4>1, SMT
    <3>3. CASE Refuse
      <4>1. refused' = TRUE /\ failed' = failed
        BY <3>3 DEF Refuse
      <4> QED
        BY <4>1, SMT
    <3> QED
      BY <3>1, <3>2, <3>3
  <2>4. waiting' = FALSE
    BY <2>2, Zenon DEF Answer, Fails, Refuse, TypeInv, TypeOK
  <2> QED
    BY <2>1, <2>2, <2>3, <2>4
<1>2. /\ Knows(pc, profile)
      /\ asked # None => pc = "hop2" /\ asked = profile.source1
      /\ pc = "hop2" /\ waiting => asked # None
  BY <1>1 DEF ProfileInv, Underway, Knows
<1>3. ASSUME NEW p \in {profile, [profile EXCEPT !.status = "rpc_failed"]},
             NEW first \in {"none", "block"}, AfterAge(first, p),
             pc \in {"transfers", "block"},
             p = profile \/ failed'
      PROVE  ProfileInv'
  <2>1. /\ p.exchange = FALSE /\ p.source2 = None /\ p.status \in {"ok", "rpc_failed"}
        /\ (p.status = "rpc_failed" => failed') /\ p.txs \in {"zero", "some"}
        /\ p.source1 = None /\ p \in Profiles /\ asked' = None
    BY <1>1, <1>2, <1>3 DEF Knows, Profiles
  <2>2. CASE p.txs = "zero" /\ Return([p EXCEPT !.first = "now", !.status = "zero_tx"])
    <3> DEFINE q == [p EXCEPT !.first = "now", !.status = "zero_tx"]
    <3>1. /\ q.status = "zero_tx" /\ q.txs = "zero" /\ q.first = "now" /\ q.source1 = None
          /\ q.source2 = None /\ q.exchange = FALSE
      BY <2>1, <2>2 DEF Profiles
    <3> HIDE DEF q
    <3>2. Returns(q)
      BY <2>1, <3>1, Addresses DEF Returns, Sources
    <3> QED
      BY <2>2, <3>2, ReturnJustified DEF q
  <2>3. CASE p.txs # "zero" /\ GoTo("hop1", [p EXCEPT !.first = first])
    <3> DEFINE q == [p EXCEPT !.first = first]
    <3>1. /\ q.status = p.status /\ q.txs = p.txs /\ q.source1 = None
          /\ q.source2 = None /\ q.exchange = FALSE
      BY <2>1 DEF Profiles
    <3> HIDE DEF q
    <3>2. Knows("hop1", q) /\ "hop1" \in Calls
      BY <2>1, <2>3, <3>1 DEF Knows, Calls
    <3> QED
      BY <1>1, <2>1, <2>3, <3>2, GoToKnows DEF q
  <2> QED
    BY <1>3, <2>2, <2>3, Zenon DEF AfterAge
<1>4. ASSUME pc \in {"hop1", "hop2"}, Return(profile) PROVE ProfileInv'
  <2>1. Returns(profile)
    BY <1>1, <1>2, <1>4, Addresses DEF Returns, Knows, Sources, Profiles
  <2> QED
    BY <1>4, <2>1, ReturnJustified
<1>5. ASSUME pc \in MayBeEmpty, Nothing PROVE ProfileInv'
  <2>1. CASE pc \in {"transfers", "block"}
    BY <1>3, <1>5, <2>1 DEF Nothing
  <2>2. CASE pc \in {"hop1", "hop2"}
    BY <1>4, <1>5, <2>2 DEF Nothing
  <2> QED
    BY <1>5, <2>1, <2>2 DEF MayBeEmpty
<1>6. CASE Answer
  <2>1. CASE pc = "code" /\ GoTo("count", profile)
    <3>1. Knows("count", profile) /\ "count" \in Calls /\ asked' = None
      BY <1>1, <1>2, <2>1 DEF Knows, Calls
    <3> QED
      BY <1>1, <2>1, <3>1, GoToKnows
  <2>2. ASSUME pc = "count", NEW n \in {"zero", "some"},
               GoTo("transfers", [profile EXCEPT !.txs = n])
        PROVE  ProfileInv'
    <3> DEFINE q == [profile EXCEPT !.txs = n]
    <3>1. /\ q.status = "ok" /\ q.txs = n /\ q.source1 = None
          /\ q.source2 = None /\ q.exchange = FALSE
      BY <1>1, <1>2, <2>2 DEF Knows, Profiles
    <3> HIDE DEF q
    <3>2. Knows("transfers", q) /\ "transfers" \in Calls /\ asked' = None
      BY <1>1, <1>2, <2>2, <3>1 DEF Knows, Calls
    <3> QED
      BY <1>1, <2>2, <3>2, GoToKnows DEF q
  <2>3. CASE pc = "transfers" /\ GoTo("block", profile)
    <3>1. Knows("block", profile) /\ "block" \in Calls /\ asked' = None
      BY <1>1, <1>2, <2>3 DEF Knows, Calls
    <3> QED
      BY <1>1, <2>3, <3>1, GoToKnows
  <2>4. CASE pc = "block" /\ AfterAge("block", profile)
    BY <1>3, <2>4
  <2>5. ASSUME pc = "hop1", NEW s \in Sources, FirstHop(s) PROVE ProfileInv'
    <3>0. asked' = None /\ profile.txs = "some" /\ profile.exchange = FALSE
          /\ profile.source2 = None /\ profile.status \in {"ok", "rpc_failed"}
          /\ (profile.status = "rpc_failed" => failed')
      BY <1>1, <1>2, <2>5 DEF Knows
    <3>1. CASE s \in Exchanges /\ Return([profile EXCEPT !.source1 = s, !.exchange = TRUE])
      <4> DEFINE q == [profile EXCEPT !.source1 = s, !.exchange = TRUE]
      <4>1. /\ q.status = profile.status /\ q.txs = "some" /\ q.source1 = s
            /\ q.source2 = None /\ q.exchange = TRUE
        BY <1>1, <3>0 DEF Profiles
      <4> HIDE DEF q
      <4>2. Returns(q)
        BY <3>0, <3>1, <4>1, Addresses DEF Returns, Sources
      <4> QED
        BY <3>1, <4>2, ReturnJustified DEF q
    <3>2. CASE /\ s \in Aggregators \ Exchanges
               /\ Return([profile EXCEPT !.source1 = s, !.source2 = Unknown])
      <4> DEFINE q == [profile EXCEPT !.source1 = s, !.source2 = Unknown]
      <4>1. /\ q.status = profile.status /\ q.txs = "some" /\ q.source1 = s
            /\ q.source2 = Unknown /\ q.exchange = FALSE
        BY <1>1, <3>0 DEF Profiles
      <4> HIDE DEF q
      <4>2. Returns(q)
        BY <3>0, <3>2, <4>1, Addresses DEF Returns, Sources
      <4> QED
        BY <3>2, <4>2, ReturnJustified DEF q
    <3>3. CASE /\ s \notin Exchanges \cup Aggregators
               /\ GoTo("hop2", [profile EXCEPT !.source1 = s])
      <4> DEFINE q == [profile EXCEPT !.source1 = s]
      <4>1. /\ q.status = profile.status /\ q.txs = "some" /\ q.source1 = s
            /\ q.source2 = None /\ q.exchange = FALSE
        BY <1>1, <3>0 DEF Profiles
      <4> HIDE DEF q
      <4>2. Knows("hop2", q) /\ "hop2" \in Calls
        BY <2>5, <3>0, <3>3, <4>1 DEF Knows, Calls, Sources
      <4> QED
        BY <1>1, <3>0, <3>3, <4>2, GoToKnows DEF q
    <3> QED
      BY <2>5, <3>1, <3>2, <3>3, Zenon DEF FirstHop
  <2>6. ASSUME pc = "hop2", NEW s \in Sources, SecondHop(s) PROVE ProfileInv'
    <3> DEFINE q == [profile EXCEPT !.source2 = IF s \in Aggregators THEN Unknown ELSE s]
    <3>1. waiting /\ asked' # None /\ asked' = profile.source1 /\ profile.source1 \in Others
      BY <1>1, <1>2, <1>6, <2>6 DEF Answer, Knows
    <3>2. /\ q.status = profile.status /\ q.txs = "some" /\ q.source1 = profile.source1
          /\ q.source2 \notin Aggregators /\ q.exchange = FALSE
      BY <1>1, <1>2, <2>6, Addresses DEF Knows, Profiles, Sources
    <3>3. profile.status = "ok" \/ (profile.status = "rpc_failed" /\ failed')
      BY <1>2 DEF Knows
    <3> HIDE DEF q
    <3>4. Returns(q)
      BY <3>1, <3>2, <3>3, Addresses DEF Returns
    <3> QED
      BY <2>6, <3>4, ReturnJustified DEF SecondHop, q
  <2>7. CASE pc \in MayBeEmpty /\ Nothing
    BY <1>5, <2>7
  <2> QED
    BY <1>6, <2>1, <2>2, <2>3, <2>4, <2>5, <2>6, <2>7, Zenon DEF Answer
<1>7. CASE Fails
  <2> DEFINE marked == [profile EXCEPT !.status = "rpc_failed"]
  <2>1. /\ OnError /\ failed'
        /\ \/ pc \in {"code", "count"} /\ Return(marked)
           \/ pc \in {"transfers", "block"} /\ AfterAge("none", marked)
           \/ pc \in {"hop1", "hop2"} /\ Return(profile)
    BY <1>7, Zenon DEF Fails, OnError
  <2>2. CASE pc \in {"code", "count"} /\ Return(marked)
    <3>1. /\ marked.status = "rpc_failed" /\ marked.source1 = None
          /\ marked.source2 = None /\ marked.exchange = FALSE /\ asked' = None
      BY <1>1, <1>2, <2>2 DEF Knows, Profiles
    <3> HIDE DEF marked
    <3>2. Returns(marked)
      BY <2>1, <3>1, Addresses DEF Returns, Sources
    <3> QED
      BY <2>2, <3>2, ReturnJustified
  <2> HIDE DEF marked
  <2>3. CASE pc \in {"transfers", "block"} /\ AfterAge("none", marked)
    BY <1>3, <2>1, <2>3 DEF marked
  <2> QED
    BY <1>4, <2>1, <2>2, <2>3
<1>8. CASE Refuse
  <2>1. CASE /\ pc \in {"code", "count"} /\ refused'
             /\ Return([profile EXCEPT !.status = "budget_exhausted"])
    <3> DEFINE q == [profile EXCEPT !.status = "budget_exhausted"]
    <3>1. /\ q.status = "budget_exhausted" /\ q.txs = "none" /\ q.source1 = None
          /\ q.source2 = None /\ q.exchange = FALSE /\ asked' = None
      BY <1>1, <1>2, <2>1 DEF Knows, Profiles
    <3> HIDE DEF q
    <3>2. Returns(q)
      BY <2>1, <3>1, Addresses DEF Returns, Sources
    <3> QED
      BY <2>1, <3>2, ReturnJustified DEF q
  <2>2. CASE pc \notin {"code", "count"} /\ Nothing
    BY <1>5, <2>2 DEF MayBeEmpty, Calls
  <2> QED
    BY <1>8, <2>1, <2>2, Zenon DEF Refuse
<1> QED
  BY <1>6, <1>7, <1>8

(* Every step keeps what the trace knows and what it returns. *)
LEMMA ProfileStep == TypeInv /\ ProfileInv /\ [Next]_vars => ProfileInv'
<1> SUFFICES ASSUME TypeInv, ProfileInv, [Next]_vars PROVE ProfileInv'
  OBVIOUS
<1>1. ASSUME UNCHANGED <<pc, waiting, profile, used, history>> PROVE ProfileInv'
  <2>1. UNCHANGED <<pc, waiting, profile, failed, refused, asked>>
    BY <1>1 DEF history
  <2> QED
    BY <2>1 DEF ProfileInv, Underway, ProfileJustified
<1>2. CASE Tick
  BY <1>1, <1>2 DEF Tick
<1>3. CASE Begin
  <2>1. /\ pc' = "code" /\ profile' = Fresh /\ waiting' = waiting
        /\ asked' = None /\ pc \in {"idle", "done"}
    BY <1>3 DEF Begin
  <2>2. Underway'
    BY <2>1 DEF Underway, Fresh
  <2>3. ProfileJustified'
    BY <2>1 DEF ProfileJustified
  <2> QED
    BY <2>2, <2>3 DEF ProfileInv
<1>4. CASE Call
  <2>1. /\ pc \in Calls /\ pc # "done" /\ UNCHANGED <<pc, profile, failed, refused>>
        /\ asked' = IF pc = "hop2" THEN profile.source1 ELSE asked
    BY <1>4 DEF Call, Calls
  <2>2. pc = "hop2" => profile.source1 \in Others /\ profile.source1 # None
    BY <2>1, Addresses DEF ProfileInv, Underway, Sources
  <2>3. Underway'
    BY <2>1, <2>2 DEF ProfileInv, Underway
  <2>4. ProfileJustified'
    BY <2>1 DEF ProfileJustified
  <2> QED
    BY <2>3, <2>4 DEF ProfileInv
<1>5. CASE Answer \/ Fails \/ Refuse
  <2>1. pc \in Calls
    BY <1>5 DEF Answer, Fails, Refuse
  <2> QED
    BY <1>5, <2>1, OutcomeJustified
<1>6. CASE Raises
  BY <1>6 DEF Raises, ProfileInv, Underway, ProfileJustified, Calls
<1>7. CASE UNCHANGED vars
  BY <1>1, <1>7 DEF vars
<1> QED
  BY <1>2, <1>3, <1>4, <1>5, <1>6, <1>7 DEF Next

(* The types and the profile's invariant hold together. *)
LEMMA TraceInvariant == Spec => [](TypeInv /\ ProfileInv)
<1>1. Init => TypeInv /\ ProfileInv
  <2> SUFFICES ASSUME Init PROVE TypeInv /\ ProfileInv
    OBVIOUS
  <2>1. <<>> \in Seq(0 .. 0) /\ 0 \in 0 .. HourCap /\ 0 \in 0 .. MaxClock /\ 0 \in 0 .. 6
    BY EmptySeq, TraceAssumption
  <2>2. Fresh \in Profiles
    BY DEF Fresh, Profiles
  <2>3. TypeInv
    <3>1. /\ pc \in Calls \cup {"idle", "done"} /\ waiting \in BOOLEAN /\ ~waiting
          /\ failed \in BOOLEAN /\ refused \in BOOLEAN /\ asked \in Others \cup {None}
      BY DEF Init
    <3>2. used \in 0 .. 6 /\ used <= Before(pc) /\ profile \in Profiles
      BY <2>1, <2>2, CallOrder DEF Init
    <3>3. clock \in 0 .. MaxClock /\ started \in 0 .. clock /\ count \in 0 .. HourCap
      BY <2>1 DEF Init
    <3>4. log \in Seq(0 .. clock)
      BY <2>1 DEF Init
    <3> QED
      BY <3>1, <3>2, <3>3, <3>4, SixCalls, Zenon DEF TypeInv, TypeOK, Profiles
  <2>4. ProfileInv
    BY DEF Init, ProfileInv, Underway, ProfileJustified, Calls
  <2> QED
    BY <2>3, <2>4
<1>2. TypeInv /\ ProfileInv /\ [Next]_vars => (TypeInv /\ ProfileInv)'
  BY TypeStep, ProfileStep DEF ProfileInv
<1> QED
  BY <1>1, <1>2, PTL DEF Spec

(* A trace uses at most six calls, asks for the second funder only behind  *)
(* an address of no exchange and no aggregator, and the window's count     *)
(* never exceeds the hourly budget.                                        *)
THEOREM TypeCorrect == Spec => []TypeOK
<1>1. TypeInv => TypeOK
  BY DEF TypeInv
<1> QED
  BY <1>1, TraceInvariant, PTL

(* A finished profile says what the trace found out: its status has its    *)
(* cause, exchanges and aggregators end the chain.                         *)
THEOREM ProfileJustifiedInvariant == Spec => []ProfileJustified
<1>1. ProfileInv => ProfileJustified
  BY DEF ProfileInv
<1> QED
  BY <1>1, TraceInvariant, PTL

------------------------------------------------------------------------------
(***************************************************************************)
(* The window.  The calls granted are indices of the log, so that a call   *)
(* adds one index, and what an hour saw is a set of indices.               *)
(***************************************************************************)

(* Sets of granted calls are finite, and a smaller one counts less. *)
LEMMA SomeGranted ==
    ASSUME TypeOK, NEW T \in SUBSET DOMAIN log
    PROVE  /\ IsFiniteSet(T) /\ Cardinality(T) \in Nat
           /\ \A U \in SUBSET T : Cardinality(U) <= Cardinality(T)
<1>1. Len(log) \in Nat /\ DOMAIN log = 1 .. Len(log)
  BY LenProperties DEF TypeOK
<1>2. IsFiniteSet(1 .. Len(log))
  BY <1>1, FS_Interval
<1>3. IsFiniteSet(T)
  BY <1>1, <1>2, FS_Subset
<1> QED
  BY <1>3, FS_Subset, FS_CardinalityType

(* An hour that is not over when the window began sees one budget of the   *)
(* window before and one of this window.                                   *)
LEMMA TwoBudgets ==
    ASSUME TypeOK, WindowInv, NEW t \in 0 .. MaxClock, t + Hour > started
    PROVE  CallsIn(t, t + Hour - 1) <= 2 * HourCap
<1>1. /\ log \in Seq(0 .. clock) /\ clock \in Nat /\ started \in Nat /\ count \in 0 .. HourCap
      /\ HourCap \in Nat /\ Hour \in Nat /\ t \in Nat /\ DOMAIN log = 1 .. Len(log)
  BY TraceAssumption, LenProperties DEF TypeOK
<1>2. \A i \in DOMAIN log : log[i] \in 0 .. clock
  BY <1>1, ElementOfSeq
<1> DEFINE G == GrantedIn(t, t + Hour - 1)
           E == EarlierSince(t)
           N == GrantedIn(started, clock)
<1>3. G \subseteq DOMAIN log /\ E \subseteq DOMAIN log /\ N \subseteq DOMAIN log
  BY DEF GrantedIn, EarlierSince
<1>4. G \subseteq E \cup N
  BY <1>1, <1>2 DEF GrantedIn, EarlierSince
<1>5. Cardinality(E) <= HourCap /\ Cardinality(N) <= HourCap
  BY <1>1 DEF WindowInv, CallsIn
<1> HIDE DEF G, E, N
<1>6. /\ IsFiniteSet(E) /\ IsFiniteSet(N) /\ Cardinality(E) \in Nat /\ Cardinality(N) \in Nat
      /\ E \cap N \in SUBSET DOMAIN log /\ E \cup N \in SUBSET DOMAIN log
      /\ G \in SUBSET (E \cup N)
  BY <1>3, <1>4, SomeGranted
<1>7. /\ Cardinality(E \cap N) \in Nat /\ Cardinality(G) \in Nat
      /\ Cardinality(G) <= Cardinality(E \cup N)
  BY <1>3, <1>6, SomeGranted
<1>8. Cardinality(E \cup N) = Cardinality(E) + Cardinality(N) - Cardinality(E \cap N)
  BY <1>6, FS_Union
<1>9. Cardinality(G) <= 2 * HourCap
  BY <1>1, <1>5, <1>6, <1>7, <1>8
<1> QED
  BY <1>9 DEF G, CallsIn

(* A granted call keeps the account of the windows. *)
LEMMA CallCounted ==
    ASSUME TypeOK, TypeOK', WindowInv, Call
    PROVE  WindowInv'
<1>1. /\ log \in Seq(0 .. clock) /\ clock \in Nat /\ started \in Nat /\ count \in 0 .. HourCap
      /\ HourCap \in Nat /\ Hour \in Nat \ {0} /\ started <= clock
      /\ Len(log) \in Nat /\ DOMAIN log = 1 .. Len(log)
  BY TraceAssumption, LenProperties DEF TypeOK
<1>2. \A i \in DOMAIN log : log[i] \in 0 .. clock
  BY <1>1, ElementOfSeq
<1> DEFINE n == Len(log) + 1
<1>3. clock' = clock /\ log' = Append(log, clock) /\ Granted /\ RollOver
  BY DEF Call
<1>4. /\ Len(log') = n /\ DOMAIN log' = DOMAIN log \cup {n} /\ n \notin DOMAIN log
      /\ log'[n] = clock /\ \A i \in DOMAIN log : log'[i] = log[i]
  <2>1. /\ Append(log, clock) \in Seq(0 .. clock) /\ Len(Append(log, clock)) = n
        /\ Append(log, clock)[n] = clock
        /\ \A i \in 1 .. Len(log) : Append(log, clock)[i] = log[i]
    BY <1>1, AppendProperties
  <2>2. DOMAIN log' = 1 .. n
    BY <1>3, <2>1, LenProperties
  <2> QED
    BY <1>1, <1>3, <2>1, <2>2
<1> HIDE DEF n
<1>5. CASE Expired
  <2>1. started' = clock /\ count' = 1 /\ clock - started >= Hour
    BY <1>3, <1>5 DEF RollOver, Expired
  <2>2. \A i \in DOMAIN log : log[i] < clock
    BY <1>1, <1>2, <2>1 DEF WindowInv
  <2>3. \A i \in DOMAIN log' : log'[i] < started' + Hour
    BY <1>1, <1>4, <2>1, <2>2
  <2>4. GrantedIn(started, clock)' = {n}
    BY <1>1, <1>3, <1>4, <2>1, <2>2 DEF GrantedIn
  <2>5. count' = CallsIn(started, clock)'
    BY <2>1, <2>4, FS_Singleton DEF CallsIn
  <2>6. ASSUME NEW t \in 0 .. MaxClock, t + Hour > started'
        PROVE  Cardinality(EarlierSince(t)') <= HourCap
    <3>1. EarlierSince(t)' \in SUBSET GrantedIn(started, clock)
      BY <1>1, <1>2, <1>4, <2>1, <2>6 DEF EarlierSince, GrantedIn
    <3>2. GrantedIn(started, clock) \in SUBSET DOMAIN log
      BY DEF GrantedIn
    <3>3. Cardinality(EarlierSince(t)') <= Cardinality(GrantedIn(started, clock))
      BY <3>1, <3>2, SomeGranted
    <3>4. EarlierSince(t)' \in SUBSET DOMAIN log
      BY <3>1, <3>2
    <3>5. Cardinality(EarlierSince(t)') \in Nat
      BY <3>4, SomeGranted
    <3> QED
      BY <1>1, <3>3, <3>5 DEF WindowInv, CallsIn
  <2> QED
    BY <2>3, <2>5, <2>6 DEF WindowInv
<1>6. CASE ~Expired
  <2>1. started' = started /\ count' = count + 1 /\ clock < started + Hour
    BY <1>1, <1>3, <1>6 DEF RollOver, Expired
  <2>2. \A i \in DOMAIN log' : log'[i] < started' + Hour
    BY <1>1, <1>4, <2>1 DEF WindowInv
  <2>3. /\ GrantedIn(started, clock)' = GrantedIn(started, clock) \cup {n}
        /\ n \notin GrantedIn(started, clock)
    BY <1>1, <1>3, <1>4, <2>1 DEF GrantedIn
  <2>4. GrantedIn(started, clock) \in SUBSET DOMAIN log
    BY DEF GrantedIn
  <2>5. IsFiniteSet(GrantedIn(started, clock))
    BY <2>4, SomeGranted
  <2>6. Cardinality(GrantedIn(started, clock) \cup {n}) = Cardinality(GrantedIn(started, clock)) + 1
    BY <2>3, <2>5, FS_AddElement
  <2>7. count' = CallsIn(started, clock)'
    BY <2>1, <2>3, <2>6 DEF CallsIn, WindowInv
  <2>8. ASSUME NEW t \in 0 .. MaxClock, t + Hour > started'
        PROVE  Cardinality(EarlierSince(t)') <= HourCap
    <3>1. EarlierSince(t)' = EarlierSince(t)
      BY <1>1, <1>4, <2>1 DEF EarlierSince
    <3> QED
      BY <2>1, <2>8, <3>1 DEF WindowInv
  <2> QED
    BY <2>2, <2>7, <2>8 DEF WindowInv
<1> QED
  BY <1>5, <1>6

(* Every step keeps the account of the windows. *)
LEMMA WindowStep == TypeOK /\ TypeOK' /\ WindowInv /\ [Next]_vars => WindowInv'
<1> SUFFICES ASSUME TypeOK, TypeOK', WindowInv, [Next]_vars PROVE WindowInv'
  OBVIOUS
<1>1. /\ log \in Seq(0 .. clock) /\ clock \in Nat /\ DOMAIN log = 1 .. Len(log)
      /\ started \in Nat /\ started <= clock
  BY LenProperties DEF TypeOK
<1>2. \A i \in DOMAIN log : log[i] \in 0 .. clock
  BY <1>1, ElementOfSeq
<1>3. ASSUME UNCHANGED <<window, log>>, clock' \in {clock, clock + 1} PROVE WindowInv'
  <2>1. UNCHANGED <<started, count, log>>
    BY <1>3 DEF window
  <2>2. GrantedIn(started, clock)' = GrantedIn(started, clock)
    BY <1>1, <1>2, <1>3, <2>1 DEF GrantedIn
  <2>3. \A t : EarlierSince(t)' = EarlierSince(t)
    BY <2>1 DEF EarlierSince
  <2> QED
    BY <2>1, <2>2, <2>3 DEF WindowInv, CallsIn
<1>4. CASE Call
  BY <1>4, CallCounted
<1>5. CASE Tick
  BY <1>3, <1>5 DEF Tick
<1>6. CASE Begin \/ Answer \/ Refuse \/ Fails \/ Raises \/ UNCHANGED vars
  BY <1>3, <1>6 DEF Begin, Answer, Refuse, Fails, Raises, vars
<1> QED
  BY <1>4, <1>5, <1>6 DEF Next

(* The bound for the hours that are not over when the window began. *)
RecentBound == \A t \in 0 .. MaxClock : t + Hour > started => CallsIn(t, t + Hour - 1) <= 2 * HourCap

(* A step takes no hour over two budgets. *)
LEMMA SlidingStep ==
    TypeOK /\ TypeOK' /\ RecentBound' /\ SlidingBound /\ [Next]_vars => SlidingBound'
<1> SUFFICES ASSUME TypeOK, TypeOK', RecentBound', SlidingBound, [Next]_vars,
                    NEW t \in 0 .. MaxClock
             PROVE  CallsIn(t, t + Hour - 1)' <= 2 * HourCap
  BY DEF SlidingBound
<1>1. CASE log' = log
  BY <1>1 DEF SlidingBound, CallsIn, GrantedIn
<1>2. CASE t + Hour > started'
  BY <1>2 DEF RecentBound
<1>3. CASE Call /\ ~(t + Hour > started')
  <2>1. /\ log \in Seq(0 .. clock) /\ clock \in Nat /\ Hour \in Nat /\ t \in Nat
        /\ Len(log) \in Nat /\ DOMAIN log = 1 .. Len(log)
        /\ started' \in Nat /\ started' <= clock' /\ clock' = clock /\ log' = Append(log, clock)
    BY <1>3, TraceAssumption, LenProperties DEF TypeOK, Call
  <2> DEFINE n == Len(log) + 1
  <2>2. /\ Append(log, clock) \in Seq(0 .. clock) /\ Len(Append(log, clock)) = n
        /\ Append(log, clock)[n] = clock
        /\ \A i \in 1 .. Len(log) : Append(log, clock)[i] = log[i]
    BY <2>1, AppendProperties
  <2>3. DOMAIN log' = 1 .. n
    BY <2>1, <2>2, LenProperties
  <2>4. GrantedIn(t, t + Hour - 1)' = GrantedIn(t, t + Hour - 1)
    BY <1>3, <2>1, <2>2, <2>3 DEF GrantedIn
  <2> QED
    BY <2>4 DEF CallsIn, SlidingBound
<1>4. log' = log \/ Call
  BY DEF Next, Tick, Begin, Answer, Refuse, Fails, Raises, vars
<1> QED
  BY <1>1, <1>2, <1>3, <1>4

(* The account of the windows is kept from the start. *)
LEMMA WindowInvariant == Spec => [](WindowInv /\ SlidingBound)
<1>1. Init => WindowInv /\ SlidingBound
  <2> SUFFICES ASSUME Init PROVE WindowInv /\ SlidingBound
    OBVIOUS
  <2>1. log = <<>> /\ DOMAIN log = {} /\ count = 0 /\ HourCap \in Nat
    BY TraceAssumption DEF Init
  <2>2. \A t, u : GrantedIn(t, u) = {} /\ EarlierSince(t) = {}
    BY <2>1 DEF GrantedIn, EarlierSince
  <2>3. \A t, u : CallsIn(t, u) = 0 /\ Cardinality(EarlierSince(t)) = 0
    BY <2>2, FS_EmptySet DEF CallsIn
  <2>4. WindowInv
    BY <2>1, <2>3 DEF WindowInv
  <2>5. SlidingBound
    BY <2>1, <2>3 DEF SlidingBound
  <2> QED
    BY <2>4, <2>5
<1>2. TypeOK /\ TypeOK' /\ WindowInv /\ [Next]_vars => WindowInv'
  BY WindowStep
<1>3. TypeOK /\ WindowInv => RecentBound
  BY TwoBudgets DEF RecentBound
<1>4. TypeOK /\ TypeOK' /\ RecentBound' /\ SlidingBound /\ [Next]_vars => SlidingBound'
  BY SlidingStep
<1> QED
  BY <1>1, <1>2, <1>3, <1>4, TypeCorrect, PTL DEF Spec

(* The count of the window is the number of calls granted since it began,  *)
(* and never exceeds the hourly budget.                                    *)
THEOREM WindowCountedInvariant == Spec => []WindowCounted
<1>1. TypeOK /\ WindowInv => WindowCounted
  BY DEF TypeOK, WindowInv, WindowCounted
<1> QED
  BY <1>1, TypeCorrect, WindowInvariant, PTL

(* No hour, wherever it starts, sees more calls than two hourly budgets:   *)
(* the price of a window that is fixed and not sliding.                    *)
THEOREM SlidingBoundInvariant == Spec => []SlidingBound
BY WindowInvariant, PTL

==============================================================================
