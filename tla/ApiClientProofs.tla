--------------------------- MODULE ApiClientProofs ---------------------------
(***************************************************************************)
(* Theorems about the shared API client, for any number of callers, any    *)
(* set of rates and any limits on retries and backoff.                     *)
(***************************************************************************)
EXTENDS ApiClient, SequenceTheorems, TLAPS

(* Queueing for the lock: c comes last and nobody else moves. *)
LEMMA Queue ==
    ASSUME NEW S, NEW q \in Seq(S), IsInjective(q), NEW c \in S, c \notin Range(q)
    PROVE  /\ Append(q, c) \in Seq(S) /\ Append(q, c) # <<>>
           /\ IsInjective(Append(q, c))
           /\ Range(Append(q, c)) = Range(q) \cup {c}
           /\ q # <<>> => Head(Append(q, c)) = Head(q)
<1> DEFINE a == Append(q, c)
<1>1. /\ a \in Seq(S) /\ a # <<>> /\ Len(a) = Len(q) + 1
      /\ \A i \in 1 .. Len(q) : a[i] = q[i]
      /\ a[Len(q) + 1] = c
  BY AppendProperties
<1>2. Len(q) \in Nat /\ DOMAIN q = 1 .. Len(q) /\ DOMAIN a = 1 .. Len(q) + 1
  BY <1>1, LenProperties
<1>3. \A i \in 1 .. Len(q) : q[i] # c
  BY <1>2 DEF Range
<1>4. IsInjective(a)
  BY <1>1, <1>2, <1>3 DEF IsInjective
<1>5. Range(a) = Range(q) \cup {c}
  BY <1>1, <1>2 DEF Range
<1>6. q # <<>> => Head(a) = Head(q)
  BY HeadTailAppend
<1> QED
  BY <1>1, <1>4, <1>5, <1>6

(* Releasing the lock: the head goes and nobody else moves. *)
LEMMA Release ==
    ASSUME NEW S, NEW q \in Seq(S), IsInjective(q), q # <<>>
    PROVE  /\ Tail(q) \in Seq(S)
           /\ IsInjective(Tail(q))
           /\ Range(Tail(q)) = Range(q) \ {Head(q)}
<1> DEFINE t == Tail(q)
<1>1. t \in Seq(S) /\ Len(t) = Len(q) - 1 /\ \A i \in 1 .. Len(t) : t[i] = q[i + 1]
  BY HeadTailProperties
<1>2. Len(q) \in Nat /\ Len(q) > 0 /\ DOMAIN q = 1 .. Len(q) /\ DOMAIN t = 1 .. Len(q) - 1
  BY <1>1, LenProperties, EmptySeq
<1>3. Head(q) = q[1]
  BY <1>2
<1>4. IsInjective(t)
  BY <1>1, <1>2 DEF IsInjective
<1>5. Range(t) \subseteq Range(q) \ {Head(q)}
  BY <1>1, <1>2, <1>3 DEF Range, IsInjective
<1>6. ASSUME NEW x \in Range(q), x # Head(q)
      PROVE  x \in Range(t)
  <2>1. PICK i \in 1 .. Len(q) : x = q[i]
    BY <1>2 DEF Range
  <2>2. i # 1
    BY <2>1, <1>3, <1>6
  <2>3. i - 1 \in 1 .. Len(t) /\ t[i - 1] = x
    BY <1>1, <1>2, <2>1, <2>2
  <2> QED
    BY <2>3, <1>1, <1>2 DEF Range
<1> QED
  BY <1>1, <1>4, <1>5, <1>6

(* Leaving the queue: the others keep their order, and the head its place. *)
LEMMA Leave ==
    ASSUME NEW S, NEW q \in Seq(S), IsInjective(q), NEW i \in DOMAIN q
    PROVE  /\ Without(q, i) \in Seq(S)
           /\ IsInjective(Without(q, i))
           /\ Range(Without(q, i)) = Range(q) \ {q[i]}
           /\ Head(q) # q[i] => Without(q, i) # <<>> /\ Head(Without(q, i)) = Head(q)
<1> DEFINE w == Without(q, i)
           n == Len(q)
<1>1. n \in Nat /\ DOMAIN q = 1 .. n /\ i \in 1 .. n /\ \A j \in 1 .. n : q[j] \in S
  BY LenProperties, ElementOfSeq
<1>2. n - 1 \in Nat /\ \A j \in 1 .. n - 1 : (IF j < i THEN q[j] ELSE q[j + 1]) \in S
  BY <1>1
<1>3. w \in [1 .. n - 1 -> S]
  BY <1>2 DEF Without
<1>4. w \in Seq(S) /\ Len(w) = n - 1 /\ DOMAIN w = 1 .. n - 1
  BY <1>2, <1>3
<1>5. \A j \in 1 .. n - 1 : w[j] = IF j < i THEN q[j] ELSE q[j + 1]
  BY DEF Without
<1> HIDE DEF w
<1>6. IsInjective(w)
  BY <1>1, <1>4, <1>5 DEF IsInjective
<1>7. Range(w) \subseteq Range(q) \ {q[i]}
  BY <1>1, <1>4, <1>5 DEF Range, IsInjective
<1>8. ASSUME NEW x \in Range(q), x # q[i]
      PROVE  x \in Range(w)
  <2>1. PICK j \in 1 .. n : x = q[j] /\ j # i
    BY <1>1, <1>8 DEF Range
  <2>2. CASE j < i
    <3>1. j \in 1 .. n - 1 /\ w[j] = x
      BY <2>1, <2>2, <1>1, <1>5
    <3> QED
      BY <3>1, <1>4 DEF Range
  <2>3. CASE j > i
    <3>1. j - 1 \in 1 .. n - 1 /\ w[j - 1] = x
      BY <2>1, <2>3, <1>1, <1>5
    <3> QED
      BY <3>1, <1>4 DEF Range
  <2> QED
    BY <2>1, <2>2, <2>3, <1>1
<1>9. Head(q) # q[i] => w # <<>> /\ Head(w) = Head(q)
  <2> SUFFICES ASSUME Head(q) # q[i] PROVE w # <<>> /\ Head(w) = Head(q)
    OBVIOUS
  <2>1. i # 1
    BY <1>1
  <2>2. 1 \in 1 .. n - 1 /\ w[1] = q[1]
    BY <2>1, <1>1, <1>5
  <2> QED
    BY <2>2, <1>1, <1>4
<1> QED
  BY <1>4, <1>6, <1>7, <1>8, <1>9 DEF w

------------------------------------------------------------------------------
(* What makes the invariants inductive: a caller that waits out the        *)
(* interval will have waited long enough when its timer is over, and a     *)
(* caller that has yet to send has sent fewer requests than it has tried.  *)
Slept == \A c \in Callers : state[c] = "throttled" => since + timer[c] >= interval
Counted == \A c \in Callers :
    /\ sent[c] <= attempt[c]
    /\ state[c] \in {"lock", "throttled"} => sent[c] < attempt[c]

Inv == TypeOK /\ ThrottleExclusive /\ Slept /\ Counted

(* There is a slowest rate, and it is one of the rates. *)
LEMMA SlowestRate == Slowest \in Intervals /\ \A i \in Intervals : i <= Slowest
BY ClientAssumption DEF Slowest

(* No caller has started. *)
LEMMA InitInv == Init => Inv
<1> SUFFICES ASSUME Init PROVE Inv
  OBVIOUS
<1>1. lock \in Seq(Callers) /\ DOMAIN lock = {} /\ Range(lock) = {}
  BY EmptySeq DEF Init, Range
<1>2. TypeOK
  BY <1>1, SlowestRate, ClientAssumption DEF Init, TypeOK, IsInjective
<1> QED
  BY <1>1, <1>2 DEF Init, Inv, ThrottleExclusive, Slept, Counted

(* Time passes: a timer runs down no faster than the time since the last   *)
(* request grows.                                                          *)
LEMMA TickInv == Inv /\ Tick => Inv'
<1> SUFFICES ASSUME Inv, Tick PROVE Inv'
  OBVIOUS
<1>1. Slowest \in Nat /\ interval <= Slowest /\ interval \in Nat
  BY SlowestRate, ClientAssumption DEF Inv, TypeOK
<1>2. TypeOK'
  BY <1>1 DEF Inv, TypeOK, Tick, call
<1>3. ThrottleExclusive' /\ Counted'
  BY DEF Inv, ThrottleExclusive, Counted, Tick, call
<1>4. Slept'
  BY <1>1 DEF Inv, TypeOK, Slept, Tick
<1> QED
  BY <1>2, <1>3, <1>4 DEF Inv

(* A new rate changes nothing a caller already holds. *)
LEMMA SetRateInv == Inv /\ SetRate => Inv'
BY DEF Inv, SetRate, TypeOK, ThrottleExclusive, Slept, Counted, call

(* A caller queues for its next attempt. *)
LEMMA AttemptInv ==
    ASSUME Inv, NEW c \in Callers, state[c] \notin {"lock", "throttled"},
           NEW n \in 1 .. MaxRetries, Attempt(c, n),
           UNCHANGED <<interval, since, timer>>,
           backoff' \in [Callers -> 1 .. MaxBackoff],
           sent' \in [Callers -> 0 .. MaxRetries], sent'[c] < n,
           \A d \in Callers : d # c => sent'[d] = sent[d]
    PROVE  Inv'
<1>1. c \notin Range(lock) /\ lock \in Seq(Callers) /\ IsInjective(lock)
  BY DEF Inv, ThrottleExclusive, TypeOK
<1>2. /\ lock' \in Seq(Callers) /\ lock' # <<>> /\ IsInjective(lock')
      /\ Range(lock') = Range(lock) \cup {c}
      /\ lock # <<>> => Head(lock') = Head(lock)
  BY <1>1, Queue DEF Attempt
<1>3. /\ state' = [state EXCEPT ![c] = "lock"] /\ attempt' = [attempt EXCEPT ![c] = n]
      /\ state \in [Callers -> {"idle", "lock", "throttled", "sent", "asleep"}]
      /\ attempt \in [Callers -> 0 .. MaxRetries]
      /\ n \in 0 .. MaxRetries
  BY ClientAssumption DEF Attempt, Inv, TypeOK
<1>4. TypeOK'
  <2>1. state' \in [Callers -> {"idle", "lock", "throttled", "sent", "asleep"}]
    BY <1>3
  <2>2. attempt' \in [Callers -> 0 .. MaxRetries]
    BY <1>3
  <2> QED
    BY <1>2, <2>1, <2>2 DEF Inv, TypeOK
<1>5. ThrottleExclusive'
  BY <1>2, <1>3 DEF Inv, ThrottleExclusive
<1>6. Slept'
  BY <1>3 DEF Inv, Slept
<1>7. Counted'
  BY <1>3 DEF Inv, Counted, TypeOK
<1> QED
  BY <1>4, <1>5, <1>6, <1>7 DEF Inv

(* A call starts its first attempt. *)
LEMMA RequestInv == ASSUME Inv, NEW c \in Callers, Request(c) PROVE Inv'
<1>1. /\ backoff' \in [Callers -> 1 .. MaxBackoff]
      /\ sent' \in [Callers -> 0 .. MaxRetries] /\ sent'[c] = 0
      /\ \A d \in Callers : d # c => sent'[d] = sent[d]
  BY ClientAssumption DEF Request, Inv, TypeOK
<1>2. 1 \in 1 .. MaxRetries /\ 0 < 1
  BY ClientAssumption
<1> QED
  BY <1>1, <1>2, AttemptInv DEF Request

(* A call starts another attempt after its delay. *)
LEMMA RetryInv == ASSUME Inv, NEW c \in Callers, Retry(c) PROVE Inv'
<1>1. CASE attempt[c] < MaxRetries /\ Attempt(c, attempt[c] + 1)
  <2>1. attempt[c] + 1 \in 1 .. MaxRetries /\ sent[c] < attempt[c] + 1
    BY <1>1, ClientAssumption DEF Inv, TypeOK, Counted
  <2>2. /\ backoff' \in [Callers -> 1 .. MaxBackoff] /\ sent' \in [Callers -> 0 .. MaxRetries]
        /\ state[c] \notin {"lock", "throttled"} /\ UNCHANGED <<interval, since, timer, sent>>
    BY DEF Retry, Inv, TypeOK
  <2> QED
    BY <1>1, <2>1, <2>2, AttemptInv
<1>2. CASE state' = [state EXCEPT ![c] = "idle"] /\ UNCHANGED <<attempt, lock>>
  BY <1>2 DEF Retry, Inv, TypeOK, ThrottleExclusive, Slept, Counted
<1> QED
  BY <1>1, <1>2 DEF Retry

(* The head of the queue sends its request and gives the lock away. *)
LEMMA DepartInv ==
    ASSUME Inv, NEW c \in Callers, lock # <<>>, Head(lock) = c,
           state[c] \in {"lock", "throttled"}, Depart(c)
    PROVE  Inv'
<1>1. lock \in Seq(Callers) /\ IsInjective(lock)
  BY DEF Inv, TypeOK
<1>2. /\ lock' \in Seq(Callers) /\ IsInjective(lock') /\ Range(lock') = Range(lock) \ {c}
  BY <1>1, Release DEF Depart
<1>3. /\ state' = [state EXCEPT ![c] = "sent"] /\ sent' = [sent EXCEPT ![c] = @ + 1]
      /\ since' = 0 /\ UNCHANGED <<interval, timer, attempt, backoff>>
  BY DEF Depart
<1>4. sent[c] < attempt[c] /\ attempt[c] \in 0 .. MaxRetries /\ sent[c] \in 0 .. MaxRetries
  BY DEF Inv, Counted, TypeOK
<1>5. TypeOK'
  <2>1. sent[c] + 1 \in 0 .. MaxRetries /\ MaxRetries \in Nat
    BY <1>4, ClientAssumption
  <2>2. /\ sent' \in [Callers -> 0 .. MaxRetries]
        /\ state' \in [Callers -> {"idle", "lock", "throttled", "sent", "asleep"}]
    BY <1>3, <2>1 DEF Inv, TypeOK
  <2>3. since' \in 0 .. Slowest
    BY <1>3, SlowestRate, ClientAssumption
  <2> QED
    BY <1>2, <1>3, <2>2, <2>3 DEF Inv, TypeOK
<1>6. \A d \in Callers : state'[d] # "throttled"
  BY <1>3 DEF Inv, TypeOK, ThrottleExclusive
<1>7. ThrottleExclusive'
  BY <1>2, <1>3, <1>6 DEF Inv, ThrottleExclusive, TypeOK
<1>8. Slept' /\ Counted'
  BY <1>3, <1>4, <1>6 DEF Inv, Slept, Counted, TypeOK
<1> QED
  BY <1>5, <1>7, <1>8 DEF Inv

(* The head of the queue goes on at once or sleeps off the interval. *)
LEMMA EnterInv == ASSUME Inv, NEW c \in Callers, Enter(c) PROVE Inv'
<1>1. CASE Wait = 0 /\ Depart(c)
  BY <1>1, DepartInv DEF Enter
<1>2. CASE /\ Wait > 0
           /\ state' = [state EXCEPT ![c] = "throttled"]
           /\ timer' = [timer EXCEPT ![c] = Wait]
           /\ UNCHANGED <<interval, since, lock, call>>
  <2>1. /\ interval \in Nat /\ since \in Nat /\ Wait \in Nat
        /\ since + Wait >= interval
    BY SlowestRate, ClientAssumption DEF Inv, TypeOK, Wait
  <2>2. TypeOK'
    BY <1>2, <2>1 DEF Inv, TypeOK, call
  <2>3. ThrottleExclusive' /\ Counted'
    BY <1>2 DEF Enter, Inv, TypeOK, ThrottleExclusive, Counted, call
  <2>4. Slept'
    BY <1>2, <2>1 DEF Inv, TypeOK, Slept
  <2> QED
    BY <2>2, <2>3, <2>4 DEF Inv
<1> QED
  BY <1>1, <1>2 DEF Enter

(* A caller whose sleep is over sends its request. *)
LEMMA SendInv == ASSUME Inv, NEW c \in Callers, Send(c) PROVE Inv'
BY DepartInv DEF Send, Inv, ThrottleExclusive

(* An answer ends the attempt or schedules the next one. *)
LEMMA RespondInv == ASSUME Inv, NEW c \in Callers, Respond(c) PROVE Inv'
<1> DEFINE Result == /\ state' \in [Callers -> {"idle", "lock", "throttled", "sent", "asleep"}]
                     /\ state'[c] \notin {"lock", "throttled"}
                     /\ \A d \in Callers : d # c => state'[d] = state[d]
                     /\ timer' \in [Callers -> Nat]
                     /\ \A d \in Callers : d # c => timer'[d] = timer[d]
                     /\ backoff' \in [Callers -> 1 .. MaxBackoff]
<1>1. state[c] = "sent" /\ Result
  <2>1. /\ state[c] = "sent" /\ Outcome(c)
        /\ state \in [Callers -> {"idle", "lock", "throttled", "sent", "asleep"}]
        /\ timer \in [Callers -> Nat] /\ backoff \in [Callers -> 1 .. MaxBackoff]
    BY DEF Respond, Inv, TypeOK
  <2>2. CASE Finish(c)
    BY <2>1, <2>2 DEF Finish
  <2>3. ASSUME NEW t \in Nat, Sleep(c, t), backoff' \in [Callers -> 1 .. MaxBackoff]
        PROVE  Result
    BY <2>1, <2>3 DEF Sleep
  <2>4. backoff[c] \in Nat
    BY <2>1
  <2>5. (IF 2 * backoff[c] < MaxBackoff THEN 2 * backoff[c] ELSE MaxBackoff) \in 1 .. MaxBackoff
    BY <2>1, ClientAssumption
  <2>6. ASSUME backoff' = [backoff EXCEPT ![c] =
                   IF 2 * @ < MaxBackoff THEN 2 * @ ELSE MaxBackoff]
        PROVE  backoff' \in [Callers -> 1 .. MaxBackoff]
    BY <2>1, <2>5, <2>6
  <2> QED
    BY <2>1, <2>2, <2>3, <2>4, <2>6, ClientAssumption DEF Outcome
<1>2. UNCHANGED <<interval, since, lock, attempt, sent>>
  BY DEF Respond
<1>3. TypeOK'
  BY <1>1, <1>2 DEF Inv, TypeOK
<1> QED
  BY <1>1, <1>2, <1>3 DEF Inv, ThrottleExclusive, Slept, Counted

(* A cancelled caller leaves the queue, and the next one becomes its head. *)
LEMMA CancelInv == ASSUME Inv, NEW c \in Callers, Cancel(c) PROVE Inv'
<1>1. lock \in Seq(Callers) /\ IsInjective(lock)
  BY DEF Inv, TypeOK
<1>2. /\ lock' \in Seq(Callers) /\ IsInjective(lock') /\ Range(lock') = Range(lock) \ {c}
      /\ lock # <<>> /\ Head(lock) # c => lock' # <<>> /\ Head(lock') = Head(lock)
  <2>1. CASE c \in Range(lock)
    <3>1. PICK i \in DOMAIN lock : lock[i] = c /\ lock' = Without(lock, i)
      BY <2>1 DEF Cancel, LeaveLock
    <3> QED
      BY <3>1, <1>1, Leave
  <2>2. CASE c \notin Range(lock)
    BY <2>2, <1>1 DEF Cancel, LeaveLock
  <2> QED
    BY <2>1, <2>2
<1>3. /\ state' = [state EXCEPT ![c] = "idle"] /\ timer' = [timer EXCEPT ![c] = 0]
      /\ UNCHANGED <<interval, since, attempt, backoff, sent>>
  BY DEF Cancel, call
<1>4. TypeOK'
  BY <1>2, <1>3 DEF Inv, TypeOK
<1>5. ThrottleExclusive'
  BY <1>2, <1>3 DEF Inv, ThrottleExclusive, TypeOK
<1>6. Slept' /\ Counted'
  BY <1>3 DEF Inv, Slept, Counted, TypeOK
<1> QED
  BY <1>4, <1>5, <1>6 DEF Inv

(* Every step keeps the invariant. *)
LEMMA NextInv == Inv /\ [Next]_vars => Inv'
<1> SUFFICES ASSUME Inv, [Next]_vars PROVE Inv'
  OBVIOUS
<1>1. CASE UNCHANGED vars
  BY <1>1 DEF vars, call, Inv, TypeOK, ThrottleExclusive, Slept, Counted
<1>2. CASE Tick
  BY <1>2, TickInv
<1>3. CASE SetRate
  BY <1>3, SetRateInv
<1>4. ASSUME NEW c \in Callers, Step(c) \/ Request(c) \/ Cancel(c)
      PROVE  Inv'
  BY <1>4, EnterInv, SendInv, RespondInv, RetryInv, RequestInv, CancelInv DEF Step
<1> QED
  BY <1>1, <1>2, <1>3, <1>4 DEF Next

(* Inv holds in every state. *)
LEMMA Invariance == Spec => []Inv
<1> QED
  BY InitInv, NextInv, PTL DEF Spec

(* The state is typed: the lock holds nobody twice and nobody sends more   *)
(* requests than _max_retries.                                             *)
THEOREM TypeCorrect == Spec => []TypeOK
<1>1. Inv => TypeOK
  BY DEF Inv
<1> QED
  BY <1>1, Invariance, PTL

(* One caller at most waits out the interval, and it holds the lock. *)
THEOREM ThrottleExclusiveInvariant == Spec => []ThrottleExclusive
<1>1. Inv => ThrottleExclusive
  BY DEF Inv
<1> QED
  BY <1>1, Invariance, PTL

(* No request leaves before _min_interval has passed since the last one. *)
THEOREM RequestsSpaced == Spec => Spaced
<1>1. ASSUME Inv, Next, NEW c \in Callers, sent'[c] > sent[c]
      PROVE  since >= interval
  <2>1. sent \in [Callers -> Nat] /\ interval \in Nat /\ since \in Nat /\ timer \in [Callers -> Nat]
    BY <1>1, SlowestRate, ClientAssumption DEF Inv, TypeOK
  <2>2. CASE Tick \/ SetRate
    BY <1>1, <2>1, <2>2 DEF Tick, SetRate, call
  <2>3. ASSUME NEW d \in Callers, Request(d) \/ Cancel(d) \/ Respond(d) \/ Retry(d)
        PROVE  FALSE
    BY <1>1, <2>1, <2>3 DEF Request, Cancel, Respond, Retry, call
  <2>4. ASSUME NEW d \in Callers, Enter(d)
        PROVE  since >= interval
    BY <1>1, <2>1, <2>4 DEF Enter, Wait, call
  <2>5. ASSUME NEW d \in Callers, Send(d)
        PROVE  since >= interval
    BY <1>1, <2>1, <2>5 DEF Send, Inv, Slept
  <2> QED
    BY <1>1, <2>2, <2>3, <2>4, <2>5 DEF Next, Step
<1>2. Inv /\ [Next]_vars => [\A c \in Callers : sent'[c] > sent[c] => since >= interval]_vars
  BY <1>1
<1> QED
  BY <1>2, Invariance, PTL DEF Spec, Spaced

==============================================================================
