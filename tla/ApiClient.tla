------------------------------ MODULE ApiClient ------------------------------
(***************************************************************************)
(* src/ingestion/polymarket_api.py, _throttle and _request (kalshi_api.py  *)
(* and alchemy.py hold the same code): many tasks of the event loop share  *)
(* one client, its rate and its lock, and each retries its own request.    *)
(*                                                                         *)
(* asyncio.Lock serves its waiters first come first served, so the lock is *)
(* the queue of the tasks that hold it or wait for it: the head has it.    *)
(* Time is counted down: a sleep is a timer that may be overslept, never   *)
(* cut short, and `since` is the time since _last_request_at as far as the *)
(* slowest rate can tell.  The request itself (external) ends in any       *)
(* outcome; its timeout is one of them.                                    *)
(***************************************************************************)
EXTENDS Naturals, Sequences, Functions

CONSTANTS Callers,
          Intervals,     \* _min_interval of each rate set_rate is given
          MaxRetries,    \* _max_retries (10, Alchemy 5)
          MaxBackoff,    \* cap of the backoff (60 s)
          RetryAfters    \* what a 429 asks for, in ticks

ASSUME ClientAssumption ==
    /\ Intervals \subseteq Nat \ {0}
    /\ \E slowest \in Intervals : \A i \in Intervals : i <= slowest
    /\ MaxRetries \in Nat \ {0} /\ MaxBackoff \in Nat \ {0}
    /\ RetryAfters \subseteq Nat

VARIABLES interval,   \* _min_interval
          since,      \* now - _last_request_at, at most Slowest
          lock,       \* _lock: its holder, then its waiters
          state,      \* where each caller is
          timer,      \* what is left of its sleep
          attempt, backoff,
          sent        \* history: requests sent in this call

call == <<attempt, backoff, sent>>
vars == <<interval, since, lock, state, timer, call>>

Slowest == CHOOSE i \in Intervals : \A j \in Intervals : j <= i

Init == /\ interval \in Intervals /\ since = Slowest /\ lock = <<>>
        /\ state = [c \in Callers |-> "idle"] /\ timer = [c \in Callers |-> 0]
        /\ attempt = [c \in Callers |-> 0] /\ backoff = [c \in Callers |-> 1]
        /\ sent = [c \in Callers |-> 0]

(* Time passes, for the sleepers as well. *)
Tick == /\ since < Slowest \/ \E c \in Callers : timer[c] > 0
        /\ since' = IF since < Slowest THEN since + 1 ELSE since
        /\ timer' = [c \in Callers |-> IF timer[c] > 0 THEN timer[c] - 1 ELSE 0]
        /\ UNCHANGED <<interval, lock, state, call>>

------------------------------------------------------------------------------
(* _throttle *)

Wait == IF since < interval THEN interval - since ELSE 0

(* c no longer holds the lock, or no longer waits for it. *)
Without(q, i) == [j \in 1 .. Len(q) - 1 |-> IF j < i THEN q[j] ELSE q[j + 1]]
LeaveLock(c)  == IF c \in Range(lock)
                 THEN \E i \in DOMAIN lock : lock[i] = c /\ lock' = Without(lock, i)
                 ELSE lock' = lock

(* The wait is over: the time is noted, the lock released, the request sent. *)
Depart(c) ==
    /\ since' = 0
    /\ lock' = Tail(lock)
    /\ state' = [state EXCEPT ![c] = "sent"]
    /\ sent' = [sent EXCEPT ![c] = @ + 1]
    /\ UNCHANGED <<interval, timer, attempt, backoff>>

(* Mutated form: the interval is slept off before the lock is taken. *)
EnterUnlocked(c) ==
    /\ state[c] = "lock"
    /\ \/ Wait = 0 /\ c = Head(lock) /\ Depart(c)
       \/ /\ Wait > 0
          /\ state' = [state EXCEPT ![c] = "throttled"]
          /\ timer' = [timer EXCEPT ![c] = Wait]
          /\ UNCHANGED <<interval, since, lock, call>>

(* The lock is free and c is next: it sleeps off the rest of the interval, *)
(* holding the lock, or goes on at once.                                   *)
Enter(c) ==
    /\ lock # <<>> /\ c = Head(lock) /\ state[c] = "lock"
    /\ \/ Wait = 0 /\ Depart(c)
       \/ /\ Wait > 0
          /\ state' = [state EXCEPT ![c] = "throttled"]
          /\ timer' = [timer EXCEPT ![c] = Wait]
          /\ UNCHANGED <<interval, since, lock, call>>

Send(c) == state[c] = "throttled" /\ timer[c] = 0 /\ Depart(c)

------------------------------------------------------------------------------
(* _request *)

(* The next attempt: the caller queues for the lock. *)
Attempt(c, n) == /\ attempt' = [attempt EXCEPT ![c] = n]
                 /\ state' = [state EXCEPT ![c] = "lock"]
                 /\ lock' = Append(lock, c)

Request(c) ==
    /\ state[c] = "idle"
    /\ Attempt(c, 1)
    /\ backoff' = [backoff EXCEPT ![c] = 1] /\ sent' = [sent EXCEPT ![c] = 0]
    /\ UNCHANGED <<interval, since, timer>>

(* The call returns or raises: success, 4xx other than 429, or an exception *)
(* that is neither a timeout nor a network error.                          *)
Finish(c) == /\ state' = [state EXCEPT ![c] = "idle"]
             /\ UNCHANGED <<timer, backoff>>

Sleep(c, t) == /\ state' = [state EXCEPT ![c] = "asleep"]
               /\ timer' = [timer EXCEPT ![c] = t]

(* A 429 is waited out as the server asks and leaves the backoff alone; a  *)
(* timeout, a network error or a 5xx is waited out with a doubling backoff.*)
Outcome(c) ==
    \/ Finish(c)
    \/ \E t \in RetryAfters : Sleep(c, t) /\ UNCHANGED backoff
    \/ /\ Sleep(c, backoff[c])
       /\ backoff' = [backoff EXCEPT ![c] =
              IF 2 * @ < MaxBackoff THEN 2 * @ ELSE MaxBackoff]

Respond(c) == /\ state[c] = "sent" /\ Outcome(c)
              /\ UNCHANGED <<interval, since, lock, attempt, sent>>

(* Mutated form: the attempts are counted one short. *)
RetryOnceMore(c) ==
    /\ state[c] = "asleep" /\ timer[c] = 0
    /\ \/ attempt[c] <= MaxRetries /\ Attempt(c, attempt[c] + 1)
       \/ /\ attempt[c] > MaxRetries /\ state' = [state EXCEPT ![c] = "idle"]
          /\ UNCHANGED <<attempt, lock>>
    /\ UNCHANGED <<interval, since, timer, backoff, sent>>

(* After the sleep: another attempt, or "max retries" is raised. *)
Retry(c) ==
    /\ state[c] = "asleep" /\ timer[c] = 0
    /\ \/ attempt[c] < MaxRetries /\ Attempt(c, attempt[c] + 1)
       \/ /\ attempt[c] = MaxRetries /\ state' = [state EXCEPT ![c] = "idle"]
          /\ UNCHANGED <<attempt, lock>>
    /\ UNCHANGED <<interval, since, timer, backoff, sent>>

------------------------------------------------------------------------------
(* Mutated form: a task that is cancelled in the throttle keeps the lock. *)
CancelKeepsLock(c) ==
    /\ state[c] # "idle"
    /\ state' = [state EXCEPT ![c] = "idle"] /\ timer' = [timer EXCEPT ![c] = 0]
    /\ IF state[c] = "throttled" THEN lock' = lock ELSE LeaveLock(c)
    /\ UNCHANGED <<interval, since, call>>

(* stop() cancels the caller's task at its await; the lock is released and *)
(* _last_request_at stays as it was.                                       *)
Cancel(c) ==
    /\ state[c] # "idle"
    /\ state' = [state EXCEPT ![c] = "idle"] /\ timer' = [timer EXCEPT ![c] = 0]
    /\ LeaveLock(c)
    /\ UNCHANGED <<interval, since, call>>

(* set_rate, before and after the backfill, which is the only caller then. *)
SetRate == /\ \A c \in Callers : state[c] = "idle"
           /\ interval' \in Intervals
           /\ UNCHANGED <<since, lock, state, timer, call>>

Step(c) == Enter(c) \/ Send(c) \/ Respond(c) \/ Retry(c)

Next == Tick \/ SetRate \/ \E c \in Callers : Step(c) \/ Request(c) \/ Cancel(c)

Spec == Init /\ [][Next]_vars

(* Time passes and the event loop runs a caller that is ready; every       *)
(* request has a timeout.  New calls and cancellations need not happen.    *)
FairSpec == Spec /\ WF_vars(Tick) /\ \A c \in Callers : WF_vars(Step(c))

------------------------------------------------------------------------------
(* Properties *)

TypeOK ==
    /\ interval \in Intervals /\ since \in 0 .. Slowest
    /\ lock \in Seq(Callers) /\ IsInjective(lock)
    /\ state \in [Callers -> {"idle", "lock", "throttled", "sent", "asleep"}]
    /\ timer \in [Callers -> Nat]
    /\ attempt \in [Callers -> 0 .. MaxRetries] /\ backoff \in [Callers -> 1 .. MaxBackoff]
    /\ sent \in [Callers -> 0 .. MaxRetries]

(* Requests leave at least _min_interval apart, whoever sends them, and    *)
(* however sleeps, retries and cancellations fall.                         *)
Spaced == [][\A c \in Callers : sent'[c] > sent[c] => since >= interval]_vars

(* The throttle has room for one: whoever waits out the interval holds the *)
(* lock, and everybody in the queue is on the way to it.                   *)
ThrottleExclusive ==
    /\ \A c \in Callers : state[c] = "throttled" => lock # <<>> /\ Head(lock) = c
    /\ Range(lock) = {c \in Callers : state[c] \in {"lock", "throttled"}}

(* Every call ends, whatever the others do: nobody starves at the lock and *)
(* nobody retries for ever.                                                *)
CallsEnd == \A c \in Callers : state[c] # "idle" ~> state[c] = "idle"

==============================================================================
