---------------------------- MODULE WalletTracer ----------------------------
(***************************************************************************)
(* src/ingestion/wallet_tracer.py as the consumer of the Redis stream      *)
(* wallets:trace_request: subscribe_stream of redis_client.py, start() and *)
(* _handle_request of the tracer, and run_with_restart of main.py around   *)
(* them.  Requests are numbered as they enter the stream.                  *)
(*                                                                         *)
(* The stream and its consumer group are Redis's, as the code uses them:   *)
(* XREADGROUP with ">" hands out the entries past the group's cursor and   *)
(* puts them on the pending list (PEL), XACK takes one off, and nothing    *)
(* else does.                                                              *)
(*                                                                         *)
(* pc says which await the tracer is at: "subscribe", "read", "lookup",    *)
(* "trace", "hset", "expire", "fresh" and "cached" (the two publications), *)
(* "ack", "delay" (the 30 s of the supervisor), "ended"; at "next" it      *)
(* holds the event loop.  Requests are handled one at a time, so the       *)
(* semaphore of _handle_request never waits.                               *)
(* What a trace does between its start and its result is not in here, nor  *)
(* what the database client does with a row once write_row has returned.   *)
(***************************************************************************)
EXTENDS Naturals, Sequences, FiniteSets, Functions

CONSTANTS Wallets,
          Kinds,         \* "trace", "force", "invalid" address, "corrupt" JSON
          BatchSize,     \* count of subscribe_stream (100 in production)
          None,          \* no hash under the key of a wallet
          MaxRequests, MaxErrors, MaxRestarts    \* bounds

ASSUME TracerAssumption ==
    /\ Kinds \subseteq {"trace", "force", "invalid", "corrupt"}
    /\ BatchSize \in Nat \ {0}
    /\ MaxRequests \in Nat /\ MaxErrors \in Nat /\ MaxRestarts \in Nat

VARIABLES
    stream,      \* the requests published, oldest first
    group,       \* the consumer group exists
    first,       \* entries before its creation ("$"): never delivered to it
    cursor,      \* last entry delivered to the group
    pel,         \* entries delivered and not acknowledged
    pc,
    batch,       \* entries read and not finished, the current one first
    cache,       \* wallet:{address}: None, or whether the key has a TTL
    rows,        \* requests whose row for pm_wallets the client has taken
    responses,   \* wallets:trace_response: request and source
    stop,        \* stop_event and _stop are set
    cancelled,   \* the task was cancelled while handling a request
    errors, restarts,
    cutShort     \* history: requests whose handling failed or was cancelled

redis    == <<stream, group, first, cursor, pel>>
results  == <<cache, rows, responses>>
control  == <<stop, cancelled>>
counters == <<errors, restarts>>
vars == <<redis, pc, batch, results, control, counters, cutShort>>

Request  == 1 .. MaxRequests
Awaits   == {"subscribe", "read", "lookup", "trace", "hset", "expire",
             "fresh", "cached", "ack", "delay"}
Handling == {"lookup", "trace", "hset", "expire", "fresh", "cached"}

Init == /\ stream = <<>> /\ group = FALSE /\ first = 0 /\ cursor = 0 /\ pel = {}
        /\ pc = "subscribe" /\ batch = <<>>
        /\ cache = [w \in Wallets |-> None] /\ rows = {} /\ responses = <<>>
        /\ stop = FALSE /\ cancelled = FALSE /\ errors = 0 /\ restarts = 0
        /\ cutShort = {}

Current == Head(batch)
Wallet  == stream[Current].wallet

(* A Redis or RPC call fails. *)
Error == errors < MaxErrors /\ errors' = errors + 1

(* The handling of the current request ends without its answer. *)
CutShort == cutShort' = cutShort \cup {Current}

LoopFree == pc # "next"

------------------------------------------------------------------------------
(* The other side of the stream (external) *)

Publish(w, kind) ==
    /\ LoopFree /\ Len(stream) < MaxRequests
    /\ stream' = Append(stream, [wallet |-> w, kind |-> kind])
    /\ UNCHANGED <<group, first, cursor, pel, pc, batch, results, control, counters, cutShort>>

(* The TTL of a cached profile runs out. *)
CacheExpires(w) ==
    /\ LoopFree /\ cache[w] = TRUE
    /\ cache' = [cache EXCEPT ![w] = None]
    /\ UNCHANGED <<redis, pc, batch, rows, responses, control, counters, cutShort>>

------------------------------------------------------------------------------
(* What the Redis call the tracer awaits does when the server executes it *)

(* XGROUP CREATE at "$"; an existing group (BUSYGROUP) stays as it is. *)
CreateGroup ==
    /\ group' = TRUE
    /\ first'  = IF group THEN first ELSE Len(stream)
    /\ cursor' = IF group THEN cursor ELSE Len(stream)
    /\ UNCHANGED <<stream, pel, results>>

(* How many entries ">" stands for. *)
NewEntries == LET n == Len(stream) - cursor
              IN  IF n < BatchSize THEN n ELSE BatchSize

(* Mutated form: the last entry read before counts as handed out again. *)
DeliverOffByOne(n) == /\ cursor' = cursor + n
                      /\ pel' = pel \cup cursor .. (cursor + n)
                      /\ UNCHANGED <<stream, group, first, results>>

(* XREADGROUP hands out the next n entries. *)
Deliver(n) == /\ cursor' = cursor + n
              /\ pel' = pel \cup (cursor + 1) .. (cursor + n)
              /\ UNCHANGED <<stream, group, first, results>>

(* set_hash: HSET keeps the TTL the key has, if any; EXPIRE sets it. *)
StoreHash == /\ cache' = [cache EXCEPT ![Wallet] = IF @ = None THEN FALSE ELSE @]
             /\ UNCHANGED <<redis, rows, responses>>
SetTTL    == /\ cache' = [cache EXCEPT ![Wallet] = IF @ = None THEN None ELSE TRUE]
             /\ UNCHANGED <<redis, rows, responses>>

(* XADD to wallets:trace_response. *)
Send == /\ responses' = Append(responses, [id |-> Current, source |-> pc])
        /\ UNCHANGED <<redis, cache, rows>>

(* Mutated form: everything up to the current entry is taken off. *)
AcknowledgeUpTo == /\ pel' = {r \in pel : r > Current}
                   /\ UNCHANGED <<stream, group, first, cursor, results>>

Acknowledge == /\ pel' = pel \ {Current}
               /\ UNCHANGED <<stream, group, first, cursor, results>>

Executed ==
    \/ pc = "subscribe" /\ CreateGroup
    \/ pc = "read" /\ NewEntries > 0 /\ Deliver(NewEntries)
    \/ pc = "hset" /\ StoreHash
    \/ pc = "expire" /\ SetTTL
    \/ pc \in {"fresh", "cached"} /\ Send
    \/ pc = "ack" /\ Acknowledge

(* A call that fails or is cancelled may have been executed. *)
MaybeExecuted == Executed \/ UNCHANGED <<redis, results>>

------------------------------------------------------------------------------
(* subscribe_stream and run_with_restart *)

(* Mutated form: the supervisor takes a crash for a clean exit. *)
CrashEnds == pc' = "ended" /\ batch' = <<>>

(* An exception leaves start(): the generator with the rest of its batch   *)
(* is gone, and the supervisor waits, or returns if it is to stop.         *)
Crash == /\ pc' = IF stop THEN "ended" ELSE "delay"
         /\ batch' = <<>>

Resubscribe ==
    /\ pc = "delay"
    /\ pc' = IF stop THEN "ended" ELSE "subscribe"
    /\ UNCHANGED <<redis, batch, results, control, counters, cutShort>>

Subscribe ==
    /\ pc = "subscribe"
    /\ \/ pc' = "read" /\ batch' = <<>> /\ Executed /\ UNCHANGED errors
       \/ Error /\ Crash /\ MaybeExecuted
    /\ UNCHANGED <<control, restarts, cutShort>>

(* The new entries become the batch; or the connection is lost, possibly   *)
(* with the reply, and the loop reads on; or another error leaves start(). *)
ReadNew ==
    /\ pc = "read"
    /\ \/ /\ Executed
          /\ batch' = [i \in 1 .. NewEntries |-> cursor + i]
          /\ pc' = "next" /\ UNCHANGED errors
       \/ Error /\ MaybeExecuted /\ (Crash \/ UNCHANGED <<pc, batch>>)
    /\ UNCHANGED <<control, restarts, cutShort>>

(* Mutated form: pending entries are read again before any new one. *)
ReadPendingFirst ==
    \/ pel = {} /\ ReadNew
    \/ /\ pc = "read" /\ pc' = "next"
       /\ \E r \in pel : batch' = <<r>>
       /\ UNCHANGED <<redis, results, control, counters, cutShort>>

(* The id is always ">": what is on the pending list is never read again.  *)
Read == ReadNew

------------------------------------------------------------------------------
(* start(): one entry of the batch after the other *)

(* The batch is used up: read again. *)
NextRead ==
    /\ pc = "next" /\ batch = <<>>
    /\ pc' = "read"
    /\ UNCHANGED <<redis, batch, results, control, counters, cutShort>>

(* The generator yields the next entry: json.loads may raise in it; once   *)
(* _stop is set start() returns without touching the entry; an invalid     *)
(* address is only acknowledged; "force" goes past the cache.              *)
NextEntry ==
    /\ pc = "next" /\ batch # <<>>
    /\ LET kind == stream[Current].kind IN
       \/ kind = "corrupt" /\ Crash
       \/ /\ kind # "corrupt" /\ stop
          /\ pc' = "ended" /\ batch' = <<>>
       \/ /\ kind # "corrupt" /\ ~stop
          /\ pc' = CASE kind = "invalid" -> "ack"
                     [] kind = "force"   -> "trace"
                     [] OTHER            -> "lookup"
          /\ UNCHANGED batch
    /\ UNCHANGED <<redis, results, control, counters, cutShort>>

(* The cached profile answers; a lost connection counts as a miss, and any *)
(* other error ends the handling.                                          *)
Lookup ==
    /\ pc = "lookup"
    /\ \/ /\ pc' = IF cache[Wallet] # None THEN "cached" ELSE "trace"
          /\ UNCHANGED <<errors, cutShort>>
       \/ Error /\ pc' = "trace" /\ UNCHANGED cutShort
       \/ Error /\ pc' = "ack" /\ CutShort
    /\ UNCHANGED <<redis, batch, results, control, restarts>>

(* Mutated form: the answer is published before the row is handed over. *)
TraceRespondsFirst ==
    /\ pc = "trace"
    /\ pc' = "hset"
    /\ responses' = Append(responses, [id |-> Current, source |-> "fresh"])
    /\ UNCHANGED <<redis, batch, cache, rows, control, counters, cutShort>>

(* _persist up to its await: write_row returns, and so does flush(), which *)
(* says nothing of its success.                                            *)
Persist == rows' = rows \cup {Current}

(* _trace_one returns a profile, whatever its status, whose row is handed  *)
(* over in the same breath; or one of them raises, and only the            *)
(* acknowledgement is left to do.                                          *)
Trace ==
    /\ pc = "trace"
    /\ \/ pc' = "hset" /\ Persist /\ UNCHANGED <<errors, cutShort>>
       \/ Error /\ pc' = "ack" /\ UNCHANGED rows /\ CutShort
    /\ UNCHANGED <<redis, batch, cache, responses, control, restarts>>

(* set_hash and publish_to_stream: a lost connection is logged and passed  *)
(* over, the rest of the call being skipped; any other error ends the      *)
(* handling of the request.                                                *)
Call(at, then, afterLoss) ==
    /\ pc = at
    /\ \/ Executed /\ pc' = then /\ UNCHANGED <<errors, cutShort>>
       \/ Error /\ MaybeExecuted /\ pc' = afterLoss /\ pc' # "ack" /\ UNCHANGED cutShort
       \/ Error /\ MaybeExecuted /\ pc' = "ack" /\ CutShort
    /\ UNCHANGED <<batch, control, restarts>>

Hset    == Call("hset", "expire", "fresh")
Expire  == Call("expire", "fresh", "fresh")
Respond == Call("fresh", "ack", "ack") \/ Call("cached", "ack", "ack")

(* The finally clause: XACK, then the next entry, or the cancellation goes *)
(* on; an exception of XACK itself leaves start().                         *)
Ack ==
    /\ pc = "ack"
    /\ \/ /\ Executed /\ UNCHANGED errors
          /\ IF cancelled THEN pc' = "ended" /\ batch' = <<>>
                          ELSE pc' = "next" /\ batch' = Tail(batch)
       \/ Error /\ MaybeExecuted /\ Crash
    /\ UNCHANGED <<control, restarts, cutShort>>

------------------------------------------------------------------------------
(* Shutdown, restart *)

(* A signal arrives; main_async calls stop() on every component. *)
Shutdown ==
    /\ LoopFree /\ ~stop
    /\ stop' = TRUE
    /\ UNCHANGED <<redis, pc, batch, results, cancelled, counters, cutShort>>

(* main_async cancels the task at its await.  The finally clause still     *)
(* acknowledges the request it interrupts.                                 *)
Cancel ==
    /\ stop /\ ~cancelled /\ pc \in Awaits
    /\ IF pc \in Handling
       THEN cancelled' = TRUE /\ pc' = "ack" /\ UNCHANGED batch /\ CutShort
       ELSE UNCHANGED <<cancelled, cutShort>> /\ pc' = "ended" /\ batch' = <<>>
    /\ MaybeExecuted
    /\ UNCHANGED <<stop, counters>>

(* A new process, after a shutdown or a kill. *)
Restart ==
    /\ restarts < MaxRestarts
    /\ restarts' = restarts + 1
    /\ pc' = "subscribe" /\ batch' = <<>> /\ stop' = FALSE /\ cancelled' = FALSE
    /\ UNCHANGED <<redis, results, errors, cutShort>>

OwnStep   == Resubscribe \/ NextRead \/ NextEntry \/ Trace
RedisCall == Subscribe \/ Read \/ Lookup \/ Hset \/ Expire \/ Respond \/ Ack
Consumer  == OwnStep \/ RedisCall

Next == \/ Consumer \/ Shutdown \/ Cancel \/ Restart
        \/ \E w \in Wallets, kind \in Kinds : Publish(w, kind)
        \/ \E w \in Wallets : CacheExpires(w)

Spec == Init /\ [][Next]_vars

(* The event loop runs the tracer whenever it is ready, and a trace ends,  *)
(* its HTTP requests having a timeout.  The Redis client is given none, so *)
(* that its calls end is left to the properties to assume; requests,       *)
(* expiry, shutdown, cancellation and restart are not assumed to happen.   *)
FairSpec == Spec /\ WF_vars(OwnStep)

RedisAnswers == WF_vars(RedisCall)

------------------------------------------------------------------------------
(* Properties *)

Delivered == (first + 1) .. cursor

TypeOK ==
    /\ stream \in Seq([wallet : Wallets, kind : Kinds]) /\ Len(stream) <= MaxRequests
    /\ group \in BOOLEAN /\ first \in 0 .. Len(stream) /\ cursor \in first .. Len(stream)
    /\ pel \subseteq Delivered
    /\ pc \in Awaits \cup {"next", "ended"}
    /\ batch \in Seq(Delivered) /\ Len(batch) <= BatchSize
    /\ cache \in [Wallets -> {None, TRUE, FALSE}]
    /\ rows \subseteq Delivered
    /\ responses \in Seq([id : Delivered, source : {"fresh", "cached"}])
    /\ stop \in BOOLEAN /\ cancelled \in BOOLEAN
    /\ errors \in 0 .. MaxErrors /\ restarts \in 0 .. MaxRestarts
    /\ cutShort \subseteq Delivered

(* A request that needs no further work: its address is invalid, or it was *)
(* answered.                                                               *)
Settled(r) == \/ stream[r].kind = "invalid"
              \/ \E i \in DOMAIN responses : responses[i].id = r

(* What has left the pending list is settled, or its handling failed or    *)
(* was cancelled: no request is swallowed by a lost reply of XREADGROUP, a *)
(* crash that drops the rest of a batch, a shutdown between two requests   *)
(* or a kill.  Redis still lists those, although nobody asks it to.        *)
NothingSwallowed == \A r \in Delivered \ pel : Settled(r) \/ r \in cutShort

(* Answers come in the order of the requests and no request is answered    *)
(* twice, across crashes of start() and restarts of the process.           *)
AnsweredInOrder ==
    \A i, j \in DOMAIN responses : i < j => responses[i].id < responses[j].id

(* Every answer rests on a profile whose row was handed to the database    *)
(* client before: a fresh one on that of its own request, one from the     *)
(* cache on that of an earlier request for the wallet, although cached     *)
(* profiles outlive crashes and restarts and HSET and EXPIRE may fail.     *)
AnswerHasProfile ==
    \A i \in DOMAIN responses :
        LET a == responses[i]
        IN  \E r \in rows : /\ r <= a.id /\ stream[r].wallet = stream[a.id].wallet
                            /\ a.source = "fresh" => r = a.id

(* As long as Redis answers, requests published once the group exists are  *)
(* delivered, whatever crashes start(), unless the tracer is shut down.    *)
RequestsDelivered ==
    RedisAnswers =>
    \A r \in Request :
        (group /\ r \in DOMAIN stream /\ r > first) ~> (r <= cursor \/ stop)

------------------------------------------------------------------------------
(* What the documentation promises and the code does not keep *)

(* "Consumer groups give at-least-once delivery" (redis_client.py:4-5): a  *)
(* valid request that was handed out is processed in the end, even if the  *)
(* first attempt is cut short, provided the tracer keeps running and Redis *)
(* answers it.                                                             *)
AtLeastOnce ==
    RedisAnswers =>
    \A r \in Request :
        (r \in pel /\ stream[r].kind # "corrupt") ~> (r \notin pel \/ stop)

==============================================================================
