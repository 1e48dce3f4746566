-------------------------- MODULE WalletTracerProofs --------------------------
(***************************************************************************)
(* Theorems about the wallet tracer as a consumer of its request stream,   *)
(* for any wallets, any batch size, and any number of requests, errors and *)
(* restarts.                                                               *)
(***************************************************************************)
EXTENDS WalletTracer, SequenceTheorems, TLAPS

Answer == [id : Delivered, source : {"fresh", "cached"}]

(* Where the tracer stands between two batches. *)
Idle == {"subscribe", "read", "delay", "ended"}

(* Nothing is delivered before the group exists; the tracer has a batch    *)
(* exactly while it works on one.                                          *)
PhaseInv == /\ ~group => cursor = first /\ pc \in {"subscribe", "delay", "ended"}
            /\ pc \in Idle => batch = <<>>
            /\ pc \in Handling \cup {"ack"} => batch # <<>>

TypeInv == TypeOK /\ PhaseInv

------------------------------------------------------------------------------
(* Types *)

(* A tracer that handles a request handles one that is in the stream. *)
LEMMA CurrentInStream ==
    ASSUME TypeInv, batch # <<>>
    PROVE  /\ Current \in Delivered /\ Current \in DOMAIN stream
           /\ Wallet \in Wallets
           /\ Current = batch[1] /\ 1 \in DOMAIN batch
<1>1. batch \in Seq(Delivered)
  BY DEF TypeInv, TypeOK
<1>2. Current \in Delivered /\ Current = batch[1] /\ 1 \in DOMAIN batch
  BY <1>1, HeadTailProperties, EmptySeq, LenProperties DEF Current
<1>3. Current \in 1 .. Len(stream) /\ DOMAIN stream = 1 .. Len(stream)
  BY <1>2, LenProperties DEF Delivered, TypeInv, TypeOK
<1>4. stream[Current] \in [wallet : Wallets, kind : Kinds]
  BY <1>3, ElementOfSeq DEF TypeInv, TypeOK
<1> QED
  BY <1>2, <1>3, <1>4 DEF Wallet

(* More entries delivered: what was delivered stays so. *)
LEMMA AnswersStay ==
    ASSUME TypeInv, first' = first, cursor' \in Nat, cursor <= cursor'
    PROVE  /\ Delivered \subseteq Delivered'
           /\ responses \in Seq(Answer')
           /\ batch \in Seq(Delivered')
<1>1. Delivered \subseteq Delivered'
  BY DEF Delivered, TypeInv, TypeOK
<1>2. Answer \subseteq Answer'
  BY <1>1 DEF Answer
<1>3. responses \in Seq(Answer) /\ batch \in Seq(Delivered)
  BY DEF TypeInv, TypeOK, Answer
<1> QED
  BY <1>1, <1>2, <1>3, SeqMonotonic

(* The part of the types that a Redis call can disturb. *)
RedisType ==
    /\ group \in BOOLEAN /\ first \in 0 .. Len(stream) /\ cursor \in first .. Len(stream)
    /\ pel \subseteq Delivered
    /\ cache \in [Wallets -> {None, TRUE, FALSE}]
    /\ rows \subseteq Delivered
    /\ responses \in Seq(Answer)
    /\ ~group => cursor = first

(* What a Redis call may have done, whether it answered or not. *)
CallEffect == /\ stream' = stream
              /\ RedisType'
              /\ group => group' /\ first' = first /\ cursor' >= cursor

(* Calls that deliver nothing. *)
LEMMA CursorStays ==
    ASSUME TypeInv, UNCHANGED <<stream, group, first, cursor>>,
           pel' \subseteq Delivered,
           cache' \in [Wallets -> {None, TRUE, FALSE}],
           rows' \subseteq Delivered,
           responses' \in Seq(Answer)
    PROVE  CallEffect
<1>1. Delivered' = Delivered /\ Answer' = Answer
  BY DEF Delivered, Answer
<1>2. cursor' >= cursor
  BY LenProperties DEF TypeInv, TypeOK
<1>3. (~group => cursor = first)'
  BY DEF TypeInv, PhaseInv
<1>4. /\ group' \in BOOLEAN /\ first' \in 0 .. Len(stream')
      /\ cursor' \in first' .. Len(stream')
  BY DEF TypeInv, TypeOK
<1> QED
  BY <1>1, <1>2, <1>3, <1>4, Zenon DEF CallEffect, RedisType

(* XGROUP CREATE *)
LEMMA CreateGroupEffect == TypeInv /\ CreateGroup => CallEffect
<1> SUFFICES ASSUME TypeInv, CreateGroup PROVE CallEffect
  OBVIOUS
<1>0. /\ UNCHANGED <<stream, pel, cache, rows, responses>>
      /\ cache \in [Wallets -> {None, TRUE, FALSE}]
      /\ pel \subseteq Delivered /\ rows \subseteq Delivered
      /\ responses \in Seq(Answer)
  BY Zenon DEF CreateGroup, results, TypeInv, TypeOK, Answer
<1>1. CASE group
  <2>1. first' = first /\ cursor' = cursor /\ group' = group
    BY <1>1 DEF CreateGroup, TypeInv, TypeOK
  <2> QED
    BY <1>0, <2>1, CursorStays
<1>2. CASE ~group
  <2>1. Delivered = {}
    BY <1>2 DEF Delivered, TypeInv, TypeOK, PhaseInv
  <2>2. pel' = {} /\ rows' = {}
    BY <1>0, <2>1
  <2>3. responses' = <<>>
    <3>1. Answer = {}
      BY <2>1 DEF Answer
    <3> QED
      BY <1>0, <3>1, LenProperties, ElementOfSeq, EmptySeq
  <2>4. responses' \in Seq(Answer')
    BY <2>3, EmptySeq
  <2>5. /\ Len(stream) \in Nat /\ first' = Len(stream) /\ cursor' = Len(stream)
        /\ group' \in BOOLEAN
    BY <1>2, LenProperties DEF CreateGroup, TypeInv, TypeOK
  <2>6. /\ first' \in 0 .. Len(stream') /\ cursor' \in first' .. Len(stream')
        /\ cursor' = first'
    BY <1>0, <2>5
  <2>7. /\ pel' \subseteq Delivered' /\ rows' \subseteq Delivered'
        /\ cache' \in [Wallets -> {None, TRUE, FALSE}]
    BY <1>0, <2>2
  <2> QED
    BY <1>0, <1>2, <2>4, <2>5, <2>6, <2>7, Zenon DEF CallEffect, RedisType
<1> QED
  BY <1>1, <1>2

(* XREADGROUP *)
LEMMA DeliverEffect ==
    TypeInv /\ pc = "read" /\ NewEntries > 0 /\ Deliver(NewEntries) => CallEffect
<1> SUFFICES ASSUME TypeInv, pc = "read", NewEntries > 0, Deliver(NewEntries)
             PROVE  CallEffect
  OBVIOUS
<1>1. /\ Len(stream) \in Nat /\ first \in Nat /\ cursor \in Nat
      /\ cursor <= Len(stream) /\ first <= cursor
  BY LenProperties DEF TypeInv, TypeOK
<1>2. NewEntries \in Nat /\ cursor + NewEntries <= Len(stream)
  BY <1>1, TracerAssumption DEF NewEntries
<1>3. /\ cursor' = cursor + NewEntries
      /\ UNCHANGED <<stream, group, first, cache, rows, responses>>
  BY Zenon DEF Deliver, results
<1>4. group /\ group \in BOOLEAN
  BY Zenon DEF TypeInv, TypeOK, PhaseInv
<1>5. pel' \subseteq Delivered'
  BY <1>1, <1>2, <1>3 DEF Deliver, Delivered, TypeInv, TypeOK
<1>6. Delivered \subseteq Delivered' /\ responses \in Seq(Answer')
  BY <1>1, <1>2, <1>3, AnswersStay
<1>7. /\ first' \in 0 .. Len(stream') /\ cursor' \in first' .. Len(stream')
      /\ cursor' >= cursor
  BY <1>1, <1>2, <1>3
<1>8. cache \in [Wallets -> {None, TRUE, FALSE}] /\ rows \subseteq Delivered
  BY DEF TypeInv, TypeOK
<1>9. rows' \subseteq Delivered' /\ group' /\ group' \in BOOLEAN
  BY <1>3, <1>4, <1>6, <1>8, Zenon
<1> QED
  BY <1>3, <1>5, <1>6, <1>7, <1>8, <1>9, Zenon DEF CallEffect, RedisType

(* HSET, EXPIRE *)
LEMMA CacheEffect == TypeInv /\ (StoreHash \/ SetTTL) => CallEffect
<1> SUFFICES ASSUME TypeInv, StoreHash \/ SetTTL PROVE CallEffect
  OBVIOUS
<1>1. cache' \in [Wallets -> {None, TRUE, FALSE}]
  BY DEF TypeInv, TypeOK, StoreHash, SetTTL
<1>2. UNCHANGED <<stream, group, first, cursor, pel, rows, responses>>
  BY Zenon DEF StoreHash, SetTTL, redis
<1>3. pel \subseteq Delivered /\ rows \subseteq Delivered /\ responses \in Seq(Answer)
  BY DEF TypeInv, TypeOK, Answer
<1> QED
  BY <1>1, <1>2, <1>3, CursorStays

(* XADD *)
LEMMA SendEffect == TypeInv /\ pc \in {"fresh", "cached"} /\ Send => CallEffect
<1> SUFFICES ASSUME TypeInv, pc \in {"fresh", "cached"}, Send PROVE CallEffect
  OBVIOUS
<1>1. Current \in Delivered
  BY CurrentInStream DEF TypeInv, PhaseInv, Handling
<1>2. [id |-> Current, source |-> pc] \in Answer
  BY <1>1 DEF Answer
<1>3. responses \in Seq(Answer)
  BY DEF TypeInv, TypeOK, Answer
<1>4. responses' \in Seq(Answer)
  BY <1>2, <1>3, AppendProperties DEF Send
<1>5. UNCHANGED <<stream, group, first, cursor, pel, cache, rows>>
  BY Zenon DEF Send, redis
<1>6. /\ pel \subseteq Delivered /\ rows \subseteq Delivered
      /\ cache \in [Wallets -> {None, TRUE, FALSE}]
  BY DEF TypeInv, TypeOK
<1> QED
  BY <1>4, <1>5, <1>6, CursorStays

(* XACK, and a call that was not executed *)
LEMMA OtherEffect ==
    TypeInv /\ (Acknowledge \/ UNCHANGED <<redis, results>>) => CallEffect
<1> SUFFICES ASSUME TypeInv, Acknowledge \/ UNCHANGED <<redis, results>>
             PROVE  CallEffect
  OBVIOUS
<1>1. UNCHANGED <<stream, group, first, cursor, cache, rows, responses>>
  BY Zenon DEF Acknowledge, redis, results
<1>2. pel' \subseteq pel
  BY DEF Acknowledge, redis
<1>3. /\ pel \subseteq Delivered /\ rows \subseteq Delivered
      /\ cache \in [Wallets -> {None, TRUE, FALSE}]
      /\ responses \in Seq(Answer)
  BY DEF TypeInv, TypeOK, Answer
<1> QED
  BY <1>1, <1>2, <1>3, CursorStays

(* A Redis call, answered or not, keeps the types. *)
LEMMA MaybeExecutedEffect == TypeInv /\ MaybeExecuted => CallEffect
BY CreateGroupEffect, DeliverEffect, CacheEffect, SendEffect, OtherEffect
DEF MaybeExecuted, Executed

(* A step keeps the types when its Redis call does and the batch shrinks,  *)
(* the tracer keeping one exactly while it works on it.                    *)
LEMMA StepType ==
    ASSUME TypeInv, CallEffect,
           \/ batch' = batch
           \/ batch' = <<>>
           \/ batch # <<>> /\ batch' = Tail(batch),
           pc' \in Awaits \cup {"next", "ended"},
           stop' \in BOOLEAN, cancelled' \in BOOLEAN,
           errors' \in 0 .. MaxErrors, restarts' \in 0 .. MaxRestarts,
           cutShort' = cutShort \/ (batch # <<>> /\ CutShort),
           pc' \in Idle => batch' = <<>>,
           pc' \in Handling \cup {"ack"} => batch' # <<>>,
           group' \/ pc' \in {"subscribe", "delay", "ended"}
    PROVE  TypeInv'
<1>1. /\ batch \in Seq(Delivered) /\ Len(batch) <= BatchSize /\ BatchSize \in Nat
      /\ Len(batch) \in Nat
  BY TracerAssumption, LenProperties DEF TypeInv, TypeOK
<1>2. batch' \in Seq(Delivered) /\ Len(batch') <= BatchSize
  <2>1. <<>> \in Seq(Delivered) /\ Len(<<>>) = 0
    BY EmptySeq
  <2>2. batch # <<>> => Tail(batch) \in Seq(Delivered) /\ Len(Tail(batch)) = Len(batch) - 1
    BY <1>1, HeadTailProperties
  <2>3. Len(batch') <= BatchSize
    BY <1>1, <2>1, <2>2
  <2>4. batch' \in Seq(Delivered)
    BY <1>1, <2>1, <2>2
  <2> QED
    BY <2>3, <2>4
<1>3. Delivered \subseteq Delivered'
  <2>1. CASE group
    <3>1. first' = first /\ cursor' >= cursor
      BY <2>1 DEF CallEffect
    <3> QED
      BY <3>1 DEF TypeInv, TypeOK, CallEffect, RedisType, Delivered
  <2>2. CASE ~group
    BY <2>2 DEF TypeInv, TypeOK, PhaseInv, Delivered
  <2> QED
    BY <2>1, <2>2
<1>4. batch' \in Seq(Delivered')
  BY <1>2, <1>3, SeqMonotonic
<1>5. /\ stream' \in Seq([wallet : Wallets, kind : Kinds])
      /\ Len(stream') <= MaxRequests
  BY DEF TypeInv, TypeOK, CallEffect
<1>6. PhaseInv'
  <2>1. ~group' => cursor' = first'
    BY DEF CallEffect, RedisType
  <2> QED
    BY <2>1, Zenon DEF PhaseInv
<1>7. cutShort' \subseteq Delivered'
  <2>1. cutShort \subseteq Delivered /\ (batch # <<>> => Current \in Delivered)
    BY CurrentInStream DEF TypeInv, TypeOK
  <2> QED
    BY <1>3, <2>1 DEF CutShort
<1>8. TypeOK'
  BY <1>2, <1>4, <1>5, <1>7, Zenon DEF TypeOK, CallEffect, RedisType, Answer
<1> QED
  BY <1>6, <1>8 DEF TypeInv

(* Where a call that waits may go on. *)
LEMMA GroupStays == TypeInv /\ CallEffect /\ pc \notin {"subscribe", "delay", "ended"} => group'
BY Zenon DEF TypeInv, PhaseInv, CallEffect

(* Nothing but the tracer's own place changes. *)
LEMMA NoCall == TypeInv /\ UNCHANGED <<redis, results>> => CallEffect
BY OtherEffect

(* subscribe_stream: the group is created, its entries are read. *)
LEMMA SubscribeType == TypeInv /\ (Resubscribe \/ Subscribe) => TypeInv'
<1> SUFFICES ASSUME TypeInv, Resubscribe \/ Subscribe PROVE TypeInv'
  OBVIOUS
<1>1. CallEffect
  BY MaybeExecutedEffect, NoCall, Zenon DEF Resubscribe, Subscribe, MaybeExecuted
<1>2. /\ stop' \in BOOLEAN /\ cancelled' \in BOOLEAN /\ restarts' \in 0 .. MaxRestarts
      /\ errors' \in 0 .. MaxErrors
  <2>1. UNCHANGED <<stop, cancelled, restarts>>
    BY Zenon DEF Resubscribe, Subscribe, control, counters
  <2>2. errors' = errors \/ Error
    BY Zenon DEF Resubscribe, Subscribe, counters
  <2> QED
    BY <2>1, <2>2, TracerAssumption DEF TypeInv, TypeOK, Error
<1>3. pc' \in {"subscribe", "delay", "ended"} \/ (pc' = "read" /\ group')
  BY DEF Resubscribe, Subscribe, Executed, CreateGroup, Crash
<1>4. batch' = <<>> /\ cutShort' = cutShort
  BY DEF Resubscribe, Subscribe, Crash, TypeInv, PhaseInv, Idle
<1> QED
  BY <1>1, <1>2, <1>3, <1>4, StepType DEF Awaits, Handling

(* XREADGROUP answers with the entries past the cursor. *)
LEMMA ReadBatch ==
    ASSUME TypeInv, pc = "read", NewEntries > 0, Deliver(NewEntries),
           batch' = [i \in 1 .. NewEntries |-> cursor + i]
    PROVE  /\ batch' \in Seq(Delivered') /\ Len(batch') = NewEntries
           /\ NewEntries \in 1 .. BatchSize
<1>1. /\ Len(stream) \in Nat /\ first \in Nat /\ cursor \in Nat /\ first <= cursor
      /\ cursor <= Len(stream)
  BY LenProperties DEF TypeInv, TypeOK
<1>2. NewEntries \in 1 .. BatchSize
  BY <1>1, TracerAssumption DEF NewEntries
<1>3. cursor' = cursor + NewEntries /\ first' = first
  BY DEF Deliver
<1>4. \A i \in 1 .. NewEntries : cursor + i \in Delivered'
  BY <1>1, <1>2, <1>3 DEF Delivered
<1>5. batch' \in [1 .. NewEntries -> Delivered'] /\ NewEntries \in Nat
  BY <1>2, <1>4, TracerAssumption
<1>6. batch' \in Seq(Delivered')
  BY <1>5, SeqDef
<1>7. Len(batch') = NewEntries
  BY <1>5, <1>6, LenProperties
<1> QED
  BY <1>2, <1>6, <1>7

(* subscribe_stream: the new entries are read. *)
LEMMA ReadType == TypeInv /\ Read => TypeInv'
<1> SUFFICES ASSUME TypeInv, ReadNew PROVE TypeInv'
  BY DEF Read
<1>1. CallEffect
  BY MaybeExecutedEffect, Zenon DEF ReadNew, MaybeExecuted
<1>2. /\ stop' \in BOOLEAN /\ cancelled' \in BOOLEAN /\ restarts' \in 0 .. MaxRestarts
      /\ errors' \in 0 .. MaxErrors
  BY TracerAssumption DEF TypeInv, TypeOK, ReadNew, Error, control
<1>3. group' /\ batch = <<>> /\ cutShort' = cutShort
  BY <1>1, GroupStays DEF ReadNew, TypeInv, PhaseInv, Idle
<1>4. CASE pc' \in {"read", "delay", "ended"} /\ batch' = <<>>
  BY <1>1, <1>2, <1>3, <1>4, StepType DEF Awaits, Handling
<1>5. CASE /\ Executed /\ pc' = "next"
           /\ batch' = [i \in 1 .. NewEntries |-> cursor + i]
  <2>1. pc = "read" /\ NewEntries > 0 /\ Deliver(NewEntries)
    BY <1>5 DEF ReadNew, Executed
  <2>2. batch' \in Seq(Delivered') /\ Len(batch') <= BatchSize
    BY <1>5, <2>1, ReadBatch, TracerAssumption
  <2>3. /\ stream' \in Seq([wallet : Wallets, kind : Kinds])
        /\ Len(stream') <= MaxRequests
    BY <1>1 DEF TypeInv, TypeOK, CallEffect
  <2>4. PhaseInv'
    BY <1>3, <1>5 DEF PhaseInv, Idle, Handling
  <2>5. cutShort' \subseteq Delivered'
    <3>1. Delivered \subseteq Delivered'
      BY <2>1, LenProperties, TracerAssumption
      DEF TypeInv, TypeOK, Delivered, Deliver, NewEntries
    <3> QED
      BY <1>3, <3>1 DEF TypeInv, TypeOK
  <2>6. TypeOK'
    BY <1>1, <1>2, <1>5, <2>2, <2>3, <2>5, Zenon DEF TypeOK, CallEffect, RedisType, Answer
  <2> QED
    BY <2>4, <2>6 DEF TypeInv
<1> QED
  BY <1>3, <1>4, <1>5 DEF ReadNew, Crash

(* start(): the next entry, the lookup in the cache *)
LEMMA EntryType == TypeInv /\ (NextRead \/ NextEntry \/ Lookup) => TypeInv'
<1> SUFFICES ASSUME TypeInv, NextRead \/ NextEntry \/ Lookup PROVE TypeInv'
  OBVIOUS
<1>1. CallEffect
  BY NoCall, Zenon DEF NextRead, NextEntry, Lookup
<1>2. /\ stop' \in BOOLEAN /\ cancelled' \in BOOLEAN /\ restarts' \in 0 .. MaxRestarts
      /\ errors' \in 0 .. MaxErrors
  <2>1. UNCHANGED <<stop, cancelled, restarts>>
    BY Zenon DEF NextRead, NextEntry, Lookup, control, counters
  <2>2. errors' = errors \/ Error
    BY Zenon DEF NextRead, NextEntry, Lookup, counters
  <2> QED
    BY <2>1, <2>2, TracerAssumption DEF TypeInv, TypeOK, Error
<1>3. group'
  BY <1>1, GroupStays DEF NextRead, NextEntry, Lookup
<1>4. CASE pc' \in {"read", "ended", "delay"} /\ batch' = <<>> /\ cutShort' = cutShort
  BY <1>1, <1>2, <1>3, <1>4, StepType DEF Awaits, Handling
<1>5. CASE /\ pc' \in {"lookup", "trace", "cached", "ack"} /\ batch' = batch /\ batch # <<>>
           /\ cutShort' = cutShort \/ CutShort
  BY <1>1, <1>2, <1>3, <1>5, StepType DEF Awaits, Idle
<1>6. CASE NextRead \/ NextEntry
  <2>1. cutShort' = cutShort
    BY <1>6 DEF NextRead, NextEntry
  <2>2. \/ pc' \in {"read", "ended", "delay"} /\ batch' = <<>>
        \/ pc' \in {"lookup", "trace", "ack"} /\ batch' = batch /\ batch # <<>>
    BY <1>6 DEF NextRead, NextEntry, Crash
  <2> QED
    BY <1>4, <1>5, <2>1, <2>2
<1>7. CASE Lookup
  <2>1. pc' \in {"trace", "cached", "ack"} /\ batch' = batch /\ batch # <<>>
    BY <1>7 DEF Lookup, TypeInv, PhaseInv, Handling
  <2>2. cutShort' = cutShort \/ CutShort
    BY <1>7 DEF Lookup
  <2> QED
    BY <1>5, <2>1, <2>2
<1> QED
  BY <1>6, <1>7

(* _handle_request: the trace, the calls after it *)
LEMMA HandlingType == TypeInv /\ (Trace \/ Hset \/ Expire \/ Respond) => TypeInv'
<1> SUFFICES ASSUME TypeInv, Trace \/ Hset \/ Expire \/ Respond PROVE TypeInv'
  OBVIOUS
<1>1. /\ pc \in Handling /\ batch # <<>> /\ batch' = batch
      /\ UNCHANGED <<stop, cancelled, restarts>>
      /\ errors' = errors \/ Error
      /\ cutShort' = cutShort \/ CutShort
      /\ pc' \in {"hset", "expire", "fresh", "ack"}
  BY DEF Trace, Hset, Expire, Respond, Call, Handling, control, TypeInv, PhaseInv
<1>2. /\ stop' \in BOOLEAN /\ cancelled' \in BOOLEAN /\ restarts' \in 0 .. MaxRestarts
      /\ errors' \in 0 .. MaxErrors
  BY <1>1, TracerAssumption DEF TypeInv, TypeOK, Error
<1>3. CallEffect
  <2>1. CASE Trace
    <3>1. Current \in Delivered
      BY <1>1, CurrentInStream
    <3>2. UNCHANGED <<stream, group, first, cursor, pel, cache, responses>>
      BY <2>1, Zenon DEF Trace, redis
    <3>3. rows' \subseteq rows \cup {Current}
      BY <2>1 DEF Trace, Persist
    <3>4. /\ rows' \subseteq Delivered /\ pel' \subseteq Delivered
          /\ cache' \in [Wallets -> {None, TRUE, FALSE}] /\ responses' \in Seq(Answer)
      BY <3>1, <3>2, <3>3 DEF TypeInv, TypeOK, Answer
    <3> QED
      BY <3>2, <3>4, CursorStays
  <2>2. CASE Hset \/ Expire \/ Respond
    BY <2>2, MaybeExecutedEffect, Zenon DEF Hset, Expire, Respond, Call, MaybeExecuted
  <2> QED
    BY <2>1, <2>2
<1>4. group'
  BY <1>1, <1>3, GroupStays DEF Handling
<1> QED
  BY <1>1, <1>2, <1>3, <1>4, StepType DEF Awaits, Idle

(* The finally clause. *)
LEMMA AckType == TypeInv /\ Ack => TypeInv'
<1> SUFFICES ASSUME TypeInv, Ack PROVE TypeInv'
  OBVIOUS
<1>1. CallEffect
  BY MaybeExecutedEffect, Zenon DEF Ack, MaybeExecuted
<1>2. /\ stop' \in BOOLEAN /\ cancelled' \in BOOLEAN /\ restarts' \in 0 .. MaxRestarts
      /\ errors' \in 0 .. MaxErrors
  BY TracerAssumption DEF TypeInv, TypeOK, Ack, Error, control
<1>3. group' /\ batch # <<>> /\ cutShort' = cutShort
  BY <1>1, GroupStays DEF Ack, TypeInv, PhaseInv
<1>4. CASE pc' \in {"ended", "delay"} /\ batch' = <<>>
  BY <1>1, <1>2, <1>3, <1>4, StepType DEF Awaits, Handling
<1>5. CASE pc' = "next" /\ batch' = Tail(batch)
  BY <1>1, <1>2, <1>3, <1>5, StepType DEF Awaits, Handling, Idle
<1> QED
  BY <1>4, <1>5 DEF Ack, Crash

(* Shutdown, cancellation, a new process *)
LEMMA ProcessType == TypeInv /\ (Shutdown \/ Cancel \/ Restart) => TypeInv'
<1> SUFFICES ASSUME TypeInv, Shutdown \/ Cancel \/ Restart PROVE TypeInv'
  OBVIOUS
<1>1. CallEffect
  BY MaybeExecutedEffect, NoCall, Zenon DEF Shutdown, Cancel, Restart
<1>2. CASE Shutdown
  <2>1. /\ stop' = TRUE /\ UNCHANGED <<pc, batch, cancelled, errors, restarts, cutShort>>
    BY <1>2, Zenon DEF Shutdown, counters
  <2>2. group' \/ pc' \in {"subscribe", "delay", "ended"}
    BY <1>1, <2>1, GroupStays, Zenon
  <2> QED
    BY <1>1, <2>1, <2>2, StepType DEF TypeInv, TypeOK, PhaseInv
<1>3. CASE Cancel
  <2>1. /\ UNCHANGED <<stop, errors, restarts>>
        /\ pc \in Awaits /\ cancelled' \in BOOLEAN
    BY <1>3 DEF Cancel, counters, TypeInv, TypeOK
  <2>2. /\ stop' \in BOOLEAN /\ errors' \in 0 .. MaxErrors /\ restarts' \in 0 .. MaxRestarts
    BY <2>1 DEF TypeInv, TypeOK
  <2>3. CASE pc \in Handling
    <3>1. pc' = "ack" /\ batch' = batch /\ batch # <<>> /\ CutShort
      BY <1>3, <2>3 DEF Cancel, TypeInv, PhaseInv
    <3>2. group'
      BY <1>1, <2>3, GroupStays DEF Handling
    <3> QED
      BY <1>1, <2>1, <2>2, <3>1, <3>2, StepType DEF Awaits, Idle
  <2>4. CASE pc \notin Handling
    <3>1. pc' = "ended" /\ batch' = <<>> /\ cutShort' = cutShort
      BY <1>3, <2>4 DEF Cancel
    <3> QED
      BY <1>1, <2>1, <2>2, <3>1, StepType DEF Awaits, Handling
  <2> QED
    BY <2>3, <2>4
<1>4. CASE Restart
  <2>1. /\ pc' = "subscribe" /\ batch' = <<>> /\ stop' = FALSE /\ cancelled' = FALSE
        /\ errors' \in 0 .. MaxErrors /\ restarts' \in 0 .. MaxRestarts
        /\ cutShort' = cutShort
    BY <1>4, TracerAssumption DEF Restart, TypeInv, TypeOK
  <2> QED
    BY <1>1, <2>1, StepType DEF Awaits, Handling
<1> QED
  BY <1>2, <1>3, <1>4

(* The other side: requests are published, cached profiles expire. *)
LEMMA PublishType == ASSUME TypeInv, NEW w \in Wallets, NEW kind \in Kinds, Publish(w, kind)
                     PROVE  TypeInv'
<1> DEFINE R == [wallet : Wallets, kind : Kinds]
           r == [wallet |-> w, kind |-> kind]
<1>1. stream \in Seq(R) /\ r \in R /\ Len(stream) \in Nat /\ Len(stream) < MaxRequests
  BY LenProperties DEF TypeInv, TypeOK, Publish
<1>2. stream' \in Seq(R) /\ Len(stream') = Len(stream) + 1
  BY <1>1, AppendProperties DEF Publish
<1>3. UNCHANGED <<group, first, cursor, pel, pc, batch, cache, rows, responses,
                  stop, cancelled, errors, restarts, cutShort>>
  BY Zenon DEF Publish, results, control, counters
<1>4. Delivered' = Delivered
  BY <1>3 DEF Delivered
<1>5. Len(stream') <= MaxRequests /\ first' \in 0 .. Len(stream')
      /\ cursor' \in first' .. Len(stream')
  BY <1>1, <1>2, <1>3, TracerAssumption DEF TypeInv, TypeOK
<1> HIDE DEF r
<1>6. TypeOK'
  BY <1>2, <1>3, <1>4, <1>5, Zenon DEF TypeInv, TypeOK
<1>7. PhaseInv'
  BY <1>3, Zenon DEF TypeInv, PhaseInv
<1> QED
  BY <1>6, <1>7 DEF TypeInv

(* A cached profile runs out. *)
LEMMA ExpiryType == ASSUME TypeInv, NEW w \in Wallets, CacheExpires(w) PROVE TypeInv'
<1>1. /\ UNCHANGED <<stream, group, first, cursor, pel, rows, responses>>
      /\ UNCHANGED <<pc, batch, stop, cancelled, errors, restarts, cutShort>>
  BY Zenon DEF CacheExpires, redis, control, counters
<1>2. cache' \in [Wallets -> {None, TRUE, FALSE}]
  BY DEF CacheExpires, TypeInv, TypeOK
<1>3. pel \subseteq Delivered /\ rows \subseteq Delivered /\ responses \in Seq(Answer)
  BY DEF TypeInv, TypeOK, Answer
<1>4. CallEffect
  BY <1>1, <1>2, <1>3, CursorStays
<1>5. group' \/ pc' \in {"subscribe", "delay", "ended"}
  BY <1>1, <1>4, GroupStays, Zenon
<1> QED
  BY <1>1, <1>4, <1>5, StepType DEF TypeInv, TypeOK, PhaseInv

(* Every step keeps the types. *)
LEMMA TypeStep == TypeInv /\ [Next]_vars => TypeInv'
<1> SUFFICES ASSUME TypeInv, [Next]_vars PROVE TypeInv'
  OBVIOUS
<1>1. CASE UNCHANGED vars
  BY <1>1, Zenon DEF vars, redis, results, control, counters, TypeInv, TypeOK, PhaseInv,
                     Delivered
<1>2. CASE Next
  BY <1>2, SubscribeType, ReadType, EntryType, HandlingType, AckType, ProcessType,
     PublishType, ExpiryType, Zenon DEF Next, Consumer, OwnStep, RedisCall
<1> QED
  BY <1>1, <1>2

(* A new stream, a tracer that has yet to subscribe. *)
LEMMA TypeInit == Init => TypeInv
<1> SUFFICES ASSUME Init PROVE TypeInv
  OBVIOUS
<1>1. /\ stream \in Seq([wallet : Wallets, kind : Kinds]) /\ Len(stream) = 0
      /\ batch \in Seq(Delivered) /\ Len(batch) = 0
      /\ responses \in Seq(Answer)
  BY EmptySeq DEF Init
<1>2. /\ cache \in [Wallets -> {None, TRUE, FALSE}]
      /\ stop \in BOOLEAN /\ cancelled \in BOOLEAN /\ group \in BOOLEAN
      /\ pel \subseteq Delivered /\ rows \subseteq Delivered
      /\ cutShort \subseteq Delivered
  BY DEF Init
<1>3. /\ first \in 0 .. Len(stream) /\ cursor \in first .. Len(stream)
      /\ Len(stream) <= MaxRequests /\ Len(batch) <= BatchSize
      /\ pc \in Awaits \cup {"next", "ended"}
      /\ errors \in 0 .. MaxErrors /\ restarts \in 0 .. MaxRestarts
  BY <1>1, TracerAssumption DEF Init, Awaits
<1>4. TypeOK
  BY <1>1, <1>2, <1>3, Zenon DEF TypeOK, Answer
<1>5. PhaseInv
  BY DEF Init, PhaseInv, Handling
<1> QED
  BY <1>4, <1>5 DEF TypeInv

(* The types and the phases are invariant. *)
LEMMA TypeInvariant == Spec => []TypeInv
BY TypeInit, TypeStep, PTL DEF Spec

(* Whatever is lost, cancelled or restarted, the tracer only ever holds,   *)
(* persists and answers requests that the group was handed out, and never  *)
(* more than one batch.                                                    *)
THEOREM TypeCorrect == Spec => []TypeOK
<1>1. TypeInv => TypeOK
  BY DEF TypeInv
<1> QED
  BY <1>1, TypeInvariant, PTL

------------------------------------------------------------------------------
(* What one step does to the batch and to the answers *)

Persisting == {"hset", "expire", "fresh"}

(* The batch is given up. *)
Drops == /\ batch' = <<>> /\ UNCHANGED <<rows, responses>>
         /\ pc' \notin Persisting \cup {"cached"}

(* The batch is left as it is. *)
Stays == /\ UNCHANGED <<batch, rows, responses>> /\ pel \subseteq pel'
         /\ pc = "ack" => pc' = "ack"
         /\ pc' \in Persisting => pc \in Persisting
         /\ pc' = "cached" => pc = "cached" \/ cache[Wallet] # None

(* The next entries become the batch. *)
Reads == /\ pc = "read" /\ pc' = "next"
         /\ NewEntries > 0 /\ Deliver(NewEntries)
         /\ batch' = [i \in 1 .. NewEntries |-> cursor + i]

(* The profile of the current request gets its row. *)
Persists == /\ pc = "trace" /\ pc' = "hset" /\ Persist
            /\ UNCHANGED <<batch, responses, pel>>

(* The current request is answered. *)
Answers == /\ pc \in {"fresh", "cached"} /\ pc' = "ack" /\ Send
           /\ UNCHANGED batch

(* The current request is acknowledged. *)
Finishes == /\ pc = "ack" /\ pc' = "next" /\ Acknowledge
            /\ batch' = Tail(batch)

Shape == Drops \/ Stays \/ Reads \/ Persists \/ Answers \/ Finishes

(* A call that is not the answer leaves the answers alone. *)
LEMMA OtherCalls ==
    ASSUME MaybeExecuted, pc \notin {"fresh", "cached"}
    PROVE  UNCHANGED <<rows, responses>>
BY DEF MaybeExecuted, Executed, CreateGroup, Deliver, StoreHash, SetTTL, Acknowledge, results

(* Only an acknowledgement takes entries off the pending list. *)
LEMMA PendingStays ==
    ASSUME MaybeExecuted, pc # "ack"
    PROVE  pel \subseteq pel'
BY DEF MaybeExecuted, Executed, CreateGroup, Deliver, StoreHash, SetTTL, Send, redis

(* Every step has one of the six shapes. *)
LEMMA Shaped == TypeInv /\ [Next]_vars => Shape
<1> SUFFICES ASSUME TypeInv, [Next]_vars PROVE Shape
  OBVIOUS
<1> USE DEF Shape
<1>1. CASE Resubscribe \/ NextRead
  BY <1>1 DEF Resubscribe, NextRead, Stays, redis, results, Persisting
<1>2. CASE Subscribe
  <2>1. /\ batch' = <<>> /\ pc' \notin Persisting \cup {"cached"}
        /\ MaybeExecuted /\ pc = "subscribe"
    BY <1>2 DEF Subscribe, Crash, MaybeExecuted, Persisting
  <2> QED
    BY <2>1, OtherCalls DEF Drops
<1>3. CASE Read
  <2>1. CASE Executed /\ pc' = "next" /\ batch' = [i \in 1 .. NewEntries |-> cursor + i]
    BY <1>3, <2>1 DEF Read, ReadNew, Executed, Reads
  <2>2. CASE MaybeExecuted /\ (Crash \/ UNCHANGED <<pc, batch>>)
    <3>1. pc = "read" /\ UNCHANGED <<rows, responses>> /\ pel \subseteq pel'
      BY <1>3, <2>2, OtherCalls, PendingStays DEF Read, ReadNew
    <3> QED
      BY <2>2, <3>1 DEF Crash, Drops, Stays, Persisting
  <2> QED
    BY <1>3, <2>1, <2>2 DEF Read, ReadNew
<1>4. CASE NextEntry
  BY <1>4 DEF NextEntry, Crash, Drops, Stays, redis, results, Persisting
<1>5. CASE Lookup
  BY <1>5 DEF Lookup, Stays, redis, results, Persisting
<1>6. CASE Trace
  BY <1>6 DEF Trace, Stays, Persists, redis, Persisting
<1>7. CASE Hset \/ Expire
  <2>1. /\ pc \in {"hset", "expire"} /\ pc' \in {"expire", "fresh", "ack"}
        /\ MaybeExecuted /\ batch' = batch
    BY <1>7 DEF Hset, Expire, Call, MaybeExecuted
  <2> QED
    BY <2>1, OtherCalls, PendingStays DEF Stays, Persisting
<1>8. CASE Respond
  <2>1. /\ pc \in {"fresh", "cached"} /\ pc' = "ack" /\ MaybeExecuted /\ batch' = batch
    BY <1>8 DEF Respond, Call, MaybeExecuted
  <2>2. Send \/ UNCHANGED <<redis, results>>
    BY <2>1 DEF MaybeExecuted, Executed
  <2> QED
    BY <2>1, <2>2 DEF Answers, Stays, Persisting, redis, results
<1>9. CASE Ack
  <2>1. CASE pc' = "next" /\ batch' = Tail(batch)
    BY <1>9, <2>1 DEF Ack, Executed, Crash, Finishes
  <2>2. CASE pc' # "next"
    <3>1. pc = "ack" /\ batch' = <<>> /\ MaybeExecuted /\ pc' \in {"ended", "delay"}
      BY <1>9, <2>2 DEF Ack, Crash, MaybeExecuted
    <3> QED
      BY <3>1, OtherCalls DEF Drops, Persisting
  <2> QED
    BY <1>9, <2>1, <2>2 DEF Ack, Crash
<1>10. CASE Shutdown
  BY <1>10 DEF Shutdown, Stays, redis, results
<1>11. CASE Cancel
  <2>1. CASE pc \in Handling
    <3>1. pc' = "ack" /\ batch' = batch /\ MaybeExecuted /\ pc # "ack"
      BY <1>11, <2>1 DEF Cancel, Handling
    <3>2. CASE pc \in {"fresh", "cached"} /\ Send
      BY <3>1, <3>2 DEF Answers
    <3>3. CASE ~(pc \in {"fresh", "cached"} /\ Send)
      <4>1. UNCHANGED <<rows, responses>>
        BY <3>1, <3>3, OtherCalls DEF MaybeExecuted, Executed, results
      <4> QED
        BY <3>1, <4>1, PendingStays DEF Stays, Persisting
    <3> QED
      BY <3>2, <3>3
  <2>2. CASE pc \notin Handling
    <3>1. pc' = "ended" /\ batch' = <<>> /\ MaybeExecuted /\ pc \notin {"fresh", "cached"}
      BY <1>11, <2>2 DEF Cancel, Handling
    <3> QED
      BY <3>1, OtherCalls DEF Drops, Persisting
  <2> QED
    BY <2>1, <2>2
<1>12. CASE Restart
  BY <1>12 DEF Restart, Drops, results, Persisting
<1>13. ASSUME NEW w \in Wallets, NEW kind \in Kinds, Publish(w, kind) PROVE Shape
  BY <1>13 DEF Publish, Stays, results
<1>14. ASSUME NEW w \in Wallets, CacheExpires(w) PROVE Shape
  BY <1>14 DEF CacheExpires, Stays, redis
<1>15. CASE UNCHANGED vars
  BY <1>15 DEF vars, Stays, redis, results
<1> QED
  BY <1>1, <1>2, <1>3, <1>4, <1>5, <1>6, <1>7, <1>8, <1>9, <1>10, <1>11, <1>12, <1>13,
     <1>14, <1>15, Zenon DEF Next, Consumer, OwnStep, RedisCall

------------------------------------------------------------------------------
(* What is read and not finished is on the pending list *)

(* Entries are worked on in the order of the stream, each once: this is    *)
(* why acknowledging the first one leaves the others pending.              *)
BatchAscends == \A i, j \in DOMAIN batch : i < j => batch[i] < batch[j]

(* Everything the tracer has read and not finished is on the pending list. *)
BatchPending == \A i \in DOMAIN batch : batch[i] \in pel

HeldInv == TypeInv /\ BatchAscends /\ BatchPending

(* The batch without its first entry. *)
LEMMA BatchTail ==
    ASSUME TypeInv, batch # <<>>
    PROVE  /\ DOMAIN Tail(batch) = 1 .. (Len(batch) - 1)
           /\ DOMAIN batch = 1 .. Len(batch) /\ Len(batch) \in Nat
           /\ \A i \in DOMAIN Tail(batch) : Tail(batch)[i] = batch[i + 1]
           /\ \A i \in DOMAIN batch : batch[i] \in Nat
<1>1. batch \in Seq(Delivered)
  BY DEF TypeInv, TypeOK
<1>2. /\ Tail(batch) \in Seq(Delivered) /\ Len(Tail(batch)) = Len(batch) - 1
      /\ \A i \in 1 .. Len(Tail(batch)) : Tail(batch)[i] = batch[i + 1]
  BY <1>1, HeadTailProperties
<1>3. \A i \in 1 .. Len(batch) : batch[i] \in Delivered
  BY <1>1, ElementOfSeq
<1>4. Delivered \subseteq Nat
  BY DEF Delivered, TypeInv, TypeOK
<1> QED
  BY <1>1, <1>2, <1>3, <1>4, LenProperties

(* A step of any of the six shapes keeps the batch ascending and pending. *)
LEMMA HeldStep ==
    ASSUME HeldInv, [Next]_vars
    PROVE  BatchAscends' /\ BatchPending'
<1>1. TypeInv /\ Shape
  BY Shaped DEF HeldInv
<1>2. CASE Drops
  <2>1. DOMAIN batch' = {}
    BY <1>2 DEF Drops
  <2> QED
    BY <2>1 DEF BatchAscends, BatchPending
<1>3. CASE Stays
  BY <1>3 DEF Stays, HeldInv, BatchAscends, BatchPending
<1>4. CASE Reads
  <2>1. NewEntries \in 1 .. BatchSize /\ cursor \in Nat
    <3>1. cursor \in Nat
      BY <1>1, LenProperties DEF TypeInv, TypeOK
    <3> QED
      BY <1>1, <1>4, <3>1, ReadBatch DEF Reads
  <2>2. /\ DOMAIN batch' = 1 .. NewEntries
        /\ \A i \in 1 .. NewEntries : batch'[i] = cursor + i
    BY <1>4 DEF Reads
  <2>3. pel' = pel \cup (cursor + 1) .. (cursor + NewEntries)
    BY <1>4 DEF Reads, Deliver
  <2> QED
    BY <2>1, <2>2, <2>3, TracerAssumption DEF BatchAscends, BatchPending
<1>5. CASE Persists
  BY <1>5 DEF Persists, HeldInv, BatchAscends, BatchPending
<1>6. CASE Answers
  <2>1. pel' = pel /\ batch' = batch
    BY <1>6 DEF Answers, Send, redis
  <2> QED
    BY <2>1 DEF HeldInv, BatchAscends, BatchPending
<1>7. CASE Finishes
  <2>1. batch # <<>> /\ batch' = Tail(batch) /\ pel' = pel \ {Current}
    BY <1>1, <1>7 DEF Finishes, Acknowledge, TypeInv, PhaseInv
  <2>2. Current = batch[1] /\ 1 \in DOMAIN batch
    BY <1>1, <2>1, CurrentInStream
  <2>3. ASSUME NEW i \in DOMAIN batch'
        PROVE  batch'[i] = batch[i + 1] /\ i \in Nat /\ i >= 1 /\ i + 1 \in DOMAIN batch
    BY <1>1, <2>1, BatchTail
  <2>4. BatchAscends'
    <3> SUFFICES ASSUME NEW i \in DOMAIN batch', NEW j \in DOMAIN batch', i < j
                 PROVE  batch'[i] < batch'[j]
      BY DEF BatchAscends
    <3>1. i + 1 < j + 1
      BY <2>3
    <3> QED
      BY <2>3, <3>1 DEF HeldInv, BatchAscends
  <2>5. BatchPending'
    <3> SUFFICES ASSUME NEW i \in DOMAIN batch' PROVE batch'[i] \in pel'
      BY DEF BatchPending
    <3>1. batch[1] < batch[i + 1]
      BY <2>2, <2>3 DEF HeldInv, BatchAscends
    <3>2. batch[1] # batch[i + 1]
      BY <1>1, <2>1, <2>2, <2>3, <3>1, BatchTail
    <3> QED
      BY <2>1, <2>2, <2>3, <3>2 DEF HeldInv, BatchPending
  <2> QED
    BY <2>4, <2>5
<1> QED
  BY <1>1, <1>2, <1>3, <1>4, <1>5, <1>6, <1>7 DEF Shape

(* HeldInv is an invariant of the tracer. *)
LEMMA HeldInvariant == Spec => []HeldInv
<1>1. Init => BatchAscends /\ BatchPending
  <2> SUFFICES ASSUME Init PROVE DOMAIN batch = {}
    BY DEF BatchAscends, BatchPending
  <2> QED
    BY DEF Init
<1>2. HeldInv <=> TypeInv /\ BatchAscends /\ BatchPending
  BY DEF HeldInv
<1>3. HeldInv /\ [Next]_vars => BatchAscends' /\ BatchPending'
  BY HeldStep
<1> QED
  BY <1>1, <1>2, <1>3, TypeInvariant, PTL DEF Spec

------------------------------------------------------------------------------
(* Answers *)

(* Every request answered so far comes before those the tracer still has;  *)
(* only the one it is about to acknowledge may be answered already.        *)
AnsweredBefore ==
    \A i \in DOMAIN responses, j \in DOMAIN batch :
        /\ responses[i].id <= batch[j]
        /\ pc # "ack" => responses[i].id < batch[j]

AnswerInv == HeldInv /\ AnsweredBefore /\ AnsweredInOrder

(* The answers are numbers of delivered requests. *)
LEMMA AnswerIds ==
    ASSUME TypeInv, NEW i \in DOMAIN responses
    PROVE  responses[i].id \in Delivered /\ responses[i].id \in Nat
                                        /\ responses[i].id <= cursor
<1>1. responses \in Seq(Answer)
  BY DEF TypeInv, TypeOK, Answer
<1>2. responses[i] \in Answer
  BY <1>1, LenProperties, ElementOfSeq
<1> QED
  BY <1>2 DEF Answer, Delivered, TypeInv, TypeOK

(* One more answer at the end of the stream. *)
LEMMA SendAppends ==
    ASSUME TypeInv, Answers
    PROVE  LET n == Len(responses) + 1
           IN  /\ DOMAIN responses = 1 .. Len(responses) /\ Len(responses) \in Nat
               /\ DOMAIN responses' = 1 .. n
               /\ \A i \in DOMAIN responses : responses'[i] = responses[i]
               /\ responses'[n].id = batch[1] /\ responses'[n].source = pc
<1>1. batch # <<>>
  BY DEF Answers, TypeInv, PhaseInv, Handling
<1>2. responses \in Seq(Answer) /\ Current \in Delivered /\ Current = batch[1]
  BY <1>1, CurrentInStream DEF TypeInv, TypeOK, Answer
<1> DEFINE a == [id |-> Current, source |-> pc]
<1>3. a \in Answer /\ a.id = batch[1] /\ a.source = pc
  BY <1>2 DEF Answer, Answers
<1> HIDE DEF a
<1>4. responses' = Append(responses, a)
  BY DEF Answers, Send, a
<1>5. /\ responses' \in Seq(Answer) /\ Len(responses') = Len(responses) + 1
      /\ \A i \in 1 .. Len(responses) : responses'[i] = responses[i]
      /\ responses'[Len(responses) + 1] = a
  BY <1>2, <1>3, <1>4, AppendProperties
<1> QED
  BY <1>2, <1>3, <1>5, LenProperties

(* A step of any of the six shapes keeps the answers in order. *)
LEMMA AnswerStep ==
    ASSUME AnswerInv, [Next]_vars
    PROVE  AnsweredBefore' /\ AnsweredInOrder'
<1>1. TypeInv /\ Shape
  BY Shaped DEF AnswerInv, HeldInv
<1>2. CASE Drops
  <2>1. DOMAIN batch' = {}
    BY <1>2 DEF Drops
  <2> QED
    BY <1>2, <2>1
    DEF Drops, AnswerInv, AnsweredBefore, AnsweredInOrder
<1>3. CASE Stays
  <2>1. Current' = Current
    BY <1>3 DEF Stays, Current
  <2> QED
    BY <1>3, <2>1
    DEF Stays, AnswerInv, AnsweredBefore, AnsweredInOrder
<1>4. CASE Reads
  <2>1. UNCHANGED <<rows, responses>>
    BY <1>4 DEF Reads, Deliver, results
  <2>2. NewEntries \in 1 .. BatchSize /\ cursor \in Nat
    <3>1. cursor \in Nat
      BY <1>1, LenProperties DEF TypeInv, TypeOK
    <3> QED
      BY <1>1, <1>4, <3>1, ReadBatch DEF Reads
  <2>3. /\ DOMAIN batch' = 1 .. NewEntries
        /\ \A i \in 1 .. NewEntries : batch'[i] = cursor + i
    BY <1>4 DEF Reads
  <2>4. AnsweredBefore'
    <3> SUFFICES ASSUME NEW i \in DOMAIN responses, NEW j \in 1 .. NewEntries
                 PROVE  responses[i].id < cursor + j /\ responses[i].id <= cursor + j
      BY <2>1, <2>3 DEF AnsweredBefore
    <3>1. responses[i].id \in Nat /\ responses[i].id <= cursor
      BY <1>1, AnswerIds
    <3> QED
      BY <2>2, <3>1, TracerAssumption
  <2> QED
    BY <2>1, <2>4 DEF AnswerInv, AnsweredInOrder
<1>5. CASE Persists
  <2>1. UNCHANGED <<batch, responses>> /\ pc # "ack"
    BY <1>5 DEF Persists
  <2> QED
    BY <2>1
    DEF AnswerInv, AnsweredBefore, AnsweredInOrder
<1>6. CASE Answers
  <2> DEFINE n == Len(responses) + 1
  <2>1. /\ DOMAIN responses = 1 .. Len(responses) /\ Len(responses) \in Nat
        /\ DOMAIN responses' = 1 .. n
        /\ \A i \in DOMAIN responses : responses'[i] = responses[i]
        /\ responses'[n].id = batch[1] /\ responses'[n].source = pc
    BY <1>1, <1>6, SendAppends
  <2>2. batch # <<>> /\ batch' = batch /\ rows' = rows /\ pc # "ack" /\ pc' = "ack"
    BY <1>1, <1>6 DEF Answers, Send, TypeInv, PhaseInv, Handling
  <2>3. Current = batch[1] /\ 1 \in DOMAIN batch
    BY <1>1, <2>2, CurrentInStream
  <2>4. /\ \A j \in DOMAIN batch : batch[j] \in Nat
        /\ DOMAIN batch = 1 .. Len(batch) /\ Len(batch) \in Nat
    BY <1>1, <2>2, BatchTail
  <2>5. \A i \in DOMAIN responses, j \in DOMAIN batch : responses[i].id < batch[j]
    BY <2>2 DEF AnswerInv, AnsweredBefore
  <2>6. \A i \in DOMAIN responses : responses[i].id \in Nat
    BY <1>1, AnswerIds
  <2> HIDE DEF n
  <2>7. n \in Nat /\ n \notin DOMAIN responses
        /\ \A i \in DOMAIN responses' : i = n \/ (i \in DOMAIN responses /\ i < n)
    BY <2>1 DEF n
  <2>8. \A j \in DOMAIN batch : batch[1] <= batch[j]
    BY <2>3, <2>4 DEF AnswerInv, HeldInv, BatchAscends
  <2>9. AnsweredBefore'
    <3> SUFFICES ASSUME NEW i \in DOMAIN responses', NEW j \in DOMAIN batch
                 PROVE  responses'[i].id <= batch[j]
      BY <2>2 DEF AnsweredBefore
    <3> QED
      BY <2>1, <2>4, <2>5, <2>6, <2>7, <2>8
  <2>10. AnsweredInOrder'
    <3> SUFFICES ASSUME NEW i \in DOMAIN responses', NEW j \in DOMAIN responses', i < j
                 PROVE  responses'[i].id < responses'[j].id
      BY DEF AnsweredInOrder
    <3>1. i \in DOMAIN responses
      BY <2>1, <2>7
    <3> QED
      BY <2>1, <2>3, <2>5, <2>7, <3>1 DEF AnswerInv, AnsweredInOrder
  <2> QED
    BY <2>9, <2>10
<1>7. CASE Finishes
  <2>1. /\ batch # <<>> /\ batch' = Tail(batch) /\ pc' = "next"
        /\ UNCHANGED <<rows, responses>>
    BY <1>1, <1>7 DEF Finishes, Acknowledge, results, TypeInv, PhaseInv
  <2>2. ASSUME NEW j \in DOMAIN batch'
        PROVE  /\ batch'[j] = batch[j + 1] /\ j + 1 \in DOMAIN batch
               /\ batch[j + 1] \in Nat /\ batch[1] \in Nat /\ 1 \in DOMAIN batch
               /\ batch[1] < batch[j + 1]
    <3>1. /\ batch'[j] = batch[j + 1] /\ j + 1 \in DOMAIN batch /\ 1 < j + 1
          /\ 1 \in DOMAIN batch
      BY <1>1, <2>1, BatchTail
    <3>2. batch[1] < batch[j + 1]
      BY <3>1 DEF AnswerInv, HeldInv, BatchAscends
    <3> QED
      BY <1>1, <2>1, <3>1, <3>2, BatchTail
  <2>3. AnsweredBefore'
    <3> SUFFICES ASSUME NEW i \in DOMAIN responses, NEW j \in DOMAIN batch'
                 PROVE  responses[i].id < batch'[j] /\ responses[i].id <= batch'[j]
      BY <2>1 DEF AnsweredBefore
    <3>1. responses[i].id <= batch[1] /\ responses[i].id \in Nat
      BY <1>1, <2>2, AnswerIds DEF AnswerInv, AnsweredBefore
    <3> QED
      BY <2>2, <3>1
  <2> QED
    BY <2>1, <2>3 DEF AnswerInv, AnsweredInOrder
<1> QED
  BY <1>1, <1>2, <1>3, <1>4, <1>5, <1>6, <1>7 DEF Shape

(* AnswerInv is an invariant of the tracer. *)
LEMMA AnswerInvariant == Spec => []AnswerInv
<1> DEFINE Rest == AnsweredBefore /\ AnsweredInOrder
<1>1. Init => Rest
  <2> SUFFICES ASSUME Init PROVE Rest
    OBVIOUS
  <2>1. DOMAIN responses = {}
    BY DEF Init
  <2> QED
    BY <2>1 DEF AnsweredBefore, AnsweredInOrder
<1>2. AnswerInv <=> HeldInv /\ Rest
  BY DEF AnswerInv
<1>3. AnswerInv /\ [Next]_vars => Rest'
  BY AnswerStep
<1> QED
  BY <1>1, <1>2, <1>3, HeldInvariant, PTL DEF Spec

(* Answers are published in the order of the requests, and no request is   *)
(* answered twice, across lost connections, crashes of start() and         *)
(* restarts of the process.                                                *)
THEOREM AnsweredInOrderInvariant == Spec => []AnsweredInOrder
<1>1. AnswerInv => AnsweredInOrder
  BY DEF AnswerInv
<1> QED
  BY <1>1, AnswerInvariant, PTL

(* The stream only grows. *)
LEMMA StreamKept ==
    ASSUME TypeInv, [Next]_vars, NEW r \in Delivered
    PROVE  stream'[r] = stream[r]
<1>0. r \in DOMAIN stream /\ stream \in Seq([wallet : Wallets, kind : Kinds])
  BY LenProperties DEF Delivered, TypeInv, TypeOK
<1>1. CASE stream' = stream
  BY <1>1
<1>2. ASSUME NEW w \in Wallets, NEW kind \in Kinds, Publish(w, kind) PROVE stream'[r] = stream[r]
  <2> DEFINE e == [wallet |-> w, kind |-> kind]
  <2>1. e \in [wallet : Wallets, kind : Kinds] /\ stream' = Append(stream, e)
    BY <1>2 DEF Publish
  <2> HIDE DEF e
  <2> QED
    BY <1>0, <2>1, AppendProperties, LenProperties
<1>3. stream' = stream \/ \E w \in Wallets, kind \in Kinds : Publish(w, kind)
  <2>1. TypeInv /\ MaybeExecuted => stream' = stream
    BY MaybeExecutedEffect DEF CallEffect
  <2>2. Executed => MaybeExecuted
    BY DEF MaybeExecuted
  <2>3. CASE Resubscribe \/ NextRead \/ NextEntry \/ Lookup \/ Trace
    BY <2>3 DEF Resubscribe, NextRead, NextEntry, Lookup, Trace, redis
  <2>4. CASE Subscribe \/ Read \/ Hset \/ Expire \/ Respond \/ Ack \/ Cancel
    BY <2>1, <2>2, <2>4 DEF Subscribe, Read, ReadNew, Hset, Expire, Respond, Call, Ack, Cancel
  <2>5. CASE Shutdown \/ Restart \/ (\E w \in Wallets : CacheExpires(w)) \/ UNCHANGED vars
    BY <2>5 DEF Shutdown, Restart, CacheExpires, vars, redis
  <2> QED
    BY <2>3, <2>4, <2>5, Zenon DEF Next, Consumer, OwnStep, RedisCall
<1> QED
  BY <1>1, <1>2, <1>3

(* Profiles: a row for each, before the cache and the answer have it. *)
Profile(w) == \E r \in rows : stream[r].wallet = w

(* What is cached, or found in the cache, has a row, and so has what is    *)
(* being cached and answered; rows belong to requests up to the current.   *)
CachedHasRow     == \A w \in Wallets : cache[w] # None => Profile(w)
FoundHasRow      == pc = "cached" => Profile(Wallet)
ProfilePersisted == pc \in Persisting => Current \in rows
RowsBefore       == \A r \in rows, j \in DOMAIN batch : r <= batch[j]

(* The row an answer rests on *)
RestsOn(a, r) == /\ r <= a.id /\ stream[r].wallet = stream[a.id].wallet
                 /\ a.source = "fresh" => r = a.id

(* and after the step *)
WillRestOn(a, r) == /\ r <= a.id /\ stream'[r].wallet = stream'[a.id].wallet
                    /\ a.source = "fresh" => r = a.id

Founded == \A i \in DOMAIN responses : \E r \in rows : RestsOn(responses[i], r)

ProfileInv == /\ CachedHasRow /\ FoundHasRow /\ ProfilePersisted
              /\ RowsBefore /\ Founded

(* Rows are only ever added, for requests that were delivered. *)
LEMMA RowsGrow == TypeInv /\ [Next]_vars => rows \subseteq rows' /\ rows \subseteq Delivered
<1> SUFFICES ASSUME TypeInv, [Next]_vars PROVE rows \subseteq rows'
  BY DEF TypeInv, TypeOK
<1>1. Drops \/ Stays \/ Persists => rows \subseteq rows'
  BY DEF Drops, Stays, Persists, Persist
<1>2. Reads \/ Answers \/ Finishes => rows \subseteq rows'
  BY DEF Reads, Deliver, Answers, Send, Finishes, Acknowledge, results
<1> QED
  BY <1>1, <1>2, Shaped, Zenon DEF Shape

(* A wallet with a row keeps it. *)
LEMMA ProfileKept ==
    ASSUME TypeInv, [Next]_vars, NEW w, Profile(w)
    PROVE  Profile(w)'
<1>1. PICK r \in rows : stream[r].wallet = w
  BY DEF Profile
<1>2. r \in rows' /\ stream'[r] = stream[r]
  BY RowsGrow, StreamKept
<1> QED
  BY <1>1, <1>2 DEF Profile

(* So does an answer with the row it rests on. *)
LEMMA RestsOnKept ==
    ASSUME TypeInv, [Next]_vars, NEW i \in DOMAIN responses, NEW r \in rows,
           RestsOn(responses[i], r)
    PROVE  r \in rows' /\ WillRestOn(responses[i], r)
<1>1. r \in Delivered /\ r \in rows' /\ responses[i].id \in Delivered
  BY RowsGrow, AnswerIds
<1>2. stream'[r] = stream[r] /\ stream'[responses[i].id] = stream[responses[i].id]
  BY <1>1, StreamKept
<1> QED
  BY <1>1, <1>2 DEF RestsOn, WillRestOn

(* Only HSET puts a profile into the cache, that of the current wallet. *)
LEMMA CacheGrows ==
    ASSUME TypeInv, [Next]_vars, NEW w \in Wallets, cache'[w] # None
    PROVE  cache[w] # None \/ (pc = "hset" /\ w = Wallet)
<1>1. cache \in [Wallets -> {None, TRUE, FALSE}]
  BY DEF TypeInv, TypeOK
<1>2. CASE cache' = cache
  BY <1>2
<1>3. CASE MaybeExecuted
  <2>1. cache' = cache \/ (pc = "hset" /\ StoreHash) \/ SetTTL
    BY <1>3, Zenon DEF MaybeExecuted, Executed, CreateGroup, Deliver, Send, Acknowledge, results
  <2> QED
    BY <1>1, <2>1 DEF StoreHash, SetTTL
<1>4. CASE \E x \in Wallets : CacheExpires(x)
  BY <1>1, <1>4 DEF CacheExpires
<1>5. CASE Subscribe \/ Read \/ Hset \/ Expire \/ Respond \/ Ack \/ Cancel
  BY <1>3, <1>5, Zenon
  DEF Subscribe, Read, ReadNew, Hset, Expire, Respond, Call, Ack, Cancel, MaybeExecuted
<1>6. CASE \/ Resubscribe \/ NextRead \/ NextEntry \/ Lookup \/ Trace
           \/ Shutdown \/ Restart \/ UNCHANGED vars
           \/ \E x \in Wallets, kind \in Kinds : Publish(x, kind)
  BY <1>2, <1>6, Zenon
  DEF Resubscribe, NextRead, NextEntry, Lookup, Trace, Shutdown, Restart, Publish, vars, results
<1> QED
  BY <1>4, <1>5, <1>6, Zenon DEF Next, Consumer, OwnStep, RedisCall

(* The current request is the same after a step that leaves the batch. *)
LEMMA SameWallet ==
    ASSUME TypeInv, [Next]_vars, batch # <<>>, batch' = batch
    PROVE  Current' = Current /\ Wallet' = Wallet
<1>1. Current \in Delivered /\ Current' = Current
  BY CurrentInStream DEF Current
<1> QED
  BY <1>1, StreamKept DEF Wallet

(* What is put into the cache has its row. *)
LEMMA CachedStep ==
    TypeInv /\ ProfileInv /\ [Next]_vars => CachedHasRow'
<1> SUFFICES ASSUME TypeInv, ProfileInv, [Next]_vars,
                    NEW w \in Wallets, cache'[w] # None
             PROVE  Profile(w)'
  BY Zenon DEF CachedHasRow, Profile
<1>1. Profile(w)
  <2>1. CASE cache[w] # None
    BY <2>1 DEF ProfileInv, CachedHasRow
  <2>2. CASE pc = "hset" /\ w = Wallet
    BY <2>2 DEF ProfileInv, ProfilePersisted, Persisting, Profile, Wallet
  <2> QED
    BY <2>1, <2>2, CacheGrows
<1> QED
  BY <1>1, ProfileKept

(* What is found in the cache has its row. *)
LEMMA FoundStep ==
    TypeInv /\ ProfileInv /\ [Next]_vars => FoundHasRow'
<1> SUFFICES ASSUME TypeInv, ProfileInv, [Next]_vars, pc' = "cached"
             PROVE  Profile(Wallet)'
  BY Zenon DEF FoundHasRow, Profile
<1>1. Stays /\ (pc = "cached" \/ cache[Wallet] # None)
  BY Shaped DEF Shape, Drops, Stays, Reads, Persists, Answers, Finishes
<1>2. batch' # <<>>
  BY TypeStep DEF TypeInv, PhaseInv, Handling
<1>3. batch # <<>> /\ Wallet' = Wallet /\ Wallet \in Wallets
  BY <1>1, <1>2, SameWallet, CurrentInStream DEF Stays
<1>4. Profile(Wallet)
  BY <1>1, <1>3 DEF ProfileInv, FoundHasRow, CachedHasRow
<1>5. ASSUME NEW w, w = Wallet PROVE Profile(w)'
  BY <1>4, <1>5, ProfileKept
<1> QED
  BY <1>3, <1>5 DEF Profile

(* Rows come before what the tracer still has; while a profile is being    *)
(* cached and answered, its row is there.                                  *)
LEMMA RowsStep ==
    HeldInv /\ ProfileInv /\ [Next]_vars => RowsBefore' /\ ProfilePersisted'
<1> SUFFICES ASSUME HeldInv, ProfileInv, [Next]_vars
             PROVE  RowsBefore' /\ ProfilePersisted'
  OBVIOUS
<1>1. TypeInv /\ Shape
  BY Shaped DEF HeldInv
<1>2. \A r \in rows : r \in Delivered /\ r \in Nat /\ r <= cursor
  BY <1>1 DEF TypeInv, TypeOK, Delivered
<1>3. CASE Drops
  <2>1. DOMAIN batch' = {}
    BY <1>3 DEF Drops
  <2> QED
    BY <1>3, <2>1 DEF Drops, RowsBefore, ProfilePersisted
<1>4. CASE Stays \/ Answers
  <2>1. /\ UNCHANGED <<batch, rows>> /\ Current' = Current
        /\ pc' \in Persisting => pc \in Persisting
    BY <1>4 DEF Stays, Answers, Send, Current, Persisting
  <2> QED
    BY <2>1 DEF ProfileInv, RowsBefore, ProfilePersisted
<1>5. CASE Reads
  <2>1. rows' = rows /\ pc' \notin Persisting
    BY <1>5 DEF Reads, Deliver, results, Persisting
  <2>2. NewEntries \in 1 .. BatchSize /\ cursor \in Nat
    <3>1. cursor \in Nat
      BY <1>1, LenProperties DEF TypeInv, TypeOK
    <3> QED
      BY <1>1, <1>5, <3>1, ReadBatch DEF Reads
  <2>3. /\ DOMAIN batch' = 1 .. NewEntries
        /\ \A i \in 1 .. NewEntries : batch'[i] = cursor + i
    BY <1>5 DEF Reads
  <2>4. \A r \in rows, j \in 1 .. NewEntries : r <= cursor + j
    BY <1>2, <2>2, TracerAssumption
  <2> QED
    BY <2>1, <2>3, <2>4 DEF RowsBefore, ProfilePersisted
<1>6. CASE Persists
  <2>1. /\ batch # <<>> /\ batch' = batch /\ rows' = rows \cup {Current} /\ Current' = Current
    BY <1>1, <1>6 DEF Persists, Persist, Current, TypeInv, PhaseInv, Handling
  <2>2. Current = batch[1] /\ 1 \in DOMAIN batch
    BY <1>1, <2>1, CurrentInStream
  <2>3. /\ \A j \in DOMAIN batch : batch[j] \in Nat
        /\ DOMAIN batch = 1 .. Len(batch) /\ Len(batch) \in Nat
    BY <1>1, <2>1, BatchTail
  <2>4. \A j \in DOMAIN batch : Current <= batch[j]
    BY <2>2, <2>3 DEF HeldInv, BatchAscends
  <2> QED
    BY <2>1, <2>4 DEF ProfileInv, RowsBefore, ProfilePersisted
<1>7. CASE Finishes
  <2>1. /\ batch # <<>> /\ batch' = Tail(batch) /\ rows' = rows /\ pc' \notin Persisting
    BY <1>1, <1>7 DEF Finishes, Acknowledge, results, TypeInv, PhaseInv, Persisting
  <2>2. \A j \in DOMAIN batch' : batch'[j] = batch[j + 1] /\ j + 1 \in DOMAIN batch
    BY <1>1, <2>1, BatchTail
  <2> QED
    BY <2>1, <2>2 DEF ProfileInv, RowsBefore, ProfilePersisted
<1> QED
  BY <1>1, <1>3, <1>4, <1>5, <1>6, <1>7 DEF Shape

(* The answers given go on to rest on a row, and a new one does. *)
LEMMA FoundedStep ==
    TypeInv /\ ProfileInv /\ [Next]_vars => Founded'
<1> SUFFICES ASSUME TypeInv, ProfileInv, [Next]_vars, NEW i \in DOMAIN responses'
             PROVE  \E r \in rows' : WillRestOn(responses'[i], r)
  BY Zenon DEF Founded, RestsOn, WillRestOn
<1>1. ASSUME i \in DOMAIN responses, responses'[i] = responses[i]
      PROVE  \E r \in rows' : WillRestOn(responses'[i], r)
  <2>1. PICK r \in rows : RestsOn(responses[i], r)
    BY <1>1 DEF ProfileInv, Founded
  <2>2. r \in rows' /\ WillRestOn(responses[i], r)
    BY <1>1, <2>1, RestsOnKept
  <2> QED
    BY <1>1, <2>2, Zenon
<1>2. CASE Answers
  <2> DEFINE n == Len(responses) + 1
  <2>1. /\ DOMAIN responses = 1 .. Len(responses) /\ Len(responses) \in Nat
        /\ DOMAIN responses' = 1 .. n
        /\ \A x \in DOMAIN responses : responses'[x] = responses[x]
        /\ responses'[n].id = batch[1] /\ responses'[n].source = pc
    BY <1>2, SendAppends
  <2>2. /\ batch # <<>> /\ batch' = batch /\ rows' = rows
        /\ pc \in {"fresh", "cached"} /\ stream' = stream
    BY <1>2 DEF Answers, Send, redis, TypeInv, PhaseInv, Handling
  <2>3. Current = batch[1] /\ 1 \in DOMAIN batch /\ Current \in Nat
    BY <2>2, CurrentInStream, BatchTail
  <2>4. CASE i = n
    <3>1. PICK r \in rows : /\ stream[r].wallet = stream[Current].wallet
                            /\ pc = "fresh" => r = Current
      <4>1. CASE pc = "fresh"
        BY <4>1 DEF ProfileInv, ProfilePersisted, Persisting
      <4>2. CASE pc = "cached"
        BY <4>2 DEF ProfileInv, FoundHasRow, Profile, Wallet
      <4> QED
        BY <2>2, <4>1, <4>2
    <3>2. r <= Current
      BY <2>3 DEF ProfileInv, RowsBefore
    <3> QED
      BY <2>1, <2>2, <2>3, <2>4, <3>1, <3>2 DEF WillRestOn
  <2> QED
    BY <1>1, <2>1, <2>4
<1>3. CASE ~Answers
  <2>1. responses' = responses
    BY <1>3, Shaped DEF Shape, Drops, Stays, Reads, Deliver, Persists, Finishes, Acknowledge, results
  <2> QED
    BY <1>1, <2>1
<1> QED
  BY <1>2, <1>3

(* ProfileInv is an invariant of the tracer. *)
LEMMA ProfileInvariant == Spec => []ProfileInv
<1>1. Init => ProfileInv
  <2> SUFFICES ASSUME Init PROVE ProfileInv
    OBVIOUS
  <2>1. /\ DOMAIN responses = {} /\ rows = {} /\ pc \notin Persisting /\ pc # "cached"
        /\ \A w \in Wallets : cache[w] = None
    BY DEF Init, Persisting
  <2> QED
    BY <2>1 DEF ProfileInv, CachedHasRow, FoundHasRow, ProfilePersisted, RowsBefore, Founded
<1>2. HeldInv /\ ProfileInv /\ [Next]_vars => ProfileInv'
  BY CachedStep, FoundStep, RowsStep, FoundedStep, Zenon DEF ProfileInv, HeldInv
<1> QED
  BY <1>1, <1>2, HeldInvariant, PTL DEF Spec

(* Every answer, fresh or from the cache, rests on a profile of the wallet *)
(* whose row was handed to the database client before, across failed calls,*)
(* expiring keys, crashes of start() and restarts.                         *)
THEOREM AnswerHasProfileInvariant == Spec => []AnswerHasProfile
<1>1. ProfileInv => AnswerHasProfile
  BY DEF ProfileInv, Founded, RestsOn, AnswerHasProfile
<1> QED
  BY <1>1, ProfileInvariant, PTL

------------------------------------------------------------------------------
(* What was acknowledged *)

(* Done with, one way or the other *)
Excused(r) == Settled(r) \/ r \in cutShort

SettledInv == /\ \A r \in Delivered \ pel : Excused(r)
              /\ pc = "ack" => Excused(Current)

(* A settled request stays settled. *)
LEMMA SettledStays ==
    ASSUME TypeInv, [Next]_vars, NEW r \in Delivered, Settled(r)
    PROVE  Settled(r)'
<1>1. r \in DOMAIN stream /\ stream \in Seq([wallet : Wallets, kind : Kinds])
  BY LenProperties DEF Delivered, TypeInv, TypeOK
<1>2. stream'[r] = stream[r]
  BY StreamKept
<1>3. \A i \in DOMAIN responses : i \in DOMAIN responses' /\ responses'[i] = responses[i]
  <2>1. CASE Answers
    BY <2>1, SendAppends
  <2>2. CASE Finishes \/ Reads
    BY <2>2 DEF Finishes, Reads, Acknowledge, Deliver, results
  <2>3. CASE Drops \/ Stays \/ Persists
    BY <2>3 DEF Drops, Stays, Persists
  <2> QED
    BY <2>1, <2>2, <2>3, Shaped, Zenon DEF Shape
<1> QED
  BY <1>2, <1>3, Zenon DEF Settled

(* What a call takes off the pending list is the request it acknowledges.  *)
LEMMA CallReleases ==
    ASSUME TypeInv, MaybeExecuted, NEW r \in Delivered' \ pel'
    PROVE  r \in Delivered \ pel \/ (pc = "ack" /\ r = Current)
<1>1. CASE UNCHANGED <<redis, results>> \/ StoreHash \/ SetTTL \/ Send
  BY <1>1 DEF StoreHash, SetTTL, Send, redis, Delivered
<1>2. CASE pc = "subscribe" /\ CreateGroup
  BY <1>2 DEF CreateGroup, Delivered, TypeInv, TypeOK, PhaseInv
<1>3. CASE Deliver(NewEntries) /\ pc = "read" /\ NewEntries > 0
  <2>1. /\ Len(stream) \in Nat /\ first \in Nat /\ cursor \in Nat /\ first <= cursor
        /\ cursor <= Len(stream)
    BY LenProperties DEF TypeInv, TypeOK
  <2>2. NewEntries \in Nat
    BY <2>1, TracerAssumption DEF NewEntries
  <2> QED
    BY <1>3, <2>1, <2>2 DEF Deliver, Delivered
<1>4. CASE pc = "ack" /\ Acknowledge
  BY <1>4 DEF Acknowledge, Delivered
<1> QED
  BY <1>1, <1>2, <1>3, <1>4, Zenon DEF MaybeExecuted, Executed

(* The same of any step. *)
LEMMA StepReleases ==
    ASSUME TypeInv, [Next]_vars, NEW r \in Delivered' \ pel'
    PROVE  r \in Delivered \ pel \/ (pc = "ack" /\ r = Current)
<1>1. Executed => MaybeExecuted
  BY DEF MaybeExecuted
<1>2. CASE UNCHANGED <<first, cursor, pel>>
  BY <1>2 DEF Delivered
<1>3. CASE MaybeExecuted
  BY <1>3, CallReleases
<1>4. CASE Subscribe \/ Read \/ Hset \/ Expire \/ Respond \/ Ack \/ Cancel
  BY <1>1, <1>3, <1>4, Zenon
  DEF Subscribe, Read, ReadNew, Hset, Expire, Respond, Call, Ack, Cancel
<1>5. CASE Resubscribe \/ NextRead \/ NextEntry \/ Lookup \/ Trace
  BY <1>2, <1>5 DEF Resubscribe, NextRead, NextEntry, Lookup, Trace, redis
<1>6. CASE Shutdown \/ Restart \/ (\E w \in Wallets : CacheExpires(w)) \/ UNCHANGED vars
           \/ \E w \in Wallets, kind \in Kinds : Publish(w, kind)
  BY <1>2, <1>6 DEF Shutdown, Restart, CacheExpires, Publish, vars, redis
<1> QED
  BY <1>4, <1>5, <1>6, Zenon DEF Next, Consumer, OwnStep, RedisCall

(* So does one that is excused. *)
LEMMA ExcusedStays ==
    ASSUME TypeInv, [Next]_vars, NEW r \in Delivered, Excused(r)
    PROVE  Excused(r)'
<1>1. cutShort \subseteq cutShort'
  BY DEF Next, Consumer, OwnStep, RedisCall, Resubscribe, Subscribe, Read, ReadNew, NextRead,
         NextEntry, Lookup, Trace, Hset, Expire, Respond, Call, Ack, Shutdown, Cancel, Restart,
         Publish, CacheExpires, CutShort, vars
<1>2. Settled(r) => Settled(r)'
  BY SettledStays
<1> QED
  BY <1>1, <1>2, Zenon DEF Excused

(* A request comes to its acknowledgement by its answer, by its invalid    *)
(* address, or because its handling was cut short.                         *)
LEMMA AckIsDue ==
    ASSUME TypeInv, SettledInv, [Next]_vars, pc' = "ack"
    PROVE  Excused(Current)'
<1>1. CASE pc = "ack" /\ batch' = batch
  <2>1. Excused(Current) /\ Current' = Current
    BY <1>1 DEF SettledInv, Current
  <2>2. Current \in Delivered
    BY <1>1, CurrentInStream DEF TypeInv, PhaseInv
  <2> QED
    BY <2>1, <2>2, ExcusedStays, Zenon DEF Excused, Settled
<1>2. CASE NextEntry
  <2>1. stream[Current].kind = "invalid" /\ batch' = batch /\ stream' = stream
    BY <1>2 DEF NextEntry, Crash, redis
  <2> QED
    BY <2>1 DEF Excused, Settled, Current
<1>3. CASE Answers
  <2>1. /\ Len(responses) + 1 \in DOMAIN responses'
        /\ responses'[Len(responses) + 1].id = batch[1]
    BY <1>3, SendAppends
  <2>2. batch # <<>> /\ batch' = batch
    BY <1>3 DEF Answers, TypeInv, PhaseInv, Handling
  <2>3. Current' = batch[1]
    BY <2>2, CurrentInStream DEF Current
  <2> QED
    BY <2>1, <2>3, Zenon DEF Excused, Settled
<1>4. CASE CutShort /\ batch' = batch
  BY <1>4 DEF CutShort, Excused, Current
<1>5. (pc = "ack" /\ batch' = batch) \/ NextEntry \/ Answers \/ (CutShort /\ batch' = batch)
  <2>1. CASE Resubscribe \/ Subscribe \/ Read \/ NextRead
    BY <2>1 DEF Resubscribe, Subscribe, Read, ReadNew, NextRead, Crash
  <2>2. CASE Lookup \/ Trace
    BY <2>2 DEF Lookup, Trace
  <2>3. CASE Hset \/ Expire
    BY <2>3 DEF Hset, Expire, Call
  <2>4. CASE Respond
    BY <2>4 DEF Respond, Call, Executed, Answers
  <2>5. CASE Ack
    BY <2>5 DEF Ack, Crash
  <2>6. CASE Cancel
    BY <2>6 DEF Cancel
  <2>7. CASE Restart \/ Shutdown \/ (\E w \in Wallets : CacheExpires(w)) \/ UNCHANGED vars
             \/ \E w \in Wallets, kind \in Kinds : Publish(w, kind)
    BY <2>7 DEF Restart, Shutdown, CacheExpires, Publish, vars
  <2> QED
    BY <2>1, <2>2, <2>3, <2>4, <2>5, <2>6, <2>7, Zenon DEF Next, Consumer, OwnStep, RedisCall
<1> QED
  BY <1>1, <1>2, <1>3, <1>4, <1>5

(* Every step keeps what is acknowledged, or about to be, excused. *)
LEMMA SettledStep == TypeInv /\ SettledInv /\ [Next]_vars => SettledInv'
<1> SUFFICES ASSUME TypeInv, SettledInv, [Next]_vars PROVE
                 /\ \A r \in Delivered' \ pel' : Excused(r)'
                 /\ pc' = "ack" => Excused(Current)'
  BY Zenon DEF SettledInv, Excused, Settled
<1>1. ASSUME NEW r \in Delivered' \ pel' PROVE Excused(r)'
  <2>1. r \in Delivered /\ Excused(r)
    <3>1. CASE r \in Delivered \ pel
      BY <3>1 DEF SettledInv
    <3>2. CASE pc = "ack" /\ r = Current
      BY <3>2, CurrentInStream DEF SettledInv, TypeInv, PhaseInv
    <3> QED
      BY <1>1, <3>1, <3>2, StepReleases
  <2> QED
    BY <2>1, ExcusedStays
<1> QED
  BY <1>1, AckIsDue

(* The finally clause acknowledges whatever came of a request.  But only   *)
(* failed calls and cancelled handlings make the tracer swallow one: not a *)
(* lost reply of XREADGROUP, not a corrupt entry or a failed XACK, which   *)
(* crash start() in the middle of a batch, not a shutdown between two      *)
(* requests, and not a kill.  Whatever those leave undone is still pending *)
(* in Redis, for any batch size.                                           *)
THEOREM NothingSwallowedInvariant == Spec => []NothingSwallowed
<1>1. Init => SettledInv
  <2> SUFFICES ASSUME Init PROVE Delivered = {} /\ pc # "ack"
    BY DEF SettledInv
  <2> QED
    BY DEF Init, Delivered
<1>2. SettledInv => NothingSwallowed
  BY Zenon DEF SettledInv, Excused, NothingSwallowed
<1> QED
  BY <1>1, <1>2, SettledStep, TypeInvariant, PTL DEF Spec

==============================================================================
