------------------------- MODULE QuestDBClientProofs -------------------------
(***************************************************************************)
(* Theorems about the database client, for every buffer size, every number *)
(* of rows and every choice of the rows that misbehave.                    *)
(***************************************************************************)
EXTENDS QuestDBClient, SequenceTheorems, TLAPS

(* The deque keeps to its maximal length and to the rows it is given. *)
LEMMA BufferAppendType ==
    ASSUME NEW S, NEW q \in Seq(S), NEW r \in S, Len(q) <= MaxBuffer
    PROVE  /\ BufferAppend(q, r) \in Seq(S)
           /\ Len(BufferAppend(q, r)) <= MaxBuffer
<1>1. CASE Len(q) >= MaxBuffer
  <2>1. q # <<>>
    BY <1>1, ClientAssumption
  <2>2. Tail(q) \in Seq(S) /\ Len(Tail(q)) = Len(q) - 1
    BY <2>1, HeadTailProperties
  <2>3. /\ Append(Tail(q), r) \in Seq(S)
        /\ Len(Append(Tail(q), r)) = Len(Tail(q)) + 1
    BY <2>2, AppendProperties
  <2> QED
    BY <1>1, <2>2, <2>3, LenProperties, ClientAssumption DEF BufferAppend
<1>2. CASE ~(Len(q) >= MaxBuffer)
  <2>1. Append(q, r) \in Seq(S) /\ Len(Append(q, r)) = Len(q) + 1
    BY AppendProperties
  <2> QED
    BY <1>2, <2>1, LenProperties, ClientAssumption DEF BufferAppend
<1> QED
  BY <1>1, <1>2

(* What sender.row() leaves behind is well typed when its inputs are. *)
LEMMA SenderRowType ==
    ASSUME NEW S, NEW r \in S, NEW p \in Seq(S), NEW t \in Seq(S),
           NEW b \in Seq(S), Len(b) <= MaxBuffer, SenderRow(r, p, t, b)
    PROVE  /\ buffer' \in Seq(S) /\ Len(buffer') <= MaxBuffer
           /\ sender' \in {"none", "open"}
           /\ pending' \in Seq(S)
           /\ table' \in Seq(S)
<1>1. Append(p, r) \in Seq(S)
  BY AppendProperties
<1>2. t \o Append(p, r) \in Seq(S)
  BY <1>1, ConcatProperties
<1>3. <<>> \in Seq(S)
  BY EmptySeq
<1>4. BufferAppend(b, r) \in Seq(S) /\ Len(BufferAppend(b, r)) <= MaxBuffer
  BY BufferAppendType
<1> QED
  BY <1>1, <1>2, <1>3, <1>4
  DEF SenderRow, RowFails, Flushed, FlushFails

(* A flush stores rows the Sender had, or nothing. *)
LEMMA FlushSenderType ==
    ASSUME NEW S, pending \in Seq(S), table \in Seq(S), FlushSender
    PROVE  pending' \in Seq(S) /\ table' \in Seq(S)
<1>1. table \o pending \in Seq(S) /\ <<>> \in Seq(S)
  BY ConcatProperties, EmptySeq
<1> QED
  BY <1>1 DEF FlushSender, Flushed, FlushFails

(* Every call, and a restart, keeps the types. *)
LEMMA TypeStep == TypeOK /\ [Next]_vars => TypeOK'
<1> SUFFICES ASSUME TypeOK, [Next]_vars PROVE TypeOK'
  OBVIOUS
<1> USE ClientAssumption DEF TypeOK
<1>0. <<>> \in Seq(1 .. issued) /\ Len(<<>>) = 0
  BY EmptySeq
<1>1. CASE Write
  <2> DEFINE S == 1 .. issued'
  <2>1. /\ issued \in Nat /\ issued' = issued + 1
        /\ issued' \in 0 .. MaxRows /\ issued' \in S /\ restarts' = restarts
    BY <1>1 DEF Write
  <2>2. 1 .. issued \subseteq S
    BY <2>1
  <2>3. buffer \in Seq(S) /\ pending \in Seq(S) /\ table \in Seq(S) /\ <<>> \in Seq(S)
    BY <2>2, <1>0, SeqMonotonic
  <2> SUFFICES /\ buffer' \in Seq(S) /\ Len(buffer') <= MaxBuffer
               /\ sender' \in {"none", "open"}
               /\ pending' \in Seq(S)
               /\ table' \in Seq(S)
    BY <2>1
  <2> HIDE DEF S
  <2>4. ASSUME NEW k \in 0 .. Len(buffer), PrefixStored(buffer, k)
        PROVE  table' \in Seq(S)
    <3>1. \A i \in 1 .. k : buffer[i] \in S
      BY <2>3, ElementOfSeq, LenProperties
    <3>2. SubSeq(buffer, 1, k) \in Seq(S)
      BY <3>1, SubSeqProperties
    <3> QED
      BY <2>3, <2>4, <3>2, ConcatProperties DEF PrefixStored
  <2>5. CASE WriteOpen(issued')
    BY <2>1, <2>3, <2>5, SenderRowType DEF WriteOpen
  <2>6. CASE WriteUnreachable(issued')
    BY <2>1, <2>3, <2>6, BufferAppendType DEF WriteUnreachable
  <2>7. CASE WriteReplayed(issued')
    <3>1. table \o buffer \in Seq(S)
      BY <2>3, ConcatProperties
    <3>2. SenderRow(issued', <<>>, table \o buffer, <<>>)
      BY <2>7 DEF WriteReplayed
    <3>3. Len(<<>>) <= MaxBuffer
      BY <1>0
    <3> QED
      BY <2>1, <2>3, <3>1, <3>2, <3>3, SenderRowType
  <2>8. CASE WriteReplayFails(issued')
    <3>1. table' \in Seq(S)
      BY <2>8, <2>4 DEF WriteReplayFails
    <3>2. buffer' \in Seq(S) /\ Len(buffer') <= MaxBuffer
      BY <2>1, <2>3, <2>8, BufferAppendType DEF WriteReplayFails, Requeue
    <3> QED
      BY <2>3, <2>8, <3>1, <3>2 DEF WriteReplayFails
  <2>9. CASE WriteReplayRaises(issued')
    <3>1. PICK n \in 0 .. Len(buffer), k \in 0 .. Len(buffer) :
             /\ n < Len(buffer) /\ k <= n /\ PrefixStored(buffer, k)
             /\ pending' = SubSeq(buffer, k + 1, n)
      BY <2>9 DEF WriteReplayRaises
    <3>2. \A i \in (k + 1) .. n : buffer[i] \in S
      BY <2>3, ElementOfSeq, LenProperties
    <3>3. pending' \in Seq(S)
      BY <3>1, <3>2, SubSeqProperties
    <3> QED
      BY <1>0, <2>3, <2>4, <2>9, <3>1, <3>3 DEF WriteReplayRaises
  <2> QED
    BY <1>1, <2>5, <2>6, <2>7, <2>8, <2>9 DEF Write
<1>2. CASE Flush
  BY <1>2, FlushSenderType DEF Flush
<1>3. CASE Close
  BY <1>3, FlushSenderType DEF Close
<1>4. CASE Restart
  BY <1>0, <1>4 DEF Restart
<1>5. CASE UNCHANGED vars
  BY <1>5 DEF vars
<1> QED
  BY <1>1, <1>2, <1>3, <1>4, <1>5 DEF Next

(* The queues hold only rows that were written and the deque never holds   *)
(* more than max_buffer of them.                                           *)
THEOREM TypeCorrect == Spec => []TypeOK
<1>1. Init => TypeOK
  BY EmptySeq, ClientAssumption DEF Init, TypeOK
<1> QED
  BY <1>1, TypeStep, PTL DEF Spec

------------------------------------------------------------------------------
(* After sender.row() the two queues are not both in use. *)
LEMMA SenderRowOneQueue ==
    ASSUME NEW r, NEW p, NEW t, SenderRow(r, p, t, <<>>)
    PROVE  OneQueue'
BY DEF SenderRow, RowFails, OneQueue

(* Rows wait in `_buffer` or in the Sender, never in both. *)
THEOREM OneQueueInvariant == Spec => []OneQueue
<1>1. Init => OneQueue
  BY DEF Init, OneQueue
<1>2. OneQueue /\ [Next]_vars => OneQueue'
  <2> SUFFICES ASSUME OneQueue, [Next]_vars PROVE OneQueue'
    OBVIOUS
  <2>1. CASE Write
    <3>1. CASE WriteOpen(issued')
      BY <3>1, SenderRowOneQueue DEF WriteOpen, OneQueue
    <3>2. CASE WriteUnreachable(issued')
      BY <3>2 DEF WriteUnreachable, OneQueue
    <3>3. CASE WriteReplayed(issued')
      BY <3>3, SenderRowOneQueue DEF WriteReplayed
    <3>4. CASE WriteReplayFails(issued')
      BY <3>4 DEF WriteReplayFails, OneQueue
    <3>5. CASE WriteReplayRaises(issued')
      BY <3>5 DEF WriteReplayRaises, OneQueue
    <3> QED
      BY <2>1, <3>1, <3>2, <3>3, <3>4, <3>5 DEF Write
  <2>2. CASE Flush
    BY <2>2 DEF Flush, FlushSender, OneQueue
  <2>3. CASE Close
    BY <2>3 DEF Close, FlushSender, OneQueue
  <2>4. CASE Restart
    BY <2>4 DEF Restart, OneQueue
  <2>5. CASE UNCHANGED vars
    BY <2>5 DEF vars, OneQueue
  <2> QED
    BY <2>1, <2>2, <2>3, <2>4, <2>5 DEF Next
<1> QED
  BY <1>1, <1>2, PTL DEF Spec

------------------------------------------------------------------------------
(***************************************************************************)
(* Order.  A queue q in front of a table t is in good order when its rows  *)
(* ascend and those t has not got are newer than everything t has.  Each   *)
(* call turns the queue in use into another one in good order: it appends  *)
(* the newest row, drops the oldest one, moves a prefix into the table, or *)
(* does several of these in turn.                                          *)
(***************************************************************************)
Ordered(q)  == \A i, j \in DOMAIN q : i < j => q[i] < q[j]
Fresh(q, t) == \A i \in DOMAIN q, s \in Range(t) : q[i] \in Range(t) \/ s < q[i]
Good(q, t)  == Ordered(q) /\ Fresh(q, t)

(* An empty queue is in good order. *)
LEMMA GoodEmpty == ASSUME NEW t PROVE Good(<<>>, t)
BY DEF Good, Ordered, Fresh

(* A row newer than all others may be appended. *)
LEMMA GoodAppend ==
    ASSUME NEW n \in Nat, NEW q \in Seq(1 .. n), NEW t \in Seq(1 .. n), Good(q, t)
    PROVE  Good(Append(q, n + 1), t)
<1> DEFINE a == Append(q, n + 1)
<1>1. Len(q) \in Nat /\ DOMAIN q = 1 .. Len(q) /\ q \in Seq(1 .. n + 1)
  BY LenProperties, SeqMonotonic
<1>2. /\ Len(a) = Len(q) + 1 /\ DOMAIN a = 1 .. (Len(q) + 1)
      /\ \A i \in 1 .. Len(q) : a[i] = q[i]
      /\ a[Len(q) + 1] = n + 1
  BY <1>1, AppendProperties, LenProperties
<1>3. \A i \in 1 .. Len(q) : q[i] \in 1 .. n
  BY <1>1, ElementOfSeq
<1>4. \A s \in Range(t) : s \in 1 .. n
  BY RangeOfSeq
<1> HIDE DEF a
<1>5. Ordered(a)
  <2> SUFFICES ASSUME NEW i \in 1 .. (Len(q) + 1), NEW j \in 1 .. (Len(q) + 1), i < j
               PROVE  a[i] < a[j]
    BY <1>2 DEF Ordered
  <2>1. CASE j = Len(q) + 1
    <3>1. i \in 1 .. Len(q)
      BY <1>1, <2>1
    <3>2. a[i] \in 1 .. n /\ a[j] = n + 1
      BY <1>2, <1>3, <2>1, <3>1
    <3> QED
      BY <3>2
  <2>2. CASE j # Len(q) + 1
    <3>1. i \in DOMAIN q /\ j \in DOMAIN q
      BY <1>1, <2>2
    <3> QED
      BY <1>1, <1>2, <3>1 DEF Good, Ordered
  <2> QED
    BY <2>1, <2>2
<1>6. Fresh(a, t)
  <2> SUFFICES ASSUME NEW i \in 1 .. (Len(q) + 1), NEW s \in Range(t)
               PROVE  a[i] \in Range(t) \/ s < a[i]
    BY <1>2 DEF Fresh
  <2>1. CASE i = Len(q) + 1
    <3>1. s \in 1 .. n /\ a[i] = n + 1
      BY <1>2, <1>4, <2>1
    <3> QED
      BY <3>1
  <2>2. CASE i # Len(q) + 1
    <3>1. i \in 1 .. Len(q) /\ i \in DOMAIN q
      BY <1>1, <2>2
    <3> QED
      BY <1>2, <3>1 DEF Good, Fresh
  <2> QED
    BY <2>1, <2>2
<1> QED
  BY <1>5, <1>6 DEF Good, a

(* A stretch of the queue is in good order once the rows before it are in  *)
(* the table, and so is the whole queue.                                   *)
LEMMA GoodPrefixStored ==
    ASSUME NEW S \in SUBSET Nat, NEW q \in Seq(S), NEW t \in Seq(S), Good(q, t),
           NEW k \in 0 .. Len(q), NEW n \in k .. Len(q)
    PROVE  /\ Good(q, t \o SubSeq(q, 1, k))
           /\ Good(SubSeq(q, k + 1, n), t \o SubSeq(q, 1, k))
<1> DEFINE p == SubSeq(q, 1, k)
           u == SubSeq(q, k + 1, n)
           v == t \o p
<1>1. Len(q) \in Nat /\ DOMAIN q = 1 .. Len(q)
  BY LenProperties
<1>2. \A i \in 1 .. Len(q) : q[i] \in S
  BY ElementOfSeq
<1>3. p \in Seq(S) /\ Len(p) = k /\ \A i \in 1 .. k : p[i] = q[i]
  BY <1>1, <1>2, SubSeqProperties
<1>4. /\ u \in Seq(S) /\ Len(u) = n - k
      /\ \A i \in 1 .. (n - k) : u[i] = q[k + i]
  BY <1>1, <1>2, SubSeqProperties
<1>5. Range(v) = Range(t) \cup Range(p)
  BY <1>3, RangeConcatenation
<1>6. Range(p) = {q[i] : i \in 1 .. k}
  <2>1. Range(p) = {p[i] : i \in 1 .. Len(p)}
    BY <1>3, RangeEquality
  <2> QED
    BY <1>3, <2>1
<1>7. Range(t) \subseteq Nat
  BY RangeOfSeq
<1>8. DOMAIN u = 1 .. (n - k)
  BY <1>4, LenProperties
<1> HIDE DEF p, u, v
<1>9. ASSUME NEW i \in 1 .. Len(q), NEW s \in Range(v)
      PROVE  q[i] \in Range(v) \/ s < q[i]
  <2>1. CASE s \in Range(t)
    BY <1>1, <1>5, <2>1 DEF Good, Fresh
  <2>2. CASE s \in Range(p)
    <3>1. PICK j \in 1 .. k : s = q[j]
      BY <1>6, <2>2
    <3>2. CASE i <= k
      BY <1>5, <1>6, <3>2
    <3>3. CASE ~(i <= k)
      BY <1>1, <3>1, <3>3 DEF Good, Ordered
    <3> QED
      BY <3>2, <3>3
  <2> QED
    BY <1>5, <2>1, <2>2
<1>10. Good(q, v)
  BY <1>1, <1>9 DEF Good, Fresh
<1>11. Ordered(u)
  <2> SUFFICES ASSUME NEW i \in 1 .. (n - k), NEW j \in 1 .. (n - k), i < j
               PROVE  u[i] < u[j]
    BY <1>8 DEF Ordered
  <2>1. k + i \in DOMAIN q /\ k + j \in DOMAIN q /\ k + i < k + j
    BY <1>1
  <2> QED
    BY <1>4, <2>1 DEF Good, Ordered
<1>12. Fresh(u, v)
  <2> SUFFICES ASSUME NEW i \in 1 .. (n - k), NEW s \in Range(v)
               PROVE  u[i] \in Range(v) \/ s < u[i]
    BY <1>8 DEF Fresh
  <2>1. k + i \in 1 .. Len(q) /\ u[i] = q[k + i]
    BY <1>1, <1>4
  <2> QED
    BY <1>9, <2>1
<1> QED
  BY <1>10, <1>11, <1>12 DEF Good, p, u, v

(* The whole queue may go into the table. *)
LEMMA GoodStored ==
    ASSUME NEW S \in SUBSET Nat, NEW q \in Seq(S), NEW t \in Seq(S), Good(q, t)
    PROVE  Good(q, t \o q)
<1>1. Len(q) \in 0 .. Len(q) /\ Len(q) \in Len(q) .. Len(q)
  BY LenProperties
<1>2. SubSeq(q, 1, Len(q)) = q
  BY SubSeqFull
<1> QED
  BY <1>1, <1>2, GoodPrefixStored

(* The oldest row may be dropped. *)
LEMMA GoodTail ==
    ASSUME NEW S \in SUBSET Nat, NEW q \in Seq(S), NEW t, q # <<>>, Good(q, t)
    PROVE  Good(Tail(q), t)
<1>1. /\ Tail(q) \in Seq(S) /\ Len(Tail(q)) = Len(q) - 1
      /\ \A i \in 1 .. Len(Tail(q)) : Tail(q)[i] = q[i + 1]
  BY HeadTailProperties
<1>2. /\ Len(q) \in Nat /\ DOMAIN q = 1 .. Len(q)
      /\ DOMAIN Tail(q) = 1 .. (Len(q) - 1)
  BY <1>1, LenProperties
<1>3. ASSUME NEW i \in DOMAIN Tail(q)
      PROVE  i + 1 \in DOMAIN q /\ Tail(q)[i] = q[i + 1]
  BY <1>1, <1>2
<1>4. Ordered(Tail(q))
  <2> SUFFICES ASSUME NEW i \in DOMAIN Tail(q), NEW j \in DOMAIN Tail(q), i < j
               PROVE  Tail(q)[i] < Tail(q)[j]
    BY DEF Ordered
  <2>1. i + 1 < j + 1
    BY <1>2
  <2> QED
    BY <1>3, <2>1 DEF Good, Ordered
<1>5. Fresh(Tail(q), t)
  BY <1>3 DEF Good, Fresh
<1> QED
  BY <1>4, <1>5 DEF Good

(* The deque stays in good order when the newest row is appended to it. *)
LEMMA GoodBufferAppend ==
    ASSUME NEW n \in Nat, NEW q \in Seq(1 .. n), NEW t \in Seq(1 .. n), Good(q, t)
    PROVE  Good(BufferAppend(q, n + 1), t)
<1>1. CASE Len(q) >= MaxBuffer
  <2>1. q # <<>>
    BY <1>1, EmptySeq, ClientAssumption
  <2>2. Tail(q) \in Seq(1 .. n) /\ Good(Tail(q), t)
    BY <2>1, HeadTailProperties, GoodTail
  <2> QED
    BY <1>1, <2>2, GoodAppend DEF BufferAppend
<1>2. CASE ~(Len(q) >= MaxBuffer)
  BY <1>2, GoodAppend DEF BufferAppend
<1> QED
  BY <1>1, <1>2

(* A row that sits alone in the deque is in good order in front of a table *)
(* that already ends with it.                                              *)
LEMMA GoodRedelivery ==
    ASSUME NEW n \in Nat, NEW p \in Seq(1 .. n), NEW t \in Seq(1 .. n)
    PROVE  Good(BufferAppend(<<>>, n + 1), t \o Append(p, n + 1))
<1> DEFINE a == Append(p, n + 1)
           b == Append(<<>>, n + 1)
<1>1. /\ <<>> \in Seq(1 .. n + 1) /\ Len(<<>>) = 0
      /\ p \in Seq(1 .. n + 1) /\ t \in Seq(1 .. n + 1)
  BY EmptySeq, SeqMonotonic
<1>2. BufferAppend(<<>>, n + 1) = b
  BY <1>1, ClientAssumption DEF BufferAppend
<1>3. Len(b) = 1 /\ DOMAIN b = 1 .. 1 /\ b[1] = n + 1
  BY <1>1, AppendProperties, LenProperties
<1>4. a \in Seq(1 .. n + 1) /\ Len(a) = Len(p) + 1 /\ a[Len(p) + 1] = n + 1
  BY <1>1, AppendProperties
<1>5. n + 1 \in Range(a)
  <2>1. Len(p) + 1 \in DOMAIN a
    BY <1>1, <1>4, LenProperties
  <2> QED
    BY <1>4, <2>1 DEF Range
<1> HIDE DEF a, b
<1>6. n + 1 \in Range(t \o a)
  <2>1. Range(t \o a) = Range(t) \cup Range(a)
    BY <1>1, <1>4, RangeConcatenation
  <2> QED
    BY <1>5, <2>1
<1>7. Good(b, t \o a)
  BY <1>3, <1>6 DEF Good, Ordered, Fresh
<1> QED
  BY <1>2, <1>7 DEF a

(* sender.row() of the newest row keeps both queues in good order. *)
LEMMA SenderRowGood ==
    ASSUME NEW n \in Nat, NEW p \in Seq(1 .. n), NEW t \in Seq(1 .. n),
           Good(p, t), SenderRow(n + 1, p, t, <<>>)
    PROVE  Good(buffer', table') /\ Good(pending', table')
<1>1. Good(<<>>, table')
  BY GoodEmpty
<1>2. CASE /\ pending' = p /\ table' = t /\ buffer' = <<>>
  BY <1>1, <1>2
<1>3. CASE /\ pending' = Append(p, n + 1) /\ table' = t /\ buffer' = <<>>
  BY <1>1, <1>3, GoodAppend
<1>4. CASE pending' = <<>> /\ buffer' = <<>>
  BY <1>1, <1>4
<1>5. CASE RowFails(n + 1, p, t, <<>>)
  <2>1. pending' = <<>> /\ buffer' = BufferAppend(<<>>, n + 1)
    BY <1>5 DEF RowFails
  <2>2. CASE table' = t
    <3>1. <<>> \in Seq(1 .. n) /\ Good(<<>>, t)
      BY EmptySeq, GoodEmpty
    <3>2. Good(BufferAppend(<<>>, n + 1), t)
      BY <3>1, GoodBufferAppend
    <3> QED
      BY <1>1, <2>1, <2>2, <3>2
  <2>3. CASE table' = t \o Append(p, n + 1)
    BY <1>1, <2>1, <2>3, GoodRedelivery
  <2> QED
    BY <1>5, <2>2, <2>3 DEF RowFails, FlushFails
<1> QED
  BY <1>2, <1>3, <1>4, <1>5 DEF SenderRow

(* A flush empties the Sender and stores its rows or none. *)
LEMMA FlushSenderGood ==
    ASSUME TypeOK, OneQueue, sender = "open", FlushSender
    PROVE  Good(<<>>, table') /\ pending' = <<>> /\ buffer = <<>>
BY GoodEmpty DEF FlushSender, OneQueue

(* The inductive invariant behind the order of the rows: HeldInOrder and   *)
(* FirstStoredInOrder speak of the concatenation of the two queues, and    *)
(* only because one of them is always empty is that the queue in use.      *)
OrderInv == /\ TypeOK
            /\ OneQueue
            /\ Good(buffer, table)
            /\ Good(pending, table)

(* Every call keeps both queues in good order. *)
LEMMA OrderStep ==
    ASSUME OrderInv, [Next]_vars
    PROVE  Good(buffer', table') /\ Good(pending', table')
<1>1. /\ issued \in Nat /\ buffer \in Seq(1 .. issued)
      /\ pending \in Seq(1 .. issued) /\ table \in Seq(1 .. issued)
      /\ 1 .. issued \in SUBSET Nat
      /\ Good(buffer, table) /\ Good(pending, table)
  BY ClientAssumption DEF OrderInv, TypeOK
<1>2. Good(<<>>, table')
  BY GoodEmpty
<1>3. CASE Write
  <2>1. issued' = issued + 1
    BY <1>3 DEF Write
  <2>2. CASE WriteOpen(issued')
    <3>1. SenderRow(issued + 1, pending, table, <<>>)
      BY <2>1, <2>2 DEF WriteOpen, OrderInv, OneQueue
    <3> QED
      BY <1>1, <3>1, SenderRowGood
  <2>3. CASE WriteUnreachable(issued')
    BY <1>1, <2>1, <2>3, GoodBufferAppend DEF WriteUnreachable
  <2>4. CASE WriteReplayed(issued')
    <3>1. table \o buffer \in Seq(1 .. issued) /\ <<>> \in Seq(1 .. issued)
      BY <1>1, ConcatProperties, EmptySeq
    <3>2. SenderRow(issued + 1, <<>>, table \o buffer, <<>>)
      BY <2>1, <2>4 DEF WriteReplayed
    <3>3. Good(<<>>, table \o buffer)
      BY GoodEmpty
    <3> QED
      BY <1>1, <3>1, <3>2, <3>3, SenderRowGood
  <2>5. CASE WriteReplayFails(issued')
    <3>1. PICK k \in 0 .. Len(buffer) : PrefixStored(buffer, k)
      BY <2>5 DEF WriteReplayFails
    <3>2. Len(buffer) \in Nat /\ k \in k .. Len(buffer)
      BY <1>1, LenProperties
    <3>3. Good(buffer, table')
      BY <1>1, <3>1, <3>2, GoodPrefixStored DEF PrefixStored
    <3>4. \A i \in 1 .. k : buffer[i] \in 1 .. issued
      BY <1>1, <3>2, ElementOfSeq
    <3>5. SubSeq(buffer, 1, k) \in Seq(1 .. issued)
      BY <3>4, SubSeqProperties
    <3>6. table' \in Seq(1 .. issued)
      BY <1>1, <3>1, <3>5, ConcatProperties DEF PrefixStored
    <3>7. buffer' = BufferAppend(buffer, issued + 1) /\ pending' = pending
      BY <2>1, <2>5 DEF WriteReplayFails, Requeue
    <3>8. pending = <<>>
      BY <2>5 DEF WriteReplayFails, OrderInv, OneQueue
    <3> QED
      BY <1>1, <1>2, <3>3, <3>6, <3>7, <3>8, GoodBufferAppend
  <2>6. CASE WriteReplayRaises(issued')
    <3>1. PICK n \in 0 .. Len(buffer), k \in 0 .. Len(buffer) :
             /\ k <= n /\ PrefixStored(buffer, k)
             /\ pending' = SubSeq(buffer, k + 1, n)
      BY <2>6 DEF WriteReplayRaises
    <3>2. n \in k .. Len(buffer)
      BY <1>1, <3>1, LenProperties
    <3>3. Good(pending', table')
      BY <1>1, <3>1, <3>2, GoodPrefixStored DEF PrefixStored
    <3> QED
      BY <1>2, <2>6, <3>3 DEF WriteReplayRaises
  <2> QED
    BY <1>3, <2>2, <2>3, <2>4, <2>5, <2>6 DEF Write
<1>4. CASE Flush
  <2>1. CASE sender = "none"
    BY <1>1, <1>4, <2>1 DEF Flush
  <2>2. CASE sender # "none"
    <3>1. sender = "open" /\ FlushSender /\ buffer' = buffer
      BY <1>4, <2>2 DEF Flush, OrderInv, TypeOK
    <3> QED
      BY <3>1, FlushSenderGood DEF OrderInv
  <2> QED
    BY <2>1, <2>2
<1>5. CASE Close
  BY <1>5, FlushSenderGood DEF Close, OrderInv
<1>6. CASE Restart
  BY <1>2, <1>6 DEF Restart
<1>7. CASE UNCHANGED vars
  BY <1>1, <1>7 DEF vars
<1> QED
  BY <1>3, <1>4, <1>5, <1>6, <1>7 DEF Next

(* OrderInv is an invariant of the client. *)
LEMMA OrderInvariant == Spec => []OrderInv
<1>1. Init => Good(buffer, table) /\ Good(pending, table)
  BY GoodEmpty DEF Init
<1>2. TypeOK /\ OneQueue /\ Good(buffer, table) /\ Good(pending, table) <=> OrderInv
  BY DEF OrderInv
<1>3. OrderInv /\ [Next]_vars => Good(buffer, table)' /\ Good(pending, table)'
  BY OrderStep
<1> QED
  BY <1>1, <1>2, <1>3, TypeCorrect, OneQueueInvariant, PTL DEF Spec

(* One of the two queues is empty: what is held is the other one. *)
LEMMA HeldIsOneQueue ==
    ASSUME OrderInv
    PROVE  Held = buffer \/ Held = pending
<1>1. buffer \in Seq(1 .. issued) /\ pending \in Seq(1 .. issued)
  BY DEF OrderInv, TypeOK
<1>2. buffer = <<>> \/ pending = <<>>
  BY DEF OrderInv, OneQueue, TypeOK
<1> QED
  BY <1>1, <1>2, ConcatEmptySeq DEF Held

(* The rows the client still holds are in the order they were written,     *)
(* whatever was refused, left unanswered, evicted or replayed before.      *)
THEOREM HeldInOrderInvariant == Spec => []HeldInOrder
<1>1. OrderInv => HeldInOrder
  BY HeldIsOneQueue DEF OrderInv, Good, Ordered, HeldInOrder
<1> QED
  BY <1>1, OrderInvariant, PTL

(* Rows reach the table for the first time in the order they were written. *)
THEOREM FirstStoredInOrderInvariant == Spec => []FirstStoredInOrder
<1>1. OrderInv => FirstStoredInOrder
  BY HeldIsOneQueue DEF OrderInv, Good, Fresh, FirstStoredInOrder, Range
<1> QED
  BY <1>1, OrderInvariant, PTL

------------------------------------------------------------------------------
(* Duplicates *)

(* A sequence ranges over one more row when it is appended. *)
LEMMA RangeAppend ==
    ASSUME NEW S, NEW q \in Seq(S), NEW r \in S
    PROVE  Range(Append(q, r)) = Range(q) \cup {r}
<1>1. <<r>> \in Seq(S)
  OBVIOUS
<1>2. Range(<<r>>) = {r}
  BY DEF Range
<1>3. Append(q, r) = q \o <<r>>
  BY AppendIsConcat
<1>4. Range(q \o <<r>>) = Range(q) \cup Range(<<r>>)
  BY <1>1, RangeConcatenation
<1> QED
  BY <1>2, <1>3, <1>4

(* sender.row() of a new row puts no stored row into the Sender. *)
LEMMA SenderRowNoDuplicate ==
    ASSUME NEW n \in Nat, NEW p \in Seq(1 .. n), NEW t \in Seq(1 .. n), NEW b,
           Range(p) \cap Range(t) = {}, SenderRow(n + 1, p, t, b)
    PROVE  Range(pending') \cap Range(table') = {}
<1>1. CASE pending' = p /\ table' = t
  BY <1>1
<1>2. CASE pending' = Append(p, n + 1) /\ table' = t
  <2>1. p \in Seq(1 .. n + 1)
    BY SeqMonotonic
  <2>2. Range(pending') = Range(p) \cup {n + 1}
    BY <1>2, <2>1, RangeAppend
  <2>3. n + 1 \notin Range(t)
    BY RangeOfSeq
  <2> QED
    BY <1>2, <2>2, <2>3
<1>3. CASE pending' = <<>>
  BY <1>3 DEF Range
<1> QED
  BY <1>1, <1>2, <1>3 DEF SenderRow, RowFails

(* Without a malformed row a replay cannot be abandoned half way, and the  *)
(* Sender never holds what the table has.                                  *)
LEMMA NoDuplicateStep ==
    TypeOK /\ OneQueue /\ OnlyReplayDuplicates /\ [Next]_vars => OnlyReplayDuplicates'
<1> SUFFICES ASSUME TypeOK, OneQueue, OnlyReplayDuplicates, [Next]_vars,
                    Malformed \cap (1 .. issued') = {}
             PROVE  Range(pending') \cap Range(table') = {}
  BY DEF OnlyReplayDuplicates
<1>1. /\ issued \in Nat /\ buffer \in Seq(1 .. issued)
      /\ pending \in Seq(1 .. issued) /\ table \in Seq(1 .. issued)
  BY ClientAssumption DEF TypeOK
<1>2. Range(<<>>) = {}
  BY DEF Range
<1>3. ASSUME issued' \in {issued, issued + 1} PROVE Range(pending) \cap Range(table) = {}
  BY <1>1, <1>3 DEF OnlyReplayDuplicates
<1>4. CASE Write
  <2>1. issued' = issued + 1 /\ Range(pending) \cap Range(table) = {}
    BY <1>3, <1>4 DEF Write
  <2>2. CASE WriteOpen(issued')
    BY <1>1, <2>1, <2>2, SenderRowNoDuplicate DEF WriteOpen
  <2>3. CASE WriteUnreachable(issued')
    BY <2>1, <2>3 DEF WriteUnreachable
  <2>4. CASE WriteReplayed(issued')
    <3>1. table \o buffer \in Seq(1 .. issued) /\ <<>> \in Seq(1 .. issued)
      BY <1>1, ConcatProperties, EmptySeq
    <3>2. SenderRow(issued + 1, <<>>, table \o buffer, <<>>)
      BY <2>1, <2>4 DEF WriteReplayed
    <3> QED
      BY <1>1, <1>2, <3>1, <3>2, SenderRowNoDuplicate
  <2>5. CASE WriteReplayFails(issued')
    BY <1>2, <2>5 DEF WriteReplayFails, OneQueue
  <2>6. CASE WriteReplayRaises(issued')
    <3>1. PICK n \in 0 .. Len(buffer) : EncodableRun(buffer, n) /\ n < Len(buffer)
      BY <2>6 DEF WriteReplayRaises
    <3>2. n + 1 \in 1 .. Len(buffer) /\ buffer[n + 1] \in Malformed
      BY <1>1, <3>1, LenProperties DEF EncodableRun
    <3>3. buffer[n + 1] \in 1 .. issued
      BY <1>1, <3>2, ElementOfSeq
    <3> QED
      BY <1>1, <2>1, <3>2, <3>3
  <2> QED
    BY <1>4, <2>2, <2>3, <2>4, <2>5, <2>6 DEF Write
<1>5. CASE Flush
  BY <1>2, <1>3, <1>5 DEF Flush, FlushSender
<1>6. CASE Close
  BY <1>2, <1>6 DEF Close, FlushSender
<1>7. CASE Restart
  BY <1>2, <1>7 DEF Restart
<1>8. CASE UNCHANGED vars
  BY <1>3, <1>8 DEF vars
<1> QED
  BY <1>4, <1>5, <1>6, <1>7, <1>8 DEF Next

(* Only a replay of `_buffer` stores a row twice: as long as every row can *)
(* be encoded, no row that waits in the Sender is in the table.            *)
THEOREM OnlyReplayDuplicatesInvariant == Spec => []OnlyReplayDuplicates
<1>1. Init => OnlyReplayDuplicates
  BY DEF Init, OnlyReplayDuplicates, Range
<1> QED
  BY <1>1, NoDuplicateStep, TypeCorrect, OneQueueInvariant, PTL DEF Spec

------------------------------------------------------------------------------
(* What becomes of a buffered row *)

(* The deque gives up no row but its oldest one, and that when it is full. *)
LEMMA BufferAppendKeeps ==
    ASSUME NEW S, NEW q \in Seq(S), NEW r \in S, Len(q) <= MaxBuffer, NEW x \in Range(q)
    PROVE  x \in Range(BufferAppend(q, r)) \/ (x = Head(q) /\ Len(q) = MaxBuffer)
<1>1. Len(q) \in Nat /\ Range(q) = {q[i] : i \in 1 .. Len(q)}
  BY LenProperties, RangeEquality
<1>2. CASE Len(q) >= MaxBuffer
  <2>1. q # <<>> /\ Len(q) = MaxBuffer
    BY <1>1, <1>2, ClientAssumption
  <2>2. /\ Tail(q) \in Seq(S) /\ Len(Tail(q)) = Len(q) - 1
        /\ \A i \in 1 .. Len(Tail(q)) : Tail(q)[i] = q[i + 1]
    BY <2>1, HeadTailProperties
  <2>3. Range(BufferAppend(q, r)) = Range(Tail(q)) \cup {r}
    <3>1. PICK u \in Seq(S) : u = Tail(q)
      BY <2>2
    <3>2. Range(Append(u, r)) = Range(u) \cup {r}
      BY RangeAppend
    <3> QED
      BY <1>2, <3>1, <3>2 DEF BufferAppend
  <2>4. PICK i \in 1 .. Len(q) : x = q[i]
    BY <1>1
  <2>5. CASE i = 1
    BY <2>1, <2>4, <2>5
  <2>6. CASE i # 1
    <3>1. i - 1 \in 1 .. Len(Tail(q)) /\ Tail(q)[i - 1] = x
      BY <1>1, <2>2, <2>4, <2>6
    <3>2. x \in Range(Tail(q))
      BY <2>2, <3>1, RangeEquality
    <3> QED
      BY <2>3, <3>2
  <2> QED
    BY <2>5, <2>6
<1>3. CASE ~(Len(q) >= MaxBuffer)
  BY <1>3, RangeAppend DEF BufferAppend
<1> QED
  BY <1>2, <1>3

(* sender.row() takes nothing out of the table. *)
LEMMA SenderRowStores ==
    ASSUME NEW S, NEW r \in S, NEW p \in Seq(S), NEW t \in Seq(S), NEW b, SenderRow(r, p, t, b)
    PROVE  Range(t) \subseteq Range(table')
<1>1. Append(p, r) \in Seq(S)
  BY AppendProperties
<1>2. table' = t \/ table' = t \o Append(p, r)
  BY DEF SenderRow, RowFails, Flushed, FlushFails
<1>3. Range(t \o Append(p, r)) = Range(t) \cup Range(Append(p, r))
  BY <1>1, RangeConcatenation
<1> QED
  BY <1>2, <1>3

(* What may become of a row of the deque in one step. *)
RowKept(r) == \/ r \in Range(Held)' \cup Range(table)'
              \/ r = Head(buffer) /\ Len(buffer) = MaxBuffer
              \/ Range(buffer) \cap Malformed # {}
              \/ restarts' # restarts

(* Each call keeps each row of the deque, or has an excuse. *)
LEMMA KeptStep ==
    ASSUME TypeOK, OneQueue, TypeOK', [Next]_vars, NEW x \in Range(buffer)
    PROVE  RowKept(x)
<1>1. /\ issued \in Nat /\ issued' \in Nat /\ buffer \in Seq(1 .. issued)
      /\ Len(buffer) <= MaxBuffer /\ table \in Seq(1 .. issued)
      /\ buffer' \in Seq(1 .. issued') /\ pending' \in Seq(1 .. issued')
  BY ClientAssumption DEF TypeOK
<1>2. Range(Held)' = Range(buffer') \cup Range(pending')
  BY <1>1, RangeConcatenation DEF Held
<1>3. CASE buffer' = buffer
  BY <1>2, <1>3 DEF RowKept
<1>4. CASE Write
  <2>1. /\ issued' = issued + 1 /\ issued' \in 1 .. issued'
        /\ 1 .. issued \subseteq 1 .. issued'
    BY <1>1, <1>4 DEF Write
  <2>2. buffer \in Seq(1 .. issued') /\ table \in Seq(1 .. issued') /\ <<>> \in Seq(1 .. issued')
    BY <1>1, <2>1, SeqMonotonic, EmptySeq
  <2>3. CASE WriteOpen(issued')
    <3>1. buffer = <<>> /\ Range(<<>>) = {}
      BY <2>3 DEF WriteOpen, OneQueue, Range
    <3> QED
      BY <3>1
  <2>4. CASE buffer' = BufferAppend(buffer, issued')
    BY <1>1, <1>2, <2>1, <2>2, <2>4, BufferAppendKeeps DEF RowKept
  <2>5. CASE WriteReplayed(issued')
    <3>1. table \o buffer \in Seq(1 .. issued') /\ Range(buffer) \subseteq Range(table \o buffer)
      BY <2>2, ConcatProperties, RangeConcatenation
    <3>2. SenderRow(issued', <<>>, table \o buffer, <<>>)
      BY <2>5 DEF WriteReplayed
    <3>3. x \in Range(table')
      BY <2>1, <2>2, <3>1, <3>2, SenderRowStores
    <3> QED
      BY <3>3 DEF RowKept
  <2>6. CASE WriteReplayRaises(issued')
    <3>1. PICK n \in 0 .. Len(buffer) : EncodableRun(buffer, n) /\ n < Len(buffer)
      BY <2>6 DEF WriteReplayRaises
    <3>2. n + 1 \in 1 .. Len(buffer) /\ buffer[n + 1] \in Malformed
      BY <1>1, <3>1, LenProperties DEF EncodableRun
    <3>3. buffer[n + 1] \in Range(buffer)
      BY <1>1, <3>2, RangeEquality
    <3> QED
      BY <3>2, <3>3 DEF RowKept
  <2> QED
    BY <1>4, <2>3, <2>4, <2>5, <2>6 DEF Write, WriteUnreachable, WriteReplayFails, Requeue
<1>5. CASE Flush
  BY <1>3, <1>5 DEF Flush
<1>6. CASE Close
  BY <1>3, <1>6 DEF Close
<1>7. CASE Restart
  <2>1. restarts' # restarts
    <3>1. restarts \in Nat /\ restarts' = restarts + 1
      BY <1>7, ClientAssumption DEF Restart, TypeOK
    <3> QED
      BY <3>1
  <2> QED
    BY <2>1, Zenon DEF RowKept
<1>8. CASE UNCHANGED vars
  BY <1>3, <1>8 DEF vars
<1> QED
  BY <1>4, <1>5, <1>6, <1>7, <1>8 DEF Next

(* A buffered row leaves the client for the table or the Sender; it is     *)
(* lost only as the oldest row of a full deque, behind a malformed row, or *)
(* with the process.                                                       *)
THEOREM BufferedRowsKeptAlways == Spec => BufferedRowsKept
<1>1. TypeOK /\ OneQueue /\ TypeOK' /\ [Next]_vars =>
        [\A r \in Range(buffer) :
            \/ r \in Range(Held)' \cup Range(table)'
            \/ r = Head(buffer) /\ Len(buffer) = MaxBuffer
            \/ Range(buffer) \cap Malformed # {}
            \/ restarts' # restarts]_vars
  BY KeptStep DEF RowKept
<1> QED
  BY <1>1, TypeCorrect, OneQueueInvariant, PTL DEF Spec, BufferedRowsKept

------------------------------------------------------------------------------
(***************************************************************************)
(* The refinement: what a call does to the two queues and the table is a   *)
(* step of the lossy at-least-once channel of RowChannel.                  *)
(***************************************************************************)
Keeps(s, q) == Channel!Subsequence(s, q)

(* All rows may be kept. *)
LEMMA KeepsAll == ASSUME NEW S, NEW q \in Seq(S) PROVE Keeps(q, q)
<1> DEFINE f == [i \in DOMAIN q |-> i]
<1>1. /\ f \in [DOMAIN q -> DOMAIN q]
      /\ \A i, j \in DOMAIN q : i < j => f[i] < f[j]
      /\ \A i \in DOMAIN q : q[i] = q[f[i]]
  OBVIOUS
<1> QED
  BY <1>1, Zenon DEF Keeps, Channel!Subsequence

(* None may be kept. *)
LEMMA KeepsNone == ASSUME NEW q PROVE Keeps(<<>>, q)
<1> DEFINE f == [i \in DOMAIN <<>> |-> i]
<1>1. DOMAIN <<>> = {}
  OBVIOUS
<1>2. /\ f \in [DOMAIN <<>> -> DOMAIN q]
      /\ \A i, j \in DOMAIN <<>> : i < j => f[i] < f[j]
      /\ \A i \in DOMAIN <<>> : <<>>[i] = q[f[i]]
  BY <1>1, Zenon
<1> QED
  BY <1>2, Zenon DEF Keeps, Channel!Subsequence

(* What keeps some of the kept rows keeps some of the rows. *)
LEMMA KeepsTransitive ==
    ASSUME NEW s, NEW q, NEW w, Keeps(s, q), Keeps(q, w)
    PROVE  Keeps(s, w)
<1>1. PICK f \in [DOMAIN s -> DOMAIN q] :
        /\ \A i, j \in DOMAIN s : i < j => f[i] < f[j]
        /\ \A i \in DOMAIN s : s[i] = q[f[i]]
  BY Zenon DEF Keeps, Channel!Subsequence
<1>2. PICK g \in [DOMAIN q -> DOMAIN w] :
        /\ \A i, j \in DOMAIN q : i < j => g[i] < g[j]
        /\ \A i \in DOMAIN q : q[i] = w[g[i]]
  BY Zenon DEF Keeps, Channel!Subsequence
<1> DEFINE h == [i \in DOMAIN s |-> g[f[i]]]
<1>3. \A i \in DOMAIN s : f[i] \in DOMAIN q /\ h[i] = g[f[i]]
  OBVIOUS
<1>4. h \in [DOMAIN s -> DOMAIN w]
  OBVIOUS
<1> HIDE DEF h
<1>5. /\ \A i, j \in DOMAIN s : i < j => h[i] < h[j]
      /\ \A i \in DOMAIN s : s[i] = w[h[i]]
  BY <1>1, <1>2, <1>3, Zenon
<1> QED
  BY <1>4, <1>5, Zenon DEF Keeps, Channel!Subsequence

(* The rows kept may be followed by the row that follows them all. *)
LEMMA KeepsAppend ==
    ASSUME NEW S, NEW s \in Seq(S), NEW q \in Seq(S), NEW x \in S, Keeps(s, q)
    PROVE  Keeps(Append(s, x), Append(q, x))
<1>1. PICK f \in [DOMAIN s -> DOMAIN q] :
        /\ \A i, j \in DOMAIN s : i < j => f[i] < f[j]
        /\ \A i \in DOMAIN s : s[i] = q[f[i]]
  BY Zenon DEF Keeps, Channel!Subsequence
<1>2. PICK a \in Seq(S) : /\ a = Append(s, x) /\ Len(a) = Len(s) + 1
                          /\ \A i \in 1 .. Len(s) : a[i] = s[i]
                          /\ a[Len(s) + 1] = x
  BY AppendProperties
<1>3. PICK b \in Seq(S) : /\ b = Append(q, x) /\ Len(b) = Len(q) + 1
                          /\ \A i \in 1 .. Len(q) : b[i] = q[i]
                          /\ b[Len(q) + 1] = x
  BY AppendProperties
<1>4. /\ Len(s) \in Nat /\ DOMAIN s = 1 .. Len(s) /\ DOMAIN a = 1 .. Len(a)
      /\ Len(q) \in Nat /\ DOMAIN q = 1 .. Len(q) /\ DOMAIN b = 1 .. Len(b)
  BY LenProperties
<1> DEFINE g == [i \in DOMAIN a |-> IF i = Len(s) + 1 THEN Len(q) + 1 ELSE f[i]]
<1>5. \A i \in DOMAIN a : \/ i \in DOMAIN s /\ g[i] = f[i] /\ f[i] \in 1 .. Len(q)
                          \/ i = Len(s) + 1 /\ g[i] = Len(q) + 1
  BY <1>2, <1>4
<1>6. g \in [DOMAIN a -> DOMAIN b]
  BY <1>3, <1>4, <1>5
<1> HIDE DEF g
<1>7. ASSUME NEW i \in DOMAIN a, NEW j \in DOMAIN a, i < j PROVE g[i] < g[j]
  <2>1. i \in DOMAIN s /\ g[i] = f[i] /\ f[i] \in 1 .. Len(q)
    BY <1>2, <1>4, <1>5, <1>7
  <2>2. CASE j \in DOMAIN s /\ g[j] = f[j]
    BY <1>1, <1>7, <2>1, <2>2
  <2>3. CASE g[j] = Len(q) + 1
    BY <1>4, <2>1, <2>3
  <2> QED
    BY <1>5, <2>2, <2>3
<1>8. ASSUME NEW i \in DOMAIN a PROVE a[i] = b[g[i]]
  <2>1. CASE i \in DOMAIN s /\ g[i] = f[i] /\ f[i] \in 1 .. Len(q)
    BY <1>1, <1>2, <1>3, <1>4, <2>1
  <2>2. CASE i = Len(s) + 1 /\ g[i] = Len(q) + 1
    BY <1>2, <1>3, <2>2
  <2> QED
    BY <1>5, <2>1, <2>2
<1>9. Keeps(a, b)
  BY <1>6, <1>7, <1>8, Zenon DEF Keeps, Channel!Subsequence
<1> QED
  BY <1>2, <1>3, <1>9

(* A stretch of the rows may be kept. *)
LEMMA KeepsStretch ==
    ASSUME NEW S, NEW q \in Seq(S), NEW k \in 0 .. Len(q), NEW n \in k .. Len(q)
    PROVE  Keeps(SubSeq(q, k + 1, n), q)
<1>1. Len(q) \in Nat /\ DOMAIN q = 1 .. Len(q) /\ \A i \in 1 .. Len(q) : q[i] \in S
  BY LenProperties, ElementOfSeq
<1> DEFINE u == SubSeq(q, k + 1, n)
<1>2. /\ u \in Seq(S) /\ Len(u) = n - k
      /\ \A i \in 1 .. (n - k) : u[i] = q[k + i]
  BY <1>1, SubSeqProperties
<1> HIDE DEF u
<1>3. DOMAIN u = 1 .. (n - k)
  BY <1>2, LenProperties
<1> DEFINE f == [i \in DOMAIN u |-> k + i]
<1>4. /\ f \in [DOMAIN u -> DOMAIN q]
      /\ \A i, j \in DOMAIN u : i < j => f[i] < f[j]
      /\ \A i \in DOMAIN u : u[i] = q[f[i]]
  BY <1>1, <1>2, <1>3
<1>5. Keeps(u, q)
  BY <1>4, Zenon DEF Keeps, Channel!Subsequence
<1> QED
  BY <1>5 DEF u

(* The newest row may be left out. *)
LEMMA KeepsFront ==
    ASSUME NEW S, NEW q \in Seq(S), NEW x \in S
    PROVE  Keeps(q, Append(q, x))
<1> DEFINE b == Append(q, x)
<1>1. /\ b \in Seq(S) /\ Len(b) = Len(q) + 1
      /\ \A i \in 1 .. Len(q) : b[i] = q[i]
  BY AppendProperties
<1> HIDE DEF b
<1>2. /\ Len(q) \in Nat /\ DOMAIN q = 1 .. Len(q) /\ DOMAIN b = 1 .. Len(b)
  BY LenProperties
<1> DEFINE f == [i \in DOMAIN q |-> i]
<1>3. /\ f \in [DOMAIN q -> DOMAIN b]
      /\ \A i, j \in DOMAIN q : i < j => f[i] < f[j]
      /\ \A i \in DOMAIN q : q[i] = b[f[i]]
  BY <1>1, <1>2
<1>4. Keeps(q, b)
  BY <1>3, Zenon DEF Keeps, Channel!Subsequence
<1> QED
  BY <1>4 DEF b

(* The oldest row may be left out. *)
LEMMA KeepsTail == ASSUME NEW S, NEW q \in Seq(S), q # <<>> PROVE Keeps(Tail(q), q)
<1>1. PICK u \in Seq(S) : /\ u = Tail(q) /\ Len(u) = Len(q) - 1
                          /\ \A i \in 1 .. Len(u) : u[i] = q[i + 1]
  BY HeadTailProperties
<1>2. /\ Len(q) \in Nat /\ DOMAIN q = 1 .. Len(q) /\ DOMAIN u = 1 .. Len(u)
  BY LenProperties
<1> DEFINE f == [i \in DOMAIN u |-> i + 1]
<1>3. /\ f \in [DOMAIN u -> DOMAIN q]
      /\ \A i, j \in DOMAIN u : i < j => f[i] < f[j]
      /\ \A i \in DOMAIN u : u[i] = q[f[i]]
  BY <1>1, <1>2
<1>4. Keeps(u, q)
  BY <1>3, Zenon DEF Keeps, Channel!Subsequence
<1> QED
  BY <1>1, <1>4

(* The deque keeps rows in their order when one more is appended. *)
LEMMA KeepsBufferAppend ==
    ASSUME NEW S, NEW q \in Seq(S), NEW r \in S
    PROVE  Keeps(BufferAppend(q, r), Append(q, r))
<1>1. CASE Len(q) >= MaxBuffer
  <2>1. q # <<>>
    BY <1>1, EmptySeq, ClientAssumption
  <2>2. Tail(q) \in Seq(S) /\ Keeps(Tail(q), q)
    BY <2>1, HeadTailProperties, KeepsTail
  <2> QED
    BY <1>1, <2>2, KeepsAppend DEF BufferAppend
<1>2. CASE ~(Len(q) >= MaxBuffer)
  <2>1. Append(q, r) \in Seq(S)
    BY AppendProperties
  <2> QED
    BY <1>2, <2>1, KeepsAll DEF BufferAppend
<1> QED
  BY <1>1, <1>2

(* The table gained the first rows of q, and nothing else. *)
Stored(q) == \E k \in 0 .. Len(q) : Range(table)' = Range(table) \cup {q[i] : i \in 1 .. k}

(* It may have gained none. *)
LEMMA StoredNone == ASSUME NEW S, NEW q \in Seq(S), table' = table PROVE Stored(q)
<1>1. Len(q) \in Nat /\ {q[i] : i \in 1 .. 0} = {}
  BY LenProperties
<1>2. Range(table)' = Range(table) \cup {q[i] : i \in 1 .. 0} /\ 0 \in 0 .. Len(q)
  BY <1>1
<1> QED
  BY <1>2, Zenon DEF Stored

(* It may have gained a prefix of the rows that follow it. *)
LEMMA StoredPrefix ==
    ASSUME NEW S, NEW q \in Seq(S), table \in Seq(S), NEW k \in 0 .. Len(q),
           table' = table \o SubSeq(q, 1, k)
    PROVE  Stored(q)
<1>1. Len(q) \in Nat /\ \A i \in 1 .. Len(q) : q[i] \in S
  BY LenProperties, ElementOfSeq
<1> DEFINE u == SubSeq(q, 1, k)
<1>2. u \in Seq(S) /\ Len(u) = k /\ \A i \in 1 .. k : u[i] = q[i]
  BY <1>1, SubSeqProperties
<1>3. table' = table \o u
  OBVIOUS
<1> HIDE DEF u
<1>4. Range(table') = Range(table) \cup Range(u)
  BY <1>2, <1>3, RangeConcatenation
<1>5. Range(u) = {u[i] : i \in 1 .. Len(u)}
  BY <1>2, RangeEquality
<1>6. Range(u) = {q[i] : i \in 1 .. k}
  BY <1>2, <1>5
<1> QED
  BY <1>4, <1>6 DEF Stored

(* It may have gained them all. *)
LEMMA StoredAll ==
    ASSUME NEW S, NEW q \in Seq(S), table \in Seq(S), table' = table \o q
    PROVE  Stored(q)
<1>1. Len(q) \in 0 .. Len(q) /\ SubSeq(q, 1, Len(q)) = q
  BY LenProperties, SubSeqFull
<1> QED
  BY <1>1, StoredPrefix

(* The first rows are the first rows when one more follows. *)
LEMMA StoredFront ==
    ASSUME NEW S, NEW q \in Seq(S), NEW r \in S, Stored(q)
    PROVE  Stored(Append(q, r))
<1> DEFINE a == Append(q, r)
<1>1. Len(a) = Len(q) + 1 /\ \A i \in 1 .. Len(q) : a[i] = q[i]
  BY AppendProperties
<1>2. PICK k \in 0 .. Len(q) : Range(table)' = Range(table) \cup {q[i] : i \in 1 .. k}
  BY DEF Stored
<1>3. Len(q) \in Nat
  BY LenProperties
<1> HIDE DEF a
<1>4. k \in 0 .. Len(a) /\ {q[i] : i \in 1 .. k} = {a[i] : i \in 1 .. k}
  BY <1>1, <1>3
<1>5. Stored(a)
  BY <1>2, <1>4 DEF Stored
<1> QED
  BY <1>5 DEF a

(* sender.row() keeps some of the rows that were waiting and the new one,  *)
(* in their order, and stores them all or none.                            *)
LEMMA SenderRowChannel ==
    ASSUME NEW S, NEW r \in S, NEW p \in Seq(S), NEW t \in Seq(S), SenderRow(r, p, t, <<>>)
    PROVE  /\ Keeps(Held', Append(p, r))
           /\ table' = t \/ table' = t \o Append(p, r)
<1>1. Append(p, r) \in Seq(S) /\ <<>> \in Seq(S)
  BY AppendProperties, EmptySeq
<1>2. table' = t \/ table' = t \o Append(p, r)
  BY DEF SenderRow, RowFails, Flushed, FlushFails
<1>3. CASE buffer' = <<>> /\ pending' = p
  <2>1. Held' = p
    BY <1>3, ConcatEmptySeq DEF Held
  <2> QED
    BY <1>2, <2>1, KeepsFront
<1>4. CASE buffer' = <<>> /\ pending' = Append(p, r)
  <2>1. Held' = Append(p, r)
    BY <1>1, <1>4, ConcatEmptySeq DEF Held
  <2> QED
    BY <1>1, <1>2, <2>1, KeepsAll
<1>5. CASE buffer' = <<>> /\ pending' = <<>>
  <2>1. Held' = <<>>
    BY <1>1, <1>5, ConcatEmptySeq DEF Held
  <2> QED
    BY <1>2, <2>1, KeepsNone
<1>6. CASE buffer' = BufferAppend(<<>>, r) /\ pending' = <<>>
  <2>1. MaxBuffer > 0 /\ Len(<<>>) = 0
    BY ClientAssumption
  <2>2. BufferAppend(<<>>, r) = Append(<<>>, r) /\ Append(<<>>, r) \in Seq(S)
    BY <1>1, <2>1, AppendProperties, ClientAssumption DEF BufferAppend
  <2>3. Held' = Append(<<>>, r)
    BY <1>6, <2>2, ConcatEmptySeq DEF Held
  <2>4. Keeps(Append(<<>>, r), Append(p, r))
    BY <1>1, KeepsNone, KeepsAppend
  <2> QED
    BY <1>2, <2>3, <2>4
<1> QED
  BY <1>3, <1>4, <1>5, <1>6 DEF SenderRow, RowFails

(* Keeping rows of q and storing its first rows is progress on q. *)
LEMMA ProgressOf == ASSUME NEW q, Stored(q), Keeps(Held', q) PROVE Channel!Progress(q)
BY Zenon DEF Stored, Keeps, Channel!Progress

(* write_row is a submission. *)
LEMMA WriteSubmits ==
    ASSUME TypeOK, OneQueue, TypeOK', Write
    PROVE  Channel!Submit
<1> DEFINE S == 1 .. issued'
           q == Append(Held, issued')
<1>1. /\ issued \in Nat /\ issued' = issued + 1 /\ issued' \in S
      /\ 1 .. issued \subseteq S
  BY ClientAssumption DEF TypeOK, Write
<1>2. /\ buffer \in Seq(S) /\ table \in Seq(S) /\ pending \in Seq(S) /\ <<>> \in Seq(S)
      /\ buffer' \in Seq(S) /\ pending' \in Seq(S)
  BY <1>1, SeqMonotonic, EmptySeq DEF TypeOK
<1> HIDE DEF S
<1>3. /\ sender = "open" => Held = pending
      /\ sender = "none" => Held = buffer
  BY <1>2, ConcatEmptySeq DEF Held, OneQueue
<1>4. SUFFICES Stored(q) /\ Keeps(Held', q)
  BY <1>1, ProgressOf DEF Channel!Submit
<1>5. CASE WriteOpen(issued')
  <2>1. SenderRow(issued', pending, table, <<>>) /\ q = Append(pending, issued')
    BY <1>3, <1>5 DEF WriteOpen, OneQueue
  <2>2. Append(pending, issued') \in Seq(S)
    BY <1>1, <1>2, AppendProperties
  <2> QED
    BY <1>1, <1>2, <2>1, <2>2, SenderRowChannel, StoredNone, StoredAll
<1>6. ASSUME sender = "none"
      PROVE  q = Append(buffer, issued') /\ q \in Seq(S) /\ pending = <<>>
  BY <1>1, <1>2, <1>3, <1>6, AppendProperties DEF OneQueue
<1>7. ASSUME sender = "none", buffer' = BufferAppend(buffer, issued'), pending' = pending
      PROVE  Keeps(Held', q)
  <2>1. Held' = buffer'
    BY <1>2, <1>6, <1>7, ConcatEmptySeq DEF Held
  <2> QED
    BY <1>1, <1>2, <1>6, <1>7, <2>1, KeepsBufferAppend
<1>8. ASSUME sender = "none", NEW k \in 0 .. Len(buffer), PrefixStored(buffer, k)
      PROVE  Stored(q)
  <2>1. Stored(buffer)
    BY <1>2, <1>8, StoredPrefix DEF PrefixStored
  <2> QED
    BY <1>1, <1>2, <1>6, <1>8, <2>1, StoredFront
<1>9. CASE WriteUnreachable(issued')
  BY <1>6, <1>7, <1>9, StoredNone DEF WriteUnreachable
<1>10. CASE WriteReplayed(issued')
  <2>1. SenderRow(issued', <<>>, table \o buffer, <<>>) /\ sender = "none"
    BY <1>10 DEF WriteReplayed
  <2>2. table \o buffer \in Seq(S)
    BY <1>2, ConcatProperties
  <2>3. /\ Keeps(Held', Append(<<>>, issued'))
        /\ \/ table' = table \o buffer
           \/ table' = (table \o buffer) \o Append(<<>>, issued')
    BY <1>1, <1>2, <2>1, <2>2, SenderRowChannel
  <2>4. Keeps(Append(<<>>, issued'), Append(buffer, issued'))
    BY <1>1, <1>2, KeepsNone, KeepsAppend
  <2>5. Keeps(Held', q)
    BY <1>6, <2>1, <2>3, <2>4, KeepsTransitive
  <2>6. CASE table' = table \o buffer
    <3>1. Stored(buffer)
      BY <1>2, <2>6, StoredAll
    <3> QED
      BY <1>1, <1>2, <1>6, <2>1, <2>5, <3>1, StoredFront
  <2>7. CASE table' = (table \o buffer) \o Append(<<>>, issued')
    <3>1. <<issued'>> \in Seq(S) /\ Append(<<>>, issued') = <<issued'>>
      BY <1>1
    <3>2. Append(buffer, issued') = buffer \o <<issued'>>
      BY <1>1, <1>2, AppendIsConcat
    <3>3. (table \o buffer) \o <<issued'>> = table \o (buffer \o <<issued'>>)
      BY <1>2, <3>1, ConcatAssociative
    <3>4. table' = table \o q
      BY <1>6, <2>1, <2>7, <3>1, <3>2, <3>3
    <3> QED
      BY <1>2, <1>6, <2>1, <2>5, <3>4, StoredAll
  <2> QED
    BY <2>3, <2>6, <2>7
<1>11. CASE WriteReplayFails(issued')
  BY <1>7, <1>8, <1>11 DEF WriteReplayFails, Requeue
<1>12. CASE WriteReplayRaises(issued')
  <2>1. PICK n \in 0 .. Len(buffer), k \in 0 .. Len(buffer) :
           /\ k <= n /\ PrefixStored(buffer, k)
           /\ pending' = SubSeq(buffer, k + 1, n)
    BY <1>12 DEF WriteReplayRaises
  <2>2. n \in k .. Len(buffer)
    BY <1>2, <2>1, LenProperties
  <2>3. Held' = pending'
    BY <1>2, <1>12, ConcatEmptySeq DEF Held, WriteReplayRaises
  <2>4. Keeps(Held', buffer)
    BY <1>2, <2>1, <2>2, <2>3, KeepsStretch
  <2>5. Keeps(buffer, Append(buffer, issued'))
    BY <1>1, <1>2, KeepsFront
  <2>6. Keeps(Held', q) /\ Stored(q)
    BY <1>6, <1>8, <1>12, <2>1, <2>4, <2>5, KeepsTransitive DEF WriteReplayRaises
  <2> QED
    BY <2>6
<1> QED
  BY <1>5, <1>9, <1>10, <1>11, <1>12 DEF Write

(* What flush() and close() make of the Sender is service. *)
LEMMA FlushServes ==
    ASSUME TypeOK, OneQueue, sender = "open", FlushSender, UNCHANGED <<buffer, issued>>
    PROVE  Channel!Service
<1>1. pending \in Seq(1 .. issued) /\ table \in Seq(1 .. issued) /\ <<>> \in Seq(1 .. issued)
  BY EmptySeq DEF TypeOK
<1>2. Held = pending /\ Held' = <<>>
  BY <1>1, ConcatEmptySeq DEF Held, OneQueue, FlushSender
<1>3. Keeps(Held', Held)
  BY <1>2, KeepsNone
<1>4. Stored(Held)
  BY <1>1, <1>2, StoredNone, StoredAll DEF FlushSender, Flushed, FlushFails
<1> QED
  BY <1>3, <1>4, ProgressOf DEF Channel!Service

(* Every step of the client is a step of the channel or leaves it alone. *)
LEMMA ChannelStep ==
    ASSUME TypeOK, OneQueue, TypeOK', [Next]_vars
    PROVE  [Channel!Next]_(Channel!vars)
<1>1. CASE Write
  BY <1>1, WriteSubmits DEF Channel!Next
<1>2. CASE Flush
  <2>1. CASE sender = "none"
    BY <1>2, <2>1 DEF Flush, Held, Channel!vars
  <2>2. CASE sender # "none"
    BY <1>2, <2>2, FlushServes DEF Flush, TypeOK, Channel!Next
  <2> QED
    BY <2>1, <2>2
<1>3. CASE Close
  BY <1>3, FlushServes DEF Close, Channel!Next
<1>4. CASE Restart
  <2>1. buffer \in Seq(1 .. issued) /\ pending \in Seq(1 .. issued) /\ <<>> \in Seq(1 .. issued)
    BY EmptySeq DEF TypeOK
  <2>2. Held \in Seq(1 .. issued)
    BY <2>1, ConcatProperties DEF Held
  <2>3. Held' = <<>> /\ table' = table /\ issued' = issued
    BY <1>4, <2>1, ConcatEmptySeq DEF Restart, Held
  <2>4. Keeps(Held', Held) /\ Stored(Held)
    BY <2>2, <2>3, KeepsNone, StoredNone
  <2> QED
    BY <2>3, <2>4, ProgressOf DEF Channel!Service, Channel!Next
<1>5. CASE UNCHANGED vars
  BY <1>5 DEF vars, Held, Channel!vars
<1> QED
  BY <1>1, <1>2, <1>3, <1>4, <1>5 DEF Next

(* The client implements the channel its callers see: whatever a call, a   *)
(* failure or a restart does, rows leave the queue into the table from the *)
(* old end, rows given up do not come back, and none is overtaken.         *)
THEOREM ClientIsRowChannel == Spec => IsRowChannel
<1>1. Init => Channel!Init
  <2>1. <<>> \o <<>> = <<>> /\ Range(<<>>) = {}
    BY DEF Range
  <2> QED
    BY <2>1 DEF Init, Held, Channel!Init
<1>2. TypeOK /\ OneQueue /\ TypeOK' /\ [Next]_vars => [Channel!Next]_(Channel!vars)
  BY ChannelStep
<1> QED
  BY <1>1, <1>2, TypeCorrect, OneQueueInvariant, PTL DEF Spec, IsRowChannel, Channel!Spec

==============================================================================
