---------------------------- MODULE QuestDBClient ----------------------------
(***************************************************************************)
(* src/utils/db.py: the one client through which every collector writes.   *)
(* A row goes through at most three places: the client's own `_buffer` (a  *)
(* deque with a maximal length, used while there is no sender), the        *)
(* internal buffer of the questdb Sender (`pending`), and the table.       *)
(*                                                                         *)
(* The client is synchronous code on one event loop, so each call is one   *)
(* step; what is open inside a call is what the library and the server do. *)
(* The Sender is external.  As the code uses it: establish() may raise;    *)
(* row() raises TypeError on a value it cannot encode, otherwise adds the  *)
(* row and may auto-flush; a flush is one request ("each flush is atomic", *)
(* db.py:180) that stores the whole batch, or raises IngressError, and in  *)
(* either case leaves the Sender's buffer empty; close() flushes, ignoring *)
(* errors.  An error does not say whether the request took effect.         *)
(*                                                                         *)
(* Rows are numbered in the order write_row is called.                     *)
(***************************************************************************)
EXTENDS Naturals, Sequences, Functions

CONSTANTS MaxBuffer,    \* max_buffer of the client (1000 in production)
          Malformed,    \* rows that Sender.row() cannot encode
          Rejected,     \* rows that make the server refuse their batch
          MaxRows,      \* bound: calls of write_row
          MaxStored,    \* bound: rows in the table when an unanswered or
                        \*        partial flush may still add to it
          MaxRestarts   \* bound: restarts of the process

ASSUME ClientAssumption ==
    /\ MaxBuffer \in Nat \ {0}
    /\ MaxRows \in Nat /\ MaxStored \in Nat /\ MaxRestarts \in Nat
    /\ Malformed \subseteq Nat /\ Rejected \subseteq Nat

VARIABLES buffer,    \* self._buffer, oldest row first
          sender,    \* self._sender: "none" or "open"
          pending,   \* rows in the Sender's internal buffer
          table,     \* rows as the server stored them, duplicates included
          issued,    \* number of write_row calls so far
          restarts

vars == <<buffer, sender, pending, table, issued, restarts>>

Init == /\ buffer = <<>> /\ sender = "none" /\ pending = <<>>
        /\ table = <<>> /\ issued = 0 /\ restarts = 0

------------------------------------------------------------------------------
(* The deque *)

(* Mutated form: the test for a full buffer is off by one. *)
BufferAppendLate(q, r) == IF Len(q) > MaxBuffer THEN Append(Tail(q), r)
                                                ELSE Append(q, r)

(* deque(maxlen).append: a full buffer drops its oldest row. *)
BufferAppend(q, r) == IF Len(q) >= MaxBuffer THEN Append(Tail(q), r)
                                             ELSE Append(q, r)

(* Mutated forms: reversed() forgotten; the rows are not pushed back. *)
RequeueReversed(queued) == [i \in 1 .. Len(queued) |-> queued[Len(queued) + 1 - i]]
RequeueNothing(queued)  == <<>>

(* buffer.clear() then extendleft(reversed(queued)): the same rows again. *)
Requeue(queued) == queued

------------------------------------------------------------------------------
(* The Sender and the server *)

Storable(batch) == Range(batch) \cap Rejected = {}

(* A flush of batch that succeeds. *)
Flushed(batch, t) == Storable(batch) /\ table' = t \o batch

(* A flush of batch that raises IngressError: the request was refused, or  *)
(* it was served and the answer never came.                                *)
FlushFails(batch, t) ==
    \/ table' = t
    \/ Storable(batch) /\ Len(t) < MaxStored /\ table' = t \o batch

(* The first n rows of q can be encoded and the next one cannot. *)
EncodableRun(q, n) == /\ n \in 0 .. Len(q)
                      /\ \A i \in 1 .. n : q[i] \notin Malformed
                      /\ n < Len(q) => q[n + 1] \in Malformed

(* Auto-flushes during a replay of q have stored the first k rows. *)
PrefixStored(q, k) == /\ Storable(SubSeq(q, 1, k))
                      /\ k > 0 => Len(table) < MaxStored
                      /\ table' = table \o SubSeq(q, 1, k)

------------------------------------------------------------------------------
(* write_row *)

(* Mutated form: the sender is kept after a failed row. *)
RowFailsKeepsSender(r, p, t, b) ==
    /\ FlushFails(Append(p, r), t)
    /\ sender' = "open" /\ pending' = <<>> /\ buffer' = BufferAppend(b, r)

(* sender.row() raised IngressError from its auto-flush: the sender is     *)
(* dropped and this row, not those pending with it, goes to the buffer.    *)
RowFails(r, p, t, b) ==
    /\ FlushFails(Append(p, r), t)
    /\ sender' = "none" /\ pending' = <<>> /\ buffer' = BufferAppend(b, r)

(* sender.row() on an open sender whose internal buffer is p. *)
SenderRow(r, p, t, b) ==
    \/ /\ r \in Malformed                \* TypeError: escapes to the caller
       /\ sender' = "open" /\ pending' = p /\ table' = t /\ buffer' = b
    \/ /\ r \notin Malformed             \* no auto-flush threshold reached
       /\ sender' = "open" /\ pending' = Append(p, r) /\ table' = t /\ buffer' = b
    \/ /\ r \notin Malformed             \* auto-flush
       /\ Flushed(Append(p, r), t)
       /\ sender' = "open" /\ pending' = <<>> /\ buffer' = b
    \/ r \notin Malformed /\ RowFails(r, p, t, b)

(* There is a sender: the row goes to it. *)
WriteOpen(r) == sender = "open" /\ SenderRow(r, pending, table, buffer)

(* establish() raises: the row is buffered. *)
WriteUnreachable(r) ==
    /\ sender = "none"
    /\ buffer' = BufferAppend(buffer, r)
    /\ UNCHANGED <<sender, pending, table>>

(* Mutated form: the new row is flushed first, then the replay fails. *)
WriteThenReplay(r) ==
    /\ sender = "none" /\ r \notin Malformed
    /\ Flushed(<<r>>, table)
    /\ UNCHANGED <<sender, pending, buffer>>

(* A new sender, the buffer is replayed through it, then the row follows. *)
WriteReplayed(r) ==
    /\ sender = "none"
    /\ EncodableRun(buffer, Len(buffer)) /\ Storable(buffer)
    /\ SenderRow(r, <<>>, table \o buffer, <<>>)

(* The replay raises IngressError: the sender is dropped, every replayed   *)
(* row is pushed back, those an auto-flush had already stored included,    *)
(* and the row is buffered behind them.                                    *)
WriteReplayFails(r) ==
    /\ sender = "none"
    /\ \E n \in 1 .. Len(buffer), k \in 0 .. Len(buffer) :
          EncodableRun(buffer, n) /\ k <= n /\ PrefixStored(buffer, k)
    /\ buffer' = BufferAppend(Requeue(buffer), r)
    /\ UNCHANGED <<sender, pending>>

(* The replay meets a row that cannot be encoded: the exception leaves     *)
(* _flush_buffer after buffer.clear(), with the sender open and the rows   *)
(* before the malformed one in it; the rows after it and r are gone.       *)
WriteReplayRaises(r) ==
    /\ sender = "none"
    /\ \E n \in 0 .. Len(buffer), k \in 0 .. Len(buffer) :
          /\ EncodableRun(buffer, n) /\ n < Len(buffer) /\ k <= n
          /\ PrefixStored(buffer, k)
          /\ pending' = SubSeq(buffer, k + 1, n)
    /\ sender' = "open" /\ buffer' = <<>>

Write ==
    /\ issued < MaxRows
    /\ issued' = issued + 1
    /\ \/ WriteOpen(issued')
       \/ WriteUnreachable(issued')
       \/ WriteReplayed(issued')
       \/ WriteReplayFails(issued')
       \/ WriteReplayRaises(issued')
    /\ UNCHANGED restarts

------------------------------------------------------------------------------
(* flush, close and the process *)

(* Mutated form: a failed flush leaves its rows in the Sender. *)
FlushSenderKeepsFailed ==
    \/ pending' = <<>> /\ Flushed(pending, table)
    \/ pending' = pending /\ FlushFails(pending, table)

(* The Sender's buffer is empty after a flush, a failed one included. *)
FlushSender == /\ pending' = <<>>
               /\ Flushed(pending, table) \/ FlushFails(pending, table)

(* flush(): without a sender nothing happens, the buffer is not replayed. *)
Flush == /\ IF sender = "none" THEN UNCHANGED <<pending, table>> ELSE FlushSender
         /\ UNCHANGED <<buffer, sender, issued, restarts>>

(* close(): a last flush, errors ignored; the buffer stays where it is. *)
Close == /\ sender = "open"
         /\ FlushSender
         /\ sender' = "none"
         /\ UNCHANGED <<buffer, issued, restarts>>

(* The process ends, orderly or not, and a new one creates a new client. *)
Restart == /\ restarts < MaxRestarts
           /\ restarts' = restarts + 1
           /\ buffer' = <<>> /\ sender' = "none" /\ pending' = <<>>
           /\ UNCHANGED <<table, issued>>

Next == Write \/ Flush \/ Close \/ Restart

Spec == Init /\ [][Next]_vars

------------------------------------------------------------------------------
(* Properties *)

(* Rows the client still answers for, oldest first. *)
Held == buffer \o pending

(* Types; the deque never outgrows max_buffer. *)
TypeOK ==
    /\ buffer \in Seq(1 .. issued) /\ Len(buffer) <= MaxBuffer
    /\ sender \in {"none", "open"}
    /\ pending \in Seq(1 .. issued)
    /\ table \in Seq(1 .. issued)
    /\ issued \in 0 .. MaxRows
    /\ restarts \in 0 .. MaxRestarts

(* Only one of the two queues is ever in use: rows wait in `_buffer` only  *)
(* while there is no sender, and in the Sender only while there is one.    *)
(* What replays the buffer (a new sender) relies on it.                    *)
OneQueue == /\ sender = "open" => buffer = <<>>
            /\ sender = "none" => pending = <<>>

(* The rows still held are in the order they were written, across failed   *)
(* replays, evictions and reconnections: "original FIFO order".            *)
HeldInOrder == \A i, j \in DOMAIN Held : i < j => Held[i] < Held[j]

(* A row that has not reached the table is newer than every row that has:  *)
(* the table grows in order, no matter which flushes failed in between.    *)
FirstStoredInOrder ==
    \A r \in Range(Held) \ Range(table) : \A s \in Range(table) : s < r

(* A row is stored a second time only by a replay of `_buffer`: the rows   *)
(* waiting in the Sender are not in the table yet.  (Only a malformed row   *)
(* can abort a replay and leave stored rows in the Sender.)                *)
OnlyReplayDuplicates ==
    Malformed \cap (1 .. issued) = {} => Range(pending) \cap Range(table) = {}

(* A buffered row leaves the client only for the table or for the Sender,  *)
(* unless it is the oldest of a full buffer, a malformed row is in the     *)
(* buffer, or the process ends.                                            *)
BufferedRowsKept ==
    [][\A r \in Range(buffer) :
          \/ r \in Range(Held)' \cup Range(table)'
          \/ r = Head(buffer) /\ Len(buffer) = MaxBuffer
          \/ Range(buffer) \cap Malformed # {}
          \/ restarts' # restarts]_vars

(* The client implements the channel its callers see. *)
Channel == INSTANCE RowChannel WITH queue <- Held, delivered <- Range(table)
IsRowChannel == Channel!Spec

------------------------------------------------------------------------------
(* What the comments of db.py promise and the code does not keep *)

(* "rows are buffered in memory (FIFO, max 1000) and flushed when the      *)
(* connection is restored" (db.py:6-7): while the buffer never filled and  *)
(* the process runs, no row that was written is lost.                      *)
NoRowLost ==
    issued <= MaxBuffer /\ restarts = 0 =>
        1 .. issued \subseteq Range(Held) \cup Range(table)

==============================================================================
