----------------------------- MODULE RowChannel -----------------------------
(***************************************************************************)
(* What a caller of QuestDBClient.write_row may rely on, whatever happens  *)
(* to the database: rows are handed over one at a time and reach the table *)
(* in the order they were handed over.  The channel is lossy (a row may be *)
(* given up) and at-least-once (a delivered row may still be queued and    *)
(* be delivered again), but it never invents a row, never brings back one  *)
(* it gave up, and never lets an older row overtake a newer one.           *)
(***************************************************************************)
EXTENDS Naturals, Sequences, Functions

VARIABLES queue,      \* rows taken over and not yet given up, oldest first
          delivered,  \* rows the table holds
          issued      \* number of rows taken over; the rows are 1..issued

vars == <<queue, delivered, issued>>

(* s keeps some of the elements of q, in the order q has them. *)
Subsequence(s, q) ==
    \E f \in [DOMAIN s -> DOMAIN q] :
        /\ \A i, j \in DOMAIN s : i < j => f[i] < f[j]
        /\ \A i \in DOMAIN s : s[i] = q[f[i]]

(* Some of the oldest rows of q are delivered; some rows of q stay queued. *)
Progress(q) ==
    /\ \E k \in 0 .. Len(q) : delivered' = delivered \cup {q[i] : i \in 1 .. k}
    /\ Subsequence(queue', q)

Init == queue = <<>> /\ delivered = {} /\ issued = 0

Submit  == issued' = issued + 1 /\ Progress(Append(queue, issued'))
Service == issued' = issued     /\ Progress(queue)

Next == Submit \/ Service

Spec == Init /\ [][Next]_vars

=============================================================================
