----------------------------- MODULE FifoQueues -----------------------------
(***************************************************************************)
(* What the server adaptor's per-object request queues promise, with       *)
(* threads, locks, batches and time stamps left out: every queue is a FIFO *)
(* from the messengers to the cache.  An op goes in once, at the tail, and *)
(* comes out at the head; nothing is lost, doubled or overtaken.           *)
(***************************************************************************)
EXTENDS Sequences, Naturals

CONSTANTS Ops, Queues

VARIABLES
  waiting,  \* waiting[q]: the ops accepted by queue q and not yet taken
  taken     \* taken[q]: the ops taken from q, in order

fvars == <<waiting, taken>>

FifoInit == /\ waiting = [q \in Queues |-> <<>>]
            /\ taken = [q \in Queues |-> <<>>]

\* An op enters a queue at most once, whichever queue that is.
Known(op) == \E q \in Queues : \E i \in DOMAIN (taken[q] \o waiting[q]) :
               (taken[q] \o waiting[q])[i] = op

Put(q, op) == /\ ~Known(op)
              /\ waiting' = [waiting EXCEPT ![q] = Append(@, op)]
              /\ UNCHANGED taken

Take(q) == /\ waiting[q] # <<>>
           /\ taken' = [taken EXCEPT ![q] = Append(@, Head(waiting[q]))]
           /\ waiting' = [waiting EXCEPT ![q] = Tail(@)]

FifoNext == \E q \in Queues : Take(q) \/ \E op \in Ops : Put(q, op)

FifoSpec == FifoInit /\ [][FifoNext]_fvars
=============================================================================
