------------------------------ MODULE NxQueue ------------------------------
(***************************************************************************)
(* nx_queue (src/include/nxweb/nx_queue.h): a ring of Size slots with head *)
(* and tail indices that holds at most Size-1 items.  The header claims it *)
(* is safe without a mutex on a side that has a single thread.  A push is  *)
(* split at its memory barriers into: check not full and copy the item     *)
(* into slot tail; then publish tail.  A pop is: check not empty and copy  *)
(* slot head out; then publish head.  A side with several threads may be   *)
(* serialised by a mutex held from the check to the publish, as the job    *)
(* queue's job_queue_mux does in nxweb.c.                                  *)
(***************************************************************************)
EXTENDS Naturals, Sequences

CONSTANTS
    Size,            \* queue_max_size
    Items,           \* values pushed (model values)
    Producers, Consumers,
    LockProducers,   \* producers hold a mutex from check to publish
    LockConsumers,   \* consumers hold a mutex from check to publish
    NoItem, NoThread

ASSUME Size > 2                                 \* assert(queue_max_size>2)

VARIABLES
    head, tail, slots,   \* struct nx_queue
    ppc, cpc,            \* "idle" or "publish" per producer / consumer
    local,               \* item a consumer has copied out, not yet published
    plock, clock,        \* holders of the producer / consumer mutexes
    res, out             \* last push result per producer, last pop per consumer

vars == <<head, tail, slots, ppc, cpc, local, plock, clock, res, out>>

Slots == 0..(Size - 1)

\* nx_queue_is_empty, nx_queue_is_full, nx_queue_length
IsEmpty == head = tail
IsFull_offByOne == head = (tail + 2) % Size       \* mutant
IsFull == head = (tail + 1) % Size
Length == IF tail - head >= 0 THEN tail - head ELSE tail - head + Size

\* nx_queue_init (the jobs array of a static nxweb_net_thread is zeroed)
Init ==
    /\ head = 0 /\ tail = 0
    /\ slots = [i \in Slots |-> NoItem]
    /\ ppc = [p \in Producers |-> "idle"] /\ cpc = [c \in Consumers |-> "idle"]
    /\ local = [c \in Consumers |-> NoItem]
    /\ plock = NoThread /\ clock = NoThread
    /\ res = [p \in Producers |-> "none"] /\ out = [c \in Consumers |-> "none"]

\* nx_queue_push up to the second barrier: returns -1 if full, else copies
\* the item into slot tail.
PushCopy(p, v) ==
    /\ ppc[p] = "idle" /\ plock = NoThread
    /\ \/ /\ IsFull
          /\ res' = [res EXCEPT ![p] = "full"]
          /\ UNCHANGED <<slots, ppc, plock>>
       \/ /\ ~IsFull
          /\ slots' = [slots EXCEPT ![tail] = v]
          /\ ppc' = [ppc EXCEPT ![p] = "publish"]
          /\ plock' = IF LockProducers THEN p ELSE NoThread
          /\ UNCHANGED res
    /\ UNCHANGED <<head, tail, cpc, local, clock, out>>

\* q->tail=(q->tail+1)%q->size; return 0
PushPublish(p) ==
    /\ ppc[p] = "publish"
    /\ tail' = (tail + 1) % Size
    /\ res' = [res EXCEPT ![p] = "ok"]
    /\ ppc' = [ppc EXCEPT ![p] = "idle"]
    /\ plock' = NoThread
    /\ UNCHANGED <<head, slots, cpc, local, clock, out>>

\* nx_queue_pop up to the second barrier: returns -1 if empty, else copies
\* slot head out.
PopCopy(c) ==
    /\ cpc[c] = "idle" /\ clock = NoThread
    /\ \/ /\ IsEmpty
          /\ out' = [out EXCEPT ![c] = "empty"]
          /\ UNCHANGED <<cpc, local, clock>>
       \/ /\ ~IsEmpty
          /\ local' = [local EXCEPT ![c] = slots[head]]
          /\ cpc' = [cpc EXCEPT ![c] = "publish"]
          /\ clock' = IF LockConsumers THEN c ELSE NoThread
          /\ UNCHANGED out
    /\ UNCHANGED <<head, tail, slots, ppc, plock, res>>

PopPublish_noWrap(c) ==                           \* mutant: no modulo
    /\ cpc[c] = "publish"
    /\ head' = head + 1
    /\ out' = [out EXCEPT ![c] = local[c]]
    /\ cpc' = [cpc EXCEPT ![c] = "idle"]
    /\ local' = [local EXCEPT ![c] = NoItem]
    /\ clock' = NoThread
    /\ UNCHANGED <<tail, slots, ppc, plock, res>>

\* q->head=(q->head+1)%q->size; return 0
PopPublish(c) ==
    /\ cpc[c] = "publish"
    /\ head' = (head + 1) % Size
    /\ out' = [out EXCEPT ![c] = local[c]]
    /\ cpc' = [cpc EXCEPT ![c] = "idle"]
    /\ local' = [local EXCEPT ![c] = NoItem]
    /\ clock' = NoThread
    /\ UNCHANGED <<tail, slots, ppc, plock, res>>

Next ==
    \/ \E p \in Producers : PushPublish(p) \/ \E v \in Items : PushCopy(p, v)
    \/ \E c \in Consumers : PopCopy(c) \/ PopPublish(c)

Spec == Init /\ [][Next]_vars

-----------------------------------------------------------------------------

TypeOK ==
    /\ head \in Slots /\ tail \in Slots
    /\ slots \in [Slots -> Items \cup {NoItem}]
    /\ ppc \in [Producers -> {"idle", "publish"}]
    /\ cpc \in [Consumers -> {"idle", "publish"}]
    /\ local \in [Consumers -> Items \cup {NoItem}]
    /\ res \in [Producers -> {"none", "ok", "full"}]
    /\ out \in [Consumers -> Items \cup {"none", "empty"}]

\* The published items, oldest first.
Contents == [i \in 1..Length |-> slots[(head + i - 1) % Size]]

Fifo == INSTANCE BoundedFifo WITH Cap <- Size - 1, buf <- Contents

\* The ring refines a bounded FIFO of capacity Size-1: a push fails exactly
\* when Size-1 items are queued, a pop fails exactly when none are, and
\* every pop returns the oldest item, with the allowed threads interleaving
\* between each operation's copy and its publish.
FifoRefinement == Fifo!Spec
=============================================================================
