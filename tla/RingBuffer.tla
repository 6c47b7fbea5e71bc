----------------------------- MODULE RingBuffer -----------------------------
(***************************************************************************)
(* oms::RingBuffer<T> (include/ring_buffer.h), step by step.               *)
(*                                                                         *)
(* head is written by push, tail by pop; each call is split into the       *)
(* atomic accesses it makes, so that a producer and the consumer (or two   *)
(* producers, when callers break the single-producer rule) interleave      *)
(* between them.  Loads and stores are sequentially consistent here: the   *)
(* acquire/release pairs of the code order the slot access with the index  *)
(* store, which is all this interleaving model relies on.                  *)
(*                                                                         *)
(* The ring is built with capacity NextPowerOfTwo(RequestedSize), computed *)
(* as the code does on a size_t of Width bits.                             *)
(***************************************************************************)
EXTENDS Integers, Sequences, FiniteSets, Bitwise

CONSTANTS
  RequestedSize,  \* the constructor's capacity argument
  Width,          \* bits of size_t (64 in the build; small here)
  Producers,      \* threads calling push
  Items,          \* distinct values pushed, each at most once
  NULL            \* content of a slot never written

ASSUME RequestedSize \in Nat /\ Width \in Nat \ {0}
ASSUME NULL \notin Items

Word == 2^Width

\* next_power_of_two (ring_buffer.h:29-39): n--, smear the highest set bit
\* rightwards with shifts 1, 2, 4, ... below Width, n++, all modulo 2^Width.
RECURSIVE Smear(_, _)
Smear(n, s) == IF s >= Width THEN n ELSE Smear(n | shiftR(n, s), 2 * s)

\* Mutant: the initial n-- dropped, so an exact power of two is doubled.
NextPowerOfTwoNoDecrement(n) == (Smear(n % Word, 1) + 1) % Word

NextPowerOfTwo(n) == (Smear((n - 1) % Word, 1) + 1) % Word

Capacity == NextPowerOfTwo(RequestedSize)
Mask == (Capacity - 1) % Word
Slots == 0 .. Capacity - 1

VARIABLES
  head,      \* producer_.head
  tail,      \* consumer_.tail
  buffer,    \* buffer_[0 .. capacity_-1]
  ppc,       \* where each producer is inside push
  ph,        \* current_head loaded by each producer
  pitem,     \* the item each producer is pushing
  cpc,       \* where the consumer is inside pop
  ct,        \* current_tail loaded by the consumer
  pending,   \* items not pushed yet
  accepted,  \* items whose push returned true, in return order
  rejected,  \* items whose push returned false
  popped     \* items returned by pop, in order

vars == <<head, tail, buffer, ppc, ph, pitem, cpc, ct, pending,
          accepted, rejected, popped>>

Init ==
  /\ head = 0
  /\ tail = 0
  /\ buffer = [i \in Slots |-> NULL]
  /\ ppc = [p \in Producers |-> "idle"]
  /\ ph = [p \in Producers |-> 0]
  /\ pitem = [p \in Producers |-> NULL]
  /\ cpc = "idle"
  /\ ct = 0
  /\ pending = Items
  /\ accepted = << >>
  /\ rejected = {}
  /\ popped = << >>

-----------------------------------------------------------------------------
(* push (ring_buffer.h:48-59) *)

\* const auto current_head = producer_.head.load(relaxed)
PushLoadHead(p) ==
  /\ ppc[p] = "idle"
  /\ \E x \in pending :
       /\ pending' = pending \ {x}
       /\ pitem' = [pitem EXCEPT ![p] = x]
  /\ ph' = [ph EXCEPT ![p] = head]
  /\ ppc' = [ppc EXCEPT ![p] = "check"]
  /\ UNCHANGED <<head, tail, buffer, cpc, ct, accepted, rejected, popped>>

\* Mutant: the full test dropped, so head may run onto tail.
PushCheckFullNoGuard(p) ==
  /\ ppc[p] = "check"
  /\ ppc' = [ppc EXCEPT ![p] = "write"]
  /\ UNCHANGED <<head, tail, buffer, ph, pitem, cpc, ct, pending, accepted,
                 rejected, popped>>

\* if (next_head == consumer_.tail.load(acquire)) return false;
PushCheckFull(p) ==
  /\ ppc[p] = "check"
  /\ IF ((ph[p] + 1) & Mask) = tail
       THEN /\ ppc' = [ppc EXCEPT ![p] = "idle"]
            /\ rejected' = rejected \cup {pitem[p]}
       ELSE /\ ppc' = [ppc EXCEPT ![p] = "write"]
            /\ UNCHANGED rejected
  /\ UNCHANGED <<head, tail, buffer, ph, pitem, cpc, ct, pending, accepted, popped>>

\* buffer_[current_head] = item
PushWriteSlot(p) ==
  /\ ppc[p] = "write"
  /\ buffer' = [buffer EXCEPT ![ph[p]] = pitem[p]]
  /\ ppc' = [ppc EXCEPT ![p] = "publish"]
  /\ UNCHANGED <<head, tail, ph, pitem, cpc, ct, pending, accepted, rejected, popped>>

\* producer_.head.store(next_head, release); return true
PushPublish(p) ==
  /\ ppc[p] = "publish"
  /\ head' = (ph[p] + 1) & Mask
  /\ accepted' = Append(accepted, pitem[p])
  /\ ppc' = [ppc EXCEPT ![p] = "idle"]
  /\ UNCHANGED <<tail, buffer, ph, pitem, cpc, ct, pending, rejected, popped>>

-----------------------------------------------------------------------------
(* pop (ring_buffer.h:61-71).  A pop that finds the ring empty returns     *)
(* false without changing anything, so it is a stuttering step.            *)

\* Mutant: the empty test compares with the slot after the tail, so a ring
\* holding one element reads as empty.
PopCheckEmptyOffByOne ==
  /\ cpc = "idle"
  /\ tail # head
  /\ ((tail + 1) & Mask) # head
  /\ ct' = tail
  /\ cpc' = "read"
  /\ UNCHANGED <<head, tail, buffer, ppc, ph, pitem, pending, accepted, rejected, popped>>

\* current_tail = tail.load(relaxed); return false if == head.load(acquire)
PopCheckEmpty ==
  /\ cpc = "idle"
  /\ tail # head
  /\ ct' = tail
  /\ cpc' = "read"
  /\ UNCHANGED <<head, tail, buffer, ppc, ph, pitem, pending, accepted, rejected, popped>>

\* item = buffer_[current_tail]
PopReadSlot ==
  /\ cpc = "read"
  /\ popped' = Append(popped, buffer[ct])
  /\ cpc' = "release"
  /\ UNCHANGED <<head, tail, buffer, ppc, ph, pitem, ct, pending, accepted, rejected>>

\* Mutant: the index advanced without the mask.
PopReleaseNoMask ==
  /\ cpc = "release"
  /\ tail' = ct + 1
  /\ cpc' = "idle"
  /\ UNCHANGED <<head, buffer, ppc, ph, pitem, ct, pending, accepted, rejected, popped>>

\* consumer_.tail.store((current_tail + 1) & mask_, release); return true
PopRelease ==
  /\ cpc = "release"
  /\ tail' = (ct + 1) & Mask
  /\ cpc' = "idle"
  /\ UNCHANGED <<head, buffer, ppc, ph, pitem, ct, pending, accepted, rejected, popped>>

-----------------------------------------------------------------------------

Next ==
  \/ \E p \in Producers :
       PushLoadHead(p) \/ PushCheckFull(p) \/ PushWriteSlot(p) \/ PushPublish(p)
  \/ PopCheckEmpty \/ PopReadSlot \/ PopRelease

\* Nothing is pushed after the items run out.  The consumer is the order
\* manager's worker, which polls every ring in a loop that never blocks
\* (order_manager.cpp:118-146), so each step of pop is weakly fair;
\* producers may stop calling push.
ConsumerFairness ==
  WF_vars(PopCheckEmpty) /\ WF_vars(PopReadSlot) /\ WF_vars(PopRelease)

Spec == Init /\ [][Next]_vars /\ ConsumerFairness

\* size() (ring_buffer.h:73-77): (head - tail) & mask_ on unsigned words.
Size(h, t) == ((h - t) % Word) & Mask

\* The elements a consumer can still obtain: the slots from the tail it
\* will publish next up to head.  A consumer that has read its slot but not
\* yet released it already holds that element.
EffectiveTail == IF cpc = "release" THEN (ct + 1) & Mask ELSE tail
Occupied == [i \in 1 .. Size(head, EffectiveTail) |->
               buffer[(EffectiveTail + i - 1) & Mask]]

-----------------------------------------------------------------------------

TypeOK ==
  /\ head \in Slots /\ tail \in Slots /\ ct \in Slots
  /\ buffer \in [Slots -> Items \cup {NULL}]
  /\ ppc \in [Producers -> {"idle", "check", "write", "publish"}]
  /\ ph \in [Producers -> Slots]
  /\ pitem \in [Producers -> Items \cup {NULL}]
  /\ cpc \in {"idle", "read", "release"}
  /\ pending \subseteq Items /\ rejected \subseteq Items

\* The ring built by the constructor indexes its own buffer: head and tail,
\* advanced with & mask_, stay inside buffer_[0 .. capacity_-1]; and
\* next_power_of_two, which sizes it, returns the least power of two that
\* is >= n for every n from 1 up to the largest power of two of the word.
IsPowerOfTwo(c) == \E k \in 0 .. Width - 1 : c = 2^k
NextPowerOfTwoCorrect ==
  /\ {head, tail} \subseteq 0 .. Capacity - 1
  /\ \A n \in 1 .. 2^(Width - 1) :
        LET c == NextPowerOfTwo(n)
        IN /\ IsPowerOfTwo(c) /\ c >= n
           /\ \A d \in 1 .. c - 1 : IsPowerOfTwo(d) => d < n

\* The ring implements the bounded FIFO queue of RingQueue: every push that
\* returned true put its item at the back, every pop returned the oldest
\* item, and no more than capacity_ - 1 items were ever held.
Abstract == INSTANCE RingQueue WITH queue <- Occupied
RefinesRingQueue == Abstract!Spec

\* Every item a push returned true for is eventually returned by pop: the
\* consumer's empty test (ring_buffer.h:64) sees the head the producer
\* published, so no accepted order stays in its ring while the worker polls.
AcceptedEventuallyPopped ==
  \A x \in Items :
     (\E i \in DOMAIN accepted : accepted[i] = x) ~>
        (\E i \in DOMAIN popped : popped[i] = x)

\* Every item a push accepted is popped or still in the ring, in the order
\* the pushes returned: no accepted order is lost, duplicated or reordered.
FifoNoLoss == popped \o Occupied = accepted

=============================================================================
