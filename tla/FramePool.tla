----------------------------- MODULE FramePool ------------------------------
(***************************************************************************)
(* The pool of frame buffers (FramePool.h): count slots handed out without *)
(* allocating.  A Holder is a place that may keep a shared_ptr to a buffer *)
(* (a local of a thread, a member of a widget); the deleter of the last    *)
(* one puts the slot back.  The list and the reference counts are each     *)
(* changed in one step of a thread (mu_, and the atomic count).            *)
(***************************************************************************)
EXTENDS Integers, Sequences

CONSTANTS
    count,      \* the capacity
    Holders     \* the places that may refer to a buffer

ASSUME FramePoolAssumption == count \in Nat

VARIABLES
    freeSlots,  \* freeSlots_, the last one is handed out first
    holder      \* the slot each holder refers to, or none

pool == <<freeSlots, holder>>

Slots == 0 .. count - 1
none == -1
InUse == {holder[h] : h \in Holders} \ {none}

Point_leaking(h, slot) ==                    \* slip: the slot is not put back
    /\ holder' = [holder EXCEPT ![h] = slot]
    /\ UNCHANGED freeSlots

\* The shared_ptr h is assigned: the buffer it kept alive is recycled if no
\* other holder has it.
Point(h, slot) ==
    /\ holder' = [holder EXCEPT ![h] = slot]
    /\ freeSlots' = IF /\ holder[h] \notin {none, slot}
                       /\ \A g \in Holders \ {h} : holder[g] # holder[h]
                    THEN Append(freeSlots, holder[h])
                    ELSE freeSlots

\* A buffer for h; the caller has seen that there is one.
acquire(h) ==
    /\ freeSlots # <<>>
    /\ holder[h] = none
    /\ holder' = [holder EXCEPT ![h] = freeSlots[Len(freeSlots)]]
    /\ freeSlots' = [i \in 1 .. Len(freeSlots) - 1 |-> freeSlots[i]]

copy(from, to) == holder[from] # none /\ Point(to, holder[from])
release(h) == holder[h] # none /\ Point(h, none)

PoolInit ==
    /\ freeSlots = [i \in 1 .. count |-> i - 1]
    /\ holder = [h \in Holders |-> none]

PoolNext ==
    \/ \E h \in Holders : acquire(h) \/ release(h)
    \/ \E from, to \in Holders : copy(from, to)

PoolSpec == PoolInit /\ [][PoolNext]_pool

-----------------------------------------------------------------------------
(* Properties. *)

PoolTypeOK ==
    /\ freeSlots \in Seq(Slots)
    /\ holder \in [Holders -> Slots \cup {none}]

\* A slot is in the free list once, or it is in use, and never both: no two
\* frames share the memory of a buffer, and none is lost to the pool however
\* the threads hand frames around (FramePool.h:6-9).
PoolSound ==
    /\ \A i, j \in 1 .. Len(freeSlots) : freeSlots[i] = freeSlots[j] => i = j
    /\ \A i \in 1 .. Len(freeSlots) : freeSlots[i] \notin InUse
    /\ \A s \in Slots : s \in InUse \/ \E i \in 1 .. Len(freeSlots) : freeSlots[i] = s
=============================================================================
