----------------------------- MODULE CoroQueue -----------------------------
(***************************************************************************)
(* boost::async_coro_queue as the code under src/ uses it: a buffer of     *)
(* bounded capacity in which at most one coroutine waits for an item.  The *)
(* queue itself is a boost circular_buffer, so a push into a full queue    *)
(* overwrites the oldest item.  This module has the buffer; the waiting    *)
(* coroutine is a program counter of the module that uses the queue.       *)
(***************************************************************************)
EXTENDS Naturals, Sequences

PushBack_Unbounded(buf, x, cap) == Append(buf, x)

\* circular_buffer::push_back: append, or overwrite the oldest item.
PushBack(buf, x, cap) ==
    IF Len(buf) < cap THEN Append(buf, x) ELSE Append(Tail(buf), x)

\* The items that a push destroys: none, or the oldest one.
Overwritten(buf, cap) == IF Len(buf) < cap THEN <<>> ELSE <<Head(buf)>>
=============================================================================
