---------------------------- MODULE BoundedFifo ----------------------------
(***************************************************************************)
(* What BoundedConcurrentQueue promises, with no mutex, no condition and   *)
(* no wait queue: a FIFO of at most Capacity elements shared by Threads.   *)
(* A call is made (Invoke), takes effect in one step at a moment when its  *)
(* condition holds, and returns with that step.  How a caller is made to   *)
(* wait, and who wakes it, is the business of the implementation.          *)
(***************************************************************************)
EXTENDS Naturals, Sequences

CONSTANTS Threads, Elements, Capacity, MayCall, NoElement

VARIABLES
    fifo,      \* the elements, oldest first
    pending,   \* [Threads -> the operation in progress, or "none"]
    operand    \* [Threads -> its argument, or the last element it returned]

vars == <<fifo, pending, operand>>

Init ==
    /\ fifo = <<>>
    /\ pending = [t \in Threads |-> "none"]
    /\ operand = [t \in Threads |-> NoElement]

Invoke(t, op, e) ==
    /\ pending[t] = "none"
    /\ op \in MayCall[t]
    /\ op = "enqueue" <=> e # NoElement
    /\ pending' = [pending EXCEPT ![t] = op]
    /\ operand' = [operand EXCEPT ![t] = e]
    /\ UNCHANGED fifo

Return(t, e) ==
    /\ pending' = [pending EXCEPT ![t] = "none"]
    /\ operand' = [operand EXCEPT ![t] = e]

\* enqueue: blocked while the queue is full
Put(t) ==
    /\ pending[t] = "enqueue"
    /\ Len(fifo) < Capacity
    /\ fifo' = Append(fifo, operand[t])
    /\ Return(t, operand[t])

\* waitDequeue (and a tryDequeue that succeeds): the oldest element goes out
Take(t) ==
    /\ pending[t] \in {"waitDequeue", "tryDequeue"}
    /\ fifo # <<>>
    /\ fifo' = Tail(fifo)
    /\ Return(t, Head(fifo))

\* tryDequeue gives up only on an empty queue
Miss(t) ==
    /\ pending[t] = "tryDequeue"
    /\ fifo = <<>>
    /\ Return(t, NoElement)
    /\ UNCHANGED fifo

\* waitEmpty and waitNotEmpty return at a moment when they tell the truth
Observe(t) ==
    /\ \/ pending[t] = "waitEmpty"    /\ fifo = <<>>
       \/ pending[t] = "waitNotEmpty" /\ fifo # <<>>
    /\ Return(t, NoElement)
    /\ UNCHANGED fifo

\* wakeup changes nothing a caller can see
Nudge(t) ==
    /\ pending[t] = "wakeup"
    /\ Return(t, NoElement)
    /\ UNCHANGED fifo

Empty(t) ==
    /\ pending[t] = "clear"
    /\ fifo' = <<>>
    /\ Return(t, NoElement)

Next ==
    \E t \in Threads :
        \/ \E op \in MayCall[t], e \in Elements \cup {NoElement} : Invoke(t, op, e)
        \/ Put(t) \/ Take(t) \/ Miss(t) \/ Observe(t) \/ Nudge(t) \/ Empty(t)

Spec == Init /\ [][Next]_vars

=============================================================================
