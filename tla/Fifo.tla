-------------------------------- MODULE Fifo --------------------------------
(***************************************************************************)
(* What a pipe between DECREE processes promises: each pipe is a bounded  *)
(* first-in first-out queue of bytes. A transmit appends a whole run of   *)
(* bytes when they fit, a receive removes a prefix. Nothing is lost,      *)
(* duplicated or reordered, and no more than Capacity bytes are queued.   *)
(***************************************************************************)
EXTENDS Naturals, Sequences, SequencesExt

CONSTANTS
    Pipes,      \* the pipes
    Capacity,   \* bytes a pipe can hold
    Payload     \* the values a byte can have

VARIABLE queue    \* queue[f]: the bytes sent on pipe f and not yet received

Init == queue = [f \in Pipes |-> <<>>]

Put(f, s) ==
    /\ s # <<>>
    /\ Len(queue[f]) + Len(s) <= Capacity
    /\ queue' = [queue EXCEPT ![f] = @ \o s]

Take(f, n) ==
    /\ n \in 1..Len(queue[f])
    /\ queue' = [queue EXCEPT ![f] = SubSeq(@, n + 1, Len(@))]

Next ==
    \E f \in Pipes :
        \/ \E s \in BoundedSeq(Payload, Capacity) : Put(f, s)
        \/ \E n \in 1..Capacity : Take(f, n)

Spec == Init /\ [][Next]_queue
=============================================================================
