---------------------------- MODULE MC_Scheduler ----------------------------
(* Model-checking instances of Scheduler: two processes, so there are two *)
(* pipes (descriptors 3,4 and 5,6), a ring of two bytes, one input byte.  *)
EXTENDS Scheduler

(* Pipe I/O of every kind: whole and partial buffers, both descriptors of *)
(* a pipe, a full ring, stdin replay, fdwait with and without a timeout.  *)
MCSafetyCalls ==
    { Sys("transmit", 3, 1, 1), Sys("transmit", 4, 2, 2),
      Sys("transmit", 1, 1, 0),
      Sys("receive", 3, 2, 2), Sys("receive", 4, 2, 1),
      Sys("receive", 0, 2, 2),
      FdwaitCall({3}, {}, 4, FALSE, 0, 0),
      FdwaitCall({4}, {3}, 5, TRUE, 0, 1),
      FdwaitCall({3}, {}, 4, TRUE, 1, 0),
      Sys("terminate", 0, 0, 0), Sys("other", 0, 0, 0) }

(* A timed fdwait that a write to its pipe interrupts, then a second one. *)
MCTimeoutCalls ==
    { FdwaitCall({3}, {}, 4, TRUE, 1, 0), Sys("transmit", 3, 1, 1),
      Sys("receive", 3, 1, 1) }
=============================================================================
