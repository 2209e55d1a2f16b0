---------------------------- MODULE MC_Execute ----------------------------
(* A process with a one-page r-x text at page 1, a two-page heap gap      *)
(* [2, 4), the magic page at 4, kMaxAddress at 5 and a two-page rwx stack *)
(* [6, 8) whose lower page is demand mapped. The guest allocates in the   *)
(* heap gap, stores to and jumps into what it allocated.                  *)
EXTENDS Execute

(* The binary's maps at its entry: the text, the magic page, a guard     *)
(* page with no access, and the [vdso]. InitSnapshotFile adds the stack.  *)
MCMaps ==
    {[begin |-> 1, end |-> 2, r |-> TRUE, w |-> FALSE, x |-> TRUE,
      private |-> TRUE, special |-> FALSE],
     [begin |-> 4, end |-> 5, r |-> TRUE, w |-> FALSE, x |-> FALSE,
      private |-> TRUE, special |-> FALSE],
     [begin |-> 3, end |-> 4, r |-> FALSE, w |-> FALSE, x |-> FALSE,
      private |-> TRUE, special |-> FALSE],
     [begin |-> 5, end |-> 6, r |-> TRUE, w |-> FALSE, x |-> TRUE,
      private |-> TRUE, special |-> TRUE]}

MCSnapshot == InitSnapshotFile(MCMaps, 1, 6, 8, 1)

(* The same process with a two-page r-x text [1, 3) and a one-page heap  *)
(* gap at 3.                                                              *)
MCWideTextSnapshot ==
    {[begin |-> 1, end |-> 3, lazy_begin |-> 1,
      is_r |-> TRUE, is_w |-> FALSE, is_x |-> TRUE]}
    \cup {m \in MCSnapshot : m.begin # 1}

(* Bound: translations held by the index at once.                          *)
MaxIndexEntries == 3
IndexBound == Cardinality(index) <= MaxIndexEntries
=============================================================================
