--------------------------- MODULE MC_PageTable ---------------------------
(* A process with a one-page r-x text at page 1, the magic page at 5,     *)
(* kMaxAddress at 6 and a two-page rwx stack [7, 9) whose lower page is   *)
(* demand mapped, leaving a three-page heap gap [2, 5) for allocate.       *)
EXTENDS PageTable

MCSnapshot ==
    {[begin |-> 1, end |-> 2, lazy_begin |-> 1,
      is_r |-> TRUE, is_w |-> FALSE, is_x |-> TRUE],
     [begin |-> 5, end |-> 6, lazy_begin |-> 5,
      is_r |-> TRUE, is_w |-> FALSE, is_x |-> FALSE],
     [begin |-> 7, end |-> 9, lazy_begin |-> 8,
      is_r |-> TRUE, is_w |-> TRUE, is_x |-> TRUE]}
=============================================================================
