--------------------------- MODULE MutationStream ---------------------------
(***************************************************************************)
(* What a mutator of src/granary/input/mutate.cc promises its caller: each *)
(* request returns the next test case of a fixed list, where the k-th     *)
(* entry is any member of the set ref[k] (a random engine has several     *)
(* possible outputs); once the list is used up every request returns no   *)
(* test, unless the mutator is infinite, in which case the list starts    *)
(* over. The list and whether it cycles follow from the recording and    *)
(* the mutator, both fixed when the mutator is created.                    *)
(***************************************************************************)
EXTENDS Naturals, Sequences

CONSTANTS
    None,         \* the nullptr of RequestMutationImpl
    List(_, _),   \* the list of a recording and mutator: a sequence of
                  \* non-empty sets of test cases
    Cyclic(_)     \* whether a mutator is an InfiniteMutator

VARIABLES
    record,   \* the recording the mutator was created from
    mutator,  \* the mutator
    k,        \* the position of the next test case in the list
    out       \* what the last request returned

svars == <<record, mutator, k, out>>

ref    == List(record, mutator)
cyclic == Cyclic(mutator)

Init == k = 1 /\ out = None

Emit ==
    /\ k <= Len(ref)
    /\ out' \in ref[k]
    /\ k' = k + 1
    /\ UNCHANGED <<record, mutator>>

Wrap ==
    /\ k > Len(ref)
    /\ cyclic /\ Len(ref) > 0
    /\ out' \in ref[1]
    /\ k' = 2
    /\ UNCHANGED <<record, mutator>>

Exhausted ==
    /\ k > Len(ref)
    /\ ~(cyclic /\ Len(ref) > 0)
    /\ out' = None
    /\ UNCHANGED <<record, mutator, k>>

Next == Emit \/ Wrap \/ Exhausted

(* A caller that keeps asking gets the whole list.                         *)
FairSpec == Init /\ [][Next]_svars /\ WF_svars(Next)
=============================================================================
