---------------------------- MODULE PatchQueue ----------------------------
(***************************************************************************)
(* What the patcher promises (spec.md, section 4.9): a queue of patch     *)
(* points (the rel32 of a waiting JMP and the key of its target). A point *)
(* is appended when a block is encoded, after dropping the whole queue if *)
(* it is full. A point whose target has an index entry may be taken out   *)
(* of the queue, and then its rel32, which was still zero, is linked to   *)
(* that block. A restart keeps a prefix of the queue.                     *)
(***************************************************************************)
EXTENDS Naturals, Sequences, SequencesExt

CONSTANTS
    Cells,     \* the rel32 fields of patchable jumps
    Targets,   \* index keys (guest PCs)
    Blocks     \* translated blocks; 0 is "no block"

VARIABLES
    pending,   \* the queue, oldest first
    rel32,     \* [Cells -> Blocks \cup {0}]: where each jump is linked
    index      \* [Targets -> Blocks \cup {0}]

qvars == <<pending, rel32, index>>

PatchPoint == [rel32 : Cells, target : Targets]

Init ==
    /\ pending = <<>>
    /\ rel32 = [c \in Cells |-> 0]
    /\ index = [t \in Targets |-> 0]

Add(p) ==
    /\ pending' = Append(pending, p)
    /\ UNCHANGED <<rel32, index>>

Link(k) ==
    LET p == pending[k] IN
    /\ index[p.target] # 0
    /\ rel32[p.rel32] = 0
    /\ rel32' = [rel32 EXCEPT ![p.rel32] = index[p.target]]
    /\ pending' = RemoveAt(pending, k)
    /\ UNCHANGED index

Insert(t, b) ==
    /\ index' = [index EXCEPT ![t] = b]
    /\ UNCHANGED <<pending, rel32>>

DropAndAdd(p) ==
    /\ pending' = <<p>>
    /\ UNCHANGED <<rel32, index>>

Restart(k) ==
    /\ pending' = SubSeq(pending, 1, k)
    /\ UNCHANGED <<rel32, index>>

Next ==
    \/ \E p \in PatchPoint : Add(p)
    \/ \E k \in 1..Len(pending) : Link(k)
    \/ \E t \in Targets, b \in Blocks : Insert(t, b)
    \/ \E p \in PatchPoint : DropAndAdd(p)
    \/ \E k \in 0..Len(pending) : Restart(k)

Spec == Init /\ [][Next]_qvars
=============================================================================
