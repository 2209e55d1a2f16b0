------------------------------ MODULE Execute ------------------------------
(***************************************************************************)
(* The interpreter loop of src/granary/code/execute.cc over the page      *)
(* table of PageTable: each step looks the block at a guest PC up in the  *)
(* code-cache index (src/granary/code/index.cc) under the key             *)
(* (pc32, pid, PageHash()), tries TryMakeExecutable on a miss, otherwise  *)
(* translates the block and inserts it, then runs it. A translation       *)
(* records the content version of the page it was decoded from; a block   *)
(* is one page (the decoder may cross into a second page; not modelled). *)
(***************************************************************************)
EXTENDS PageTable

CONSTANT ExecPCs    \* inputs: pages the guest transfers control to

VARIABLES
    index,    \* index::gTable: set of [pc, hash, ok, ver] entries
    ran       \* the block run by the last Execute step, or NoRun

vars == <<ptVars, index, ran>>

NoRun == [pc |-> -1, ok |-> FALSE, ver |-> -1, cur |-> -1]

(* Process32::CanExecute(pc32).                                            *)
CanExecute(s, pc) ==
    IF ~HasRange(s, pc) THEN [s |-> s, ok |-> FALSE]
    ELSE LET r == FindRange(s, pc) IN
         IF r.state = "RX" THEN [s |-> s, ok |-> TRUE]
         ELSE IF r.perms = "RWX"
              THEN IF CanChangeState(s, pc, "RW")
                   THEN [s |-> ChangedState(s, pc, "RW", "RX"), ok |-> TRUE]
                   ELSE [s |-> s, ok |-> FALSE]
              ELSE [s |-> s, ok |-> FALSE]

(* Translate: decode bytes that TryRead can read and CanExecute allows;   *)
(* a byte failing either ends the block with an error (UD2).               *)
Translate(s, pc) ==
    LET rd == Access(s, pc, "read", MaxFaultRounds)
        ex == CanExecute(rd.s, pc)
    IN IF rd.ok THEN ex ELSE [s |-> rd.s, ok |-> FALSE]

(* The lookup loop of Execute: index::Key (which may rehash via           *)
(* PageHash), index::Find; on a miss TryMakeExecutable() and look up      *)
(* again, or else Translate and index::Insert. At most two rounds: after  *)
(* a successful TryMakeExecutable the PC's range is no longer kRW.        *)
RECURSIVE Lookup(_, _, _)
Lookup(s, pc, fuel) ==
    LET s1  == PageHash(s)
        hit == {e \in index : e.pc = pc /\ e.hash = s1.hash}
        tr  == Translate(s1, pc)
    IN IF hit # {} THEN [s |-> s1, block |-> CHOOSE e \in hit : TRUE]
       ELSE IF fuel > 0 /\ CanChangeState(s1, pc, "RW")
            THEN Lookup(ChangedState(s1, pc, "RW", "RX"), pc, fuel - 1)
            ELSE [s |-> tr.s,
                  block |-> [pc |-> pc, hash |-> s1.hash, ok |-> tr.ok,
                             ver |-> s1.mem[pc]]]

(* One iteration of Execute's outer loop at guest PC pc: look up or       *)
(* translate, then call into the code cache. A block that ends with an    *)
(* error puts the process into kError (SIGILL).                            *)
ExecuteBlock(pc) ==
    LET l == Lookup(AS, pc, 1) IN
    /\ status = "running"
    /\ SetAS(l.s)
    /\ index' = index \cup {l.block}
    /\ ran' = [pc |-> pc, ok |-> l.block.ok, ver |-> l.block.ver,
               cur |-> mem[pc]]
    /\ IF l.block.ok
       THEN UNCHANGED <<status, fault>>
       ELSE status' = "faulted" /\ fault' = [addr |-> pc, kind |-> "exec"]
    /\ UNCHANGED <<mem, num_syscalls>>

Init == ptInit /\ index = {} /\ ran = NoRun

Next ==
    \/ ptNext /\ UNCHANGED <<index, ran>>
    \/ \E pc \in ExecPCs : ExecuteBlock(pc)

Spec == Init /\ [][Next]_vars

-----------------------------------------------------------------------------
(* Every variable holds a value of its type.                               *)
ExecTypeOK ==
    /\ TypeOK
    /\ \A e \in index : e.pc \in ExecPCs /\ e.ok \in BOOLEAN
                       /\ e.ver \in 0..MaxVersion
    /\ ran.ok \in BOOLEAN

(* A block found in the index is never stale: the code the cache runs for *)
(* a PC was translated from the bytes the page holds now. This is what the *)
(* page hash in index::Key is for; writes to code pages must fault        *)
(* (kRX pages are mapped PROT_READ) and TryMakeWritable must invalidate   *)
(* the hash.                                                               *)
NoStaleExecution == ran.ok => ran.ver = ran.cur
=============================================================================
