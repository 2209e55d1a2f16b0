--------------------------- MODULE MC_BlockEncode ---------------------------
(* Guest code with one block per group of emulated instructions, run from *)
(* three register files: a stack pointer with room on both sides, one     *)
(* near the bottom of the mapped stack (pushes fault) and one near its    *)
(* top (pops fault). Bytes hold 0..3, so registers hold 0..255 and the   *)
(* mapped stack is [96, 144).                                             *)
EXTENDS BlockEncode

Reg(r, w)    == [k |-> "reg", r |-> r, d |-> 0, imm |-> 0, w |-> w]
Imm(v, w)    == [k |-> "imm", r |-> "", d |-> 0, imm |-> v, w |-> w]
Mem(r, d, w) == [k |-> "mem", r |-> r, d |-> d, imm |-> 0, w |-> w]
Rel(d)       == [k |-> "brdisp", r |-> "", d |-> 0, imm |-> d, w |-> 4]
Ins(op, w, o, r, len) == [op |-> op, w |-> w, o |-> o, r |-> r, len |-> len]
Ins0(op, w, len) == Ins(op, w, NoOperand, "", len)

MCCode ==
    (10  :> Ins("PUSH", 4, Reg("EAX", 4), "", 1)) @@
    (11  :> Ins("PUSH", 4, Imm(3, 1), "", 2)) @@
    (13  :> Ins("POP", 4, Mem("ESP", 4, 4), "", 4)) @@
    (17  :> Ins("RET_NEAR", 4, Imm(4, 2), "", 3)) @@
    (20  :> Ins0("PUSHAD", 4, 1)) @@
    (21  :> Ins("POP", 4, Reg("EBX", 4), "", 1)) @@
    (22  :> Ins0("LEAVE", 4, 1)) @@
    (23  :> Ins("CALL_NEAR", 4, Reg("EAX", 4), "", 2)) @@
    (30  :> Ins0("PUSHFD", 4, 1)) @@
    (31  :> Ins0("POPF", 2, 2)) @@
    (33  :> Ins("PUSH", 4, Mem("ESP", 4, 4), "", 4)) @@
    (37  :> Ins("POP", 4, Reg("ESP", 4), "", 1)) @@
    (38  :> Ins("JZ", 4, Rel(5), "", 2)) @@
    (40  :> Ins("MOV", 4, Imm(7, 4), "EAX", 5)) @@
    (45  :> Ins0("POPFD", 4, 1)) @@
    (46  :> Ins("CALL_NEAR", 4, Rel(10), "", 5)) @@
    (50  :> Ins0("PUSHA", 2, 1)) @@
    (51  :> Ins0("POPA", 2, 1)) @@
    (52  :> Ins("JMP", 4, Mem("ESP", 0, 4), "", 3)) @@
    (60  :> Ins0("NOP", 4, 1)) @@
    (61  :> Ins("INT", 4, Imm(128, 1), "", 2)) @@
    (70  :> Ins0("ENTER", 4, 4)) @@
    (74  :> Ins("RET_NEAR", 4, NoOperand, "", 1)) @@
    (80  :> Ins0("SYSENTER", 4, 2)) @@
    (90  :> Ins("PUSH", 2, Reg("EAX", 2), "", 2)) @@
    (92  :> Ins("POP", 2, Reg("EAX", 2), "", 2)) @@
    (100 :> Ins("INT3", 4, NoOperand, "", 1)) @@
    (110 :> Ins0("NOP", 4, 1)) @@ (111 :> Ins0("NOP", 4, 1)) @@
    (112 :> Ins0("NOP", 4, 1)) @@ (113 :> Ins0("NOP", 4, 1)) @@
    (114 :> Ins0("NOP", 4, 1)) @@
    (120 :> Ins("JCXZ", 4, Rel(8), "", 2)) @@
    (130 :> Ins("CALL_NEAR", 4, Mem("ESP", 4, 4), "", 4)) @@
    (140 :> Ins("MOV", 4, Mem("ESP", 8, 4), "EBX", 4)) @@
    (144 :> Ins("JMP", 4, Rel(200), "", 2)) @@
    (150 :> Ins0("PUSHF", 2, 1)) @@
    (151 :> Ins0("POPFD", 4, 1)) @@
    (152 :> Ins("JMP", 4, Reg("EBX", 4), "", 2))

MCBlockPCs == {10, 20, 30, 40, 50, 60, 70, 80, 90, 100, 110, 120, 130, 140, 150}

RegFile(eax, ecx, edx, ebx, esp, ebp, esi, edi) ==
    [EAX |-> eax, ECX |-> ecx, EDX |-> edx, EBX |-> ebx,
     ESP |-> esp, EBP |-> ebp, ESI |-> esi, EDI |-> edi]

(* ZF set and clear, the ID flag (32) set in two; ECX is 0, 5, and 16     *)
(* (CX = 0 with ECX # 0). ESP 98 makes the call's push fault after its   *)
(* target was read.                                                        *)
MCInitGuests ==
    {[r |-> RegFile(201, 0, 3, 77, 136, 124, 9, 250), fl |-> 1],
     [r |-> RegFile(66, 16, 130, 18, 98, 200, 41, 6), fl |-> 34],
     [r |-> RegFile(13, 5, 0, 99, 142, 101, 255, 128), fl |-> 32]}

MCInitMem == [a \in 96..143 |-> (a * 3) % 4]
(* The image with a RET 0 (C2 00 00) block at 160, for the README.        *)
MCRetZeroCode == MCCode @@ (160 :> Ins("RET_NEAR", 4, Imm(0, 2), "", 3))
=============================================================================
