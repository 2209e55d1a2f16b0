----------------------------- MODULE BlockEncode -----------------------------
(***************************************************************************)
(* The block translator: Block::DoDecode (src/granary/code/block.cc)      *)
(* decodes guest instructions up to a control-flow instruction, then       *)
(* Block::Encode (src/granary/arch/x86/block.cc) emulates or virtualizes   *)
(* them onto arch::InstructionStack, a list that Add() grows at its FRONT: *)
(* the helpers add host instructions in the reverse of the order the code *)
(* cache runs them. The model keeps that stack, encodes it, runs the host  *)
(* code one instruction at a time, and compares the guest state it leaves  *)
(* with a reference semantics of the 32-bit guest instructions.            *)
(*                                                                         *)
(* Data abstraction: a byte holds 0..ByteBase-1, so a 32-bit register     *)
(* holds 0..ByteBase^4-1 and arithmetic on addresses wraps mod ByteBase^4 *)
(* like the 32-bit LEAs of the code. Instructions are records of an       *)
(* iclass, an operand width w in bytes and one operand o.                  *)
(***************************************************************************)
EXTENDS Integers, SequencesExt

CONSTANTS
    ByteBase,          \* values of one abstract byte (even)
    CodeImage,         \* guest PC -> instruction; other PCs are unreadable
    BlockPCs,          \* PCs at which the interpreter translates a block
    MaxInstructionsPerBlock,  \* FLAGS_max_instructions_per_block
    InitGuests,        \* guest register files and flags at block entry
    InitMem,           \* the mapped guest stack bytes: address -> byte
    CacheAlignments    \* cache::Allocate(0) % 8 values at encode time

W(n) == ByteBase ^ n
W4   == W(4)
StackAddrs == DOMAIN InitMem

GuestRegs == {"EAX", "ECX", "EDX", "EBX", "ESP", "EBP", "ESI", "EDI"}
(* Host registers: the guest GPRs other than ESP, SP (R9), PC (R10), VAL *)
(* (R11), ADDR (R12) and BLK (R14) of src/granary/arch/x86/abi.h.         *)
HostRegs == (GuestRegs \ {"ESP"}) \cup {"SP", "PC", "VAL", "ADDR", "BLK"}

(* Writing the low n bytes of a register keeps the bytes above them.      *)
SetW(old, n, v) == old - (old % W(n)) + (v % W(n))
SignExtend(v, from, to) ==
    IF (v % W(from)) >= W(from) \div 2
    THEN (v % W(from)) + W(to) - W(from) ELSE v % W(from)
(* The ID flag (EFLAGS bit 21: bit 5 of byte 2).                            *)
IdBit == 2 * W(2)
ClearId(v) == IF (v \div IdBit) % 2 = 1 THEN v - IdBit ELSE v
(* An abstract ZF: bit 0 of the flags stands for the flag Jcc tests.       *)
ZF(fl) == fl % 2 = 1

(* Little-endian loads and stores of n bytes at a 32-bit address.          *)
Mapped(a, n) == \A i \in 0..(n - 1) : (a + i) % W4 \in StackAddrs
RECURSIVE LoadBytes(_, _, _)
LoadBytes(m, a, n) ==
    IF n = 0 THEN 0 ELSE m[a] + ByteBase * LoadBytes(m, (a + 1) % W4, n - 1)
StoreBytes(m, a, n, v) ==
    [x \in DOMAIN m |-> IF (x - a) % W4 < n
                        THEN (v \div W((x - a) % W4)) % ByteBase ELSE m[x]]

(* Operands: a register, an immediate, [r + d], a branch displacement.    *)
NoOperand == [k |-> "none", r |-> "", d |-> 0, imm |-> 0, w |-> 0]
StackOp(w) == [k |-> "mem", r |-> "ESP", d |-> 0, imm |-> 0, w |-> w]

-----------------------------------------------------------------------------
(* Decoding (src/granary/code/block.cc, instruction.h, instruction.cc).   *)
IsDirectJump(i)           == i.op = "JMP" /\ i.o.k = "brdisp"
IsIndirectJump(i)         == i.op = "JMP" /\ i.o.k # "brdisp"
IsDirectFunctionCall(i)   == i.op = "CALL_NEAR" /\ i.o.k = "brdisp"
IsIndirectFunctionCall(i) == i.op = "CALL_NEAR" /\ i.o.k # "brdisp"
IsFunctionReturn(i)       == i.op = "RET_NEAR"
IsBranch(i)               == i.op \in {"JZ", "JCXZ"}
IsSystemCall(i)           == i.op = "SYSENTER"
IsInterruptCall(i)        == i.op \in {"INT", "INT3"}
IsSerializing(i)          == i.op \in {"INT", "INT3"}
IsUndefined(i)            == i.op = "UD2"
AtBlockEnd(i) ==
    \/ IsBranch(i) \/ i.op \in {"JMP", "CALL_NEAR"} \/ IsFunctionReturn(i)
    \/ IsSystemCall(i) \/ IsInterruptCall(i) \/ IsSerializing(i)
    \/ IsUndefined(i)
EndPC(i)    == (i.pc + i.len) % W4
TargetPC(i) == (EndPC(i) + i.o.imm) % W4

(* Instruction::TryDecode on bytes that cannot be read: MakeUD2.           *)
MakeUD2 == [op |-> "UD2", w |-> 0, o |-> NoOperand, r |-> "", len |-> 2]

(* DecodeInstruction: the instruction at pc and whether decoding failed.  *)
DecodeInstruction(pc) ==
    IF pc \in DOMAIN CodeImage
    THEN [i |-> CodeImage[pc] @@ [pc |-> pc], err |-> FALSE]
    ELSE [i |-> MakeUD2 @@ [pc |-> pc], err |-> TRUE]

(* The loop of Block::DoDecode from pc, with n instructions decoded.      *)
RECURSIVE DoDecode(_, _)
DoDecode(pc, n) ==
    IF n = MaxInstructionsPerBlock THEN [app |-> <<>>, err |-> FALSE]
    ELSE LET d    == DecodeInstruction(pc)
             rest == IF AtBlockEnd(d.i) THEN [app |-> <<>>, err |-> FALSE]
                     ELSE DoDecode(EndPC(d.i), n + 1)
         IN [app |-> <<d.i>> \o rest.app, err |-> d.err \/ rest.err]
-----------------------------------------------------------------------------
(* Host instructions. Each helper returns the instructions it Add()s, in  *)
(* the order it adds them; Emit puts them on the front of the stack.       *)
H(k, a, b, v, w) == [k |-> k, a |-> a, b |-> b, v |-> v, w |-> w]
Emit(stack, adds) == Reverse(adds) \o stack

VirtualizeStack(r) == IF r = "ESP" THEN "SP" ELSE r

Instrument  == <<H("call", "", "", 0, 0)>>
EndBlock    == <<H("ret", "", "", 0, 0)>>
AddError    == <<H("ud2", "", "", 0, 0)>>
LoadImm(r, v)       == <<H("movi", r, "", v, 4)>>
LoadReg(d, s, w)    == <<H("movr", d, s, 0, w)>>
LoadMem(d, a)       == <<H("ld", d, a, 0, 4)>>
StoreImm32(a, v)    == <<H("sti", a, "", v, 4)>>
StoreReg(a, r, w)   == <<H("st", a, r, 0, w)>>
BumpSP(shift)       == <<H(IF shift = 0 THEN "abort" ELSE "bump",
                           "SP", "", shift, 4)>>
RecordLastMultiWayBranch == <<H("rec", "", "", 0, 0)>>
PatchableJump(t)    == <<H("pj", "", "", t, 0)>>

(* Rebase: instrument the address, then LEA ADDR32 <- [base + d]; the     *)
(* access itself becomes [MEM64 + ADDR64].                                  *)
Rebase(o) == Instrument \o <<H("lea", "ADDR", VirtualizeStack(o.r), o.d, 4)>>
VirtualizeOp(o) == IF o.k = "mem" THEN Rebase(o) ELSE <<>>

(* mov dst, o and mov o, src of width w, operands virtualized.            *)
MovFrom(d, w, o) ==
    CASE o.k = "reg" -> H("movr", d, VirtualizeStack(o.r), 0, w)
      [] o.k = "imm" -> H("movi", d, "", o.imm, w)
      [] o.k = "mem" -> H("ld", d, "ADDR", 0, w)
MovTo(o, s, w) ==
    IF o.k = "reg" THEN H("movr", VirtualizeStack(o.r), s, 0, w)
    ELSE H("st", "ADDR", s, 0, w)

LoadOp(d, w, o)  == <<MovFrom(d, w, o)>> \o VirtualizeOp(o)
StoreOp(o, s, w) == <<MovTo(o, s, w)>> \o VirtualizeOp(o)
LoadValue(o)     == LoadOp("VAL", o.w, o)
(* Mutant: ExtendValue extends into all 64 bits of the value register.   *)
ExtendValue64(from, to) ==
    IF from < to THEN <<H("movsx", "VAL", "VAL", from, 8)>> ELSE <<>>
ExtendValue(from, to) ==
    IF from < to THEN <<H("movsx", "VAL", "VAL", from, to)>> ELSE <<>>
LoadSignedValue(i, o) == ExtendValue(o.w, i.w) \o LoadValue(o)

PushReg(r, w) == StoreReg("SP", r, w) \o BumpSP(-w)
PopReg(r, w)  == BumpSP(w) \o LoadOp(r, w, StackOp(w))

-----------------------------------------------------------------------------
(* Control-flow instructions (EmulateCFI and its callees).                 *)
EmulateDirectJump(c) == LoadImm("PC", TargetPC(c))
EmulateIndirectJump(c) ==
    RecordLastMultiWayBranch \o Instrument \o LoadOp("PC", 4, c.o)
EmulateDirectFunctionCall(c) ==
    LoadImm("PC", TargetPC(c)) \o StoreImm32("SP", EndPC(c)) \o BumpSP(-4)
EmulateIndirectFunctionCall(c) ==
    RecordLastMultiWayBranch \o Instrument \o StoreImm32("SP", EndPC(c))
    \o BumpSP(-4) \o LoadOp("PC", 4, c.o)
EmulateFunctionReturn(c) ==
    (IF c.o.k = "imm" THEN BumpSP(c.o.imm) ELSE <<>>) \o BumpSP(4)
    \o RecordLastMultiWayBranch \o Instrument \o LoadMem("PC", "SP")

(* VirtualizeBranch: the native Jcc skips 15 bytes (patchable jmp, call,  *)
(* mov of the block into last_branch_pc, ret) to the taken path.           *)
VirtualizeBranch(c) ==
    PatchableJump(TargetPC(c)) \o RecordLastMultiWayBranch \o Instrument
    \o LoadImm("PC", TargetPC(c)) \o EndBlock \o PatchableJump(EndPC(c))
    \o RecordLastMultiWayBranch \o Instrument
    \o <<H("jcc", "", "", 15, 0)>> \o LoadImm("PC", EndPC(c))

(* EmulateJcxz: ExtendValue(block, MOVZX, XED_REG_ECX, XED_REG_CX) passes *)
(* two register enumerators as the sizes; XED numbers CX below ECX (the   *)
(* order ResizeReg relies on), so from_size < to_size is false and no     *)
(* MOVZX is added. ExtendRegs is that comparison.                          *)
ExtendRegs == <<>>
EmulateJcxz(c) ==
    RecordLastMultiWayBranch \o Instrument \o LoadReg("ECX", "VAL", 4)
    \o LoadImm("PC", TargetPC(c)) \o EndBlock \o LoadReg("ECX", "VAL", 4)
    \o RecordLastMultiWayBranch \o Instrument
    \o <<H("jecxz", "", "", 13, 0)>> \o LoadImm("PC", EndPC(c))
    \o ExtendRegs \o LoadReg("VAL", "ECX", 4)
EmulateBranch(c) ==
    IF c.op = "JCXZ" THEN EmulateJcxz(c) ELSE VirtualizeBranch(c)

EmulateInterruptCall(c) ==
    IF c.op = "INT" /\ c.o.imm = 128 THEN LoadImm("PC", EndPC(c)) ELSE AddError

(* EmulateCFI: [adds, cfi, syscall, error]; cfi is FALSE for an          *)
(* instruction that only needs a fall-through.                             *)
EmulateCFI(c) ==
    CASE IsDirectJump(c)         -> [adds |-> EmulateDirectJump(c), cfi |-> TRUE]
      [] IsIndirectJump(c)       -> [adds |-> EmulateIndirectJump(c), cfi |-> TRUE]
      [] IsDirectFunctionCall(c) -> [adds |-> EmulateDirectFunctionCall(c),
                                     cfi |-> TRUE]
      [] IsIndirectFunctionCall(c) -> [adds |-> EmulateIndirectFunctionCall(c),
                                       cfi |-> TRUE]
      [] IsFunctionReturn(c)     -> [adds |-> EmulateFunctionReturn(c),
                                     cfi |-> TRUE]
      [] IsBranch(c)             -> [adds |-> EmulateBranch(c), cfi |-> TRUE]
      [] IsSystemCall(c)         -> [adds |-> AddError, cfi |-> TRUE]
      [] IsInterruptCall(c)      -> [adds |-> EmulateInterruptCall(c),
                                     cfi |-> TRUE]
      [] OTHER                   -> [adds |-> LoadImm("PC", EndPC(c)),
                                     cfi |-> FALSE]
-----------------------------------------------------------------------------
(* Other instructions (Emulate); ok is FALSE where Emulate returns false  *)
(* and the instruction is virtualized instead.                              *)
EmulatePush(i) == PushReg("VAL", i.w) \o LoadSignedValue(i, i.o)
EmulatePop(i) ==
    StoreOp(i.o, "VAL", i.w) \o BumpSP(i.w) \o LoadSignedValue(i, StackOp(i.w))
(* PUSHA/PUSHAD push the entry SP, saved in VAL by their first instruction. *)
PushAll(w) ==
    PushReg("EDI", w) \o PushReg("ESI", w) \o PushReg("EBP", w)
    \o PushReg("VAL", w) \o PushReg("EBX", w) \o PushReg("EDX", w)
    \o PushReg("ECX", w) \o PushReg("EAX", w) \o LoadReg("VAL", "SP", w)
PopAll(w) ==
    PopReg("EAX", w) \o PopReg("ECX", w) \o PopReg("EDX", w) \o PopReg("EBX", w)
    \o BumpSP(w) \o PopReg("EBP", w) \o PopReg("ESI", w) \o PopReg("EDI", w)
(* Mutant: EmulatePushFlags leaves the PUSHFQ word on the host stack.     *)
EmulatePushFlagsNoPop(w) == PushReg("VAL", w) \o <<H("pushfq", "", "", 0, 8)>>
EmulatePushFlags(w) ==
    PushReg("VAL", w) \o <<H("popq", "VAL", "", 0, 8), H("pushfq", "", "", 0, 8)>>
(* POPFD masks the ID flag off the popped value (the AND sets the host   *)
(* flags, which POPFQ then overwrites).                                    *)
EmulatePopFlags(w) ==
    <<H("popfq", "", "", 0, 8), H("sthost", "", "VAL", 0, w)>>
    \o (IF w = 4 THEN <<H("and", "VAL", "", 0, 8)>> ELSE <<>>)
    \o <<H("pushfq", "", "", 0, 8)>> \o PopReg("VAL", w)
EmulateLeave(i) == PopReg("EBP", i.w) \o LoadReg("SP", "EBP", i.w)

Emulate(i) ==
    CASE i.op = "PUSH"   -> [adds |-> EmulatePush(i), ok |-> TRUE]
      [] i.op = "POP"    -> [adds |-> EmulatePop(i), ok |-> TRUE]
      [] i.op = "PUSHA"  -> [adds |-> PushAll(2), ok |-> TRUE]
      [] i.op = "POPA"   -> [adds |-> PopAll(2), ok |-> TRUE]
      [] i.op = "PUSHAD" -> [adds |-> PushAll(4), ok |-> TRUE]
      [] i.op = "POPAD"  -> [adds |-> PopAll(4), ok |-> TRUE]
      [] i.op = "PUSHF"  -> [adds |-> EmulatePushFlags(2), ok |-> TRUE]
      [] i.op = "POPF"   -> [adds |-> EmulatePopFlags(2), ok |-> TRUE]
      [] i.op = "PUSHFD" -> [adds |-> EmulatePushFlags(4), ok |-> TRUE]
      [] i.op = "POPFD"  -> [adds |-> EmulatePopFlags(4), ok |-> TRUE]
      [] i.op = "LEAVE"  -> [adds |-> EmulateLeave(i), ok |-> TRUE]
      [] i.op \in {"ENTER", "UD2"} -> [adds |-> AddError, ok |-> TRUE]
      [] i.op = "NOP"    -> [adds |-> <<>>, ok |-> TRUE]
      [] OTHER           -> [adds |-> <<>>, ok |-> FALSE]

(* Virtualize(block, app_instr) for an instruction without legacy 8-bit  *)
(* registers: a copy running natively, its memory operand rebased.  The  *)
(* modelled native instruction is MOV r, o.                                *)
Virtualize(i) == <<MovFrom(VirtualizeStack(i.r), i.w, i.o)>> \o VirtualizeOp(i.o)
-----------------------------------------------------------------------------
(* The host CPU running the encoded code: registers r, flags fl, guest    *)
(* memory m, the host stack hs of PUSHFQ/POPFQ, and last_branch_pc lbp.   *)
OpSize(op) ==
    CASE op.k = "call" -> 5 [] op.k = "pj" -> 5 [] op.k = "rec" -> 4
      [] op.k = "ret" -> 1 [] op.k = "movr" /\ op.w = 4 -> 3
      [] OTHER -> -1

(* The index execution continues at after a jump of n bytes that follows *)
(* code[j - 1], or 0 if no instruction boundary lies n bytes on.          *)
RECURSIVE SkipBytes(_, _, _)
SkipBytes(code, j, n) ==
    IF n = 0 THEN j
    ELSE IF j > Len(code) \/ OpSize(code[j]) < 0 \/ OpSize(code[j]) > n THEN 0
    ELSE SkipBytes(code, j + 1, n - OpSize(code[j]))

Next1(h, j) == [h |-> h, j |-> j + 1, out |-> "", addr |-> 0]
Stop(h, j, out, a) == [h |-> h, j |-> j, out |-> out, addr |-> a]
Jump(h, code, j, taken, n) ==
    LET t == IF taken THEN SkipBytes(code, j + 1, n) ELSE j + 1
    IN IF t = 0 THEN Stop(h, j, "wild", 0) ELSE [Next1(h, j) EXCEPT !.j = t]
SetR(h, r, w, v) == [h EXCEPT !.r[r] = SetW(@, w, v)]

(* One host instruction code[j] executed in state h.                       *)
HostExec(code, j, h) ==
    LET op == code[j]
        a  == h.r[op.a]   \* used only by the kinds that name a register a
    IN CASE op.k = "movi"  -> Next1(SetR(h, op.a, op.w, op.v), j)
         [] op.k = "movr"  -> Next1(SetR(h, op.a, op.w, h.r[op.b]), j)
         [] op.k = "movsx" -> Next1(SetR(h, op.a, op.w,
                                    SignExtend(h.r[op.b], op.v, op.w)), j)
         [] op.k = "lea"   -> Next1(SetR(h, op.a, 4, h.r[op.b] + op.v), j)
         [] op.k = "bump"  -> Next1(SetR(h, "SP", 4, h.r["SP"] + op.v), j)
         [] op.k = "ld"    -> IF Mapped(h.r[op.b], op.w)
                              THEN Next1(SetR(h, op.a, op.w,
                                         LoadBytes(h.m, h.r[op.b], op.w)), j)
                              ELSE Stop(h, j, "fault", h.r[op.b])
         [] op.k \in {"st", "sti"} ->
                              LET v == IF op.k = "st" THEN h.r[op.b] ELSE op.v
                              IN IF Mapped(a, op.w)
                                 THEN Next1([h EXCEPT !.m =
                                             StoreBytes(@, a, op.w, v)], j)
                                 ELSE Stop(h, j, "fault", a)
         [] op.k \in {"call", "pj"} -> Next1(h, j)
         [] op.k = "rec"   -> Next1([h EXCEPT !.lbp = h.r["BLK"]], j)
         [] op.k = "jcc"   -> Jump(h, code, j, ZF(h.fl), op.v)
         [] op.k = "jecxz" -> Jump(h, code, j, h.r["ECX"] = 0, op.v)
         [] op.k = "pushfq" -> Next1([h EXCEPT !.hs = <<h.fl>> \o @], j)
         [] op.k = "popq"  -> Next1([SetR(h, op.a, 4, Head(h.hs))
                                     EXCEPT !.hs = Tail(@)], j)
         [] op.k = "popfq" -> Next1([h EXCEPT !.fl = Head(h.hs),
                                              !.hs = Tail(@)], j)
         [] op.k = "sthost" -> Next1([h EXCEPT !.hs[1] =
                                        SetW(@, op.w, h.r[op.b])], j)
         [] op.k = "and"   -> LET v == ClearId(a)
                              IN Next1([SetR(h, op.a, 4, v) EXCEPT !.fl =
                                 @ - (@ % 2) + (IF v = 0 THEN 1 ELSE 0)], j)
         [] op.k = "ret"   -> Stop(h, j, "exit", 0)
         [] op.k = "ud2"   -> Stop(h, j, "sigill", 0)
         [] OTHER          -> Stop(h, j, "wild", 0)

(* The guest state the host state stands for (the registers that         *)
(* Process32 saves from the context on a return or a fault).               *)
GuestView(h) ==
    [r  |-> [g \in GuestRegs |-> h.r[VirtualizeStack(g)]],
     fl |-> h.fl, m |-> h.m, eip |-> h.r["PC"]]
-----------------------------------------------------------------------------
(* Reference semantics of the guest instructions (32-bit x86, with the   *)
(* ID flag held at 0 as the POPFD emulation intends). A result is a guest *)
(* state g, a kind (next, exit, syscall, fault, sigill) and an address.   *)
Res(g, k, a) == [g |-> g, k |-> k, addr |-> a]
SetReg(g, r, w, v) == [g EXCEPT !.r[r] = SetW(@, w, v)]
EA(g, o) == (g.r[o.r] + o.d) % W4

(* The value of operand o read at width w, or a fault.                     *)
ReadOp(g, o, w) ==
    CASE o.k = "reg" -> Res(g, "next", g.r[o.r] % W(w))
      [] o.k = "imm" -> Res(g, "next", SignExtend(o.imm, o.w, w))
      [] o.k = "mem" -> IF Mapped(EA(g, o), w)
                        THEN Res(g, "next", LoadBytes(g.m, EA(g, o), w))
                        ELSE Res(g, "fault", EA(g, o))
      [] OTHER -> Res(g, "next", 0)
RefPush(g, w, v) ==
    LET sp == (g.r["ESP"] - w) % W4
    IN IF Mapped(sp, w)
       THEN Res([SetReg(g, "ESP", 4, sp) EXCEPT !.m = StoreBytes(@, sp, w, v)],
                "next", 0)
       ELSE Res(g, "fault", sp)
(* A pop: the value in addr, ESP already raised.                           *)
RefPop(g, w) ==
    LET sp == g.r["ESP"]
    IN IF Mapped(sp, w)
       THEN Res(SetReg(g, "ESP", 4, sp + w), "next", LoadBytes(g.m, sp, w))
       ELSE Res(g, "fault", sp)

RECURSIVE RefPushAll(_, _, _)
RefPushAll(g, w, vs) ==
    IF vs = <<>> THEN Res(g, "next", 0)
    ELSE LET p == RefPush(g, w, Head(vs))
         IN IF p.k = "fault" THEN p ELSE RefPushAll(p.g, w, Tail(vs))
(* Pop into each register of rs in turn; "" discards the value.           *)
RECURSIVE RefPopAll(_, _, _)
RefPopAll(g, w, rs) ==
    IF rs = <<>> THEN Res(g, "next", 0)
    ELSE LET p == RefPop(g, w)
             g1 == IF Head(rs) = "" THEN p.g ELSE SetReg(p.g, Head(rs), w, p.addr)
         IN IF p.k = "fault" THEN p ELSE RefPopAll(g1, w, Tail(rs))

(* Write v to operand o (POP r/m: a memory address uses the raised ESP).  *)
WriteOp(g, o, w, v) ==
    IF o.k = "reg" THEN Res(SetReg(g, o.r, w, v), "next", 0)
    ELSE IF Mapped(EA(g, o), w)
         THEN Res([g EXCEPT !.m = StoreBytes(@, EA(g, o), w, v)], "next", 0)
         ELSE Res(g, "fault", EA(g, o))
Exit(g, pc) == Res([g EXCEPT !.eip = pc], "exit", 0)
Then(p, g2) == IF p.k = "fault" THEN p ELSE g2

RefStep(i, g) ==
    LET w == i.w
        v == ReadOp(g, i.o, IF i.o.k = "none" THEN 4 ELSE w)
        AllRegs == <<"EAX", "ECX", "EDX", "EBX", "ESP", "EBP", "ESI", "EDI">>
    IN CASE i.op = "PUSH" -> Then(v, RefPush(g, w, v.addr))
         [] i.op = "POP" -> LET p == RefPop(g, w)
                            IN Then(p, WriteOp(p.g, i.o, w, p.addr))
         [] i.op \in {"PUSHA", "PUSHAD"} ->
               RefPushAll(g, IF i.op = "PUSHA" THEN 2 ELSE 4,
                          [k \in 1..8 |-> g.r[AllRegs[k]]])
         [] i.op \in {"POPA", "POPAD"} ->
               RefPopAll(g, IF i.op = "POPA" THEN 2 ELSE 4,
                         <<"EDI", "ESI", "EBP", "", "EBX", "EDX", "ECX", "EAX">>)
         [] i.op \in {"PUSHF", "PUSHFD"} -> RefPush(g, w, g.fl)
         [] i.op \in {"POPF", "POPFD"} ->
               LET p == RefPop(g, w)
               IN Then(p, Res([p.g EXCEPT !.fl = IF w = 4 THEN ClearId(p.addr)
                                                 ELSE SetW(@, w, p.addr)],
                              "next", 0))
         [] i.op = "LEAVE" ->
               RefPopAll(SetReg(g, "ESP", w, g.r["EBP"]), w, <<"EBP">>)
         [] i.op = "MOV" -> Then(v, Res(SetReg(g, i.r, w, v.addr), "next", 0))
         [] i.op = "NOP" -> Res(g, "next", 0)
         [] i.op = "JMP" ->
               IF i.o.k = "brdisp" THEN Exit(g, TargetPC(i))
               ELSE Then(v, Exit(g, v.addr))
         [] i.op = "CALL_NEAR" ->
               LET t == IF i.o.k = "brdisp" THEN TargetPC(i) ELSE v.addr
                   p == RefPush(g, 4, EndPC(i))
               IN Then(v, Then(p, Exit(p.g, t)))
         [] i.op = "RET_NEAR" ->
               LET p == RefPop(g, 4)
               IN Then(p, Exit(SetReg(p.g, "ESP", 4, p.g.r["ESP"] + i.o.imm),
                               p.addr))
         [] i.op = "JZ" -> Exit(g, IF ZF(g.fl) THEN TargetPC(i) ELSE EndPC(i))
         [] i.op = "JCXZ" ->
               Exit(g, IF g.r["ECX"] % W(2) = 0 THEN TargetPC(i) ELSE EndPC(i))
         [] i.op = "INT" /\ i.o.imm = 128 ->
               Res([g EXCEPT !.eip = EndPC(i)], "syscall", 0)
         [] OTHER -> Res(g, "sigill", 0)

(* The guest runs the block app from state g: a fault or an undefined    *)
(* instruction stops it with eip at that instruction; a block that ends  *)
(* without a control-flow instruction falls through to its end.           *)
RECURSIVE RefRun(_, _)
RefRun(app, g) ==
    IF app = <<>> THEN Exit(g, g.eip)
    ELSE LET i == Head(app)
             s == RefStep(i, [g EXCEPT !.eip = i.pc])
         IN CASE s.k = "next" ->
                   IF Tail(app) = <<>> THEN Exit(s.g, EndPC(i))
                   ELSE RefRun(Tail(app), s.g)
              [] s.k \in {"fault", "sigill"} ->
                   Res([s.g EXCEPT !.eip = i.pc], s.k, s.addr)
              [] OTHER -> s
-----------------------------------------------------------------------------
VARIABLES
    phase,       \* decode, encode, loop, run, done
    bpc,         \* the block's start PC (Block::start_app_pc)
    g0,          \* the guest registers and flags at entry
    app,         \* Block::app_instructions
    stack,       \* Block::cache_instructions, in encoded order
    ai,          \* the loop's ainstr, as an index into app (0: done)
    val,         \* the index::Value flags Encode computes
    hasSyscall,  \* Block::has_syscall
    hasError,    \* Block::has_error
    code,        \* the encoded code, padding first
    hpc,         \* index in code of the next host instruction
    h,           \* the host CPU state
    out          \* how the run of the code ended

vars == <<phase, bpc, g0, app, stack, ai, val, hasSyscall, hasError, code,
          hpc, h, out>>

NoVal == [one |-> FALSE, sys |-> FALSE, err |-> FALSE]
Guest(x, pc) == [r |-> x.r, fl |-> x.fl, m |-> InitMem, eip |-> pc]
AddsError(adds) == \E k \in DOMAIN adds : adds[k].k = "ud2"

Init ==
    /\ bpc \in BlockPCs
    /\ g0 \in InitGuests
    /\ phase = "decode"
    /\ app = <<>> /\ stack = <<>> /\ ai = 0 /\ val = NoVal
    /\ hasSyscall = FALSE /\ hasError = FALSE
    /\ code = <<>> /\ hpc = 0 /\ h = [r |-> [x \in HostRegs |-> 0], fl |-> 0,
                                      m |-> InitMem, hs |-> <<>>, lbp |-> 0]
    /\ out = [k |-> "", addr |-> 0]

(* Block::Decode at the block's PC (Block::DoDecode).                      *)
Decode ==
    LET d == DoDecode(bpc, 0) IN
    /\ phase = "decode"
    /\ app' = d.app /\ hasError' = d.err /\ phase' = "encode"
    /\ UNCHANGED <<bpc, g0, stack, ai, val, hasSyscall, code, hpc, h, out>>

(* Mutant: an indirect jump also counts as having one successor.         *)
HasOneSuccessorAnyJump(c) ==
    IsDirectJump(c) \/ IsIndirectJump(c) \/ IsDirectFunctionCall(c)
(* has_one_successor of a block ending in an emulated CFI.                *)
HasOneSuccessor(c) == IsDirectJump(c) \/ IsDirectFunctionCall(c)

(* Block::Encode up to its loop: EndBlock, then the last instruction as a *)
(* control-flow instruction or a fall-through.                             *)
EncodeTail ==
    LET s0 == Emit(<<>>, EndBlock)
        c  == Last(app)
        e  == EmulateCFI(c)
        sys == IsSystemCall(c) \/ (c.op = "INT" /\ c.o.imm = 128)
    IN /\ phase = "encode"
       /\ phase' = "loop"
       /\ IF app = <<>>
          THEN /\ stack' = Emit(s0, LoadImm("PC", bpc))
               /\ val' = [NoVal EXCEPT !.err = TRUE]
               /\ ai' = 0 /\ UNCHANGED <<hasSyscall, hasError>>
          ELSE /\ hasSyscall' = sys
               /\ hasError' = (hasError \/ AddsError(e.adds))
               /\ IF e.cfi
                  THEN /\ stack' = Emit(Emit(s0, e.adds), LoadImm("PC", c.pc))
                       /\ val' = [one |-> HasOneSuccessor(c),
                                  sys |-> sys, err |-> FALSE]
                       /\ ai' = Len(app) - 1
                  ELSE /\ stack' = Emit(s0, e.adds)
                       /\ val' = [one |-> ~IsSerializing(c), sys |-> FALSE,
                                  err |-> IsUndefined(c)]
                       /\ ai' = Len(app)
       /\ UNCHANGED <<bpc, g0, app, code, hpc, h, out>>

(* One iteration of the loop of Block::Encode over the remaining          *)
(* instructions, last to first: Emulate or else Virtualize, InstrumentPC  *)
(* (no instrumentation ids are registered), LoadImm of the exact PC.      *)
EncodeInstr ==
    LET i    == app[ai]
        e    == Emulate(i)
        adds == (IF e.ok THEN e.adds ELSE Virtualize(i)) \o LoadImm("PC", i.pc)
    IN /\ phase = "loop" /\ ai >= 1
       /\ stack' = Emit(stack, adds)
       /\ hasError' = (hasError \/ AddsError(adds))
       /\ ai' = ai - 1
       /\ UNCHANGED <<phase, bpc, g0, app, val, hasSyscall, code, hpc, h, out>>

(* The rest of Block::Encode: the block id on entry, INT3 padding to an  *)
(* 8-byte boundary, the encoding, has_error into ends_with_error; then    *)
(* cache::Call starts the code at its entry with the guest's registers.   *)
EncodeFinish ==
    \E extra \in CacheAlignments :
      LET pads == IF extra = 0 THEN 0 ELSE 8 - extra
          s1   == Emit(stack, LoadImm("BLK", bpc))
          enc  == Emit(s1, [k \in 1..pads |-> H("int3", "", "", 0, 0)])
          aborted == \E k \in DOMAIN enc : enc[k].k = "abort"
      IN /\ phase = "loop" /\ ai = 0
         /\ code' = enc /\ hpc' = pads + 1
         /\ val' = [val EXCEPT !.err = @ \/ hasError]
         /\ h' = [r |-> [x \in HostRegs |->
                         CASE x \in GuestRegs -> g0.r[x]
                           [] x = "SP" -> g0.r["ESP"]
                           [] x = "PC" -> bpc
                           [] OTHER -> 0],
                  fl |-> g0.fl, m |-> InitMem, hs |-> <<>>, lbp |-> 0]
         /\ IF aborted
            THEN phase' = "done" /\ out' = [k |-> "abort", addr |-> 0]
            ELSE phase' = "run" /\ UNCHANGED out
         /\ UNCHANGED <<bpc, g0, app, stack, ai, hasSyscall, hasError>>

(* The host CPU runs one instruction of the code cache.                    *)
HostStep ==
    LET s == HostExec(code, hpc, h) IN
    /\ phase = "run"
    /\ h' = s.h /\ hpc' = s.j
    /\ IF s.out = "" THEN UNCHANGED <<phase, out>>
       ELSE phase' = "done" /\ out' = [k |-> s.out, addr |-> s.addr]
    /\ UNCHANGED <<bpc, g0, app, stack, ai, val, hasSyscall, hasError, code>>

Next == Decode \/ EncodeTail \/ EncodeInstr \/ EncodeFinish \/ HostStep

Spec == Init /\ [][Next]_vars
-----------------------------------------------------------------------------
(* Every variable holds a value of its type.                               *)
EncodeTypeOK ==
    /\ phase \in {"decode", "encode", "loop", "run", "done"}
    /\ bpc \in BlockPCs /\ g0 \in InitGuests
    /\ ai \in 0..MaxInstructionsPerBlock
    /\ val \in [one : BOOLEAN, sys : BOOLEAN, err : BOOLEAN]
    /\ hasSyscall \in BOOLEAN /\ hasError \in BOOLEAN
    /\ h.r \in [HostRegs -> 0..(W4 - 1)] /\ h.fl \in 0..(W4 - 1)
    /\ out.k \in {"", "exit", "fault", "sigill", "wild", "abort"}

RefOf(x) == RefRun(app, Guest(x, bpc))
HostKind(k) == IF k = "syscall" THEN "exit" ELSE k

(* The code cache does what the guest block does. When the encoded code  *)
(* returns to the dispatcher, the guest registers (ESP in R9), the flags, *)
(* the stack memory and the next PC in R10 are those of the guest running *)
(* the block; a block that faults, faults at the same access with R10 at *)
(* the faulting instruction (CatchFault reports R10 as the guest PC, and  *)
(* Encode's comment at block.cc:1055 keeps the CFI's PC for such faults); *)
(* a block that reaches an undefined instruction traps with R10 at that   *)
(* instruction. This covers the reverse order of InstructionStack, the    *)
(* stack pointer arithmetic of the push/pop emulations, the skip          *)
(* distances of the virtualized branches and the flag masking of POPFD.   *)
TranslationMatchesReference ==
    phase = "done" =>
        LET ref == RefOf(g0) IN
        /\ out.k = HostKind(ref.k)
        /\ out.k = "exit"   => GuestView(h) = ref.g
        /\ out.k = "sigill" => h.r["PC"] = ref.g.eip
        /\ out.k = "fault"  => out.addr = ref.addr /\ h.r["PC"] = ref.g.eip

(* The index::Value flags that Encode derives from the last instruction  *)
(* are true of every run of the block: a block marked has_one_successor  *)
(* (which traces chain through, trace.cc:17) exits to one PC whatever the *)
(* guest registers; a block that exits does so into a system call exactly *)
(* when it is marked ends_with_syscall (execute.cc:148); and a block that *)
(* can reach an undefined instruction is marked ends_with_error, which    *)
(* keeps it out of the inline cache and ends traces at it.                *)
IndexValueSound ==
    phase = "done" =>
        /\ val.one => \A x, y \in InitGuests :
                        (RefOf(x).k = "exit" /\ RefOf(y).k = "exit")
                        => RefOf(x).g.eip = RefOf(y).g.eip
        /\ \A x \in InitGuests :
             /\ RefOf(x).k \in {"exit", "syscall"} =>
                  (val.sys <=> RefOf(x).k = "syscall")
             /\ RefOf(x).k = "sigill" => val.err

(* The host stack is as cache::Call left it whenever the code returns to  *)
(* the dispatcher: the PUSHFQ of every flags emulation is matched by a    *)
(* pop, or the RET of EndBlock would return to a flags word.              *)
HostStackBalanced == out.k = "exit" => h.hs = <<>>
=============================================================================
