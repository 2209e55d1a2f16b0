----------------------------- MODULE PageTable -----------------------------
(***************************************************************************)
(* The page-range table of one emulated 32-bit process (Process32 in      *)
(* src/granary/os/process.cc) together with the host protections of the   *)
(* guest pages and the fault handler that moves pages between states      *)
(* (CatchFault in src/granary/os/schedule.cc).                            *)
(*                                                                         *)
(* Addresses are page numbers: page p stands for [p*4096, (p+1)*4096).    *)
(* A page's content is abstracted to a version number that every store    *)
(* increments; a freshly mmapped page holds version 0 (all zeroes).       *)
(* The address-space state is handled as a record AS so that the code's   *)
(* helpers (TryChangeState, TryLazyMap, HashPageRange, ...) are operators  *)
(* from a state to a state and an action can chain them like the code.    *)
(***************************************************************************)
EXTENDS Integers, FiniteSets, Sequences, SequencesExt

CONSTANTS
    MaxAddress,     \* kMaxAddress (page.h) as a page number
    TaskSize,       \* kTaskSize (page.h) as a page number
    MagicPage,      \* kMagicPageBegin (page.h) as a page number
    Snapshot,       \* the snapshot's mapped ranges (MappedRange32 records)
    EntryPC,        \* the page of the snapshot's EIP
    MaxVersion,     \* bound: stores to one page
    AllocSizes,     \* inputs: page counts passed to allocate
    AllocIsX,       \* inputs: values of allocate's is_executable flag
    DeallocSizes,   \* inputs: page counts passed to deallocate
    AccessPages,    \* inputs: pages the guest loads from and stores to
    MaxNumSyscalls  \* kMaxNumSyscalls (schedule.cc): bound on system calls

ASSUME MaxAddress < TaskSize /\ MagicPage < MaxAddress
ASSUME \A m \in Snapshot : m.begin <= m.lazy_begin /\ m.lazy_begin <= m.end

Addr == 0..TaskSize - 1
PermsSet == {"Invalid", "RO", "RW", "RWX", "RX"}
StateSet == {"Reserved", "RO", "RW", "RX"}
ProtSet == {"NONE", "R", "RW", "RX"}

VARIABLES
    pages,                \* Process32::pages, the vector of PageRange32
    prot,                 \* host protection of every guest page
    mem,                  \* content version of every guest page
    page_hash_is_valid,   \* Process32::page_hash_is_valid
    page_hash,            \* Process32::page_hash
    status,               \* "running", "faulted" (guest fault) or "aborted"
    fault,                \* the access that faulted the guest, or NoFault
    num_syscalls          \* Schedule's count of system calls made

ptVars == <<pages, prot, mem, page_hash_is_valid, page_hash, status, fault,
            num_syscalls>>

NoFault == [addr |-> -1, kind |-> "none"]

(* BeginState and PermsToProt of process.cc. *)
BeginState(perms) ==
    CASE perms = "Invalid" -> "Reserved"
      [] perms = "RO"      -> "RO"
      [] perms = "RW"      -> "RW"
      [] perms = "RWX"     -> "RW"
      [] perms = "RX"      -> "RX"

PermsToProt(perms) ==
    CASE perms = "Invalid" -> "NONE"
      [] perms = "RO"      -> "R"
      [] perms \in {"RW", "RWX"} -> "RW"
      [] perms = "RX"      -> "RX"

(* MappedRange32::Perms of snapshot.cc. *)
SnapshotPerms(m) ==
    IF m.is_w /\ m.is_x THEN "RWX"
    ELSE IF m.is_x THEN "RX"
    ELSE IF m.is_w THEN "RW"
    ELSE "RO"

(* Protection by state, as CopyFromFileIntoMem, TryLazyMap and the split   *)
(* path of TryChangeState compute it: PROT_READ, plus WRITE for kRW.      *)
StateProt(state) ==
    CASE state = "Reserved" -> "NONE"
      [] state = "RW"       -> "RW"
      [] OTHER              -> "R"

Readable(pr) == pr \in {"R", "RW", "RX"}
Permits(pr, kind) == IF kind = "write" THEN pr = "RW" ELSE Readable(pr)

Covers(r, a) == r.base <= a /\ a < r.limit
Span(r) == r.base..(r.limit - 1)

(* A PageRange32 with an invalid range hash. *)
PageRange32(base, limit, lazy, perms, state) ==
    [base |-> base, limit |-> limit, lazy_base |-> lazy, perms |-> perms,
     state |-> state, hash_is_valid |-> FALSE, hash |-> <<>>]

(* FindRange: the range containing an address (ranges never overlap, see *)
(* the invariant RangesDisjoint, so the first match is the only one).     *)
HasRange(s, a) == \E r \in s.pages : Covers(r, a)
FindRange(s, a) == CHOOSE r \in s.pages : Covers(r, a)

AS == [pages |-> pages, prot |-> prot, valid |-> page_hash_is_valid,
       hash |-> page_hash, mem |-> mem]

(* HashRange: seeded with the range base, digests each readable page.    *)
HashRange(s, r) ==
    <<r.base, [i \in 1..(r.limit - r.base) |->
                 IF Readable(s.prot[r.base + i - 1])
                 THEN s.mem[r.base + i - 1] ELSE -1]>>

(* HashPageRange: rehash every RX range whose hash is invalid, then digest *)
(* pages.size() and the hashes of the RX ranges.                          *)
HashPageRange(s) ==
    LET rehashed == {IF r.state = "RX" /\ ~r.hash_is_valid
                     THEN [r EXCEPT !.hash_is_valid = TRUE,
                                    !.hash = HashRange(s, r)]
                     ELSE r : r \in s.pages}
    IN [s EXCEPT !.pages = rehashed,
                 !.valid = TRUE,
                 !.hash = <<Cardinality(rehashed),
                            {r.hash : r \in {q \in rehashed : q.state = "RX"}}>>]

(* Process32::PageHash: the cached hash, or a fresh one.                   *)
PageHash(s) == IF s.valid THEN s ELSE HashPageRange(s)

(* TryChangeState(addr32, old_state, new_state): succeeds iff a range     *)
(* contains the page and is in old_state.                                  *)
CanChangeState(s, a, old) == HasRange(s, a) /\ FindRange(s, a).state = old

ChangedState(s, a, old, new) ==
    LET r == FindRange(s, a) IN
    IF a = r.base
    THEN \* in place: new state, range hash cleared, nothing else
         [s EXCEPT !.pages = (@ \ {r}) \cup
                      {[r EXCEPT !.state = new, !.hash_is_valid = FALSE,
                                 !.hash = <<>>]}]
    ELSE \* split into [base, a) in old_state and [a, limit) in new_state
         LET lazied == r.base # r.lazy_base
             low  == PageRange32(r.base, a,
                           IF lazied THEN Min({a, r.lazy_base}) ELSE r.base,
                           r.perms, old)
             high == PageRange32(a, r.limit,
                           IF lazied THEN Max({a, r.lazy_base}) ELSE a,
                           r.perms, new)
         IN [pages |-> (s.pages \ {r}) \cup {low, high},
             prot  |-> [p \in Addr |-> IF a <= p /\ p < r.limit
                                       THEN StateProt(new) ELSE s.prot[p]],
             valid |-> FALSE,
             hash  |-> <<>>,
             mem   |-> s.mem]

(* TryLazyMap(addr32): maps the one page just below lazy_base.             *)
CanLazyMap(s, a) ==
    /\ HasRange(s, a)
    /\ LET r == FindRange(s, a) IN
         r.lazy_base # r.base /\ r.lazy_base - 1 = a

LazyMapped(s, a) ==
    LET r == FindRange(s, a) IN
    [s EXCEPT !.pages = (@ \ {r}) \cup {[r EXCEPT !.lazy_base = a]},
              !.prot[a] = StateProt(r.state)]

(* CatchFault: `TryLazyMap(addr) || TryMakeWritable(addr)`; when neither  *)
(* succeeds the handler falls through to RecoverFromTryReadWrite or to    *)
(* the guest's bad block.                                                  *)
FaultHandled(s, a) == CanLazyMap(s, a) \/ CanChangeState(s, a, "RX")
AfterFault(s, a) ==
    IF CanLazyMap(s, a) THEN LazyMapped(s, a) ELSE ChangedState(s, a, "RX", "RW")

(* An access retried after every fault the handler resolves, as the      *)
(* faulting instruction is re-executed when CatchFault returns. Each      *)
(* resolution maps a page or leaves kRX, so MaxFaultRounds rounds suffice. *)
MaxFaultRounds == 3
RECURSIVE Access(_, _, _, _)
Access(s, a, kind, fuel) ==
    IF Permits(s.prot[a], kind) THEN [s |-> s, ok |-> TRUE]
    ELSE IF fuel > 0 /\ FaultHandled(s, a)
         THEN Access(AfterFault(s, a), a, kind, fuel - 1)
         ELSE [s |-> s, ok |-> FALSE]

(* AllocateFromHighMem: scan the ranges sorted by descending base (the    *)
(* std::sort in Allocate, PageRange32::operator<) for the first gap below *)
(* a range that fits, stopping at the zero page; ranges above kMaxAddress *)
(* (the stack) are skipped. Returns the new base, or 0 when out of space. *)
RECURSIVE DescendingByBase(_)
DescendingByBase(S) ==
    IF S = {} THEN <<>>
    ELSE LET top == CHOOSE r \in S : \A q \in S : q.base <= r.base
         IN <<top>> \o DescendingByBase(S \ {top})

SortedRanges(s) == DescendingByBase(s.pages)

(* Mutant: a gap of exactly n pages is refused (>= for >).                  *)
RECURSIVE HighMemFitNoExactFit(_, _, _)
HighMemFitNoExactFit(seq, i, n) ==
    IF i > Len(seq) \/ seq[i].base = 0 THEN 0
    ELSE IF seq[i].base > MaxAddress THEN HighMemFitNoExactFit(seq, i + 1, n)
    ELSE IF n > seq[i].base THEN 0
    ELSE IF n >= seq[i].base - seq[i + 1].limit
         THEN HighMemFitNoExactFit(seq, i + 1, n)
    ELSE seq[i].base - n

RECURSIVE HighMemFit(_, _, _)
HighMemFit(seq, i, n) ==
    IF i > Len(seq) \/ seq[i].base = 0 THEN 0
    ELSE IF seq[i].base > MaxAddress THEN HighMemFit(seq, i + 1, n)
    ELSE IF n > seq[i].base THEN 0
    ELSE IF n > seq[i].base - seq[i + 1].limit THEN HighMemFit(seq, i + 1, n)
    ELSE seq[i].base - n

AllocateFromHighMem(s, n) == HighMemFit(SortedRanges(s), 1, n)

(* Mutant: the new range and its mapping reach one page too far.          *)
AllocatedOverrun(s, a, n, perms) ==
    [pages |-> s.pages \cup {PageRange32(a, a + n + 1, a, perms, BeginState(perms))},
     prot  |-> [p \in Addr |-> IF a <= p /\ p < a + n + 1
                               THEN PermsToProt(perms) ELSE s.prot[p]],
     valid |-> FALSE, hash |-> <<>>, mem |-> s.mem]

(* Process32::Allocate once AllocateFromHighMem found base a: record the  *)
(* range, mmap it zero-filled with PermsToProt, and invalidate the page    *)
(* hash when the pages may hold code.                                      *)
Allocated(s, a, n, perms) ==
    [pages |-> s.pages \cup {PageRange32(a, a + n, a, perms, BeginState(perms))},
     prot  |-> [p \in Addr |-> IF a <= p /\ p < a + n
                               THEN PermsToProt(perms) ELSE s.prot[p]],
     valid |-> IF perms \in {"RX", "RWX"} THEN FALSE ELSE s.valid,
     hash  |-> IF perms \in {"RX", "RWX"} THEN <<>> ELSE s.hash,
     mem   |-> s.mem]

(* Process32::Deallocate(addr32, num_bytes), e = addr32 + num_bytes: each  *)
(* range is kept, dropped, or cut into the parts outside [a, e).           *)
Untouched(r, a, e) ==
    \/ r.perms = "Invalid" \/ r.state = "Reserved"
    \/ a >= r.limit \/ e <= r.base
Contained(r, a, e) == a <= r.base /\ r.limit <= e

LowPart(r, a) ==
    PageRange32(r.base, a,
                IF r.base # r.lazy_base THEN Min({a, r.lazy_base}) ELSE r.base,
                r.perms, r.state)
HighPart(r, e) ==
    PageRange32(e, r.limit,
                IF r.base # r.lazy_base THEN Max({e, r.lazy_base}) ELSE e,
                r.perms, r.state)

KeptParts(r, a, e) ==
    CASE Untouched(r, a, e)  -> {r}
      [] Contained(r, a, e)  -> {}
      [] a = r.base          -> {HighPart(r, e)}
      [] e = r.limit         -> {LowPart(r, a)}
      [] OTHER               -> {LowPart(r, a), HighPart(r, e)}

Unmapped(r, a, e) ==
    CASE Untouched(r, a, e)  -> {}
      [] Contained(r, a, e)  -> Span(r)
      [] a = r.base          -> a..(e - 1)
      [] e = r.limit         -> a..(r.limit - 1)
      [] OTHER               -> a..(e - 1)

(* CheckConsistency: base <= lazy_base <= limit for every range.           *)
Consistent(rs) == \A r \in rs : r.base <= r.lazy_base /\ r.lazy_base <= r.limit

(* Mutant: the removed pages are left mapped (munmap skipped).            *)
DeallocatedNoUnmap(s, a, e) ==
    [s EXCEPT !.pages = UNION {KeptParts(r, a, e) : r \in s.pages}]

Deallocated(s, a, e) ==
    LET kept  == UNION {KeptParts(r, a, e) : r \in s.pages}
        gone  == UNION {Unmapped(r, a, e) : r \in s.pages}
        inval == \E r \in s.pages :
                    /\ ~Untouched(r, a, e) /\ r.hash_is_valid
                    /\ r.perms \in {"RX", "RWX"}
    IN [pages |-> kept,
        prot  |-> [p \in Addr |-> IF p \in gone THEN "NONE" ELSE s.prot[p]],
        valid |-> s.valid /\ ~inval,
        hash  |-> IF s.valid /\ inval THEN <<>> ELSE s.hash,
        mem   |-> s.mem]

(* Store the address-space record back into the variables.                 *)
SetAS(s) ==
    /\ pages' = s.pages
    /\ prot' = s.prot
    /\ page_hash_is_valid' = s.valid
    /\ page_hash' = s.hash


-----------------------------------------------------------------------------
(* Process32::Process32 from a snapshot file with ranges snap, page       *)
(* contents data and saved PC pc: InitSnapshotPages, InitPages, then      *)
(* TryMakeExecutable() at the PC and HashPageRange().                      *)
SnapshotState(m, pc) ==
    IF m.is_x /\ m.is_w /\ m.begin <= pc /\ pc < m.end
    THEN "RX" ELSE BeginState(SnapshotPerms(m))

SnapshotRanges(snap, pc) ==
    {PageRange32(m.begin, m.end, m.lazy_begin, SnapshotPerms(m),
                 SnapshotState(m, pc)) : m \in snap}

InitPages ==
    {PageRange32(0, 1, 0, "Invalid", "Reserved"),
     PageRange32(MaxAddress, MaxAddress, MaxAddress, "Invalid", "Reserved")}

(* CopyFromFileIntoMem: [lazy_begin, end) mapped by state, the rest none. *)
SnapshotProt(snap, pc) ==
    [p \in Addr |->
        IF \E m \in snap : m.lazy_begin <= p /\ p < m.end
        THEN LET m == CHOOSE m \in snap : m.lazy_begin <= p /\ p < m.end
             IN StateProt(SnapshotState(m, pc))
        ELSE "NONE"]

ReviveAS(snap, data, pc) ==
    LET s0 == [pages |-> SnapshotRanges(snap, pc) \cup InitPages,
               prot |-> SnapshotProt(snap, pc),
               valid |-> FALSE, hash |-> <<>>, mem |-> data]
        s1 == IF CanChangeState(s0, pc, "RW")
              THEN ChangedState(s0, pc, "RW", "RX") ELSE s0
    IN HashPageRange(s1)

(* GetRanges of decree_user/snapshot.cc over the lines of the traced      *)
(* binary's /proc/<pid>/maps, each abstracted to a record [begin, end,    *)
(* r, w, x, private, special] (special: a bracketed name other than       *)
(* [heap]). Special and shared lines are skipped; a range of more than   *)
(* one page holding the EIP past its first page is cut at the EIP's page *)
(* so that text and data of one rwx segment become two ranges.           *)
MapsRange(l, b, e) ==
    [begin |-> b, end |-> e, lazy_begin |-> b,
     is_r |-> l.r, is_w |-> l.w, is_x |-> l.x]

GetRanges(maps, eip) ==
    UNION {IF l.begin + 1 <= eip /\ eip < l.end /\ 1 < l.end - l.begin
           THEN {MapsRange(l, l.begin, eip), MapsRange(l, eip, l.end)}
           ELSE {MapsRange(l, l.begin, l.end)} :
           l \in {m \in maps : ~m.special /\ m.private}}

(* InitSnapshotFile: the readable ranges of GetRanges, then the rwx stack *)
(* [kStackBegin, kStackEnd) of which only the top kMappedStackSize is     *)
(* present (lazy_begin).                                                   *)
InitSnapshotFile(maps, eip, stackBegin, stackEnd, mappedStack) ==
    {m \in GetRanges(maps, eip) : m.is_r}
    \cup {[begin |-> stackBegin, end |-> stackEnd,
           lazy_begin |-> stackEnd - mappedStack,
           is_r |-> TRUE, is_w |-> TRUE, is_x |-> TRUE]}

(* Snapshot32::Create(process), taken by terminate and transmit with      *)
(* --output_snapshot_dir: one MappedRange32 per usable non-empty range     *)
(* (perms kept as is_w/is_x, lazy_begin as lazy_base), its bytes below    *)
(* lazy_base written as zeroes and the rest copied from guest memory.     *)
Usable(r) == r.perms # "Invalid" /\ r.state # "Reserved" /\ r.limit > r.base

(* Mutant: the demand-mapped prefix is saved as present.                  *)
SnapshotCreateNoLazy(s) ==
    LET us == {r \in s.pages : Usable(r)}
    IN [ranges |-> {[begin |-> r.base, end |-> r.limit, lazy_begin |-> r.base,
                     is_r |-> TRUE, is_w |-> r.perms \in {"RW", "RWX"},
                     is_x |-> r.perms \in {"RWX", "RX"}] : r \in us},
        data   |-> [p \in Addr |->
                      IF \E r \in us : r.base <= p /\ p < r.limit
                      THEN s.mem[p] ELSE 0]]

SnapshotCreate(s) ==
    LET us == {r \in s.pages : Usable(r)}
    IN [ranges |-> {[begin |-> r.base, end |-> r.limit, lazy_begin |-> r.lazy_base,
                     is_r |-> TRUE, is_w |-> r.perms \in {"RW", "RWX"},
                     is_x |-> r.perms \in {"RWX", "RX"}] : r \in us},
        data   |-> [p \in Addr |->
                      IF \E r \in us : r.lazy_base <= p /\ p < r.limit
                      THEN s.mem[p] ELSE 0]]

(* The snapshot the emulator starts from: its data is zero pages.          *)
InitAS == ReviveAS(Snapshot, [p \in Addr |-> 0], EntryPC)

ptInit ==
    /\ pages = InitAS.pages
    /\ prot = InitAS.prot
    /\ page_hash_is_valid = InitAS.valid
    /\ page_hash = InitAS.hash
    /\ mem = InitAS.mem
    /\ status = "running"
    /\ fault = NoFault
    /\ num_syscalls = 0

-----------------------------------------------------------------------------
(* Mutant: Schedule's limit check lets one more system call through.      *)
SyscallAllowedOffByOne == num_syscalls <= MaxNumSyscalls

(* Schedule: `if (num_syscalls++ >= kMaxNumSyscalls) break;`               *)
SyscallAllowed == num_syscalls < MaxNumSyscalls

(* The allocate system call (syscall.cc Allocate) for n pages, executable *)
(* iff is_x, storing the address through the guest pointer `out` (0 for   *)
(* NULL). ENOMEM leaves everything unchanged; a store to `out` that still *)
(* faults after CatchFault returns EFAULT after deallocating the range.   *)
SysAllocate(n, is_x, out) ==
    LET perms == IF is_x THEN "RWX" ELSE "RW"
        a     == AllocateFromHighMem(AS, n)
        s1    == Allocated(AS, a, n, perms)
        mem1  == [p \in Addr |-> IF a <= p /\ p < a + n THEN 0 ELSE mem[p]]
        w     == Access(s1, out, "write", MaxFaultRounds)
        s2    == Deallocated(w.s, a, a + n)
    IN /\ status = "running"
       /\ SyscallAllowed
       /\ num_syscalls' = num_syscalls + 1
       /\ a # 0
       /\ out # 0 => mem1[out] < MaxVersion
       /\ CASE out = 0 ->
                 SetAS(s1) /\ mem' = mem1 /\ UNCHANGED status
             [] w.ok ->
                 SetAS(w.s) /\ mem' = [mem1 EXCEPT ![out] = @ + 1]
                 /\ UNCHANGED status
             [] OTHER ->
                 SetAS(s2) /\ mem' = mem1
                 /\ status' = IF Consistent(s2.pages) THEN "running" ELSE "aborted"
       /\ UNCHANGED fault

(* The deallocate system call (syscall.cc Deallocate) of n pages at a.    *)
(* The EINVAL checks are its guard; a failed CheckConsistency after the   *)
(* split (GRANARY_ASSERT, always compiled in) aborts the emulator.        *)
SysDeallocate(a, n) ==
    LET s1 == Deallocated(AS, a, a + n) IN
    /\ status = "running"
    /\ SyscallAllowed
    /\ num_syscalls' = num_syscalls + 1
    /\ a < TaskSize
    /\ n <= TaskSize - a
    /\ a + n <= MagicPage \/ a >= MagicPage + 1
    /\ SetAS(s1)
    /\ status' = IF Consistent(s1.pages) THEN "running" ELSE "aborted"
    /\ UNCHANGED <<mem, fault>>

(* A load or store by translated guest code. A fault CatchFault cannot   *)
(* resolve sends the guest to its bad block: the process faults.         *)
GuestAccess(a, kind) ==
    LET w == Access(AS, a, kind, MaxFaultRounds) IN
    /\ status = "running"
    /\ kind = "write" => mem[a] < MaxVersion
    /\ SetAS(w.s)
    /\ IF w.ok
       THEN /\ mem' = IF kind = "write" THEN [mem EXCEPT ![a] = @ + 1] ELSE mem
            /\ UNCHANGED <<status, fault>>
       ELSE /\ status' = "faulted"
            /\ fault' = [addr |-> a, kind |-> kind]
            /\ UNCHANGED mem
    /\ UNCHANGED num_syscalls

(* Process32::TryWrite from a system call copying data into the guest     *)
(* (receive, random, fdwait). A fault CatchFault cannot resolve is        *)
(* recovered by RecoverFromTryReadWrite and the call returns EFAULT.      *)
SysCopyOut(a) ==
    LET w == Access(AS, a, "write", MaxFaultRounds) IN
    /\ status = "running"
    /\ SyscallAllowed
    /\ num_syscalls' = num_syscalls + 1
    /\ mem[a] < MaxVersion
    /\ SetAS(w.s)
    /\ mem' = IF w.ok THEN [mem EXCEPT ![a] = @ + 1] ELSE mem
    /\ UNCHANGED <<status, fault>>

ptNext ==
    \/ \E n \in AllocSizes, is_x \in AllocIsX, out \in {0} \cup AccessPages :
          SysAllocate(n, is_x, out)
    \/ \E a \in Addr, n \in DeallocSizes : SysDeallocate(a, n)
    \/ \E a \in AccessPages, kind \in {"read", "write"} : GuestAccess(a, kind)
    \/ \E a \in AccessPages : SysCopyOut(a)

ptSpec == ptInit /\ [][ptNext]_ptVars

-----------------------------------------------------------------------------
(* Every variable holds a value of its type.                               *)
TypeOK ==
    /\ \A r \in pages :
          /\ r.base \in Addr \cup {TaskSize} /\ r.limit \in Addr \cup {TaskSize}
          /\ r.lazy_base \in Int /\ r.perms \in PermsSet /\ r.state \in StateSet
          /\ r.hash_is_valid \in BOOLEAN
    /\ prot \in [Addr -> ProtSet]
    /\ mem \in [Addr -> 0..MaxVersion]
    /\ page_hash_is_valid \in BOOLEAN
    /\ status \in {"running", "faulted", "aborted"}
    /\ num_syscalls \in 0..MaxNumSyscalls
    /\ fault \in [addr : Addr \cup {-1}, kind : {"none", "read", "write", "exec"}]

(* No guest page belongs to two page ranges. FindRange returns the first  *)
(* match, so an overlap left by Allocate's gap search or by the range     *)
(* splitting of Deallocate and TryChangeState would make the state of a   *)
(* page depend on the order of the vector.                                 *)
RangesDisjoint ==
    \A r1, r2 \in pages :
        r1 # r2 => \A p \in Addr : ~(Covers(r1, p) /\ Covers(r2, p))

(* The host mappings agree with the page table: a page is mapped only if  *)
(* a range covers it (Deallocate munmaps what it removes), and every page *)
(* of a usable range at or above its lazy_base is mapped (Allocate,       *)
(* TryLazyMap and the splits of Deallocate keep what stays mapped).       *)
HostMappingMatchesRanges ==
    \A p \in Addr :
        /\ prot[p] # "NONE" => \E r \in pages : Covers(r, p)
        /\ (\E r \in pages : Covers(r, p) /\ r.state # "Reserved"
                                /\ p >= r.lazy_base)
           => prot[p] # "NONE"

(* The RWX state machine (spec.md:78) is for executable-writable ranges: *)
(* a range is in kRX only if its permissions include execute, and in kRW *)
(* only if they include write. TryMakeExecutable (from a lookup) and      *)
(* TryMakeWritable (from CatchFault) change the state through             *)
(* TryChangeState, which must not give a range a right its perms lack.    *)
StateWithinPerms ==
    \A r \in pages :
        /\ r.state = "RX" => r.perms \in {"RX", "RWX"}
        /\ r.state = "RW" => r.perms \in {"RW", "RWX"}

(* GRANARY_ASSERT in CheckConsistency never fires: after every change to  *)
(* the page table, each range has base <= lazy_base <= limit. A failed    *)
(* assertion aborts the whole emulator.                                     *)
ConsistencyAssertHolds == status # "aborted"

(* What a page is to the guest: the perms of its range, whether it can   *)
(* be read without a fault, and its contents when it can.                 *)
PageView(s, p) ==
    [perms    |-> IF \E r \in s.pages : Covers(r, p) /\ Usable(r)
                  THEN FindRange(s, p).perms ELSE "Invalid",
     readable |-> Readable(s.prot[p]),
     data     |-> IF Readable(s.prot[p]) THEN s.mem[p] ELSE 0]

(* A snapshot taken at any point (Snapshot32::Create at terminate or      *)
(* transmit) revives (Process32 from the snapshot file) into a process    *)
(* whose every page has the perms, readability and contents it had,      *)
(* however the page table was split by allocate, deallocate, lazy mapping *)
(* and the RX/RW state changes. The state itself may differ: a revived    *)
(* RWX range starts kRW unless it holds the PC.                            *)
SnapshotRevivesPages ==
    LET sn == SnapshotCreate(AS)
        rv == ReviveAS(sn.ranges, sn.data, EntryPC)
    IN status = "running" => \A p \in Addr : PageView(rv, p) = PageView(AS, p)

(* The reference for AllocateFromHighMem: the highest n free pages below  *)
(* kMaxAddress, or 0 when none.                                            *)
Free(p) == ~\E r \in pages : Covers(r, p)
HighestFreeFit(n) ==
    LET fits == {a \in 1..(MaxAddress - n) :
                    \A p \in a..(a + n - 1) : Free(p)}
    IN IF fits = {} THEN 0 ELSE Max(fits)

(* Allocate's descending first-fit scan over the sorted ranges returns    *)
(* the highest free run of n pages below kMaxAddress, for every page      *)
(* table the guest can reach: no gap is skipped and none is overrun.      *)
AllocateIsHighestFit ==
    status = "running" =>
        \A n \in AllocSizes : AllocateFromHighMem(AS, n) = HighestFreeFit(n)
=============================================================================
