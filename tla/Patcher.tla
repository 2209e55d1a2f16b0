------------------------------ MODULE Patcher ------------------------------
(***************************************************************************)
(* The hot-patcher of src/granary/arch/x86/patch.cc with --persist, over   *)
(* the code cache of src/granary/code/cache.cc and the interpreter loop of *)
(* src/granary/code/execute.cc: the array gPatches and gNextPatch, the    *)
(* sweep PatchCode one entry at a time (so that a crash can fall between  *)
(* its writes), AddPatchPoint as the encoder of arch/x86/block.cc calls it *)
(* for the taken and not-taken jumps of a block, the index insert of      *)
(* Execute that follows, the inline cache and the trace recorder that     *)
(* Execute feeds each block it dispatches, TraceRecorder::Build, the bump *)
(* allocator cache::Allocate with ResizeCache, and at shutdown            *)
(* ExitPatcher, index::Exit and cache::Exit, and at the next start        *)
(* InitPatcher, index::Init and cache::Init. gPatches is two pages long,  *)
(* but only its first page (PersistedSlots entries) is mapped MAP_SHARED  *)
(* onto the patch file; the code cache is a MAP_SHARED file too, so       *)
(* patched rel32s and translated code survive any exit, while the index   *)
(* file is written only by index::Exit. A cache slot is the unit of       *)
(* allocation: a block takes one, a trace one per entry.                  *)
(***************************************************************************)
EXTENDS Naturals, Sequences, SequencesExt

CONSTANTS
    NumPatches,      \* kNumPatches
    PatchInterval,   \* kPatchInterval
    PersistedSlots,  \* patch points in the page mapped onto the patch file
    Targets,         \* guest PCs that blocks start at (index keys)
    Succs,           \* patchable successors of a block: <<>>, <<t>> or <<taken, not_taken>>
    MaxBlocks,       \* cache slots in the reserved k250MiB region
    PageBlocks,      \* cache slots in os::kPageSize
    MaxTrace,        \* kMaxNumTraceEntries
    ICEntries,       \* kNumEntries of the inline cache
    ICProbes,        \* kProbesPerEntry
    MaxRuns          \* process starts

ASSUME NumPatches % PatchInterval = 0   \* the static_assert of patch.cc

Slot    == 0..(NumPatches - 1)
Blocks  == 1..MaxBlocks
Cells   == Blocks \X {1, 2}
NoCell  == <<0, 0>>
Zero    == [rel32 |-> NoCell, target |-> 0]

VARIABLES
    gPatches, gNextPatch,
    rel32,        \* the rel32 field of each patchable JMP in the cache file
    index,        \* index::gTable: the cache slot run for each key, or 0
    disk_index,   \* the index file
    next,         \* gNextBlockPC - gBeginSyncPC: slots allocated
    csize,        \* gCacheSize: slots mapped
    fsize,        \* the size of the cache file
    sync,         \* gSyncCache
    blockpc,      \* the guest PC each slot's code was translated for
    traceslots,   \* slots that hold trace code (is_trace_block)
    cell_target,  \* the guest PC each encoded jump goes to (history)
    todo,         \* patch points of the block being encoded not yet added
    cur,          \* the block being encoded, or 0
    found,        \* the key Execute's lookup loop ended with, or 0
    trace,        \* the TraceRecorder's entries [key, val] of this trace
    inline_cache, \* gInlineCache, gNextInlineCacheEntry and kCacheIsEmpty
    phase,        \* "idle", "sweep" (in PatchCode), "exited"
    caller,       \* who called PatchCode: "add" or "exit"
    i, first_free, last_free, sub,   \* PatchCode's loop state
    runs,
    assert_failed  \* GRANARY_ASSERT(!offset_diff) of Patch fired

cacheVars == <<next, csize, fsize, sync, blockpc, traceslots>>
execVars  == <<found, trace, inline_cache>>

pvars == <<gPatches, gNextPatch, rel32, index, disk_index, cacheVars,
           cell_target, todo, cur, execVars, phase, caller, i, first_free,
           last_free, sub, runs, assert_failed>>

-----------------------------------------------------------------------------
(* index::Find of a patch point's key (the key 0 of a zeroed point never  *)
(* has a block).                                                           *)
Find(t) == IF t \in Targets THEN index[t] ELSE 0

(* The encoder: taken jump first (block.cc 1120-1124), then not-taken.     *)
EncodeBranchesSwapped(b, succ) ==
    [k \in DOMAIN succ |-> [rel32 |-> <<b, k>>, target |-> succ[Len(succ) + 1 - k]]]

EncodeBranches(b, succ) ==
    [k \in DOMAIN succ |-> [rel32 |-> <<b, k>>, target |-> succ[k]]]

(* ClearPatchPoints.                                                       *)
ClearPatchPoints == [k \in Slot |-> Zero]

(* The loop of InitPatcher: the first slot with a zero key.                *)
FirstFree(s) ==
    IF \E k \in Slot : s[k].target = 0
    THEN CHOOSE k \in Slot : s[k].target = 0 /\ \A j \in 0..(k - 1) : s[j].target # 0
    ELSE NumPatches

(* What the next start maps back from the patch file: its one page.        *)
Revive(s) == [k \in Slot |-> IF k < PersistedSlots THEN s[k] ELSE Zero]

(* gNextPatch = first_free at the end of PatchCode.                        *)
SweepCountLast(ff, lf) == lf

SweepCount(ff, lf) == ff

Live == ~assert_failed

-----------------------------------------------------------------------------
(* The inline cache: kNumCacheSlots entries [app_pc, block], all zero when *)
(* empty. Its probe counters are uint8_t, and 256 is a multiple of         *)
(* kProbesPerEntry, so they are kept modulo kProbesPerEntry.               *)
ICSlots == 0..(ICEntries + ICProbes - 1)
NoEntry == [app |-> 0, blk |-> 0]
EmptyInlineCache ==
    [cache |-> [s \in ICSlots |-> NoEntry],
     probe |-> [o \in 0..(ICEntries - 1) |-> 0], empty |-> TRUE]

InsertIntoInlineCacheKeepEmpty(ic, o, t, b) ==
    [cache |-> [ic.cache EXCEPT ![o + ic.probe[o]] = [app |-> t, blk |-> b]],
     probe |-> [ic.probe EXCEPT ![o] = (@ + 1) % ICProbes],
     empty |-> ic.empty]

(* InsertIntoInlineCache with offset o = last_branch_pc % kNumEntries.     *)
InsertIntoInlineCache(ic, o, t, b) ==
    [cache |-> [ic.cache EXCEPT ![o + ic.probe[o]] = [app |-> t, blk |-> b]],
     probe |-> [ic.probe EXCEPT ![o] = (@ + 1) % ICProbes],
     empty |-> FALSE]

(* ClearInlineCache: the memset is skipped while kCacheIsEmpty.            *)
ClearInlineCache(ic) ==
    IF ic.empty THEN ic
    ELSE [ic EXCEPT !.cache = [s \in ICSlots |-> NoEntry], !.empty = TRUE]

(* cache::Allocate(n) of n slots, with ResizeCache adding one page (and    *)
(* growing the file by ftruncate) when the allocation passes gEnd.         *)
ResizeCache ==
    /\ csize' = csize + PageBlocks
    /\ fsize' = csize + PageBlocks

Allocate(n) ==
    /\ next' = next + n
    /\ sync' = TRUE
    /\ IF next + n > csize THEN ResizeCache ELSE UNCHANGED <<csize, fsize>>

(* cache::Exit: with gSyncCache, truncate the file to what was allocated. *)
CacheExit == fsize' = IF sync THEN next ELSE fsize

(* cache::Init with an existing file of fsize slots: scale it out to whole *)
(* pages, map it, and allocate after its old content.                      *)
CacheInit ==
    LET scaled == ((fsize + PageBlocks - 1) \div PageBlocks) * PageBlocks IN
    /\ next' = fsize
    /\ csize' = scaled /\ fsize' = scaled
    /\ sync' = FALSE

(* Bound: a lookup or a translation starts only while a longest trace     *)
(* would still fit in the reserved region.                                 *)
CacheRoom(n) == next + n + MaxTrace <= MaxBlocks

-----------------------------------------------------------------------------
(* Execute misses in the index for t and Translate encodes a new block,   *)
(* allocated at the end of the cache, whose patchable jumps go to succ.   *)
Translate(t, succ) ==
    LET b == next + 1 IN
    /\ Live /\ phase = "idle" /\ cur = 0 /\ todo = <<>> /\ found = 0
    /\ Find(t) = 0 /\ CacheRoom(1)
    /\ Allocate(1)
    /\ blockpc' = [blockpc EXCEPT ![b] = t]
    /\ cell_target' = [c \in Cells |-> IF c[1] = b /\ c[2] \in DOMAIN succ
                                       THEN succ[c[2]] ELSE cell_target[c]]
    /\ todo' = EncodeBranches(b, succ)
    /\ cur' = b
    /\ UNCHANGED <<gPatches, gNextPatch, rel32, index, disk_index, traceslots,
                   execVars, phase, caller, i, first_free, last_free, sub,
                   runs, assert_failed>>

(* AddPatchPoint when gNextPatch is not a non-zero multiple of            *)
(* kPatchInterval: the point goes into the next slot.                      *)
AddPatchPoint ==
    /\ Live /\ phase = "idle" /\ todo # <<>>
    /\ ~(gNextPatch # 0 /\ gNextPatch % PatchInterval = 0)
    /\ gPatches' = [gPatches EXCEPT ![gNextPatch] = Head(todo)]
    /\ gNextPatch' = gNextPatch + 1
    /\ todo' = Tail(todo)
    /\ UNCHANGED <<rel32, index, disk_index, cacheVars, cell_target, cur,
                   execVars, phase, caller, i, first_free, last_free, sub,
                   runs, assert_failed>>

(* AddPatchPoint when it is: PatchCode first.                              *)
AddPatchPointSweeps ==
    /\ Live /\ phase = "idle" /\ todo # <<>>
    /\ gNextPatch # 0 /\ gNextPatch % PatchInterval = 0
    /\ phase' = "sweep" /\ caller' = "add"
    /\ i' = 0 /\ first_free' = 0 /\ last_free' = 0 /\ sub' = ""
    /\ UNCHANGED <<gPatches, gNextPatch, rel32, index, disk_index, cacheVars,
                   cell_target, todo, cur, execVars, runs, assert_failed>>

(* Execute's index::Insert of the block once Translate has returned, and   *)
(* the ClearInlineCache that follows it; the loop ends with this block.    *)
InsertBlock ==
    /\ Live /\ phase = "idle" /\ todo = <<>> /\ cur # 0
    /\ index' = [index EXCEPT ![blockpc[cur]] = cur]
    /\ inline_cache' = ClearInlineCache(inline_cache)
    /\ found' = blockpc[cur]
    /\ cur' = 0
    /\ UNCHANGED <<gPatches, gNextPatch, rel32, disk_index, cacheVars,
                   cell_target, todo, trace, phase, caller, i, first_free,
                   last_free, sub, runs, assert_failed>>

(* Execute's lookup loop finds a block for t in the index.                 *)
Lookup(t) ==
    /\ Live /\ phase = "idle" /\ cur = 0 /\ todo = <<>> /\ found = 0
    /\ Find(t) # 0 /\ CacheRoom(0)
    /\ found' = t
    /\ UNCHANGED <<gPatches, gNextPatch, rel32, index, disk_index, cacheVars,
                   cell_target, todo, cur, trace, inline_cache, phase, caller,
                   i, first_free, last_free, sub, runs, assert_failed>>

(* The slot of the k-th entry of a trace whose code starts after slot      *)
(* base: val.cache_offset = PCToOffset(trace_begin), then trace_begin      *)
(* advances by kRelCallJmpSize.                                           *)
TraceOffsetAdvanced(base, k) == base + k + 1

TraceOffset(base, k) == base + k

(* The last of the first n entries of e with key t: Build's loop inserts   *)
(* in order, so a key that repeats keeps its last slot.                    *)
LastEntry(e, t, n) ==
    CHOOSE k \in 1..n : e[k].key = t /\ \A j \in (k + 1)..n : e[j].key # t

(* TraceRecorder::Build of the entries e (at least two): ClearInlineCache, *)
(* allocate one CALL/JMP per entry, and insert every entry but the last    *)
(* into the index at its slot of the trace, in order.                      *)
Build(e, ic) ==
    LET L == Len(e)
        InTrace(t) == \E k \in 1..(L - 1) : e[k].key = t
    IN /\ inline_cache' = ClearInlineCache(ic)
       /\ Allocate(L)
       /\ blockpc' = [b \in Blocks |-> IF b - next \in 1..L
                                       THEN e[b - next].key ELSE blockpc[b]]
       /\ traceslots' = traceslots \cup {next + k : k \in 1..L}
       /\ index' = [t \in Targets |-> IF InTrace(t)
                                      THEN TraceOffset(next, LastEntry(e, t, L - 1))
                                      ELSE index[t]]

(* TraceRecorder::BlockEndsTrace after recording the entry (e holds it):  *)
(* a block that ends with a system call or an error, or has several       *)
(* successors (ends), a trace block, or a full recorder ends the trace.   *)
BlockEndsTrace(e, v, ends) == ends \/ v \in traceslots \/ Len(e) = MaxTrace

(* The rest of Execute's iteration for the block of the key found:         *)
(* InsertIntoInlineCache unless the block ends with an error or a system   *)
(* call (at offset o), then BlockEndsTrace; an ended trace of two or more *)
(* entries is built. Then the guest runs the block. Which blocks end with *)
(* a system call or have one successor is left open (ends).              *)
Dispatch(o, ic, ends) ==
    LET t    == found
        v    == index[t]
        c    == IF ic THEN InsertIntoInlineCache(inline_cache, o, t, v)
                ELSE inline_cache
        e    == Append(trace, [key |-> t, val |-> v])
        stop == BlockEndsTrace(e, v, ends)
    IN /\ Live /\ phase = "idle" /\ found # 0
       /\ ic \/ ends
       /\ found' = 0
       /\ trace' = IF stop THEN <<>> ELSE e
       /\ IF stop /\ Len(e) > 1
          THEN Build(e, c)
          ELSE /\ inline_cache' = c
               /\ UNCHANGED <<index, cacheVars>>
       /\ UNCHANGED <<gPatches, gNextPatch, rel32, disk_index, cell_target,
                      todo, cur, phase, caller, i, first_free, last_free, sub,
                      runs, assert_failed>>

sweepVars == <<gPatches, rel32, first_free, last_free, i, sub, assert_failed>>
fixedVars == <<gNextPatch, index, disk_index, cacheVars, cell_target,
               todo, cur, found, trace, phase, caller, runs>>

(* One iteration of PatchCode's loop, split where it writes twice.         *)
(* The target has an index entry: Patch (the atomic exchange, then the    *)
(* assertion that the rel32 was zero) ... The ClearInlineCache that       *)
(* PatchCode does at its end when it patched is taken here: nothing reads *)
(* or fills the inline cache before the sweep ends.                        *)
SweepPatch ==
    LET p == gPatches[i]
        v == Find(p.target)
    IN /\ Live /\ phase = "sweep" /\ sub = "" /\ i < gNextPatch /\ v # 0
       /\ rel32' = [rel32 EXCEPT ![p.rel32] = v]
       /\ assert_failed' = (rel32[p.rel32] # 0)
       /\ sub' = "patched"
       /\ inline_cache' = ClearInlineCache(inline_cache)
       /\ UNCHANGED <<gPatches, first_free, last_free, i>>
       /\ UNCHANGED fixedVars

(* ... then the memset of the point.                                       *)
SweepClear ==
    /\ Live /\ phase = "sweep" /\ sub = "patched"
    /\ gPatches' = [gPatches EXCEPT ![i] = Zero]
    /\ last_free' = last_free + 1
    /\ i' = i + 1 /\ sub' = ""
    /\ UNCHANGED <<rel32, first_free, assert_failed>>
    /\ UNCHANGED <<fixedVars, inline_cache>>

SweepMoveNoClear ==
    /\ Live /\ phase = "sweep" /\ sub = "copied"
    /\ first_free' = first_free + 1 /\ last_free' = last_free + 1
    /\ i' = i + 1 /\ sub' = ""
    /\ UNCHANGED <<gPatches, rel32, assert_failed>>
    /\ UNCHANGED <<fixedVars, inline_cache>>

(* No entry yet, and a free slot below it: memcpy it down ...              *)
SweepMove ==
    /\ Live /\ phase = "sweep" /\ sub = "" /\ i < gNextPatch
    /\ Find(gPatches[i].target) = 0 /\ first_free # last_free
    /\ gPatches' = [gPatches EXCEPT ![first_free] = gPatches[i]]
    /\ sub' = "copied"
    /\ UNCHANGED <<rel32, first_free, last_free, i, assert_failed>>
    /\ UNCHANGED <<fixedVars, inline_cache>>

(* ... then memset the old slot.                                           *)
SweepMoveClear ==
    /\ Live /\ phase = "sweep" /\ sub = "copied"
    /\ gPatches' = [gPatches EXCEPT ![i] = Zero]
    /\ first_free' = first_free + 1 /\ last_free' = last_free + 1
    /\ i' = i + 1 /\ sub' = ""
    /\ UNCHANGED <<rel32, assert_failed>>
    /\ UNCHANGED <<fixedVars, inline_cache>>

(* No entry yet and no free slot below: it stays.                          *)
SweepKeep ==
    /\ Live /\ phase = "sweep" /\ sub = "" /\ i < gNextPatch
    /\ Find(gPatches[i].target) = 0 /\ first_free = last_free
    /\ first_free' = first_free + 1 /\ last_free' = last_free + 1
    /\ i' = i + 1
    /\ UNCHANGED <<gPatches, rel32, sub, assert_failed>>
    /\ UNCHANGED <<fixedVars, inline_cache>>

SweepEndNoClear ==
    LET n == SweepCount(first_free, last_free) IN
    /\ Live /\ phase = "sweep" /\ sub = "" /\ i = gNextPatch
    /\ IF caller = "add"
       THEN /\ gPatches' = [gPatches EXCEPT ![n] = Head(todo)]
            /\ gNextPatch' = n + 1
            /\ todo' = Tail(todo)
            /\ phase' = "idle"
            /\ UNCHANGED <<disk_index, fsize>>
       ELSE /\ gNextPatch' = n
            /\ phase' = "exited"
            /\ disk_index' = index
            /\ CacheExit
            /\ UNCHANGED <<gPatches, todo>>
    /\ UNCHANGED <<rel32, index, next, csize, sync, blockpc, traceslots,
                   cell_target, cur, execVars, caller, i, first_free,
                   last_free, sub, runs, assert_failed>>

(* The end of PatchCode, then the rest of the caller. AddPatchPoint       *)
(* clears a full array and stores its point; ExitPatcher msyncs the page, *)
(* index::Exit writes the index file and cache::Exit truncates the cache  *)
(* file (play.cc 467-469).                                                 *)
SweepEnd ==
    LET n    == SweepCount(first_free, last_free)
        full == n = NumPatches
        s    == IF full THEN ClearPatchPoints ELSE gPatches
        m    == IF full THEN 0 ELSE n
    IN /\ Live /\ phase = "sweep" /\ sub = "" /\ i = gNextPatch
       /\ IF caller = "add"
          THEN /\ gPatches' = [s EXCEPT ![m] = Head(todo)]
               /\ gNextPatch' = m + 1
               /\ todo' = Tail(todo)
               /\ phase' = "idle"
               /\ UNCHANGED <<disk_index, fsize>>
          ELSE /\ gNextPatch' = n
               /\ phase' = "exited"
               /\ disk_index' = index
               /\ CacheExit
               /\ UNCHANGED <<gPatches, todo>>
       /\ UNCHANGED <<rel32, index, next, csize, sync, blockpc, traceslots,
                      cell_target, cur, execVars, caller, i, first_free,
                      last_free, sub, runs, assert_failed>>

(* main's shutdown: arch::Exit calls ExitPatcher, which calls PatchCode.    *)
Exit ==
    /\ Live /\ phase = "idle" /\ todo = <<>> /\ cur = 0 /\ found = 0
    /\ phase' = "sweep" /\ caller' = "exit"
    /\ i' = 0 /\ first_free' = 0 /\ last_free' = 0 /\ sub' = ""
    /\ UNCHANGED <<gPatches, gNextPatch, rel32, index, disk_index, cacheVars,
                   cell_target, todo, cur, execVars, runs, assert_failed>>

(* The next start: InitPatcher maps the patch file's page and advances    *)
(* gNextPatch to the first free slot; index::Init revives the index file; *)
(* cache::Init maps the cache file; the inline cache and the trace         *)
(* recorder start empty. With saved the index file to use.                 *)
Start(saved) ==
    LET s == Revive(gPatches) IN
    /\ runs < MaxRuns
    /\ gPatches' = s
    /\ gNextPatch' = FirstFree(s)
    /\ index' = saved
    /\ runs' = runs + 1
    /\ phase' = "idle" /\ todo' = <<>> /\ cur' = 0
    /\ i' = 0 /\ first_free' = 0 /\ last_free' = 0 /\ sub' = ""
    /\ CacheInit
    /\ found' = 0 /\ trace' = <<>> /\ inline_cache' = EmptyInlineCache
    /\ UNCHANGED <<rel32, disk_index, blockpc, traceslots, cell_target,
                   caller, assert_failed>>

Restart == Live /\ phase = "exited" /\ Start(disk_index)

(* The process dies without its exit path (SIGKILL, an abort, a host       *)
(* crash of the process): the MAP_SHARED pages hold what was written.      *)
Crash == Live /\ phase # "exited" /\ Start(disk_index)

(* The last run has exited, or Patch's assertion aborted the emulator.     *)
Stopped == (~Live \/ (phase = "exited" /\ runs = MaxRuns)) /\ UNCHANGED pvars

Init ==
    /\ gPatches = ClearPatchPoints /\ gNextPatch = 0
    /\ rel32 = [c \in Cells |-> 0]
    /\ index = [t \in Targets |-> 0] /\ disk_index = index
    /\ next = 0 /\ csize = 0 /\ fsize = 0 /\ sync = FALSE
    /\ blockpc = [b \in Blocks |-> 0] /\ traceslots = {}
    /\ found = 0 /\ trace = <<>> /\ inline_cache = EmptyInlineCache
    /\ cell_target = [c \in Cells |-> 0]
    /\ todo = <<>> /\ cur = 0
    /\ phase = "idle" /\ caller = "add"
    /\ i = 0 /\ first_free = 0 /\ last_free = 0 /\ sub = ""
    /\ runs = 1 /\ assert_failed = FALSE

Next ==
    \/ \E t \in Targets, succ \in Succs : Translate(t, succ)
    \/ AddPatchPoint \/ AddPatchPointSweeps \/ InsertBlock
    \/ \E t \in Targets : Lookup(t)
    \/ \E o \in 0..(ICEntries - 1), ic, ends \in BOOLEAN : Dispatch(o, ic, ends)
    \/ SweepPatch \/ SweepClear \/ SweepMove \/ SweepMoveClear \/ SweepKeep
    \/ SweepEnd \/ Exit \/ Restart \/ Stopped

Spec == Init /\ [][Next]_pvars

(* The same system when the emulator may also die at any step.             *)
CrashNext == Next \/ Crash

CrashSpec == Init /\ [][CrashNext]_pvars

-----------------------------------------------------------------------------
(* The queue the slots hold: gPatches[0..gNextPatch); inside PatchCode the *)
(* points already kept below first_free and those not yet swept.           *)
SlotSeq(lo, hi) == [k \in 1..(hi - lo + 1) |-> gPatches[lo + k - 1]]

Pending ==
    IF phase = "sweep"
    THEN SlotSeq(0, first_free - 1)
         \o SlotSeq(IF sub = "patched" THEN i + 1 ELSE i, gNextPatch - 1)
    ELSE SlotSeq(0, gNextPatch - 1)

Queue == INSTANCE PatchQueue WITH pending <- Pending

(* The slots and PatchCode behave as the patch queue of the spec: a point *)
(* leaves the queue only when PatchCode links its still-zero rel32 to the *)
(* block the index has for its key, or when the array is cleared; the     *)
(* compaction keeps the others in order with no hole; a restart keeps a   *)
(* prefix.                                                                 *)
PatchQueueRefined == Queue!Spec

(* Every variable holds a value of its type.                               *)
PatcherTypeOK ==
    /\ gPatches \in [Slot -> [rel32 : Cells \cup {NoCell},
                              target : Targets \cup {0}]]
    /\ gNextPatch \in 0..NumPatches
    /\ rel32 \in [Cells -> 0..MaxBlocks]
    /\ index \in [Targets -> 0..MaxBlocks]
    /\ next \in 0..MaxBlocks /\ csize \in Nat /\ fsize \in Nat
    /\ traceslots \subseteq Blocks
    /\ found \in Targets \cup {0}
    /\ trace \in Seq([key : Targets, val : Blocks])
    /\ inline_cache.cache \in [ICSlots -> [app : Targets \cup {0},
                                            blk : 0..MaxBlocks]]
    /\ phase \in {"idle", "sweep", "exited"}
    /\ phase = "sweep" =>
          first_free <= last_free /\ last_free = i /\ i <= gNextPatch
    /\ runs \in 1..MaxRuns

(* Patch's GRANARY_ASSERT(!offset_diff): PatchCode never finds the rel32 *)
(* of a point it patches already linked (spec.md: double-patch is a       *)
(* contract violation), across compaction, clearing and restarts.         *)
NoDoublePatch == ~assert_failed

(* A chained jump goes to a translation of the guest PC the encoded       *)
(* branch was for: the pairing of rel32 and key in the patch point        *)
(* survives the moves of PatchCode and a restart.                          *)
ChainTargetsMatch ==
    \A c \in Cells : rel32[c] # 0 => blockpc[rel32[c]] = cell_target[c]
(* Every block the index or the index file names is code that was written *)
(* for its key and that the cache still holds: below the allocation point *)
(* (and inside the mapping) while running, inside the cache file on disk. *)
(* This is about cache::Init's revival (allocate after the old content,  *)
(* whose size cache::Exit or ResizeCache left), Allocate's resize and the *)
(* offsets TraceRecorder::Build gives the entries of a trace, across a    *)
(* restart.                                                                *)
CacheHoldsIndexedBlocks ==
    /\ next <= csize
    /\ \A t \in Targets :
         /\ index[t] # 0 => index[t] <= next /\ blockpc[index[t]] = t
         /\ disk_index[t] # 0 =>
               disk_index[t] <= fsize /\ blockpc[disk_index[t]] = t

(* An entry of the inline cache, which the code cache consults by app_pc  *)
(* alone, names the block the index has for that PC now: every index     *)
(* change (an insert after Translate, a trace built) clears it first, and *)
(* ClearInlineCache's kCacheIsEmpty shortcut never skips a needed clear.  *)
InlineCacheCurrent ==
    \A s \in ICSlots :
        LET e == inline_cache.cache[s] IN
        e.app # 0 => index[e.app] = e.blk

=============================================================================
