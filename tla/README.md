# TLA+ models of grr

grr is a dynamic binary translator for 32-bit DECREE (CGC) programs. It runs them
inside a 64-bit host process for replay and fuzzing. This directory holds TLA+
models of the parts of grr whose correctness depends on the order of events:
the guest page table and its RWX state machine, the fault handler, the
interpreter's lookup-translate loop and code-cache index, the cooperative
scheduler with its pipes and I/O system calls, interrupts, block chaining
over the persistent code cache with its inline cache and traces, the input
mutators and the mutation campaign of `play.cc`, and the block translator
(decode, the emulation and virtualization of each instruction onto the
`InstructionStack`, and the encoded code run against the guest's semantics). Each model is checked with
TLC. Every definition is translated from the C++ under `src/`. `PROJECT.json`
maps each definition to the lines it models.

## 1. Inventory of the system

| Part | Source | State | Operations that change state |
|---|---|---|---|
| Page-range table | `os/process.cc`, `os/page.h`, `os/snapshot.cc` | `pages` (vector of `PageRange32`: base, limit, lazy_base, perms, state, range hash), `page_hash`, `page_hash_is_valid`, host protections of the guest mapping | constructor (`InitSnapshotPages`, `InitPages`, `TryMakeExecutable`, `HashPageRange`), `Allocate`/`AllocateFromHighMem`, `Deallocate`, `TryChangeState` (in place or split), `TryLazyMap`, `CanExecute`, `TryMakeExecutable`, `TryMakeWritable`, `HashPageRange` |
| Safe guest access | `arch/x86/process.cc`, `os/process.h` | `fault_can_recover` | `TryRead`/`TryWrite` (`DoTryRead`/`DoTryWrite`), `RecoverFromTryReadWrite` |
| Fault handler | `os/schedule.cc` `CatchFault` | process `signal`, fault address | `TryLazyMap` \|\| `TryMakeWritable`; else recover a TryRead/TryWrite; else redirect the guest to its bad block |
| Memory syscalls | `os/decree_user/syscall.cc` `Allocate`, `Deallocate` | (page table) | EINVAL checks, allocate with EFAULT rollback, deallocate |
| Interpreter loop | `code/execute.cc` | process status and exec status | lookup, then `TryMakeExecutable`, then `Translate`/`Insert`; run the block; error or syscall exit |
| Code-cache index | `code/index.cc`, `code/index.h` | `gTable`: (pc32, pid, 24-bit page hash) to translated block | `Find` (inserts an empty entry), `Insert`, `ReviveCache`/`Exit` persistence |
| Inline cache, cache allocator | `code/cache.cc` | 2048-entry inline cache; bump allocator | `InsertIntoInlineCache`, `ClearInlineCache`, `Allocate`, `ResizeCache` |
| Patcher | `arch/x86/patch.cc` | patch-point queue, `gNextPatch` | `AddPatchPoint` (runs `PatchCode` every 64 entries), `PatchCode` compaction, `Patch`, `ClearPatchPoints` |
| Trace recorder | `code/trace.cc`, `arch/x86/trace.cc` | the current trace's entries | `BlockEndsTrace`, `Build` (rewrites index entries) |
| Scheduler | `os/schedule.cc` `Schedule`, `Run`, `CreateFiles` | processes, `num_syscalls`, `made_progress` | round-robin execute and syscall dispatch, termination on no progress |
| Pipe files | `os/file.cc` | ring buffer heads, `blocked_reader`, `blocked_writer`(count) | `Read`, `Write`, `ReadWillBlock`, `WriteWillBlock` |
| Data syscalls | `os/decree_user/syscall.cc` | `gInputIndex`, `schedule_delay` | terminate, transmit, receive (`DoReceive`), fdwait, random |
| Interrupts | `base/interrupt.cc`, `os/schedule.cc`, `play.cc` | stack of `InterruptState`, pending signal | `Interruptible`/`Uninterruptible` regions, `QueueInterrupt`, `CatchInterrupt`, `NonMaskableInterrupt` |
| Decoder and encoder | `code/block.cc`, `arch/x86/block.cc`, `arch/x86/instruction.cc`, `arch/instruction.h` | per block: `app_instructions`, `cache_instructions` (an `InstructionStack`), `has_syscall`, `has_error`, the `index::Value` flags | `DoDecode`; `Encode` with `EmulateCFI`, `Emulate`, `Virtualize` and their helpers; the encoded code run by `cache::Call` |
| Input record and mutators | `input/record.cc`, `input/mutate.cc` | `IORecording::system_calls`; each mutator's iterator fields (`curr_input_index`, `slice_size`, `max_prefix_length`, `mutation_index`) | `AddInput`, `AddSplit`, `ToInput`; `Mutator::Create`; `RequestMutationImpl` of the slice, splice, chunked and infinite mutators; `Reset` |
| Mutation campaign | `play.cc` `main`, `RunTestCase` | `gInput`, `gRecordToMutate`, `old_record_to_mutate`, the mutator | first replay, outer and inner loop, request loop, remutation, interrupt checks |
| Path coverage | `code/coverage.cc` | `gAllPaths`, `gAllPathsAtInit`, `gCurrPaths`, `gHasNewPathCoverage` | `BeginPathCoverage`, `UpdateCoverageSet`, `CoveredNewPaths`, `ExitPathCoverage` |
| Snapshot files | `decree_user/snapshot.cc` | the snapshot file's `MappedRange32` table and page data | `GetRanges`, `InitSnapshotFile` (first snapshot of a binary), `Snapshot32::Create(process)` (at terminate or transmit), revival |
| Other CLI | `coverage.cc`, `snapshot.cc` | files | hashing and I/O |

How they interact. `Schedule` runs each process in turn. `Execute` looks the
guest PC up in the index under the key (pc, pid, PageHash). `PageHash` rehashes
the kRX ranges when the hash is invalid. On a miss, `Execute` first tries
`TryMakeExecutable`, and otherwise translates the block (reading bytes with
`TryRead` and `CanExecute`) and inserts it. Translated code runs with the guest
mapped. A guest store to a kRX page (mapped `PROT_READ`) faults into
`CatchFault`. That calls `TryMakeWritable`, which flips the page to kRW. The
next lookup must then miss, because the page hash was invalidated, and
retranslate. Syscalls copy data into and out of the guest with
`TryWrite`/`TryRead`, whose faults `CatchFault` either resolves or turns into
EFAULT.

The hard behaviours:

- the order of page-state flips against lookups and stores (self-modifying code);
- a fault handler that changes the page table in the middle of another operation;
- range splitting at boundaries;
- the interleaving of several guest processes through blocking pipes;
- signals arriving in uninterruptible regions;
- chained jumps that bypass the lookup;
- bounded queues: patch points, trace length, syscall count.

Properties per part (in `PROJECT.json` "hazards" each is tied to its line):

- Page table:
  - ranges are disjoint;
  - host mappings match the table;
  - `CheckConsistency` never fires;
  - allocation returns the highest free fit.
- Interpreter and index:
  - a hit never returns a stale translation;
  - only executable memory runs.
- Scheduler and pipes:
  - each pipe is a bounded FIFO queue (refinement of `Fifo`);
  - a pipe's blocked reader and blocked writer are really waiting on it;
  - `Schedule` returns for lack of progress only when no live process can go on;
  - a timed fdwait waits out its own timeout.
- Interrupts:
  - the end of input always escapes to `Schedule` without an assertion;
  - a queued signal is never dropped before it is delivered or muted;
  - a queued signal is delivered at the next region boundary (violated);
  - a termination signal stops the test-case loop (violated; shown by a
    configuration in section 4, no run).
- Patcher, code cache and traces:
  - compaction keeps exactly the unpatched points in order;
  - no rel32 is patched twice, even across a crash (violated);
  - every block the index or the index file names is code for its key that
    the cache file still holds, across a restart and the trace rewrites;
  - every inline-cache entry names the block the index has now.
- Block translator:
  - the encoded code of a block leaves the guest registers, flags, stack
    and next PC that the guest instructions would, or faults at the same
    access, or traps at the same undefined instruction;
  - the `index::Value` flags (`has_one_successor`, `ends_with_syscall`,
    `ends_with_error`) are true of every run of the block;
  - every `PUSHFQ` of a flags emulation is popped before the block returns.
- Mutators and campaign:
  - each mutator hands out exactly its list of test cases, in order, then
    nullptr, and a caller that keeps asking gets to the end;
  - without remutation a finite mutator's campaign ends (violated).

## 2. Plan

Modules, most important first:

1. `PageTable` (written). The page table, host protections, the fault
   handler, and the allocate/deallocate syscalls.
2. `Execute` (written). It EXTENDS `PageTable` and adds the interpreter loop
   and the index. Next steps:
   - process restarts with a persistent index (the `crash_recovery` hazard);
   - the inline cache.
3. `Patcher` and `PatchQueue` (written). The patch-point queue of
   `arch/x86/patch.cc`, its persistence in the patch file, and a refinement
   to an abstract queue. It now also holds the code cache (`cache.cc`), the
   inline cache and the trace recorder, which the patcher shares with the
   interpreter loop. Next step: compose it with `Execute` through
   `INSTANCE`, so that a chained jump skips the page-hash lookup (a stale
   chain after self-modifying code).
4. `PipeFile` and `Fifo` (written). The ring buffer, and the FIFO queue that
   it implements.
5. `Scheduler` (written). Processes, syscall dispatch (terminate, transmit,
   receive, fdwait) and `made_progress` termination. Next steps:
   - `random`, with its writes into guest memory, by composing with `PageTable`;
   - the snapshot flags of transmit and receive;
   - liveness of a blocked reader once data is queued, under weak fairness of
     `Schedule`'s loop, which is a plain loop in the code.
6. `Interrupts` (written). The `InterruptState` stack, the handlers, `Run`
   and the test-case loop of `play.cc`. Next steps:
   - compose it with `Scheduler`, so that the NMI is raised by the real
     `DoReceive` and the single-process fast path sees `gIsRunning`;
   - an abstract "every signal is eventually delivered or muted" spec,
     checked by refinement under weak fairness of the loop.
7. `Mutate` and `MutationStream` (written). The mutators over recordings,
   and the abstract list of test cases they promise, checked by refinement.
8. `Campaign` (written). `play.cc`'s mutation loop, with `Mutate` composed
   by `INSTANCE`.
9. `BlockEncode` (written). Block decode and encode, the host code run on
   a host model, against a reference semantics of the guest instructions.
10. `Receive` (the DoReceive boundary algorithm as an operator against a
   reference), and the 27-bit `cache_offset` wrap as a run of its own.

Runs and bounds are listed in section 4. Later runs follow the same pattern:
one passing run per module and one violation run per disagreement found.

## 3. Modules

### PageTable.tla

- **State.**
  - `pages`: `Process32::pages`, as a set of `PageRange32` records. The
    vector order only matters when ranges overlap, and `RangesDisjoint`
    checks that they never do.
  - `prot`: the host protection of each guest page (`NONE`, `R`, `RW`, `RX`).
  - `mem`: a content version per page. Stores increment it, and a fresh
    `mmap` resets it to 0.
  - `page_hash_is_valid` and `page_hash`.
  - `status`: `running`, `faulted` (the guest reached its bad block) or
    `aborted` (a `GRANARY_ASSERT` fired; asserts are always compiled in,
    see `base/base.h`).
  - `fault`: the faulting access.
  - `num_syscalls`: `Schedule`'s counter.
- **Addresses.** Addresses are page numbers. The page hash is a
  collision-free value: the number of ranges plus the `HashRange` of each
  kRX range, that is, its base and its pages' versions.
- **Helpers.** The code's helpers are operators from an address-space record
  to a new record, so that an action chains them in the code's order:
  - `ChangedState` is `TryChangeState`, with its in-place and split paths.
  - `LazyMapped` is `TryLazyMap`.
  - `Allocated` and `HighMemFit` are `Allocate` and `AllocateFromHighMem`.
  - `Deallocated` is `Deallocate`, with its five cases.
  - `Access` is a guest or syscall access. It retries after every fault that
    `CatchFault` resolves, as the re-executed instruction does.
- **Actions.**
  - `SysAllocate(n, is_x, out)`: the allocate syscall, including storing the
    address through `out` and the EFAULT rollback.
  - `SysDeallocate(a, n)`: deallocate, guarded by its EINVAL checks.
  - `GuestAccess(a, kind)`: a load or store by translated code.
  - `SysCopyOut(a)`: a syscall's `TryWrite`.
- **Snapshots.**
  - `ReviveAS(snap, data, pc)` is `Process32`'s constructor from a
    snapshot file: its ranges, its page data and its saved PC. `InitAS` is
    `ReviveAS` of the constant `Snapshot` with zero pages.
  - `GetRanges` and `InitSnapshotFile` build a binary's first snapshot from
    its `/proc/<pid>/maps`. A maps line is a record; the text parsing is
    not modelled. Special and shared lines are skipped, a multi-page
    range holding the EIP past its first page is cut there, non-readable
    ranges are dropped, and the rwx stack is added with its lower part
    demand mapped.
  - `SnapshotCreate(s)` is `Snapshot32::Create(process)`: one
    `MappedRange32` per usable range, zeroes below `lazy_base`, guest
    memory above.
  - `SnapshotRevivesPages` revives `SnapshotCreate(AS)` in every state and
    compares each page's perms, readability and contents (`PageView`).
    The kRX/kRW state is not compared, since a revived RWX range starts
    kRW unless it holds the PC.
- **`StateWithinPerms`.** A kRX range has X in its perms and a kRW range
  has W (spec.md:78; comment at `process.cc:222`).

### Execute.tla

It EXTENDS `PageTable` and adds:

- `index`: `gTable`, as entries [pc, hash, ok, ver].
- `ran`: the last block run, with the version it was translated from and
  the page's current version.

`ExecuteBlock(pc)` is one iteration of `Execute`'s outer loop:

- `Lookup` runs `Key`/`PageHash`, then `Find`, and on a miss
  `TryMakeExecutable` followed by a second lookup, or else `Translate` and
  `Insert`;
- then the block runs; a block that ends with an error puts the process in
  kError.

`CanExecute` and `Translate` are operators: a read fault during decoding goes
through `Access` and so through `CatchFault`. A block is one page.

MC modules: `MC_PageTable` gives the snapshot as records. `MC_Execute`
builds it with `InitSnapshotFile` from `MCMaps`. `MCMaps` has the text, the
magic page, a no-access guard page (dropped) and a `[vdso]` line
(skipped). The snapshot has:

- an r-x text page;
- the read-only magic page;
- a gap for the heap below kMaxAddress;
- a two-page rwx stack above kMaxAddress, whose lower page is demand mapped.

This is the same layout the real snapshot produces (`decree_user/snapshot.cc`
adds the rwx stack with `lazy_begin = kStackEnd - 2MiB`).

### PipeFile.tla and Fifo.tla

`PipeFile` holds no variables. Its operators take an `os::File` record and
return the new record together with the `FileIOStatus`:

- the record has `buffer` (indices `0..kBufferSize-1`), `writer_head`,
  `reader_head`, `blocked_reader`, `blocked_writer` and
  `blocked_writer_count`;
- `FileRead(F, p, count, wlen)` is `File::Read` into a guest buffer whose
  first `wlen` bytes are writable;
- `FileWrite(F, p, count)` is `File::Write`;
- `ReadWillBlock` and `WriteWillBlock` are the fdwait tests.

A byte holds the number of the process that wrote it. `Fifo` is the abstract
pipe: a bounded queue per pipe, where `Put` appends a run of bytes and `Take`
removes a prefix. `Scheduler` instantiates it with `queue` mapped to the
unread part of each ring buffer (`Contents`).

### Scheduler.tla

It EXTENDS `PipeFile`.

- **State.**
  - `status` and `exec_status` of each process.
  - `call`: the system call the process stopped at. That is its registers:
    a call in progress is repeated with the same arguments.
  - `schedule_delay`.
  - `files`: the `FileTable`, one `File` per process.
  - `gInputIndex`.
  - The loop's own state: `cur` (the process the round is at), `at` (top of
    the loop body, or after `Execute`), `made_progress`, `num_syscalls`, and
    `stop` (why `Schedule` returned).
  - Two history variables: `sleeps` (kSleeping results of the current call)
    and `ret` (the last completed call's return value).
- **Actions.** The loop body is split at the points where the code
  branches. No other actor can run in between, because there is one host
  thread.
  - `ScheduleSkip`: a dead process is skipped.
  - `ScheduleExecute`: `code::Execute`. The guest code runs to some call of
    `Calls`, or to a block error (`kError`, or `kIgnorableError` for SIGFPE).
  - `ScheduleSyscallLimit`: `kMaxNumSyscalls` is reached.
  - `ScheduleSyscall`: `SystemCall` and the `switch` on its result.
  - `ScheduleReturnOnError`: the return after an error.
  - `ScheduleEndRound`: the `made_progress` test.
- **System calls.** These are operators returning a `Result`:
  - `Transmit`, with `CountChunkedReadableBytes`;
  - `Receive`, with `DoReceive`: stdin replay, the index advancing past the
    end, and the non-maskable interrupt after `kMaxTrailingEmptyReceives`;
  - `Fdwait`, with `CheckTimeout`, the nfds cap, `UpdateSet` and the
    `schedule_delay` countdown;
  - `SystemCall`, the dispatch.
- **Single process.** With one process, `Schedule` jumps straight back to
  `Execute` after a completed call. Here that is the next round's first
  step, with `made_progress` already true, which has the same effect.

`MC_Scheduler` gives the sets of calls. With two processes there are two
pipes, on descriptors 3,4 and 5,6.

### Interrupts.tla

- **State.**
  - `stack`: the live `InterruptState` objects, from main's
    `Uninterruptible` (index 1) to `gInterruptState` (last). Each has
    `interruptible`, `ignorable`, `done` and `pending`.
  - `valid`, `sigterm` and `is_running`: `gSigTermStateValid`,
    `gSigTermSignal` and `gIsRunning`.
  - `pc`: where the one host thread is. The values are main between test
    cases, RunTestCase before `Schedule`, after the `Interruptible` of
    `Schedule` but before `sigsetjmp`, the `Schedule` loop, an
    `Uninterruptible` region inside it, `unwound` and stopped. `unwound`
    is the moment after a handler's `siglongjmp` to `gSigTermState`:
    `sigsetjmp(..., true)` has restored `Schedule`'s signal mask, but
    `gInterruptState` still names the innermost region the jump abandoned,
    until `sigsetjmp` returns and `Schedule`'s `Interruptible` is destroyed.
  - `got`: `Run`'s result. `runs` and `regions` are counters with bounds.
  - Three history variables. `owed` is a queued signal not yet delivered.
    `stop_run` is the test case during which the first signal came.
    `aborted` is set by a `GRANARY_ASSERT`.
- **Operators.**
  - `PushState` and `PopState` are the constructor and destructor. They
    include the down-propagation and the up-propagation of a pending signal.
  - `NmiScan` is the loop of `NonMaskableInterrupt`.
  - `CatchInterrupt`, `CatchNonMaskableInterrupt` and `Raise` map a record
    of the globals to its new value. They also say whether `siglongjmp` was
    taken and whether an assertion fired.
  - `LongJump` is the jump itself: the globals become the handler's, the
    stack is left as it was, dead regions included, and `pc` is `unwound`.
  - `RunExit` is `Schedule`'s return and the rest of `Run`. A `siglongjmp`
    skips the destructors of the regions above `Schedule`'s
    `Interruptible`, and that destructor's `gInterruptState = prev_state`
    (`interrupt.cc` 37) cuts them off. So `RunExit` cuts the stack back to
    that region, then runs its destructor.
- **Actions.** `StartTestCase` and `StopTestCases` are the loop of `main`
  (`play.cc` 403-451). `EnterSchedule` and `ArmSchedule` are `Run` up to
  `gSigTermStateValid = true`. `EnterRegion` and `LeaveRegion` are a region
  of a system call, a lookup or a trace build. `InputExhausted` is
  `DoReceive` calling `NonMaskableInterrupt`. `ScheduleReturns` covers any
  of the normal returns of `Schedule`. `SignalArrives` is an external
  SIGINT, SIGTERM, SIGALRM or SIGPIPE, at any point, `unwound` included.
  The handler itself is atomic, since it runs with every signal blocked
  (`sa_mask` is `sigfillset`, `schedule.cc` 73). When a handler (of either
  kind) takes `siglongjmp`, the step ends in `unwound`, and
  `ScheduleUnwinds` is `sigsetjmp` returning non-zero: `Schedule` returns
  and `RunExit` follows. Between the two a signal can arrive: the mask is
  already restored.

### Patcher.tla, PatchQueue.tla and MC_Patcher.tla

- **Abstract spec.** `PatchQueue` is what the patcher promises. There is a
  sequence `pending` of patch points `[rel32, target]`, each a cell that
  holds a rel32 in the code cache and the guest PC it jumps to. `Add`
  appends a point. `Link` patches a point whose target is now in the index
  and removes it. `DropAndAdd` empties a full queue and adds the new point.
  `Restart(k)` keeps a prefix.
- **State of `Patcher`.**
  - `gPatches` and `gNextPatch` are the 0-based array and its counter.
  - `rel32` holds the cache cells. `index` holds the blocks that
    `index::Insert` put in, and `disk_index` is the index file.
  - `blockpc` and `cell_target` are the translated blocks. Each block has
    two cells, for the taken and the not-taken branch, in the order of
    `block.cc` 1118-1130.
  - The code cache counts in slots: a block takes one, a trace one per
    entry. `next` is `gNextBlockPC - gBeginSyncPC`, `csize` is
    `gCacheSize`, `fsize` is the size of the cache file and `sync` is
    `gSyncCache`. `traceslots` are the slots that hold trace code
    (`is_trace_block`).
  - `found` is the key Execute's lookup loop ended with, `trace` the
    recorder's entries and `inline_cache` the array `gInlineCache` with
    its probe counters and `kCacheIsEmpty`.
  - `phase`, `caller`, `i`, `first_free`, `last_free` and `sub` are the
    locals of the `PatchCode` loop. Each step of that loop is its own action.
    A step that patches is split at its two writes: `Patch`, then
    `memset(0)` (lines 85-86), or `memcpy`, then `memset` (lines 93-94).
    So a crash can fall between them.
- **Actions.**
  - `Translate` encodes a block and calls `AddPatchPoint`. When the queue is
    full, it runs the sweep first (lines 113-123). Its slot comes from
    `Allocate`, which calls `ResizeCache` past `gEnd`. `InsertBlock` is
    `index::Insert` and the `ClearInlineCache` after it (`execute.cc`
    77-80).
  - `Lookup` is a hit of the lookup loop. `Dispatch` is the rest of the
    iteration (`execute.cc` 87-97): `InsertIntoInlineCache` unless the block
    ends with an error or a system call, then `BlockEndsTrace`, and `Build`
    of an ended trace of two or more entries. Which blocks end with a
    system call or have one successor is a nondeterministic choice.
  - The `Sweep*` actions are the loop of `PatchCode`, and `SweepEnd` is its
    tail.
  - `Exit` is `ExitPatcher` followed by `index::Exit` and `cache::Exit`
    (`play.cc` 467-469). `cache::Exit` truncates the file to `next` when
    `gSyncCache`.
  - `Restart` is a clean restart. Only the first `PersistedSlots` slots
    come back from the file: the mmap covers `kPageSize`, which is 256
    points, of an array of 512. The cache cells survive, since their file is
    mapped `MAP_SHARED`. The index is read back from `disk_index`, which
    is written only at `Exit`. `cache::Init` scales the file to whole
    pages and allocates after its old size.
  - `Crash` is the same restart without `Exit`. It is outside `Spec` and
    part of `CrashSpec` only.
- **Refinement.** `Pending` maps `gPatches[0 .. gNextPatch)` onto the
  abstract queue. A sweep that is still running maps to its compacted
  prefix `[0, first_free)` followed by the slots not yet visited. A slot
  that was patched but not yet cleared counts as visited.
  `PatchQueueRefined` checks `Queue!Spec` as a temporal property.

### Mutate.tla, MutationStream.tla and MC_Mutate.tla

`Mutate` models `input/record.cc` and `input/mutate.cc`.

- **State.**
  - `orig` is the `IORecording` given to `Mutator::Create`.
  - `cfg` describes the mutator that `Create` built: slice or splice,
    chunked, infinite, engine, start bit, maximum slice.
  - `rec` is the mutator's own record. The Chunked mutators canonicalise it
    with `ChunkedCanonicalizeTest`.
  - `curr`, `size`, `prefix` and `midx` are `curr_input_index`,
    `slice_size`, `max_prefix_length` and `mutation_index`.
  - `out` is the recording the last request returned, or `None` for
    nullptr.
  - A recording is a sequence of records `[kind, data]`. Indices into it
    are the code's 0-based indices into `system_calls`.
- **Helpers.**
  - `MaxInputIndex`, `NextInputIndex`, `CopyInputs` and
    `ChunkedCanonicalizeTest` are the static functions of `mutate.cc`.
  - `SlicePositions`/`SliceEnd` and `PrefixEnd` are the loops inside the
    two `RequestMutationImpl`s.
  - `Engine` gives the set of entries each per-syscall engine can append.
    The random engines give every choice.
  - `FlipBits` computes the masks as the enum does, truncated to
    `uint8_t`.
- **Action.** `Request` is one `RequestMutationImpl`. For an infinite
  mutator whose base returns nullptr, it includes the `Reset` and the
  second request.
- **Abstract specification.** `MutationStream` is what a mutator promises.
  Each request returns any member of the next set in a fixed list. Once the
  list is used up, every request returns nothing, or the list starts over
  if the mutator is infinite.
- **Reference list.** `RefListOf` builds the list declaratively from the
  inputs `I` of the (canonicalised) record:
  - for a slice mutator, for each window size `k` up to its maximum and
    each start `j`: `I[1..j-1]`, then the engine's output for
    `I[j..j+k-1]`, then the rest;
  - for a splice mutator, for each prefix length `p < n` and each input
    `m`: the first `p` inputs through the engine, then `I[m]`, then
    `I[p+1..n]`.
- **Refinement.** `StreamPos` maps the iterator fields to the position in
  that list. `MutatorRefinesStream` checks `Stream!FairSpec`, which
  includes weak fairness of the abstract step.
- **Fairness.** The model assumes weak fairness of `Request`. Its caller,
  the mutation loop of `play.cc`, is a plain loop that asks again as long
  as the campaign goes on.
- **Performance.** `RefTable` and `FlipTable` are constant tables, so that
  TLC computes them once. `FlipBits` uses `Bitwise`, which is slow when TLC
  evaluates `ENABLED`.

### Campaign.tla and MC_Campaign.tla

`Campaign` models `main`'s mutation loop in `play.cc` (lines 403-448), with
the mutator composed as `M == INSTANCE Mutate`.

- **Actions.**
  - `FirstRun` is the first `RunTestCase`. Its recording becomes
    `gRecordToMutate`.
  - `CreateMutator` is the outer loop's head, including `gInput.clear()`.
  - `RequestInput` is one pass of the request loop. It runs only while
    `gInput` is empty, and fewer than `GiveUp` times.
  - `GiveUpMutating` is "Done mutating".
  - `StartRun`, `Interrupted` and `RunMutation` are the two
    `HasPendingInterrupt` checks around `RunTestCase`.
  - `Continue` is the `old_record_to_mutate` comparison and the mutator's
    recreation.
  - `Signal` queues an interrupt.
  - When `--output_dir` is set (`publishing`), `RunMutation` publishes a
    run that crashed (`IsCrash`) or covered new paths, as
    `PublishNewInput` of the input its recording consumed; the first run
    is never published.
  - `ExitPathCoverage` is the write of the output coverage file after the
    loops (`play.cc:470`): `covFile` becomes `allPaths`.
- **Coverage.** `allPaths` is `gAllPaths`. `FirstRun` and `RunMutation`
  set it to `UpdateCoverageSet(Counts(gInput))`: `BeginPathCoverage`
  resets it to `AtInit` (`gAllPathsAtInit`), and each flush raises a
  path's entry to `Log2ish` of its running count when that is larger.
  The running count only grows, so the result after the last flush is the
  larger of the initial entry and the log of the run's total.
  `CoveredNew` is `CoveredNewPaths`: some entry was raised. The model
  takes `--count_path_executions` and `--path_coverage` as set (their
  defaults); with the first unset no run ever covers new paths.
- **Abstractions.**
  - A replay is abstracted to the recording it leaves (`Recording`) and to
    how often it takes each path (`Counts`). Reading the coverage file is
    the constant `AtInit`. Since `BeginPathCoverage` restores `gAllPaths`
    before every run, new coverage depends on the input alone.
  - `os::Run` always returns false, so `RunTestCase` always returns true.
  - `changed` stands for the pointer comparison. A replacement record is
    allocated while the current one is alive, so the first replacement
    always differs. Once `old_record_to_mutate` has been freed, the
    allocator may reuse its address, so later comparisons are a
    nondeterministic choice.
- **Fairness.** The model assumes weak fairness of the loop's steps
  (`Step`), because `main` is a plain sequential loop. There is no
  fairness on `Signal`, because interrupts need never come.

### BlockEncode.tla and MC_BlockEncode.tla

`Block::DoDecode` (`code/block.cc`) decodes guest instructions from a block
PC until an instruction that ends a block (`AtBlockEnd`), up to
`FLAGS_max_instructions_per_block`. `Block::Encode` (`arch/x86/block.cc`)
then builds the host code on `cache_instructions`, an `InstructionStack`.
`InstructionStack::Add` inserts at the front of a `forward_list`
(`arch/instruction.h:17-22`), so every helper adds its host instructions
in the reverse of the order they run, and `Encode` works from the last
guest instruction to the first.

- **Data.** A byte holds `0..ByteBase-1` (4 in the run), so a register
  holds `0..255` and address arithmetic wraps modulo `ByteBase^4`, as the
  32-bit LEAs of the code do. A guest instruction is a record of its
  iclass, operand width, one operand (register, immediate, `[r + d]` or a
  branch displacement), destination register and length. XED's decoding
  of real bytes is replaced by `CodeImage`. A PC outside it cannot be read,
  and `DecodeInstruction` returns `MakeUD2` with the block's error set.
- **Host instructions.** Each helper (`LoadImm`, `LoadReg`, `StoreReg`,
  `BumpSP`, `Rebase`, `PatchableJump`, `RecordLastMultiWayBranch`, …)
  returns the list of instructions it adds, in the order it adds them.
  `Emit` puts that list, reversed, on the front of the stack. Host
  registers are the guest GPRs other than ESP, plus `SP` (R9), `PC` (R10),
  `VAL` (R11), `ADDR` (R12) and `BLK` (R14) of `abi.h`.
- **Emulation.** `EmulateCFI` follows `block.cc:659-687` for every CFI
  kind: direct and indirect jumps and calls, returns with and without an
  immediate, `Jcc` (`VirtualizeBranch`, a native `Jcc` over a 15-byte
  not-taken path), `JCXZ` (`EmulateJcxz`, a `JECXZ` over 13 bytes),
  `SYSENTER`, `INT 0x80`, and other interrupts. `Emulate` covers PUSH and
  POP with sign extension, PUSHA/POPA/PUSHAD/POPAD, PUSHF/POPF/PUSHFD/POPFD
  (POPFD masks the ID flag), LEAVE, ENTER (an error) and NOP. Any other
  instruction is virtualized: `Virtualize` models a native MOV whose
  memory operand is rebased onto `[MEM64 + ADDR]`.
- **Actions.** `Decode` is `DoDecode`. `EncodeTail` is `Encode` up to its
  loop: `EndBlock`, then `EmulateCFI` of the last instruction or its
  fall-through, and the `index::Value` flags. `EncodeInstr` is one pass of
  the loop: `Emulate` or `Virtualize`, then `InstrumentPC` (no
  instrumentation ids are registered) and the `LoadImm` of the exact PC.
  `EncodeFinish` is the rest of `Encode`: the block id in R14, INT3
  padding to the 8-byte boundary for each `cache::Allocate(0) % 8` in
  `CacheAlignments`, and `has_error` into `ends_with_error`. It also sets
  up `cache::Call`'s entry state. `HostStep` runs one host instruction.
  The host machine model (`HostExec`) is the x86-64 meaning of the
  instructions the helpers add. A jump over n bytes uses the encoded sizes
  of the instructions it skips (`SkipBytes`). A jump that does not land on
  an instruction boundary ends as "wild".
- **Reference.** `RefStep`/`RefRun` are the 32-bit guest semantics of the
  same instructions: a fault at the first unmapped byte, `eip` at the
  faulting or undefined instruction, a syscall exit for `INT 0x80`. They
  are written from the instruction set, not from the code, and are what
  the properties compare with.

`MC_BlockEncode` has 15 blocks. Together they cover every emulation and
every CFI kind, an unreadable tail (block 90), and a fifth NOP past the
cap of 4 (block 110). There are three register files: ESP 136 with room
on both sides, ESP 98 where pushes fault, and ESP 142 where pops fault.
They vary ZF and the ID flag, and ECX is 0, 16 (CX = 0 with ECX # 0) and
5. The mapped stack is `[96, 144)`.

## 4. Runs

| Run | cfg | Result | What it shows |
|---|---|---|---|
| execute_safety | ExecuteSafety.cfg | pass | `RangesDisjoint`, `HostMappingMatchesRanges` (a page is mapped iff a range covers it at or above its lazy base) and `AllocateIsHighestFit` (the scan equals the reference "highest free run below kMaxAddress") and `SnapshotRevivesPages` (a snapshot taken in any state revives with every page's perms, readability and contents) hold over every sequence of 3 syscalls with guest loads, stores and executions, through the splits made during lookup (`TryMakeExecutable`, `CanExecute`). 289,529 states. |
| stale_self_modified_code | StaleSelfModifiedCode.cfg | violation | `allocate(1, is_x=1)`, execute page 3, store to page 3 (no fault: still `PROT_READ|WRITE`), execute page 3 again: the index returns the translation of the old bytes. |
| scheduler_safety | SchedulerSafety.cfg | pass | Over 8 system calls of two processes (transmits and receives on both descriptors of a pipe, partial buffers, stdin replay to its end, fdwait with no timeout, a sub-second timeout and a 1-second timeout, terminate, block errors), four properties hold. `PipesAreFifo`: the ring buffers implement `Fifo`. `BlockedOwnersWaiting`: a pipe's blocked reader or writer is blocked in a call on that pipe, for the recorded count. `NoProgressOnlyWhenStuck`: when `Schedule` gives up, every live process's call would again be in progress. `SchedTypeOK` includes `0 <= writer_head - reader_head <= kBufferSize`. 471,416 states. |
| interrupts_safety | InterruptsSafety.cfg | pass | Three test cases, two regions per `Schedule` and two signals arriving at any point, including between a `siglongjmp` and `Schedule`'s return. `NmiNeverAborts`: the end of input always escapes back into `Schedule`, even with a signal queued around the receive. `InterruptTypeOK` includes that every region above main's is live and that only the innermost can be `done`. 1,172 states. |
| nmi_signal_lost | NmiSignalLost.cfg | violation | `QueuedSignalNotLost` (a queued signal stays visible to `HasPendingInterrupt` until it is delivered or muted) fails in 8 states. The input runs out inside a receive, and the NMI's `siglongjmp` restores `Schedule`'s mask. A SIGINT then arrives while `gInterruptState` still names the abandoned receive region, so `CatchInterrupt` queues it there. `Schedule`'s `Interruptible` destructor skips that region, and the SIGINT is gone. |
| encode_safety | EncodeSafety.cfg | pass | 15 blocks × 3 register files × 2 cache alignments are decoded, encoded and run on the host model. `IndexValueSound`: a block marked `has_one_successor` exits to one PC from every register file, `ends_with_syscall` is set exactly for blocks that exit into a system call, and a block that can trap is marked `ends_with_error`. `HostStackBalanced`: no `PUSHFQ` is left on the host stack at the block's `RET`. 1,439 states. |
| translation_diverges | TranslationDiverges.cfg | violation | The same inputs as encode_safety. `TranslationMatchesReference` says every run of the host code ends as the guest's would: as an exit with the same registers, flags, stack bytes and next PC, as a fault at the same address with R10 at the faulting instruction, or as a trap with R10 at the same undefined instruction. It fails in 11 states on block 130, `CALL [ESP+4]` with ESP 98. The target 198, read from `[ESP+4]`, is loaded into R10 before the push, the push faults, and R10 names the target instead of the call. With `BlockPCs = {120}` it fails on JCXZ with ECX = 16: no MOVZX is emitted, and the host `JECXZ` tests all of ECX. With the ECX = 16, ESP = 98 register file left out, it holds on all 15 blocks (1,102 states), through the reversed adds of every helper, the SP arithmetic of PUSHA/POPAD/LEAVE/RET imm, the 15- and 13-byte skips and POPFD's ID mask. |
| patcher_safety | PatcherSafety.cfg | pass | The run covers two runs of the emulator with a clean exit between them, blocks whose branches fill a 4-slot queue, traces and a two-probe inline cache. `PatchQueueRefined`: the queue implements `PatchQueue`. `NoDoublePatch`: `Patch` never finds a rel32 already set (the `GRANARY_ASSERT` of line 65). `ChainTargetsMatch`: every patched cell jumps to the block of its own target. `CacheHoldsIndexedBlocks`: every slot the index or the index file names holds code for its key, inside the mapping and the cache file. This holds through `cache::Init`'s revival, `ResizeCache` and `Build`'s offsets. `InlineCacheCurrent`: every inline-cache entry names the current index block. `PatcherTypeOK` bounds `gNextPatch` by `kNumPatches`. 1,274,474 states. |
| crash_double_patch | CrashDoublePatch.cfg | violation | Under `CrashSpec`, block 1 branches to 2, and block 2 is translated and inserted. The sweep patches the cell, and the emulator dies before `memset` clears the slot. At restart the slot comes back from the patch file, the next sweep patches the same cell again, and the assertion fires. |
| mutate_safety | MutateSafety.cfg | pass | The check covers all 40 recordings of up to three entries, each one of `In(<<0>>)`, `In(<<2>>)` and a split, and 11 mutators: splice, splice_chunked, random, dropper, bitflip1, bitflip2, bitflip8, bitflip4_2, bitflip8_8, inf_bitflip_random and inf_chunked_repeat. `MutatorRefinesStream` holds: every mutator hands out its reference list exactly, entry by entry, and then nullptr, or the list again if it is infinite. Under weak fairness it reaches the end. `MutateTypeOK` keeps the iterator fields inside the record. 2,596 states. |
| campaign_stalls | CampaignStalls.cfg | violation | The run uses `bitflip2`, input `<<0>>`, no remutation and no signal. The first request gives `<<2>>`, and it runs. `gInput` is still `<<2>>`, so the request loop does not ask again, and `<<2>>` runs again forever. `CampaignEnds` is violated by this lasso. With `gInput` cleared after each run, the same configuration passes (3,590 states). |
| stale_fdwait_delay | StaleFdwaitDelay.cfg | violation | P1 calls fdwait(fd 3, 1 s) and sleeps (delay 1). P2 writes to the pipe, and P1's fdwait completes with delay still 1. P1 reads, then calls fdwait(fd 3, 1 s) again. It sleeps once (1 to 0) and times out: one pass instead of two. |

Bounds:

- `MaxVersion = 1`: one store per page is enough to tell new code from old.
- `MaxNumSyscalls` is 4 for PageTable and 3 for Execute. The three Execute
  bugs need one syscall, and a deallocate or an EFAULT rollback needs two.
- `MaxIndexEntries = 3`: a state constraint on the index, enough for one
  stale and one fresh entry on each of two PCs.
- A heap gap of 2 to 3 pages lets ranges split and sit next to each other.

stale_self_modified_code and StateEscapesPerms.cfg restrict allocate's `is_executable` input
(`AllocIsX`), so that each trace shows one defect rather than the NX bypass
combined with another.

Scheduler bounds:

- `BufferSize = 2`: the ring wraps, fills and blocks a writer with writes of
  1 and 2 bytes.
- `InputLen = 1`: one replayed byte, then the end of input, and the
  non-maskable interrupt within 3 receives.
- `MaxNumSyscalls = 8`: enough for a write, a blocked read, a wake-up, a
  second fdwait and the end of input in the same behaviour. The violation
  runs use 4 and 8; their traces take 1 and 6 calls.

Interrupts bounds: `MaxRuns = 3` lets a signal in one test case be followed
by another test case. `MaxRegions = 2` lets a signal queued in one region
outlive the next. `MaxSignals = 2` gives a second signal arriving while
the first is pending. `Exited` is the stutter of a program that has exited.

Patcher bounds: `NumPatches = 4` and `PatchInterval = 2` make the queue
fill, so the clear-when-full path runs. `PersistedSlots = 2` keeps the
mapped/unmapped split of the real array (256 of 512). `MaxBlocks = 3` and
`Targets = {1, 2, 3}` give a block that targets itself, two blocks that
target each other, and a target that is never translated. `MaxRuns = 2`
gives one restart. `MaxBlocks = 6` slots with `PageBlocks = 3` let the
cache grow by a page, leave a file whose size is not a page multiple at
exit, and leave room for new code after the revived content. A trace needs
a resize or not depending on where it starts. `MaxTrace = 2` is the
smallest trace that `Build` builds. With two entries, `Build` inserts one
key, and the abstract queue's `Insert` covers that. `ICEntries = 1` and
`ICProbes = 2` make inserts overwrite each other in probe order.

Mutate bounds:

- `Bytes = {0, 2}`: bitflip2 maps 0 to 2, so a flipped byte is
  recordable, and the random engines have two choices per byte.
- Recordings have up to three entries. This gives windows of 1 to 3
  inputs, inputs separated by a split (for the Chunked merge), and
  recordings with no input at all.
- `RepeatAmounts = {0, 1, 2}` covers dropping, keeping and repeating. The
  larger members of `kRepeatAmounts` behave like 2.
- The other bit flips differ from those checked only in their start bit.

Campaign bounds: two initial inputs, four mutators (two splice/slice
engines, a bit flip and an infinite one), and `GiveUp = 5` as in the
code. The guest reads at most two bytes, so remutated records stay
bounded.

Translator bounds: `ByteBase = 4` keeps register values at 0..255 while
still giving a sign bit for PUSH imm8 (3 extends to 255) and a 16-bit half
for PUSH AX, POPF and PUSHA. A 48-byte stack is enough for PUSHAD from the
roomy ESP, and it puts a fault on each side for the other two register
files. `MaxInstructionsPerBlock = 4` is the smallest cap that the PUSH,
PUSH, POP, RET block fits. `CacheAlignments = {0, 5}` gives no padding
and three INT3s. ECX = 16 is `ByteBase^2`, the smallest value with
CX = 0 and ECX # 0.

Disagreements that are modelled but have no run. Runs are kept to one per
question, and at most twelve:

- Page table, `Process32::Deallocate` (`process.cc:466`): `deallocate(6,
  2)` passes the system call's EINVAL checks (`syscall.cc:633-656`), but
  it starts in a gap and ends inside the stack `[7,9)`. It takes the
  "contained within" branch and builds the inverted range `[7,6)`, and the
  always-compiled assertion of `CheckConsistency` aborts the emulator.
  `ConsistencyAssertHolds` fails after one step with
  DeallocCrossBoundary.cfg on `MC_PageTable`. spec.md:76 says
  deallocation only cuts a prefix, a suffix or a middle.
- Page table, `TryChangeState` (`process.cc:270`) checks only the old
  state, never the range's perms. `StateWithinPerms` (a kRX range has X in
  its perms, a kRW range has W) fails after one step with
  StateEscapesPerms.cfg on `MC_Execute`. That cfg uses
  `MCWideTextSnapshot`, a process with a two-page r-x text `[1,3)`.
  `allocate(1)` stores its result through a pointer into page 2. The store
  faults, `TryMakeWritable` splits the text and maps page 2 read-write, and
  the store into code succeeds. With the one-page text of `MCSnapshot` it
  fails in two steps: `allocate(1, is_x=0)`, then a jump into the page,
  which `TryMakeExecutable` makes kRX, so non-executable memory runs.
  (The store into r-x text needs a page of a kRX range past its base: on
  the base page the change is in place and the store faults again.)
- Interrupts: `Run` sets `gSigTermSignal = 0` (`schedule.cc:371`) and
  then returns `0 != gSigTermSignal`, which is always false. So
  `RunTestCase`'s "The user wants us to stop" branch (`play.cc:285-289`)
  is dead code. A SIGINT caught while the guest runs is consumed by the
  `siglongjmp`, and the next test case starts. `UserStopHonoured` fails
  in six states with `INVARIANT UserStopHonoured` and `MaxRuns = 3`,
  `MaxRegions = 2`, `MaxSignals = 2`, `InputEnds = TRUE` on
  `SPECIFICATION Spec` of `Interrupts`.
- Translator, `RET 0` (`C2 00 00`): `EmulateFunctionReturn` calls
  `BumpSP(0)`, whose `GRANARY_ASSERT(0 != shift_)` is always compiled
  in (`base.h:71-75`). grr aborts while translating a legal guest
  instruction. With `CodeImage <- MCRetZeroCode` and `BlockPCs = {160}`,
  `EncodeFinish` ends in `abort` and `TranslationMatchesReference` fails.

- A signal queued in an `Uninterruptible` region before or inside
  `Schedule` is handed up to `Schedule`'s `Interruptible`. It is delivered
  only when `Schedule` returns (`interrupt.cc` 27-45). spec.md says it is
  delivered at the next region boundary.
- Pending patch points in slots past the first page are lost at a restart
  (`patch.cc:149`). spec.md:162 says pending patches survive across runs.
- Execute: a store to the first page of an rwx allocation after it was
  executed, as in `allocate(2, is_x=1)`, execute page 3, store to page 3.
  The split leaves `[3,4)` kRX and `PROT_READ`, and `TryMakeWritable`
  flips it in place without `mprotect` (`process.cc:277`). The store
  faults again and the guest dies. spec.md:78 says the handler flips the
  page to RW and resumes. This has the same root cause as
  stale_self_modified_code.
- Scheduler: fdwait caps nfds at `num_exe * 2 + 1` (`syscall.cc:495`),
  which is two below the FileTable size. With two processes, fdwait on
  descriptor 5 with nfds 6 fails with EBADF.
- Campaign: `old_record_to_mutate` is never updated (`play.cc:441`), so
  after one remutation the mutator is recreated after every run and
  starts over. Even with that and `gInput` fixed, remutation can cycle
  forever. An input that covered new paths covers them again on every
  replay, since coverage is reset per run (`coverage.cc:196`).
- Page table, read from the model and checked by hand with a four-page
  stack `[6,10)`, `lazy_begin` 9 and the saved PC on the stack: the split
  path of `TryChangeState` mprotects `[addr, limit)` whole
  (`process.cc:328`). A kRX-to-kRW split below `lazy_base` therefore makes
  demand-mapped pages writable without `TryLazyMap`. A store there is
  lost by `Snapshot32::Create`, which writes zeroes below `lazy_base`.
  `SnapshotRevivesPages` fails in two steps on that layout. The
  execute_safety layout cannot reach it, because a kRX range with a lazy
  part exists only when the snapshot's PC is on the stack.
- Snapshots: `Snapshot32::Create` writes `file->ranges[i++]` with no bound
  (`decree_user/snapshot.cc:494`), while `InitSnapshotFile` asserts
  `kMaxNumMappedRanges > i`. Every allocate adds a range and ranges are
  never merged, so a guest with about 800 ranges overwrites the snapshot's
  first data page. This is out of TLC's reach.
- Coverage, read from the model and not checked by a run of its own:
  `ExitPathCoverage` writes `gAllPaths` (`coverage.cc:230`), which holds
  the initial counts plus the last run's raises only, so a path first
  covered by an earlier run of the campaign is missing from the output
  file. In Campaign, `covFile` equals `UpdateCoverageSet` of the last run.
  Separately, `InitPathCoverage` reads up to 4096 entries at a time and
  asserts it read fewer than 4096 (`coverage.cc:169`), so a coverage file
  of 4096 or more entries aborts.

- Code cache: `Value::cache_offset` is a 27-bit field (`index.h:70`), but
  the cache reserves `k250MiB` = 2^28 bytes (`cache.cc:34`). `Allocate`
  has no limit. With `--persist` the cache file only grows across runs,
  since `cache::Init` allocates after the old content. Past 128 MiB of code,
  offsets stored in the index wrap, and a key runs earlier code. Past
  2^28 bytes, `ResizeCache` maps `MAP_FIXED` outside the reservation. Patcher keeps `MaxBlocks` below the
  offset range, so this one is read from the code, not checked.

Other observations:

- `BitFlipSyscallMutator`'s masks do not use `kNumBits`. Every bit flip
  flips bit `kStartBit - 1` alone, so bitflip8_8 equals bitflip8.
- `PipelineMutator` is never built by `Create`.
- A mutator can return a test case with no input bytes (dropper), which
  `RequestMutation` turns into "", the same as nullptr.

Fairness is used in two modules:

- Mutate assumes weak fairness of `Request`.
- Campaign assumes weak fairness of `Step`.

Both are justified by `main`'s plain loop. Every other property is a
safety property. `NoProgressOnlyWhenStuck` is the safety half of "a
process that can go on is not abandoned".
`CHECK_DEADLOCK FALSE` is used because a guest that faults (bad block) or an
emulator that aborts really stops, and the syscall bound ends every behaviour.

## 5. Not modelled, and why

- In Execute, a translation is abstracted to the content version of its
  page, and blocks that cross two pages are not modelled. BlockEncode
  models the translation itself, but not XED: the decoding of real bytes,
  operand widths and prefixes come from `CodeImage`. It also leaves out the
  string instructions, BOUND and XLAT; the stolen legacy register of
  `Virtualize` for 8-bit high registers; IRET and SYSEXIT;
  `ReportEncoderFailure`; instrumentation ids; and `BumpSP`'s 8-bit
  displacement for RET imm16 above 127. Virtualized instructions other
  than MOV are not modelled, and neither is `UpdateRelBranch`. The patch
  points `Encode` records are modelled in Patcher. An empty block (`Encode`'s
  `!num_app_instructions` branch) needs a cap of 0 instructions, so it
  is in the model but not reached.
- The 24-bit truncation of XXH32, and so hash collisions, is not modelled.
- A kRX range that contains `PROT_NONE` pages is outside the model, and so is
  `HashRange`'s fault handling inside `HashPageRange`. Such a range arises
  only from executing the first page of the stack, and `ExecPCs` stays below
  kMaxAddress. It is listed as a hazard.
- Unaligned addresses and lengths of the syscalls are not enumerated. They
  are EINVAL early returns with no state change.
- In the scheduler, guest buffers are abstracted to how many of their bytes
  are readable or writable. The fd sets and the `readyfds`, `rx_bytes` and
  `tx_bytes` pointers are taken to be valid. The `sigsetjmp` exit of
  `Schedule` on an interrupt is left for the Interrupts module. `random` is
  a call that completes, with no memory effect.
- In Interrupts, `ClearInlineCache` in the handlers is not modelled. The
  `Ignorable` region is in the model, but no code creates one. Guest work in
  `Schedule` is abstracted to when regions are entered and when `Schedule`
  returns.
- In Patcher, blocks are not decoded. A block is a guest PC and its list
  of branch targets. The byte offsets of cells are abstracted to
  (block, branch). The index is the set of inserted PCs. A block takes one
  cache slot. Its 8-byte alignment padding is not modelled. Nor is the
  assembly that reads the inline cache, `cache::Call` (not under `src/`),
  or the clears in the signal handlers and on a process switch. Patcher has
  one process and no faults. The cache reservation is bounded by
  `MaxBlocks`, below the 27-bit offset range.
- The I/O side of snapshots is not modelled: ptrace of the binary, the
  text of `/proc/<pid>/maps`, copying the ELF file, and the registers and
  FPU state in the header. The same goes for reading the coverage file,
  `PathCoverageHash`, the branch tracer, the record file's serialisation,
  and the CLI's flag handling. They are I/O (see "components" in
  `PROJECT.json`).
- `PipelineMutator` (`mutate.cc:324-376`) is not built by
  `Mutator::Create`, so no campaign can use it. It is not modelled.
  Reading the code, its retry after an exhausted second stage is
  inverted: it calls `base2->RequestMutationImpl()` only when `base2` is
  null (line 344).
- The Radamsa mutators, and `ConcatMutator`, which is only built with
  Radamsa, are out of TLC's reach.
- Campaign models `PublishNewInput` with a published file reduced to its
  kind (crash or coverage) and contents; the MD5 and coverage-hash file
  names, and so the replacement of a file by a later one of the same name,
  are not modelled. Nor are the counters kept for `--print_num_mutations`.
