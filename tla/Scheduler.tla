------------------------------ MODULE Scheduler ------------------------------
(***************************************************************************)
(* The cooperative scheduler of src/granary/os/schedule.cc (Schedule) and *)
(* the DECREE I/O system calls of src/granary/os/decree_user/syscall.cc   *)
(* (terminate, transmit, receive, fdwait) over the pipes of PipeFile.     *)
(* The guest code between two system calls is abstract: code::Execute    *)
(* returns with the process at some system call of Calls, or with the     *)
(* process in kError or kIgnorableError. allocate, deallocate and random  *)
(* (modelled in PageTable) are the call "other", which always completes.  *)
(* A system call's arguments are fixed when Execute returns and a call    *)
(* that is in progress is repeated with the same arguments.               *)
(***************************************************************************)
EXTENDS Integers, FiniteSets, PipeFile

CONSTANTS
    NumProcs,        \* FLAGS_num_exe: the processes of the group
    InputLen,        \* gInput.size(): bytes of input to replay on stdin
    MaxNumSyscalls,  \* kMaxNumSyscalls (10485760; a few here)
    Calls,           \* the system calls guest code may make
    GuestErrors      \* the error statuses a block may end with

ASSUME NumProcs \in Nat \ {0} /\ InputLen \in Nat /\ MaxNumSyscalls \in Nat

Procs == 1..NumProcs

(* CreateFiles: stdin, stdout and stderr, then in multi-process mode one  *)
(* File per process, reachable through the two descriptors 3+2i and 4+2i.*)
NumFds  == 3 + (IF 1 < NumProcs THEN NumProcs * 2 ELSE 0)
FileIds == IF 1 < NumProcs THEN 0..NumProcs - 1 ELSE {}
FileOf(fd) == (fd - 3) \div 2
IsStdFd(fd) == fd \in {0, 1, 2}

kMaxTrailingEmptyReceives == 2

VARIABLES
    status,          \* Process32::status: "syscall", "done", "error", "ignorable"
    exec_status,     \* Process32::exec_status: "ready", "blocked", "invalid"
    call,            \* the system call each process is at (its registers)
    schedule_delay,  \* Process32::schedule_delay, -1 when not sleeping
    files,           \* the FileTable, one File per FileIds
    gInputIndex,     \* the next byte of gInput to replay
    cur,             \* the process the round is at, NumProcs+1 at its end
    at,              \* "top" of the loop body, or "syscall" after Execute
    made_progress,
    num_syscalls,
    stop,            \* "none" while Schedule runs, else why it returned
    sleeps,          \* history: kSleeping results of each process's call
    ret              \* history: the result of each process's last call

vars == <<status, exec_status, call, schedule_delay, files, gInputIndex,
          cur, at, made_progress, num_syscalls, stop, sleeps, ret>>

NoRet == [code |-> "none", bits |-> 0]
Ret(code, bits) == [code |-> code, bits |-> bits]

(* A system call's result: its SystemCallStatus, the new FileTable, input *)
(* index and schedule_delay of the caller, and the value it returns.      *)
Result(st, fs, gi, sd, r) ==
    [st |-> st, files |-> fs, gi |-> gi, delay |-> sd, ret |-> r]

-----------------------------------------------------------------------------
(* DoReceive: replay input bytes into the guest buffer, of which the first *)
(* wlen bytes are writable. gInputIndex advances for every byte tried,    *)
(* also the one found past the end of the input; walking                  *)
(* kMaxTrailingEmptyReceives bytes past the end raises the non-maskable   *)
(* interrupt that ends the replay.                                         *)
RECURSIVE ReceiveBytes(_, _, _, _, _)
ReceiveBytes(i, count, wlen, gi, n) ==
    LET done(faulted, nmi) ==
            [gi |-> gi + 1, n |-> n, faulted |-> faulted, nmi |-> nmi]
    IN IF i >= count THEN [gi |-> gi, n |-> n, faulted |-> FALSE, nmi |-> FALSE]
       ELSE IF gi >= InputLen
            THEN done(FALSE, gi - InputLen >= kMaxTrailingEmptyReceives)
       ELSE IF i < wlen THEN ReceiveBytes(i + 1, count, wlen, gi + 1, n + 1)
       ELSE done(TRUE, FALSE)

DoReceive(count, wlen) == ReceiveBytes(0, count, wlen, gInputIndex, 0)

(* ConvertStatus: FileIOStatus to SystemCallStatus and return value.       *)
ConvertStatus(io, p, c) ==
    LET fs == [files EXCEPT ![FileOf(c.fd)] = io.file]
        sd == schedule_delay[p]
    IN CASE io.status = "completed" -> Result("complete", fs, gInputIndex, sd, Ret("0", 0))
         [] io.status = "faulted"   -> Result("complete", fs, gInputIndex, sd, Ret("EFAULT", 0))
         [] OTHER                   -> Result("inprogress", fs, gInputIndex, sd, NoRet)

Complete(p, code) ==
    Result("complete", files, gInputIndex, schedule_delay[p], Ret(code, 0))

(* Transmit. CountChunkedReadableBytes counts readable bytes in chunks of *)
(* 2048: a buffer of fewer bytes counts as all readable or as none.       *)
Transmit(p, c) ==
    LET num_bytes == IF c.len >= c.count THEN c.count ELSE 0 IN
    IF c.count > 0 /\ num_bytes = 0 THEN Complete(p, "EFAULT")
    ELSE IF IsStdFd(c.fd) THEN Complete(p, "0")
    ELSE IF c.fd < 0 \/ c.fd >= NumFds THEN Complete(p, "EBADF")
    ELSE ConvertStatus(FileWrite(files[FileOf(c.fd)], p, num_bytes), p, c)

(* Receive: stdin, stdout and stderr replay the input; other descriptors  *)
(* read their pipe.                                                        *)
Receive(p, c) ==
    LET r == DoReceive(c.count, c.len) IN
    IF IsStdFd(c.fd)
    THEN IF r.nmi
         THEN Result("nmi", files, r.gi, schedule_delay[p], NoRet)
         ELSE Result("complete", files, r.gi, schedule_delay[p],
                     Ret(IF r.faulted THEN "EFAULT" ELSE "0", 0))
    ELSE IF c.fd < 0 \/ c.fd >= NumFds THEN Complete(p, "EBADF")
    ELSE ConvertStatus(FileRead(files[FileOf(c.fd)], p, c.count, c.len), p, c)

(* UpdateSet over one descriptor set: the descriptors that stay set.       *)
(* nfds has been capped at FLAGS_num_exe * 2 + 1 by Fdwait.                *)
ReadyReads(p, fds) ==
    {fd \in fds : /\ ~(3 <= fd /\ ReadWillBlock(files[FileOf(fd)], p))
                 /\ ~(fd < 2 /\ gInputIndex >= InputLen /\ InputLen # 0)}

ReadyWrites(p, fds) ==
    {fd \in fds : ~(3 <= fd /\ WriteWillBlock(files[FileOf(fd)], p))}

(* Fdwait. The fd sets and readyfds are in writable guest memory. With no *)
(* ready descriptor and no timeout the call is in progress; with a        *)
(* non-zero timeout the caller sleeps one scheduler pass per second of    *)
(* timeout (at least one) counted down in schedule_delay.                  *)
Fdwait(p, c) ==
    LET nfds == MinOf(c.nfds, NumProcs * 2 + 1)
        bits == Cardinality(ReadyReads(p, c.rfds))
                  + Cardinality(ReadyWrites(p, c.wfds))
        sd   == schedule_delay[p]
        Sleep(d) == Result("sleeping", files, gInputIndex, d, NoRet)
        Done(d)  == Result("complete", files, gInputIndex, d, Ret("0", bits))
    IN IF c.timed /\ (c.sec < 0 \/ c.usec < 0) THEN Complete(p, "EINVAL")
       ELSE IF c.nfds < 0 THEN Complete(p, "EINVAL")
       ELSE IF \E fd \in c.rfds \cup c.wfds : fd >= nfds
            THEN Complete(p, "EBADF")
       ELSE IF bits = 0 /\ ~c.timed
            THEN Result("inprogress", files, gInputIndex, sd, NoRet)
       ELSE IF bits = 0 /\ (c.sec # 0 \/ c.usec # 0)
            THEN IF sd = -1 THEN Sleep(IF c.sec = 0 THEN 1 ELSE c.sec)
                 ELSE IF sd # 0 THEN Sleep(sd - 1)
                 ELSE Done(-1)
       ELSE Done(sd)

(* SystemCall: dispatch on the selector in EAX.                            *)
SystemCall(p, c) ==
    CASE c.sys = "terminate" ->
           Result("terminated", files, gInputIndex, schedule_delay[p], NoRet)
      [] c.sys = "transmit" -> Transmit(p, c)
      [] c.sys = "receive"  -> Receive(p, c)
      [] c.sys = "fdwait"   -> Fdwait(p, c)
      [] OTHER              -> Complete(p, "0")

-----------------------------------------------------------------------------
(* The calls a guest makes, as one record shape.                           *)
Sys(sys, fd, count, len) ==
    [sys |-> sys, fd |-> fd, count |-> count, len |-> len, rfds |-> {},
     wfds |-> {}, nfds |-> 0, timed |-> FALSE, sec |-> 0, usec |-> 0]
FdwaitCall(rfds, wfds, nfds, timed, sec, usec) ==
    [Sys("fdwait", 0, 0, 0) EXCEPT !.rfds = rfds, !.wfds = wfds,
        !.nfds = nfds, !.timed = timed, !.sec = sec, !.usec = usec]
NoCall == Sys("none", 0, 0, 0)

Running == stop = "none"
Live(p) == status[p] = "syscall"

(* Schedule, the loop body for a process that terminated or crashed.       *)
ScheduleSkip ==
    /\ Running /\ at = "top" /\ cur \in Procs /\ ~Live(cur)
    /\ cur' = cur + 1
    /\ UNCHANGED <<status, exec_status, call, schedule_delay, files,
                   gInputIndex, at, made_progress, num_syscalls, stop,
                   sleeps, ret>>

(* code::Execute of a ready process: run guest code up to its next system *)
(* call, or to a block ending with an error (SIGFPE: kIgnorableError).    *)
ScheduleExecute ==
    /\ Running /\ at = "top" /\ cur \in Procs /\ Live(cur)
    /\ exec_status[cur] = "ready"
    /\ made_progress' = TRUE
    /\ at' = "syscall"
    /\ \/ \E c \in Calls :
            /\ call' = [call EXCEPT ![cur] = c]
            /\ sleeps' = [sleeps EXCEPT ![cur] = 0]
            /\ ret' = [ret EXCEPT ![cur] = NoRet]
            /\ UNCHANGED <<status, exec_status>>
       \/ \E e \in GuestErrors :
            /\ status' = [status EXCEPT ![cur] = e]
            /\ exec_status' = [exec_status EXCEPT ![cur] = "invalid"]
            /\ UNCHANGED <<call, sleeps, ret>>
    /\ UNCHANGED <<schedule_delay, files, gInputIndex, cur, num_syscalls,
                   stop>>

(* Mutant: a sleeping fdwait does not count as progress.                  *)
ProgressesNoSleep(st) == st = "complete"

(* The SystemCallStatus results after which the round made progress.      *)
Progresses(st) == st \in {"complete", "sleeping"}

SyscallDue == /\ Running /\ cur \in Procs /\ Live(cur)
              /\ \/ at = "syscall"
                 \/ at = "top" /\ exec_status[cur] = "blocked"

(* The hard limit on system calls: Schedule returns.                       *)
ScheduleSyscallLimit ==
    /\ SyscallDue /\ num_syscalls >= MaxNumSyscalls
    /\ stop' = "limit"
    /\ UNCHANGED <<status, exec_status, call, schedule_delay, files,
                   gInputIndex, cur, at, made_progress, num_syscalls,
                   sleeps, ret>>

(* A system call and the scheduler's handling of its result. With a single *)
(* process a completed call goes straight back to Execute; that is the     *)
(* next round's first step here, with made_progress already set.           *)
ScheduleSyscall ==
    LET p == cur
        r == SystemCall(p, call[p])
    IN /\ SyscallDue /\ num_syscalls < MaxNumSyscalls
       /\ num_syscalls' = num_syscalls + 1
       /\ files' = r.files
       /\ gInputIndex' = r.gi
       /\ schedule_delay' = [schedule_delay EXCEPT ![p] = r.delay]
       /\ IF r.st = "nmi"
          THEN /\ stop' = "nmi"
               /\ UNCHANGED <<status, exec_status, cur, at, made_progress,
                              sleeps, ret>>
          ELSE /\ status' = [status EXCEPT ![p] =
                               IF r.st = "terminated" THEN "done" ELSE @]
               /\ exec_status' = [exec_status EXCEPT ![p] =
                     CASE r.st = "complete"   -> "ready"
                       [] r.st = "terminated" -> @
                       [] OTHER               -> "blocked"]
               /\ made_progress' = (made_progress \/ Progresses(r.st))
               /\ sleeps' = [sleeps EXCEPT ![p] =
                               IF r.st = "sleeping" THEN @ + 1 ELSE @]
               /\ ret' = [ret EXCEPT ![p] =
                            IF r.st = "complete" THEN r.ret ELSE @]
               /\ cur' = cur + 1
               /\ at' = "top"
               /\ UNCHANGED stop
    /\ UNCHANGED call

(* Execute left the process in kError (Schedule returns: the crash is     *)
(* reported) or in kIgnorableError (the unexpected case: it also returns).*)
ScheduleReturnOnError ==
    /\ Running /\ at = "syscall" /\ cur \in Procs /\ ~Live(cur)
    /\ stop' = IF status[cur] = "error" THEN "crashed" ELSE "unexpected"
    /\ UNCHANGED <<status, exec_status, call, schedule_delay, files,
                   gInputIndex, cur, at, made_progress, num_syscalls,
                   sleeps, ret>>

(* The end of a round: another round if some process made progress, else  *)
(* Schedule returns (emulating SIGPIPE).                                   *)
ScheduleEndRound ==
    /\ Running /\ cur = NumProcs + 1
    /\ IF made_progress
       THEN cur' = 1 /\ made_progress' = FALSE /\ UNCHANGED stop
       ELSE stop' = "no_progress" /\ UNCHANGED <<cur, made_progress>>
    /\ UNCHANGED <<status, exec_status, call, schedule_delay, files,
                   gInputIndex, at, num_syscalls, sleeps, ret>>

(* A new Process32 starts in kSystemCall with exec_status kReady, so that *)
(* its first turn executes up to its first system call.                    *)
Init ==
    /\ status = [p \in Procs |-> "syscall"]
    /\ exec_status = [p \in Procs |-> "ready"]
    /\ call = [p \in Procs |-> NoCall]
    /\ schedule_delay = [p \in Procs |-> -1]
    /\ files = [f \in FileIds |-> NewFile]
    /\ gInputIndex = 0
    /\ cur = 1 /\ at = "top" /\ made_progress = FALSE
    /\ num_syscalls = 0
    /\ stop = "none"
    /\ sleeps = [p \in Procs |-> 0]
    /\ ret = [p \in Procs |-> NoRet]

Next ==
    \/ ScheduleSkip
    \/ ScheduleExecute
    \/ ScheduleSyscallLimit
    \/ ScheduleSyscall
    \/ ScheduleReturnOnError
    \/ ScheduleEndRound

Spec == Init /\ [][Next]_vars

-----------------------------------------------------------------------------
(* Every variable holds a value of its type, and every pipe holds between  *)
(* zero and kBufferSize unread bytes (writer_head never passes the reader *)
(* by more than the ring's size, reader_head never passes the writer).    *)
SchedTypeOK ==
    /\ status \in [Procs -> {"syscall", "done", "error", "ignorable"}]
    /\ exec_status \in [Procs -> {"ready", "blocked", "invalid"}]
    /\ call \in [Procs -> Calls \cup {NoCall}]
    /\ schedule_delay \in [Procs -> Int]
    /\ \A f \in FileIds : /\ Used(files[f]) \in 0..BufferSize
                          /\ files[f].blocked_reader \in Procs \cup {NoProc}
                          /\ files[f].blocked_writer \in Procs \cup {NoProc}
    /\ cur \in 1..NumProcs + 1 /\ at \in {"top", "syscall"}
    /\ stop \in {"none", "limit", "nmi", "crashed", "unexpected", "no_progress"}

(* The process recorded at the head of a pipe's read (write) queue is      *)
(* blocked in a receive (transmit) on that pipe, for the byte count        *)
(* recorded: File::Read and File::Write must clear blocked_reader and      *)
(* blocked_writer when the waiting call goes through, or the pipe stays    *)
(* closed to every other process for good.                                 *)
BlockedOwnersWaiting ==
    \A f \in FileIds :
        LET F == files[f]
            Waiting(q, sys) == /\ Live(q) /\ exec_status[q] = "blocked"
                               /\ call[q].sys = sys /\ 3 <= call[q].fd
                               /\ FileOf(call[q].fd) = f
        IN /\ F.blocked_reader # NoProc => Waiting(F.blocked_reader, "receive")
           /\ F.blocked_writer # NoProc =>
                 /\ Waiting(F.blocked_writer, "transmit")
                 /\ F.blocked_writer_count = call[F.blocked_writer].count
           /\ F.blocked_writer = NoProc => F.blocked_writer_count = 0

(* Schedule gives up for lack of progress (the emulated SIGPIPE) only when *)
(* no process could go on: every live process is at a system call that    *)
(* would again be in progress.                                             *)
NoProgressOnlyWhenStuck ==
    stop = "no_progress" =>
        \A p \in Procs : Live(p) => SystemCall(p, call[p]).st = "inprogress"

(* The pipes are FIFO queues: the ring buffers of the File objects,       *)
(* written and read by File::Write and File::Read, implement Fifo.         *)
Pipe == INSTANCE Fifo WITH Pipes <- FileIds, Capacity <- BufferSize,
                           Payload <- Procs,
                           queue <- [f \in FileIds |-> Contents(files[f])]
PipesAreFifo == Pipe!Spec

(* An fdwait that times out with nothing ready has slept one scheduler     *)
(* pass per second of its own timeout, at least one, and then one more     *)
(* pass in which the count reaches zero (spec: the timeout is counted     *)
(* down in a schedule-delay counter per scheduler pass).                   *)
TimeoutWaitsFullDelay ==
    \A p \in Procs :
        LET c == call[p] IN
        (/\ c.sys = "fdwait" /\ c.timed /\ (c.sec # 0 \/ c.usec # 0)
         /\ ret[p] = Ret("0", 0))
            => sleeps[p] = (IF c.sec = 0 THEN 1 ELSE c.sec) + 1
=============================================================================
