------------------------------ MODULE PipeFile ------------------------------
(***************************************************************************)
(* A pipe, os::File of src/granary/os/file.cc: a ring buffer of           *)
(* kBufferSize bytes with a reader head and a writer head (size_t, never  *)
(* reduced modulo the size), the process blocked at the head of the read  *)
(* queue, and the process blocked at the head of the write queue with the *)
(* byte count it wants to write. The operators take a File record and     *)
(* return the updated record with the FileIOStatus; the scheduler applies *)
(* them. A byte written by a process holds that process's number: the     *)
(* properties only tell apart who wrote what, and in which order.         *)
(***************************************************************************)
EXTENDS Integers

CONSTANTS
    BufferSize,   \* File::kBufferSize, in bytes (46 pages; a few bytes here)
    NoProc        \* nullptr, for blocked_reader and blocked_writer

MinOf(a, b) == IF a < b THEN a ELSE b

(* File::File(): memset(this, 0, sizeof *this).                            *)
NewFile ==
    [buffer               |-> [k \in 0..BufferSize - 1 |-> 0],
     writer_head          |-> 0,
     reader_head          |-> 0,
     blocked_writer_count |-> 0,
     blocked_writer       |-> NoProc,
     blocked_reader       |-> NoProc]

(* writer_head - reader_head: the bytes written and not yet read.          *)
Used(F) == F.writer_head - F.reader_head

(* The unread bytes, oldest first.                                         *)
Contents(F) ==
    [i \in 1..Used(F) |-> F.buffer[(F.reader_head + i - 1) % BufferSize]]

IO(F, st, n) == [file |-> F, status |-> st, n |-> n]

(* Mutants: a read that does not bound itself by the unread bytes, and one *)
(* that leaves its reader at the head of the read queue.                  *)
FileReadPastWriter(F, p, count, wlen) ==
    IF count = 0 \/ (F.blocked_reader # NoProc /\ F.blocked_reader # p)
       \/ Used(F) = 0
    THEN IO(F, "inprogress", 0)
    ELSE IO([F EXCEPT !.blocked_reader = NoProc,
                      !.reader_head = @ + MinOf(count, wlen)], "completed", 0)

FileReadKeepsBlockedReader(F, p, count, wlen) ==
    LET max  == MinOf(Used(F), count)
        done == MinOf(max, wlen)
    IN IF count = 0 THEN IO(F, "completed", 0)
       ELSE IF F.blocked_reader # NoProc /\ F.blocked_reader # p
            THEN IO(F, "inprogress", 0)
       ELSE IF Used(F) = 0
            THEN IO([F EXCEPT !.blocked_reader = p], "inprogress", 0)
       ELSE IO([F EXCEPT !.reader_head = @ + done],
               IF done < max THEN "faulted" ELSE "completed", done)

(* File::Read by process p of count bytes into a guest buffer of which the *)
(* first wlen bytes are writable (TryWrite fails at byte wlen). The reader *)
(* at the head of the queue keeps its place until data arrives.           *)
FileRead(F, p, count, wlen) ==
    LET max  == MinOf(Used(F), count)
        done == MinOf(max, wlen)
    IN IF count = 0 THEN IO(F, "completed", 0)
       ELSE IF F.blocked_reader # NoProc /\ F.blocked_reader # p
            THEN IO(F, "inprogress", 0)
       ELSE IF Used(F) = 0
            THEN IO([F EXCEPT !.blocked_reader = p], "inprogress", 0)
       ELSE IO([F EXCEPT !.blocked_reader = NoProc,
                         !.reader_head = @ + done],
               IF done < max THEN "faulted" ELSE "completed", done)

(* Mutant: the fullness test forgets the bytes about to be written.       *)
FileWriteNoCount(F, p, count) ==
    IF count = 0 \/ (F.blocked_writer # NoProc /\ F.blocked_writer # p)
       \/ Used(F) > BufferSize
    THEN IO(F, "inprogress", 0)
    ELSE IO([F EXCEPT
               !.buffer = [k \in 0..BufferSize - 1 |->
                             IF (k - F.writer_head) % BufferSize < count
                             THEN p ELSE F.buffer[k]],
               !.writer_head = @ + count,
               !.blocked_writer = NoProc, !.blocked_writer_count = 0],
            "completed", count)

(* File::Write by process p of count bytes. A write that would overfill   *)
(* the buffer blocks, and its writer waits at the head of the queue. The  *)
(* guest buffer is readable here: Transmit checked it before the call.    *)
FileWrite(F, p, count) ==
    LET full == Used(F) + count > BufferSize
        F1   == IF F.blocked_writer = p
                THEN [F EXCEPT !.blocked_writer_count = 0,
                               !.blocked_writer = NoProc]
                ELSE F
    IN IF count = 0 THEN IO(F, "completed", 0)
       ELSE IF F.blocked_writer # NoProc /\ F.blocked_writer # p
            THEN IO(F, "inprogress", 0)
       ELSE IF full /\ F.blocked_writer = p
            THEN IO(F, "inprogress", 0)
       ELSE IF full
            THEN IO([F EXCEPT !.blocked_writer = p,
                              !.blocked_writer_count = count],
                    "inprogress", 0)
       ELSE IO([F1 EXCEPT
                  !.buffer = [k \in 0..BufferSize - 1 |->
                                IF (k - F.writer_head) % BufferSize < count
                                THEN p ELSE F.buffer[k]],
                  !.writer_head = @ + count],
               "completed", count)

(* File::ReadWillBlock and File::WriteWillBlock, used by fdwait.           *)
ReadWillBlock(F, p) ==
    \/ Used(F) = 0
    \/ F.blocked_reader # NoProc /\ F.blocked_reader # p

WriteWillBlock(F, p) ==
    \/ Used(F) + F.blocked_writer_count > BufferSize
    \/ F.blocked_writer # NoProc /\ F.blocked_writer # p
=============================================================================
