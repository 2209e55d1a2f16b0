----------------------------- MODULE Interrupts -----------------------------
(***************************************************************************)
(* Signal handling around the scheduler: the stack of InterruptState      *)
(* objects of src/granary/base/interrupt.cc (gInterruptState and its      *)
(* prev_state chain), the handlers CatchInterrupt and                     *)
(* CatchNonMaskableInterrupt of src/granary/os/schedule.cc with           *)
(* gSigTermState/gSigTermStateValid/gSigTermSignal/gIsRunning, Run, and   *)
(* the test-case loop of src/play.cc. The one host thread is at:          *)
(*   "outer"  main's Uninterruptible region, between test cases;          *)
(*   "run"    RunTestCase before Schedule;                                 *)
(*   "entry"  Schedule's Interruptible constructed, sigsetjmp not done;   *)
(*   "sched"  the Schedule loop or guest code (interruptible);            *)
(*   "region" an Uninterruptible region inside Schedule (a system call,   *)
(*            the lookup of Execute, trace building);                      *)
(*   "unwound" a handler took siglongjmp to gSigTermState: sigsetjmp(..., *)
(*            true) restored Schedule's signal mask, but gInterruptState  *)
(*            still names the region the jump abandoned, until sigsetjmp  *)
(*            returns and Schedule's Interruptible is destroyed;           *)
(*   "stopped" the loop is over.                                           *)
(* A signal handler runs with every signal blocked (sigfillset of         *)
(* sa_mask), so it is atomic; a signal sent meanwhile waits for the mask  *)
(* to be restored.                                                         *)
(* "INT" is any of SIGINT, SIGTERM, SIGALRM, SIGPIPE; "USR1" is raised by *)
(* NonMaskableInterrupt when DoReceive walks off the end of the input.    *)
(***************************************************************************)
EXTENDS Integers, Sequences, SequencesExt

CONSTANTS
    MaxRuns,       \* test cases the mutator produces
    MaxRegions,    \* Uninterruptible regions entered per Schedule
    MaxSignals,    \* external signals sent
    InputEnds      \* whether a receive may walk off the end of the input

NoSig == "none"

VARIABLES
    stack,       \* the live InterruptState objects, gInterruptState last
    valid,       \* gSigTermStateValid
    sigterm,     \* gSigTermSignal
    is_running,  \* gIsRunning
    pc,
    got,         \* the value Run returned to RunTestCase
    runs,        \* test cases started
    regions,     \* Uninterruptible regions entered in this Schedule
    arrived,     \* external signals sent so far
    aborted,     \* a GRANARY_ASSERT fired
    owed,        \* history: a queued signal not yet delivered or muted
    stop_run     \* history: runs when the first external signal came, or -1

vars == <<stack, valid, sigterm, is_running, pc, got, runs, regions,
          arrived, aborted, owed, stop_run>>

-----------------------------------------------------------------------------
(* InterruptState::InterruptState: a new region on top of the stack. An   *)
(* interruptible region takes over the pending signal of the one below.   *)
PushState(st, interruptible) ==
    LET fresh == [interruptible |-> interruptible, ignorable |-> FALSE,
                  done |-> FALSE, pending |-> NoSig]
        n     == Len(st)
    IN IF interruptible /\ n > 0 /\ st[n].pending # NoSig
       THEN Append([st EXCEPT ![n].pending = NoSig],
                   [fresh EXCEPT !.pending = st[n].pending])
       ELSE Append(st, fresh)

PopStateNoPropagate(st) ==
    LET t == Last(st) IN
    [stack |-> Front(st),
     raised |-> IF t.pending # NoSig /\ ~t.done /\ t.interruptible
                THEN t.pending ELSE NoSig]

(* InterruptState::~InterruptState: pop the top region. An uninterruptible *)
(* region hands its pending signal to the region below, unless that one   *)
(* already has one; an interruptible region raises it.                    *)
PopState(st) ==
    LET t    == Last(st)
        rest == Front(st)
        k    == Len(rest)
    IN IF t.pending = NoSig \/ t.done
       THEN [stack |-> rest, raised |-> NoSig]
       ELSE IF ~t.interruptible
            THEN [stack |-> IF k > 0 /\ rest[k].pending = NoSig
                            THEN [rest EXCEPT ![k].pending = t.pending]
                            ELSE rest,
                  raised |-> NoSig]
            ELSE [stack |-> rest, raised |-> t.pending]

IsInterruptible(st) == Len(st) = 0 \/ Last(st).interruptible

QueueInterrupt(st, sig) ==
    IF Last(st).ignorable THEN st ELSE [st EXCEPT ![Len(st)].pending = sig]

HasPendingInterrupt(st) == \E i \in DOMAIN st : st[i].pending # NoSig

MutePendingInterrupt(st) ==
    [i \in DOMAIN st |-> [st[i] EXCEPT !.pending = NoSig]]

(* NonMaskableInterrupt, its scan of the stack: every pending signal is   *)
(* cleared and the one found last (the outermost) is the one raised; when *)
(* one is found the top region is made interruptible. SIGUSR1 otherwise.  *)
NmiScanNoForce(st) ==
    LET found == {i \in DOMAIN st : st[i].pending # NoSig}
        low   == CHOOSE i \in found : \A j \in found : i <= j
    IN IF found = {} THEN [sig |-> "USR1", stack |-> st]
       ELSE [sig |-> st[low].pending, stack |-> MutePendingInterrupt(st)]

NmiScan(st) ==
    LET found == {i \in DOMAIN st : st[i].pending # NoSig}
        low   == CHOOSE i \in found : \A j \in found : i <= j
        muted == MutePendingInterrupt(st)
    IN IF found = {} THEN [sig |-> "USR1", stack |-> st]
       ELSE [sig |-> st[low].pending,
             stack |-> [muted EXCEPT ![Len(st)].interruptible = TRUE]]

(* The globals the handlers touch, as one record.                          *)
G == [stack |-> stack, valid |-> valid, sigterm |-> sigterm,
      is_running |-> is_running]

Handled(g, jump, abort) == [g |-> g, jump |-> jump, abort |-> abort]

(* gSigTermSignal keeps the first terminating signal.                      *)
Record(g, sig) ==
    IF g.sigterm = NoSig /\ sig # "USR1" THEN sig ELSE g.sigterm

(* CatchInterrupt: queue in an uninterruptible region; with no valid       *)
(* gSigTermState record the signal, clear gIsRunning and return;          *)
(* otherwise record it and siglongjmp back into Schedule.                  *)
CatchInterrupt(g, sig) ==
    IF ~IsInterruptible(g.stack)
    THEN Handled([g EXCEPT !.stack = QueueInterrupt(@, sig)], FALSE, FALSE)
    ELSE IF ~g.valid
         THEN Handled([g EXCEPT !.sigterm = Record(g, sig),
                                !.is_running = FALSE], FALSE, FALSE)
         ELSE Handled([g EXCEPT !.sigterm = sig, !.valid = FALSE], TRUE, FALSE)

(* CatchNonMaskableInterrupt: GRANARY_ASSERT(gSigTermStateValid), then    *)
(* siglongjmp.                                                             *)
CatchNonMaskableInterrupt(g, sig) ==
    IF ~g.valid THEN Handled(g, FALSE, TRUE)
    ELSE Handled([g EXCEPT !.sigterm = Record(g, sig), !.valid = FALSE],
                 TRUE, FALSE)

(* raise(sig), with the handlers SetupSignals installs.                    *)
Raise(g, sig) ==
    IF sig = "USR1" THEN CatchNonMaskableInterrupt(g, sig)
    ELSE CatchInterrupt(g, sig)

RunExitKeepsDeadRegions(g) ==
    LET p  == PopState(g.stack)
        g1 == [g EXCEPT !.stack = p.stack]
        r  == IF p.raised = NoSig THEN Handled(g1, FALSE, FALSE)
              ELSE Raise(g1, p.raised)
    IN /\ stack' = r.g.stack
       /\ is_running' = r.g.is_running
       /\ valid' = FALSE
       /\ sigterm' = NoSig
       /\ got' = (sigterm' # NoSig)
       /\ pc' = "outer"
       /\ aborted' = r.abort

(* Schedule returns (normally, or from sigsetjmp after a siglongjmp, whose *)
(* jump skipped the destructors of the regions above it, which are cut    *)
(* off with the destructor's gInterruptState = prev_state): the destructor *)
(* of its Interruptible runs, then the rest of Run, which clears           *)
(* gSigTermSignal before it returns 0 != gSigTermSignal.                   *)
RunExit(g) ==
    LET p  == PopState(SubSeq(g.stack, 1, 2))
        g1 == [g EXCEPT !.stack = p.stack]
        r  == IF p.raised = NoSig THEN Handled(g1, FALSE, FALSE)
              ELSE Raise(g1, p.raised)
    IN /\ stack' = r.g.stack
       /\ is_running' = r.g.is_running
       /\ valid' = FALSE
       /\ sigterm' = NoSig
       /\ got' = (sigterm' # NoSig)
       /\ pc' = "outer"
       /\ aborted' = r.abort

(* A handler's siglongjmp to gSigTermState: the globals are the handler's *)
(* and the stack is left as it was, dead regions included.                 *)
LongJump(g) ==
    /\ stack' = g.stack /\ valid' = g.valid
    /\ sigterm' = g.sigterm /\ is_running' = g.is_running
    /\ pc' = "unwound"
    /\ UNCHANGED <<got, aborted>>

-----------------------------------------------------------------------------
Live == pc # "stopped" /\ ~aborted

(* The test-case loop of main: the first RunTestCase unconditionally, the *)
(* next while Run reported no signal, none is pending and the mutator     *)
(* still has inputs.                                                       *)
StartTestCase ==
    /\ Live /\ pc = "outer" /\ runs < MaxRuns
    /\ runs = 0 \/ (~got /\ ~HasPendingInterrupt(stack))
    /\ pc' = "run"
    /\ runs' = runs + 1
    /\ UNCHANGED <<stack, valid, sigterm, is_running, got, regions, arrived,
                   aborted, owed, stop_run>>

(* The loop ends: MutePendingInterrupt.                                    *)
StopTestCases ==
    /\ Live /\ pc = "outer" /\ runs > 0
    /\ got \/ HasPendingInterrupt(stack) \/ runs = MaxRuns
    /\ pc' = "stopped"
    /\ stack' = MutePendingInterrupt(stack)
    /\ owed' = FALSE
    /\ UNCHANGED <<valid, sigterm, is_running, got, runs, regions, arrived,
                   aborted, stop_run>>

(* Run up to Schedule's sigsetjmp: gSigTermStateValid = false, then the   *)
(* Interruptible of Schedule.                                              *)
EnterSchedule ==
    /\ Live /\ pc = "run"
    /\ valid' = FALSE
    /\ stack' = PushState(stack, TRUE)
    /\ pc' = "entry"
    /\ UNCHANGED <<sigterm, is_running, got, runs, regions, arrived, aborted,
                   owed, stop_run>>

(* sigsetjmp returned 0: gSigTermStateValid = true.                        *)
ArmSchedule ==
    /\ Live /\ pc = "entry"
    /\ valid' = TRUE
    /\ regions' = 0
    /\ pc' = "sched"
    /\ UNCHANGED <<stack, sigterm, is_running, got, runs, arrived, aborted,
                   owed, stop_run>>

(* An Uninterruptible region of Schedule or Execute begins and ends.       *)
EnterRegion ==
    /\ Live /\ pc = "sched" /\ regions < MaxRegions
    /\ stack' = PushState(stack, FALSE)
    /\ regions' = regions + 1
    /\ pc' = "region"
    /\ UNCHANGED <<valid, sigterm, is_running, got, runs, arrived, aborted,
                   owed, stop_run>>

LeaveRegion ==
    /\ Live /\ pc = "region"
    /\ stack' = PopState(stack).stack
    /\ pc' = "sched"
    /\ UNCHANGED <<valid, sigterm, is_running, got, runs, regions, arrived,
                   aborted, owed, stop_run>>

(* DoReceive past the end of the input (and its trailing empty receives)  *)
(* calls NonMaskableInterrupt inside the system call's region.             *)
InputExhausted ==
    LET n == NmiScan(stack)
        r == Raise([G EXCEPT !.stack = n.stack], n.sig)
    IN /\ Live /\ pc = "region" /\ InputEnds
       /\ owed' = (owed /\ n.sig = "USR1")
       /\ IF r.jump
          THEN LongJump(r.g)
          ELSE /\ aborted' = TRUE
               /\ stack' = r.g.stack /\ valid' = r.g.valid
               /\ sigterm' = r.g.sigterm /\ is_running' = r.g.is_running
               /\ UNCHANGED <<pc, got>>
       /\ UNCHANGED <<runs, regions, arrived, stop_run>>

(* Schedule returns: no process made progress, the system-call limit, a   *)
(* crash, or every process done.                                           *)
ScheduleReturns ==
    /\ Live /\ pc = "sched"
    /\ RunExit(G)
    /\ UNCHANGED <<runs, regions, arrived, owed, stop_run>>

(* sigsetjmp returns non-zero and Schedule returns: RunExit.              *)
ScheduleUnwinds ==
    /\ Live /\ pc = "unwound"
    /\ RunExit(G)
    /\ UNCHANGED <<runs, regions, arrived, owed, stop_run>>

(* SIGINT, SIGTERM, SIGALRM or SIGPIPE arrives, wherever the thread is.    *)
SignalArrives ==
    LET r == Raise(G, "INT") IN
    /\ Live /\ arrived < MaxSignals
    /\ arrived' = arrived + 1
    /\ stop_run' = IF stop_run = -1 THEN runs ELSE stop_run
    /\ owed' = (owed \/ ~IsInterruptible(stack))
    /\ IF r.jump
       THEN LongJump(r.g)
       ELSE /\ stack' = r.g.stack /\ valid' = r.g.valid
            /\ sigterm' = r.g.sigterm /\ is_running' = r.g.is_running
            /\ UNCHANGED <<pc, got, aborted>>
    /\ UNCHANGED <<runs, regions>>

(* The program has exited (or aborted on an assertion).                   *)
Exited == ~Live /\ UNCHANGED vars

Init ==
    /\ stack = <<[interruptible |-> FALSE, ignorable |-> FALSE,
                  done |-> FALSE, pending |-> NoSig]>>
    /\ valid = FALSE
    /\ sigterm = NoSig
    /\ is_running = TRUE
    /\ pc = "outer"
    /\ got = FALSE
    /\ runs = 0
    /\ regions = 0
    /\ arrived = 0
    /\ aborted = FALSE
    /\ owed = FALSE
    /\ stop_run = -1

Next ==
    \/ StartTestCase \/ StopTestCases \/ EnterSchedule \/ ArmSchedule
    \/ EnterRegion \/ LeaveRegion \/ InputExhausted \/ ScheduleReturns
    \/ ScheduleUnwinds \/ SignalArrives
    \/ Exited

Spec == Init /\ [][Next]_vars

-----------------------------------------------------------------------------
Signals == {NoSig, "INT", "USR1"}

(* Every variable holds a value of its type.                               *)
InterruptTypeOK ==
    /\ \A i \in DOMAIN stack :
          stack[i] \in [interruptible : BOOLEAN, ignorable : BOOLEAN,
                       done : BOOLEAN, pending : Signals]
    /\ Len(stack) \in 1..3
    /\ valid \in BOOLEAN /\ sigterm \in Signals /\ is_running \in BOOLEAN
    /\ pc \in {"outer", "run", "entry", "sched", "region", "unwound",
               "stopped"}
    /\ got \in BOOLEAN /\ runs \in 0..MaxRuns /\ regions \in 0..MaxRegions
    /\ arrived \in 0..MaxSignals /\ aborted \in BOOLEAN
    /\ owed \in BOOLEAN /\ stop_run \in -1..MaxRuns

(* NonMaskableInterrupt never reaches its GRANARY_ASSERT(false) and        *)
(* CatchNonMaskableInterrupt never finds gSigTermState invalid: when the  *)
(* input runs out, whatever signals are queued in the regions around the  *)
(* receive, the raise always lands back in Schedule.                      *)
NmiNeverAborts == ~aborted

(* A signal queued by CatchInterrupt in an uninterruptible region is never *)
(* dropped by the region destructors, the Interruptible of Schedule or the *)
(* siglongjmp that skips destructors: until NonMaskableInterrupt delivers *)
(* it or the loop mutes it, HasPendingInterrupt() sees it.                 *)
QueuedSignalNotLost == owed => HasPendingInterrupt(stack)

(* A termination signal stops the test-case loop: RunTestCase's comment    *)
(* "The user wants us to stop" and its return !got_term_signal; no test   *)
(* case starts after the one running (or, before the first, due) when the *)
(* first signal arrived.                                                   *)
UserStopHonoured ==
    stop_run >= 0 => runs <= IF stop_run = 0 THEN 1 ELSE stop_run
=============================================================================
