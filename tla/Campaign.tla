------------------------------ MODULE Campaign ------------------------------
(***************************************************************************)
(* The mutation campaign of play.cc's main: replay the input once, keep   *)
(* its recording as the test to mutate, then ask the mutator for test     *)
(* cases and run each one, until the mutator has nothing left (five empty *)
(* answers in a row) or an interrupt is pending. With --remutate, a test  *)
(* that covers new paths becomes the test to mutate. The mutator is the   *)
(* one of module Mutate, composed by INSTANCE; a run of the guest is      *)
(* abstracted to the recording it leaves and the number of times it       *)
(* takes each multi-way branch path, which coverage.cc turns into new     *)
(* coverage and into the output coverage file written at exit.            *)
(***************************************************************************)
EXTENDS Naturals, Sequences, FiniteSets

CONSTANTS
    Bytes, Records, Mutators, RepeatAmounts, None,   \* as in Mutate
    Inputs,         \* contents the --input file can have
    Recording(_),   \* the IORecording a replay of an input leaves
    Paths,          \* the PathEntry values (branch, target) of the guest
    AtInit,         \* gAllPathsAtInit: Paths -> log counts read from
                    \* --coverage_file (0 for a path not in it)
    Counts(_),      \* Paths -> how often a replay of an input takes each
                    \* path (the CoverPath buffer, summed over its flushes)
    IsCrash(_),     \* a replay of an input ends in a crash
    GiveUp          \* kGiveUpAfterEmptyMutations

VARIABLES
    orig, cfg, rec, curr, size, prefix, midx, out,   \* the mutator
    mname,      \* FLAGS_input_mutator
    remutate,   \* FLAGS_remutate
    phase,      \* where main is
    gInput,     \* the input the next run replays
    toMutate,   \* gRecordToMutate, or None
    changed,    \* old_record_to_mutate != gRecordToMutate
    empties,    \* the empty counter of the request loop
    pending,    \* an interrupt is pending
    allPaths,   \* gAllPaths
    covFile,    \* the --output_coverage_file, None until main exits
    publishing, \* FLAGS_output_dir is set
    published   \* the test cases published to the output directory

mvars == <<orig, cfg, rec, curr, size, prefix, midx, out>>
covVars == <<allPaths, covFile>>
pubVars == <<publishing, published>>
cvars == <<mvars, mname, remutate, phase, gInput, toMutate, changed,
           empties, pending, covVars, pubVars>>

M == INSTANCE Mutate

Phases == {"first", "create", "request", "run", "ran", "done", "exited"}

-----------------------------------------------------------------------------
(* Mutator::Create on the current test to mutate, with the constructors'  *)
(* initial iterator fields.                                               *)
NewMutator(r) ==
    LET c  == M!Create(mname)
        rr == IF c.chunked THEN M!ChunkedCanonicalizeTest(r) ELSE r
    IN /\ orig' = r
       /\ cfg' = c
       /\ rec' = rr
       /\ curr' = M!NextInputIndex(rr, 0)
       /\ size' = 1
       /\ prefix' = 0
       /\ midx' = 0
       /\ out' = None

(* log2ish: the bit length of a count, int(log2(x)) + 1, and 0 for 0.   *)
RECURSIVE Log2ish(_)
Log2ish(x) == IF x = 0 THEN 0 ELSE 1 + Log2ish(x \div 2)

(* gAllPaths after a run: BeginPathCoverage resets it to gAllPathsAtInit  *)
(* and clears gCurrPaths; each UpdateCoverageSet flush adds the buffered  *)
(* counts to gCurrPaths and raises a path's gAllPaths entry to the log of  *)
(* its running count when that is larger. The running count only grows,  *)
(* so after the last flush (EndPathCoverage) the entry is the larger of   *)
(* its initial value and the log of the run's total count.                *)
UpdateCoverageSet(c) ==
    [p \in Paths |-> IF AtInit[p] < Log2ish(c[p]) THEN Log2ish(c[p])
                                                  ELSE AtInit[p]]

(* CoveredNewPaths: some flush raised an entry (gHasNewPathCoverage, which *)
(* BeginPathCoverage cleared), so whether a run covers new paths depends  *)
(* on its input alone, never on earlier runs.                             *)
CoveredNew(input) == \E p \in Paths : AtInit[p] < Log2ish(Counts(input)[p])

Init ==
    /\ mname \in Mutators
    /\ orig = <<>> /\ cfg = M!Create(mname) /\ rec = <<>>
    /\ curr = 0 /\ size = 1 /\ prefix = 0 /\ midx = 0 /\ out = None
    /\ remutate \in BOOLEAN
    /\ phase = "first"
    /\ gInput \in Inputs
    /\ toMutate = None
    /\ changed = FALSE
    /\ empties = 0
    /\ pending = FALSE
    /\ allPaths = AtInit
    /\ covFile = None
    /\ publishing \in BOOLEAN
    /\ published = {}

(* A replacement allocates the new record while the current one is alive, *)
(* so it differs from old_record_to_mutate as long as that is the current *)
(* one; once that has been deleted the allocator may hand its address out *)
(* again, and the comparison may find the two equal.                      *)
Replaced == changed' \in IF changed THEN BOOLEAN ELSE {TRUE}

(* The first RunTestCase: its recording becomes gRecordToMutate, and it   *)
(* is never published, being the input the campaign starts from. os::Run  *)
(* always returns false (it clears gSigTermSignal before testing it), so  *)
(* the mutation loop is always entered.                                   *)
FirstRun ==
    /\ phase = "first"
    /\ toMutate' = Recording(gInput)
    /\ allPaths' = UpdateCoverageSet(Counts(gInput))
    /\ phase' = "create"
    /\ UNCHANGED <<mvars, mname, remutate, gInput, changed, empties, pending,
                   covFile, pubVars>>

(* The outer loop: remember the test, create its mutator, clear gInput.   *)
CreateMutator ==
    /\ phase = "create"
    /\ changed' = FALSE
    /\ NewMutator(toMutate)
    /\ gInput' = <<>>
    /\ empties' = 0
    /\ phase' = "request"
    /\ UNCHANGED <<mname, remutate, toMutate, pending, covVars, pubVars>>

(* One pass of the request loop, which runs only while gInput is empty.   *)
RequestInput ==
    /\ phase = "request"
    /\ gInput = <<>>
    /\ empties < GiveUp
    /\ M!Request
    /\ gInput' = IF out' = None THEN <<>> ELSE M!ToInput(out')
    /\ empties' = empties + 1
    /\ UNCHANGED <<mname, remutate, phase, toMutate, changed,
                   pending, covVars, pubVars>>

(* Five empty answers: done mutating, both loops end.                      *)
GiveUpMutating ==
    /\ phase = "request"
    /\ gInput = <<>>
    /\ empties = GiveUp
    /\ toMutate' = None
    /\ phase' = "done"
    /\ UNCHANGED <<mvars, mname, remutate, gInput, changed, empties,
                   pending, covVars, pubVars>>

(* An input to run.                                                        *)
StartRun ==
    /\ phase = "request"
    /\ gInput # <<>>
    /\ phase' = "run"
    /\ UNCHANGED <<mvars, mname, remutate, gInput, toMutate, changed,
                   empties, pending, covVars, pubVars>>

(* HasPendingInterrupt before the run, or after it: stop mutating.         *)
Interrupted ==
    /\ phase \in {"run", "ran"}
    /\ pending
    /\ toMutate' = None
    /\ phase' = "done"
    /\ UNCHANGED <<mvars, mname, remutate, gInput, changed, empties,
                   pending, covVars, pubVars>>

(* PublishNewInput: an empty output is dropped; otherwise the file is     *)
(* renamed into the output directory as a crash or, for new coverage, as  *)
(* an input named by its coverage. A file name is abstracted to its kind  *)
(* and contents.                                                          *)
PublishNewInput(output, is_crash, covered_new_code) ==
    IF output = <<>> THEN published
    ELSE published \cup
         {[kind  |-> IF is_crash THEN "crash"
                     ELSE IF covered_new_code THEN "cov" ELSE "data",
           input |-> output]}

(* RunTestCase on a mutated input. When publishing, a run that crashed or *)
(* covered new paths publishes the input its recording consumed. With     *)
(* --remutate, a run that covered new paths replaces gRecordToMutate with *)
(* its recording.                                                         *)
RunMutation ==
    /\ phase = "run"
    /\ ~pending
    /\ published' =
         IF publishing /\ (IsCrash(gInput) \/ CoveredNew(gInput))
         THEN PublishNewInput(M!ToInput(Recording(gInput)), IsCrash(gInput),
                              CoveredNew(gInput))
         ELSE published
    /\ IF remutate /\ CoveredNew(gInput)
       THEN toMutate' = Recording(gInput) /\ Replaced
       ELSE UNCHANGED <<toMutate, changed>>
    /\ allPaths' = UpdateCoverageSet(Counts(gInput))
    /\ phase' = "ran"
    /\ UNCHANGED <<mvars, mname, remutate, gInput, empties, pending, covFile,
                   publishing>>

(* No interrupt: if the test to mutate changed since the outer loop read  *)
(* it, recreate the mutator; then the request loop again.                 *)
Continue ==
    /\ phase = "ran"
    /\ ~pending
    /\ IF changed THEN NewMutator(toMutate) ELSE UNCHANGED mvars
    /\ empties' = 0
    /\ phase' = "request"
    /\ UNCHANGED <<mname, remutate, gInput, toMutate, changed,
                   pending, covVars, pubVars>>

(* SIGINT and friends queue an interrupt at any time.                      *)
Signal ==
    /\ phase \notin {"done", "exited"}
    /\ ~pending
    /\ pending' = TRUE
    /\ UNCHANGED <<mvars, mname, remutate, phase, gInput, toMutate, changed,
                   empties, covVars, pubVars>>

(* After the loops: ExitPathCoverage writes every non-zero entry of        *)
(* gAllPaths to the output coverage file (through a rename, so the file   *)
(* is replaced whole).                                                    *)
ExitPathCoverage ==
    /\ phase = "done"
    /\ covFile' = allPaths
    /\ phase' = "exited"
    /\ UNCHANGED <<mvars, mname, remutate, gInput, toMutate, changed, empties,
                   pending, allPaths, pubVars>>

Step == FirstRun \/ CreateMutator \/ RequestInput \/ GiveUpMutating
        \/ StartRun \/ Interrupted \/ RunMutation \/ Continue
        \/ ExitPathCoverage

Next == Step \/ Signal

(* main is one sequential loop, so each of its steps is taken when it can *)
(* be; interrupts come from outside and need never come.                  *)
Spec == Init /\ [][Next]_cvars /\ WF_cvars(Step)

-----------------------------------------------------------------------------
(* Without --remutate and with a mutator that is not infinite, the        *)
(* campaign ends: each run is followed by a fresh request, the mutator    *)
(* runs out, and after five empty answers main leaves the loop ("Done     *)
(* mutating") and writes the coverage file.                               *)
CampaignEnds == (~remutate /\ ~M!Create(mname).infinite) => <>(phase = "exited")
=============================================================================
