------------------------------- MODULE Mutate -------------------------------
(***************************************************************************)
(* The input mutators of src/granary/input/mutate.cc over the recordings  *)
(* of src/granary/input/record.cc. A recording is the sequence of the     *)
(* receives (inputs) and splits (outputs) of one test case. A mutator is  *)
(* created from a recording and then asked for test cases one at a time:  *)
(* SliceMutator mutates a window of consecutive inputs, for every window *)
(* size and start; SpliceMutator copies one input into every position.   *)
(* The Chunked variants first merge adjacent inputs, the Infinite wrapper *)
(* starts over when its base runs out. Each request is one step; the      *)
(* mutator's variables are its iterator fields.                           *)
(***************************************************************************)
EXTENDS Naturals, Sequences, SequencesExt, Bitwise

CONSTANTS
    Bytes,          \* byte values a recorded receive can hold
    Records,        \* IORecordings a test case can leave to be mutated
    Mutators,       \* --input_mutator names
    RepeatAmounts,  \* the members of kRepeatAmounts that are enumerated
    None            \* nullptr

VARIABLES
    orig,     \* the IORecording passed to Mutator::Create
    cfg,      \* which mutator Create built
    rec,      \* the mutator's record (canonicalised for the Chunked ones)
    curr,     \* SliceMutator::curr_input_index
    size,     \* SliceMutator::slice_size
    prefix,   \* SpliceMutator::max_prefix_length
    midx,     \* SpliceMutator::mutation_index
    out       \* the IORecording the last request returned, or None

mvars == <<orig, cfg, rec, curr, size, prefix, midx, out>>

-----------------------------------------------------------------------------
(* IORecording: AddInput appends a kInput entry, AddSplit an empty kOutput *)
(* one; ToInput concatenates the data of the inputs.                      *)
In(d)       == [kind |-> "in", data |-> d]
Split       == [kind |-> "out", data |-> <<>>]
IsInput(sc) == sc.kind = "in"
ToInput(r)  == LET ins == SelectSeq(r, IsInput)
               IN FlattenSeq([j \in DOMAIN ins |-> ins[j].data])

(* The helpers at the top of mutate.cc, with the code's 0-based indices   *)
(* into system_calls.                                                     *)
InputPos(r)  == {i \in 0..(Len(r) - 1) : IsInput(r[i + 1])}
NumInputs(r) == Len(SelectSeq(r, IsInput))

MaxInputIndex(r) ==
    IF InputPos(r) = {} THEN Len(r) ELSE Max(InputPos(r)) + 1

NextInputIndex(r, start) ==
    LET later == {i \in InputPos(r) : i >= start}
    IN IF later = {} THEN Len(r) ELSE Min(later)

CopyInputs(r, begin, end) == SelectSeq(SubSeq(r, begin + 1, end), IsInput)

(* ChunkedCanonicalizeTest: each run of adjacent inputs becomes one input *)
(* holding their bytes; outputs are dropped.                              *)
RECURSIVE RunEnd(_, _)
RunEnd(r, j) == IF j < Len(r) /\ IsInput(r[j + 1]) THEN RunEnd(r, j + 1) ELSE j

RECURSIVE CanonFrom(_, _)
CanonFrom(r, i) ==
    IF i >= Len(r) THEN <<>>
    ELSE IF ~IsInput(r[i + 1]) THEN CanonFrom(r, i + 1)
    ELSE LET e == RunEnd(r, i)
         IN <<In(ToInput(SubSeq(r, i + 1, e)))>> \o CanonFrom(r, e)

ChunkedCanonicalizeTest(r) == CanonFrom(r, 0)

-----------------------------------------------------------------------------
(* The per-syscall mutation engines: what each appends to the test.       *)
(* BitFlipSyscallMutator<kStartBit, kNumBits>::FlipBits, with the masks   *)
(* computed as the enums define them (kNumBits takes no part) and the     *)
(* result truncated to uint8_t.                                           *)
FlipBits(start, b) ==
    LET kMaskHigh == (255 * 2^start) % 256
        kMaskLow  == 255 \div 2^(9 - start)
        kMask     == kMaskHigh | kMaskLow
        kFlipped  == 255 - kMask
    IN (b & kMask) | ((255 - b) & kFlipped)

(* The flip of every recordable byte, computed once.                      *)
FlipTable == [s \in 1..8, b \in Bytes |-> FlipBits(s, b)]

Repeated(d, n) == IF n = 0 THEN <<>> ELSE <<In(FlattenSeq([j \in 1..n |-> d]))>>

(* Identity, Deleting, BitFlip, Randomize (and RandomBitFlip, whose random *)
(* masks make any byte), RandomRepeating.                                 *)
Engine(c, sc) ==
    CASE c.engine = "identity" -> {<<In(sc.data)>>}
      [] c.engine = "delete"   -> {<<>>}
      [] c.engine = "bitflip"  ->
             {<<In([j \in DOMAIN sc.data |-> FlipTable[c.start, sc.data[j]]])>>}
      [] c.engine = "random"   -> {<<In(d)>> : d \in [DOMAIN sc.data -> Bytes]}
      [] c.engine = "repeat"   -> {Repeated(sc.data, n) : n \in RepeatAmounts}

(* Applying the engine to each syscall of a sequence, in order.           *)
RECURSIVE MutateAll(_, _)
MutateAll(c, scs) ==
    IF scs = <<>> THEN {<<>>}
    ELSE {a \o b : a \in Engine(c, Head(scs)), b \in MutateAll(c, Tail(scs))}

-----------------------------------------------------------------------------
(* Mutator::Create: the mutator each name builds. The radamsa mutators     *)
(* are not modelled.                                                       *)
Mk(kind, chunked, infinite, engine, start, maxslice) ==
    [kind |-> kind, chunked |-> chunked, infinite |-> infinite,
     engine |-> engine, start |-> start, maxslice |-> maxslice]

BitFlipNames ==
    [bitflip1 |-> 1, bitflip2 |-> 2, bitflip3 |-> 3, bitflip4 |-> 4,
     bitflip5 |-> 5, bitflip6 |-> 6, bitflip7 |-> 7, bitflip8 |-> 8,
     bitflip2_2 |-> 2, bitflip3_2 |-> 3, bitflip4_2 |-> 4, bitflip5_2 |-> 5,
     bitflip6_2 |-> 6, bitflip7_2 |-> 7, bitflip8_2 |-> 8,
     bitflip4_4 |-> 4, bitflip6_4 |-> 6, bitflip8_4 |-> 8, bitflip8_8 |-> 8]

Create(name) ==
    CASE name = "splice"         -> Mk("splice", FALSE, FALSE, "identity", 0, 0)
      [] name = "splice_chunked" -> Mk("splice", TRUE, FALSE, "identity", 0, 0)
      [] name = "random"         -> Mk("slice", FALSE, FALSE, "random", 0, 0)
      [] name = "dropper"        -> Mk("slice", FALSE, FALSE, "delete", 0, 0)
      [] name \in DOMAIN BitFlipNames ->
             Mk("slice", FALSE, FALSE, "bitflip", BitFlipNames[name], 0)
      [] name = "inf_bitflip_random" -> Mk("slice", FALSE, TRUE, "random", 0, 0)
      [] name = "inf_chunked_repeat" -> Mk("slice", TRUE, TRUE, "repeat", 0, 1)

-----------------------------------------------------------------------------
MaxIdx   == MaxInputIndex(rec)
MaxSlice == IF cfg.maxslice = 0 THEN NumInputs(rec) ELSE cfg.maxslice

(* The loop of SliceMutator::RequestMutationImpl that mutates slice_size   *)
(* inputs from curr: the positions it visits and where it stops.          *)
RECURSIVE SlicePositions(_, _)
SlicePositions(c, k) ==
    IF k = 0 \/ c >= MaxIdx THEN <<>>
    ELSE <<c>> \o SlicePositions(NextInputIndex(rec, c + 1), k - 1)

RECURSIVE SliceEnd(_, _)
SliceEnd(c, k) ==
    IF k = 0 \/ c >= MaxIdx THEN c ELSE SliceEnd(NextInputIndex(rec, c + 1), k - 1)

SliceTests(c, k) ==
    LET ps == SlicePositions(c, k) IN
    {CopyInputs(rec, 0, c) \o m \o CopyInputs(rec, SliceEnd(c, k), MaxIdx) :
        m \in MutateAll(cfg, [j \in DOMAIN ps |-> rec[ps[j] + 1]])}

(* A variant that moves the next slice past the end of this one.        *)
SliceEmitFromEnd(st, c, k) ==
    {[st |-> [st EXCEPT !.curr = SliceEnd(c, k), !.size = k], out |-> t] :
        t \in SliceTests(c, k)}

SliceEmit(st, c, k) ==
    {[st |-> [st EXCEPT !.curr = NextInputIndex(rec, c + 1), !.size = k],
      out |-> t] : t \in SliceTests(c, k)}

(* SliceMutator::RequestMutationImpl. slice_size keeps growing on every    *)
(* request after the last slice; all its values past MaxSlice behave      *)
(* alike, so the model stops it at MaxSlice + 1.                          *)
SliceRequest(st) ==
    IF st.curr >= MaxIdx
    THEN IF st.size + 1 > MaxSlice
         THEN {[st |-> [st EXCEPT !.size = MaxSlice + 1], out |-> None]}
         ELSE SliceEmit(st, NextInputIndex(rec, 0), st.size + 1)
    ELSE SliceEmit(st, st.curr, st.size)

(* The prefix loop of SpliceMutator::RequestMutationImpl: the position    *)
(* after the p-th input (or MaxIdx).                                      *)
RECURSIVE PrefixEnd(_, _, _)
PrefixEnd(i, n, p) ==
    IF n >= p \/ i >= MaxIdx THEN i
    ELSE PrefixEnd(i + 1, IF IsInput(rec[i + 1]) THEN n + 1 ELSE n, p)

(* A variant without the max_prefix_length >= num_inputs early return.  *)
SpliceRequestNoLimit(st) ==
    LET i0   == PrefixEnd(0, 0, st.prefix)
        m    == NextInputIndex(rec, st.midx)
        hit  == st.midx < MaxIdx
        ins  == IF hit THEN <<In(rec[m + 1].data)>> ELSE <<>>
        mi   == IF hit THEN m + 1 ELSE st.midx
        suf  == CopyInputs(rec, NextInputIndex(rec, i0), MaxIdx)
        wrap == mi >= MaxIdx
    IN {[st |-> [st EXCEPT !.midx = IF wrap THEN 0 ELSE mi,
                           !.prefix = IF wrap THEN st.prefix + 1
                                      ELSE st.prefix],
         out |-> pre \o ins \o suf] :
            pre \in MutateAll(cfg, CopyInputs(rec, 0, i0))}

(* SpliceMutator::RequestMutationImpl: the first max_prefix_length inputs *)
(* through the engine, then the input at or after mutation_index, then    *)
(* the inputs after the prefix; then move mutation_index on, and the      *)
(* prefix when it has passed the last input.                              *)
SpliceRequest(st) ==
    IF st.prefix >= NumInputs(rec) THEN {[st |-> st, out |-> None]}
    ELSE LET i0   == PrefixEnd(0, 0, st.prefix)
             m    == NextInputIndex(rec, st.midx)
             hit  == st.midx < MaxIdx
             ins  == IF hit THEN <<In(rec[m + 1].data)>> ELSE <<>>
             mi   == IF hit THEN m + 1 ELSE st.midx
             suf  == CopyInputs(rec, NextInputIndex(rec, i0), MaxIdx)
             wrap == mi >= MaxIdx
         IN {[st |-> [st EXCEPT !.midx = IF wrap THEN 0 ELSE mi,
                                !.prefix = IF wrap THEN st.prefix + 1
                                           ELSE st.prefix],
              out |-> pre \o ins \o suf] :
                 pre \in MutateAll(cfg, CopyInputs(rec, 0, i0))}

(* The Reset of each mutator, called by InfiniteMutator.                  *)
ResetState ==
    [curr |-> NextInputIndex(rec, 0), size |-> 1, prefix |-> 0, midx |-> 0]

BaseRequest(st) ==
    IF cfg.kind = "slice" THEN SliceRequest(st) ELSE SpliceRequest(st)

-----------------------------------------------------------------------------
(* Mutator::Create and the constructors: the Chunked ones canonicalise     *)
(* the record first.                                                      *)
Init ==
    /\ orig \in Records
    /\ cfg \in {Create(name) : name \in Mutators}
    /\ rec = IF cfg.chunked THEN ChunkedCanonicalizeTest(orig) ELSE orig
    /\ curr = NextInputIndex(rec, 0)
    /\ size = 1
    /\ prefix = 0
    /\ midx = 0
    /\ out = None

(* One RequestMutationImpl; an InfiniteMutator whose base returns nullptr *)
(* resets the base and asks it again.                                     *)
Results ==
    LET st == [curr |-> curr, size |-> size, prefix |-> prefix, midx |-> midx]
    IN UNION {IF r.out = None /\ cfg.infinite THEN BaseRequest(ResetState)
              ELSE {r} : r \in BaseRequest(st)}

Request ==
    \E r \in Results :
        /\ curr' = r.st.curr
        /\ size' = r.st.size
        /\ prefix' = r.st.prefix
        /\ midx' = r.st.midx
        /\ out' = r.out
        /\ UNCHANGED <<orig, cfg, rec>>

Next == Request

(* The caller keeps asking (the mutation loop of play.cc).                *)
Spec == Init /\ [][Next]_mvars /\ WF_mvars(Request)

-----------------------------------------------------------------------------
(* Every variable holds a value of its type: the iterator fields stay     *)
(* inside the record (the loops index system_calls with them), and every  *)
(* test case handed out is a list of receives.                            *)
MutateTypeOK ==
    /\ curr \in 0..Len(rec)
    /\ size \in 1..(MaxSlice + 1)
    /\ prefix \in 0..NumInputs(rec)
    /\ midx \in 0..Len(rec)
    /\ out = None \/ \A j \in DOMAIN out : IsInput(out[j])

(* The reference list, written from what the mutators are for rather than *)
(* from their loops. The Chunked record: one input per maximal run of     *)
(* adjacent inputs.                                                        *)
RefCanon(r) ==
    LET starts == {i \in InputPos(r) : i = 0 \/ ~IsInput(r[i])}
        first  == SetToSortSeq(starts, <)
        stop(b) == Min({j \in (b + 1)..Len(r) :
                            j = Len(r) \/ ~IsInput(r[j + 1])})
    IN [q \in DOMAIN first |->
            In(ToInput(SubSeq(r, first[q] + 1, stop(first[q]))))]

(* With I the inputs and n their number: a slice mutator gives, for each  *)
(* window size k up to its maximum and each start j, the inputs before j, *)
(* the engine's output for the k inputs from j (fewer at the end), and    *)
(* the rest; a splice mutator gives, for each prefix length p < n and     *)
(* each input m, the first p inputs through the engine, then input m,     *)
(* then inputs p+1..n.                                                    *)
RefListOf(o, c) ==
    LET r  == IF c.chunked THEN RefCanon(o) ELSE o
        I  == SelectSeq(r, IsInput)
        n  == Len(I)
        ms == IF c.maxslice = 0 THEN n ELSE cfg.maxslice
    IN IF c.kind = "slice"
       THEN [x \in 1..(ms * n) |->
               LET k == (x - 1) \div n + 1
                   j == ((x - 1) % n) + 1
                   e == IF j + k - 1 < n THEN j + k - 1 ELSE n
               IN {SubSeq(I, 1, j - 1) \o m \o SubSeq(I, e + 1, n) :
                       m \in MutateAll(c, SubSeq(I, j, e))}]
       ELSE [x \in 1..(n * n) |->
               LET p == (x - 1) \div n
                   m == ((x - 1) % n) + 1
               IN {pre \o <<I[m]>> \o SubSeq(I, p + 1, n) :
                       pre \in MutateAll(c, SubSeq(I, 1, p))}]

(* The list of every recording and mutator, computed once.               *)
RefTable == [o \in Records, c \in {Create(name) : name \in Mutators} |->
                RefListOf(o, c)]

RefLookup(o, c) == RefTable[o, c]
IsInfinite(c)    == c.infinite

(* Where the iterator fields stand in that list.                          *)
Rank(r, c) == Cardinality({i \in InputPos(r) : i < c}) + 1

StreamPos ==
    LET n == NumInputs(rec) IN
    IF cfg.kind = "slice"
    THEN IF curr >= MaxIdx
         THEN (IF size < MaxSlice THEN size ELSE MaxSlice) * n + 1
         ELSE (size - 1) * n + Rank(rec, curr)
    ELSE IF prefix >= n THEN n * n + 1 ELSE prefix * n + Rank(rec, midx)

Stream == INSTANCE MutationStream
              WITH record <- orig, mutator <- cfg, List <- RefLookup,
                   Cyclic <- IsInfinite, k <- StreamPos

(* Every mutator hands out exactly the reference list, in order, each     *)
(* entry once, then nullptr on every later request (or the list again, if *)
(* infinite), and a caller that keeps asking (play.cc's mutation loop)    *)
(* gets to the end of the list. This is about the index arithmetic of     *)
(* RequestMutationImpl: MaxInputIndex, NextInputIndex, the slice and      *)
(* prefix loops, slice_size growing past its maximum, and the resets.     *)
MutatorRefinesStream == Stream!FairSpec

=============================================================================
