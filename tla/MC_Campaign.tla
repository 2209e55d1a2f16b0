----------------------------- MODULE MC_Campaign -----------------------------
EXTENDS Campaign

(* The guest receives its input one byte at a time, at most two bytes,   *)
(* and exits: each byte it receives is one recorded receive. The         *)
(* coverage file already holds path a, taken once by every input; path b *)
(* is taken three times by an input that does not start with 0. An input *)
(* of two bytes crashes the guest.                                        *)
MCRecording(i) ==
    [j \in 1..(IF Len(i) < 2 THEN Len(i) ELSE 2) |-> M!In(<<i[j]>>)]
MCPaths         == {"a", "b"}
MCAtInit        == [p \in MCPaths |-> IF p = "a" THEN 1 ELSE 0]
MCCounts(i)     == [p \in MCPaths |->
                       IF p = "a" THEN 1
                       ELSE IF i # <<>> /\ i[1] # 0 THEN 3 ELSE 0]
MCIsCrash(i)    == Len(i) = 2
MCInputs        == {<<0>>, <<0, 2>>}
MCBytes         == {0, 2}
MCMutators      == {"splice", "dropper", "bitflip2", "inf_bitflip_random"}
MCRepeatAmounts == {0, 1}
=============================================================================
