------------------------------ MODULE MC_Mutate ------------------------------
EXTENDS Mutate

(* Two byte values, one that some bit flip maps to the other; recordings *)
(* of up to three receives and splits, so that windows of two and three  *)
(* inputs, adjacent and separated inputs, and empty recordings all occur. *)
MCBytes == {0, 2}
MCCalls == {In(<<0>>), In(<<2>>), Split}
MCRecords == UNION {[1..n -> MCCalls] : n \in 0..3}
MCMutators == {"splice", "splice_chunked", "random", "dropper",
               "bitflip1", "bitflip2", "bitflip8", "bitflip4_2",
               "bitflip8_8", "inf_bitflip_random", "inf_chunked_repeat"}
MCRepeatAmounts == {0, 1, 2}
MCSafe == Stream!Init /\ [][Stream!Next]_Stream!svars
=============================================================================
