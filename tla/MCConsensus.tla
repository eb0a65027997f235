----------------------------- MODULE MCConsensus -----------------------------
(* ConsensusVoting on three operators; the count field wraps at 3, as 2^8 does *)
(* for 256 operators.                                                          *)
EXTENDS ConsensusVoting

\* 2-of-3 and 1-of-2 are valid; 3-of-2 and 0-of-1 must be refused.
MCThresholds == {<<2, 3>>, <<1, 2>>, <<3, 2>>, <<0, 1>>}

\* Below the minimum, the minimum, and out of bounds.
MCConfidences == {7000, 9000, 10001}
=============================================================================
