---------------------------- MODULE MCRaceReports ----------------------------
(* A small instance of the reporting path for TLC.                         *)
EXTENDS RaceReports, Bitwise

\* One bucket at address 1, and three from address 3 on: their last one has the
\* site key of the first buffer, 3 ^ 2 = 1 ^ 0.
TwoBuffers == {<<1, 1>>, <<3, 3>>}

BitwiseXor(m, n) == m ^^ n

==============================================================================
