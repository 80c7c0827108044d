----------------------------- MODULE MCMessages -----------------------------
(* One worker and a few messages, for TLC.                                 *)
EXTENDS Messages

OneByte == {<<0, 1>>}

=============================================================================
