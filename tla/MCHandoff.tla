----------------------------- MODULE MCHandoff -----------------------------
(* Two cache lines of two words, images that end on a word, in the middle of *)
(* one, on a line, and at the end of the SRAM.                               *)
EXTENDS Handoff

MCSizes == {<<0, 3>>, <<1, 0>>, <<1, 2>>, <<2, 0>>, <<4, 0>>}
=============================================================================
