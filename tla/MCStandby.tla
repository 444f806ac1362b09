----------------------------- MODULE MCStandby -----------------------------
(* Instance of Standby for TLC. *)
EXTENDS Standby

\* No rails, and rails of all three domains: a dm_suspend that fails cuts some.
MCCuts == {{}, {"io", "cpu", "sys"}}

\* The time stamp over every alignment of a carry: it never runs backwards, is
\* exact when the halves were read without a carry in between, and otherwise
\* ahead by one carry.  (Seconds that wrap in the day product are left out.)
ASSUME TimeStamp ==
  \A t \in 0..(2 * Word), d \in 0..2, freq \in 1..3, day \in {0, 12427}, s \in 0..2 :
     LET then  == [day |-> day, h |-> 23, m |-> 59, s |-> 57]
         now   == [then EXCEPT !.s = @ + s]
         stamp == sunxi_timestamp_resume(sunxi_timestamp_suspend(t, t + d, then), freq, now)
         ahead == (t + d) \div Word - t \div Word
     IN  stamp = t + s * freq + ahead * Word
=============================================================================
