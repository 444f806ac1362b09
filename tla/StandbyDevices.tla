--------------------------- MODULE StandbyDevices ---------------------------
(***************************************************************************)
(* What device_suspend saves and device_resume writes back                 *)
(* (ar100s/service/standby/standby-sun60iw2p1/plat_standby.c): the regions *)
(* of the memory protection (SMC), the 64-bit time stamp, moved on by the  *)
(* seconds the RTC counted meanwhile, and the USB ports that support       *)
(* standby.  Operators only: module Standby takes the steps.               *)
(***************************************************************************)
EXTENDS Integers

CONSTANTS
  Word,          \* modulus of the time stamp's halves (2^32 in the code)
  DayWord        \* modulus of the product of days and seconds (2^32)

ASSUME WordAssumption == Word \in Nat \ {0} /\ DayWord \in Nat \ {0}

-----------------------------------------------------------------------------
(* The SMC: a region's attribute is 0 when it is not in use.  Both           *)
(* controllers are always written alike (smc_write_reg).                    *)

InUse(regions, i) == \A j \in 1..i : regions[j] # 0

\* smc_standby_init: up to the first region not in use; the save of an earlier
\* transaction stays behind it.
smc_standby_init(save, regions) ==
  [i \in DOMAIN save |-> IF InUse(regions, i) THEN regions[i] ELSE save[i]]

\* smc_standby_exit of a chip that is secure and no longer bypassed: up to the
\* first saved region not in use.
smc_standby_exit(save, regions) ==
  [i \in DOMAIN save |-> IF InUse(save, i) THEN save[i] ELSE regions[i]]

-----------------------------------------------------------------------------
(* The time stamp. *)

\* rtc_get_timestamp_in_seconds_since: days, hours, minutes and seconds; the
\* product of the days is one word wide, and so may wrap.
rtc_get_timestamp(rtc) == ((rtc.day * 24 * 3600) % DayWord) + rtc.s + rtc.m * 60 + rtc.h * 3600

\* sunxi_timestamp_suspend: the low half is read first, the counter running.
sunxi_timestamp_suspend(early, late, rtc) ==
  [low |-> early % Word, hi |-> late \div Word, last |-> rtc_get_timestamp(rtc)]

\* sunxi_timestamp_resume: both halves are written with the counter stopped.
sunxi_timestamp_resume(save, freq, rtc) ==
  (save.hi * Word + save.low
     + (rtc_get_timestamp(rtc) - save.last) * freq)
  % (Word * Word)

-----------------------------------------------------------------------------
\* usb_standby_port_support: the ports whose standby clock is selected.
usb_standby_port_support(select) == {p \in DOMAIN select : select[p] = "standby"}
=============================================================================
