------------------------------- MODULE MCBoot0 -------------------------------
(* Boot0 for TLC: a header and entries of one byte each, a table of five    *)
(* entries and 32-valued words.  The primary may be any package that        *)
(* differs from a good one in two entries, or in one entry and its          *)
(* payloads; the backup is one of a few good and bad ones.  With it, the    *)
(* layout of the pin registers and the early UART.                          *)
EXTENDS Boot0, BoardIo, FiniteSets

E(u, o, s) == [uuid |-> u, offset |-> o, size |-> s, flags |-> 0]

\* With and without HW_CONFIG; the payloads are aligned and may touch.
Good == {
  <<E("bl31", 6, 2), E("scp_bl2", 8, 4), E("bl33", 12, 4), E("hw_config", 16, 2), E("null", 18, 0)>>,
  <<E("scp_bl2", 8, 4), E("bl33", 12, 4), E("bl31", 5, 3), E("null", 18, 0), E("other1", 1, 0)>>,
  <<E("other1", 16, 2), E("bl33", 12, 4), E("bl31", 6, 2), E("scp_bl2", 8, 4), E("null", 20, 0)>>}

\* 31 and 30 make offset + size wrap around
Changed == [uuid : {"scp_bl2", "bl31", "hw_config", "other1", "null"},
            offset : {0, 5, 8, 16, 18, 30}, size : {0, 2, 4, 31}, flags : {0, 1}]

Tocs == {[t EXCEPT ![i] = e] : t \in Good, i \in 1 .. 5, e \in Changed}
        \cup {[t EXCEPT ![i] = e, ![j] = [e EXCEPT !.uuid = "other2"]] :
                t \in Good, i \in 1 .. 5, j \in 1 .. 5, e \in Changed}
        \cup Good

AllSigned == [k \in Kind \ {"bl33"} |-> TRUE]
Pkg(t, b) == [magic |-> TRUE, toc |-> t, signed |-> AllSigned, target |-> b]

AnyPackage ==
  {Pkg(t, 0) : t \in Tocs}
  \cup {[magic |-> m, toc |-> t, signed |-> s, target |-> b] :
          m \in BOOLEAN, t \in Good, s \in [Kind \ {"bl33"} -> BOOLEAN], b \in {-1, 0, 1}}

\* no SCP_BL2; a terminator inside the table; one beyond the buffer
NoScp == <<E("bl31", 6, 2), E("bl33", 12, 4), E("null", 18, 0), E("null", 0, 0), E("null", 0, 0)>>
FewPackages ==
  {Pkg(t, b) : t \in Good, b \in {0, 1}}
  \cup {Pkg([NoScp EXCEPT ![3] = E("null", o, 0)], 0) : o \in {2, 18, 31}}

MCImages == AnyPackage \cup FewPackages
MCMedia == [s \in {1, 2} |-> IF s = 1 THEN AnyPackage ELSE FewPackages]
MCLimit == [k \in Kind |-> 4]
MCMinSize == [k \in Kind |-> IF k \in {"hw_config", "bl31"} THEN 2 ELSE 4]

-----------------------------------------------------------------------------
Pin == (1 .. 13) \X (0 .. 31)

PinBits(p) ==
  LET at == a7s_gpio_registers(p[1], p[2])
  IN  Bits(at.cfg, (p[2] % 8) * 4, 4) \cup Bits(at.pull, (p[2] % 16) * 2, 2)
        \cup Bits(at.drv, (p[2] % 8) * 4, 4) \cup Bits(at.data, p[2], 1)

Uses(port, pin, drv) ==
  [port |-> port, pin |-> pin, mux |-> 2, pull |-> 1, drv |-> drv, data |-> -1]
Ones == UNION {PinBits(<<6, i>>) \cup PinBits(<<2, i + 4>>) : i \in 0 .. 7}

\* No two pins share a bit of their registers (so that setting one leaves the
\* others alone), and the early UART's and the SD card's own ways to set their
\* pins do what the general one does, whatever the registers held (of the
\* drive field the general one writes the low half only).
ASSUME PinLayout ==
  /\ Cardinality(UNION {PinBits(p) : p \in Pin}) = 11 * Cardinality(Pin)
  /\ \A old \in {{}, Ones} :
       /\ \A pin \in {9, 10} :
            a7s_gpio_set_drv(a7s_gpio_set_pull(a7s_gpio_set_cfg(old, 1, pin, 2), 1, pin, 1), 1, pin, 1)
              = boot_set_gpio(old, <<Uses(2, pin, 1)>>, TRUE)
       /\ a7s_mmc0_config_pins(old)
            = boot_set_gpio(old, [i \in 1 .. 6 |-> Uses(6, i - 1, IF i = 3 THEN 2 ELSE 1)], TRUE)
                \ UNION {Bits(800, 4 * i + 2, 2) : i \in 0 .. 5}

Uart0 == [reset : BOOLEAN, gate : BOOLEAN, dlab : BOOLEAN, dll : {0, 1}, dlh : {0, 1}, ier : {0, 5},
          fifo : BOOLEAN, sent : {<<>>}]

\* Whatever the boot ROM or the vendor's serial driver left, also with the
\* divisor latch open, the UART comes up at 115200 with interrupts off and
\* nothing sent; and a line feed always follows exactly one carriage return.
ASSUME EarlyUart ==
  \A u \in Uart0 :
    LET v == a7s_early_uart_init(u)
    IN  /\ v = [reset |-> FALSE, gate |-> TRUE, dlab |-> FALSE, dll |-> 13, dlh |-> 0, ier |-> 0,
                fifo |-> TRUE, sent |-> <<>>]
        /\ \A s \in UNION {[1 .. k -> {10, 13, 65}] : k \in 0 .. 3} :
             LET out == a7s_early_uart_puts(v, s).sent
             IN  /\ \A i \in DOMAIN out : out[i] = 10 => i > 1 /\ out[i - 1] = 13
                 /\ Len(out) = Len(s) + Cardinality({i \in DOMAIN s : s[i] = 10 /\ (i = 1 \/ s[i - 1] # 13)})
=============================================================================
