----------------------------- MODULE MCHosted -------------------------------
(***************************************************************************)
(* Small instances of Hosted:   a register access of every kind and, for   *)
(* each adaptor, memory accesses of one piece and of two.                  *)
(***************************************************************************)
EXTENDS Hosted

Of(adaptors, names, bytes, align) ==
    {[bytes |-> bytes, align |-> align, adaptor |-> d, name |-> n] : d \in adaptors, n \in names}

MCAccesses ==
    Of(RemoteProbes \cup StLinks \cup CmsisDaps, {"dp_read", "raw_write", "ap_read", "ap_write"}, 4, 2)
    \cup Of({"jlink"}, {"dp_read", "dp_write", "raw_read", "raw_write"}, 4, 2)
    \cup Of(RemoteProbes \cup StLinks \cup CmsisDaps, {"mem_read"}, 4, 2)
    \cup Of({"remote_v0"}, {"mem_write"}, 600, 2)
    \cup Of({"remote_v1", "remote_v3"}, {"mem_write"}, 600, 0)
    \cup Of(RemoteProbes, {"mem_read"}, 600, 0)
    \cup Of({"stlink_v2"}, {"mem_write"}, 68, 2)
    \cup Of({"stlink_v3"}, {"mem_write"}, 516, 2)
    \cup Of(CmsisDaps, {"mem_read", "mem_write"}, 64, 2)
    \cup Of(CmsisDaps, {"mem_write"}, 4, 2)

\* Register accesses of one adaptor.
MCRemote == Of({"remote_v3"}, {"dp_read", "ap_read"}, 4, 2)

(***************************************************************************)
(* Operations on bits.  One bit is high, or all are: enough to tell where  *)
(* each one goes.  Left out of MCJobs are those that go wrong and that no  *)
(* caller makes: on FTDI a read of 8k + 1 bits with TMS, on CMSIS-DAP one  *)
(* with TMS that does not end a byte, TMS beyond eight states over the     *)
(* remote protocol, parity of other than 32 bits.  Left out too are the    *)
(* bit-banged writes and the parity of a CMSIS-DAP adaptor, which do.      *)
(***************************************************************************)
Walking(n) == {[i \in 1..n |-> IF k \in {0, i} THEN 1 ELSE 0] : k \in 0..n}
Mirror(bits) == [i \in DOMAIN bits |-> bits[Len(bits) + 1 - i]]
Taps == {"ftdi", "dap", "jlink", "remote"}

Job(tap, op, n, data, line, final, read) ==
    [tap |-> tap, op |-> op, n |-> n, data |-> data, line |-> line, final |-> final, read |-> read]
Spoilt(j) ==
    \/ j.tap = "ftdi" /\ j.final /\ j.read /\ j.n % 8 = 1
    \/ j.tap = "dap" /\ j.final /\ j.read /\ j.n % 8 # 1

TdiJobs == UNION {{Job(t, "tdi_tdo", n, d, Mirror(d), f, r) :
                      t \in Taps, d \in Walking(n), f \in BOOLEAN, r \in BOOLEAN} :
                  n \in {1, 2, 7, 8, 9, 16, 32, 33, 35}}
TmsJobs == UNION {{Job(t, "tms", n, d, <<>>, FALSE, FALSE) : t \in Taps, d \in Walking(n)} : n \in 1..8}
           \cup {Job(t, "tms", 16, d, <<>>, FALSE, FALSE) : t \in Taps \ {"remote"}, d \in Walking(16)}
NextJobs == {Job(t, "next", 1, <<d>>, <<b>>, f, TRUE) : t \in Taps, d \in {0, 1}, b \in {0, 1}, f \in BOOLEAN}
StartJobs == {[tap |-> t, op |-> "start", mode |-> m] : t \in {"dap", "jlink"}, m \in {"jtag", "swd", "reset"}}
             \cup {[tap |-> "ftdi", op |-> "start", mode |-> "jtag"]}
SwdOuts(taps) ==
    UNION {{Job(t, "out", n, d, <<>>, FALSE, FALSE) : t \in taps, d \in Walking(n)} : n \in {8, 12, 16, 32}}
    \cup {Job(t, "out_parity", 32, d, <<>>, FALSE, FALSE) : t \in taps, d \in Walking(32)}
SwdIns == {Job(t, "in", 3, <<>>, b, FALSE, TRUE) : t \in {"ftdi", "ftdi_raw", "dap", "remote"}, b \in Walking(3)}
          \cup {Job(t, "in_parity", 32, <<>>, b, FALSE, TRUE) : t \in {"ftdi", "ftdi_raw", "remote"}, b \in Walking(33)}

MCJobs == {j \in TdiJobs : ~Spoilt(j)} \cup TmsJobs \cup NextJobs \cup StartJobs
          \cup SwdOuts({"ftdi", "dap", "remote"}) \cup SwdIns

\* The requests that start an access over bit-banged SWDIO.
MCRawJobs == {Job("ftdi_raw", "out", 8, d, <<>>, FALSE, FALSE) : d \in Walking(8)}
             \cup {j \in SwdIns : j.tap = "ftdi_raw"}
=============================================================================
