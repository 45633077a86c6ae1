------------------------------ MODULE MCTrace ------------------------------
(***************************************************************************)
(* Small instances of Trace for TLC.  The sets of ICMP errors the routers  *)
(* send are named here, the configurations choose among them.              *)
(***************************************************************************)
EXTENDS TraceRefines

TimeExceeded == [version |-> "v4", icmp_type |-> 11, code |-> 0, info |-> 0]
Filtered  == [version |-> "v4", icmp_type |-> 3, code |-> 13, info |-> 0]
PacketTooBig == [version |-> "v6", icmp_type |-> 2, code |-> 0, info |-> 1280]

NoErrors   == {}
HopErrors  == {TimeExceeded}
PathErrors == {TimeExceeded, Filtered}
SizeErrors == {PacketTooBig}

\* Bound of the run with four probes: completions the program is behind.
Backlog == Len(cq) <= 2
=============================================================================
