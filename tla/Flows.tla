------------------------------- MODULE Flows -------------------------------
(***************************************************************************)
(* Several ringroute processes on one host, from the method's construction *)
(* to the exit: src/src/method/*.rs try_new and open, and the order in     *)
(* which main() and run() drop what they opened.                           *)
(*                                                                         *)
(* What keeps the traces apart is a number the system picks: a source port *)
(* (UDP, TCP) or an echo identifier (ICMP).  An ICMP or UDP socket is the  *)
(* number's owner and the kernel gives it only its own replies.  A raw TCP *)
(* socket owns no port and sees the segments of every flow, so Tcp keeps a *)
(* dummy socket bound to the port and filters.  All traces have the same   *)
(* target, and all of them number their probes from 0.                     *)
(***************************************************************************)
EXTENDS Icmp, Integers

CONSTANTS
  Procs,        \* the processes
  Ports,        \* the source ports, and the identifiers, the system has
  Probes,       \* the indices of the probes of a trace
  Assignments   \* which process uses which method

ASSUME FlowsAssumption ==
  /\ \A n \in Ports : n \in Nat /\ n >= 1 /\ n <= 65535
  /\ \A i \in Probes : i \in Nat /\ i <= 2294
  /\ \A a \in Assignments : a \in [Procs -> {"icmp", "udp", "tcp"}]

VARIABLES
  phase,    \* start, bound (the dummy socket is), built, open, report, exit
  method,   \* the method of each process
  owned,    \* the port or identifier whose socket it holds: none or one
  source,   \* Tcp::source.port(), or the number its socket sends from
  sent,     \* the probes whose send is completed
  result,   \* the transmitted probe that the recorded reply of a probe answers
  wire,     \* external: the probes ever transmitted, with their source
  before    \* the processes whose run() had ended when this one got its port

vars == <<phase, method, owned, source, sent, result, wire, before>>

Init ==
  /\ phase = [p \in Procs |-> "start"]
  /\ method \in Assignments
  /\ owned = [p \in Procs |-> {}]
  /\ source = [p \in Procs |-> 0]
  /\ sent = [p \in Procs |-> {}]
  /\ result = [p \in Procs |-> [i \in Probes |-> {}]]
  /\ wire = {}
  /\ before = [p \in Procs |-> {}]

\* The methods, for a process that sends from src.
M(meth, src) == INSTANCE Methods WITH
  Method <- meth, Version <- "v4", Target <- 0, PacketLen <- 60, SourcePort <- src

\* External: bind() to port 0 gives a number no socket of that protocol holds.
Free(meth) == Ports \ UNION {owned[q] : q \in {r \in Procs : method[r] = meth}}

Bind(p) ==
  \E n \in Free(method[p]) :
    /\ owned' = [owned EXCEPT ![p] = {n}]
    /\ source' = [source EXCEPT ![p] = n]
    /\ before' = [before EXCEPT ![p] = {q \in Procs : phase[q] \in {"report", "exit"}}]

\* What a process that ends holds is closed with it.
Exit(p) == phase' = [phase EXCEPT ![p] = "exit"] /\ owned' = [owned EXCEPT ![p] = {}]

\* Icmp::try_new and Udp::try_new open nothing.
TryNew(p) ==
  /\ phase[p] = "start" /\ method[p] \in {"icmp", "udp"}
  /\ phase' = [phase EXCEPT ![p] = "built"]
  /\ UNCHANGED <<method, owned, source, sent, result, wire, before>>

\* Tcp::try_new: the dummy socket is bound and its port read back.
TryNewBinds(p) ==
  /\ phase[p] = "start" /\ method[p] = "tcp"
  /\ Bind(p)
  /\ phase' = [phase EXCEPT ![p] = "bound"]
  /\ UNCHANGED <<method, sent, result, wire>>

\* What try_new returns keeps the dummy socket (or drops it).
DummyDropped(p) == owned' = [owned EXCEPT ![p] = {}]
DummyKept(p) == owned' = owned

\* Tcp::try_new: the route lookup by a UDP socket gives the source address.
TryNewRoutes(p) ==
  /\ phase[p] = "bound"
  /\ phase' = [phase EXCEPT ![p] = "built"]
  /\ DummyKept(p)
  /\ UNCHANGED <<method, source, sent, result, wire, before>>

\* Icmp::open: the socket is bound, and its echo identifier is the bound number.
OpenIcmp(p) ==
  /\ phase[p] = "built" /\ method[p] = "icmp"
  /\ Bind(p)
  /\ phase' = [phase EXCEPT ![p] = "open"]
  /\ UNCHANGED <<method, sent, result, wire>>

\* Udp::open: the socket is bound to a port of its own.
OpenUdp(p) ==
  /\ phase[p] = "built" /\ method[p] = "udp"
  /\ Bind(p)
  /\ phase' = [phase EXCEPT ![p] = "open"]
  /\ UNCHANGED <<method, sent, result, wire>>

\* Tcp::open: a raw socket, which takes no port.
OpenTcp(p) ==
  /\ phase[p] = "built" /\ method[p] = "tcp"
  /\ phase' = [phase EXCEPT ![p] = "open"]
  /\ UNCHANGED <<method, owned, source, sent, result, wire, before>>

\* try_new, open or run() fails, or no port is free.
Fails(p) ==
  /\ phase[p] \in {"start", "bound", "built", "open"}
  /\ Exit(p)
  /\ UNCHANGED <<method, source, sent, result, wire, before>>

\* A probe is transmitted and its send completed.
Send(p, i) ==
  /\ phase[p] = "open" /\ i \notin sent[p]
  /\ sent' = [sent EXCEPT ![p] = @ \cup {i}]
  /\ wire' = wire \cup {[proc |-> p, probe |-> i, src |-> source[p]]}
  /\ UNCHANGED <<phase, method, owned, source, result, before>>

\* External: which sockets a reply to w is delivered to.
Delivered(p, w) ==
  /\ method[p] = method[w.proc]
  /\ method[p] = "tcp" \/ source[p] = w.src

Filtered == [version |-> "v4", icmp_type |-> v4.DEST_UNREACH, code |-> 13, info |-> 0]

\* The probe that a process takes a reply to w for.
Identified(p, w, err_queue) ==
  LET fields == M(method[p], w.src)!probe(w.probe)
      reply  == IF err_queue THEN M(method[p], w.src)!RouterReply(fields, Filtered)
                ELSE M(method[p], w.src)!TargetReply(fields)
  IN  M(method[p], source[p])!identify(err_queue, reply)

\* handle_read: a reply, now or late, once or again, from the target or a router.
Receive(p, w) ==
  /\ phase[p] = "open"
  /\ Delivered(p, w)
  /\ \E err_queue \in BOOLEAN : \E i \in Identified(p, w, err_queue) \cap sent[p] :
       /\ result[p][i] = {}
       /\ result' = [result EXCEPT ![p][i] = {w}]
  /\ UNCHANGED <<phase, method, owned, source, sent, wire, before>>

\* run() returns: its socket is closed, the method lives on in main().
Return(p) ==
  /\ phase[p] = "open"
  /\ phase' = [phase EXCEPT ![p] = "report"]
  /\ owned' = IF method[p] = "tcp" THEN owned ELSE [owned EXCEPT ![p] = {}]
  /\ UNCHANGED <<method, source, sent, result, wire, before>>

\* main() returns after the report, which drops the method and its dummy socket.
MainReturns(p) ==
  /\ phase[p] = "report"
  /\ Exit(p)
  /\ UNCHANGED <<method, source, sent, result, wire, before>>

AllExited == (\A p \in Procs : phase[p] = "exit") /\ UNCHANGED vars

Step(p) ==
  \/ TryNew(p) \/ TryNewBinds(p) \/ TryNewRoutes(p)
  \/ OpenIcmp(p) \/ OpenUdp(p) \/ OpenTcp(p) \/ Fails(p)
  \/ (\E i \in Probes : Send(p, i))
  \/ (\E w \in wire : Receive(p, w))
  \/ Return(p) \/ MainReturns(p)

Next == (\E p \in Procs : Step(p)) \/ AllExited

Spec == Init /\ [][Next]_vars
-----------------------------------------------------------------------------
(* Properties.                                                             *)

\* The replies a trace records answer its own probes, each the probe it is
\* recorded for, although raw sockets see those of all traces: the port is held
\* "for as long as it might be needed" (Tcp::_dummy_sock).  The one exception is
\* a late reply to a process whose run() had ended before this one got its port.
NoCrossTalk ==
  \A p \in Procs, i \in Probes : \A w \in result[p][i] :
    \/ w.proc = p /\ w.probe = i
    \/ w.proc \in before[p] /\ w.src = source[p]
=============================================================================
