----------------------------- MODULE FlowsProof -----------------------------
(***************************************************************************)
(* The proof about Flows: for any number of processes, any ports and any   *)
(* probes a trace may have.                                                *)
(*                                                                         *)
(* That a recorded reply is one's own rests on who holds a number from     *)
(* when to when: the invariant follows a number from the bind to the last  *)
(* moment at which a reply may still be taken for one's own.               *)
(***************************************************************************)
EXTENDS Flows, TLAPS

Transmitted == [proc : Procs, probe : Probes, src : Ports]

\* The types, and the bounds of what each process was given.
Types ==
  /\ phase \in [Procs -> {"start", "bound", "built", "open", "report", "exit"}]
  /\ method \in [Procs -> {"icmp", "udp", "tcp"}]
  /\ owned \in [Procs -> SUBSET Ports]
  /\ source \in [Procs -> Ports \cup {0}]
  /\ sent \in [Procs -> SUBSET Probes]
  /\ result \in [Procs -> [Probes -> SUBSET Transmitted]]
  /\ wire \subseteq Transmitted
  /\ before \in [Procs -> SUBSET Procs]

\* The process has a number and the socket that reserves it.
Holds(p) ==
  IF method[p] = "tcp" THEN phase[p] \in {"bound", "built", "open", "report"}
  ELSE phase[p] = "open"

\* It has not had one yet.
Unbound(p) == phase[p] = "start" \/ (phase[p] = "built" /\ method[p] # "tcp")

\* Its trace was started, and may have sent probes.
Started(p) == phase[p] \in {"open", "report", "exit"}

\* Only Tcp::try_new binds before the socket is opened.
OnlyTcpBinds == \A p \in Procs : phase[p] = "bound" => method[p] = "tcp"

\* A process owns its number for as long as it holds it.
Reserved ==
  \A p \in Procs :
    /\ Holds(p) => owned[p] = {source[p]} /\ source[p] \in Ports
    /\ Unbound(p) => source[p] = 0

\* No two hold the same number of a protocol.
Exclusive ==
  \A p, q \in Procs :
    p # q /\ method[p] = method[q] /\ Holds(p) /\ Holds(q) => source[p] # source[q]

\* Who started with the number that a process holds now had ended before.
Predecessors ==
  \A p, q \in Procs :
    p # q /\ method[p] = method[q] /\ Holds(p) /\ Started(q) /\ source[q] = source[p]
      => q \in before[p]

\* A probe on the wire carries the number of the process that sent it.
Genuine == \A w \in wire : Started(w.proc) /\ w.src = source[w.proc]

\* Nothing is recorded before the trace starts.
Nothing == \A p \in Procs, i \in Probes : ~Started(p) => result[p][i] = {}

Inv ==
  /\ Types /\ OnlyTcpBinds
  /\ Reserved /\ Exclusive /\ Predecessors /\ Genuine /\ Nothing
  /\ NoCrossTalk
-----------------------------------------------------------------------------
(* The operators.                                                          *)

\* The numbers of ports and probes.
LEMMA Numbers ==
  /\ \A n \in Ports : n \in Nat /\ n >= 1 /\ n <= 65535
  /\ \A i \in Probes : i \in Nat /\ i <= 2294
BY FlowsAssumption

\* A reply to a probe of the flow from src, on one of the queues.
ReplyTo(meth, src, id, err_queue) ==
  IF err_queue THEN M(meth, src)!RouterReply(M(meth, src)!probe(id), Filtered)
  ELSE M(meth, src)!TargetReply(M(meth, src)!probe(id))

\* Icmp: the sequence number of the reply is that of the probe.
LEMMA IcmpIdentifies ==
  ASSUME NEW src \in Ports, NEW own \in Ports, NEW id \in Probes, NEW err_queue \in BOOLEAN,
         NEW n \in M("icmp", own)!identify(err_queue, ReplyTo("icmp", src, id, err_queue))
  PROVE  n = id
<1> DEFINE r == ReplyTo("icmp", src, id, err_queue)
<1>1. M("icmp", src)!probe(id).seq = id
  BY Numbers DEF M!probe, M!IcmpProbe
<1>2. r.quoted.seq = id
  BY <1>1 DEF ReplyTo, M!RouterReply, M!TargetReply
<1> HIDE DEF r
<1>3. M("icmp", own)!identify(err_queue, r) = M("icmp", own)!sequence(r)
  BY DEF M!identify
<1>4. n \in M("icmp", own)!sequence(r)
  BY <1>3 DEF r
<1> QED
  BY <1>2, <1>4 DEF M!sequence

\* Udp: the port of the target, as replies and errors carry it, gives the probe.
LEMMA UdpIdentifies ==
  ASSUME NEW src \in Ports, NEW own \in Ports, NEW id \in Probes, NEW err_queue \in BOOLEAN,
         NEW n \in M("udp", own)!identify(err_queue, ReplyTo("udp", src, id, err_queue))
  PROVE  n = id
<1> DEFINE r == ReplyTo("udp", src, id, err_queue)
<1>1. M("udp", src)!probe(id).dport = 33434 + id
  BY Numbers DEF M!probe, M!UdpProbe, M!UdpPort, M!START_PORT
<1>2. CASE err_queue
  <2>1. r.destination = {[ip |-> 0, port |-> 33434 + id]}
    BY <1>1, <1>2 DEF ReplyTo, M!RouterReply
  <2> HIDE DEF r
  <2>2. M("udp", own)!identify(err_queue, r) = M("udp", own)!IdentifyUdpError(r)
    BY <1>2 DEF M!identify
  <2>3. n \in M("udp", own)!IdentifyUdpError(r)
    BY <2>2 DEF r
  <2>4. PICK a \in r.destination : n \in M("udp", own)!checked_sub(a.port, 33434)
    BY <2>3 DEF M!IdentifyUdpError, M!START_PORT
  <2>5. a.port = 33434 + id
    BY <2>1
  <2> QED
    BY <2>4, <2>5, Numbers DEF M!checked_sub
<1>3. CASE ~err_queue
  <2>1. r.source = {[ip |-> 0, port |-> 33434 + id]}
    BY <1>1, <1>3 DEF ReplyTo, M!TargetReply
  <2> HIDE DEF r
  <2>2. M("udp", own)!identify(err_queue, r) = M("udp", own)!IdentifyUdpReply(r)
    BY <1>3 DEF M!identify
  <2>3. n \in M("udp", own)!IdentifyUdpReply(r)
    BY <2>2 DEF r
  <2>4. PICK a \in r.source : n \in M("udp", own)!checked_sub(a.port, 33434)
    BY <2>3 DEF M!IdentifyUdpReply, M!START_PORT
  <2>5. a.port = 33434 + id
    BY <2>1
  <2> QED
    BY <2>4, <2>5, Numbers DEF M!checked_sub
<1> QED
  BY <1>2, <1>3

\* Tcp: only a reply to a probe from the process's own port is taken, and the
\* acknowledged or quoted sequence number gives the probe.
LEMMA TcpIdentifies ==
  ASSUME NEW src \in Ports, NEW own \in Ports, NEW id \in Probes, NEW err_queue \in BOOLEAN,
         NEW n \in M("tcp", own)!identify(err_queue, ReplyTo("tcp", src, id, err_queue))
  PROVE  n = id /\ src = own
<1> DEFINE r == ReplyTo("tcp", src, id, err_queue)
<1>1. M("tcp", src)!probe(id) = [sport |-> src, dport |-> 80, seq |-> id]
  BY DEF M!probe, M!TcpProbe, M!DEST_PORT
<1>2. CASE err_queue
  <2>1. r.quoted.sport = src /\ r.quoted.seq = id
    BY <1>1, <1>2 DEF ReplyTo, M!RouterReply
  <2> HIDE DEF r
  <2>2. M("tcp", own)!identify(err_queue, r) = M("tcp", own)!IdentifyTcpError(r)
    BY <1>2 DEF M!identify
  <2>3. n \in M("tcp", own)!IdentifyTcpError(r)
    BY <2>2 DEF r
  <2> QED
    BY <2>1, <2>3 DEF M!IdentifyTcpError, M!u16_try_from
<1>3. CASE ~err_queue
  <2>1. r.quoted.dport = src /\ r.quoted.ack = id + 1
    BY <1>1, <1>3 DEF ReplyTo, M!TargetReply
  <2> HIDE DEF r
  <2>2. M("tcp", own)!identify(err_queue, r) = M("tcp", own)!IdentifyTcpReply(r)
    BY <1>3 DEF M!identify
  <2>3. n \in M("tcp", own)!IdentifyTcpReply(r)
    BY <2>2 DEF r
  <2>4. PICK a \in r.source :
          /\ <<r.quoted.sport, r.quoted.dport>> = <<M("tcp", own)!DEST_PORT, own>>
          /\ \E m \in M("tcp", own)!checked_sub(r.quoted.ack, 1) :
               n \in M("tcp", own)!u16_try_from(m)
    BY <2>3 DEF M!IdentifyTcpReply
  <2>5. src = own
    BY <2>1, <2>4
  <2>6. PICK m \in M("tcp", own)!checked_sub(id + 1, 1) : n \in M("tcp", own)!u16_try_from(m)
    BY <2>1, <2>4
  <2>7. n = m
    BY <2>6 DEF M!u16_try_from
  <2>8. m = id
    BY <2>6, Numbers DEF M!checked_sub
  <2> QED
    BY <2>5, <2>7, <2>8
<1> QED
  BY <1>2, <1>3

\* What a process takes for a reply to probe n of its own is a reply to somebody's
\* probe n; and if it was delivered, the number it was sent from is the process's.
LEMMA Takes ==
  ASSUME NEW p \in Procs, NEW w \in Transmitted, NEW err_queue \in BOOLEAN,
         method[p] \in {"icmp", "udp", "tcp"}, source[p] \in Ports, Delivered(p, w),
         NEW n \in Identified(p, w, err_queue)
  PROVE  n = w.probe /\ w.src = source[p]
<1>1. w.src \in Ports /\ w.probe \in Probes
  BY DEF Transmitted
<1>2. n \in M(method[p], source[p])!identify(err_queue, ReplyTo(method[p], w.src, w.probe, err_queue))
  BY DEF Identified, ReplyTo
<1>3. CASE method[p] = "icmp"
  BY <1>1, <1>2, <1>3, IcmpIdentifies DEF Delivered
<1>4. CASE method[p] = "udp"
  BY <1>1, <1>2, <1>4, UdpIdentifies DEF Delivered
<1>5. CASE method[p] = "tcp"
  BY <1>1, <1>2, <1>5, TcpIdentifies DEF Delivered
<1> QED
  BY <1>3, <1>4, <1>5

-----------------------------------------------------------------------------
(* The steps.                                                              *)

\* 0 stands for no number.
LEMMA NoZero == 0 \notin Ports
BY Numbers

\* The initial states satisfy the invariant.
LEMMA InitInv == Init => Inv
<1> SUFFICES ASSUME Init PROVE Inv
  OBVIOUS
<1>1. Types
  <2>1. method \in [Procs -> {"icmp", "udp", "tcp"}]
    BY FlowsAssumption DEF Init
  <2> QED
    BY <2>1 DEF Init, Types
<1>2. OnlyTcpBinds /\ Reserved /\ Exclusive /\ Predecessors
  BY DEF Init, OnlyTcpBinds, Reserved, Exclusive, Predecessors, Holds, Unbound
<1>3. Genuine /\ Nothing /\ NoCrossTalk
  BY DEF Init, Genuine, Nothing, NoCrossTalk
<1> QED
  BY <1>1, <1>2, <1>3 DEF Inv

\* A step of p that gives out no number: p keeps its own or lets go of it.
LEMMA PhaseStep ==
  ASSUME Inv, NEW p \in Procs,
         UNCHANGED <<method, source, sent, result, wire, before>>,
         NEW to \in {"built", "open", "report", "exit"}, phase' = [phase EXCEPT ![p] = to],
         owned' = owned \/ owned' = [owned EXCEPT ![p] = {}],
         Holds(p)' => Holds(p) /\ owned' = owned,
         Unbound(p)' => Unbound(p),
         Started(p) => Started(p)',
         Started(p)' => Started(p) \/ Holds(p) \/ Unbound(p)
  PROVE  Inv'
<1>0. /\ phase' \in [Procs -> {"start", "bound", "built", "open", "report", "exit"}]
      /\ phase'[p] = to
      /\ \A q \in Procs \ {p} : phase'[q] = phase[q] /\ owned'[q] = owned[q]
  BY DEF Inv, Types
<1>1. Types'
  BY <1>0 DEF Inv, Types
<1>2. \A q \in Procs \ {p} :
        /\ Holds(q)' <=> Holds(q)
        /\ Unbound(q)' <=> Unbound(q)
        /\ Started(q)' <=> Started(q)
  BY <1>0 DEF Holds, Unbound, Started
<1>3. \A q \in Procs : /\ Holds(q)' => Holds(q) /\ owned'[q] = owned[q]
                       /\ Unbound(q)' => Unbound(q)
                       /\ Started(q) => Started(q)'
                       /\ Started(q)' => Started(q) \/ Holds(q) \/ Unbound(q)
  BY <1>0, <1>2
<1>4. Reserved'
  BY <1>3 DEF Inv, Reserved
<1>5. Exclusive'
  BY <1>3 DEF Inv, Exclusive
<1>6. Predecessors'
  <2> SUFFICES ASSUME NEW a \in Procs, NEW b \in Procs,
                      a # b, method[a] = method[b], Holds(a)', Started(b)', source[b] = source[a]
               PROVE  b \in before[a]
    BY DEF Predecessors
  <2>1. Holds(a) /\ source[a] \in Ports
    BY <1>3 DEF Inv, Reserved
  <2>2. ~Unbound(b)
    BY <2>1, NoZero DEF Inv, Reserved
  <2>3. ~Holds(b) \/ Started(b)
    BY <2>1 DEF Inv, Exclusive
  <2>4. Started(b)
    BY <1>3, <2>2, <2>3
  <2> QED
    BY <2>1, <2>4 DEF Inv, Predecessors
<1>7. Genuine' /\ Nothing' /\ NoCrossTalk'
  <2>1. \A w \in wire : w.proc \in Procs
    BY DEF Inv, Types, Transmitted
  <2> QED
    BY <1>3, <2>1 DEF Inv, Genuine, Nothing, NoCrossTalk
<1>8. OnlyTcpBinds'
  BY <1>0 DEF Inv, OnlyTcpBinds
<1> QED
  BY <1>1, <1>4, <1>5, <1>6, <1>7, <1>8 DEF Inv

\* A step of p that binds: the number is nobody's, and whoever has used it has
\* ended.
LEMMA BindStep ==
  ASSUME Inv, NEW p \in Procs, Unbound(p), Bind(p),
         UNCHANGED <<method, sent, result, wire>>,
         NEW to \in {"bound", "open"}, phase' = [phase EXCEPT ![p] = to], Holds(p)'
  PROVE  Inv'
<1>1. PICK n \in Free(method[p]) :
        /\ owned' = [owned EXCEPT ![p] = {n}]
        /\ source' = [source EXCEPT ![p] = n]
        /\ before' = [before EXCEPT ![p] = {q \in Procs : phase[q] \in {"report", "exit"}}]
  BY DEF Bind
<1>2. n \in Ports /\ \A q \in Procs : method[q] = method[p] => n \notin owned[q]
  BY DEF Free
<1>3. /\ phase' \in [Procs -> {"start", "bound", "built", "open", "report", "exit"}]
      /\ phase'[p] = to
      /\ owned'[p] = {n} /\ source'[p] = n
      /\ before'[p] = {q \in Procs : phase[q] \in {"report", "exit"}}
      /\ \A q \in Procs \ {p} : /\ phase'[q] = phase[q] /\ owned'[q] = owned[q]
                                /\ source'[q] = source[q] /\ before'[q] = before[q]
  BY <1>1 DEF Inv, Types
<1>4. Types'
  BY <1>1, <1>2, <1>3 DEF Inv, Types
<1>5. \A q \in Procs \ {p} :
        /\ Holds(q)' <=> Holds(q)
        /\ Unbound(q)' <=> Unbound(q)
        /\ Started(q)' <=> Started(q)
  BY <1>3 DEF Holds, Unbound, Started
<1>6. ~Started(p) /\ ~Unbound(p)'
  BY <1>3 DEF Unbound, Started, Holds
<1>7. \A q \in Procs : method[q] = method[p] /\ Holds(q) => source[q] # n
  BY <1>2 DEF Inv, Reserved
<1>8. Reserved'
  BY <1>2, <1>3, <1>5, <1>6 DEF Inv, Reserved
<1>9. Exclusive'
  BY <1>3, <1>5, <1>7 DEF Inv, Exclusive
<1>10. Predecessors'
  <2> SUFFICES ASSUME NEW a \in Procs, NEW b \in Procs,
                      a # b, method[a] = method[b], Holds(a)', Started(b)', source'[b] = source'[a]
               PROVE  b \in before'[a]
    BY DEF Predecessors
  <2>1. CASE a # p /\ b # p
    BY <1>3, <1>5, <2>1 DEF Inv, Predecessors
  <2>2. CASE b = p
    BY <1>3, <1>5, <1>7, <2>2
  <2>3. CASE a = p
    <3>1. Started(b) /\ source[b] = n /\ method[b] = method[p]
      BY <1>3, <1>5, <2>3
    <3>2. phase[b] # "open"
      BY <1>7, <3>1 DEF Holds
    <3>3. phase[b] \in {"report", "exit"}
      BY <3>1, <3>2 DEF Started
    <3> QED
      BY <1>3, <2>3, <3>3
  <2> QED
    BY <2>1, <2>2, <2>3
<1>11. Genuine'
  <2> SUFFICES ASSUME NEW w \in wire PROVE Started(w.proc)' /\ w.src = source'[w.proc]
    BY DEF Genuine
  <2>1. w.proc \in Procs /\ Started(w.proc) /\ w.src = source[w.proc]
    BY DEF Inv, Types, Transmitted, Genuine
  <2> QED
    BY <1>3, <1>5, <1>6, <2>1
<1>12. Nothing'
  BY <1>5, <1>6 DEF Inv, Nothing
<1>13. NoCrossTalk'
  BY <1>3, <1>6 DEF Inv, Nothing, NoCrossTalk
<1>14. OnlyTcpBinds'
  BY <1>3 DEF Inv, OnlyTcpBinds, Unbound, Holds
<1> QED
  BY <1>4, <1>8, <1>9, <1>10, <1>11, <1>12, <1>13, <1>14 DEF Inv

\* try_new and open, with and without a number.
LEMMA OpenInv ==
  ASSUME Inv, NEW p \in Procs,
         TryNew(p) \/ TryNewBinds(p) \/ TryNewRoutes(p) \/ OpenIcmp(p) \/ OpenUdp(p) \/ OpenTcp(p)
  PROVE  Inv'
<1>0. phase \in [Procs -> {"start", "bound", "built", "open", "report", "exit"}]
  BY DEF Inv, Types
<1>1. CASE TryNew(p)
  <2>1. phase'[p] = "built" /\ method' = method
    BY <1>0, <1>1 DEF TryNew
  <2> QED
    BY <1>1, <2>1, PhaseStep DEF TryNew, Holds, Unbound, Started
<1>2. CASE TryNewBinds(p)
  <2>1. phase'[p] = "bound" /\ method' = method
    BY <1>0, <1>2 DEF TryNewBinds
  <2> QED
    BY <1>2, <2>1, BindStep DEF TryNewBinds, Holds, Unbound
<1>3. CASE TryNewRoutes(p)
  <2>1. phase'[p] = "built" /\ method' = method
    BY <1>0, <1>3 DEF TryNewRoutes
  <2>2. method[p] = "tcp"
    BY <1>3 DEF TryNewRoutes, Inv, OnlyTcpBinds
  <2> QED
    BY <1>3, <2>1, <2>2, PhaseStep DEF TryNewRoutes, DummyKept, Holds, Unbound, Started
<1>4. CASE OpenIcmp(p) \/ OpenUdp(p)
  <2>1. phase'[p] = "open" /\ method' = method
    BY <1>0, <1>4 DEF OpenIcmp, OpenUdp
  <2> QED
    BY <1>4, <2>1, BindStep DEF OpenIcmp, OpenUdp, Holds, Unbound
<1>5. CASE OpenTcp(p)
  <2>1. phase'[p] = "open" /\ method' = method
    BY <1>0, <1>5 DEF OpenTcp
  <2> QED
    BY <1>5, <2>1, PhaseStep DEF OpenTcp, Holds, Unbound, Started
<1> QED
  BY <1>1, <1>2, <1>3, <1>4, <1>5

\* The ends: a failure, the return of run() and that of main().
LEMMA EndInv ==
  ASSUME Inv, NEW p \in Procs, Fails(p) \/ Return(p) \/ MainReturns(p)
  PROVE  Inv'
<1>0. phase \in [Procs -> {"start", "bound", "built", "open", "report", "exit"}]
  BY DEF Inv, Types
<1>1. CASE Fails(p) \/ MainReturns(p)
  <2>1. phase'[p] = "exit" /\ method' = method
    BY <1>0, <1>1 DEF Fails, MainReturns, Exit
  <2>2. phase[p] \in {"start", "bound", "built", "open", "report"}
    BY <1>1 DEF Fails, MainReturns
  <2>3. Started(p) \/ Holds(p) \/ Unbound(p)
    BY <2>2 DEF Holds, Unbound, Started, Inv, OnlyTcpBinds
  <2> QED
    BY <1>1, <2>1, <2>3, PhaseStep DEF Fails, MainReturns, Exit, Holds, Unbound, Started
<1>2. CASE Return(p)
  <2>1. phase'[p] = "report" /\ method' = method /\ phase[p] = "open"
    BY <1>0, <1>2 DEF Return
  <2> QED
    BY <1>2, <2>1, PhaseStep DEF Return, Holds, Unbound, Started
<1> QED
  BY <1>1, <1>2

\* A probe is sent from the number that its process holds.
LEMMA SendInv ==
  ASSUME Inv, NEW p \in Procs, NEW i \in Probes, Send(p, i)
  PROVE  Inv'
<1> DEFINE w0 == [proc |-> p, probe |-> i, src |-> source[p]]
<1>1. /\ UNCHANGED <<phase, method, owned, source, result, before>>
      /\ phase[p] = "open" /\ wire' = wire \cup {w0}
      /\ sent' = [sent EXCEPT ![p] = @ \cup {i}]
  BY DEF Send
<1>2. Started(p) /\ Holds(p)
  BY <1>1 DEF Started, Holds
<1>3. source[p] \in Ports
  BY <1>2 DEF Inv, Reserved
<1>4. Types'
  BY <1>1, <1>3 DEF Inv, Types, Transmitted
<1>5. \A q : /\ Holds(q)' <=> Holds(q)
             /\ Unbound(q)' <=> Unbound(q)
             /\ Started(q)' <=> Started(q)
  BY <1>1 DEF Holds, Unbound, Started
<1>6. Reserved' /\ Exclusive' /\ Predecessors' /\ Nothing' /\ NoCrossTalk'
  BY <1>1, <1>5 DEF Inv, Reserved, Exclusive, Predecessors, Nothing, NoCrossTalk
<1>7. Genuine'
  BY <1>1, <1>2, <1>5 DEF Inv, Genuine
<1>8. OnlyTcpBinds'
  BY <1>1 DEF Inv, OnlyTcpBinds
<1> QED
  BY <1>4, <1>6, <1>7, <1>8 DEF Inv

\* A reply is recorded: it is one's own, or it comes late for one that ended.
LEMMA ReceiveInv ==
  ASSUME Inv, NEW p \in Procs, NEW w \in wire, Receive(p, w)
  PROVE  Inv'
<1>1. /\ UNCHANGED <<phase, method, owned, source, sent, wire, before>>
      /\ phase[p] = "open" /\ Delivered(p, w)
  BY DEF Receive
<1>2. PICK err_queue \in BOOLEAN :
        \E i \in Identified(p, w, err_queue) \cap sent[p] :
          result' = [result EXCEPT ![p][i] = {w}]
  BY DEF Receive
<1>3. PICK i \in Identified(p, w, err_queue) \cap sent[p] : result' = [result EXCEPT ![p][i] = {w}]
  BY <1>2
<1>4. /\ w \in Transmitted /\ w.proc \in Procs /\ i \in Probes
      /\ method[p] \in {"icmp", "udp", "tcp"}
  BY <1>3 DEF Inv, Types, Transmitted
<1>5. Holds(p) /\ Started(p) /\ source[p] \in Ports
  BY <1>1 DEF Holds, Started, Inv, Reserved
<1>6. i = w.probe /\ w.src = source[p]
  BY <1>1, <1>3, <1>4, <1>5, Takes
<1>7. w.proc = p \/ w.proc \in before[p]
  <2>1. Started(w.proc) /\ source[w.proc] = source[p] /\ method[w.proc] = method[p]
    BY <1>1, <1>6 DEF Inv, Genuine, Delivered
  <2> QED
    BY <1>4, <1>5, <2>1 DEF Inv, Predecessors
<1>8. /\ result' \in [Procs -> [Probes -> SUBSET Transmitted]]
      /\ result'[p][i] = {w}
      /\ \A q \in Procs, j \in Probes : q # p \/ j # i => result'[q][j] = result[q][j]
  BY <1>3, <1>4 DEF Inv, Types
<1>9. Types'
  BY <1>1, <1>8 DEF Inv, Types
<1>10. \A q : /\ Holds(q)' <=> Holds(q)
              /\ Unbound(q)' <=> Unbound(q)
              /\ Started(q)' <=> Started(q)
  BY <1>1 DEF Holds, Unbound, Started
<1>11. Reserved' /\ Exclusive' /\ Predecessors' /\ Genuine'
  BY <1>1, <1>10 DEF Inv, Reserved, Exclusive, Predecessors, Genuine
<1>12. Nothing'
  BY <1>5, <1>8, <1>10 DEF Inv, Nothing
<1>13. NoCrossTalk'
  <2> SUFFICES ASSUME NEW q \in Procs, NEW j \in Probes, NEW x \in result'[q][j]
               PROVE  \/ x.proc = q /\ x.probe = j
                      \/ x.proc \in before[q] /\ x.src = source[q]
    BY <1>1 DEF NoCrossTalk
  <2>1. CASE q = p /\ j = i
    BY <1>6, <1>7, <1>8, <2>1
  <2>2. CASE q # p \/ j # i
    BY <1>8, <2>2 DEF Inv, NoCrossTalk
  <2> QED
    BY <2>1, <2>2
<1>14. OnlyTcpBinds'
  BY <1>1 DEF Inv, OnlyTcpBinds
<1> QED
  BY <1>9, <1>11, <1>12, <1>13, <1>14 DEF Inv

\* Every step keeps the invariant.
LEMMA NextInv == Inv /\ [Next]_vars => Inv'
<1> SUFFICES ASSUME Inv, [Next]_vars PROVE Inv'
  OBVIOUS
<1>1. CASE UNCHANGED vars
  BY <1>1 DEF vars, Inv, Types, OnlyTcpBinds, Reserved, Exclusive, Predecessors, Genuine, Nothing,
     NoCrossTalk, Holds, Unbound, Started
<1>2. ASSUME NEW p \in Procs, Step(p) PROVE Inv'
  BY <1>2, OpenInv, EndInv, SendInv, ReceiveInv DEF Step
<1> QED
  BY <1>1, <1>2 DEF Next, AllExited

-----------------------------------------------------------------------------
(* The theorems.                                                           *)

\* The invariant holds in every state of the processes.
THEOREM InvCorrect == Spec => []Inv
  BY InitInv, NextInv, PTL DEF Spec

\* However many traces run at a time, and whatever ports they are given again, a
\* trace records only replies to its own probes, except late ones to a process
\* whose run() had ended when it got its port.
THEOREM NoCrossTalkCorrect == Spec => []NoCrossTalk
<1>1. Inv => NoCrossTalk
  BY DEF Inv
<1> QED
  BY <1>1, InvCorrect, PTL
=============================================================================
