----------------------------- MODULE MainProof -----------------------------
(***************************************************************************)
(* The proofs about Main: for all command lines, all answers of a resolver *)
(* and all results of a trace.                                             *)
(*                                                                         *)
(* The invariant says what each check has established by the time the      *)
(* program counter is past it, and how far the report is.                  *)
(***************************************************************************)
EXTENDS Main, FiniteSetTheorems, WellFoundedInduction, TLAPS

Elements(s) == {s[k] : k \in DOMAIN s}

\* The arguments, as far as they have been checked.
Checked ==
  /\ args \in Arguments
  /\ pc \in {"parse", "check", "target", "build", "trace", "print", "exit"}
  /\ pc \in {"check", "target", "build", "trace", "print"} => ClapAccepts(args)
  /\ pc \in {"target", "build", "trace", "print"} => ~HopsRefused
  /\ pc \in {"trace", "print"} => args.size >= M!min_packet_len

\* The target: none before it is looked for, one that matches after it is found.
Chosen ==
  /\ pc \in {"parse", "check", "target"} => target = {}
  /\ pc \in {"build", "trace", "print"} =>
       \E a \in target : target = {a} /\ ip_version_matches(a, args.ip_version)

\* The report: as many lines as hops were printed, and nothing before run().
Printed ==
  /\ pc # "print" /\ status # "ok" => row = 0
  /\ pc # "exit" => status = "none"
  /\ report \in Seq(Elements(report)) /\ Len(report) = row
  /\ \A r \in 1 .. row : report[r].ttl = args.first_hop + r - 1
  /\ pc = "print" => row < NumHops /\ \A r \in 0 .. row - 1 : ~RowTerminates(r)
  /\ status = "ok" => /\ row >= 1
                      /\ \A r \in 0 .. row - 2 : ~RowTerminates(r)
                      /\ row = NumHops \/ RowTerminates(row - 1)

Inv == Checked /\ Chosen /\ Printed
-----------------------------------------------------------------------------
(* The operators.                                                          *)

\* The fields of the arguments.
LEMMA ArgsFields ==
  ASSUME NEW a \in Arguments
  PROVE  /\ a.first_hop \in Nat /\ a.max_hops \in Nat /\ a.size \in Nat /\ a.count \in Nat
         /\ a.method \in {"icmp", "udp", "tcp"} /\ a.ip_version \in {"auto", "v4", "v6"}
BY ArgumentsAssumption DEF Args

\* What the checks leave of the arguments.
LEMMA CheckedFields ==
  ASSUME NEW a \in Arguments, ClapAccepts(a), ~(a.first_hop >= a.max_hops)
  PROVE  /\ a.first_hop \in 1 .. 254 /\ a.max_hops \in a.first_hop + 1 .. 255
         /\ a.count \in 1 .. 9
BY ArgsFields DEF ClapAccepts, HopInRange, CountInRange, MAX_PROBES_PER_HOP

\* The headers that a probe has to hold, by method and IP version.
LEMMA MinLen ==
  ASSUME args \in Arguments
  PROVE  /\ M!min_packet_len \in Nat
         /\ args.method # "tcp" =>
              /\ target_version = "v4" => M!min_packet_len = 28
              /\ target_version = "v6" => M!min_packet_len = 48
<1>1. args.method \in {"icmp", "udp", "tcp"}
  BY ArgsFields
<1> QED
  BY <1>1 DEF M!min_packet_len, target_version, M!IpHeaderLen, M!MIN_IPV4_HEADER_LEN,
     M!IPV6_HEADER_LENGTH, M!ECHO_HEADER_LEN, M!UDP_HEADER_LEN

\* Append, for a sequence of anything.
LEMMA AppendLine ==
  ASSUME NEW s, s \in Seq(Elements(s)), NEW e
  PROVE  /\ Append(s, e) \in Seq(Elements(Append(s, e)))
         /\ Len(Append(s, e)) = Len(s) + 1
         /\ \A k \in 1 .. Len(s) : Append(s, e)[k] = s[k]
         /\ Append(s, e)[Len(s) + 1] = e
<1> DEFINE S == Elements(s) \cup {e}
           t == Append(s, e)
<1>1. s \in Seq(S)
  BY DEF Elements
<1>2. /\ t \in Seq(S) /\ Len(t) = Len(s) + 1 /\ Len(s) \in Nat
      /\ \A k \in 1 .. Len(s) : t[k] = s[k]
      /\ t[Len(s) + 1] = e
  BY <1>1
<1>3. t \in Seq(Elements(t))
  BY <1>2 DEF Elements
<1> QED
  BY <1>2, <1>3

\* A set of numbers that is not empty has a least element.
LEMMA Least ==
  ASSUME NEW T, T \subseteq Nat, T # {}
  PROVE  \E k \in T : \A j \in T : k <= j
<1>1. PICK k \in T : \A j \in T : ~(<<j, k>> \in OpToRel(<, Nat))
  BY NatLessThanWellFounded, WFMin
<1>2. \A j \in T : ~(j < k)
  BY <1>1 DEF OpToRel
<1> QED
  BY <1>2

\* find() gives the first answer of the wanted version, and nothing only when
\* there is none.
LEMMA FindFirst ==
  ASSUME NEW s \in Seq(Address), NEW want
  PROVE  \/ /\ Find(s, want) = {}
            /\ \A k \in DOMAIN s : ~ip_version_matches(s[k], want)
         \/ \E k \in DOMAIN s :
              /\ Find(s, want) = {s[k]}
              /\ ip_version_matches(s[k], want)
              /\ \A j \in 1 .. k - 1 : ~ip_version_matches(s[j], want)
<1> DEFINE T == {k \in DOMAIN s : ip_version_matches(s[k], want)}
<1>0. DOMAIN s = 1 .. Len(s) /\ Len(s) \in Nat
  OBVIOUS
<1>1. CASE T = {}
  BY <1>1 DEF Find
<1>2. CASE T # {}
  <2>1. T \subseteq Nat
    BY <1>0
  <2> HIDE DEF T
  <2>2. PICK k \in T : \A j \in T : k <= j
    BY <1>2, <2>1, Least
  <2> USE DEF T
  <2>3. k \in DOMAIN s /\ k \in Nat /\ k >= 1 /\ k <= Len(s)
    BY <1>0, <2>2
  <2>4. \A j \in 1 .. k - 1 : ~ip_version_matches(s[j], want)
    BY <1>0, <2>2, <2>3
  <2>5. \A j \in T : (\A i \in 1 .. j - 1 : ~ip_version_matches(s[i], want)) => j = k
    <3> SUFFICES ASSUME NEW j \in T, \A i \in 1 .. j - 1 : ~ip_version_matches(s[i], want)
                 PROVE  j = k
      OBVIOUS
    <3>1. j \in Nat /\ k <= j
      BY <2>1, <2>2
    <3>2. ~(k \in 1 .. j - 1)
      BY <2>2
    <3> QED
      BY <2>3, <3>1, <3>2
  <2>6. Find(s, want) = {s[k]}
    BY <2>2, <2>4, <2>5 DEF Find
  <2> QED
    BY <2>2, <2>3, <2>4, <2>6
<1> QED
  BY <1>1, <1>2

-----------------------------------------------------------------------------
(* The steps.                                                              *)

\* The initial states satisfy the invariant.
LEMMA InitInv == Init => Inv
<1> SUFFICES ASSUME Init PROVE Inv
  OBVIOUS
<1>1. Checked
  BY DEF Init, Checked
<1>2. Chosen
  BY DEF Init, Chosen
<1>3. Printed
  BY DEF Init, Printed, Elements
<1> QED
  BY <1>1, <1>2, <1>3 DEF Inv

\* A step that prints nothing keeps what was printed.
LEMMA PrintedKept ==
  ASSUME Inv, UNCHANGED <<args, report, row>>,
         pc # "print", pc' # "print", status = "none", status' # "ok",
         pc' # "exit" => status' = "none"
  PROVE  Printed'
<1>1. row = 0
  BY DEF Inv, Printed
<1> QED
  BY <1>1 DEF Inv, Printed

\* The checks of the command line before the target is looked for.
LEMMA CheckInv == Inv /\ (Parse \/ CheckHops) => Inv'
<1> SUFFICES ASSUME Inv, Parse \/ CheckHops PROVE Inv'
  OBVIOUS
<1>0. UNCHANGED <<args, target, probes, row, column, last_source, line, report>>
  BY DEF Parse, CheckHops, printer
<1>1. Checked'
  BY DEF Inv, Checked, Parse, CheckHops, Exit, HopsRefused
<1>2. Chosen'
  BY <1>0 DEF Inv, Chosen, Parse, CheckHops, Exit
<1>3. Printed'
  <2>1. /\ pc # "print" /\ pc' # "print" /\ pc # "exit" /\ status' # "ok"
        /\ pc' # "exit" => status' = "none"
    BY DEF Inv, Printed, Parse, CheckHops, Exit
  <2> QED
    BY <1>0, <2>1, PrintedKept DEF Inv, Printed
<1> QED
  BY <1>1, <1>2, <1>3 DEF Inv

\* The ways to a target: taken from the command line, found or not found.
LEMMA TargetInv == Inv /\ (UseLiteral \/ Lookup \/ LookupFails) => Inv'
<1> SUFFICES ASSUME Inv, UseLiteral \/ Lookup \/ LookupFails PROVE Inv'
  OBVIOUS
<1>0. /\ UNCHANGED <<args, probes, row, column, last_source, line, report>>
      /\ pc = "target" /\ pc' \in {"build", "exit"} /\ status' # "ok"
      /\ pc' # "exit" => status' = status
      /\ target = {}
  <2>1. CASE UseLiteral
    BY <2>1 DEF UseLiteral, printer, Exit, Inv, Chosen, Printed
  <2>2. CASE Lookup
    BY <2>2 DEF Lookup, printer, Exit, Inv, Chosen, Printed
  <2>3. CASE LookupFails
    BY <2>3 DEF LookupFails, printer, Exit, Inv, Chosen
  <2> QED
    BY <2>1, <2>2, <2>3
<1>1. Checked'
  BY <1>0 DEF Inv, Checked, HopsRefused
<1>2. Printed'
  BY <1>0, PrintedKept DEF Inv, Printed
<1>3. Chosen'
  <2>1. CASE UseLiteral
    BY <1>0, <2>1 DEF UseLiteral, Chosen, Exit
  <2>2. CASE LookupFails
    BY <1>0, <2>2 DEF LookupFails, Chosen, Exit
  <2>3. CASE Lookup
    <3>1. PICK answers \in Lookups : target' = Find(answers, args.ip_version)
      BY <2>3 DEF Lookup
    <3>2. answers \in Seq(Address) /\ (target' = {} => pc' = "exit")
      BY <2>3, LookupsAssumption DEF Lookup, Exit
    <3>3. target' # {} => \E a \in target' : target' = {a} /\ ip_version_matches(a, args.ip_version)
      BY <3>1, <3>2, FindFirst
    <3> QED
      BY <1>0, <3>2, <3>3 DEF Chosen
  <2> QED
    BY <2>1, <2>2, <2>3
<1> QED
  BY <1>1, <1>2, <1>3 DEF Inv

\* The method is built, or is not, and run() is called and fails.
LEMMA BuildInv == Inv /\ (Build \/ BuildFails \/ RunFails) => Inv'
<1> SUFFICES ASSUME Inv, Build \/ BuildFails \/ RunFails PROVE Inv'
  OBVIOUS
<1>0. /\ UNCHANGED <<args, target, probes, row, column, last_source, line, report>>
      /\ pc \in {"build", "trace"} /\ pc' \in {"trace", "exit"} /\ status' # "ok"
      /\ pc' # "exit" => status' = status
  <2>1. CASE Build
    BY <2>1 DEF Build, printer, Exit, Inv, Printed
  <2>2. CASE BuildFails
    BY <2>2 DEF BuildFails, printer, Exit
  <2>3. CASE RunFails
    BY <2>3 DEF RunFails, printer, Exit
  <2> QED
    BY <2>1, <2>2, <2>3
<1>1. Checked'
  <2>1. pc' = "trace" => args.size >= M!min_packet_len /\ pc = "build"
    <3>1. args.size \in Nat /\ M!min_packet_len \in Nat
      BY ArgsFields, MinLen DEF Inv, Checked
    <3> QED
      BY <3>1 DEF Build, BuildFails, RunFails, Exit, Inv, Checked
  <2>2. M!min_packet_len' = M!min_packet_len
    BY <1>0 DEF M!min_packet_len, target_version, M!IpHeaderLen
  <2> QED
    BY <1>0, <2>1, <2>2 DEF Inv, Checked, HopsRefused
<1>2. Printed'
  BY <1>0, PrintedKept DEF Inv, Printed
<1>3. Chosen'
  BY <1>0 DEF Inv, Chosen
<1> QED
  BY <1>1, <1>2, <1>3 DEF Inv

\* run() returns: printing starts with the first hop.
LEMMA ReturnsInv == Inv /\ RunReturns => Inv'
<1> SUFFICES ASSUME Inv, RunReturns PROVE Inv'
  OBVIOUS
<1>0. /\ UNCHANGED <<status, args, target, row, report>>
      /\ pc = "trace" /\ pc' = "print" /\ status = "none" /\ row = 0
  BY DEF RunReturns, Inv, Printed
<1>1. Checked'
  <2>1. M!min_packet_len' = M!min_packet_len
    BY <1>0 DEF M!min_packet_len, target_version, M!IpHeaderLen
  <2> QED
    BY <1>0, <2>1 DEF Inv, Checked, HopsRefused
<1>2. Chosen'
  BY <1>0 DEF Inv, Chosen
<1>3. Printed'
  <2>1. args.first_hop \in Nat /\ args.max_hops \in Nat /\ args.first_hop < args.max_hops
    BY <1>0, ArgsFields DEF Inv, Checked, HopsRefused
  <2>2. 0 < NumHops'
    BY <1>0, <2>1 DEF NumHops
  <2>3. /\ report' \in Seq(Elements(report')) /\ Len(report') = row'
        /\ \A r \in 1 .. row' : report'[r].ttl = args'.first_hop + r - 1
    BY <1>0 DEF Inv, Printed
  <2> QED
    BY <1>0, <2>2, <2>3 DEF Printed
<1> QED
  BY <1>1, <1>2, <1>3 DEF Inv

\* A probe is printed in the current line.
LEMMA ProbeInv == Inv /\ PrintProbe => Inv'
<1> SUFFICES ASSUME Inv, PrintProbe PROVE Inv'
  OBVIOUS
<1>0. UNCHANGED <<pc, status, args, target, probes, row, report>>
  BY DEF PrintProbe
<1>1. Checked'
  <2>1. M!min_packet_len' = M!min_packet_len
    BY <1>0 DEF M!min_packet_len, target_version, M!IpHeaderLen
  <2> QED
    BY <1>0, <2>1 DEF Inv, Checked, HopsRefused
<1>2. Chosen'
  BY <1>0 DEF Inv, Chosen
<1>3. Printed'
  BY <1>0 DEF Inv, Printed, NumHops, RowTerminates, RowProbes
<1> QED
  BY <1>1, <1>2, <1>3 DEF Inv

\* A line is ended: the report grows by one hop, and stops where the target was
\* reached or at the last one.
LEMMA HopInv == Inv /\ EndHop => Inv'
<1> SUFFICES ASSUME Inv, EndHop PROVE Inv'
  OBVIOUS
<1>0. /\ UNCHANGED <<args, target, probes>>
      /\ pc = "print" /\ status = "none" /\ row' = row + 1
      /\ report' = Append(report, [ttl |-> args.first_hop + row, tokens |-> line])
  BY DEF EndHop, Inv, Printed
<1>1. Checked'
  <2>1. M!min_packet_len' = M!min_packet_len
    BY <1>0 DEF M!min_packet_len, target_version, M!IpHeaderLen
  <2> QED
    BY <1>0, <2>1 DEF Inv, Checked, HopsRefused, EndHop, Exit
<1>2. Chosen'
  BY <1>0 DEF Inv, Chosen, EndHop, Exit
<1>3. Printed'
  <2>0. /\ \A r : RowTerminates(r)' <=> RowTerminates(r)
        /\ NumHops' = NumHops
    BY <1>0 DEF RowTerminates, RowProbes, NumHops
  <2>1. /\ row \in Nat /\ row = Len(report) /\ NumHops \in Int /\ row < NumHops
        /\ args.first_hop \in Nat
    <3>1. args.first_hop \in Nat /\ args.max_hops \in Nat
      BY ArgsFields DEF Inv, Checked
    <3>2. report \in Seq(Elements(report)) /\ row = Len(report) /\ row < NumHops
      BY <1>0 DEF Inv, Printed
    <3>3. Len(report) \in Nat
      BY <3>2
    <3> QED
      BY <3>1, <3>2, <3>3 DEF NumHops
  <2>2. /\ report' \in Seq(Elements(report')) /\ Len(report') = row'
        /\ \A k \in 1 .. row : report'[k] = report[k]
        /\ report'[row + 1].ttl = args.first_hop + row
    <3>1. report \in Seq(Elements(report))
      BY DEF Inv, Printed
    <3> QED
      BY <1>0, <2>1, <3>1, AppendLine
  <2>3. \A r \in 1 .. row' : report'[r].ttl = args'.first_hop + r - 1
    <3> SUFFICES ASSUME NEW r \in 1 .. row + 1
                 PROVE  report'[r].ttl = args.first_hop + r - 1
      BY <1>0
    <3>1. CASE r = row + 1
      BY <2>1, <2>2, <3>1
    <3>2. CASE r # row + 1
      <4>1. r \in 1 .. row
        BY <2>1, <3>2
      <4> QED
        BY <2>2, <4>1 DEF Inv, Printed
    <3> QED
      BY <3>1, <3>2
  <2>4. \A r \in 0 .. row - 1 : ~RowTerminates(r)
    BY <1>0 DEF Inv, Printed
  <2>5. CASE RowTerminates(row) \/ row + 1 = NumHops
    <3>1. pc' = "exit" /\ status' = "ok"
      BY <2>5 DEF EndHop, Exit
    <3>2. \A r \in 0 .. row' - 2 : ~RowTerminates(r)
      BY <1>0, <2>1, <2>4
    <3>3. row' >= 1 /\ (row' = NumHops \/ RowTerminates(row' - 1))
      <4>1. row' - 1 = row
        BY <1>0, <2>1
      <4> QED
        BY <1>0, <2>1, <2>5, <4>1
    <3>4. RowTerminates(row' - 1) => RowTerminates(row - 1)'
      BY <1>0 DEF RowTerminates, RowProbes
    <3>5. (\A r \in 0 .. row - 2 : ~RowTerminates(r))'
      BY <1>0, <3>2 DEF RowTerminates, RowProbes
    <3> QED
      BY <2>0, <2>2, <2>3, <3>1, <3>3, <3>4, <3>5 DEF Printed
  <2>6. CASE ~(RowTerminates(row) \/ row + 1 = NumHops)
    <3>1. pc' = "print" /\ status' = "none"
      BY <1>0, <2>6 DEF EndHop
    <3>2. \A r \in 0 .. row' - 1 : ~RowTerminates(r)
      <4> SUFFICES ASSUME NEW r \in 0 .. row' - 1 PROVE ~RowTerminates(r)
        OBVIOUS
      <4>1. r = row \/ r \in 0 .. row - 1
        BY <1>0, <2>1
      <4> QED
        BY <2>4, <2>6, <4>1
    <3>3. row' < NumHops
      BY <1>0, <2>1, <2>6
    <3>4. (\A r \in 0 .. row - 1 : ~RowTerminates(r))'
      BY <1>0, <3>2 DEF RowTerminates, RowProbes
    <3> QED
      BY <2>0, <2>2, <2>3, <3>1, <3>3, <3>4 DEF Printed
  <2> QED
    BY <2>5, <2>6
<1> QED
  BY <1>1, <1>2, <1>3 DEF Inv

\* Every step keeps the invariant.
LEMMA NextInv == Inv /\ [Next]_vars => Inv'
<1>1. Inv /\ UNCHANGED vars => Inv'
  <2> SUFFICES ASSUME Inv, UNCHANGED vars PROVE Inv'
    OBVIOUS
  <2>1. M!min_packet_len' = M!min_packet_len
    BY DEF M!min_packet_len, target_version, M!IpHeaderLen, vars
  <2>2. Checked'
    BY <2>1 DEF Inv, Checked, HopsRefused, vars
  <2>3. Chosen'
    BY DEF Inv, Chosen, vars
  <2>4. Printed'
    BY DEF Inv, Printed, NumHops, RowTerminates, RowProbes, vars
  <2> QED
    BY <2>2, <2>3, <2>4 DEF Inv
<1> QED
  BY <1>1, CheckInv, TargetInv, BuildInv, ReturnsInv, ProbeInv, HopInv DEF Next, Ended

-----------------------------------------------------------------------------
(* Finding a probe again.                                                  *)

\* The largest trace that the command line admits.
LEMMA ProbeBound ==
  ASSUME Inv, pc = "trace"
  PROVE  /\ NumProbes \in Nat /\ NumProbes <= 2295
         /\ args.method \in {"icmp", "udp", "tcp"} /\ args.size \in Nat
         /\ args.size >= M!min_packet_len
<1>1. /\ args \in Arguments /\ ClapAccepts(args) /\ ~(args.first_hop >= args.max_hops)
      /\ args.size >= M!min_packet_len
  BY DEF Inv, Checked, HopsRefused
<1>2. /\ args.first_hop \in 1 .. 254 /\ args.max_hops \in args.first_hop + 1 .. 255
      /\ args.count \in 1 .. 9
  BY <1>1, CheckedFields
<1>3. NumHops \in 2 .. 255
  <2>1. /\ args.first_hop \in Int /\ args.first_hop >= 1
        /\ args.max_hops \in Int /\ args.max_hops >= args.first_hop + 1 /\ args.max_hops <= 255
    BY <1>2
  <2> QED
    BY <2>1 DEF NumHops
<1>4. NumProbes \in Nat /\ NumProbes <= 2295
  <2>1. args.count \in {1, 2, 3, 4, 5, 6, 7, 8, 9}
    BY <1>2
  <2> QED
    BY <1>3, <2>1 DEF NumProbes
<1> QED
  BY <1>1, <1>4, ArgsFields

\* The target's reply leads back to its probe.
LEMMA TargetReplyFound ==
  ASSUME Inv, pc = "trace", NEW i \in 0 .. NumProbes - 1,
         NEW err_queue \in BOOLEAN, ~err_queue
  PROVE  M!identify(err_queue, M!TargetReply(M!probe(i))) = {i}
<1>1. i \in Nat /\ i <= 2294
  BY ProbeBound
<1>2. M!START_PORT = 33434 /\ M!DEST_PORT = 80
  BY DEF M!START_PORT, M!DEST_PORT
<1> DEFINE r == M!TargetReply(M!probe(i))
<1>3. CASE args.method = "icmp"
  <2>1. M!probe(i).seq = i
    BY <1>1, <1>3 DEF M!probe, M!IcmpProbe
  <2>2. M!max_reply_len >= 8
    BY <1>3, ProbeBound, MinLen DEF M!max_reply_len, M!payload_len, M!ECHO_HEADER_LEN, Inv, Checked
  <2>3. r.quoted.bytes = M!max_reply_len /\ r.quoted.seq = i
    BY <2>1 DEF M!TargetReply
  <2>4. M!sequence(r) = {i}
    BY <2>2, <2>3 DEF M!sequence
  <2> QED
    BY <1>3, <2>4 DEF M!identify
<1>4. CASE args.method = "udp"
  <2>1. M!probe(i).dport = 33434 + i
    BY <1>1, <1>2, <1>4 DEF M!probe, M!UdpProbe, M!UdpPort
  <2>2. r.source = {[ip |-> 0, port |-> 33434 + i]}
    BY <2>1 DEF M!TargetReply
  <2>3. M!checked_sub(33434 + i, 33434) = {i}
    BY <1>1 DEF M!checked_sub
  <2>4. M!IdentifyUdpReply(r) = {i}
    <3> DEFINE S == {s \in r.source : s.ip = 0}
               a == [ip |-> 0, port |-> 33434 + i]
    <3>1. S = {a} /\ a.port = 33434 + i
      BY <2>2
    <3>2. M!IdentifyUdpReply(r) = UNION {M!checked_sub(s.port, 33434) : s \in S}
      BY <1>2 DEF M!IdentifyUdpReply
    <3> HIDE DEF S, a
    <3> QED
      BY <2>3, <3>1, <3>2
  <2> QED
    BY <1>4, <2>4 DEF M!identify
<1>5. CASE args.method = "tcp"
  <2>1. M!probe(i) = [sport |-> 40000, dport |-> 80, seq |-> i]
    BY <1>2, <1>5 DEF M!probe, M!TcpProbe
  <2>2. /\ r.source = {[ip |-> 0, port |-> 80]}
        /\ r.quoted.sport = 80 /\ r.quoted.dport = 40000 /\ r.quoted.ack = i + 1
        /\ r.quoted.bytes = M!max_reply_len
    BY <2>1 DEF M!TargetReply
  <2>3. M!WholeTcpHeader(M!max_reply_len)
    BY <1>5 DEF M!WholeTcpHeader, M!max_reply_len, M!MIN_IPV4_HEADER_LEN, M!TCP_MIN_HEADER_LEN
  <2>4. M!checked_sub(i + 1, 1) = {i} /\ M!u16_try_from(i) = {i}
    BY <1>1 DEF M!checked_sub, M!u16_try_from, M!U16
  <2>5. M!IdentifyTcpReply(r) = {i}
    <3> DEFINE S == {s \in r.source : /\ s.ip = 0
                                      /\ M!WholeTcpHeader(r.quoted.bytes)
                                      /\ <<r.quoted.sport, r.quoted.dport>> = <<M!DEST_PORT, 40000>>}
               U == UNION {M!u16_try_from(n) : n \in M!checked_sub(r.quoted.ack, 1)}
    <3>1. S = {[ip |-> 0, port |-> 80]}
      BY <1>2, <2>2, <2>3
    <3>2. U = {i}
      BY <2>2, <2>4
    <3>3. M!IdentifyTcpReply(r) = UNION {U : a \in S}
      BY DEF M!IdentifyTcpReply
    <3> HIDE DEF S, U
    <3> QED
      BY <3>1, <3>2, <3>3
  <2> QED
    BY <1>5, <2>5 DEF M!identify
<1>6. args.method \in {"icmp", "udp", "tcp"}
  BY ProbeBound
<1> HIDE DEF r
<1> QED
  BY <1>3, <1>4, <1>5, <1>6

\* A router's error leads back to the probe it quotes.
LEMMA RouterReplyFound ==
  ASSUME Inv, pc = "trace", NEW i \in 0 .. NumProbes - 1, NEW e,
         NEW err_queue \in BOOLEAN, err_queue
  PROVE  M!identify(err_queue, M!RouterReply(M!probe(i), e)) = {i}
<1>1. i \in Nat /\ i <= 2294
  BY ProbeBound
<1>2. M!START_PORT = 33434 /\ M!DEST_PORT = 80
  BY DEF M!START_PORT, M!DEST_PORT
<1> DEFINE r == M!RouterReply(M!probe(i), e)
<1>3. CASE args.method = "icmp"
  <2>1. M!probe(i).seq = i
    BY <1>1, <1>3 DEF M!probe, M!IcmpProbe
  <2>2. r.quoted.bytes = 8 /\ r.quoted.seq = i
    BY <2>1 DEF M!RouterReply
  <2>3. M!sequence(r) = {i}
    BY <2>2 DEF M!sequence
  <2> QED
    BY <1>3, <2>3 DEF M!identify
<1>4. CASE args.method = "udp"
  <2>1. M!probe(i).dport = 33434 + i
    BY <1>1, <1>2, <1>4 DEF M!probe, M!UdpProbe, M!UdpPort
  <2>2. r.destination = {[ip |-> 0, port |-> 33434 + i]}
    BY <2>1 DEF M!RouterReply
  <2>3. M!checked_sub(33434 + i, 33434) = {i}
    BY <1>1 DEF M!checked_sub
  <2>4. M!IdentifyUdpError(r) = {i}
    BY <1>2, <2>2, <2>3 DEF M!IdentifyUdpError
  <2> QED
    BY <1>4, <2>4 DEF M!identify
<1>5. CASE args.method = "tcp"
  <2>1. M!probe(i) = [sport |-> 40000, dport |-> 80, seq |-> i]
    BY <1>2, <1>5 DEF M!probe, M!TcpProbe
  <2>2. r.quoted.bytes = 8 /\ r.quoted.sport = 40000 /\ r.quoted.seq = i
    BY <2>1 DEF M!RouterReply
  <2>3. M!IdentifyTcpError(r) = {i}
    BY <1>1, <2>2 DEF M!IdentifyTcpError, M!u16_try_from, M!U16
  <2> QED
    BY <1>5, <2>3 DEF M!identify
<1>6. args.method \in {"icmp", "udp", "tcp"}
  BY ProbeBound
<1> HIDE DEF r
<1> QED
  BY <1>3, <1>4, <1>5, <1>6

-----------------------------------------------------------------------------
(* Reading a line back.                                                    *)

\* The probe tokens of a sequence are finite in number.
LEMMA TokensFinite ==
  ASSUME NEW t, t \in Seq(Elements(t))
  PROVE  /\ IsFiniteSet(ProbeTokens(t))
         /\ ProbeTokens(t) \subseteq 1 .. Len(t) /\ Len(t) \in Nat
<1>1. Len(t) \in Nat /\ DOMAIN t = 1 .. Len(t)
  OBVIOUS
<1>2. ProbeTokens(t) \subseteq 1 .. Len(t)
  BY <1>1 DEF ProbeTokens
<1>3. IsFiniteSet(1 .. Len(t))
  BY <1>1, FS_Interval
<1> QED
  BY <1>1, <1>2, <1>3, FS_Subset

\* What is appended to a line changes nothing of how its beginning is read.
LEMMA BeginningKept ==
  ASSUME NEW t, t \in Seq(Elements(t)), NEW e, NEW k \in 1 .. Len(t)
  PROVE  /\ SourceBefore(Append(t, e), k) = SourceBefore(t, k)
         /\ ReadBack(Append(t, e), k) = ReadBack(t, k)
         /\ Nth(Append(t, e), k) = Nth(t, k)
         /\ k \in ProbeTokens(Append(t, e)) <=> k \in ProbeTokens(t)
<1> DEFINE u == Append(t, e)
<1>1. /\ u \in Seq(Elements(u)) /\ Len(u) = Len(t) + 1 /\ Len(t) \in Nat
      /\ \A j \in 1 .. Len(t) : u[j] = t[j]
  BY AppendLine
<1>2. DOMAIN u = 1 .. Len(t) + 1 /\ DOMAIN t = 1 .. Len(t)
  BY <1>1
<1> HIDE DEF u
<1>3. \A j \in 1 .. Len(t) : j \in ProbeTokens(u) <=> j \in ProbeTokens(t)
  BY <1>1, <1>2 DEF ProbeTokens
<1>4. \A j \in 1 .. k : j \in 1 .. Len(t)
  BY <1>1
<1>5. SourceBefore(u, k) = SourceBefore(t, k)
  <2> DEFINE A(s) == {n \in 1 .. k : /\ s[n].token = "source"
                                     /\ \A l \in n + 1 .. k : s[l].token # "source"}
  <2>1. \A n \in 1 .. k : \A l \in n + 1 .. k : l \in 1 .. k
    BY <1>1
  <2>2. A(u) = A(t)
    BY <1>1, <1>4, <2>1
  <2>3. \A n \in A(t) : u[n].text = t[n].text
    BY <1>1, <1>4
  <2>4. SourceBefore(u, k) = {u[j].text : j \in A(u)} /\ SourceBefore(t, k) = {t[j].text : j \in A(t)}
    BY DEF SourceBefore
  <2> HIDE DEF A
  <2> QED
    BY <2>2, <2>3, <2>4
<1>6. Nth(u, k) = Nth(t, k)
  <2>1. {j \in ProbeTokens(u) : j <= k} = {j \in ProbeTokens(t) : j <= k}
    <3>1. \A j \in ProbeTokens(u) : j \in 1 .. Len(t) + 1
      BY <1>2 DEF ProbeTokens
    <3>2. \A j \in ProbeTokens(t) : j \in 1 .. Len(t)
      BY <1>2 DEF ProbeTokens
    <3> QED
      BY <1>1, <1>3, <3>1, <3>2
  <2> QED
    BY <2>1 DEF Nth
<1>7. ReadBack(u, k) = ReadBack(t, k)
  BY <1>1, <1>5 DEF ReadBack
<1> QED
  BY <1>3, <1>5, <1>6, <1>7 DEF u

\* A source token is no probe, and is the source of what follows.
LEMMA SourceAppended ==
  ASSUME NEW t, t \in Seq(Elements(t)), NEW e, e.token = "source",
         NEW first, NEW n, Readable(t, first, n)
  PROVE  /\ Readable(Append(t, e), first, n)
         /\ SourceBefore(Append(t, e), Len(t) + 1) = {e.text}
<1> DEFINE u == Append(t, e)
<1>1. /\ u \in Seq(Elements(u)) /\ Len(u) = Len(t) + 1 /\ Len(t) \in Nat
      /\ \A j \in 1 .. Len(t) : u[j] = t[j]
      /\ u[Len(t) + 1] = e
  BY AppendLine
<1>2. DOMAIN u = 1 .. Len(t) + 1 /\ DOMAIN t = 1 .. Len(t)
  BY <1>1
<1>3. ProbeTokens(u) = ProbeTokens(t) /\ ProbeTokens(t) \subseteq 1 .. Len(t)
  BY <1>1, <1>2 DEF ProbeTokens
<1>4. \A k \in 1 .. Len(t) : ReadBack(u, k) = ReadBack(t, k) /\ Nth(u, k) = Nth(t, k)
  BY BeginningKept
<1> HIDE DEF u
<1>5. Readable(u, first, n)
  BY <1>3, <1>4 DEF Readable
<1>6. SourceBefore(u, Len(t) + 1) = {e.text}
  <2> DEFINE k == Len(t) + 1
             A == {m \in 1 .. k : /\ u[m].token = "source"
                                  /\ \A l \in m + 1 .. k : u[l].token # "source"}
  <2>1. A = {k}
    <3>1. k \in A
      BY <1>1
    <3>2. \A m \in 1 .. k : m # k => k \in m + 1 .. k
      BY <1>1
    <3> QED
      BY <1>1, <3>1, <3>2
  <2>2. SourceBefore(u, k) = {u[j].text : j \in A}
    BY DEF SourceBefore
  <2> HIDE DEF A
  <2> QED
    BY <1>1, <2>1, <2>2
<1> QED
  BY <1>5, <1>6 DEF u

\* A time or a star is the next probe, and the source stays what it was.
LEMMA ProbeAppended ==
  ASSUME NEW t, t \in Seq(Elements(t)), NEW e, e.token # "source",
         NEW first \in Nat, NEW n \in Nat, Readable(t, first, n),
         {Printable(x) : x \in probes[first + n]} =
           IF e.token = "star" THEN {} ELSE {<<SourceBefore(t, Len(t)), e.text>>}
  PROVE  /\ Readable(Append(t, e), first, n + 1)
         /\ SourceBefore(Append(t, e), Len(t) + 1) = SourceBefore(t, Len(t))
<1> DEFINE u == Append(t, e)
           last == Len(t) + 1
<1>1. /\ u \in Seq(Elements(u)) /\ Len(u) = last /\ Len(t) \in Nat
      /\ \A j \in 1 .. Len(t) : u[j] = t[j]
      /\ u[last] = e
  BY AppendLine
<1>2. DOMAIN u = 1 .. last /\ DOMAIN t = 1 .. Len(t)
  BY <1>1
<1>3. ProbeTokens(u) = ProbeTokens(t) \cup {last} /\ ProbeTokens(t) \subseteq 1 .. Len(t)
  BY <1>1, <1>2 DEF ProbeTokens
<1>4. \A k \in 1 .. Len(t) : ReadBack(u, k) = ReadBack(t, k) /\ Nth(u, k) = Nth(t, k)
  BY BeginningKept
<1> HIDE DEF u
<1>5. Cardinality(ProbeTokens(u)) = n + 1
  <2>1. IsFiniteSet(ProbeTokens(t)) /\ last \notin ProbeTokens(t)
    BY <1>1, <1>3, TokensFinite
  <2>2. Cardinality(ProbeTokens(t)) = n
    BY DEF Readable
  <2> QED
    BY <1>3, <2>1, <2>2, FS_AddElement
<1>6. Nth(u, last) = n + 1
  <2>1. {j \in ProbeTokens(u) : j <= last} = ProbeTokens(u)
    BY <1>1, <1>3
  <2> QED
    BY <1>5, <2>1 DEF Nth
<1>7. SourceBefore(u, last) = SourceBefore(t, Len(t))
  <2> DEFINE A == {m \in 1 .. last : /\ u[m].token = "source"
                                     /\ \A l \in m + 1 .. last : u[l].token # "source"}
             B == {m \in 1 .. Len(t) : /\ t[m].token = "source"
                                       /\ \A l \in m + 1 .. Len(t) : t[l].token # "source"}
  <2>1. A = B
    <3>1. \A m \in A : m \in B
      <4> SUFFICES ASSUME NEW m \in A PROVE m \in B
        OBVIOUS
      <4>1. m # last /\ m \in 1 .. Len(t)
        BY <1>1
      <4>2. \A l \in m + 1 .. Len(t) : l \in m + 1 .. last /\ l \in 1 .. Len(t)
        BY <1>1, <4>1
      <4> QED
        BY <1>1, <4>1, <4>2
    <3>2. \A m \in B : m \in A
      <4> SUFFICES ASSUME NEW m \in B, NEW l \in m + 1 .. last
                   PROVE  u[l].token # "source"
        BY <1>1
      <4>1. CASE l = last
        BY <1>1, <4>1
      <4>2. CASE l # last
        <5>1. l \in m + 1 .. Len(t) /\ l \in 1 .. Len(t)
          BY <1>1, <4>2
        <5> QED
          BY <1>1, <5>1
      <4> QED
        BY <4>1, <4>2
    <3> QED
      BY <3>1, <3>2
  <2>2. \A m \in B : u[m].text = t[m].text
    BY <1>1
  <2>3. SourceBefore(u, last) = {u[j].text : j \in A} /\ SourceBefore(t, Len(t)) = {t[j].text : j \in B}
    BY DEF SourceBefore
  <2> HIDE DEF A, B
  <2> QED
    BY <2>1, <2>2, <2>3
<1>8. ReadBack(u, last) = {Printable(x) : x \in probes[first + n]}
  BY <1>1, <1>7 DEF ReadBack
<1>9. Readable(u, first, n + 1)
  <2> SUFFICES ASSUME NEW k \in ProbeTokens(u)
               PROVE  ReadBack(u, k) = {Printable(x) : x \in probes[first + Nth(u, k) - 1]}
    BY <1>5 DEF Readable
  <2>1. CASE k = last
    <3>1. first + Nth(u, k) - 1 = first + n
      BY <1>6, <2>1
    <3> QED
      BY <1>8, <2>1, <3>1
  <2>2. CASE k # last
    BY <1>3, <1>4, <2>2 DEF Readable
  <2> QED
    BY <2>1, <2>2
<1> QED
  BY <1>7, <1>9 DEF u

\* What was printed can be read back: the lines of the report, and the current
\* one as far as it is, whose last source is last_source.
Reading ==
  /\ pc # "print" /\ status # "ok" => line = <<>> /\ column = 0 /\ last_source = {}
  /\ line \in Seq(Elements(line))
  /\ pc = "print" =>
       /\ probes \in [0 .. NumProbes - 1 -> {{}} \cup {{x} : x \in Results}]
       /\ column \in 0 .. args.count
       /\ Readable(line, row * args.count, column)
       /\ \A s \in last_source : SourceBefore(line, Len(line)) = {SourceToken(s).text}
  /\ ReportReadable

\* Reading depends on what was printed and on the results only.
LEMMA ReadingKept ==
  ASSUME Reading, UNCHANGED <<args, probes, row, column, last_source, line, report>>,
         pc' = "print" => pc = "print", pc = "print" => pc' = "print",
         status = "ok" => status' = "ok"
  PROVE  Reading'
<1>1. \A t, f, n : Readable(t, f, n)' <=> Readable(t, f, n)
  BY DEF Readable
<1>2. ReportReadable'
  BY <1>1 DEF Reading, ReportReadable
<1> QED
  BY <1>1, <1>2 DEF Reading, NumProbes, NumHops

\* The hop and the probe that are printed next are inside the results.
LEMMA IndexInside ==
  ASSUME Inv, pc = "print", column \in 0 .. args.count - 1
  PROVE  /\ row * args.count \in Nat /\ row * args.count + column \in 0 .. NumProbes - 1
         /\ row \in Nat /\ args.count \in 1 .. 9
<1>1. /\ args.first_hop \in 1 .. 254 /\ args.max_hops \in args.first_hop + 1 .. 255
      /\ args.count \in 1 .. 9
  BY CheckedFields DEF Inv, Checked, HopsRefused
<1>2. row \in Nat /\ row < NumHops
  <2>1. report \in Seq(Elements(report)) /\ row = Len(report) /\ row < NumHops
    BY DEF Inv, Printed
  <2> QED
    BY <2>1
<1>3. NumHops \in Nat
  <2>1. /\ args.first_hop \in Int /\ args.first_hop >= 1
        /\ args.max_hops \in Int /\ args.max_hops >= args.first_hop + 1
    BY <1>1
  <2> QED
    BY <2>1 DEF NumHops
<1>4. args.count \in {1, 2, 3, 4, 5, 6, 7, 8, 9}
  BY <1>1
<1> HIDE DEF NumHops
<1> QED
  BY <1>1, <1>2, <1>3, <1>4 DEF NumProbes

\* A probe is printed: its source first, if it is another one.
LEMMA ProbeReading ==
  ASSUME Inv, Reading, PrintProbe
  PROVE  Reading'
<1> DEFINE first == row * args.count
<1>1. /\ UNCHANGED <<pc, status, args, probes, row, report>>
      /\ pc = "print" /\ column < args.count /\ column' = column + 1
      /\ status = "none"
  BY DEF PrintProbe, Inv, Printed
<1>2. column \in 0 .. args.count - 1
  <2>1. args.count \in Nat
    BY ArgsFields DEF Inv, Checked
  <2> QED
    BY <1>1, <2>1 DEF Reading
<1>3. /\ first \in Nat /\ column \in Nat /\ column' \in 0 .. args.count
      /\ first + column \in 0 .. NumProbes - 1
  BY <1>1, <1>2, IndexInside
<1>4. Current = probes[first + column] /\ Current \in {{}} \cup {{x} : x \in Results}
  BY <1>1, <1>3 DEF Current, Reading
<1>5. /\ line \in Seq(Elements(line)) /\ Len(line) \in Nat
      /\ Readable(line, first, column)
      /\ \A s \in last_source : SourceBefore(line, Len(line)) = {SourceToken(s).text}
  BY <1>1 DEF Reading
<1> DEFINE Good(l, src) ==
          /\ l \in Seq(Elements(l))
          /\ Readable(l, first, column + 1)
          /\ \A s \in src : SourceBefore(l, Len(l)) = {SourceToken(s).text}
<1> HIDE DEF first
<1>6. Good(line', last_source')
  <2>1. CASE Current = {}
    <3>1. line' = Append(line, StarToken) /\ last_source' = last_source
      BY <2>1 DEF PrintProbe
    <3>2. StarToken.token = "star"
      BY DEF StarToken
    <3>3. {Printable(x) : x \in probes[first + column]} = {}
      BY <1>4, <2>1
    <3>4. /\ Readable(Append(line, StarToken), first, column + 1)
          /\ SourceBefore(Append(line, StarToken), Len(line) + 1) = SourceBefore(line, Len(line))
      BY <1>3, <1>5, <3>2, <3>3, ProbeAppended
    <3>5. /\ Append(line, StarToken) \in Seq(Elements(Append(line, StarToken)))
          /\ Len(Append(line, StarToken)) = Len(line) + 1
      BY <1>5, AppendLine
    <3> QED
      BY <1>5, <3>1, <3>4, <3>5
  <2>2. CASE Current # {}
    <3>1. PICK x \in Current :
            /\ line' = line \o (IF last_source # {x.source} THEN <<SourceToken(x.source)>> ELSE <<>>)
                            \o <<TimeToken(x)>>
            /\ last_source' = {x.source}
      BY <2>2 DEF PrintProbe
    <3>2. {Printable(y) : y \in probes[first + column]} = {Printable(x)}
      BY <1>4, <2>2
    <3> DEFINE S == SourceToken(x.source)
               T == TimeToken(x)
               t == IF last_source # {x.source} THEN Append(line, S) ELSE line
    <3>3. S.token = "source" /\ T.token = "time"
      BY DEF SourceToken, TimeToken
    <3>4. /\ t \in Seq(Elements(t)) /\ Readable(t, first, column)
          /\ SourceBefore(t, Len(t)) = {S.text}
      <4>1. CASE last_source # {x.source}
        <5>1. t = Append(line, S)
          BY <4>1
        <5>2. t \in Seq(Elements(t)) /\ Len(t) = Len(line) + 1
          BY <1>5, <5>1, AppendLine
        <5>3. Readable(t, first, column) /\ SourceBefore(t, Len(line) + 1) = {S.text}
          BY <1>5, <3>3, <5>1, SourceAppended
        <5> QED
          BY <5>2, <5>3
      <4>2. CASE last_source = {x.source}
        <5>1. t = line /\ x.source \in last_source
          BY <4>2
        <5> QED
          BY <1>5, <5>1
      <4> QED
        BY <4>1, <4>2
    <3>5. line' = Append(t, T)
      <4>1. line' = line \o (IF last_source # {x.source} THEN <<S>> ELSE <<>>) \o <<T>>
        BY <3>1
      <4> HIDE DEF S, T
      <4>2. \A U : line \in Seq(U) =>
              line \o <<>> = line /\ line \o <<S>> = Append(line, S)
        OBVIOUS
      <4>3. line' = t \o <<T>>
        BY <1>5, <4>1, <4>2
      <4> HIDE DEF t
      <4> QED
        BY <3>4, <4>3
    <3>6. Printable(x) = <<SourceBefore(t, Len(t)), T.text>>
      BY <3>4 DEF Printable
    <3> HIDE DEF t, T
    <3>7. /\ Readable(Append(t, T), first, column + 1)
          /\ SourceBefore(Append(t, T), Len(t) + 1) = SourceBefore(t, Len(t))
      BY <1>3, <3>2, <3>3, <3>4, <3>6, ProbeAppended
    <3>8. Append(t, T) \in Seq(Elements(Append(t, T))) /\ Len(Append(t, T)) = Len(t) + 1
      BY <3>4, AppendLine
    <3>9. \A s \in last_source' : SourceBefore(line', Len(line')) = {SourceToken(s).text}
      BY <3>1, <3>4, <3>5, <3>7, <3>8
    <3> QED
      BY <3>5, <3>7, <3>8, <3>9
  <2> QED
    BY <2>1, <2>2
<1>7. \A t, f, n : Readable(t, f, n)' <=> Readable(t, f, n)
  BY <1>1 DEF Readable
<1>8. Readable(line, row * args.count, column)'
  BY <1>1, <1>6 DEF Readable, first
<1>9. ReportReadable'
  BY <1>1, <1>7 DEF Reading, ReportReadable
<1>10. (probes \in [0 .. NumProbes - 1 -> {{}} \cup {{x} : x \in Results}])'
  BY <1>1 DEF Reading, NumProbes, NumHops
<1> QED
  BY <1>1, <1>3, <1>6, <1>8, <1>9, <1>10 DEF Reading

\* A line is complete: it has the hop's probes, and a new one starts.
LEMMA HopReading ==
  ASSUME Inv, Reading, EndHop
  PROVE  Reading'
<1>1. /\ UNCHANGED <<args, probes>>
      /\ pc = "print" /\ column = args.count /\ row' = row + 1
      /\ line' = <<>> /\ column' = 0 /\ last_source' = {}
      /\ report' = Append(report, [ttl |-> args.first_hop + row, tokens |-> line])
      /\ pc' = "print" \/ status' = "ok"
  BY DEF EndHop, Exit, NoSource
<1>2. /\ report \in Seq(Elements(report)) /\ Len(report) = row /\ row \in Nat
      /\ args.count \in Nat
  <2>1. report \in Seq(Elements(report)) /\ Len(report) = row
    BY DEF Inv, Printed
  <2> QED
    BY <2>1, ArgsFields DEF Inv, Checked
<1>3. /\ report' \in Seq(Elements(report')) /\ Len(report') = row + 1
      /\ \A k \in 1 .. row : report'[k] = report[k]
      /\ report'[row + 1].tokens = line
  BY <1>1, <1>2, AppendLine
<1>4. \A t, f, n : Readable(t, f, n)' <=> Readable(t, f, n)
  BY <1>1 DEF Readable
<1>5. ReportReadable'
  <2> SUFFICES ASSUME NEW r \in 1 .. row + 1
               PROVE  Readable(report'[r].tokens, (r - 1) * args.count, args.count)
    <3>1. DOMAIN report' = 1 .. row + 1
      BY <1>2, <1>3
    <3> QED
      BY <1>1, <1>4, <3>1 DEF ReportReadable
  <2>1. CASE r = row + 1
    <3>1. (r - 1) * args.count = row * args.count
      BY <1>2, <2>1
    <3>2. Readable(line, row * args.count, args.count)
      BY <1>1 DEF Reading
    <3> QED
      BY <1>3, <2>1, <3>1, <3>2
  <2>2. CASE r # row + 1
    <3>1. r \in 1 .. row
      BY <1>2, <2>2
    <3>2. r \in DOMAIN report
      BY <1>2, <3>1
    <3> QED
      BY <1>3, <3>1, <3>2 DEF Reading, ReportReadable
  <2> QED
    BY <2>1, <2>2
<1>6. \A f : Readable(<<>>, f, 0)
  <2>1. ProbeTokens(<<>>) = {}
    BY DEF ProbeTokens
  <2> QED
    BY <2>1, FS_EmptySet DEF Readable
<1>7. Readable(line, row * args.count, column)'
  BY <1>1, <1>6 DEF Readable
<1>8. (probes \in [0 .. NumProbes - 1 -> {{}} \cup {{x} : x \in Results}])'
  BY <1>1 DEF Reading, NumProbes, NumHops
<1>9. line' \in Seq(Elements(line'))
  BY <1>1
<1> QED
  BY <1>1, <1>2, <1>5, <1>7, <1>8, <1>9 DEF Reading

\* run() returns: there is nothing to be read yet.
LEMMA ReturnsReading ==
  ASSUME Inv, Reading, RunReturns
  PROVE  Reading'
<1>1. /\ UNCHANGED <<status, args, row, column, last_source, line, report>>
      /\ pc = "trace" /\ pc' = "print" /\ status = "none"
      /\ probes' \in [0 .. NumProbes - 1 -> {{}} \cup {{x} : x \in Results}]
  BY DEF RunReturns, Inv, Printed
<1>2. row = 0 /\ line = <<>> /\ column = 0 /\ last_source = {}
  BY <1>1 DEF Inv, Printed, Reading
<1>3. DOMAIN report = {}
  <2>1. report \in Seq(Elements(report)) /\ Len(report) = 0
    BY <1>2 DEF Inv, Printed
  <2> QED
    BY <2>1
<1>4. ReportReadable'
  BY <1>1, <1>3 DEF ReportReadable
<1>5. Readable(line, row * args.count, column)'
  <2>1. ProbeTokens(<<>>) = {}
    BY DEF ProbeTokens
  <2> QED
    BY <1>1, <1>2, <2>1, FS_EmptySet DEF Readable
<1>6. column' \in 0 .. args'.count
  BY <1>1, <1>2, ArgsFields DEF Inv, Checked
<1>7. (probes \in [0 .. NumProbes - 1 -> {{}} \cup {{x} : x \in Results}])'
  BY <1>1 DEF NumProbes, NumHops
<1>8. line' \in Seq(Elements(line'))
  BY <1>1, <1>2
<1> QED
  BY <1>1, <1>2, <1>4, <1>5, <1>6, <1>7, <1>8 DEF Reading

\* Every step keeps what was printed readable.
LEMMA NextReading == Inv /\ Reading /\ [Next]_vars => Reading'
<1> SUFFICES ASSUME Inv, Reading, [Next]_vars PROVE Reading'
  OBVIOUS
<1>1. CASE UNCHANGED vars
  BY <1>1, ReadingKept DEF vars
<1>2. CASE \/ Parse \/ CheckHops \/ UseLiteral \/ Lookup \/ LookupFails
           \/ Build \/ BuildFails \/ RunFails
  <2>1. UNCHANGED <<args, probes, row, column, last_source, line, report>>
    BY <1>2 DEF Parse, CheckHops, UseLiteral, Lookup, LookupFails, Build, BuildFails, RunFails,
       printer
  <2>2. pc # "print" /\ pc # "exit" /\ pc' # "print"
    BY <1>2 DEF Parse, CheckHops, UseLiteral, Lookup, LookupFails, Build, BuildFails, RunFails,
       Exit
  <2> QED
    BY <2>1, <2>2, ReadingKept DEF Inv, Printed
<1>3. CASE RunReturns
  BY <1>3, ReturnsReading
<1>4. CASE PrintProbe
  BY <1>4, ProbeReading
<1>5. CASE EndHop
  BY <1>5, HopReading
<1> QED
  BY <1>1, <1>2, <1>3, <1>4, <1>5 DEF Next, Ended

-----------------------------------------------------------------------------
(* The theorems.                                                           *)

\* The invariant holds in every state of main().
THEOREM InvCorrect == Spec => []Inv
  BY InitInv, NextInv, PTL DEF Spec

\* run() is only called with hops, a count, a size and a target that were all
\* checked, on every way main() can take.
THEOREM PreconditionsCorrect == Spec => []RunPreconditions
<1>1. Inv => RunPreconditions
  <2> SUFFICES ASSUME Inv, pc \in {"trace", "print"}
               PROVE  /\ args.first_hop \in 1 .. 254
                      /\ args.max_hops \in args.first_hop + 1 .. 255
                      /\ args.count \in 1 .. 9
                      /\ args.size >= M!min_packet_len
                      /\ \E a \in target : target = {a} /\ args.ip_version \in {"auto", a.version}
    BY DEF RunPreconditions
  <2>1. /\ args \in Arguments /\ ClapAccepts(args) /\ ~(args.first_hop >= args.max_hops)
        /\ args.size >= M!min_packet_len
    BY DEF Inv, Checked, HopsRefused
  <2>2. \E a \in target : target = {a} /\ args.ip_version \in {"auto", a.version}
    BY DEF Inv, Chosen, ip_version_matches
  <2> QED
    BY <2>1, <2>2, CheckedFields
<1> QED
  BY <1>1, InvCorrect, PTL

\* Each probe of the largest trace the command line admits is found again in the
\* target's reply and in a router's error, with every method and IP version.
THEOREM DistinguishedCorrect == Spec => []ProbesDistinguished
<1>1. Inv => ProbesDistinguished
  <2> SUFFICES ASSUME Inv, pc = "trace", NEW i \in 0 .. NumProbes - 1, NEW err_queue \in BOOLEAN
               PROVE  M!identify(err_queue, AnswerTo(i, err_queue)) = {i}
    BY ProbeBound DEF ProbesDistinguished
  <2>1. CASE ~err_queue
    BY <2>1, TargetReplyFound DEF AnswerTo
  <2>2. CASE err_queue
    BY <2>2, RouterReplyFound DEF AnswerTo
  <2> QED
    BY <2>1, <2>2
<1> QED
  BY <1>1, InvCorrect, PTL

\* print_results prints the hops in order, one line each, and stops after the
\* first at which the target answered, or after the last.
THEOREM StopsCorrect == Spec => []ReportStops
<1>1. Inv => ReportStops
  <2> SUFFICES ASSUME Inv PROVE ReportStops
    OBVIOUS
  <2>1. /\ report \in Seq(Elements(report)) /\ Len(report) = row
        /\ \A r \in 1 .. row : report[r].ttl = args.first_hop + r - 1
    BY DEF Inv, Printed
  <2>2. row \in Nat /\ DOMAIN report = 1 .. row
    BY <2>1
  <2>3. \A r \in DOMAIN report : report[r].ttl = args.first_hop + r - 1
    BY <2>1, <2>2
  <2>4. \A r \in 0 .. row - 2 : ~RowTerminates(r)
    BY <2>2 DEF Inv, Printed
  <2>5. \A r \in 1 .. Len(report) - 1 : ~RowTerminates(r - 1)
    BY <2>1, <2>2, <2>4
  <2>6. status = "ok" => Len(report) = NumHops \/ RowTerminates(Len(report) - 1)
    BY <2>1 DEF Inv, Printed
  <2> QED
    BY <2>3, <2>5, <2>6 DEF ReportStops, RowTerminates, terminates_trace
<1> QED
  BY <1>1, InvCorrect, PTL

\* Each line of the report gives back who answered each probe, and how, for
\* results of any kind from any sources.
THEOREM ReadableCorrect == Spec => []ReportReadable
<1>1. Init => Reading
  BY DEF Init, Reading, ReportReadable, Elements
<1>2. Spec => []Reading
  BY <1>1, InvCorrect, NextReading, PTL DEF Spec
<1>3. Reading => ReportReadable
  BY DEF Reading
<1> QED
  BY <1>2, <1>3, PTL
=============================================================================
