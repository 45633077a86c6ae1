-------------------------------- MODULE Main --------------------------------
(***************************************************************************)
(* src/src/main.rs: from the command line to the report.  The arguments    *)
(* are checked one after the other, the target is taken from the command   *)
(* line or from the resolver, the method is built, run() traces (module    *)
(* Trace) and what it returns is printed.                                  *)
(*                                                                         *)
(* The numbers are those on the command line, before clap has looked at    *)
(* them.  An address is its IP version and a name.  The text of messages,  *)
(* the timeout and round trip times are left out.                          *)
(***************************************************************************)
EXTENDS Icmp, Integers, FiniteSets, Sequences

CONSTANTS
  Arguments,     \* the command lines: see Args
  Lookups,       \* what the resolver answers: sequences of addresses
  Results,       \* what run() may have recorded for a probe
  MaxReport      \* bound: the reports of at most so many probes are followed

\* IpAddr
Address == [version : {"v4", "v6"}, id : STRING]

\* struct Args; target is [name |-> TRUE] for a host name, else an address
Args == [target : {[name |-> TRUE]} \cup Address,
         first_hop : Nat, max_hops : Nat, size : Nat, count : Nat,
         method : {"icmp", "udp", "tcp"}, ip_version : {"auto", "v4", "v6"}]

ASSUME ArgumentsAssumption == Arguments \subseteq Args /\ MaxReport \in Nat
ASSUME LookupsAssumption == Lookups \subseteq Seq(Address)

MAX_PROBES_PER_HOP == 10

VARIABLES
  pc,           \* parse, check, target, build, trace, print, exit
  status,       \* why the program ended: none, usage, hops, version, lookup,
                \* size, socket, trace, ok
  args,         \* the arguments
  target,       \* the address that is traced, as a set with at most one element
  probes,       \* what run() returned: the result of each probe
  row, column,  \* the hop and its probe that are printed next
  last_source,  \* print_hop_probes: last_source
  line,         \* what was printed of the current hop
  report        \* the lines printed before

vars == <<pc, status, args, target, probes, row, column, last_source, line, report>>
printer == <<probes, row, column, last_source, line, report>>

Init ==
  /\ pc = "parse" /\ status = "none"
  /\ args \in Arguments
  /\ target = {}
  /\ probes = <<>> /\ row = 0 /\ column = 0
  /\ last_source = {} /\ line = <<>> /\ report = <<>>

Exit(why) == pc' = "exit" /\ status' = why

-----------------------------------------------------------------------------
(* Args::parse and the checks of main().                                   *)

\* value_parser: u8 and u16 with their ranges, the end of the second excluded.
CountUnlimited(n) == n \in 1 .. 65535
CountInRange(n) == n \in 1 .. MAX_PROBES_PER_HOP - 1
HopInRange(n) == n \in 1 .. 255

ClapAccepts(a) ==
  /\ HopInRange(a.first_hop) /\ HopInRange(a.max_hops)
  /\ CountInRange(a.count)

Parse ==
  /\ pc = "parse"
  /\ IF ClapAccepts(args) THEN pc' = "check" /\ status' = status ELSE Exit("usage")
  /\ UNCHANGED <<args, target, printer>>

HopsInverted == args.first_hop > args.max_hops
HopsRefused == args.first_hop >= args.max_hops

CheckHops ==
  /\ pc = "check"
  /\ IF HopsRefused THEN Exit("hops") ELSE pc' = "target" /\ status' = status
  /\ UNCHANGED <<args, target, printer>>

-----------------------------------------------------------------------------
(* The target.                                                             *)

ip_version_matches(addr, want) == want = "auto" \/ addr.version = want

\* maybe_ip: an address, with or without a port, is not looked up.
maybe_ip == {a \in {args.target} : "version" \in DOMAIN a}

UseLiteral ==
  /\ pc = "target"
  /\ \E a \in maybe_ip :
       IF ip_version_matches(a, args.ip_version)
       THEN pc' = "build" /\ status' = status /\ target' = {a}
       ELSE Exit("version") /\ target' = target
  /\ UNCHANGED <<args, printer>>

\* find: the first of the answers that matches
Find(seq, want) ==
  {seq[k] : k \in {j \in DOMAIN seq :
     /\ ip_version_matches(seq[j], want)
     /\ \A i \in 1 .. j - 1 : ~ip_version_matches(seq[i], want)}}

Lookup ==
  /\ pc = "target"
  /\ maybe_ip = {}
  /\ \E answers \in Lookups : target' = Find(answers, args.ip_version)
  /\ IF target' = {} THEN Exit("lookup") ELSE pc' = "build" /\ status' = status
  /\ UNCHANGED <<args, printer>>

\* to_socket_addrs fails.
LookupFails ==
  /\ pc = "target"
  /\ maybe_ip = {}
  /\ Exit("lookup")
  /\ UNCHANGED <<args, target, printer>>

-----------------------------------------------------------------------------
(* MethodArg::build and trace::run.                                        *)

target_version == IF \E a \in target : a.version = "v6" THEN "v6" ELSE "v4"

\* The method that is built for the target; the source port is the system's.
M == INSTANCE Methods WITH
  Method <- args.method, Version <- target_version, Target <- 0,
  PacketLen <- args.size, SourcePort <- 40000

Build ==
  /\ pc = "build"
  /\ IF args.size < M!min_packet_len THEN Exit("size") ELSE pc' = "trace" /\ status' = status
  /\ UNCHANGED <<args, target, printer>>

\* Tcp::try_new opens sockets, which can fail.
BuildFails ==
  /\ pc = "build" /\ args.method = "tcp"
  /\ Exit("socket")
  /\ UNCHANGED <<args, target, printer>>

NumHops   == args.max_hops - args.first_hop + 1
NumProbes == NumHops * args.count

RunFails ==
  /\ pc = "trace"
  /\ Exit("trace")
  /\ UNCHANGED <<args, target, printer>>

RunReturns ==
  /\ pc = "trace"
  /\ NumProbes <= MaxReport
  /\ probes' \in [0 .. NumProbes - 1 -> {{}} \cup {{x} : x \in Results}]
  /\ pc' = "print"
  /\ UNCHANGED <<status, args, target, row, column, last_source, line, report>>
-----------------------------------------------------------------------------
(* print_results and print_hop_probes.                                     *)

\* Display for Unreachable, as the parts of its text
Display(k) ==
  CASE k[2] = "Marker" -> <<k[3]>>
    [] k[2] = "Code"   -> <<"!<", k[3], ">">>
    [] k[2] = "Other"  -> <<"!<", k[3], "-", k[4], ">">>
    [] k[2] = "TooBig" -> <<"!F-", k[3]>>

\* What is printed: a source, a time with the annotation of an unreachable
\* (Display for ProbeResult), or a star.
SourceToken(source) == [token |-> "source", text |-> IF source = {} THEN {"?"} ELSE source]
TimeToken(x) == [token |-> "time",
                 text |-> IF x.kind[1] = "Unreachable" THEN Display(x.kind) ELSE <<>>]
StarToken    == [token |-> "star", text |-> <<>>]

Current == probes[row * args.count + column]

PrintProbe ==
  /\ pc = "print" /\ column < args.count
  /\ column' = column + 1
  /\ IF Current = {}
     THEN line' = Append(line, StarToken) /\ last_source' = last_source
     ELSE \E x \in Current :
            /\ line' = line \o (IF last_source # {x.source} THEN <<SourceToken(x.source)>> ELSE <<>>)
                            \o <<TimeToken(x)>>
            /\ last_source' = {x.source}
  /\ UNCHANGED <<pc, status, args, target, probes, row, report>>

\* let mut last_source = None
SourceOfLastHop == last_source
NoSource == {}

RowProbes(r) == {r * args.count + c : c \in 0 .. args.count - 1}
RowAnswered(r) == \E i \in RowProbes(r) : probes[i] # {}
RowTerminates(r) == \E i \in RowProbes(r) : \E x \in probes[i] : terminates_trace(x.kind)

\* The end of the line, and the break after the first hop that reached the target.
EndHop ==
  /\ pc = "print" /\ column = args.count
  /\ report' = Append(report, [ttl |-> args.first_hop + row, tokens |-> line])
  /\ line' = <<>> /\ column' = 0 /\ row' = row + 1 /\ last_source' = NoSource
  /\ IF RowTerminates(row) \/ row + 1 = NumHops
     THEN Exit("ok") ELSE UNCHANGED <<pc, status>>
  /\ UNCHANGED <<args, target, probes>>

-----------------------------------------------------------------------------
Ended == pc = "exit" /\ UNCHANGED vars

Next ==
  \/ Parse \/ CheckHops
  \/ UseLiteral \/ Lookup \/ LookupFails
  \/ Build \/ BuildFails
  \/ RunFails \/ RunReturns
  \/ PrintProbe \/ EndHop
  \/ Ended

Spec == Init /\ [][Next]_vars

-----------------------------------------------------------------------------
(* Properties.                                                             *)

TimeExceeded == [version |-> target_version,
                 icmp_type |-> IF target_version = "v4" THEN v4.TIME_EXCEEDED ELSE v6.TIME_EXCEEDED,
                 code |-> 0, info |-> 0]

\* An answer to probe i on one of the two queues.
AnswerTo(i, err_queue) ==
  IF err_queue THEN M!RouterReply(M!probe(i), TimeExceeded) ELSE M!TargetReply(M!probe(i))

\* The ranges that the command line admits are narrow enough for the integers
\* run() and the methods put the index of a probe into: two buffers per probe
\* are counted in a u16, and each probe of the largest trace is found again
\* from the port, the sequence number or the acknowledgement in its answers.
ProbesDistinguished ==
  pc = "trace" =>
    /\ 2 * NumProbes < 65536
    /\ \A i \in 0 .. NumProbes - 1, err_queue \in BOOLEAN :
         M!identify(err_queue, AnswerTo(i, err_queue)) = {i}

\* run() is only called with what module Trace assumes of its arguments, for a
\* target of the wanted IP version: ip_version, size and the hops have been
\* checked on every way there.
RunPreconditions ==
  pc \in {"trace", "print"} =>
    /\ args.first_hop \in 1 .. 254 /\ args.max_hops \in args.first_hop + 1 .. 255
    /\ args.count \in 1 .. 9
    /\ args.size >= M!min_packet_len
    /\ \E a \in target : target = {a} /\ args.ip_version \in {"auto", a.version}

\* How a reader understands a line: the time and star tokens are the probes in
\* order, and a time belongs to the last source before it.
ProbeTokens(tokens) == {k \in DOMAIN tokens : tokens[k].token # "source"}
Nth(tokens, k) == Cardinality({j \in ProbeTokens(tokens) : j <= k})
SourceBefore(tokens, k) ==
  {tokens[j].text : j \in {n \in 1 .. k : /\ tokens[n].token = "source"
                                         /\ \A l \in n + 1 .. k : tokens[l].token # "source"}}
ReadBack(tokens, k) ==
  IF tokens[k].token = "star" THEN {} ELSE {<<SourceBefore(tokens, k), tokens[k].text>>}

Printable(x) == <<{SourceToken(x.source).text}, TimeToken(x).text>>

\* The tokens give back, one by one, the n probes from first on.
Readable(tokens, first, n) ==
  /\ Cardinality(ProbeTokens(tokens)) = n
  /\ \A k \in ProbeTokens(tokens) :
       ReadBack(tokens, k) = {Printable(x) : x \in probes[first + Nth(tokens, k) - 1]}

\* Although a source is printed only when it changes, each line read from left
\* to right gives back, probe by probe, who answered and with which annotation.
ReportReadable ==
  \A r \in DOMAIN report :
    Readable(report[r].tokens, (r - 1) * args.count, args.count)

\* The lines are the hops from the first one on, one each, up to and with the
\* first at which the target answered; if there is none, all of them.
ReportStops ==
  /\ \A r \in DOMAIN report : report[r].ttl = args.first_hop + r - 1
  /\ \A r \in 1 .. Len(report) - 1 :
       \A i \in RowProbes(r - 1) : \A x \in probes[i] : x.kind # Destination
  /\ status = "ok" =>
       \/ Len(report) = NumHops
       \/ \E i \in RowProbes(Len(report) - 1) : \E x \in probes[i] : x.kind = Destination

-----------------------------------------------------------------------------
(* A property that the help text states and the code does not have.        *)

\* "Number of probes to send per hop [max: 10]" (Args::count): up to that number
\* the count is not what a command line is refused for.
CountAdmitsMax ==
  status = "usage" =>
    ~(HopInRange(args.first_hop) /\ HopInRange(args.max_hops) /\ args.count \in 1 .. 10)
=============================================================================
