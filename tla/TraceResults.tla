---------------------------- MODULE TraceResults ----------------------------
(***************************************************************************)
(* What run() makes of the messages it reads, for every value of the       *)
(* constants: every message is mapped to the probe it answers, every       *)
(* recorded result is true of the path, and run() returns exactly when the *)
(* trace is complete.                                                      *)
(***************************************************************************)
EXTENDS TraceProof

\* The messages the network can have delivered by now, with their queues.
Delivered == Strays \cup UNION {Answers(i) : i \in wire}

\* Whatever is on a queue of the socket came from the network.
QueuesGenuine ==
  \A r \in Readers : \A k \in DOMAIN queues[r] : <<r, queues[r][k]>> \in Delivered

\* A completion that carries a message carries one, from its reader's queue and
\* cut to the size of a buffer.
Carries(e) == \E a \in Delivered : a[1] = e.slot /\ e.msg = {Truncate(e.slot, a[2])}
ReadsGenuine == \A k \in Entries(cq, FilledCqes) : Carries(cq[k])

\* What can be said truly of a probe, as Attribution says it.
TrueOf(i, x) ==
  /\ x.kind = Hop => x.source = {ttl(i)} /\ ttl(i) < PathLen
  /\ x.kind = Destination => x.source = {Target} /\ ttl(i) >= PathLen
  /\ x.kind \notin {Hop, Destination} => \E d \in 1 .. ttl(i) : x.source = {d}

\* run() is in its loop exactly as long as the trace is not over, and the trace
\* is then not complete; when it is over because it is complete, the kernel has
\* no send left.
OutcomeOK ==
  /\ outcome = "running" <=> Open
  /\ Running => ~Reached(sending, result)
  /\ outcome = "reached" => Reached(sending, result) /\ inflight = {} /\ executed = {}

ResultInv ==
  /\ QueuesGenuine
  /\ ReadsGenuine
  /\ Attribution
  /\ OutcomeOK

-----------------------------------------------------------------------------
(* The meaning of a message.                                               *)

\* Cutting a message to the buffer changes only the number of its bytes.
LEMMA TruncateFields ==
  ASSUME NEW r, NEW m \in Message
  PROVE  /\ Truncate(r, m).name = m.name /\ Truncate(r, m).truncated = m.truncated
         /\ Truncate(r, m).ext = m.ext /\ Truncate(r, m).of = m.of
         /\ Truncate(r, m).quoted =
              [m.quoted EXCEPT !.bytes = IF @ > reply_room(r) THEN reply_room(r) ELSE @]
BY DEF Truncate, Message

\* The fields by which identify finds a probe: its index fits every field and the
\* ports of UDP probes do not wrap.
LEMMA ProbeFields ==
  ASSUME NEW i \in Probes
  PROVE  /\ i \in Nat /\ i < 65536 /\ i \in U16
         /\ Method = "icmp" => probe(i).seq = i
         /\ Method = "udp" => probe(i).dport = START_PORT + i
         /\ Method = "tcp" => probe(i).seq = i /\ probe(i).sport = SourcePort
                              /\ probe(i).dport = DEST_PORT
<1>1. i \in 0 .. 2294
  BY Bounds
<1>2. i \in Nat /\ i < 65536 /\ i \in U16 /\ i % 65536 = i
  BY <1>1 DEF U16
<1>3. UdpPort(i) = START_PORT + i
  BY <1>1 DEF UdpPort, START_PORT
<1> QED
  BY <1>2, <1>3, MethodAssumption DEF probe, IcmpProbe, UdpProbe, TcpProbe

\* A receive buffer holds the headers that identify reads.
LEMMA BufferHoldsHeaders ==
  /\ Method \in {"icmp", "tcp"} => max_reply_len >= 8 /\ \A r : reply_room(r) >= 8
  /\ Method = "tcp" => /\ \A n \in TcpAnswerLens : n \in Nat /\ WholeTcpHeader(n)
                       /\ \A r : WholeTcpHeader(reply_room(r))
<1>1. payload_len \in Nat
  BY MethodAssumption DEF payload_len, min_packet_len, IpHeaderLen, MIN_IPV4_HEADER_LEN,
     IPV6_HEADER_LENGTH, ECHO_HEADER_LEN, UDP_HEADER_LEN
<1>2. /\ Method \in {"icmp", "tcp"} => max_reply_len >= 8
      /\ Method = "tcp" => /\ \A n \in TcpAnswerLens : n \in Nat /\ WholeTcpHeader(n)
                           /\ WholeTcpHeader(max_reply_len)
  BY <1>1, MethodAssumption DEF max_reply_len, TcpAnswerLens, WholeTcpHeader, ECHO_HEADER_LEN,
     TCP_MIN_HEADER_LEN, MIN_IPV4_HEADER_LEN
<1>3. \A n \in Nat : n >= max_reply_len /\ WholeTcpHeader(max_reply_len) => WholeTcpHeader(n)
  BY Lengths DEF WholeTcpHeader, TCP_MIN_HEADER_LEN, MIN_IPV4_HEADER_LEN
<1>4. \A r : reply_room(r) \in Nat /\ max_reply_len \in Nat /\ reply_room(r) >= max_reply_len
  BY Lengths
<1> QED
  BY <1>2, <1>3, <1>4

\* The result that names one address.
Found(ip, k) == [source |-> {ip}, kind |-> k]

\* The reply handle_read makes of a message, cut to the buffer: an error of the node
\* at distance d about a datagram with the fields of p, or the target's answer.
QuotesError(m, reply, p, d, e) ==
  /\ ReplyOf(ErrQueue, Truncate(ErrQueue, m)) = {reply}
  /\ reply.source = {[ip |-> d, port |-> 0]} /\ reply.error = {e}
  /\ reply.destination = {[ip |-> Target, port |-> p.dport]}
  /\ reply.quoted.sport = p.sport /\ reply.quoted.seq = p.seq
  /\ Method # "udp" => reply.quoted.bytes = 8

QuotesAnswer(m, reply, p, bytes) ==
  /\ ReplyOf(RecvQueue, Truncate(RecvQueue, m)) = {reply}
  /\ reply.source = {[ip |-> Target, port |-> p.dport]}
  /\ reply.quoted.sport = p.dport /\ reply.quoted.dport = p.sport
  /\ reply.quoted.seq = p.seq /\ reply.quoted.ack = p.seq + 1
  /\ reply.quoted.bytes = IF bytes > reply_room(RecvQueue) THEN reply_room(RecvQueue) ELSE bytes

\* handle_read finds the probes a message answers, and one result in it.
Finds(r, m, probes) ==
  Identified(r, Truncate(r, m)) = probes /\ Truncate(r, m).of = probes
Yields(r, m, x) == ResultOf(r, Truncate(r, m)) = {x}

\* Cutting a message does not change which probes it answers.
LEMMA FindsIf ==
  ASSUME NEW r, NEW m \in Message, m.of = Identified(r, Truncate(r, m))
  PROVE  Finds(r, m, m.of)
<1>1. Truncate(r, m).of = m.of
  BY TruncateFields
<1> QED
  BY <1>1 DEF Finds

\* What handle_read reads from an error about a datagram.
LEMMA ErrorReply ==
  ASSUME NEW p, Packet(p), NEW d \in Nat, NEW e \in IcmpError, NEW of \in SUBSET U16
  PROVE  \E reply : QuotesError(ErrorMessage(p, d, e, of), reply, p, d, e)
<1> DEFINE m == ErrorMessage(p, d, e, of)
           x == [error |-> e, offender |-> {[ip |-> d, port |-> 0]}]
           q == Truncate(ErrQueue, m).quoted
           reply == [source |-> x.offender, destination |-> Truncate(ErrQueue, m).name,
                     quoted |-> q, error |-> {x.error}]
<1>1. m \in Message
  BY ErrorMessageType
<1>2. /\ Truncate(ErrQueue, m).name = {[ip |-> Target, port |-> p.dport]}
      /\ Truncate(ErrQueue, m).truncated = FALSE /\ Truncate(ErrQueue, m).ext = {x}
  <2>1. /\ Truncate(ErrQueue, m).name = m.name /\ Truncate(ErrQueue, m).ext = m.ext
        /\ Truncate(ErrQueue, m).truncated = m.truncated
    BY <1>1, TruncateFields
  <2>2. /\ m.name = {[ip |-> Target, port |-> p.dport]}
        /\ m.truncated = FALSE /\ m.ext = {x}
    BY DEF ErrorMessage
  <2> HIDE DEF m, x
  <2> QED
    BY <2>1, <2>2
<1>3. q.sport = p.sport /\ q.seq = p.seq /\ (Method # "udp" => q.bytes = 8)
  <2>1. m.quoted = [bytes |-> IF Method = "udp" THEN 0 ELSE 8,
                    sport |-> p.sport, dport |-> p.dport, seq |-> p.seq, ack |-> 0]
    BY DEF ErrorMessage
  <2>2. q = [m.quoted EXCEPT !.bytes = IF @ > reply_room(ErrQueue) THEN reply_room(ErrQueue) ELSE @]
    BY <1>1, TruncateFields
  <2> HIDE DEF m, q
  <2>3. Method # "udp" => reply_room(ErrQueue) >= 8
    BY BufferHoldsHeaders, MethodAssumption
  <2> QED
    BY <2>1, <2>2, <2>3, Lengths
<1>4. ReplyOf(ErrQueue, Truncate(ErrQueue, m)) = {reply}
  <2> HIDE DEF m, x, q
  <2>1. {y \in Truncate(ErrQueue, m).ext : ~Truncate(ErrQueue, m).truncated} = {x}
    BY <1>2
  <2>2. ~(~err_queue(ErrQueue))
    BY DEF err_queue
  <2> QED
    BY <2>1, <2>2 DEF ReplyOf, q
<1>5. /\ reply.source = {[ip |-> d, port |-> 0]} /\ reply.error = {e}
      /\ reply.destination = {[ip |-> Target, port |-> p.dport]} /\ reply.quoted = q
  BY <1>2
<1> HIDE DEF reply, m, q
<1>6. QuotesError(m, reply, p, d, e)
  BY <1>3, <1>4, <1>5 DEF QuotesError
<1> QED
  BY <1>6 DEF m

\* What handle_read reads from an answer of the target.
LEMMA TargetReplyOf ==
  ASSUME NEW p, Packet(p), NEW bytes \in Nat, NEW of \in SUBSET U16
  PROVE  \E reply : QuotesAnswer(TargetMessage(p, bytes, of), reply, p, bytes)
<1> DEFINE m == TargetMessage(p, bytes, of)
           q == Truncate(RecvQueue, m).quoted
           reply == [source |-> Truncate(RecvQueue, m).name, destination |-> {},
                     quoted |-> Truncate(RecvQueue, m).quoted, error |-> {}]
<1>1. m \in Message
  BY TargetMessageType
<1>2. Truncate(RecvQueue, m).name = {[ip |-> Target, port |-> p.dport]}
  <2>1. Truncate(RecvQueue, m).name = m.name
    BY <1>1, TruncateFields
  <2>2. m.name = {[ip |-> Target, port |-> p.dport]}
    BY DEF TargetMessage
  <2> HIDE DEF m
  <2> QED
    BY <2>1, <2>2
<1>3. /\ q.sport = p.dport /\ q.dport = p.sport /\ q.seq = p.seq /\ q.ack = p.seq + 1
      /\ q.bytes = IF bytes > reply_room(RecvQueue) THEN reply_room(RecvQueue) ELSE bytes
  <2>1. m.quoted = [bytes |-> bytes, sport |-> p.dport, dport |-> p.sport,
                    seq |-> p.seq, ack |-> p.seq + 1]
    BY DEF TargetMessage
  <2>2. q = [m.quoted EXCEPT !.bytes = IF @ > reply_room(RecvQueue) THEN reply_room(RecvQueue) ELSE @]
    BY <1>1, TruncateFields
  <2> HIDE DEF m, q
  <2> QED
    BY <2>1, <2>2
<1>4. ReplyOf(RecvQueue, Truncate(RecvQueue, m)) = {reply}
  BY DEF ReplyOf, err_queue, RecvQueue, ErrQueue
<1>5. reply.source = {[ip |-> Target, port |-> p.dport]} /\ reply.quoted = q
  BY <1>2
<1> HIDE DEF reply, m, q
<1>6. QuotesAnswer(m, reply, p, bytes)
  BY <1>3, <1>4, <1>5 DEF QuotesAnswer
<1> QED
  BY <1>6 DEF m

\* The result handle_read makes of a reply from reader r.
ResultFor(r, reply) ==
  [source |-> {a.ip : a \in reply.source}, kind |-> classify(err_queue(r), reply)]

\* With one reply, identification and result are those of that reply.
LEMMA OneReply ==
  ASSUME NEW r, NEW m, NEW reply, ReplyOf(r, m) = {reply}
  PROVE  /\ Identified(r, m) = identify(err_queue(r), reply) \cap Probes
         /\ ResultOf(r, m) = {ResultFor(r, reply)}
<1> DEFINE I(y) == identify(err_queue(r), y)
<1>1. /\ Identified(r, m) = (UNION {I(y) : y \in {reply}}) \cap Probes
      /\ ResultOf(r, m) = {ResultFor(r, y) : y \in {reply}}
  BY DEF Identified, ResultOf, ResultFor
<1> HIDE DEF I
<1>2. /\ UNION {I(y) : y \in {reply}} = I(reply)
      /\ {ResultFor(r, y) : y \in {reply}} = {ResultFor(r, reply)}
  OBVIOUS
<1>3. Identified(r, m) = I(reply) \cap Probes /\ ResultOf(r, m) = {ResultFor(r, reply)}
  BY <1>1, <1>2
<1> QED
  BY <1>3 DEF I

\* An error about a probe is mapped to that probe by every method.
LEMMA ErrorIdentified ==
  ASSUME NEW i \in Probes, NEW d \in Nat, NEW e \in IcmpError
  PROVE  LET m == ErrorMessage(probe(i), d, e, {i})
         IN  Finds(ErrQueue, m, {i}) /\ Yields(ErrQueue, m, Found(d, kind(e)))
<1> DEFINE n == ErrorMessage(probe(i), d, e, {i})
           m == Truncate(ErrQueue, n)
<1>1. Packet(probe(i)) /\ {i} \in SUBSET U16
  BY ProbePacket, ProbeFields
<1>2. n \in Message /\ n.of = {i}
  BY <1>1, ErrorMessageType DEF ErrorMessage
<1>3. \E reply : QuotesError(n, reply, probe(i), d, e)
  BY <1>1, ErrorReply
<1> HIDE DEF n
<1>4. PICK reply : QuotesError(n, reply, probe(i), d, e)
  BY <1>3
<1>5. /\ reply.source = {[ip |-> d, port |-> 0]} /\ reply.error = {e}
      /\ reply.destination = {[ip |-> Target, port |-> probe(i).dport]}
      /\ reply.quoted.sport = probe(i).sport /\ reply.quoted.seq = probe(i).seq
      /\ Method # "udp" => reply.quoted.bytes = 8
  BY <1>4 DEF QuotesError
<1>6. err_queue(ErrQueue)
  BY DEF err_queue
<1>7. identify(err_queue(ErrQueue), reply) = {i}
  <2>1. CASE Method = "icmp"
    BY <1>5, <1>6, <2>1, ProbeFields DEF identify, sequence
  <2>2. CASE Method = "udp"
    <3>1. reply.destination = {[ip |-> Target, port |-> START_PORT + i]}
      BY <1>5, <2>2, ProbeFields
    <3>2. IdentifyUdpError(reply) = checked_sub(START_PORT + i, START_PORT)
      BY <3>1 DEF IdentifyUdpError
    <3>3. checked_sub(START_PORT + i, START_PORT) = {i}
      BY ProbeFields DEF checked_sub, START_PORT
    <3> QED
      BY <1>6, <2>2, <3>2, <3>3 DEF identify
  <2>3. CASE Method = "tcp"
    BY <1>5, <1>6, <2>3, ProbeFields DEF identify, IdentifyTcpError, u16_try_from
  <2> QED
    BY <2>1, <2>2, <2>3, MethodAssumption
<1>8. ResultFor(ErrQueue, reply) = Found(d, kind(e))
  <2>1. {a.ip : a \in reply.source} = {d}
    BY <1>5
  <2>2. classify(err_queue(ErrQueue), reply) = kind(e)
    BY <1>5, <1>6 DEF classify
  <2> QED
    BY <2>1, <2>2, Zenon DEF ResultFor, Found
<1>9. ReplyOf(ErrQueue, m) = {reply}
  BY <1>4 DEF QuotesError
<1>10. /\ Identified(ErrQueue, m) = identify(err_queue(ErrQueue), reply) \cap Probes
       /\ ResultOf(ErrQueue, m) = {ResultFor(ErrQueue, reply)}
  BY <1>9, OneReply, Zenon
<1>11. Finds(ErrQueue, n, {i})
  <2>1. Identified(ErrQueue, m) = {i}
    BY <1>7, <1>10
  <2> QED
    BY <1>2, <2>1, FindsIf
<1>12. Yields(ErrQueue, n, Found(d, kind(e)))
  BY <1>8, <1>10 DEF Yields
<1> QED
  BY <1>11, <1>12 DEF n

\* So is the target's answer, if it is as long as an answer is.
LEMMA TargetIdentified ==
  ASSUME NEW i \in Probes, NEW bytes \in Nat,
         Method = "icmp" => bytes >= 8, Method = "tcp" => bytes \in TcpAnswerLens
  PROVE  LET m == TargetMessage(probe(i), bytes, {i})
         IN  Finds(RecvQueue, m, {i}) /\ Yields(RecvQueue, m, Found(Target, Destination))
<1> DEFINE n == TargetMessage(probe(i), bytes, {i})
           m == Truncate(RecvQueue, n)
<1>1. Packet(probe(i)) /\ {i} \in SUBSET U16
  BY ProbePacket, ProbeFields
<1>2. n \in Message /\ n.of = {i}
  BY <1>1, TargetMessageType DEF TargetMessage
<1>3. \E reply : QuotesAnswer(n, reply, probe(i), bytes)
  BY <1>1, TargetReplyOf
<1> HIDE DEF n
<1>4. PICK reply : QuotesAnswer(n, reply, probe(i), bytes)
  BY <1>3
<1>5. /\ reply.source = {[ip |-> Target, port |-> probe(i).dport]}
      /\ reply.quoted.sport = probe(i).dport /\ reply.quoted.dport = probe(i).sport
      /\ reply.quoted.seq = probe(i).seq /\ reply.quoted.ack = probe(i).seq + 1
      /\ reply.quoted.bytes = IF bytes > reply_room(RecvQueue) THEN reply_room(RecvQueue) ELSE bytes
  BY <1>4 DEF QuotesAnswer
<1>6. ~err_queue(RecvQueue)
  BY DEF err_queue, RecvQueue, ErrQueue
<1>7. identify(err_queue(RecvQueue), reply) = {i}
  <2>1. CASE Method = "icmp"
    <3>1. reply.quoted.bytes >= 8
      BY <1>5, <2>1, BufferHoldsHeaders, Lengths
    <3> QED
      BY <1>5, <1>6, <2>1, <3>1, ProbeFields DEF identify, sequence
  <2>2. CASE Method = "udp"
    <3>1. reply.source = {[ip |-> Target, port |-> START_PORT + i]}
      BY <1>5, <2>2, ProbeFields
    <3>2. {s \in reply.source : s.ip = Target} = reply.source
      BY <3>1
    <3>3. IdentifyUdpReply(reply) = UNION {checked_sub(a.port, START_PORT) : a \in reply.source}
      BY <3>2 DEF IdentifyUdpReply
    <3>4. IdentifyUdpReply(reply) = checked_sub(START_PORT + i, START_PORT)
      BY <3>1, <3>3
    <3>5. checked_sub(START_PORT + i, START_PORT) = {i}
      BY ProbeFields DEF checked_sub, START_PORT
    <3> QED
      BY <1>6, <2>2, <3>4, <3>5 DEF identify
  <2>3. CASE Method = "tcp"
    <3>1. WholeTcpHeader(reply.quoted.bytes)
      BY <1>5, <2>3, BufferHoldsHeaders
    <3>2. reply.quoted.sport = DEST_PORT /\ reply.quoted.dport = SourcePort
          /\ reply.quoted.ack = i + 1
      BY <1>5, <2>3, ProbeFields
    <3>3. checked_sub(i + 1, 1) = {i} /\ u16_try_from(i) = {i}
      BY ProbeFields DEF checked_sub, u16_try_from
    <3> DEFINE S == {s \in reply.source :
                       /\ s.ip = Target
                       /\ WholeTcpHeader(reply.quoted.bytes)
                       /\ <<reply.quoted.sport, reply.quoted.dport>> = <<DEST_PORT, SourcePort>>}
    <3>4. S = {[ip |-> Target, port |-> probe(i).dport]}
      BY <1>5, <3>1, <3>2
    <3>5. UNION {u16_try_from(k) : k \in checked_sub(reply.quoted.ack, 1)} = {i}
      BY <3>2, <3>3
    <3> HIDE DEF S
    <3>6. UNION {UNION {u16_try_from(k) : k \in checked_sub(reply.quoted.ack, 1)} : b \in S} = {i}
      BY <3>4, <3>5
    <3>7. IdentifyTcpReply(reply) = {i}
      BY <3>6 DEF IdentifyTcpReply, S
    <3> QED
      BY <1>6, <2>3, <3>7 DEF identify
  <2> QED
    BY <2>1, <2>2, <2>3, MethodAssumption
<1>8. ResultFor(RecvQueue, reply) = Found(Target, Destination)
  <2>1. {a.ip : a \in reply.source} = {Target}
    BY <1>5
  <2>2. classify(err_queue(RecvQueue), reply) = Destination
    BY <1>6 DEF classify
  <2> QED
    BY <2>1, <2>2, Zenon DEF ResultFor, Found
<1>9. ReplyOf(RecvQueue, m) = {reply}
  BY <1>4 DEF QuotesAnswer
<1>10. /\ Identified(RecvQueue, m) = identify(err_queue(RecvQueue), reply) \cap Probes
       /\ ResultOf(RecvQueue, m) = {ResultFor(RecvQueue, reply)}
  BY <1>9, OneReply, Zenon
<1>11. Finds(RecvQueue, n, {i})
  <2>1. Identified(RecvQueue, m) = {i}
    BY <1>7, <1>10
  <2> QED
    BY <1>2, <2>1, FindsIf
<1>12. Yields(RecvQueue, n, Found(Target, Destination))
  BY <1>8, <1>10 DEF Yields
<1> QED
  BY <1>11, <1>12 DEF n

\* TTLs are positive and within the range of hops.
LEMMA TtlType == \A i \in Probes : ttl(i) \in Nat /\ ttl(i) >= 1
<1> SUFFICES ASSUME NEW i \in Probes PROVE ttl(i) \in Nat /\ ttl(i) >= 1
  OBVIOUS
<1>1. i \in Nat /\ Count \in Nat /\ Count > 0 /\ FirstHop \in Nat /\ FirstHop >= 1
  BY Bounds, ArgsAssumption
<1>2. i \div Count \in Nat
  BY <1>1
<1> QED
  BY <1>1, <1>2 DEF ttl

\* Only the target's port is unreachable.
LEMMA PortUnreachableKind == PortUnreachable \in IcmpError /\ kind(PortUnreachable) = Destination
<1>1. PortUnreachable \in IcmpError
  BY DEF PortUnreachable, IcmpError, v4, v6, U8, U32
<1>2. CASE Version = "v4"
  <2>1. /\ PortUnreachable.version = "v4" /\ PortUnreachable.icmp_type = 3
        /\ PortUnreachable.code = 3
    BY <1>2 DEF PortUnreachable, v4
  <2>2. KindV4(3, 3, PortUnreachable.info) = Destination
    BY DEF KindV4, v4
  <2> QED
    BY <1>1, <2>1, <2>2 DEF kind
<1>3. CASE Version # "v4"
  <2>1. /\ PortUnreachable.version = "v6" /\ PortUnreachable.icmp_type = 1
        /\ PortUnreachable.code = 4
    BY <1>3 DEF PortUnreachable, v6
  <2>2. KindV6(1, 4, PortUnreachable.info) = Destination
    BY DEF KindV6, v6
  <2> QED
    BY <1>1, <2>1, <2>2 DEF kind
<1> QED
  BY <1>2, <1>3

\* Every answer to a probe is mapped to it and tells the truth about it.
LEMMA AnswerMeaning ==
  ASSUME NEW i \in Probes, NEW a \in Answers(i)
  PROVE  Finds(a[1], a[2], {i}) /\ \E x : Yields(a[1], a[2], x) /\ TrueOf(i, x)
<1>1. ttl(i) \in Nat /\ ttl(i) >= 1
  BY TtlType
<1>2. Hop # Destination
  BY DEF Hop, Destination
<1>3. CASE a \in RouterAnswers(i)
  <2>1. PICK d \in 1 .. PathLen - 1, e \in RouterErrors :
          /\ a = <<ErrQueue, ErrorMessage(probe(i), d, e, {i})>>
          /\ IF kind(e) = Hop THEN d = ttl(i) ELSE d <= ttl(i)
    BY <1>3 DEF RouterAnswers
  <2>2. e \in IcmpError /\ kind(e) # Destination /\ d \in Nat /\ d >= 1 /\ d < PathLen
    BY NetworkAssumption
  <2>3. a[1] = ErrQueue /\ a[2] = ErrorMessage(probe(i), d, e, {i})
    BY <2>1
  <2>4. Finds(a[1], a[2], {i}) /\ Yields(a[1], a[2], Found(d, kind(e)))
    BY <2>2, <2>3, ErrorIdentified
  <2>5. TrueOf(i, Found(d, kind(e)))
    <3> DEFINE x == Found(d, kind(e))
    <3>1. x.source = {d} /\ x.kind = kind(e)
      BY DEF Found
    <3> HIDE DEF x
    <3>2. TrueOf(i, x)
      BY <1>1, <2>1, <2>2, <3>1 DEF TrueOf
    <3> QED
      BY <3>2 DEF x
  <2> QED
    BY <2>4, <2>5
<1>4. CASE a \in TargetAnswers(i) /\ ttl(i) >= PathLen
  <2> DEFINE x == Found(Target, Destination)
  <2>1. TrueOf(i, x)
    BY <1>2, <1>4 DEF TrueOf, Found
  <2>2. ASSUME NEW n \in Nat, a = <<RecvQueue, TargetMessage(probe(i), n, {i})>>,
               Method = "icmp" => n >= 8, Method = "tcp" => n \in TcpAnswerLens
        PROVE  Finds(a[1], a[2], {i}) /\ Yields(a[1], a[2], x)
    <3>1. a[1] = RecvQueue /\ a[2] = TargetMessage(probe(i), n, {i})
      BY <2>2
    <3> QED
      BY <2>2, <3>1, TargetIdentified
  <2>3. ASSUME a = <<ErrQueue, ErrorMessage(probe(i), Target, PortUnreachable, {i})>>
        PROVE  Finds(a[1], a[2], {i}) /\ Yields(a[1], a[2], x)
    <3>1. a[1] = ErrQueue /\ a[2] = ErrorMessage(probe(i), Target, PortUnreachable, {i})
      BY <2>3
    <3>2. Finds(a[1], a[2], {i}) /\ Yields(a[1], a[2], Found(Target, kind(PortUnreachable)))
      BY <3>1, ErrorIdentified, PortUnreachableKind, MethodAssumption
    <3> QED
      BY <3>2, PortUnreachableKind
  <2> HIDE DEF x
  <2>4. Finds(a[1], a[2], {i}) /\ Yields(a[1], a[2], x)
    <3>1. CASE Method = "icmp"
      <4>1. a = <<RecvQueue, TargetMessage(probe(i), ECHO_HEADER_LEN + payload_len, {i})>>
        BY <1>4, <3>1 DEF TargetAnswers
      <4>2. ECHO_HEADER_LEN + payload_len \in Nat /\ ECHO_HEADER_LEN + payload_len >= 8
        <5>1. max_reply_len = ECHO_HEADER_LEN + payload_len
          BY <3>1 DEF max_reply_len
        <5> QED
          BY <3>1, <5>1, BufferHoldsHeaders, Lengths
      <4> QED
        BY <2>2, <3>1, <4>1, <4>2
    <3>2. CASE Method = "udp"
      <4>1. \/ a = <<RecvQueue, TargetMessage(probe(i), 0, {i})>>
            \/ a = <<ErrQueue, ErrorMessage(probe(i), Target, PortUnreachable, {i})>>
        BY <1>4, <3>2 DEF TargetAnswers
      <4> QED
        BY <2>2, <2>3, <3>2, <4>1
    <3>3. CASE Method = "tcp"
      <4>1. PICK n \in TcpAnswerLens : a = <<RecvQueue, TargetMessage(probe(i), n, {i})>>
        BY <1>4, <3>3 DEF TargetAnswers
      <4> QED
        BY <2>2, <3>3, <4>1, Lengths
    <3> QED
      BY <3>1, <3>2, <3>3, MethodAssumption
  <2> QED
    BY <2>1, <2>4
<1> QED
  BY <1>3, <1>4 DEF Answers

\* No field by which identify finds a probe is one of this trace's: for TCP the
\* index or the source port.
NotMine(p) ==
  /\ Method = "icmp" => p.seq \notin Probes
  /\ Method = "udp" => checked_sub(p.dport, START_PORT) \cap Probes = {}
  /\ Method = "tcp" => p.sport # SourcePort \/ u16_try_from(p.seq) \cap Probes = {}

\* Each stray packet differs from a probe where it matters.
LEMMA StrayPacketsNotMine == \A p \in StrayPackets : NotMine(p)
<1> SUFFICES ASSUME NEW p \in StrayPackets PROVE NotMine(p)
  OBVIOUS
<1>1. 0 \in Probes /\ NumProbes \in Nat /\ NumProbes \notin Probes /\ 65536 \notin U16
  BY Bounds DEF Probes, U16
<1>2. /\ Method = "icmp" => probe(0) = [sport |-> 0, dport |-> 0, seq |-> 0]
      /\ Method = "udp" => probe(0) = [sport |-> 0, dport |-> START_PORT, seq |-> 0]
      /\ Method = "tcp" => probe(0) = [sport |-> SourcePort, dport |-> DEST_PORT, seq |-> 0]
  BY DEF probe, IcmpProbe, UdpProbe, TcpProbe, UdpPort, START_PORT
<1>3. CASE Method = "icmp"
  <2>1. p = [probe(0) EXCEPT !.seq = NumProbes]
    BY <1>3 DEF StrayPackets
  <2>2. p.seq = NumProbes
    BY <1>2, <1>3, <2>1
  <2> QED
    BY <1>1, <1>3, <2>2 DEF NotMine
<1>4. CASE Method = "udp"
  <2>1. PICK n \in {START_PORT - 1, START_PORT + NumProbes} : p = [probe(0) EXCEPT !.dport = n]
    BY <1>4 DEF StrayPackets
  <2>2. p.dport = n
    BY <1>2, <1>4, <2>1
  <2>3. checked_sub(n, START_PORT) \in {{}, {NumProbes}}
    BY <1>1 DEF checked_sub, START_PORT
  <2> QED
    BY <1>1, <1>4, <2>2, <2>3 DEF NotMine
<1>5. CASE Method = "tcp"
  <2>1. \/ p = [probe(0) EXCEPT !.sport = SourcePort - 1]
        \/ \E n \in {NumProbes, 65536} : p = [probe(0) EXCEPT !.seq = n]
    BY <1>5 DEF StrayPackets
  <2>2. p.sport = SourcePort - 1 \/ p.seq = NumProbes \/ p.seq = 65536
    BY <1>2, <1>5, <2>1
  <2>3. SourcePort - 1 # SourcePort
    BY MethodAssumption DEF U16
  <2>4. u16_try_from(NumProbes) \cap Probes = {} /\ u16_try_from(65536) \cap Probes = {}
    BY <1>1 DEF u16_try_from
  <2> QED
    BY <1>5, <2>2, <2>3, <2>4 DEF NotMine
<1> QED
  BY <1>3, <1>4, <1>5, MethodAssumption

\* The target's answer to a datagram that is no probe is mapped to none.
LEMMA StrayAnswer ==
  ASSUME NEW p, Packet(p), NotMine(p), NEW bytes \in Nat
  PROVE  Finds(RecvQueue, TargetMessage(p, bytes, {}), {})
<1> DEFINE n == TargetMessage(p, bytes, {})
           m == Truncate(RecvQueue, n)
<1>1. n \in Message /\ n.of = {}
  BY TargetMessageType DEF TargetMessage
<1>2. \E reply : QuotesAnswer(n, reply, p, bytes)
  BY TargetReplyOf
<1> HIDE DEF n
<1>3. PICK reply : QuotesAnswer(n, reply, p, bytes)
  BY <1>2
<1>4. ReplyOf(RecvQueue, m) = {reply}
  BY <1>3 DEF QuotesAnswer
<1>5. identify(err_queue(RecvQueue), reply) \cap Probes = {}
  <2>1. ~err_queue(RecvQueue)
    BY DEF err_queue, RecvQueue, ErrQueue
  <2>2. CASE Method = "icmp"
    BY <1>3, <2>1, <2>2 DEF identify, sequence, QuotesAnswer, NotMine
  <2>3. CASE Method = "udp"
    <3>1. reply.source = {[ip |-> Target, port |-> p.dport]}
      BY <1>3 DEF QuotesAnswer
    <3>2. {s \in reply.source : s.ip = Target} = reply.source
      BY <3>1
    <3>3. IdentifyUdpReply(reply) = UNION {checked_sub(a.port, START_PORT) : a \in reply.source}
      BY <3>2 DEF IdentifyUdpReply
    <3>4. IdentifyUdpReply(reply) = checked_sub(p.dport, START_PORT)
      BY <3>1, <3>3
    <3> QED
      BY <2>1, <2>3, <3>4 DEF identify, NotMine
  <2>4. CASE Method = "tcp"
    <3>1. reply.quoted.dport = p.sport /\ reply.quoted.ack = p.seq + 1 /\ p.seq \in Nat
      BY <1>3 DEF QuotesAnswer, Packet, U32
    <3>2. checked_sub(reply.quoted.ack, 1) = {p.seq}
      BY <3>1 DEF checked_sub
    <3>3. UNION {u16_try_from(k) : k \in checked_sub(reply.quoted.ack, 1)} = u16_try_from(p.seq)
      BY <3>2
    <3>4. IdentifyTcpReply(reply) \subseteq u16_try_from(p.seq)
      BY <3>3 DEF IdentifyTcpReply
    <3>5. p.sport # SourcePort => IdentifyTcpReply(reply) = {}
      BY <3>1 DEF IdentifyTcpReply
    <3> QED
      BY <2>1, <2>4, <3>4, <3>5 DEF identify, NotMine
  <2> QED
    BY <2>2, <2>3, <2>4, MethodAssumption
<1>6. Identified(RecvQueue, m) = identify(err_queue(RecvQueue), reply) \cap Probes
  BY <1>4, OneReply, Zenon
<1>7. Finds(RecvQueue, n, {})
  BY <1>1, <1>5, <1>6, FindsIf
<1> QED
  BY <1>7 DEF n

\* So is an error about one.
LEMMA StrayError ==
  ASSUME NEW p, Packet(p), NotMine(p), NEW e \in IcmpError
  PROVE  Finds(ErrQueue, ErrorMessage(p, 1, e, {}), {})
<1> DEFINE n == ErrorMessage(p, 1, e, {})
           m == Truncate(ErrQueue, n)
<1>1. n \in Message /\ n.of = {}
  BY ErrorMessageType DEF ErrorMessage
<1>2. \E reply : QuotesError(n, reply, p, 1, e)
  BY ErrorReply
<1> HIDE DEF n
<1>3. PICK reply : QuotesError(n, reply, p, 1, e)
  BY <1>2
<1>4. ReplyOf(ErrQueue, m) = {reply}
  BY <1>3 DEF QuotesError
<1>5. identify(err_queue(ErrQueue), reply) \cap Probes = {}
  <2>1. err_queue(ErrQueue)
    BY DEF err_queue
  <2>2. CASE Method = "icmp"
    BY <1>3, <2>1, <2>2 DEF identify, sequence, QuotesError, NotMine
  <2>3. CASE Method = "udp"
    <3>1. reply.destination = {[ip |-> Target, port |-> p.dport]}
      BY <1>3 DEF QuotesError
    <3>2. IdentifyUdpError(reply) = checked_sub(p.dport, START_PORT)
      BY <3>1 DEF IdentifyUdpError
    <3> QED
      BY <2>1, <2>3, <3>2 DEF identify, NotMine
  <2>4. CASE Method = "tcp"
    BY <1>3, <2>1, <2>4 DEF identify, IdentifyTcpError, QuotesError, NotMine
  <2> QED
    BY <2>2, <2>3, <2>4, MethodAssumption
<1>6. Identified(ErrQueue, m) = identify(err_queue(ErrQueue), reply) \cap Probes
  BY <1>4, OneReply, Zenon
<1>7. Finds(ErrQueue, n, {})
  BY <1>1, <1>5, <1>6, FindsIf
<1> QED
  BY <1>7 DEF n

\* A message that misses one of the checks of the receive queue is mapped to none.
LEMMA NearAnswer ==
  ASSUME NEW n \in Message, n.of = {}, Method # "icmp", NearMiss(n)
  PROVE  Finds(RecvQueue, n, {})
<1> DEFINE m == Truncate(RecvQueue, n)
           reply == [source |-> m.name, destination |-> {}, quoted |-> m.quoted, error |-> {}]
<1>1. ~err_queue(RecvQueue)
  BY DEF err_queue, RecvQueue, ErrQueue
<1>2. ReplyOf(RecvQueue, m) = {reply}
  BY <1>1 DEF ReplyOf
<1>3. /\ m.of = {} /\ m.name = n.name /\ m.quoted.sport = n.quoted.sport
      /\ m.quoted.ack = n.quoted.ack /\ m.quoted.bytes <= n.quoted.bytes
      /\ m.quoted.bytes \in Nat /\ n.quoted.bytes \in Nat
  <2>1. /\ m.of = {} /\ m.name = n.name
        /\ m.quoted = [n.quoted EXCEPT !.bytes = IF @ > reply_room(RecvQueue)
                                                 THEN reply_room(RecvQueue) ELSE @]
    BY TruncateFields
  <2>2. n.quoted \in Quoted /\ reply_room(RecvQueue) \in Nat
    BY Lengths DEF Message
  <2> HIDE DEF m
  <2> QED
    BY <2>1, <2>2 DEF Quoted
<1> HIDE DEF m
<1>4. reply.source = n.name /\ reply.quoted = m.quoted
  BY <1>3
<1> HIDE DEF reply
<1>5. identify(err_queue(RecvQueue), reply) = {}
  <2>1. CASE Method = "udp"
    <3>1. IdentifyUdpReply(reply) = {}
      BY <1>4, <2>1 DEF NearMiss, IdentifyUdpReply
    <3> QED
      BY <1>1, <2>1, <3>1 DEF identify
  <2>2. CASE Method = "tcp"
    <3>1. ~WholeTcpHeader(n.quoted.bytes) => ~WholeTcpHeader(m.quoted.bytes)
      BY <1>3 DEF WholeTcpHeader, TCP_MIN_HEADER_LEN, MIN_IPV4_HEADER_LEN
    <3>2. checked_sub(0, 1) = {}
      BY DEF checked_sub
    <3> DEFINE S == {s \in reply.source :
                       /\ s.ip = Target
                       /\ WholeTcpHeader(reply.quoted.bytes)
                       /\ <<reply.quoted.sport, reply.quoted.dport>> = <<DEST_PORT, SourcePort>>}
               U == UNION {u16_try_from(k) : k \in checked_sub(reply.quoted.ack, 1)}
    <3>3. reply.quoted.ack = 0 => U = {}
      BY <3>2
    <3>4. /\ (\A s \in reply.source : s.ip # Target) => S = {}
          /\ reply.quoted.sport # DEST_PORT => S = {}
          /\ ~WholeTcpHeader(reply.quoted.bytes) => S = {}
      OBVIOUS
    <3>5. IdentifyTcpReply(reply) = {}
      <4>1. IdentifyTcpReply(reply) = UNION {U : b \in S}
        BY DEF IdentifyTcpReply
      <4> HIDE DEF S, U
      <4>2. U = {} \/ S = {}
        BY <1>3, <1>4, <3>1, <3>3, <3>4 DEF NearMiss
      <4> QED
        BY <4>1, <4>2
    <3> QED
      BY <1>1, <2>2, <3>5 DEF identify
  <2> QED
    BY <2>1, <2>2, MethodAssumption
<1>6. Identified(RecvQueue, m) = identify(err_queue(RecvQueue), reply) \cap Probes
  BY <1>2, OneReply, Zenon
<1> QED
  BY <1>5, <1>6, FindsIf DEF m

\* Without whole control data there is no reply on the error queue.
LEMMA NoControl ==
  ASSUME NEW m \in Message, m.of = {}, m.truncated \/ m.ext = {}
  PROVE  Finds(ErrQueue, m, {})
<1> DEFINE t == Truncate(ErrQueue, m)
<1>1. t.of = m.of /\ t.truncated = m.truncated /\ t.ext = m.ext
  BY TruncateFields
<1> HIDE DEF t
<1>2. ReplyOf(ErrQueue, t) = {}
  BY <1>1 DEF ReplyOf, err_queue
<1>3. Identified(ErrQueue, t) = {}
  BY <1>2 DEF Identified
<1> QED
  BY <1>3, FindsIf DEF t

\* A message that answers no probe of the trace is mapped to none.
LEMMA StrayMeaning == \A a \in Strays : Finds(a[1], a[2], {})
<1>1. \A p \in StrayPackets : Finds(RecvQueue, TargetMessage(p, LongReply, {}), {})
  BY StrayPacketsType, StrayPacketsNotMine, StrayAnswer, Lengths
<1>2. \A e \in RouterErrors : \A p \in StrayPackets : Finds(ErrQueue, ErrorMessage(p, 1, e, {}), {})
  BY StrayPacketsType, StrayPacketsNotMine, StrayError, NetworkAssumption
<1>3. \A m \in NearAnswers : Finds(RecvQueue, m, {})
  BY NearAnswersType, NearAnswer
<1>4. ASSUME NEW e \in RouterErrors
      PROVE  LET n == ErrorMessage(probe(0), 1, e, {})
             IN  /\ Finds(ErrQueue, [n EXCEPT !.truncated = TRUE], {})
                 /\ Finds(ErrQueue, [n EXCEPT !.ext = {}], {})
  <2> DEFINE n == ErrorMessage(probe(0), 1, e, {})
  <2>1. Packet(probe(0))
    BY ProbePacket, Bounds DEF Probes
  <2>2. n \in Message /\ n.of = {}
    BY <1>4, <2>1, ErrorMessageType, NetworkAssumption DEF ErrorMessage
  <2> HIDE DEF n
  <2>3. /\ [n EXCEPT !.truncated = TRUE] \in Message /\ [n EXCEPT !.ext = {}] \in Message
        /\ [n EXCEPT !.truncated = TRUE].of = {} /\ [n EXCEPT !.ext = {}].of = {}
        /\ [n EXCEPT !.truncated = TRUE].truncated /\ [n EXCEPT !.ext = {}].ext = {}
    BY <2>2 DEF Message
  <2>4. /\ Finds(ErrQueue, [n EXCEPT !.truncated = TRUE], {})
        /\ Finds(ErrQueue, [n EXCEPT !.ext = {}], {})
    BY <2>3, NoControl
  <2> QED
    BY <2>4 DEF n
<1> SUFFICES ASSUME NEW a \in Strays PROVE Finds(a[1], a[2], {})
  OBVIOUS
<1>5. \E r, m : a = <<r, m>> /\ Finds(r, m, {})
  BY <1>1, <1>2, <1>3, <1>4, StrayKinds, Zenon
<1> QED
  BY <1>5

\* A delivered message is for one of the readers, and answers none of the probes
\* or a transmitted one, truly.
LEMMA DeliveredMeaning ==
  ASSUME wire \subseteq Probes, NEW a \in Delivered
  PROVE  /\ a[1] \in Readers /\ a[2] \in Message
         /\ \/ Finds(a[1], a[2], {})
            \/ \E i \in wire : /\ Finds(a[1], a[2], {i})
                               /\ \E x : Yields(a[1], a[2], x) /\ TrueOf(i, x)
<1>1. CASE a \in Strays
  BY <1>1, StraysType, StrayMeaning
<1>2. CASE \E i \in wire : a \in Answers(i)
  BY <1>2, AnswersType, AnswerMeaning
<1> QED
  BY <1>1, <1>2 DEF Delivered

\* handle_read changes nothing, or records one true result for one transmitted
\* probe that is known as sent and had none.
LEMMA ReadRecords ==
  ASSUME wire \subseteq Probes, result \in [Probes -> SUBSET ProbeResult], NEW e,
         e.err = {} => Carries(e)
  PROVE  \/ ReadResult(e) = result
         \/ \E i \in wire : \E x :
              Records(i) /\ TrueOf(i, x) /\ ReadResult(e) = [result EXCEPT ![i] = {x}]
<1>1. CASE e.err # {}
  BY <1>1 DEF ReadResult
<1>2. CASE e.err = {}
  <2>1. PICK a \in Delivered : a[1] = e.slot /\ e.msg = {Truncate(e.slot, a[2])}
    BY <1>2 DEF Carries
  <2> DEFINE r == a[1]
             m == Truncate(a[1], a[2])
  <2>2. ReadResult(e) = [j \in Probes |-> IF Records(j) /\ j \in Identified(r, m)
                                          THEN ResultOf(r, m) ELSE result[j]]
    <3> HIDE DEF m
    <3>1. ReadResult(e) = handle_read(r, {m})
      BY <1>2, <2>1 DEF ReadResult, m
    <3>2. UNION {ResultOf(r, n) : n \in {m}} = ResultOf(r, m)
      OBVIOUS
    <3>3. \A j \in Probes : (\E n \in {m} : j \in Identified(r, n)) <=> j \in Identified(r, m)
      OBVIOUS
    <3> QED
      BY <3>1, <3>2, <3>3 DEF handle_read
  <2>3. CASE Finds(a[1], a[2], {})
    <3>1. Identified(r, m) = {}
      BY <2>3 DEF Finds
    <3> HIDE DEF r, m
    <3> QED
      BY <2>2, <3>1
  <2>4. CASE \E i \in wire : /\ Finds(a[1], a[2], {i})
                             /\ \E x : Yields(a[1], a[2], x) /\ TrueOf(i, x)
    <3>0. PICK i \in wire : /\ Finds(a[1], a[2], {i})
                            /\ \E x : Yields(a[1], a[2], x) /\ TrueOf(i, x)
      BY <2>4
    <3>1. PICK x : Finds(a[1], a[2], {i}) /\ Yields(a[1], a[2], x) /\ TrueOf(i, x)
      BY <3>0
    <3>2. Identified(r, m) = {i} /\ ResultOf(r, m) = {x} /\ i \in Probes
      BY <3>1 DEF Finds, Yields
    <3> HIDE DEF r, m
    <3>3. CASE Records(i)
      <4>1. ReadResult(e) = [result EXCEPT ![i] = {x}]
        BY <2>2, <3>2, <3>3
      <4> QED
        BY <3>1, <3>3, <4>1
    <3>4. CASE ~Records(i)
      BY <2>2, <3>2, <3>4
    <3> QED
      BY <3>3, <3>4
  <2> QED
    BY <2>3, <2>4, DeliveredMeaning
<1> QED
  BY <1>1, <1>2

-----------------------------------------------------------------------------
(* The messages in the rings and on the queues.                            *)

\* What was delivered stays so.
LEMMA DeliveredGrows == wire \subseteq wire' => Delivered \subseteq Delivered'
BY DEF Delivered

\* Nothing is posted, read or received.
LEMMA GenuineKept ==
  ASSUME QueuesGenuine, ReadsGenuine, wire \subseteq wire', cq' = cq, queues' = queues
  PROVE  QueuesGenuine' /\ ReadsGenuine'
<1>1. Delivered \subseteq Delivered'
  BY DeliveredGrows
<1>2. QueuesGenuine'
  BY <1>1 DEF QueuesGenuine
<1>3. ReadsGenuine'
  BY <1>1 DEF ReadsGenuine, Carries
<1> QED
  BY <1>2, <1>3

\* A completion is posted that carries no message, or a delivered one.
LEMMA GenuinePosted ==
  ASSUME ReadsGenuine, cq \in Seq(Cqe), NEW e \in Cqe, Post(e), e \in FilledCqes => Carries(e),
         wire' = wire
  PROVE  ReadsGenuine'
<1>1. cq' = Append(cq, e)
  BY DEF Post
<1>2. /\ DOMAIN cq' = DOMAIN cq \cup {Len(cq) + 1} /\ cq'[Len(cq) + 1] = e
      /\ \A k \in DOMAIN cq : cq'[k] = cq[k]
  BY <1>1, AppendElements
<1>3. \A k \in Entries(cq', FilledCqes) : Carries(cq'[k])
  BY <1>2 DEF ReadsGenuine, Entries
<1>4. \A c : Carries(c) => \E a \in Delivered' : a[1] = c.slot /\ c.msg = {Truncate(c.slot, a[2])}
  BY DeliveredGrows DEF Carries
<1> QED
  BY <1>3, <1>4 DEF ReadsGenuine, Carries

\* A completion is iterated over.
LEMMA GenuineConsumed ==
  ASSUME QueuesGenuine, ReadsGenuine, cq \in Seq(Cqe), visible \in 0 .. Len(cq), visible > 0,
         Consume, wire' = wire, queues' = queues
  PROVE  QueuesGenuine' /\ ReadsGenuine' /\ (head \in FilledCqes => Carries(head))
<1>1. cq' = Tail(cq) /\ cq # <<>>
  BY DEF Consume
<1>2. /\ \A k \in DOMAIN cq' : k + 1 \in DOMAIN cq /\ cq'[k] = cq[k + 1]
      /\ 1 \in DOMAIN cq
  BY <1>1, TailElements
<1>3. \A k \in Entries(cq', FilledCqes) : Carries(cq'[k])
  BY <1>2 DEF ReadsGenuine, Entries
<1>4. \A c : Carries(c) => \E a \in Delivered' : a[1] = c.slot /\ c.msg = {Truncate(c.slot, a[2])}
  BY DeliveredGrows DEF Carries
<1>5. ReadsGenuine'
  BY <1>3, <1>4 DEF ReadsGenuine, Carries
<1>6. head \in FilledCqes => Carries(head)
  BY <1>2 DEF ReadsGenuine, Entries, head
<1>7. QueuesGenuine'
  BY DeliveredGrows DEF QueuesGenuine
<1> QED
  BY <1>5, <1>6, <1>7

-----------------------------------------------------------------------------
(* Every action preserves ResultInv.                                       *)

\* What the kernel and the network do concerns neither results nor the outcome.
LEMMA OutcomeKept ==
  ASSUME OutcomeOK, Open, UNCHANGED app_vars
  PROVE  OutcomeOK'
BY DEF OutcomeOK, Open, Running, app_vars

\* Results stay true when more probes are transmitted or known as sent.
LEMMA AttributionKept ==
  ASSUME TypeOK, Attribution, result' = result, wire \subseteq wire',
         \A i \in Probes : sent_at[i] => sent_at'[i]
  PROVE  Attribution'
BY DEF Attribution

\* The initial state satisfies the invariant.
LEMMA InitResults == Init => ResultInv
<1> SUFFICES ASSUME Init PROVE ResultInv
  OBVIOUS
<1>1. QueuesGenuine
  BY DEF Init, QueuesGenuine
<1>2. ReadsGenuine
  BY EmptySlots DEF Init, ReadsGenuine
<1>3. Attribution
  BY DEF Init, Attribution
<1>4. OutcomeOK
  BY DEF Init, OutcomeOK, Open, Running
<1> QED
  BY <1>1, <1>2, <1>3, <1>4 DEF ResultInv

\* The steps of run() that handle no completion preserve it.
LEMMA LoopResults ==
  ASSUME Inv, ResultInv,
         Start \/ StartFails \/ Submit \/ SubmitBusy \/ SubmitFails \/ Wake \/ Interrupt
  PROVE  ResultInv'
<1>1. /\ TypeOK /\ QueuesGenuine /\ ReadsGenuine /\ Attribution /\ OutcomeOK
      /\ cq' = cq /\ queues' = queues /\ wire' = wire /\ result' = result /\ sent_at' = sent_at
  BY DEF Inv, ResultInv, Start, StartFails, Submit, SubmitBusy, SubmitFails, Wake, Interrupt,
     ring_vars, app_vars, kern_vars, net_vars
<1>2. QueuesGenuine' /\ ReadsGenuine'
  BY <1>1, GenuineKept
<1>3. Attribution'
  BY <1>1, AttributionKept
<1>4. OutcomeOK'
  <2>1. CASE Start
    <3>1. ~Reached(sending', result')
      BY <2>1, Bounds DEF Start, Reached, Probes
    <3> QED
      BY <1>1, <2>1, <3>1 DEF Start, OutcomeOK, Open, Running
  <2>2. CASE Submit \/ SubmitBusy \/ Wake
    BY <1>1, <2>2 DEF Submit, SubmitBusy, Wake, LoopTop, OutcomeOK, Open, Running, app_vars
  <2>3. CASE StartFails \/ SubmitFails
    BY <1>1, <2>3 DEF StartFails, SubmitFails, Return, LoopTop, OutcomeOK, Open, Running
  <2>4. CASE Interrupt
    BY <1>1, <2>4 DEF Interrupt, Return, OutcomeOK, Open, Running
  <2> QED
    BY <2>1, <2>2, <2>3, <2>4
<1> QED
  BY <1>2, <1>3, <1>4 DEF ResultInv

\* A completed send preserves it: when it was the last one, the kernel has none.
LEMMA WriteResults == ASSUME Inv, ResultInv, HandleWrite PROVE ResultInv'
<1>1. /\ TypeOK /\ Running /\ pc = "loop" /\ visible > 0 /\ head.state = "Write" /\ Consume
      /\ SendsAccounted /\ QueuesGenuine /\ ReadsGenuine /\ Attribution /\ OutcomeOK
  BY DEF Inv, ResultInv, HandleWrite, Draining, Running
<1>2. /\ UNCHANGED <<result, queues, wire, inflight, executed>>
      /\ sending' = sending \ {head.slot}
      /\ Conclude(sending', result')
  BY DEF HandleWrite, Removed, kern_vars, net_vars
<1>3. cq \in Seq(Cqe) /\ visible \in 0 .. Len(cq)
  BY <1>1 DEF TypeOK
<1>4. QueuesGenuine' /\ ReadsGenuine'
  BY <1>1, <1>2, <1>3, GenuineConsumed
<1>5. Attribution'
  <2>1. \A i \in Probes : sent_at[i] => sent_at'[i]
    BY <1>1 DEF HandleWrite, TypeOK
  <2> QED
    BY <1>1, <1>2, <2>1, AttributionKept
<1>6. sending' = {} => inflight' = {} /\ executed' = {}
  <2>1. head \in WriteCqes
    BY <1>1, <1>3, ConsumeEffect, CqeFields
  <2>2. head.slot \in Slots(cq, WriteCqes)
    BY <1>1, <1>3, <2>1, ConsumeEffect DEF SendsAccounted
  <2> QED
    BY <1>1, <1>2, <2>2 DEF SendsAccounted
<1>7. OutcomeOK'
  BY <1>1, <1>2, <1>6 DEF Conclude, Return, Reached, OutcomeOK, Open, Running
<1> QED
  BY <1>4, <1>5, <1>7 DEF ResultInv

\* A read that is handled preserves it: what it records is true.
LEMMA ReadResults == ASSUME Inv, ResultInv, HandleRead \/ RearmFails PROVE ResultInv'
<1>1. /\ TypeOK /\ Running /\ pc = "loop" /\ visible > 0 /\ head.state = "Read" /\ Consume
      /\ SendsAccounted /\ QueuesGenuine /\ ReadsGenuine /\ Attribution /\ OutcomeOK
  BY DEF Inv, ResultInv, HandleRead, RearmFails, Draining, Running
<1>2. /\ UNCHANGED <<sending, sent_at, queues, wire, inflight, executed>>
      /\ result' = ReadResult(head)
      /\ Conclude(sending', result') \/ Return("sq_full")
  BY DEF HandleRead, RearmFails, net_vars
<1>3. cq \in Seq(Cqe) /\ visible \in 0 .. Len(cq)
  BY <1>1 DEF TypeOK
<1>4. QueuesGenuine' /\ ReadsGenuine' /\ (head \in FilledCqes => Carries(head))
  BY <1>1, <1>2, <1>3, GenuineConsumed
<1>5. head.err = {} => Carries(head)
  BY <1>1, <1>3, <1>4, ConsumeEffect, CqeFields
<1>6. Attribution'
  <2>1. wire \subseteq Probes /\ result \in [Probes -> SUBSET ProbeResult]
    BY <1>1 DEF TypeOK
  <2>2. CASE result' = result
    BY <1>1, <1>2, <2>2, AttributionKept
  <2>3. CASE \E i \in wire : \E x :
               Records(i) /\ TrueOf(i, x) /\ result' = [result EXCEPT ![i] = {x}]
    <3>0. PICK i \in wire :
            \E x : Records(i) /\ TrueOf(i, x) /\ result' = [result EXCEPT ![i] = {x}]
      BY <2>3
    <3>1. PICK x : Records(i) /\ TrueOf(i, x) /\ result' = [result EXCEPT ![i] = {x}]
      BY <3>0
    <3>2. i \in Probes /\ sent_at[i] /\ result'[i] = {x}
          /\ \A j \in Probes \ {i} : result'[j] = result[j]
      BY <2>1, <3>1 DEF Records
    <3>3. \A j \in Probes : \A y \in result'[j] : sent_at'[j] /\ j \in wire' /\ TrueOf(j, y)
      BY <1>1, <1>2, <3>1, <3>2 DEF Attribution, TrueOf
    <3> QED
      BY <3>3 DEF Attribution, TrueOf
  <2> QED
    BY <1>2, <1>5, <2>1, <2>2, <2>3, ReadRecords
<1>7. sending' = {} => inflight' = {} /\ executed' = {}
  BY <1>1, <1>2 DEF SendsAccounted
<1>8. OutcomeOK'
  BY <1>1, <1>2, <1>7 DEF Conclude, Return, Reached, OutcomeOK, Open, Running
<1> QED
  BY <1>4, <1>6, <1>8 DEF ResultInv

\* The end of a trace preserves it.
LEMMA EndResults == ASSUME Inv, ResultInv, HandleTimeout \/ CloseRing PROVE ResultInv'
<1>1. /\ TypeOK /\ QueuesGenuine /\ ReadsGenuine /\ Attribution /\ OutcomeOK
      /\ UNCHANGED <<result, sent_at, wire, sending>>
  BY DEF Inv, ResultInv, HandleTimeout, CloseRing, net_vars
<1>2. Attribution'
  BY <1>1, AttributionKept
<1>3. CASE HandleTimeout
  <2>1. visible > 0 /\ Consume /\ queues' = queues /\ pc = "loop" /\ pc' = "dropped"
        /\ outcome' = "timeout" /\ cq \in Seq(Cqe) /\ visible \in 0 .. Len(cq)
    BY <1>1, <1>3 DEF HandleTimeout, Draining, Return, kern_vars, TypeOK
  <2>2. QueuesGenuine' /\ ReadsGenuine'
    BY <1>1, <2>1, GenuineConsumed
  <2>3. OutcomeOK'
    BY <2>1 DEF OutcomeOK, Open, Running
  <2> QED
    BY <1>2, <2>2, <2>3 DEF ResultInv
<1>4. CASE CloseRing
  <2>1. cq' = <<>> /\ queues' = [r \in Readers |-> <<>>] /\ pc = "dropped" /\ pc' = "closed"
        /\ outcome' = outcome /\ inflight' = {} /\ executed' = {}
    BY <1>4 DEF CloseRing
  <2>2. QueuesGenuine'
    BY <2>1 DEF QueuesGenuine
  <2>3. ReadsGenuine'
    BY <2>1, EmptySlots DEF ReadsGenuine
  <2>4. OutcomeOK'
    BY <1>1, <2>1 DEF OutcomeOK, Open, Running
  <2> QED
    BY <1>2, <2>2, <2>3, <2>4 DEF ResultInv
<1> QED
  BY <1>3, <1>4

\* The kernel preserves it: a completed read carries the first message of its queue.
LEMMA KernelResults == ASSUME Inv, ResultInv, Kernel PROVE ResultInv'
<1>1. /\ TypeOK /\ QueuesGenuine /\ ReadsGenuine /\ Attribution /\ OutcomeOK
      /\ cq \in Seq(Cqe) /\ Open /\ UNCHANGED app_vars
  BY DEF Inv, ResultInv, TypeOK, Kernel, Transmit, PostWrite, SendFails, Receive, NoBuffer,
     ReceiveError, Timer
<1>2. OutcomeOK'
  BY <1>1, OutcomeKept
<1>3. wire \subseteq wire'
  BY DEF Kernel, Transmit, PostWrite, SendFails, Receive, NoBuffer, ReceiveError, Timer, net_vars
<1>4. Attribution'
  BY <1>1, <1>3, AttributionKept DEF app_vars
<1>5. ASSUME NEW i \in Probes, Transmit(i) PROVE QueuesGenuine' /\ ReadsGenuine'
  BY <1>1, <1>3, <1>5, GenuineKept DEF Transmit, ring_vars
<1>6. ASSUME NEW e \in Cqe, e \notin FilledCqes, Post(e), queues' = queues, wire' = wire
      PROVE  QueuesGenuine' /\ ReadsGenuine'
  <2>1. ReadsGenuine'
    BY <1>1, <1>6, GenuinePosted
  <2>2. QueuesGenuine'
    BY <1>1, <1>6, DeliveredGrows DEF QueuesGenuine
  <2> QED
    BY <2>1, <2>2
<1>7. ASSUME NEW i \in Probes, PostWrite(i) \/ SendFails(i) PROVE QueuesGenuine' /\ ReadsGenuine'
  <2>1. PICK err \in SUBSET Errnos : Post(Completion(WriteSqe(i), err, FALSE, {}))
    BY <1>1, <1>7 DEF PostWrite, SendFails, TypeOK, Errnos
  <2>2. queues' = queues /\ wire' = wire
    BY <1>7 DEF PostWrite, SendFails, net_vars
  <2> QED
    BY <1>6, <2>1, <2>2, WriteCompletion
<1>8. ASSUME NEW r \in Readers, NoBuffer(r) PROVE QueuesGenuine' /\ ReadsGenuine'
  <2> DEFINE e == Completion(ReadSqe(r), {"ENOBUFS"}, FALSE, {})
  <2>1. Post(e) /\ queues' = queues /\ wire' = wire
    BY <1>8 DEF NoBuffer, net_vars
  <2>2. {"ENOBUFS"} \in SUBSET Errnos /\ {"ENOBUFS"} # {} /\ {} \in SUBSET Message
    BY DEF Errnos
  <2>3. e \in Cqe /\ e \notin FilledCqes
    BY <2>2, ReadCompletion
  <2> QED
    BY <1>6, <2>1, <2>3
<1>9. ASSUME ReceiveError PROVE QueuesGenuine' /\ ReadsGenuine'
  <2> DEFINE e == Completion(ReadSqe(RecvQueue), sk_err, FALSE, {})
  <2>1. Post(e) /\ queues' = queues /\ wire' = wire
    BY <1>9 DEF ReceiveError, net_vars
  <2>2. sk_err \in SUBSET Errnos /\ sk_err # {} /\ {} \in SUBSET Message /\ RecvQueue \in Readers
    BY <1>1, <1>9 DEF TypeOK, ReceiveError, Readers
  <2>3. e \in Cqe /\ e \notin FilledCqes
    BY <2>2, ReadCompletion
  <2> QED
    BY <1>6, <2>1, <2>3
<1>10. ASSUME Timer PROVE QueuesGenuine' /\ ReadsGenuine'
  <2>1. /\ Post(Completion(TimeoutSqe, {"ETIME"}, FALSE, {}))
        /\ queues' = queues /\ wire' = wire
    BY <1>10 DEF Timer, net_vars
  <2> QED
    BY <1>6, <2>1, TimeoutCompletion
<1>11. ASSUME NEW r \in Readers, Receive(r) PROVE QueuesGenuine' /\ ReadsGenuine'
  <2>1. PICK more \in BOOLEAN : Post(Completion(ReadSqe(r), {}, more, {Truncate(r, queues[r][1])}))
    BY <1>11 DEF Receive
  <2>2. /\ queues[r] \in Seq(Message) /\ queues[r] # <<>> /\ wire' = wire
        /\ queues' = [queues EXCEPT ![r] = Tail(@)] /\ queues \in [Readers -> Seq(Message)]
    BY <1>1, <1>11 DEF Receive, TypeOK, net_vars
  <2>3. 1 \in DOMAIN queues[r] /\ queues[r][1] \in Message
    BY <2>2, TailElements
  <2>4. <<r, queues[r][1]>> \in Delivered
    BY <1>1, <2>3 DEF QueuesGenuine
  <2> DEFINE m == Truncate(r, queues[r][1])
             e == Completion(ReadSqe(r), {}, more, {m})
  <2>5. {m} \in SUBSET Message
    BY <2>3, TruncateType
  <2>6. e \in Cqe /\ e.slot = r /\ e.msg = {m}
    <3> HIDE DEF m
    <3>1. e \in Cqe /\ e.slot = r
      BY <2>5, ReadCompletion
    <3>2. e.msg = {m}
      BY DEF Completion
    <3> QED
      BY <3>1, <3>2
  <2>7. Carries(e)
    <3> DEFINE a == <<r, queues[r][1]>>
    <3>1. a \in Delivered /\ a[1] = e.slot /\ e.msg = {Truncate(e.slot, a[2])}
      BY <2>4, <2>6
    <3> HIDE DEF a, e
    <3> QED
      BY <3>1 DEF Carries
  <2>8. ReadsGenuine'
    <3>1. Post(e)
      BY <2>1
    <3> HIDE DEF e
    <3> QED
      BY <1>1, <2>2, <2>6, <2>7, <3>1, GenuinePosted
  <2>9. QueuesGenuine'
    <3>1. \A k \in DOMAIN Tail(queues[r]) : <<r, Tail(queues[r])[k]>> \in Delivered
      BY <1>1, <2>2, TailElements DEF QueuesGenuine
    <3>2. queues'[r] = Tail(queues[r]) /\ \A s \in Readers \ {r} : queues'[s] = queues[s]
      BY <2>2
    <3>3. \A s \in Readers : \A k \in DOMAIN queues'[s] : <<s, queues'[s][k]>> \in Delivered
      BY <1>1, <3>1, <3>2 DEF QueuesGenuine
    <3> QED
      BY <1>3, <3>3, DeliveredGrows DEF QueuesGenuine
  <2> QED
    BY <2>8, <2>9
<1>12. QueuesGenuine' /\ ReadsGenuine'
  BY <1>5, <1>7, <1>8, <1>9, <1>10, <1>11 DEF Kernel
<1> QED
  BY <1>2, <1>4, <1>12 DEF ResultInv

\* The network preserves it: it delivers only what it has.
LEMMA NetworkResults == ASSUME Inv, ResultInv, Network PROVE ResultInv'
<1>1. TypeOK /\ QueuesGenuine /\ ReadsGenuine /\ Attribution /\ OutcomeOK
  BY DEF Inv, ResultInv
<1>2. PICK a \in Delivered : Arrive(a[1], a[2])
  BY DEF Network, Stray, Answer, Delivered
<1>3. Open /\ cq' = cq /\ wire' = wire /\ UNCHANGED app_vars
      /\ queues' = [queues EXCEPT ![a[1]] = Append(@, a[2])]
  BY <1>2 DEF Arrive, ring_vars
<1>4. a[1] \in Readers /\ a[2] \in Message
  BY <1>1, DeliveredMeaning DEF TypeOK
<1>5. OutcomeOK' /\ Attribution'
  BY <1>1, <1>3, OutcomeKept, AttributionKept DEF app_vars
<1>6. ReadsGenuine'
  BY <1>1, <1>3, DeliveredGrows DEF ReadsGenuine, Carries
<1>7. QueuesGenuine'
  <2> DEFINE r == a[1]
             m == a[2]
             q == Append(queues[r], m)
  <2>1. a = <<r, m>>
    <3>1. \A i : \A b \in Answers(i) : b = <<b[1], b[2]>>
      <4>1. \A i : \A b \in RouterAnswers(i) : b = <<b[1], b[2]>>
        BY DEF RouterAnswers
      <4>2. \A i : \A b \in TargetAnswers(i) : b = <<b[1], b[2]>>
        BY MethodAssumption DEF TargetAnswers
      <4> QED
        BY <4>1, <4>2 DEF Answers
    <3>2. \A b \in Strays : b = <<b[1], b[2]>>
      BY DEF Strays
    <3> QED
      BY <3>1, <3>2 DEF Delivered
  <2>2. queues \in [Readers -> Seq(Message)]
    BY <1>1 DEF TypeOK
  <2>3. /\ DOMAIN q = DOMAIN queues[r] \cup {Len(queues[r]) + 1}
        /\ q[Len(queues[r]) + 1] = m /\ \A k \in DOMAIN queues[r] : q[k] = queues[r][k]
    BY <1>4, <2>2, AppendElements
  <2>4. queues'[r] = q /\ \A s \in Readers \ {r} : queues'[s] = queues[s]
    BY <1>3, <1>4, <2>2
  <2> HIDE DEF q, r, m
  <2>5. \A k \in DOMAIN q : <<r, q[k]>> \in Delivered
    BY <1>1, <1>4, <2>1, <2>3 DEF QueuesGenuine, r
  <2>6. \A s \in Readers : \A k \in DOMAIN queues'[s] : <<s, queues'[s][k]>> \in Delivered
    BY <1>1, <2>4, <2>5 DEF QueuesGenuine
  <2> QED
    BY <1>3, <2>6, DeliveredGrows DEF QueuesGenuine
<1> QED
  BY <1>5, <1>6, <1>7 DEF ResultInv

-----------------------------------------------------------------------------
\* ResultInv is an invariant of the specification.
THEOREM ResultInvCorrect == Spec => []ResultInv
<1>1. Inv /\ ResultInv /\ [Next]_vars => ResultInv'
  <2> SUFFICES ASSUME Inv, ResultInv, [Next]_vars PROVE ResultInv'
    OBVIOUS
  <2>1. CASE Run
    BY <2>1, LoopResults, WriteResults, ReadResults, EndResults DEF Run, Thread
  <2>2. CASE Kernel
    BY <2>2, KernelResults
  <2>3. CASE Network
    BY <2>3, NetworkResults
  <2>4. CASE UNCHANGED vars
    <3>1. UNCHANGED <<cq, queues, wire, result, sent_at, pc, outcome, sending, inflight, executed>>
      BY <2>4 DEF vars, ring_vars, app_vars, kern_vars, net_vars
    <3>2. QueuesGenuine' /\ ReadsGenuine'
      BY <3>1, GenuineKept DEF ResultInv
    <3>3. Attribution'
      BY <3>1, AttributionKept DEF Inv, ResultInv
    <3>4. OutcomeOK'
      BY <3>1 DEF ResultInv, OutcomeOK, Open, Running
    <3> QED
      BY <3>2, <3>3, <3>4 DEF ResultInv
  <2> QED
    BY <2>1, <2>2, <2>3, <2>4 DEF Next, Finished
<1> QED
  BY <1>1, InitResults, InvCorrect, PTL DEF Spec

\* Whatever the method, a read completion is mapped to the probe it answers and to
\* no other: identify inverts probe() on every admitted index, through the cut to
\* the buffer, and answers nothing for messages of other flows.
THEOREM IdentifiedCorrect == Spec => []IdentifiedExactly
<1>1. Inv /\ ResultInv => IdentifiedExactly
  <2> SUFFICES ASSUME Inv, ResultInv, NEW k \in Entries(cq, FilledCqes), NEW m \in cq[k].msg
               PROVE  Identified(cq[k].slot, m) = m.of
    BY DEF IdentifiedExactly
  <2>1. wire \subseteq Probes
    BY DEF Inv, TypeOK
  <2>2. PICK a \in Delivered : a[1] = cq[k].slot /\ m = Truncate(a[1], a[2])
    BY DEF ResultInv, ReadsGenuine, Carries
  <2>3. \E P : Finds(a[1], a[2], P)
    BY <2>1, DeliveredMeaning
  <2> QED
    BY <2>2, <2>3 DEF Finds
<1> QED
  BY <1>1, InvCorrect, ResultInvCorrect, PTL

\* Every result in the report is true of the path, in any trace.
THEOREM AttributionCorrect == Spec => []Attribution
BY ResultInvCorrect, PTL DEF ResultInv

\* When run() returns early the target was reached, no hop before it is silent and
\* the kernel uses no send buffer.
THEOREM ReachedCorrect == Spec => []ReachedIsComplete
<1>1. ResultInv => ReachedIsComplete
  <2> SUFFICES ASSUME ResultInv, outcome = "reached"
               PROVE  \E i \in Probes :
                        /\ ttl(i) >= PathLen
                        /\ \E x \in result[i] : x.source = {Target}
                        /\ \A t \in FirstHop .. ttl(i) - 1 : HopAnswered(result, t)
    BY DEF ReachedIsComplete, ResultInv, OutcomeOK
  <2>1. PICK t \in AnsweredPrefix(result) : HopTerminates(result, t)
    BY DEF ResultInv, OutcomeOK, Reached
  <2>2. PICK i \in Probes : ttl(i) = t /\ \E x \in result[i] : x.kind = Destination
    BY <2>1 DEF HopTerminates, HopProbes, terminates_trace
  <2>3. ttl(i) >= PathLen /\ \E x \in result[i] : x.source = {Target}
    BY <2>2 DEF ResultInv, Attribution
  <2>4. \A u \in FirstHop .. t : HopAnswered(result, u)
    BY <2>1 DEF AnsweredPrefix
  <2>5. FirstHop .. t - 1 \subseteq FirstHop .. t
    BY <2>2, TtlType, ArgsAssumption
  <2> QED
    BY <2>2, <2>3, <2>4, <2>5
<1> QED
  BY <1>1, ResultInvCorrect, PTL

\* run() never waits when the trace is complete, in any trace.
THEOREM NeverOverstaysCorrect == Spec => []NeverOverstays
<1>1. ResultInv => NeverOverstays
  BY DEF ResultInv, OutcomeOK, NeverOverstays, Running
<1> QED
  BY <1>1, ResultInvCorrect, PTL
=============================================================================
