------------------------------ MODULE Methods ------------------------------
(***************************************************************************)
(* The three probing methods of src/src/method: what a probe carries, how  *)
(* a reply read from one of the two queues is mapped back to the probe it  *)
(* answers, and what it means.                                             *)
(*                                                                         *)
(* A Rust Option is a set with at most one element: None is {}, Some(x) is *)
(* {x}; the ? operator is a set comprehension.  A datagram is reduced to   *)
(* the header fields the code reads and to the number of bytes present, an *)
(* integer field keeps the width it has in the packet.                     *)
(***************************************************************************)
EXTENDS Icmp

CONSTANTS
  Method,       \* MethodArg: "icmp", "udp" or "tcp"
  Version,      \* IP version of the target: "v4" or "v6"
  Target,       \* the target's address
  PacketLen,    \* --size, the whole IP packet
  SourcePort    \* Tcp::source.port(), picked by the system

MIN_IPV4_HEADER_LEN == 20
IPV6_HEADER_LENGTH  == 40
ECHO_HEADER_LEN     == 8
UDP_HEADER_LEN      == 8
TCP_MIN_HEADER_LEN  == 20
START_PORT          == 33434
DEST_PORT           == 80

IpHeaderLen == IF Version = "v4" THEN MIN_IPV4_HEADER_LEN ELSE IPV6_HEADER_LENGTH

\* Icmp::min_packet_len and the same sum in Udp::try_new.  TCP ignores --size.
min_packet_len ==
  CASE Method = "icmp" -> IpHeaderLen + ECHO_HEADER_LEN
    [] Method = "udp"  -> IpHeaderLen + UDP_HEADER_LEN
    [] Method = "tcp"  -> 0

\* try_new fails, and there is no trace, when the packet cannot hold its headers.
ASSUME MethodAssumption ==
  /\ Method \in {"icmp", "udp", "tcp"}
  /\ Version \in {"v4", "v6"}
  /\ Target \in Nat
  /\ PacketLen \in Nat /\ PacketLen >= min_packet_len
  /\ SourcePort \in U16 \ {0}

payload_len == PacketLen - min_packet_len

-----------------------------------------------------------------------------
(* Addresses, datagrams and replies.                                       *)

\* std::net::SocketAddr
SockAddr == [ip : Nat, port : U16]

\* The header fields of a datagram; bytes is how many of it were read.
Quoted == [bytes : Nat, sport : U16, dport : U16, seq : U32, ack : U32]

\* struct Reply
Reply == [source : SUBSET SockAddr, destination : SUBSET SockAddr,
          quoted : Quoted, error : SUBSET IcmpError]

\* u16 and u32 checked_sub, u16::try_from: None when the result does not fit.
checked_sub(a, b) == IF a >= b THEN {a - b} ELSE {}
u16_try_from(n) == IF n \in U16 THEN {n} ELSE {}

-----------------------------------------------------------------------------
(* Method::probe: the fields the probe with ProbeId id carries.            *)

\* Udp::probe: START_PORT.overflowing_add(id), then += 1 when it wrapped.
UdpPort(id) == LET port == START_PORT + id
               IN  IF port > 65535 THEN (port % 65536) + 1 ELSE port

IcmpProbe(id) == [sport |-> 0, dport |-> 0, seq |-> id % 65536]
UdpProbe(id)  == [sport |-> 0, dport |-> UdpPort(id), seq |-> 0]
TcpProbe(id)  == [sport |-> SourcePort, dport |-> DEST_PORT, seq |-> id]

probe(id) ==
  CASE Method = "icmp" -> IcmpProbe(id)
    [] Method = "udp"  -> UdpProbe(id)
    [] Method = "tcp"  -> TcpProbe(id)

\* Method::max_reply_len: the room for a reply in every receive buffer.
max_reply_len ==
  CASE Method = "icmp" -> ECHO_HEADER_LEN + payload_len
    [] Method = "udp"  -> payload_len
    [] Method = "tcp"  -> (IF Version = "v4" THEN MIN_IPV4_HEADER_LEN ELSE 0)
                             + TCP_MIN_HEADER_LEN

-----------------------------------------------------------------------------
(* Replies::identify.  Every method opens two queues on its socket: the    *)
(* receive queue and, read through err_queue, the error queue.             *)

\* icmp.rs sequence(): bytes 6..8, for echo replies and quoted requests alike.
IdentField(reply) == IF reply.quoted.bytes >= 8 THEN {reply.quoted.sport} ELSE {}
sequence(reply) == IF reply.quoted.bytes >= 8 THEN {reply.quoted.seq} ELSE {}

\* UdpReplies::identify
IdentifyUdpAnySource(reply) == UNION {checked_sub(a.port, START_PORT) : a \in reply.source}
IdentifyUdpReply(reply) ==
  UNION {checked_sub(a.port, START_PORT) : a \in {s \in reply.source : s.ip = Target}}

\* udp.rs identify_from_error
IdentifyUdpError(reply) ==
  UNION {checked_sub(a.port, START_PORT) : a \in reply.destination}

\* Ipv4Packet::new and TcpPacket::new both succeed: a raw IPv4 socket reads
\* the IP header too, IPv6 does not.
WholeTcpHeader(bytes) ==
  bytes >= (IF Version = "v4" THEN MIN_IPV4_HEADER_LEN ELSE 0) + TCP_MIN_HEADER_LEN

\* TcpReplies::identify
IdentifyTcpAnyPort(reply) ==
  UNION {UNION {u16_try_from(n) : n \in checked_sub(reply.quoted.ack, 1)} :
         a \in {s \in reply.source : s.ip = Target /\ WholeTcpHeader(reply.quoted.bytes)}}
IdentifyTcpReply(reply) ==
  UNION {UNION {u16_try_from(n) : n \in checked_sub(reply.quoted.ack, 1)} :
         a \in {s \in reply.source :
                  /\ s.ip = Target
                  /\ WholeTcpHeader(reply.quoted.bytes)
                  /\ <<reply.quoted.sport, reply.quoted.dport>> = <<DEST_PORT, SourcePort>>}}

\* tcp.rs identify_from_error: only the first 8 bytes of the header are quoted.
IdentifyTcpError(reply) ==
  IF reply.quoted.bytes >= 8 /\ reply.quoted.sport = SourcePort
  THEN u16_try_from(reply.quoted.seq)
  ELSE {}

identify(err_queue, reply) ==
  CASE Method = "icmp"               -> sequence(reply)
    [] Method = "udp" /\ ~err_queue  -> IdentifyUdpReply(reply)
    [] Method = "udp" /\ err_queue   -> IdentifyUdpError(reply)
    [] Method = "tcp" /\ ~err_queue  -> IdentifyTcpReply(reply)
    [] Method = "tcp" /\ err_queue   -> IdentifyTcpError(reply)

\* Replies::classify: EchoReplies, UdpReplies and TcpReplies on the receive
\* queue, ErrorReplies on the error queue.
ClassifyReached(err_queue, reply) == Destination
classify(err_queue, reply) ==
  CASE ~err_queue                       -> Destination
    [] err_queue /\ reply.error = {}    -> Marker("!?")
    [] err_queue /\ reply.error # {}    -> kind(CHOOSE e \in reply.error : TRUE)

\* Replies::ignores_read_error: the same in all three receive queue readers;
\* ErrorReplies keeps the trait's default.
ignores_read_error(err_queue, errno) == ~err_queue /\ errno = "EHOSTUNREACH"

-----------------------------------------------------------------------------
(* External: the replies to a datagram with the fields of p.               *)

\* The target's reply, of the length max_reply_len is made for.
TargetReply(p) ==
  [source |-> {[ip |-> Target, port |-> p.dport]}, destination |-> {}, error |-> {},
   quoted |-> [bytes |-> max_reply_len, sport |-> p.dport, dport |-> p.sport,
               seq |-> p.seq, ack |-> p.seq + 1]]

\* An error of a router, which quotes eight bytes of the datagram.
RouterReply(p, e) ==
  [source |-> {[ip |-> Target + 1, port |-> 0]},
   destination |-> {[ip |-> Target, port |-> p.dport]}, error |-> {e},
   quoted |-> [bytes |-> 8, sport |-> p.sport, dport |-> p.dport, seq |-> p.seq, ack |-> 0]]
=============================================================================
