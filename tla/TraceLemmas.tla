---------------------------- MODULE TraceLemmas ----------------------------
(***************************************************************************)
(* Lemmas about the operators of Trace: entries of a ring under Append and *)
(* Tail, the types of entries, messages and results, and what posting and  *)
(* handling a completion do to the slots and entries the invariants count. *)
(***************************************************************************)
EXTENDS Trace, FiniteSetTheorems, TLAPS

-----------------------------------------------------------------------------
(* Entries, Slots and Unique under Append and Tail.                        *)

\* The elements of a sequence after Append.
LEMMA AppendElements ==
  ASSUME NEW R, NEW s \in Seq(R), NEW e \in R
  PROVE  /\ Append(s, e) \in Seq(R)
         /\ DOMAIN Append(s, e) = DOMAIN s \cup {Len(s) + 1}
         /\ Len(s) + 1 \notin DOMAIN s
         /\ Append(s, e)[Len(s) + 1] = e
         /\ \A k \in DOMAIN s : Append(s, e)[k] = s[k]
  OBVIOUS

\* The elements of a sequence after Tail, by the shift of positions.
LEMMA TailElements ==
  ASSUME NEW R, NEW s \in Seq(R), s # <<>>
  PROVE  /\ Tail(s) \in Seq(R)
         /\ Len(Tail(s)) = Len(s) - 1
         /\ 1 \in DOMAIN s /\ s[1] \in R
         /\ \A k \in DOMAIN Tail(s) : k + 1 \in DOMAIN s /\ k + 1 # 1 /\ Tail(s)[k] = s[k + 1]
         /\ \A k \in DOMAIN s : k # 1 => k - 1 \in DOMAIN Tail(s) /\ Tail(s)[k - 1] = s[k]
                                         /\ k \in Int
  OBVIOUS

\* The slots of a kind after an entry is appended.
LEMMA AppendSlots ==
  ASSUME NEW R, NEW s \in Seq(R), NEW e \in R, NEW Kind
  PROVE  Slots(Append(s, e), Kind) = Slots(s, Kind) \cup (IF e \in Kind THEN {e.slot} ELSE {})
  BY AppendElements DEF Slots, Entries

\* An appended entry with a slot of its own keeps the slots of a kind distinct.
LEMMA AppendUnique ==
  ASSUME NEW R, NEW s \in Seq(R), NEW e \in R, NEW Kind,
         Unique(s, Kind), e \in Kind => e.slot \notin Slots(s, Kind)
  PROVE  Unique(Append(s, e), Kind)
  BY AppendElements DEF Unique, Slots, Entries

\* With distinct slots, Tail takes away exactly the slot of the first entry.
LEMMA TailUnique ==
  ASSUME NEW R, NEW s \in Seq(R), s # <<>>, NEW Kind, Unique(s, Kind)
  PROVE  /\ Unique(Tail(s), Kind)
         /\ Slots(Tail(s), Kind) = Slots(s, Kind) \ (IF s[1] \in Kind THEN {s[1].slot} ELSE {})
         /\ s[1] \in Kind => s[1].slot \in Slots(s, Kind)
<1>1. \A k \in Entries(Tail(s), Kind) : k + 1 \in Entries(s, Kind) /\ k + 1 # 1
                                        /\ k \in Int /\ Tail(s)[k] = s[k + 1]
  BY TailElements DEF Entries
<1>2. \A k \in Entries(s, Kind) \ {1} : k - 1 \in Entries(Tail(s), Kind)
                                         /\ Tail(s)[k - 1] = s[k]
  BY TailElements DEF Entries
<1>3. 1 \in Entries(s, Kind) <=> s[1] \in Kind
  BY TailElements DEF Entries
<1>4. Unique(Tail(s), Kind)
  <2> SUFFICES ASSUME NEW j \in Entries(Tail(s), Kind), NEW k \in Entries(Tail(s), Kind),
                      Tail(s)[j].slot = Tail(s)[k].slot
               PROVE  j = k
    BY DEF Unique
  <2>1. j + 1 = k + 1
    BY <1>1 DEF Unique
  <2> QED
    BY <1>1, <2>1
<1>5. Slots(Tail(s), Kind) \subseteq Slots(s, Kind)
  <2> SUFFICES ASSUME NEW k \in Entries(Tail(s), Kind)
               PROVE  Tail(s)[k].slot \in Slots(s, Kind)
    BY DEF Slots
  <2> QED
    BY <1>1 DEF Slots
<1>6. s[1] \in Kind => s[1].slot \notin Slots(Tail(s), Kind)
  <2> SUFFICES ASSUME s[1] \in Kind, NEW k \in Entries(Tail(s), Kind),
                      Tail(s)[k].slot = s[1].slot
               PROVE  FALSE
    BY DEF Slots
  <2>1. k + 1 \in Entries(s, Kind) /\ 1 \in Entries(s, Kind) /\ s[k + 1].slot = s[1].slot
    BY <1>1, <1>3
  <2> QED
    BY <1>1, <2>1 DEF Unique
<1>7. Slots(s, Kind) \subseteq
        Slots(Tail(s), Kind) \cup (IF s[1] \in Kind THEN {s[1].slot} ELSE {})
  <2> SUFFICES ASSUME NEW k \in Entries(s, Kind)
               PROVE  \/ s[k].slot \in Slots(Tail(s), Kind)
                      \/ s[1] \in Kind /\ s[k].slot = s[1].slot
    BY DEF Slots
  <2>1. CASE k = 1
    BY <1>3, <2>1
  <2>2. CASE k # 1
    <3>1. k - 1 \in Entries(Tail(s), Kind) /\ Tail(s)[k - 1] = s[k]
      BY <1>2, <2>2
    <3> QED
      BY <3>1 DEF Slots
  <2> QED
    BY <2>1, <2>2
<1>8. s[1] \in Kind => s[1].slot \in Slots(s, Kind)
  BY <1>3 DEF Slots
<1> QED
  BY <1>4, <1>5, <1>6, <1>7, <1>8

\* The number of entries of a kind after an entry is appended.
LEMMA AppendCount ==
  ASSUME NEW R, NEW s \in Seq(R), NEW e \in R, NEW Kind
  PROVE  /\ IsFiniteSet(Entries(s, Kind))
         /\ Cardinality(Entries(s, Kind)) \in Nat
         /\ Cardinality(Entries(Append(s, e), Kind)) =
              Cardinality(Entries(s, Kind)) + (IF e \in Kind THEN 1 ELSE 0)
<1>1. IsFiniteSet(Entries(s, Kind))
  <2>1. IsFiniteSet(1 .. Len(s))
    BY FS_Interval
  <2> QED
    BY <2>1, FS_Subset DEF Entries
<1>2. Entries(Append(s, e), Kind) =
        Entries(s, Kind) \cup (IF e \in Kind THEN {Len(s) + 1} ELSE {})
  BY AppendElements DEF Entries
<1>3. Len(s) + 1 \notin Entries(s, Kind)
  BY AppendElements DEF Entries
<1>4. Cardinality(Entries(s, Kind)) \in Nat
  BY <1>1, FS_CardinalityType
<1>5. CASE e \in Kind
  <2>1. Entries(Append(s, e), Kind) = Entries(s, Kind) \cup {Len(s) + 1}
    BY <1>2, <1>5
  <2>2. Cardinality(Entries(s, Kind) \cup {Len(s) + 1}) = Cardinality(Entries(s, Kind)) + 1
    BY <1>1, <1>3, FS_AddElement
  <2> QED
    BY <1>1, <1>4, <1>5, <2>1, <2>2
<1>6. CASE e \notin Kind
  BY <1>1, <1>2, <1>4, <1>6
<1> QED
  BY <1>5, <1>6

\* The number of entries of a kind after the first one is taken away.
LEMMA TailCount ==
  ASSUME NEW R, NEW s \in Seq(R), s # <<>>, NEW Kind
  PROVE  /\ Cardinality(Entries(s, Kind)) \in Nat
         /\ Cardinality(Entries(Tail(s), Kind)) \in Nat
         /\ Cardinality(Entries(s, Kind)) =
              Cardinality(Entries(Tail(s), Kind)) + (IF s[1] \in Kind THEN 1 ELSE 0)
<1> DEFINE S == Entries(s, Kind)
           T == Entries(Tail(s), Kind)
           f == [k \in T |-> k + 1]
<1>1. IsFiniteSet(S) /\ IsFiniteSet(T)
  <2>1. IsFiniteSet(1 .. Len(s)) /\ IsFiniteSet(1 .. Len(Tail(s)))
    BY FS_Interval, TailElements
  <2> QED
    BY <2>1, FS_Subset DEF Entries
<1>2. f \in Bijection(T, S \ {1})
  <2>1. \A k \in T : k + 1 \in S \ {1} /\ k \in Int
    BY TailElements DEF Entries
  <2>2. \A k \in S \ {1} : k - 1 \in T /\ (k - 1) + 1 = k
    BY TailElements DEF Entries
  <2> QED
    BY <2>1, <2>2 DEF Bijection, Injection, Surjection, IsInjective
<1>3. Cardinality(S \ {1}) = Cardinality(T)
  BY <1>1, <1>2, FS_Bijection DEF ExistsBijection
<1>4. 1 \in S <=> s[1] \in Kind
  BY TailElements DEF Entries
<1> QED
  <2> HIDE DEF S, T
  <2>1. Cardinality(S) \in Nat /\ Cardinality(T) \in Nat
    BY <1>1, FS_CardinalityType
  <2>2. Cardinality(S \ {1}) = IF 1 \in S THEN Cardinality(S) - 1 ELSE Cardinality(S)
    BY <1>1, FS_RemoveElement
  <2>3. Cardinality(S) = Cardinality(T) + (IF s[1] \in Kind THEN 1 ELSE 0)
    BY <1>3, <1>4, <2>1, <2>2
  <2> QED
    BY <2>1, <2>3 DEF S, T

-----------------------------------------------------------------------------
(* Constants and records.                                                  *)

\* main() admits between 2 and 2295 probes, so no index or slot is cut by a u16.
LEMMA Bounds ==
  /\ NumProbes \in 2 .. 2295
  /\ NumBufs \in Nat
  /\ Probes \subseteq 0 .. 2294
<1>1. LastHop - FirstHop + 1 \in 2 .. 255
  BY ArgsAssumption
<1>2. Count \in {1, 2, 3, 4, 5, 6, 7, 8, 9}
  BY ArgsAssumption
<1>3. NumProbes \in 2 .. 2295
  <2> DEFINE n == LastHop - FirstHop + 1
  <2> HIDE DEF n
  <2>1. n \in 2 .. 255
    BY <1>1 DEF n
  <2>2. NumProbes = n * Count
    BY DEF n, NumProbes
  <2> QED
    BY <1>2, <2>1, <2>2
<1> QED
  BY <1>3 DEF NumBufs, Probes

\* User data keeps the slot it is given.
LEMMA SqeTypes ==
  /\ \A i \in Probes : WriteSqe(i) = [slot |-> i, state |-> "Write"]
  /\ \A r \in Readers : ReadSqe(r) = [slot |-> r, state |-> "Read"]
  /\ TimeoutSqe = [slot |-> 0, state |-> "Timeout"]
<1>1. \A i \in 0 .. 2294 : i % 65536 = i
  OBVIOUS
<1>2. \A i \in Probes : i % 65536 = i
  <2> TAKE i \in Probes
  <2>1. i \in 0 .. 2294
    BY Bounds
  <2> QED
    BY <2>1
<1>3. \A r \in Readers : r % 65536 = r
  BY <1>1 DEF Readers, RecvQueue, ErrQueue
<1>4. 0 % 65536 = 0
  OBVIOUS
<1>5. \A i \in Probes : WriteSqe(i) = [slot |-> i, state |-> "Write"]
  BY <1>2 DEF WriteSqe, UserData
<1>6. \A r \in Readers : ReadSqe(r) = [slot |-> r, state |-> "Read"]
  BY <1>3 DEF ReadSqe, UserData
<1>7. TimeoutSqe = [slot |-> 0, state |-> "Timeout"]
  BY <1>4 DEF TimeoutSqe, UserData
<1> QED
  BY <1>5, <1>6, <1>7

\* IcmpError::kind yields a ReplyKind for every type and code.
LEMMA KindType == \A e \in IcmpError : kind(e) \in ReplyKind
<1> SUFFICES ASSUME NEW t \in U8, NEW c \in U8, NEW info \in U32
             PROVE  KindV4(t, c, info) \in ReplyKind /\ KindV6(t, c, info) \in ReplyKind
  BY DEF IcmpError, kind
<1>1. /\ \A m \in Markers : Marker(m) \in ReplyKind
      /\ Code(c) \in ReplyKind /\ Other(t, c) \in ReplyKind /\ TooBig(info) \in ReplyKind
      /\ Hop \in ReplyKind /\ Destination \in ReplyKind
  BY DEF ReplyKind, Marker, Code, Other, TooBig, Hop, Destination
<1>2. {"!N", "!H", "!X", "!P", "!S", "!V", "!C"} \subseteq Markers
  BY DEF Markers
<1>3. KindV4(t, c, info) \in ReplyKind
  BY <1>1, <1>2 DEF KindV4, v4, U8
<1>4. KindV6(t, c, info) \in ReplyKind
  BY <1>1, <1>2 DEF KindV6, v6, U8
<1> QED
  BY <1>3, <1>4

\* What the kernel posts for a send is a completion of a write.
LEMMA WriteCompletion ==
  ASSUME NEW i \in Probes, NEW err \in SUBSET Errnos
  PROVE  LET e == Completion(WriteSqe(i), err, FALSE, {})
         IN  /\ e \in Cqe /\ e \in WriteCqes /\ e \notin FinalCqes /\ e \notin FilledCqes
             /\ e.slot = i
<1> DEFINE e == [slot |-> i, state |-> "Write", err |-> err, more |-> FALSE, msg |-> {}]
<1>1. Completion(WriteSqe(i), err, FALSE, {}) = e
  <2>1. WriteSqe(i) = [slot |-> i, state |-> "Write"]
    BY SqeTypes
  <2> QED
    BY <2>1 DEF Completion
<1>2. e \in Cqe
  BY DEF Cqe
<1>3. /\ e \in WriteCqes /\ e \notin FinalCqes /\ e \notin FilledCqes
      /\ e.slot = i
  BY <1>2 DEF WriteCqes, FinalCqes, FilledCqes
<1> HIDE DEF e
<1> QED
  BY <1>1, <1>2, <1>3

\* The same of a read.
LEMMA ReadCompletion ==
  ASSUME NEW r \in Readers, NEW err \in SUBSET Errnos, NEW more \in BOOLEAN,
         NEW msg \in SUBSET Message
  PROVE  LET e == Completion(ReadSqe(r), err, more, msg)
         IN  /\ e \in Cqe /\ e \notin WriteCqes
             /\ e \in FinalCqes <=> ~more
             /\ e \in FilledCqes <=> err = {}
             /\ e.slot = r
<1> DEFINE e == [slot |-> r, state |-> "Read", err |-> err, more |-> more, msg |-> msg]
<1>1. Completion(ReadSqe(r), err, more, msg) = e
  BY SqeTypes DEF Completion
<1>2. e \in Cqe
  BY DEF Cqe
<1>3. /\ e \notin WriteCqes
      /\ e \in FinalCqes <=> ~more
      /\ e \in FilledCqes <=> err = {}
      /\ e.slot = r
  BY <1>2 DEF WriteCqes, FinalCqes, FilledCqes
<1> HIDE DEF e
<1> QED
  BY <1>1, <1>2, <1>3

\* The same of the timeout.
LEMMA TimeoutCompletion ==
  LET e == Completion(TimeoutSqe, {"ETIME"}, FALSE, {})
  IN  e \in Cqe /\ e \notin WriteCqes /\ e \notin FinalCqes /\ e \notin FilledCqes
<1> DEFINE e == [slot |-> 0, state |-> "Timeout", err |-> {"ETIME"}, more |-> FALSE, msg |-> {}]
<1>1. Completion(TimeoutSqe, {"ETIME"}, FALSE, {}) = e
  BY SqeTypes DEF Completion
<1>2. e \in Cqe
  BY DEF Cqe
<1>3. e \notin WriteCqes /\ e \notin FinalCqes /\ e \notin FilledCqes
  BY <1>2 DEF WriteCqes, FinalCqes, FilledCqes
<1> HIDE DEF e
<1> QED
  BY <1>1, <1>2, <1>3

\* The fields of a completion by its kind.
LEMMA CqeFields ==
  ASSUME NEW e \in Cqe
  PROVE  /\ e.state = "Write" => /\ e \in WriteCqes /\ e.slot \in Probes
                                 /\ e \notin FinalCqes /\ e \notin FilledCqes
         /\ e.state = "Read" => /\ e.slot \in Readers /\ e.msg \subseteq Message
                                /\ e \notin WriteCqes
                                /\ e \in FinalCqes <=> ~e.more
                                /\ e \in FilledCqes <=> e.err = {}
         /\ e.state = "Timeout" => /\ e \notin WriteCqes /\ e \notin FinalCqes
                                   /\ e \notin FilledCqes
BY DEF Cqe, WriteCqes, FinalCqes, FilledCqes

-----------------------------------------------------------------------------
(* Messages.                                                               *)

\* The header fields of a datagram as ErrorMessage and TargetMessage use them.
Packet(p) == p.sport \in U16 /\ p.dport \in U16 /\ p.seq \in U32

\* The fields of a probe have the widths of their headers.
LEMMA ProbePacket == \A i \in Probes : Packet(probe(i))
<1> SUFFICES ASSUME NEW i \in Probes PROVE Packet(probe(i))
  OBVIOUS
<1>1. i \in 0 .. 2294
  BY Bounds
<1>2. UdpPort(i) \in U16
  <2>1. START_PORT + i \in Nat /\ START_PORT + i < 40000
    BY <1>1 DEF START_PORT
  <2>2. UdpPort(i) = START_PORT + i
    BY <2>1 DEF UdpPort
  <2> QED
    BY <2>1, <2>2 DEF U16
<1>3. i % 65536 = i
  BY <1>1
<1>4. SourcePort \in U16 /\ DEST_PORT \in U16 /\ 0 \in U16 /\ i \in U16
  <2>1. SourcePort \in U16
    BY MethodAssumption
  <2> QED
    BY <1>1, <2>1 DEF U16, DEST_PORT
<1>5. 0 \in U32 /\ i \in U32
  BY <1>1 DEF U32
<1> QED
  BY <1>2, <1>3, <1>4, <1>5, MethodAssumption DEF Packet, probe, IcmpProbe, UdpProbe, TcpProbe

\* So have those of the packets that are no probes.
LEMMA StrayPacketsType == \A p \in StrayPackets : Packet(p)
<1> DEFINE Sport(n) == [probe(0) EXCEPT !.sport = n]
           Dport(n) == [probe(0) EXCEPT !.dport = n]
           Number(n) == [probe(0) EXCEPT !.seq = n]
<1>1. Packet(probe(0)) /\ NumProbes \in Nat /\ NumProbes <= 2295
  BY ProbePacket, Bounds DEF Probes
<1>2. /\ START_PORT - 1 \in U16 /\ START_PORT + NumProbes \in U16
      /\ SourcePort - 1 \in U16 /\ NumProbes \in U32 /\ 65536 \in U32
  BY <1>1, MethodAssumption DEF START_PORT, U16, U32
<1>3. probe(0) = [sport |-> probe(0).sport, dport |-> probe(0).dport, seq |-> probe(0).seq]
  BY MethodAssumption DEF probe, IcmpProbe, UdpProbe, TcpProbe
<1>4. /\ \A n \in U16 : Packet(Sport(n)) /\ Packet(Dport(n))
      /\ \A n \in U32 : Packet(Number(n))
  BY <1>1, <1>3 DEF Packet
<1>5. /\ Method = "icmp" => StrayPackets = {Number(NumProbes)}
      /\ Method = "udp" => StrayPackets = {Dport(n) : n \in {START_PORT - 1, START_PORT + NumProbes}}
      /\ Method = "tcp" => StrayPackets = {Sport(SourcePort - 1)}
                                            \cup {Number(n) : n \in {NumProbes, 65536}}
  BY DEF StrayPackets
<1> HIDE DEF Sport, Dport, Number
<1>6. CASE Method = "icmp"
  BY <1>2, <1>4, <1>5, <1>6
<1>7. CASE Method = "udp"
  BY <1>2, <1>4, <1>5, <1>7
<1>8. CASE Method = "tcp"
  BY <1>2, <1>4, <1>5, <1>8
<1> QED
  BY <1>6, <1>7, <1>8, MethodAssumption

\* An error on the error queue is a message.
LEMMA ErrorMessageType ==
  ASSUME NEW p, Packet(p), NEW d \in Nat, NEW e \in IcmpError, NEW of \in SUBSET U16
  PROVE  ErrorMessage(p, d, e, of) \in Message
<1>1. [ip |-> Target, port |-> p.dport] \in SockAddr /\ [ip |-> d, port |-> 0] \in SockAddr
  <2>1. 0 \in U16
    BY DEF U16
  <2> QED
    BY <2>1, MethodAssumption DEF Packet, SockAddr
<1>2. [error |-> e, offender |-> {[ip |-> d, port |-> 0]}] \in Extended
  BY <1>1 DEF Extended
<1>3. [bytes |-> IF Method = "udp" THEN 0 ELSE 8,
       sport |-> p.sport, dport |-> p.dport, seq |-> p.seq, ack |-> 0] \in Quoted
  BY DEF Packet, Quoted, U32
<1> QED
  BY <1>1, <1>2, <1>3 DEF ErrorMessage, Message

\* An answer on the receive queue is a message.
LEMMA TargetMessageType ==
  ASSUME NEW p, Packet(p), NEW bytes \in Nat, NEW of \in SUBSET U16
  PROVE  TargetMessage(p, bytes, of) \in Message
<1>1. [ip |-> Target, port |-> p.dport] \in SockAddr
  BY MethodAssumption DEF Packet, SockAddr
<1>2. [bytes |-> bytes, sport |-> p.dport, dport |-> p.sport,
       seq |-> p.seq, ack |-> p.seq + 1] \in Quoted
  BY DEF Packet, Quoted, U32
<1> QED
  BY <1>1, <1>2 DEF TargetMessage, Message

\* Buffer and packet lengths are natural numbers: try_new refused packets that are too small.
LEMMA Lengths ==
  /\ max_reply_len \in Nat /\ ECHO_HEADER_LEN + payload_len \in Nat
  /\ TcpAnswerLens \subseteq Nat
  /\ \A r : reply_room(r) \in Nat /\ reply_room(r) >= max_reply_len
  /\ LongReply \in Nat
<1>1. payload_len \in Nat
  BY MethodAssumption DEF payload_len, min_packet_len, IpHeaderLen, MIN_IPV4_HEADER_LEN,
     IPV6_HEADER_LENGTH, ECHO_HEADER_LEN, UDP_HEADER_LEN
<1>2. /\ max_reply_len \in Nat /\ ECHO_HEADER_LEN + payload_len \in Nat
      /\ TcpAnswerLens \subseteq Nat
  BY <1>1, MethodAssumption DEF max_reply_len, ECHO_HEADER_LEN, TCP_MIN_HEADER_LEN,
     MIN_IPV4_HEADER_LEN, TcpAnswerLens
<1>3. \A r : reply_room(r) \in Nat /\ reply_room(r) >= max_reply_len
  BY <1>2 DEF reply_room, RECVERR_CONTROL_LEN
<1> QED
  BY <1>2, <1>3 DEF LongReply

\* A message cut to a reader's buffer is a message.
LEMMA TruncateType == \A r : \A m \in Message : Truncate(r, m) \in Message
BY Lengths DEF Truncate, Message, Quoted

\* The answers to a probe are messages for one of the two queues.
LEMMA AnswersType ==
  \A i \in Probes : \A a \in Answers(i) : a[1] \in Readers /\ a[2] \in Message
<1> SUFFICES ASSUME NEW i \in Probes
             PROVE  \A a \in Answers(i) : a[1] \in Readers /\ a[2] \in Message
  OBVIOUS
<1>1. Packet(probe(i)) /\ {i} \in SUBSET U16
  BY ProbePacket, Bounds DEF U16
<1>2. RecvQueue \in Readers /\ ErrQueue \in Readers
  BY DEF Readers
<1>3. \A a \in RouterAnswers(i) : a[1] \in Readers /\ a[2] \in Message
  <2>1. \A d \in 1 .. PathLen - 1 : \A e \in RouterErrors :
          ErrorMessage(probe(i), d, e, {i}) \in Message
    BY <1>1, ErrorMessageType, NetworkAssumption
  <2> QED
    BY <1>2, <2>1 DEF RouterAnswers
<1>4. \A a \in TargetAnswers(i) : a[1] \in Readers /\ a[2] \in Message
  <2>1. \A n \in Nat : TargetMessage(probe(i), n, {i}) \in Message
    BY <1>1, TargetMessageType
  <2>2. PortUnreachable \in IcmpError
    BY DEF PortUnreachable, IcmpError, v4, v6, U8, U32
  <2>3. ErrorMessage(probe(i), Target, PortUnreachable, {i}) \in Message
    BY <1>1, <2>2, ErrorMessageType, MethodAssumption
  <2>4. ECHO_HEADER_LEN + payload_len \in Nat /\ TcpAnswerLens \subseteq Nat
    BY Lengths
  <2> QED
    BY <1>2, <2>1, <2>3, <2>4, MethodAssumption DEF TargetAnswers
<1> QED
  BY <1>3, <1>4 DEF Answers

\* A message that is not from the target, or that a TCP trace refuses.
NearMiss(m) ==
  \/ \A s \in m.name : s.ip # Target
  \/ /\ Method = "tcp"
     /\ m.quoted.sport # DEST_PORT \/ m.quoted.ack = 0 \/ ~WholeTcpHeader(m.quoted.bytes)

\* The messages that resemble an answer to probe 0 answer none, and each fails one
\* of the checks of identify.
LEMMA NearAnswersType ==
  \A m \in NearAnswers : m \in Message /\ m.of = {} /\ Method # "icmp" /\ NearMiss(m)
<1> DEFINE m == TargetMessage(probe(0), max_reply_len, {})
           other == [m EXCEPT !.name = {[ip |-> Target + 1, port |-> probe(0).dport]}]
           port == [m EXCEPT !.quoted.sport = DEST_PORT + 1]
           none == [m EXCEPT !.quoted.ack = 0]
           cut == [m EXCEPT !.quoted.bytes = max_reply_len - 1]
           OK(n) == n \in Message /\ n.of = {} /\ NearMiss(n)
<1>1. Packet(probe(0))
  BY ProbePacket, Bounds DEF Probes
<1>2. m \in Message /\ m.of = {}
  BY <1>1, TargetMessageType, Lengths DEF TargetMessage
<1> HIDE DEF m
<1>3. OK(other)
  <2>1. [ip |-> Target + 1, port |-> probe(0).dport] \in SockAddr /\ Target + 1 # Target
    BY <1>1, MethodAssumption DEF Packet, SockAddr
  <2>2. other \in Message /\ other.of = {}
    BY <1>2, <2>1 DEF Message
  <2>3. other.name = {[ip |-> Target + 1, port |-> probe(0).dport]}
    BY <1>2 DEF Message
  <2> HIDE DEF other
  <2>4. \A s \in other.name : s.ip # Target
    BY <2>1, <2>3
  <2> QED
    BY <2>2, <2>4 DEF NearMiss
<1>4. ASSUME Method = "tcp" PROVE OK(port)
  <2>1. port \in Message /\ port.of = {} /\ port.quoted.sport = DEST_PORT + 1
    BY <1>2 DEF Message, Quoted, U16, DEST_PORT
  <2> HIDE DEF port
  <2> QED
    BY <1>4, <2>1 DEF NearMiss, DEST_PORT
<1>5. ASSUME Method = "tcp" PROVE OK(none)
  <2>1. none \in Message /\ none.of = {} /\ none.quoted.ack = 0
    BY <1>2 DEF Message, Quoted, U32
  <2> HIDE DEF none
  <2> QED
    BY <1>5, <2>1 DEF NearMiss
<1>6. ASSUME Method = "tcp" PROVE OK(cut)
  <2>1. max_reply_len - 1 \in Nat /\ ~WholeTcpHeader(max_reply_len - 1)
    BY <1>6 DEF max_reply_len, WholeTcpHeader, MIN_IPV4_HEADER_LEN, TCP_MIN_HEADER_LEN
  <2>2. cut \in Message /\ cut.of = {} /\ cut.quoted.bytes = max_reply_len - 1
    BY <1>2, <2>1 DEF Message, Quoted
  <2> HIDE DEF cut
  <2> QED
    BY <1>6, <2>1, <2>2 DEF NearMiss
<1>7. /\ Method = "icmp" => NearAnswers = {}
      /\ Method = "udp" => NearAnswers = {other}
      /\ Method = "tcp" => NearAnswers = {other, port, none, cut}
  BY DEF NearAnswers, m
<1> HIDE DEF other, port, none, cut
<1> QED
  BY <1>3, <1>4, <1>5, <1>6, <1>7, MethodAssumption

\* The kinds of stray messages.
LEMMA StrayKinds ==
  ASSUME NEW a \in Strays
  PROVE  \/ \E p \in StrayPackets : a = <<RecvQueue, TargetMessage(p, LongReply, {})>>
         \/ \E m \in NearAnswers : a = <<RecvQueue, m>>
         \/ \E e \in RouterErrors :
              \/ \E p \in StrayPackets : a = <<ErrQueue, ErrorMessage(p, 1, e, {})>>
              \/ a = <<ErrQueue, [ErrorMessage(probe(0), 1, e, {}) EXCEPT !.truncated = TRUE]>>
              \/ a = <<ErrQueue, [ErrorMessage(probe(0), 1, e, {}) EXCEPT !.ext = {}]>>
<1> DEFINE A == {<<RecvQueue, TargetMessage(p, LongReply, {})>> : p \in StrayPackets}
           B == {<<RecvQueue, m>> : m \in NearAnswers}
           C == {<<ErrQueue, ErrorMessage(p, 1, e, {})>> : p \in StrayPackets, e \in RouterErrors}
           D == {<<ErrQueue, [ErrorMessage(probe(0), 1, e, {}) EXCEPT !.truncated = TRUE]>> :
                   e \in RouterErrors}
           E == {<<ErrQueue, [ErrorMessage(probe(0), 1, e, {}) EXCEPT !.ext = {}]>> :
                   e \in RouterErrors}
<1>1. a \in A => \E p \in StrayPackets : a = <<RecvQueue, TargetMessage(p, LongReply, {})>>
  BY Zenon
<1>2. a \in B => \E m \in NearAnswers : a = <<RecvQueue, m>>
  BY Zenon
<1>3. a \in C => \E e \in RouterErrors : \E p \in StrayPackets :
                   a = <<ErrQueue, ErrorMessage(p, 1, e, {})>>
  OBVIOUS
<1>4. a \in D => \E e \in RouterErrors :
        a = <<ErrQueue, [ErrorMessage(probe(0), 1, e, {}) EXCEPT !.truncated = TRUE]>>
  BY Zenon
<1>5. a \in E => \E e \in RouterErrors :
        a = <<ErrQueue, [ErrorMessage(probe(0), 1, e, {}) EXCEPT !.ext = {}]>>
  BY Zenon
<1>6. a \in A \cup B \cup C \cup D \cup E
  BY DEF Strays
<1> HIDE DEF A, B, C, D, E
<1> QED
  BY <1>1, <1>2, <1>3, <1>4, <1>5, <1>6, Zenon

\* They are messages too.
LEMMA StraysType == \A a \in Strays : a[1] \in Readers /\ a[2] \in Message
<1>1. RecvQueue \in Readers /\ ErrQueue \in Readers
  BY DEF Readers
<1>2. \A p \in StrayPackets : TargetMessage(p, LongReply, {}) \in Message
  BY StrayPacketsType, TargetMessageType, Lengths
<1>3. \A e \in RouterErrors : /\ \A p \in StrayPackets : ErrorMessage(p, 1, e, {}) \in Message
                              /\ ErrorMessage(probe(0), 1, e, {}) \in Message
  <2>1. Packet(probe(0))
    BY ProbePacket, Bounds DEF Probes
  <2> QED
    BY <2>1, StrayPacketsType, ErrorMessageType, NetworkAssumption
<1>4. \A m \in Message : /\ [m EXCEPT !.truncated = TRUE] \in Message
                         /\ [m EXCEPT !.ext = {}] \in Message
  BY DEF Message
<1>5. \A e \in RouterErrors :
        /\ [ErrorMessage(probe(0), 1, e, {}) EXCEPT !.truncated = TRUE] \in Message
        /\ [ErrorMessage(probe(0), 1, e, {}) EXCEPT !.ext = {}] \in Message
  BY <1>3, <1>4
<1>6. \A m \in NearAnswers : m \in Message
  BY NearAnswersType
<1> SUFFICES ASSUME NEW a \in Strays PROVE a[1] \in Readers /\ a[2] \in Message
  OBVIOUS
<1>7. \E m \in Message : a = <<RecvQueue, m>> \/ a = <<ErrQueue, m>>
  BY <1>2, <1>3, <1>5, <1>6, StrayKinds, Zenon
<1> QED
  BY <1>1, <1>7

\* handle_read leaves a ProbeResult or nothing in every probe.
LEMMA ReadResultType ==
  ASSUME NEW e \in Cqe, e.state = "Read", result \in [Probes -> SUBSET ProbeResult]
  PROVE  ReadResult(e) \in [Probes -> SUBSET ProbeResult]
<1>1. \A m \in Message : ResultOf(e.slot, m) \subseteq ProbeResult
  <2> SUFFICES ASSUME NEW m \in Message, NEW reply \in ReplyOf(e.slot, m)
               PROVE  [source |-> {a.ip : a \in reply.source},
                       kind |-> classify(err_queue(e.slot), reply)] \in ProbeResult
    BY DEF ResultOf
  <2>1. reply.source \subseteq SockAddr /\ reply.error \subseteq IcmpError
    BY DEF ReplyOf, Message, Extended
  <2>2. {a.ip : a \in reply.source} \in SUBSET Nat
    BY <2>1 DEF SockAddr
  <2>3. classify(err_queue(e.slot), reply) \in ReplyKind
    <3>1. Destination \in ReplyKind /\ Marker("!?") \in ReplyKind
      BY DEF ReplyKind, Destination, Marker, Markers
    <3>2. reply.error # {} => kind(CHOOSE x \in reply.error : TRUE) \in ReplyKind
      BY <2>1, KindType
    <3> QED
      BY <3>1, <3>2 DEF classify
  <2> QED
    BY <2>2, <2>3 DEF ProbeResult
<1>2. e.msg \subseteq Message
  BY CqeFields
<1> QED
  BY <1>1, <1>2 DEF ReadResult, handle_read

-----------------------------------------------------------------------------
(* Posting and handling completions.                                       *)

\* What the kernel's Post does to the completion queue.
LEMMA PostEffect ==
  ASSUME cq \in Seq(Cqe), NEW e \in Cqe, Post(e)
  PROVE  /\ cq' \in Seq(Cqe) /\ Len(cq') = Len(cq) + 1
         /\ Slots(cq', WriteCqes) =
              Slots(cq, WriteCqes) \cup (IF e \in WriteCqes THEN {e.slot} ELSE {})
         /\ Slots(cq', FinalCqes) =
              Slots(cq, FinalCqes) \cup (IF e \in FinalCqes THEN {e.slot} ELSE {})
         /\ /\ Unique(cq, WriteCqes)
            /\ e \in WriteCqes => e.slot \notin Slots(cq, WriteCqes)
            => Unique(cq', WriteCqes)
         /\ /\ Unique(cq, FinalCqes)
            /\ e \in FinalCqes => e.slot \notin Slots(cq, FinalCqes)
            => Unique(cq', FinalCqes)
         /\ Cardinality(Entries(cq, FilledCqes)) \in Nat
         /\ Cardinality(Entries(cq', FilledCqes)) =
              Cardinality(Entries(cq, FilledCqes)) + (IF e \in FilledCqes THEN 1 ELSE 0)
<1>1. cq' = Append(cq, e)
  BY DEF Post
<1>2. cq' \in Seq(Cqe) /\ Len(cq') = Len(cq) + 1
  BY <1>1
<1>3. \A Kind : Slots(cq', Kind) = Slots(cq, Kind) \cup (IF e \in Kind THEN {e.slot} ELSE {})
  BY <1>1, AppendSlots
<1>4. ASSUME NEW Kind, Unique(cq, Kind), e \in Kind => e.slot \notin Slots(cq, Kind)
      PROVE  Unique(cq', Kind)
  BY <1>1, <1>4, AppendUnique
<1>5. /\ Cardinality(Entries(cq, FilledCqes)) \in Nat
      /\ Cardinality(Entries(cq', FilledCqes)) =
           Cardinality(Entries(cq, FilledCqes)) + (IF e \in FilledCqes THEN 1 ELSE 0)
  BY <1>1, AppendCount
<1> QED
  BY <1>2, <1>3, <1>4, <1>5

\* What iterating over one visible completion does to the queue.
LEMMA ConsumeEffect ==
  ASSUME cq \in Seq(Cqe), visible \in 0 .. Len(cq), visible > 0, Consume
  PROVE  /\ head \in Cqe
         /\ cq' \in Seq(Cqe) /\ visible' \in 0 .. Len(cq')
         /\ Unique(cq, WriteCqes) =>
              /\ Unique(cq', WriteCqes)
              /\ Slots(cq', WriteCqes) =
                   Slots(cq, WriteCqes) \ (IF head \in WriteCqes THEN {head.slot} ELSE {})
              /\ head \in WriteCqes => head.slot \in Slots(cq, WriteCqes)
         /\ Unique(cq, FinalCqes) =>
              /\ Unique(cq', FinalCqes)
              /\ Slots(cq', FinalCqes) =
                   Slots(cq, FinalCqes) \ (IF head \in FinalCqes THEN {head.slot} ELSE {})
              /\ head \in FinalCqes => head.slot \in Slots(cq, FinalCqes)
         /\ Cardinality(Entries(cq', FilledCqes)) \in Nat
         /\ Cardinality(Entries(cq, FilledCqes)) =
              Cardinality(Entries(cq', FilledCqes)) + (IF head \in FilledCqes THEN 1 ELSE 0)
<1>1. cq' = Tail(cq) /\ visible' = visible - 1 /\ cq # <<>>
  BY DEF Consume
<1>2. head \in Cqe /\ cq' \in Seq(Cqe) /\ Len(cq') = Len(cq) - 1
  BY <1>1, TailElements DEF head
<1>3. visible' \in 0 .. Len(cq')
  BY <1>1, <1>2
<1>4. ASSUME NEW Kind, Unique(cq, Kind)
      PROVE  /\ Unique(cq', Kind)
             /\ Slots(cq', Kind) = Slots(cq, Kind) \ (IF head \in Kind THEN {head.slot} ELSE {})
             /\ head \in Kind => head.slot \in Slots(cq, Kind)
  BY <1>1, <1>4, TailUnique DEF head
<1>5. /\ Cardinality(Entries(cq', FilledCqes)) \in Nat
      /\ Cardinality(Entries(cq, FilledCqes)) =
           Cardinality(Entries(cq', FilledCqes)) + (IF head \in FilledCqes THEN 1 ELSE 0)
  BY <1>1, TailCount DEF head
<1> QED
  BY <1>2, <1>3, <1>4, <1>5

\* What re-arming a reader does to the submission queue.
LEMMA PushRead ==
  ASSUME sq \in Seq(Sqe), NEW r \in Readers, sq' = Append(sq, ReadSqe(r))
  PROVE  /\ sq' \in Seq(Sqe) /\ Len(sq') = Len(sq) + 1
         /\ Slots(sq', WriteSqes) = Slots(sq, WriteSqes)
         /\ Slots(sq', ReadSqes) = Slots(sq, ReadSqes) \cup {r}
         /\ Unique(sq, WriteSqes) => Unique(sq', WriteSqes)
         /\ Unique(sq, ReadSqes) /\ r \notin Slots(sq, ReadSqes) => Unique(sq', ReadSqes)
         /\ (\A k \in DOMAIN sq : sq[k] \in ReadSqes) => \A k \in DOMAIN sq' : sq'[k] \in ReadSqes
<1> DEFINE e == ReadSqe(r)
<1>1. e = [slot |-> r, state |-> "Read"]
  BY SqeTypes
<1>2. e \in Sqe /\ e \in ReadSqes /\ e \notin WriteSqes /\ e.slot = r
  BY <1>1 DEF Sqe, ReadSqes, WriteSqes
<1> HIDE DEF e
<1>3. sq' = Append(sq, e)
  BY DEF e
<1>4. sq' \in Seq(Sqe) /\ Len(sq') = Len(sq) + 1
  BY <1>2, <1>3
<1>5. /\ Slots(sq', WriteSqes) = Slots(sq, WriteSqes)
      /\ Slots(sq', ReadSqes) = Slots(sq, ReadSqes) \cup {r}
  <2>1. \A Kind : Slots(sq', Kind) = Slots(sq, Kind) \cup (IF e \in Kind THEN {e.slot} ELSE {})
    BY <1>2, <1>3, AppendSlots
  <2> QED
    BY <1>2, <2>1
<1>6. /\ Unique(sq, WriteSqes) => Unique(sq', WriteSqes)
      /\ Unique(sq, ReadSqes) /\ r \notin Slots(sq, ReadSqes) => Unique(sq', ReadSqes)
  BY <1>2, <1>3, AppendUnique
<1>7. (\A k \in DOMAIN sq : sq[k] \in ReadSqes) => \A k \in DOMAIN sq' : sq'[k] \in ReadSqes
  BY <1>2, <1>3, AppendElements
<1> QED
  BY <1>4, <1>5, <1>6, <1>7

\* The empty rings.
LEMMA EmptySlots ==
  \A Kind : Slots(<<>>, Kind) = {} /\ Unique(<<>>, Kind) /\ Entries(<<>>, Kind) = {}
BY DEF Slots, Unique, Entries

\* The kernel takes exactly the queued reads and writes.
LEMMA SubmittedSlots ==
  ASSUME sq \in Seq(Sqe)
  PROVE  Submitted("Write") = Slots(sq, WriteSqes) /\ Submitted("Read") = Slots(sq, ReadSqes)
<1>1. \A k \in DOMAIN sq : sq[k] \in WriteSqes <=> sq[k].state = "Write"
  BY DEF WriteSqes
<1>2. \A k \in DOMAIN sq : sq[k] \in ReadSqes <=> sq[k].state = "Read"
  BY DEF ReadSqes
<1>3. Entries(sq, WriteSqes) = {j \in DOMAIN sq : sq[j].state = "Write"}
  <2>1. \A k : k \in Entries(sq, WriteSqes) <=> k \in {j \in DOMAIN sq : sq[j].state = "Write"}
    BY <1>1 DEF Entries
  <2> QED
    BY <2>1
<1>4. Entries(sq, ReadSqes) = {j \in DOMAIN sq : sq[j].state = "Read"}
  <2>1. \A k : k \in Entries(sq, ReadSqes) <=> k \in {j \in DOMAIN sq : sq[j].state = "Read"}
    BY <1>2 DEF Entries
  <2> QED
    BY <2>1
<1> QED
  BY <1>3, <1>4 DEF Submitted, Slots
=============================================================================
