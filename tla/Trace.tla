------------------------------- MODULE Trace -------------------------------
(***************************************************************************)
(* src/src/trace.rs: one trace, from the call of run() to the moment the   *)
(* io_uring instance is closed.                                            *)
(*                                                                         *)
(* run() is one thread.  What makes it hard is everything that moves while *)
(* it runs: the kernel side of the ring (sends, multishot reads and the    *)
(* timer complete in any order), the socket with its receive queue, error  *)
(* queue and pending error, and a network that loses, delays, duplicates   *)
(* and reorders.  Those parts are external: they are modelled by what the  *)
(* code relies on, and are marked so below.                                *)
(*                                                                         *)
(* A Rust Option is a set with at most one element (see Methods).  An      *)
(* operator that no other definition uses and that stands right before a   *)
(* definition with the same parameters is its form with a plausible bug,   *)
(* for the mutants of PROJECT.json.                                        *)
(***************************************************************************)
EXTENDS Methods, Integers, Sequences, FiniteSets

CONSTANTS
  FirstHop, LastHop,  \* hops: RangeInclusive<u8>
  Count,              \* --count, probes per hop
  PathLen,            \* the target is the node at this distance
  RouterErrors,       \* the ICMP errors routers on the path send
  MaxMsgs,            \* bound: messages the network delivers to the socket
  MaxStrays           \* bound: those among them that answer no probe

\* What main() has checked of the arguments before it calls run().
ASSUME ArgsAssumption ==
  /\ FirstHop \in 1 .. 254
  /\ LastHop \in FirstHop + 1 .. 255
  /\ Count \in 1 .. 9

\* Only the target sends Port Unreachable (the comment in IcmpError::kind).
ASSUME NetworkAssumption ==
  /\ PathLen \in 1 .. 256
  /\ Target \notin 1 .. PathLen - 1
  /\ \A e \in RouterErrors : e \in IcmpError /\ kind(e) # Destination
  /\ MaxMsgs \in Nat /\ MaxStrays \in Nat

NumProbes == (LastHop - FirstHop + 1) * Count
Probes    == 0 .. NumProbes - 1
Hops      == FirstHop .. LastHop

\* Probe::ttl of the probe at an index of the vector run() collects.
ttl(i) == FirstHop + (i \div Count)

\* Method::open returns two queues, so there are two readers.
RecvQueue == 0
ErrQueue  == 1
Readers   == {RecvQueue, ErrQueue}
err_queue(r) == r = ErrQueue

ring_size == Cardinality(Readers) + NumProbes + 1

\* External: io_uring_setup rounds the number of entries up to a power of two.
Pow2 == {8, 16, 32, 64, 128, 256, 512, 1024, 2048, 4096}
SqEntries == CHOOSE c \in Pow2 : c >= ring_size /\ \A d \in Pow2 : d >= ring_size => c <= d

\* The buffers given to IoUringBufRing.
NumBufs == 2 * NumProbes

\* The part of a buffer that a message can fill.  All buffers have room for the
\* control data of an error (module RecvErr derives its size), which only the
\* error queue reader reserves.
RECVERR_CONTROL_LEN == 64
reply_room(r) == max_reply_len + IF err_queue(r) THEN 0 ELSE RECVERR_CONTROL_LEN

VARIABLES
  pc,        \* where run() is: start, loop, wait, dropped, closed
  outcome,   \* how run() returned: running, reached, timeout, io_error, sq_full,
             \* start_failed (reached and timeout are both Ok(probes))
  sq,        \* submission queue: entries pushed and not yet taken by the kernel
  stale,     \* entries the kernel took that the cached head of sq still counts
  cq,        \* completion queue: entries posted and not yet iterated over
  visible,   \* how many of them the last cq.sync() made visible
  sending,   \* keys occupied in the slab of Outgoing buffers
  sent_at,   \* Probe::sent_at.is_some()
  result,    \* Probe::result
  armed,     \* kernel: readers whose multishot recvmsg is armed
  inflight,  \* kernel: sends taken and not yet executed
  executed,  \* kernel: sends executed whose completion is not yet posted
  timer,     \* kernel: off, armed, posted
  bufs,      \* kernel: free buffers of the buffer ring
  queues,    \* kernel: the messages on the socket's two queues
  sk_err,    \* kernel: the socket's pending error
  wire,      \* network: the probes that were transmitted
  msgs,      \* network: messages delivered so far
  strays     \* network: those that answer no probe

ring_vars == <<sq, stale, cq, visible>>
app_vars  == <<pc, outcome, sending, sent_at, result>>
kern_vars == <<armed, inflight, executed, timer, bufs, queues, sk_err>>
net_vars  == <<wire, msgs, strays>>
vars == <<ring_vars, app_vars, kern_vars, net_vars>>

-----------------------------------------------------------------------------
(* Entries of the two rings.                                               *)

\* UserData: slot is a u16 and comes back in the completion as it was given.
UserData(slot, state) == [slot |-> slot % 65536, state |-> state]

WriteSqe(i) == UserData(i, "Write")
ReadSqe(r)  == UserData(r, "Read")
TimeoutSqe  == UserData(0, "Timeout")
Sqe == [slot : Probes, state : {"Write"}] \cup [slot : Readers, state : {"Read"}]
         \cup {TimeoutSqe}

Errnos == {"EHOSTUNREACH", "ECONNREFUSED", "ENETUNREACH", "EPERM", "ENOBUFS", "ETIME"}

\* A message on a socket queue: msg_name, the control data of an error queue
\* read (ext is what parse_ip_recverr returns), the payload, and, for the
\* properties only, the probe it answers.
Extended == [error : IcmpError, offender : SUBSET SockAddr]
Message == [name : SUBSET SockAddr, truncated : BOOLEAN, ext : SUBSET Extended,
            quoted : Quoted, of : SUBSET U16]

\* A completion: err is {} when the result is >= 0, more is IORING_CQE_F_MORE,
\* msg is what a read put into its buffer.
Cqe == [slot : Probes, state : {"Write"}, err : SUBSET Errnos, more : {FALSE}, msg : {{}}]
         \cup [slot : Readers, state : {"Read"}, err : SUBSET Errnos, more : BOOLEAN,
               msg : SUBSET Message]
         \cup [slot : {0}, state : {"Timeout"}, err : {{"ETIME"}}, more : {FALSE}, msg : {{}}]

Completion(sqe, err, more, msg) ==
  [slot |-> sqe.slot, state |-> sqe.state, err |-> err, more |-> more, msg |-> msg]

\* External: the kernel posts a completion; entries that do not fit the ring
\* are kept on the overflow list, none is lost.
Post(cqe) == cq' = Append(cq, cqe)

\* External: SubmissionQueue::push compares the tail with the head it cached at
\* the last sync(), so entries the kernel took since then still count.
SqFull == Len(sq) + stale >= SqEntries
-----------------------------------------------------------------------------
(* run() up to the loop.                                                   *)

\* Pushes, in order, one read per reader, one send per probe and the timeout,
\* then sync().  The slab is new, so the key of a send is its probe's index.
Start ==
  /\ pc = "start"
  /\ sq' = [k \in 1 .. ring_size |->
              IF k <= 2 THEN ReadSqe(k - 1)
              ELSE IF k <= NumProbes + 2 THEN WriteSqe(k - 3)
              ELSE TimeoutSqe]
  /\ sending' = Probes
  /\ pc' = "loop"
  /\ UNCHANGED <<stale, cq, visible, outcome, sent_at, result, kern_vars, net_vars>>

\* check_features_supported, open, IoUring::new, the buffer ring or
\* enable_recverr fails: run() returns before anything was submitted.
StartFails ==
  /\ pc = "start"
  /\ pc' = "closed"
  /\ outcome' = "start_failed"
  /\ UNCHANGED <<ring_vars, sending, sent_at, result, kern_vars, net_vars>>

-----------------------------------------------------------------------------
(* The loop.  Its top is where the visible completions are used up: the    *)
(* code syncs sq, which publishes the tail and reads the head again, calls *)
(* submit_and_wait(1) and then syncs cq.                                   *)

LoopTop == pc = "loop" /\ visible = 0

\* run() returns: sending, the readers and the buffer ring are dropped, in this
\* order, and the ring only after them.
Return(how) == pc' = "dropped" /\ outcome' = how

Submitted(state) == {sq[k].slot : k \in {j \in DOMAIN sq : sq[j].state = state}}

\* The kernel takes every entry of the submission queue.
SubmitUnsynced ==
  /\ LoopTop
  /\ armed' = armed \cup Submitted("Read")
  /\ inflight' = inflight \cup Submitted("Write")
  /\ timer' = IF Submitted("Timeout") # {} THEN "armed" ELSE timer
  /\ stale' = stale + Len(sq)
  /\ sq' = <<>>
  /\ pc' = "wait"
  /\ UNCHANGED <<cq, visible, outcome, sending, sent_at, result, executed,
                 bufs, queues, sk_err, net_vars>>
Submit ==
  /\ LoopTop
  /\ armed' = armed \cup Submitted("Read")
  /\ inflight' = inflight \cup Submitted("Write")
  /\ timer' = IF Submitted("Timeout") # {} THEN "armed" ELSE timer
  /\ stale' = Len(sq)
  /\ sq' = <<>>
  /\ pc' = "wait"
  /\ UNCHANGED <<cq, visible, outcome, sending, sent_at, result, executed,
                 bufs, queues, sk_err, net_vars>>

\* EBUSY: completions are backed up, the kernel takes nothing, and the code
\* goes on as if the call had succeeded.
SubmitBusy ==
  /\ LoopTop
  /\ cq # <<>>
  /\ stale' = 0
  /\ visible' = Len(cq)
  /\ UNCHANGED <<sq, cq, app_vars, kern_vars, net_vars>>

\* Any other error of submit_and_wait ends the trace.
SubmitFails ==
  /\ LoopTop
  /\ Return("io_error")
  /\ UNCHANGED <<ring_vars, sending, sent_at, result, kern_vars, net_vars>>

\* submit_and_wait returns once a completion is there.
Wake ==
  /\ pc = "wait"
  /\ cq # <<>>
  /\ visible' = Len(cq)
  /\ pc' = "loop"
  /\ UNCHANGED <<sq, stale, cq, outcome, sending, sent_at, result, kern_vars,
                 net_vars>>

\* A signal interrupts the wait.  io_uring_enter reports the entries it took if
\* it took any (then the batch is empty), and EINTR otherwise.
Interrupt ==
  /\ pc = "wait"
  /\ cq = <<>>
  /\ IF stale > 0 THEN pc' = "loop" /\ outcome' = outcome
                  ELSE Return("io_error")
  /\ UNCHANGED <<ring_vars, sending, sent_at, result, kern_vars, net_vars>>

-----------------------------------------------------------------------------
(* handle_read.                                                            *)

\* RecvMsgOut::parse, parse_ip_recverr and parse_sockaddr: the Reply a read
\* yields, if any.
ReplyOf(r, m) ==
  IF ~err_queue(r)
  THEN {[source |-> m.name, destination |-> {}, quoted |-> m.quoted, error |-> {}]}
  ELSE {[source |-> x.offender, destination |-> m.name, quoted |-> m.quoted,
         error |-> {x.error}] : x \in {y \in m.ext : ~m.truncated}}

\* identify, then probes.get_mut
Identified(r, m) ==
  (UNION {identify(err_queue(r), reply) : reply \in ReplyOf(r, m)}) \cap Probes

ProbeResult == [source : SUBSET Nat, kind : ReplyKind]

ResultOf(r, m) ==
  {[source |-> {a.ip : a \in reply.source}, kind |-> classify(err_queue(r), reply)] :
     reply \in ReplyOf(r, m)}

\* A reply is recorded unless its probe has a result or is not known as sent.
RecordsAgain(i) == sent_at[i]
RecordsUnsent(i) == result[i] = {}
Records(i) == result[i] = {} /\ sent_at[i]

handle_read(r, msg) ==
  [i \in Probes |->
     IF Records(i) /\ \E m \in msg : i \in Identified(r, m)
     THEN UNION {ResultOf(r, m) : m \in msg}
     ELSE result[i]]

-----------------------------------------------------------------------------
(* One completion.                                                         *)

HopProbes(t) == {i \in Probes : ttl(i) = t}
HopAnswered(res, t) == \E i \in HopProbes(t) : res[i] # {}
HopTerminates(res, t) ==
  \E i \in HopProbes(t) : \E x \in res[i] : terminates_trace(x.kind)

\* The hops that take_while keeps: all of them up to the first silent one.
AllHops(res) == Hops
AnsweredPrefix(res) == {t \in Hops : \A u \in FirstHop .. t : HopAnswered(res, u)}

\* done, but for the timeout
Reached(slab, res) ==
  /\ slab = {}
  /\ \E t \in AnsweredPrefix(res) : HopTerminates(res, t)

head == cq[1]
Draining(state) == pc = "loop" /\ visible > 0 /\ head.state = state
Consume == cq' = Tail(cq) /\ visible' = visible - 1

ConcludeOnReads(slab, res) ==
  IF Reached(slab, res) /\ head.state = "Read" THEN Return("reached")
                                               ELSE UNCHANGED <<pc, outcome>>
Conclude(slab, res) ==
  IF Reached(slab, res) THEN Return("reached") ELSE UNCHANGED <<pc, outcome>>

\* sending.remove, which panics on a vacant key.
RemovedIfSent(slab, cqe) == IF cqe.err = {} THEN slab \ {cqe.slot} ELSE slab
Removed(slab, cqe) == slab \ {cqe.slot}

\* State::Write
HandleWrite ==
  /\ Draining("Write")
  /\ Consume
  /\ sending' = Removed(sending, head)
  /\ sent_at' = [sent_at EXCEPT ![head.slot] = @ \/ head.err = {}]
  /\ Conclude(Removed(sending, head), result)
  /\ UNCHANGED <<sq, stale, result, kern_vars, net_vars>>

\* The results after a read completion, and its buffer, which goes back to the
\* ring when handle_read drops its guard, whatever it made of the reply.
ReadResult(cqe) ==
  IF cqe.err = {} THEN handle_read(cqe.slot, cqe.msg) ELSE result
RecycledAlways(cqe) == 1
Recycled(cqe) == IF cqe.err = {} THEN 1 ELSE 0

\* Without IORING_CQE_F_MORE the multishot read is over.
RearmIfRead(cqe) == ~cqe.more /\ cqe.err = {}
NeedsRearm(cqe) == ~cqe.more

\* State::Read
HandleRead ==
  /\ Draining("Read")
  /\ ~(NeedsRearm(head) /\ SqFull)
  /\ Consume
  /\ result' = ReadResult(head)
  /\ bufs' = bufs + Recycled(head)
  /\ sq' = IF NeedsRearm(head) THEN Append(sq, ReadSqe(head.slot)) ELSE sq
  /\ Conclude(sending, ReadResult(head))
  /\ UNCHANGED <<stale, sending, sent_at, armed, inflight, executed, timer,
                 queues, sk_err, net_vars>>

\* reader.schedule fails: run() returns the error and drops the results.
RearmFails ==
  /\ Draining("Read")
  /\ NeedsRearm(head) /\ SqFull
  /\ Consume
  /\ result' = ReadResult(head)
  /\ bufs' = bufs + Recycled(head)
  /\ Return("sq_full")
  /\ UNCHANGED <<sq, stale, sending, sent_at, armed, inflight, executed, timer,
                 queues, sk_err, net_vars>>

\* State::Timeout ends the trace whatever its result and whatever is pending.
TimeoutAwaitsSends ==
  /\ Draining("Timeout")
  /\ Consume
  /\ IF sending = {} THEN Return("timeout") ELSE UNCHANGED <<pc, outcome>>
  /\ UNCHANGED <<sq, stale, sending, sent_at, result, kern_vars, net_vars>>
HandleTimeout ==
  /\ Draining("Timeout")
  /\ Consume
  /\ Return("timeout")
  /\ UNCHANGED <<sq, stale, sending, sent_at, result, kern_vars, net_vars>>

\* failed: the completions that are logged as errors.
Failed(cqe) ==
  CASE cqe.state = "Timeout" -> cqe.err # {"ETIME"}
    [] cqe.state = "Write"   -> cqe.err # {}
    [] cqe.state = "Read"    -> \E e \in cqe.err : ~ignores_read_error(err_queue(cqe.slot), e)

\* The ring and the sockets are closed, which cancels what is left.
CloseRing ==
  /\ pc = "dropped"
  /\ pc' = "closed"
  /\ sq' = <<>> /\ cq' = <<>> /\ stale' = 0 /\ visible' = 0
  /\ armed' = {} /\ inflight' = {} /\ executed' = {} /\ timer' = "off"
  /\ queues' = [r \in Readers |-> <<>>] /\ sk_err' = {}
  /\ UNCHANGED <<outcome, sending, sent_at, result, bufs, net_vars>>

-----------------------------------------------------------------------------
(* External: the kernel.                                                   *)

\* What the kernel does to dropped buffers is not modelled.
Open == pc \notin {"dropped", "closed"}

\* The errno the kernel reports for an ICMP error.  ENETUNREACH stands for
\* all but the two that Time Exceeded and Port Unreachable give.
Errno(e) == IF kind(e) = Hop THEN "EHOSTUNREACH"
            ELSE IF kind(e) = Destination THEN "ECONNREFUSED"
            ELSE "ENETUNREACH"

IcmpErrno(m) == {Errno(x.error) : x \in m.ext}

\* A send is executed: the datagram leaves.  Its completion follows later, so
\* the reply may be read first.
Transmit(i) ==
  /\ Open /\ i \in inflight
  /\ sk_err = {}
  /\ inflight' = inflight \ {i}
  /\ executed' = executed \cup {i}
  /\ wire' = wire \cup {i}
  /\ UNCHANGED <<ring_vars, app_vars, armed, timer, bufs, queues, sk_err, msgs, strays>>

PostWrite(i) ==
  /\ Open /\ i \in executed
  /\ executed' = executed \ {i}
  /\ Post(Completion(WriteSqe(i), {}, FALSE, {}))
  /\ UNCHANGED <<sq, stale, visible, app_vars, armed, inflight, timer, bufs, queues,
                 sk_err, net_vars>>

\* A send fails, with the socket's pending error, which is thereby cleared, or
\* for a reason of its own.
SendFails(i) ==
  /\ Open /\ i \in inflight
  /\ inflight' = inflight \ {i}
  /\ Post(Completion(WriteSqe(i), IF sk_err # {} THEN sk_err ELSE {"EPERM"}, FALSE, {}))
  /\ sk_err' = {}
  /\ UNCHANGED <<sq, stale, visible, app_vars, armed, executed, timer, bufs, queues,
                 net_vars>>

\* What the buffer has no room for is cut off.
Truncate(r, m) == [m EXCEPT !.quoted.bytes = IF @ > reply_room(r) THEN reply_room(r) ELSE @]

\* The pending error after the head of the error queue was read: the errno of
\* the next queued error, if any.
NextSkErr(q) ==
  IF Len(q) > 1 /\ q[2].ext # {} THEN IcmpErrno(q[2])
  ELSE IF q[1].ext # {} THEN {} ELSE sk_err

\* A multishot read takes a buffer and a message.  It may end at any message.
Receive(r) ==
  /\ Open /\ r \in armed
  /\ bufs > 0
  /\ queues[r] # <<>>
  /\ err_queue(r) \/ sk_err = {}
  /\ \E more \in BOOLEAN :
       /\ Post(Completion(ReadSqe(r), {}, more, {Truncate(r, queues[r][1])}))
       /\ armed' = IF more THEN armed ELSE armed \ {r}
  /\ bufs' = bufs - 1
  /\ queues' = [queues EXCEPT ![r] = Tail(@)]
  /\ sk_err' = IF err_queue(r) THEN NextSkErr(queues[r]) ELSE sk_err
  /\ UNCHANGED <<sq, stale, visible, app_vars, inflight, executed, timer, net_vars>>

\* The receive queue reports the pending error before any message, which ends
\* the multishot read.
ReceiveError ==
  /\ Open /\ RecvQueue \in armed
  /\ bufs > 0
  /\ sk_err # {}
  /\ Post(Completion(ReadSqe(RecvQueue), sk_err, FALSE, {}))
  /\ armed' = armed \ {RecvQueue}
  /\ sk_err' = {}
  /\ UNCHANGED <<sq, stale, visible, app_vars, inflight, executed, timer, bufs, queues,
                 net_vars>>

\* No buffer is free, which ends the multishot read.
NoBuffer(r) ==
  /\ Open /\ r \in armed
  /\ bufs = 0
  /\ Post(Completion(ReadSqe(r), {"ENOBUFS"}, FALSE, {}))
  /\ armed' = armed \ {r}
  /\ UNCHANGED <<sq, stale, visible, app_vars, inflight, executed, timer, bufs, queues,
                 sk_err, net_vars>>

\* The timeout expires (or is refused: the code only logs the difference).
Timer ==
  /\ Open /\ timer = "armed"
  /\ Post(Completion(TimeoutSqe, {"ETIME"}, FALSE, {}))
  /\ timer' = "posted"
  /\ UNCHANGED <<sq, stale, visible, app_vars, armed, inflight, executed, bufs, queues,
                 sk_err, net_vars>>

-----------------------------------------------------------------------------
(* External: the network.                                                  *)

\* An error about a datagram with the fields of p, from the node at distance d.
ErrorMessage(p, d, e, of) ==
  [name |-> {[ip |-> Target, port |-> p.dport]}, truncated |-> FALSE,
   ext |-> {[error |-> e, offender |-> {[ip |-> d, port |-> 0]}]},
   quoted |-> [bytes |-> IF Method = "udp" THEN 0 ELSE 8,
               sport |-> p.sport, dport |-> p.dport, seq |-> p.seq, ack |-> 0],
   of |-> of]

\* The target's answer to a datagram with the fields of p.
TargetMessage(p, bytes, of) ==
  [name |-> {[ip |-> Target, port |-> p.dport]}, truncated |-> FALSE, ext |-> {},
   quoted |-> [bytes |-> bytes, sport |-> p.dport, dport |-> p.sport,
               seq |-> p.seq, ack |-> p.seq + 1],
   of |-> of]

PortUnreachable ==
  IF Version = "v4"
  THEN [version |-> "v4", icmp_type |-> v4.DEST_UNREACH, code |-> 3, info |-> 0]
  ELSE [version |-> "v6", icmp_type |-> v6.DEST_UNREACH, code |-> 4, info |-> 0]

\* A reset is a bare TCP header; a SYN-ACK carries 20 bytes of options.
TcpAnswerLens == {(IF Version = "v4" THEN MIN_IPV4_HEADER_LEN ELSE 0)
                     + TCP_MIN_HEADER_LEN + options : options \in {0, 20}}

TargetAnswers(i) ==
  CASE Method = "icmp" ->
         {<<RecvQueue, TargetMessage(probe(i), ECHO_HEADER_LEN + payload_len, {i})>>}
    [] Method = "udp"  ->
         {<<RecvQueue, TargetMessage(probe(i), 0, {i})>>,
          <<ErrQueue, ErrorMessage(probe(i), Target, PortUnreachable, {i})>>}
    [] Method = "tcp"  ->
         {<<RecvQueue, TargetMessage(probe(i), n, {i})>> : n \in TcpAnswerLens}

\* Time Exceeded comes from the node the TTL ends at, other errors from any
\* node the probe passes.
RouterAnswers(i) ==
  {<<ErrQueue, ErrorMessage(probe(i), de[1], de[2], {i})>> :
     de \in {x \in (1 .. PathLen - 1) \X RouterErrors :
               IF kind(x[2]) = Hop THEN x[1] = ttl(i) ELSE x[1] <= ttl(i)}}

Answers(i) == RouterAnswers(i) \cup IF ttl(i) >= PathLen THEN TargetAnswers(i) ELSE {}

\* Packets that are no probe of this trace by one field each: the source port of
\* another flow, an index just out of range, one that a cut to u16 would bring
\* into range, a port below those of the probes.
StrayPackets ==
  CASE Method = "icmp" -> {[probe(0) EXCEPT !.seq = NumProbes]}
    [] Method = "udp"  -> {[probe(0) EXCEPT !.dport = n] :
                             n \in {START_PORT - 1, START_PORT + NumProbes}}
    [] Method = "tcp"  -> {[probe(0) EXCEPT !.sport = SourcePort - 1]}
                            \cup {[probe(0) EXCEPT !.seq = n] : n \in {NumProbes, 65536}}

\* Longer than any buffer: a segment with data, an echo reply to a longer request.
LongReply == reply_room(RecvQueue) + 1

\* Like the target's answer to probe 0, but from another node, from another port,
\* acknowledging nothing or with a header that is cut.
NearAnswers ==
  LET m     == TargetMessage(probe(0), max_reply_len, {})
      other == [m EXCEPT !.name = {[ip |-> Target + 1, port |-> probe(0).dport]}]
  IN  CASE Method = "icmp" -> {}
        [] Method = "udp"  -> {other}
        [] Method = "tcp"  -> {other, [m EXCEPT !.quoted.sport = DEST_PORT + 1],
                               [m EXCEPT !.quoted.ack = 0],
                               [m EXCEPT !.quoted.bytes = max_reply_len - 1]}

\* Messages that answer no probe of this trace, each for one reason only, and
\* error queue reads the code cannot use.
Strays ==
  {<<RecvQueue, TargetMessage(p, LongReply, {})>> : p \in StrayPackets}
    \cup {<<RecvQueue, m>> : m \in NearAnswers}
    \cup {<<ErrQueue, ErrorMessage(p, 1, e, {})>> : p \in StrayPackets, e \in RouterErrors}
    \cup {<<ErrQueue, [ErrorMessage(probe(0), 1, e, {}) EXCEPT !.truncated = TRUE]>> :
            e \in RouterErrors}
    \cup {<<ErrQueue, [ErrorMessage(probe(0), 1, e, {}) EXCEPT !.ext = {}]>> :
            e \in RouterErrors}

\* A message is appended to its queue; an ICMP error also becomes the socket's
\* pending error.
Arrive(r, m) ==
  /\ Open
  /\ queues' = [queues EXCEPT ![r] = Append(@, m)]
  /\ sk_err' = IF m.ext # {} THEN IcmpErrno(m) ELSE sk_err
  /\ UNCHANGED <<ring_vars, app_vars, armed, inflight, executed, timer, bufs, wire>>

\* A transmitted probe is answered, any number of times; a lost one never is.
Answer(i) ==
  /\ i \in wire
  /\ msgs < MaxMsgs /\ msgs' = msgs + 1 /\ strays' = strays
  /\ \E a \in Answers(i) : Arrive(a[1], a[2])

Stray ==
  /\ pc # "start"
  /\ msgs < MaxMsgs /\ msgs' = msgs + 1
  /\ strays < MaxStrays /\ strays' = strays + 1
  /\ \E a \in Strays : Arrive(a[1], a[2])

-----------------------------------------------------------------------------
Init ==
  /\ pc = "start" /\ outcome = "running"
  /\ sq = <<>> /\ stale = 0
  /\ cq = <<>> /\ visible = 0
  /\ sending = {}
  /\ sent_at = [i \in Probes |-> FALSE]
  /\ result = [i \in Probes |-> {}]
  /\ armed = {} /\ inflight = {} /\ executed = {}
  /\ timer = "off"
  /\ bufs = NumBufs
  /\ queues = [r \in Readers |-> <<>>]
  /\ sk_err = {}
  /\ wire = {} /\ msgs = 0 /\ strays = 0

\* What the thread that executes run() does by itself.
Thread ==
  \/ Start \/ StartFails
  \/ Submit \/ SubmitBusy \/ SubmitFails
  \/ Wake
  \/ HandleWrite \/ HandleRead \/ RearmFails \/ HandleTimeout
  \/ CloseRing

Run == Thread \/ Interrupt

Kernel ==
  \/ \E i \in Probes : Transmit(i) \/ PostWrite(i) \/ SendFails(i)
  \/ \E r \in Readers : Receive(r) \/ NoBuffer(r)
  \/ ReceiveError
  \/ Timer

Network == Stray \/ \E i \in Probes : Answer(i)

\* run() has returned and the ring is closed.
Finished == pc = "closed" /\ UNCHANGED vars

Next == Run \/ Kernel \/ Network \/ Finished

\* The thread is scheduled and an armed timeout expires.  No signal need ever
\* interrupt a wait.
Fairness == WF_vars(Thread) /\ WF_vars(Timer)

Spec == Init /\ [][Next]_vars /\ Fairness

-----------------------------------------------------------------------------
(* Properties.  Running is from the first push to the return of run().     *)

Running == pc \in {"loop", "wait"}

\* The type of the state: user data names a probe or a reader, and no more
\* buffers are free than the buffer ring has.
TypeOK ==
  /\ pc \in {"start", "loop", "wait", "dropped", "closed"}
  /\ outcome \in {"running", "reached", "timeout", "io_error", "sq_full", "start_failed"}
  /\ sq \in Seq(Sqe) /\ stale \in Nat
  /\ cq \in Seq(Cqe) /\ visible \in 0 .. Len(cq)
  /\ sending \subseteq Probes
  /\ sent_at \in [Probes -> BOOLEAN]
  /\ result \in [Probes -> SUBSET ProbeResult]
  /\ armed \subseteq Readers /\ inflight \subseteq Probes /\ executed \subseteq Probes
  /\ timer \in {"off", "armed", "posted"}
  /\ bufs \in 0 .. NumBufs
  /\ queues \in [Readers -> Seq(Message)]
  /\ sk_err \subseteq Errnos
  /\ wire \subseteq Probes /\ msgs \in Nat /\ strays \in Nat

\* The positions of a ring that hold an entry of a kind, and their slots.
Entries(ring, Kind) == {k \in DOMAIN ring : ring[k] \in Kind}
Slots(ring, Kind) == {ring[k].slot : k \in Entries(ring, Kind)}
Unique(ring, Kind) ==
  \A j, k \in Entries(ring, Kind) : ring[j].slot = ring[k].slot => j = k

WriteSqes  == {e \in Sqe : e.state = "Write"}
ReadSqes   == {e \in Sqe : e.state = "Read"}
WriteCqes  == {e \in Cqe : e.state = "Write"}
FinalCqes  == {e \in Cqe : e.state = "Read" /\ ~e.more}
FilledCqes == {e \in Cqe : e.state = "Read" /\ e.err = {}}

\* An occupied key of the slab is a send that is queued, in the kernel or
\* completed and not yet handled, and exactly one of these.  So sending.remove
\* never meets a vacant key (which panics), and no buffer is freed under a
\* send or kept after it.
SendsAccounted ==
  Running =>
    /\ sending = Slots(sq, WriteSqes) \cup inflight \cup executed \cup Slots(cq, WriteCqes)
    /\ Unique(sq, WriteSqes) /\ Unique(cq, WriteCqes)
    /\ Slots(sq, WriteSqes) \cap (inflight \cup executed \cup Slots(cq, WriteCqes)) = {}
    /\ inflight \cap (executed \cup Slots(cq, WriteCqes)) = {}
    /\ executed \cap Slots(cq, WriteCqes) = {}

\* While run() is in its loop each reader is queued for arming, armed, or ended
\* with the completion that makes run() arm it again still to be handled, and
\* exactly one of these: the trace never goes deaf on a queue and never arms a
\* reader twice.
ReadersListen ==
  Running =>
    /\ Readers = Slots(sq, ReadSqes) \cup armed \cup Slots(cq, FinalCqes)
    /\ Unique(sq, ReadSqes) /\ Unique(cq, FinalCqes)
    /\ Slots(sq, ReadSqes) \cap (armed \cup Slots(cq, FinalCqes)) = {}
    /\ armed \cap Slots(cq, FinalCqes) = {}

\* Every buffer of the ring is free or holds a message that handle_read has yet
\* to see: none leaks on handle_read's early returns, none is given back twice.
BuffersConserved ==
  pc # "closed" => bufs + Cardinality(Entries(cq, FilledCqes)) = NumBufs

\* Two entries of slack in the submission queue are enough for every re-arm
\* (reader.schedule in the loop), although the cached head hides what the
\* kernel has taken.
SlackSuffices == SqEntries >= ring_size + 2 => outcome # "sq_full"

\* A message in a completion is mapped back to the probe it answers: never to
\* another one, never to one when it answers none.
IdentifiedExactly ==
  \A k \in Entries(cq, FilledCqes) : \A m \in cq[k].msg :
    Identified(cq[k].slot, m) = m.of

\* What the report says of a probe is true of the network: it was transmitted
\* and its send completed, a hop is the node at the probe's TTL, a destination
\* is the target, within reach of the TTL, and an unreachable is from a node
\* the probe passed.
Attribution ==
  \A i \in Probes : \A x \in result[i] :
    /\ sent_at[i] /\ i \in wire
    /\ x.kind = Hop => x.source = {ttl(i)} /\ ttl(i) < PathLen
    /\ x.kind = Destination => x.source = {Target} /\ ttl(i) >= PathLen
    /\ x.kind \notin {Hop, Destination} => \E d \in 1 .. ttl(i) : x.source = {d}

\* A probe keeps the first result handle_read records, whatever arrives later.
ResultsStable ==
  [][\A i \in Probes : result[i] # {} => result'[i] = result[i]]_vars

\* Returning before the timeout is safe and complete: the kernel no longer uses
\* any send buffer, the target was reached by a probe, and every hop before
\* that one has an answer.
ReachedIsComplete ==
  outcome = "reached" =>
    /\ inflight = {} /\ executed = {}
    /\ \E i \in Probes :
         /\ ttl(i) >= PathLen
         /\ \E x \in result[i] : x.source = {Target}
         /\ \A t \in FirstHop .. ttl(i) - 1 : HopAnswered(result, t)

\* run() never waits on when the trace is complete, whether a read or the last
\* write completed it.
NeverOverstays ==
  pc = "wait" => ~Reached(sending, result)

\* run() returns and the ring is closed, at the latest after the timeout,
\* whatever the sends, the reads and the network do.
Returns == <>(pc = "closed")

-----------------------------------------------------------------------------
(* Properties that comments of the code state and the code does not have.  *)

\* "Callers must ... reschedule the request if not" (Multishot::schedule): the
\* entry that run() then pushes has room.
RearmFits == outcome # "sq_full"

\* "A probe's send buffers, which must outlive the send completion" (Outgoing),
\* and a reader "neither moves nor drops" before its reads "complete"
\* (Multishot::schedule): when run() has dropped both, the kernel uses neither.
NothingDroppedInUse == pc = "dropped" => inflight = {} /\ armed = {}

\* "Records a ProbeResult for the probe the reply answers, unless that probe
\* already has one" (handle_read).
RecordsEveryAnswer ==
  [][HandleRead => \A m \in head.msg : \A i \in Identified(head.slot, m) :
                     result'[i] # {}]_vars

\* "Ignore errors on the receive queue that we expect to see on the error queue"
\* (run): only a lack of buffers is logged as a failure.
NoSpuriousReadError ==
  \A k \in DOMAIN cq :
    cq[k].state = "Read" /\ cq[k].slot = RecvQueue /\ Failed(cq[k]) => cq[k].err = {"ENOBUFS"}
=============================================================================
