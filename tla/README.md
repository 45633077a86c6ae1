# A TLA+ model of ringroute

ringroute is a traceroute that does all of its I/O through one io_uring
instance. It sends every probe of every hop at once, keeps two multishot reads
armed on the socket (its receive queue and its error queue) and stops when the
target has answered and no hop before it is silent, or when the timeout
expires. This directory models it in TLA+, checks the model with TLC and proves
its invariants with TLAPS.

All paths below are relative to the repository's crate: `src/src/trace.rs` is
the crate's `src/trace.rs`.

## The system

| Part | Source | State | Operations |
|---|---|---|---|
| event loop | `trace.rs` `run`, `schedule_write`, `Multishot`, `handle_read` | the probes (`sent_at`, `result`), the slab of send buffers `sending`, the submission and completion queues with the head and the tail the program cached, the buffer ring | push the first batch, submit and wait, handle a write, read or timeout completion, re-arm a read, return |
| probing methods | `method/mod.rs`, `icmp.rs`, `udp.rs`, `tcp.rs` | identifier, ports and sizes fixed when the method is made; the sockets that hold them | `try_new`, `probe`, `max_reply_len`, `identify`, `classify`, `ignores_read_error`, `open` |
| ICMP classification | `icmp.rs`, `ReplyKind` in `method/mod.rs` | none | `IcmpError::kind`, `terminates_trace`, markers |
| error queue and addresses | `net.rs` | none | `parse_ip_recverr` (walks control messages), `parse_sockaddr` |
| report | `main.rs`, `Display` in `trace.rs` and `method/mod.rs` | the source printed last on the line | `print_results`, `print_hop_probes` |
| command line | `main.rs` | the arguments | ranges of the arguments, target resolution, choice of the address |
| feature check | `trace.rs` `check_features_supported` | none | asks the kernel for the opcodes needed |
| kernel and network | external | armed reads, sends in the kernel, the timer, free buffers, the two socket queues, the socket's pending error, datagrams under way | complete, deliver, lose, duplicate, reorder |

How they interact. `main` resolves the target, makes a method and calls `run`.
`run` opens the method's socket and asks the method for each probe's datagram.
From then on one thread of the program and the kernel share two rings: the
program pushes entries, the kernel posts completions, in any order. A read
completion carries a buffer taken from the buffer ring; `handle_read` gives it
back when its guard is dropped. The user data of an entry (a 16 bit slot and a
state) is all that ties a completion to the probe or the reader it belongs to;
what a reply's headers carry is all that ties a reply to its probe.

What is hard here:

* completions of sends, reads and the timeout come in any order, also the reply
  to a probe before the completion of its own send;
* a multishot read ends whenever the kernel likes (no buffer, pending socket
  error, or no reason the program can see) and must be armed again, through a
  queue whose free space the program computes from a cached head;
* an ICMP error is on the error queue and is also the socket's pending error,
  which makes an unrelated read, or an unrelated send, fail;
* the timeout ends the trace at any point, with sends and reads in the kernel;
* replies are lost, duplicated, reordered, about other flows, or longer than the
  receive buffer;
* sequence numbers, ports and acknowledgements are narrow integers, and only the
  ranges of the command line keep the index of a probe inside them;
* the error queue is parsed through raw pointers, with lengths that come from the
  data itself;
* several processes trace at once, all number their probes from 0, and a raw TCP
  socket sees the replies of all of them.

## Modules

| Module | What it is |
|---|---|
| `Icmp` | `icmp.rs`: `IcmpError::kind` for both IP versions, `ReplyKind`, `terminates_trace` |
| `Methods` | the three methods: the fields of a probe, the reply buffer, `identify`, `classify`, `ignores_read_error` |
| `Trace` | `run` and all that moves around it, as one state machine; the properties are at its end |
| `TraceAbs` | what a trace promises, without rings, buffers and sockets |
| `TraceRefines` | the refinement mapping from `Trace` to `TraceAbs` |
| `MCTrace` | small instances of `Trace` for TLC (the sets of ICMP errors) |
| `TraceLemmas` | lemmas about the operators of `Trace` (slots, entries and uniqueness under append and tail, what a completion is) |
| `TraceProof` | the inductive invariant of `Trace` about its rings, buffers and slab, and its theorems |
| `TraceResults` | the theorems about what `run` records and when it returns |
| `TraceRefinesProof` | the proof that `Trace` implements the safety part of `TraceAbs` |
| `RecvErr`, `MCRecvErr` | `net.rs`: the walk of `parse_ip_recverr` over control messages, and `parse_sockaddr` |
| `RecvErrProof` | the inductive invariant of the walk and its theorems |
| `Main`, `MCMain` | `main.rs`: arguments, target, method, the call of `run`, the report |
| `MainProof` | the inductive invariants of `main()` and its theorems |
| `Flows`, `MCFlows` | several processes on one host: `try_new`, `open`, and when what they open is closed |
| `FlowsProof` | the inductive invariant of the processes and its theorem |

`Trace` extends `Methods`, which extends `Icmp`. `Main` and `Flows` instantiate
`Methods`, once for the arguments of a command line and once per process.
`Main` stands around `Trace`: `RunPreconditions` shows that `run` is only called
with what `Trace` assumes, and `RunReturns` takes any probes that `run` may return.

### How `Trace` corresponds to the code

| Variable | In the code |
|---|---|
| `pc`, `outcome` | where `run` is, and how it returned (`reached` and `timeout` are both `Ok(probes)`) |
| `sq`, `stale` | the submission queue: entries the kernel has not taken, and entries it has taken which the cached head still counts |
| `cq`, `visible` | the completion queue, and how much of it the last `cq.sync()` showed |
| `sending` | the occupied keys of the slab |
| `sent_at`, `result` | the fields of the probes |
| `armed`, `inflight`, `executed`, `timer`, `bufs`, `queues`, `sk_err` | external: the kernel |
| `wire`, `msgs`, `strays` | external: the network |

`Start` is `run` up to the loop: it pushes two reads, a send per probe and the
timeout. `StartFails` is any failure before that. `Submit`, `SubmitBusy`,
`SubmitFails`, `Wake` and `Interrupt` are `sq.sync`, `submit_and_wait(1)` with
its results, and `cq.sync`. `HandleWrite`, `HandleRead`, `RearmFails` and
`HandleTimeout` are one turn of the `for` loop each, with the whole of
`handle_read`, the re-arm and the computation of `done` in the same step: the
thread does nothing else between them, and what the kernel does meanwhile does
not touch what they read, except the tail of the completion queue, which they
do not look at. A step of one completion is the grain at which the two sides
interleave. After `run` returns its locals are dropped (`dropped`) and the ring
is closed (`closed`); the two are separate because the kernel can still use the
memory in between.

The external actions assume of io_uring and of sockets only what the code
relies on: entries are taken in order, each send has one completion, a multishot
read has completions with `IORING_CQE_F_MORE` and ends with one without it,
completions that do not fit are kept, and a pending socket error is reported
once, to whichever send or receive queue read comes first. `Transmit` and
`PostWrite` are two steps, so that a reply can overtake the completion of its
send. `Answer` may happen any number of times for a probe, or never: loss,
duplication, delay and reordering need no action of their own.

A Rust `Option` is a set with at most one element, a datagram is the header
fields the code reads and its number of bytes, an address is a natural number
(the router at distance `d` is `d`). The text of messages, the log and round trip
times are left out.

### The other modules

`TraceAbs` has four variables: the sends that are not over, which probes were
sent, their results, and how the trace ended. A step ends a send, records one
true answer, times out or fails; the trace ends as `reached` in the very step that
completes it. `TraceRefines` maps the slab to the pending sends and hides the
rest.

`RecvErr` has the variables of `parse_ip_recverr` (`offset`, `cmsg_end`,
`error_end`), what it returns, and two that record what the last step did: the
byte ranges it read through a raw pointer, and the sums it computed without a
check. Control data is either arbitrary or what the kernel writes. A header is
chosen when it is read, as no offset is read twice.

`Main` follows `main()` from one `?` or `bail!` to the next, then prints probe by
probe. A line is a sequence of tokens: a source, a time with its annotation, or a
star.

`Flows` has a phase per process, the port or identifier whose socket it holds, and
the datagrams ever sent, any of which may be answered at any time. An ICMP or UDP
socket is closed when `run` returns; the dummy socket of `Tcp` is dropped with the
method, when `main` returns.

## What the runs check

| Run | Instance | Checks |
|---|---|---|
| `loop` | ICMP, 2 probes, target at 2, hop and filter errors, 2 answers | `TypeOK`, `SendsAccounted`, `ReadersListen`, `SlackSuffices`, `IdentifiedExactly`, `Attribution`, `ResultsStable` |
| `buffers` | 2 probes, 4 messages of which one may be stray, 4 buffers | `BuffersConserved`, `ReadersListen` when the buffers run out |
| `tight` | TCP, 4 probes: 7 entries in a queue of 8, 1 answer or stray message | `SendsAccounted`, `ReadersListen` up to the moment a re-arm finds the queue full; `IdentifiedExactly`, `Attribution` |
| `live` | UDP over IPv6, hops 2 and 3 of which the target answers both, 1 answer or stray message | `IdentifiedExactly`, `Attribution`, `ReachedIsComplete`, `NeverOverstays`, `Returns`, `Implements` |
| `recverr` | `usize::MAX` = 255, lengths around every size and limit | `ReadsInBounds`, `NoOverflow`, `KernelErrorFound`, `Advances` |
| `main` | command lines at the edges of all ranges; reports of up to 6 probes | `RunPreconditions`, `ProbesDistinguished`, `ReportReadable`, `ReportStops` |
| `flows` | 3 processes, 2 ports, 2 probes, each method and a mixture | `NoCrossTalk` |

The properties, in words:

* **`SendsAccounted`**: an occupied key of the slab is a send that is queued, in
  the kernel, or completed and not yet handled, and exactly one of them. So
  `sending.remove` never meets a vacant key, which would panic, and in the loop
  no buffer is freed under a send.
* **`ReadersListen`**: each of the two reads is queued, armed, or ended with the
  completion that leads to its re-arm still ahead, and exactly one of them. The
  trace never goes deaf on a queue and never reads one twice.
* **`BuffersConserved`**: a buffer is free or holds a message still to be
  handled. All early returns of `handle_read` drop the same guard, so one operator,
  `Recycled`, stands for them.
* **`SlackSuffices`**: with two spare entries in the submission queue no re-arm
  can fail. The kernel rounds the size up to a power of two, so most traces have
  that slack, and the run `rearm_fits` shows one that does not.
* **`IdentifiedExactly`**, **`Attribution`**: a reply is mapped to the probe it
  answers, and to none if it answers none; what is recorded of a probe is true
  of the network.
* **`ResultsStable`**: a probe keeps its first result.
* **`ReachedIsComplete`**, **`NeverOverstays`**: returning before the timeout
  happens only when no send buffer is in use, the target was reached and every
  hop before is answered; and the loop never blocks when that is so.
* **`Returns`**: `run` returns and the ring is closed.
* **`Implements`**: `Trace` implements `TraceAbs`, its liveness included.
* **`ReadsInBounds`**, **`NoOverflow`**, **`Advances`**: for any control data the
  walk reads inside it, its unchecked sums do not overflow, and it ends.
* **`KernelErrorFound`**: the control buffer has room for what the kernel writes,
  so every ICMP error is found, with its version and its sender, and an error of
  the host itself is not taken for one.
* **`RunPreconditions`**: on every way to `run` the arguments have been checked,
  and there is one target, of the wanted IP version.
* **`ProbesDistinguished`**: in the largest trace the command line admits each
  probe is found again from the port, sequence number or acknowledgement in its
  answers, and the number of buffers fits its `u16`.
* **`ReportReadable`**, **`ReportStops`**: reading a line from left to right gives
  back who answered each probe, although a source is printed only when it changes;
  the lines end with the first hop at which the target answered.
* **`NoCrossTalk`**: a trace records replies to its own probes only. The exception
  is a late reply to a process whose `run` was over before this one got its port,
  which nothing in the packets can tell.

### Bounds

`MaxMsgs` bounds what the network delivers and `MaxStrays` how much of it answers
no probe; everything else is finite because a trace sends each probe once. Two
probes give two hops, so that one answer can come before, after or without the
other, with a silent hop before the one that is answered. Two answers are enough
for a duplicate, for two different answers to one probe and for both orders of two
replies; four messages on four buffers exhaust the buffer ring. One stray message
is enough for attribution, as messages do not depend on each other but through
the socket's queues and pending error; the three methods are spread over `loop`,
`tight` and `live`. `loop` has no stray messages, which would make it too large;
`buffers` (ICMP), `tight` (TCP) and `live` (UDP) have one each.

A stray message differs from an answer to probe 0 in one thing: the source port
of the probe or the destination port, the node it is from, an index one past the
last, an index that a cut to `u16` would bring into range, a port below
`START_PORT`, an acknowledgement of 0, a header one byte short, or control data that
is cut or missing. So each of these checks in `identify` and `handle_read` is the
only one that refuses some message, and with any one of them taken out
`IdentifiedExactly` fails in `tight` or in `live`. The stray answers of the target
are longer than the buffer. What a read cuts off is by reader: all buffers have
room for the control data of an error, and as the receive queue reader reserves
none for it, a message on that queue has those 64 bytes too (`reply_room`). The slack of the submission queue depends only on the number
of probes: 2 probes leave three spare entries (5 of 8), 4 leave one, 5 leave none.
With four probes the orders of the completions are many, so `tight` has one more
bound, the constraint `Backlog`: a state with more than two completions to handle
is not explored further. The case of interest, both reads ending in the first
batch, needs two.

In `recverr` all sizes are real and only `usize::MAX` is small: 255 is far enough
above the largest structure (64 bytes of control data) for a walk of several
messages, and close enough for every sum to come near it. The sizes are those of
a 64-bit host, here and in the theorems, which hold for every `usize::MAX` from 255
on. In `main` the numbers of the command line are those at and next to
each limit; `MaxReport` lets only the small traces be printed, of at most two hops
of three probes, which is what a line needs for a source that changes and comes
back. In `flows` three processes on two ports make a port be taken again while
another trace is running.

Deadlock is checked in every run: `Finished` is the only way to stop.

### Fairness

In `Trace`, `WF(Thread)`: the thread is scheduled whenever it can take a step of its own (a
signal that interrupts its wait is not one). `WF(Timer)`: a timeout the kernel has
accepted expires. Nothing is assumed of sends, of reads or of the network, so
`Returns` holds although nothing else may ever complete: it rests on the timeout alone, which is submitted with the first batch, and on the loop
treating it as the end whatever is pending. `TraceAbs` has `WF(Timeout)`, time
passes, and `Implements` shows that these two assumptions give it.

### Disagreements between comments and code

Five runs check what a comment or help text says and find it violated.

| Run | What it shows |
|---|---|
| `rearm_fits` | The ring is sized for one entry each (`trace.rs:363`), but `push` counts against the head cached at the last `sync`, and the first `sync` after the first batch only comes when that batch of completions is used up. With five probes (8 entries of 8) a read that ends in the first batch cannot be pushed again; `run` returns an error and all results are lost. |
| `dropped_in_use` | The timeout returns without looking at `sending`, and no return cancels the multishot reads: the slab and the readers are freed, before the ring, while sends are in the kernel and reads are armed. The buffers "must outlive the send completion" (`trace.rs:91`) and a reader "neither moves nor drops" before its reads complete (`trace.rs:248`). |
| `records_answers` | A reply read before the completion of its own send is dropped for good, as `sent_at` is still `None` (`trace.rs:310` against `trace.rs:256`). |
| `read_errors` | The receive queue reader ignores only `EHOSTUNREACH`. After the target's Port Unreachable the pending error is `ECONNREFUSED`, so the normal end of a UDP trace can be logged as a failure (`udp.rs:46` against `trace.rs:447`). |
| `count_max` | `--count 10` is refused: the range `1..MAX_PROBES_PER_HOP` excludes its end (`main.rs:78`), the help text says "[max: 10]" (`main.rs:77`). |

The second is about the lifetimes the comments describe; whether the
kernel still reads the memory after it was freed depends on the operation
and is not modelled.

### Mutants

Every property of a passing run has a mutant: an operator that stands right
before the definition it replaces and has a plausible bug (a dropped guard, a
missing re-arm or recycle, a port or a source that is not compared, a condition checked on
one kind of completion only, a dummy socket dropped too early). Each makes TLC report that property.

## What is proved

### Rings, buffers and the slab

`TraceProof` proves, for every method, every range of hops and count that
`main` admits, every path length and every number of messages:

* `InvCorrect`: `Spec => []Inv`
* `TypeCorrect`, `SendsCorrect`, `ReadersCorrect`, `BuffersCorrect`,
  `SlackCorrect`: the invariants of these names hold in `Spec`
* `StableCorrect`: `Spec => ResultsStable`

The assumptions are those the modules declare: `MethodAssumption` (the method
was made, so the packet holds its headers), `ArgsAssumption` (the ranges `clap`
enforces, and `first < last`) and `NetworkAssumption` (routers do not send Port
Unreachable; the comment in `IcmpError::kind` says so). TLC evaluates them in
every run.

The inductive invariant is

    Inv == TypeOK /\ AtStart /\ BuffersConserved /\ SendsAccounted
           /\ ReadersListen /\ BatchOK /\ SlackSuffices

`SendsAccounted` and `ReadersListen` say nothing before the first push, so
`Start` needs `AtStart`: nothing is in the rings or in the kernel yet.
`TypeOK` bounds the free buffers by the size of the buffer ring, and recycling
one keeps that bound only because the buffer is counted by `BuffersConserved`.
`SlackSuffices` needs `BatchOK`: after the first submit only reads are
pushed, and the cached head hides at most the first batch. By `ReadersListen` two
queued reads are two different readers, and a third, the one to be re-armed, is
neither, so at most one read is queued when a re-arm is due: at most
`ring_size + 1` entries are counted, and the push fits when there are two more
than `ring_size`.

There is one lemma per group of actions, with one step per conjunct an action
can disturb. The lemmas of `TraceLemmas` say how the slots, the entries and the
uniqueness of a queue change when an entry is appended or the head is removed.

### What is recorded and when `run` returns

`TraceResults` builds on `Inv` and proves `IdentifiedCorrect`,
`AttributionCorrect`, `ReachedCorrect` and `NeverOverstaysCorrect`, the
invariants `IdentifiedExactly`, `Attribution`, `ReachedIsComplete` and
`NeverOverstays`, for all three methods, both IP versions and every packet size.
The inductive invariant is

    ResultInv == QueuesGenuine /\ ReadsGenuine /\ Attribution /\ OutcomeOK

A result is made of a message that the network delivered some steps before, so
the invariant follows the message: what is on a queue of the socket
(`QueuesGenuine`), and what a completion carries, cut to the receive buffer
(`ReadsGenuine`), is an answer to a probe on the wire or a stray message.
`StrayMeaning` takes the kinds of stray messages one by one and names the check
that refuses each.
`ErrorIdentified` and `TargetIdentified` are the round trip of `probe` and
`identify`, method by method: the field an answer carries gives back the index of
the probe, because the ranges of the command line keep the index inside it and
because the receive buffer has room for the headers that are read
(`BufferHoldsHeaders`). `AnswerMeaning` is the same for `classify`. `OutcomeOK`
says that the trace is never complete at the top of the loop: each completion that
can complete it ends it. It needs `SendsAccounted`: an empty slab means that the
kernel has no send left.

`TraceRefinesProof` proves `ImplementsSafely`:

    Spec => Abs!Init /\ [][Abs!Next]_(Abs!vars)

with one lemma per group of actions. A read that is recorded is an abstract
`Record` because `Attribution` holds of it in the next state; steps of the kernel
and of the network change nothing the abstract trace sees. The fairness of
`TraceAbs` is not part of it; TLC checks it with `Implements`.

### The error queue

`RecvErrProof` proves, with the structure sizes of a 64-bit host, for every
`usize::MAX` from 255 on, every length a slice can have and every content:

* `BoundsCorrect`, `OverflowCorrect`, `FoundCorrect`: the invariants
  `ReadsInBounds`, `NoOverflow` and `KernelErrorFound`
* `AdvancesCorrect`: `Spec => Advances`

from `SizeAssumption` (a slice is at most `isize::MAX` bytes long, which Rust
guarantees). The inductive invariant adds that `offset` stays within one word of
the length of the data, which with the bound on slices keeps the
sums small, and, for data the kernel wrote, that the walk is still at its first
message.

### `main()` and the report

`MainProof` proves `PreconditionsCorrect`, `DistinguishedCorrect`,
`StopsCorrect` and `ReadableCorrect`, the four invariants of `Main`, for all command lines, all sequences of addresses a resolver may answer
with and all results. `Checked`, `Chosen` and `Printed` say what each check has
established once the program counter is past it: the ranges, then the order of
the hops, then the target, then the size. That `find` gives one target, of the
wanted version, needs the least of the matching positions, which exists because `<` is
well-founded on the naturals (`Least`). `ReportReadable` needs `Reading`: the
line printed so far can be read back as the first probes of the hop, and the last
source on it is `last_source`. One lemma says that a source token changes nothing
of what was read and becomes the source of what follows (`SourceAppended`), one
that a time or a star is the next probe (`ProbeAppended`).

### Several processes

`FlowsProof` proves `NoCrossTalkCorrect` for any number of processes, any set of
ports and any probes. The invariant follows a number from the bind to the last
moment at which a reply may be recorded: who holds a number owns the socket that
reserves it (`Reserved`), so no two hold the same one (`Exclusive`), so whoever
started with the number that a process now holds had ended when that process got
it (`Predecessors`). For ICMP and UDP the kernel delivers by that number; for TCP
`TcpIdentifies` shows that the filter of `identify` does the same. It is here that
the order of closing matters: `Tcp` holds its port until `main` returns, and
`Holds` would not be preserved if the dummy socket were dropped with the local
variables of `try_new`.

### Only model-checked

`Returns` and the fairness in `Implements`: liveness and `ENABLED` are outside the
reach of TLAPS. All invariants of the passing runs are proved.

Two notes on the way from TLC to proofs. SANY and tlapm read `UNION S \cap T`
differently, so `Identified` in `Trace` has parentheses. The
inductive invariants `ResultInv`, `Inv` and `Reading` also hold in every state TLC
reaches on the instances of the runs.

## What is not modelled

* Filling datagrams byte by byte, checksums and TCP options: `probe` lists the
  fields replies are told apart by.
* `check_features_supported` and `enable_recverr`: queries and options of the
  kernel whose only effect on the program is to fail (`StartFails`).
* What `clap` and the standard library parse (numbers, addresses, host names):
  `Main` starts from the parsed values, and from any answer of the resolver.
* Round trip times, the log and the text of the report.
* Memory after the return of `run`: the model says what is still in the kernel,
  not what the kernel then does with it.

## Plan

1. `Icmp`, `Methods`, `Trace` and the proofs of its invariants. Done.
2. `TraceAbs` and the refinement, `RecvErr` with its proofs, `Main`, `Flows`. Done.
3. Proofs: the results and the return of `run`, the safety part of the refinement,
   `Main` and `Flows`. Done.
4. Proofs still worth having: that the states `Main` calls `run` in satisfy the
   assumptions of `Trace` as one theorem, and facts about `TraceAbs` itself (an
   abstract trace that ends as `reached` stays complete) that `Trace` inherits
   through `ImplementsSafely`.
