---------------------------- MODULE TraceProof ----------------------------
(***************************************************************************)
(* The invariants of Trace for every value of the constants.               *)
(***************************************************************************)
EXTENDS TraceLemmas

\* Nothing is queued before run() has pushed its first entries.
AtStart ==
  pc = "start" =>
    /\ sq = <<>> /\ cq = <<>> /\ visible = 0 /\ stale = 0
    /\ armed = {} /\ inflight = {} /\ executed = {} /\ timer = "off"

\* Before the first submit the submission queue holds what run() pushed and the
\* kernel nothing; afterwards only reads are pushed, and no more than the first
\* batch is hidden behind the cached head.
BatchOK ==
  Running =>
    \/ /\ Len(sq) = ring_size /\ stale = 0 /\ cq = <<>> /\ visible = 0
       /\ armed = {} /\ inflight = {} /\ executed = {} /\ timer = "off"
    \/ /\ \A k \in DOMAIN sq : sq[k] \in ReadSqes
       /\ stale <= ring_size

Inv ==
  /\ TypeOK
  /\ AtStart
  /\ BuffersConserved
  /\ SendsAccounted
  /\ ReadersListen
  /\ BatchOK
  /\ SlackSuffices

\* Two reads, one send per probe and the timeout.
LEMMA RingSize == ring_size = NumProbes + 3 /\ ring_size \in Nat
<1>1. Cardinality(Readers) = 2
  <2>1. Readers = {0} \cup {1} /\ 1 \notin {0}
    BY DEF Readers, RecvQueue, ErrQueue
  <2>2. IsFiniteSet({0}) /\ Cardinality({0}) = 1
    BY FS_Singleton
  <2>3. Cardinality({0} \cup {1}) = Cardinality({0}) + 1
    BY <2>1, <2>2, FS_AddElement
  <2> QED
    BY <2>1, <2>2, <2>3
<1> QED
  BY <1>1, Bounds DEF ring_size

\* The queue the kernel sets up is the smallest that holds the first batch.
LEMMA SqEntriesFit == SqEntries \in Nat /\ SqEntries >= ring_size
<1>1. ring_size \in Nat /\ ring_size <= 2298
  BY RingSize, Bounds
<1>2. \E c \in Pow2 : c >= ring_size /\ \A d \in Pow2 : d >= ring_size => c <= d
  BY <1>1 DEF Pow2
<1>3. SqEntries \in Pow2 /\ SqEntries >= ring_size
  BY <1>2 DEF SqEntries
<1> QED
  BY <1>3 DEF Pow2

\* What run() pushes before the loop: every reader and every probe once.
LEMMA FirstPush ==
  ASSUME Start
  PROVE  /\ sq' \in Seq(Sqe) /\ Len(sq') = ring_size
         /\ Slots(sq', WriteSqes) = Probes /\ Unique(sq', WriteSqes)
         /\ Slots(sq', ReadSqes) = Readers /\ Unique(sq', ReadSqes)
<1> DEFINE n == NumProbes
<1>1. n \in Nat /\ ring_size = n + 3 /\ Probes = 0 .. n - 1 /\ Readers = {0, 1}
  BY RingSize, Bounds DEF Probes, Readers, RecvQueue, ErrQueue
<1> HIDE DEF n
<1>2. /\ DOMAIN sq' = 1 .. n + 3
      /\ \A k \in 1 .. 2 : sq'[k] = ReadSqe(k - 1)
      /\ \A k \in 3 .. n + 2 : sq'[k] = WriteSqe(k - 3)
      /\ sq'[n + 3] = TimeoutSqe
  BY <1>1 DEF Start, n
<1>3. /\ \A k \in 1 .. 2 : k - 1 \in Readers /\ sq'[k] = [slot |-> k - 1, state |-> "Read"]
      /\ \A k \in 3 .. n + 2 : k - 3 \in Probes /\ sq'[k] = [slot |-> k - 3, state |-> "Write"]
      /\ sq'[n + 3] = [slot |-> 0, state |-> "Timeout"]
  BY <1>1, <1>2, SqeTypes
<1>4. /\ \A k \in 1 .. 2 : sq'[k] \in ReadSqes /\ sq'[k] \notin WriteSqes /\ sq'[k].slot = k - 1
      /\ \A k \in 3 .. n + 2 : sq'[k] \in WriteSqes /\ sq'[k] \notin ReadSqes
                               /\ sq'[k].slot = k - 3
      /\ sq'[n + 3] \in Sqe /\ sq'[n + 3] \notin WriteSqes /\ sq'[n + 3] \notin ReadSqes
  <2>1. ASSUME NEW k \in 1 .. 2
        PROVE  sq'[k] \in ReadSqes /\ sq'[k] \notin WriteSqes /\ sq'[k].slot = k - 1
    BY <1>3 DEF Sqe, WriteSqes, ReadSqes
  <2>2. ASSUME NEW k \in 3 .. n + 2
        PROVE  sq'[k] \in WriteSqes /\ sq'[k] \notin ReadSqes /\ sq'[k].slot = k - 3
    <3> DEFINE i == k - 3
    <3>1. i \in Probes /\ sq'[k] = [slot |-> i, state |-> "Write"]
      BY <1>3
    <3> HIDE DEF i
    <3>2. sq'[k] \in WriteSqes /\ sq'[k] \notin ReadSqes /\ sq'[k].slot = i
      BY <3>1 DEF Sqe, WriteSqes, ReadSqes
    <3> QED
      BY <3>2 DEF i
  <2>3. sq'[n + 3] \in Sqe
    BY <1>2 DEF Sqe
  <2>4. sq'[n + 3] \notin WriteSqes /\ sq'[n + 3] \notin ReadSqes
    BY <1>3 DEF WriteSqes, ReadSqes
  <2> QED
    BY <2>1, <2>2, <2>3, <2>4
<1>5. \A k \in 1 .. n + 3 : k \in 1 .. 2 \/ k \in 3 .. n + 2 \/ k = n + 3
  BY <1>1
<1>6. \A k \in 1 .. n + 3 : sq'[k] \in Sqe
  BY <1>4, <1>5 DEF WriteSqes, ReadSqes
<1>7. sq' \in Seq(Sqe) /\ Len(sq') = ring_size
  <2>1. sq' \in [1 .. n + 3 -> Sqe]
    BY <1>1, <1>6 DEF Start
  <2> QED
    BY <1>1, <2>1
<1>8. Entries(sq', ReadSqes) = 1 .. 2
  BY <1>1, <1>2, <1>4, <1>5 DEF Entries
<1>9. Entries(sq', WriteSqes) = 3 .. n + 2
  BY <1>1, <1>2, <1>4, <1>5 DEF Entries
<1>10. Slots(sq', ReadSqes) = Readers /\ Unique(sq', ReadSqes)
  <2>1. \A j, k \in 1 .. 2 : j - 1 = k - 1 => j = k
    OBVIOUS
  <2>2. {k - 1 : k \in 1 .. 2} = {0, 1}
    OBVIOUS
  <2> QED
    BY <1>1, <1>4, <1>8, <2>1, <2>2 DEF Slots, Unique
<1>11. Slots(sq', WriteSqes) = Probes /\ Unique(sq', WriteSqes)
  <2>1. \A j, k \in 3 .. n + 2 : j - 3 = k - 3 => j = k
    OBVIOUS
  <2>2. {k - 3 : k \in 3 .. n + 2} = 0 .. n - 1
    <3>1. \A i \in 0 .. n - 1 : i + 3 \in 3 .. n + 2 /\ (i + 3) - 3 = i
      BY <1>1
    <3> QED
      BY <1>1, <3>1
  <2>3. Slots(sq', WriteSqes) = {k - 3 : k \in 3 .. n + 2}
    BY <1>4, <1>9 DEF Slots
  <2>4. Unique(sq', WriteSqes)
    BY <1>4, <1>9, <2>1 DEF Unique
  <2> QED
    BY <1>1, <2>2, <2>3, <2>4
<1> QED
  BY <1>7, <1>10, <1>11

\* Reads with distinct slots fill at most two entries, and at most one while a
\* reader is not among them.
LEMMA ReadsOnly ==
  ASSUME sq \in Seq(Sqe), \A k \in DOMAIN sq : sq[k] \in ReadSqes, Unique(sq, ReadSqes)
  PROVE  /\ Len(sq) <= 2
         /\ \A r \in Readers : r \notin Slots(sq, ReadSqes) => Len(sq) <= 1
<1>1. Entries(sq, ReadSqes) = 1 .. Len(sq) /\ Len(sq) \in Nat
  BY DEF Entries
<1>2. \A k \in 1 .. Len(sq) : sq[k].slot \in {0, 1}
  <2>1. \A e \in ReadSqes : e.slot \in Readers
    BY SqeTypes DEF ReadSqes, Sqe
  <2> QED
    BY <1>1, <2>1 DEF Readers, RecvQueue, ErrQueue
<1>3. \A j, k \in 1 .. Len(sq) : sq[j].slot = sq[k].slot => j = k
  BY <1>1 DEF Unique
<1>4. Len(sq) <= 2
  <2> SUFFICES ASSUME Len(sq) > 2 PROVE FALSE
    BY <1>1
  <2>1. 1 \in 1 .. Len(sq) /\ 2 \in 1 .. Len(sq) /\ 3 \in 1 .. Len(sq)
    BY <1>1
  <2> QED
    BY <1>2, <1>3, <2>1
<1>5. ASSUME NEW r \in Readers, r \notin Slots(sq, ReadSqes), Len(sq) > 1
      PROVE  FALSE
  <2>1. 1 \in 1 .. Len(sq) /\ 2 \in 1 .. Len(sq)
    BY <1>1, <1>5
  <2>2. sq[1].slot # r /\ sq[2].slot # r
    BY <1>1, <1>5, <2>1 DEF Slots
  <2> QED
    BY <1>2, <1>3, <2>1, <2>2 DEF Readers, RecvQueue, ErrQueue
<1> QED
  BY <1>1, <1>4, <1>5

-----------------------------------------------------------------------------
(* The invariant holds initially and is preserved by every action.         *)

\* The initial state satisfies the invariant.
LEMMA InitInv == Init => Inv
<1> SUFFICES ASSUME Init PROVE Inv
  OBVIOUS
<1>1. TypeOK
  BY Bounds DEF Init, TypeOK, Readers
<1>2. BuffersConserved
  <2>1. Entries(cq, FilledCqes) = {}
    BY EmptySlots DEF Init
  <2> QED
    BY <2>1, Bounds, FS_EmptySet DEF Init, BuffersConserved
<1> QED
  BY <1>1, <1>2 DEF Init, Inv, AtStart, SendsAccounted, ReadersListen, BatchOK, Running,
     SlackSuffices

\* run() up to the loop preserves the invariant.
LEMMA StartInv == Inv /\ (Start \/ StartFails) => Inv'
<1>1. ASSUME Inv, Start PROVE Inv'
  <2>1. /\ sq = <<>> /\ cq = <<>> /\ cq' = <<>> /\ visible' = 0 /\ stale' = 0
        /\ armed' = {} /\ inflight' = {} /\ executed' = {} /\ timer' = "off"
        /\ sending' = Probes /\ pc' = "loop" /\ outcome' = outcome
    BY <1>1 DEF Start, Inv, AtStart, kern_vars
  <2>2. TypeOK'
    BY <1>1, FirstPush DEF Start, Inv, TypeOK, kern_vars, net_vars
  <2>3. BuffersConserved'
    BY <1>1, <2>1 DEF Start, Inv, BuffersConserved, kern_vars
  <2>4. Slots(cq', WriteCqes) = {} /\ Unique(cq', WriteCqes)
        /\ Slots(cq', FinalCqes) = {} /\ Unique(cq', FinalCqes)
    BY <2>1, EmptySlots
  <2>5. SendsAccounted' /\ ReadersListen'
    BY <1>1, <2>1, <2>4, FirstPush DEF SendsAccounted, ReadersListen
  <2>6. BatchOK'
    BY <1>1, <2>1, FirstPush DEF BatchOK
  <2> QED
    BY <1>1, <2>1, <2>2, <2>3, <2>5, <2>6 DEF Inv, AtStart, SlackSuffices
<1>2. ASSUME Inv, StartFails PROVE Inv'
  BY <1>2 DEF StartFails, Inv, TypeOK, AtStart, BuffersConserved, SendsAccounted,
     ReadersListen, BatchOK, SlackSuffices, Running, ring_vars, kern_vars, net_vars
<1> QED
  BY <1>1, <1>2

\* Actions that change neither ring and nothing the rings refer to.
LEMMA QuietInv ==
  ASSUME Inv, TypeOK', UNCHANGED <<sq, cq, sending, armed, inflight, executed, timer, bufs>>,
         stale' \in {stale, 0}, visible' = visible \/ cq # <<>>,
         pc' = pc \/ (Running /\ pc' \in {"loop", "wait", "dropped"}),
         outcome' = outcome \/ outcome' # "sq_full"
  PROVE  Inv'
<1> USE DEF Inv, Running
<1>1. AtStart'
  BY DEF AtStart
<1>2. BuffersConserved'
  BY DEF BuffersConserved
<1>3. SendsAccounted'
  BY DEF SendsAccounted
<1>4. ReadersListen'
  BY DEF ReadersListen
<1>5. BatchOK'
  BY RingSize DEF BatchOK
<1>6. SlackSuffices'
  BY DEF SlackSuffices
<1> QED
  BY <1>1, <1>2, <1>3, <1>4, <1>5, <1>6

\* The loop's calls of submit_and_wait preserve the invariant.
LEMMA LoopInv ==
  Inv /\ (Submit \/ SubmitBusy \/ SubmitFails \/ Wake \/ Interrupt) => Inv'
<1>1. ASSUME Inv, Submit PROVE Inv'
  <2>1. TypeOK /\ pc = "loop" /\ pc' = "wait" /\ sq' = <<>> /\ cq' = cq
        /\ sending' = sending /\ executed' = executed /\ outcome' = outcome
    BY <1>1 DEF Inv, Submit, LoopTop
  <2>2. inflight' = inflight \cup Slots(sq, WriteSqes) /\ armed' = armed \cup Slots(sq, ReadSqes)
    BY <1>1, <2>1, SubmittedSlots DEF Submit, TypeOK
  <2>3. /\ Slots(sq', WriteSqes) = {} /\ Unique(sq', WriteSqes)
        /\ Slots(sq', ReadSqes) = {} /\ Unique(sq', ReadSqes)
    BY <2>1, EmptySlots
  <2>4. SendsAccounted /\ ReadersListen /\ Running /\ Running'
    BY <1>1, <2>1 DEF Inv, Running
  <2>5. Slots(sq, WriteSqes) \subseteq Probes /\ Slots(sq, ReadSqes) \subseteq Readers
    BY <2>1, <2>4 DEF SendsAccounted, ReadersListen, TypeOK
  <2>6. TypeOK'
    <3>1. sq' \in Seq(Sqe) /\ stale' \in Nat
      BY <1>1, <2>1 DEF Submit, TypeOK
    <3>2. timer' \in {"off", "armed", "posted"}
      BY <1>1, <2>1 DEF Submit, TypeOK
    <3> QED
      BY <1>1, <2>1, <2>2, <2>5, <3>1, <3>2 DEF Submit, TypeOK, net_vars
  <2>7. SendsAccounted'
    BY <2>1, <2>2, <2>3, <2>4 DEF SendsAccounted
  <2>8. ReadersListen'
    BY <2>1, <2>2, <2>3, <2>4 DEF ReadersListen
  <2>9. BatchOK'
    <3>1. stale' = Len(sq) /\ DOMAIN sq' = {}
      BY <1>1, <2>1 DEF Submit
    <3>2. Len(sq) <= ring_size
      <4>1. Len(sq) = ring_size \/ \A k \in DOMAIN sq : sq[k] \in ReadSqes
        BY <1>1, <2>4 DEF Inv, BatchOK
      <4>2. sq \in Seq(Sqe) /\ Unique(sq, ReadSqes)
        BY <2>1, <2>4 DEF TypeOK, ReadersListen
      <4>3. 2 <= ring_size
        BY RingSize, Bounds
      <4> QED
        BY <4>1, <4>2, <4>3, ReadsOnly, RingSize
    <3> QED
      BY <3>1, <3>2 DEF BatchOK
  <2>10. BuffersConserved' /\ AtStart' /\ SlackSuffices'
    BY <1>1, <2>1 DEF Inv, Submit, BuffersConserved, AtStart, SlackSuffices
  <2> QED
    BY <2>6, <2>7, <2>8, <2>9, <2>10 DEF Inv
<1>2. ASSUME Inv, SubmitBusy \/ SubmitFails \/ Wake \/ Interrupt PROVE Inv'
  <2>1. TypeOK'
    BY <1>2 DEF Inv, TypeOK, SubmitBusy, SubmitFails, Wake, Interrupt, LoopTop, Return,
       ring_vars, app_vars, kern_vars, net_vars
  <2> QED
    BY <1>2, <2>1, QuietInv DEF Running, SubmitBusy, SubmitFails, Wake, Interrupt, LoopTop,
       Return, ring_vars, app_vars, kern_vars, net_vars
<1> QED
  BY <1>1, <1>2

\* A completed send is removed from the slab, where it is: HandleWrite preserves
\* the invariant.
LEMMA WriteInv == Inv /\ HandleWrite => Inv'
<1> SUFFICES ASSUME Inv, HandleWrite PROVE Inv'
  OBVIOUS
<1>1. /\ TypeOK /\ Running /\ pc = "loop" /\ visible > 0 /\ head.state = "Write" /\ Consume
      /\ SendsAccounted /\ ReadersListen /\ BuffersConserved /\ BatchOK
  BY DEF Inv, HandleWrite, Draining, Running
<1>2. cq \in Seq(Cqe) /\ visible \in 0 .. Len(cq)
  BY <1>1 DEF TypeOK
<1>3. head \in Cqe /\ head \in WriteCqes /\ head \notin FinalCqes /\ head \notin FilledCqes
      /\ head.slot \in Probes
  BY <1>1, <1>2, ConsumeEffect, CqeFields
<1>4. /\ sending' = sending \ {head.slot}
      /\ UNCHANGED <<sq, stale, result, armed, inflight, executed, timer, bufs>>
  BY DEF HandleWrite, Removed, kern_vars
<1>5. \/ pc' = pc /\ outcome' = outcome
      \/ pc' = "dropped" /\ outcome' = "reached"
  BY DEF HandleWrite, Conclude, Return
<1>6. TypeOK'
  <2>1. cq' \in Seq(Cqe) /\ visible' \in 0 .. Len(cq')
    BY <1>1, <1>2, ConsumeEffect
  <2>2. sent_at' \in [Probes -> BOOLEAN]
    BY <1>1 DEF HandleWrite, TypeOK
  <2> QED
    BY <1>1, <1>4, <1>5, <2>1, <2>2 DEF HandleWrite, TypeOK, kern_vars, net_vars
<1>7. SendsAccounted'
  <2>1. /\ Unique(cq', WriteCqes)
        /\ Slots(cq', WriteCqes) = Slots(cq, WriteCqes) \ {head.slot}
        /\ head.slot \in Slots(cq, WriteCqes)
    BY <1>1, <1>2, <1>3, ConsumeEffect DEF SendsAccounted
  <2> QED
    BY <1>1, <1>4, <2>1 DEF SendsAccounted
<1>8. ReadersListen'
  <2>1. Unique(cq', FinalCqes) /\ Slots(cq', FinalCqes) = Slots(cq, FinalCqes)
    BY <1>1, <1>2, <1>3, ConsumeEffect DEF ReadersListen
  <2> QED
    BY <1>1, <1>4, <2>1 DEF ReadersListen
<1>9. BuffersConserved'
  <2>1. Cardinality(Entries(cq', FilledCqes)) = Cardinality(Entries(cq, FilledCqes))
    BY <1>1, <1>2, <1>3, ConsumeEffect
  <2> QED
    BY <1>1, <1>4, <2>1 DEF BuffersConserved
<1>10. BatchOK'
  BY <1>1, <1>4 DEF BatchOK
<1>11. AtStart' /\ SlackSuffices'
  BY <1>1, <1>5 DEF Inv, AtStart, SlackSuffices
<1> QED
  BY <1>6, <1>7, <1>8, <1>9, <1>10, <1>11 DEF Inv

\* A read is handled, its buffer given back and its reader re-armed when it has
\* ended; with two entries of slack the push always succeeds.
LEMMA ReadInv == Inv /\ (HandleRead \/ RearmFails) => Inv'
<1> SUFFICES ASSUME Inv, HandleRead \/ RearmFails PROVE Inv'
  OBVIOUS
<1>1. /\ TypeOK /\ Running /\ pc = "loop" /\ visible > 0 /\ head.state = "Read" /\ Consume
      /\ SendsAccounted /\ ReadersListen /\ BuffersConserved /\ BatchOK
  BY DEF Inv, HandleRead, RearmFails, Draining, Running
<1>2. cq \in Seq(Cqe) /\ visible \in 0 .. Len(cq) /\ sq \in Seq(Sqe)
  BY <1>1 DEF TypeOK
<1>3. /\ head \in Cqe /\ head \notin WriteCqes /\ head.slot \in Readers
      /\ head \in FinalCqes <=> NeedsRearm(head)
      /\ head \in FilledCqes <=> head.err = {}
  BY <1>1, <1>2, ConsumeEffect, CqeFields DEF NeedsRearm
<1>4. /\ bufs' = bufs + (IF head \in FilledCqes THEN 1 ELSE 0)
      /\ result' = ReadResult(head)
      /\ UNCHANGED <<stale, sending, sent_at, armed, inflight, executed, timer, queues,
                     sk_err, wire, msgs, strays>>
  BY <1>3 DEF HandleRead, RearmFails, Recycled, net_vars
<1>5. /\ pc' = pc \/ pc' = "dropped"
      /\ outcome' \in {outcome, "reached", "sq_full"}
      /\ outcome' = "sq_full" => outcome = "sq_full" \/ RearmFails
  BY DEF HandleRead, RearmFails, Conclude, Return
<1>6. BuffersConserved' /\ bufs' \in 0 .. NumBufs
  <2> DEFINE c == Cardinality(Entries(cq, FilledCqes))
             d == Cardinality(Entries(cq', FilledCqes))
  <2>1. d \in Nat /\ c = d + (IF head \in FilledCqes THEN 1 ELSE 0)
    BY <1>1, <1>2, ConsumeEffect
  <2>2. bufs + c = NumBufs /\ bufs \in Nat /\ NumBufs \in Nat
    BY <1>1, Bounds DEF BuffersConserved, TypeOK
  <2> HIDE DEF c, d
  <2>3. bufs' + d = NumBufs /\ bufs' \in 0 .. NumBufs
    BY <1>4, <2>1, <2>2
  <2> QED
    BY <2>3 DEF BuffersConserved, d
<1>7. /\ sq' \in Seq(Sqe)
      /\ ~NeedsRearm(head) => sq' = sq
      /\ NeedsRearm(head) => sq' = sq \/ sq' = Append(sq, ReadSqe(head.slot))
      /\ HandleRead /\ NeedsRearm(head) => sq' = Append(sq, ReadSqe(head.slot))
  <2>1. \/ sq' = sq /\ (RearmFails \/ ~NeedsRearm(head))
        \/ sq' = Append(sq, ReadSqe(head.slot)) /\ NeedsRearm(head)
    BY DEF HandleRead, RearmFails
  <2>2. sq' \in Seq(Sqe)
    BY <1>2, <1>3, <2>1, PushRead
  <2> QED
    BY <2>1, <2>2 DEF HandleRead
<1>8. TypeOK'
  <2>1. cq' \in Seq(Cqe) /\ visible' \in 0 .. Len(cq')
    BY <1>1, <1>2, ConsumeEffect
  <2>2. result' \in [Probes -> SUBSET ProbeResult]
    BY <1>1, <1>3, <1>4, ReadResultType DEF TypeOK
  <2> QED
    BY <1>1, <1>4, <1>5, <1>6, <1>7, <2>1, <2>2 DEF TypeOK
<1>9. SendsAccounted'
  <2>1. Unique(cq', WriteCqes) /\ Slots(cq', WriteCqes) = Slots(cq, WriteCqes)
    BY <1>1, <1>2, <1>3, ConsumeEffect DEF SendsAccounted
  <2>2. Slots(sq', WriteSqes) = Slots(sq, WriteSqes) /\ Unique(sq', WriteSqes)
    BY <1>1, <1>2, <1>3, <1>7, PushRead DEF SendsAccounted
  <2> QED
    BY <1>1, <1>4, <2>1, <2>2 DEF SendsAccounted
<1>10. /\ Unique(cq', FinalCqes)
       /\ Slots(cq', FinalCqes) =
            Slots(cq, FinalCqes) \ (IF NeedsRearm(head) THEN {head.slot} ELSE {})
       /\ NeedsRearm(head) => head.slot \in Slots(cq, FinalCqes)
  BY <1>1, <1>2, <1>3, ConsumeEffect DEF ReadersListen
<1>11. ReadersListen'
  <2>1. CASE pc' = "dropped"
    BY <2>1 DEF ReadersListen, Running
  <2>2. CASE pc' # "dropped" /\ ~NeedsRearm(head)
    BY <1>1, <1>4, <1>7, <1>10, <2>2 DEF ReadersListen
  <2>3. CASE pc' # "dropped" /\ NeedsRearm(head)
    <3>1. sq' = Append(sq, ReadSqe(head.slot))
      BY <1>7, <2>3 DEF RearmFails, Return
    <3>2. /\ Slots(sq', ReadSqes) = Slots(sq, ReadSqes) \cup {head.slot}
          /\ Unique(sq', ReadSqes)
      BY <1>1, <1>2, <1>3, <1>10, <2>3, <3>1, PushRead DEF ReadersListen
    <3> QED
      BY <1>1, <1>3, <1>4, <1>10, <2>3, <3>2 DEF ReadersListen
  <2> QED
    BY <2>1, <2>2, <2>3
<1>12. /\ \A k \in DOMAIN sq : sq[k] \in ReadSqes
       /\ stale <= ring_size
  BY <1>1, <1>2 DEF BatchOK
<1>13. BatchOK'
  <2>1. \A k \in DOMAIN sq' : sq'[k] \in ReadSqes
    BY <1>2, <1>3, <1>7, <1>12, PushRead
  <2> QED
    BY <1>4, <1>12, <2>1 DEF BatchOK
<1>14. SlackSuffices'
  <2> SUFFICES ASSUME SqEntries >= ring_size + 2, outcome' = "sq_full" PROVE FALSE
    BY DEF SlackSuffices
  <2>1. RearmFails
    BY <1>5 DEF Inv, SlackSuffices
  <2>2. NeedsRearm(head) /\ Len(sq) + stale >= SqEntries
    BY <2>1 DEF RearmFails, SqFull
  <2>3. head.slot \notin Slots(sq, ReadSqes) /\ Unique(sq, ReadSqes)
    BY <1>1, <1>10, <2>2 DEF ReadersListen
  <2>4. Len(sq) <= 1
    BY <1>2, <1>3, <1>12, <2>3, ReadsOnly
  <2> QED
    BY <1>1, <1>2, <1>12, <2>2, <2>4, RingSize, SqEntriesFit DEF TypeOK
<1>15. AtStart'
  BY <1>1, <1>5 DEF AtStart
<1> QED
  BY <1>6, <1>8, <1>9, <1>11, <1>13, <1>14, <1>15 DEF Inv

\* The timeout's completion and the end of the ring preserve the invariant.
LEMMA EndInv == Inv /\ (HandleTimeout \/ CloseRing) => Inv'
<1>1. ASSUME Inv, HandleTimeout PROVE Inv'
  <2>1. /\ TypeOK /\ pc = "loop" /\ visible > 0 /\ head.state = "Timeout" /\ Consume
        /\ BuffersConserved /\ pc' = "dropped" /\ outcome' = "timeout" /\ bufs' = bufs
    BY <1>1 DEF Inv, HandleTimeout, Draining, Return, kern_vars
  <2>2. cq \in Seq(Cqe) /\ visible \in 0 .. Len(cq)
    BY <2>1 DEF TypeOK
  <2>3. head \in Cqe /\ head \notin FilledCqes
    BY <2>1, <2>2, ConsumeEffect, CqeFields
  <2>4. TypeOK'
    <3>1. cq' \in Seq(Cqe) /\ visible' \in 0 .. Len(cq')
      BY <2>1, <2>2, ConsumeEffect
    <3> QED
      BY <1>1, <2>1, <3>1 DEF HandleTimeout, TypeOK, kern_vars, net_vars
  <2>5. BuffersConserved'
    <3>1. Cardinality(Entries(cq', FilledCqes)) = Cardinality(Entries(cq, FilledCqes))
      BY <2>1, <2>2, <2>3, ConsumeEffect
    <3> QED
      BY <2>1, <3>1 DEF BuffersConserved
  <2> QED
    BY <2>1, <2>4, <2>5 DEF Inv, AtStart, SendsAccounted, ReadersListen, BatchOK, Running,
       SlackSuffices
<1>2. ASSUME Inv, CloseRing PROVE Inv'
  <2>1. TypeOK'
    BY <1>2 DEF Inv, CloseRing, TypeOK, net_vars
  <2> QED
    BY <1>2, <2>1 DEF Inv, CloseRing, AtStart, BuffersConserved, SendsAccounted, ReadersListen,
       BatchOK, Running, SlackSuffices
<1> QED
  BY <1>1, <1>2

\* Sends in the kernel preserve the invariant.
LEMMA SendInv ==
  ASSUME Inv, NEW i \in Probes, Transmit(i) \/ PostWrite(i) \/ SendFails(i)
  PROVE  Inv'
<1>1. /\ TypeOK /\ SendsAccounted /\ ReadersListen /\ BuffersConserved /\ BatchOK /\ AtStart
      /\ pc \notin {"dropped", "closed"}
      /\ UNCHANGED <<pc, outcome, sq, stale, visible, sending, sent_at, result, armed, timer,
                     bufs, queues, msgs, strays>>
  BY DEF Inv, Transmit, PostWrite, SendFails, Open, ring_vars, app_vars, net_vars
<1>2. i \in inflight \/ i \in executed
  BY DEF Transmit, PostWrite, SendFails
<1>3. pc # "start" /\ Running
  BY <1>1, <1>2 DEF AtStart, Running, TypeOK
<1>4. \A k \in DOMAIN sq : sq[k] \in ReadSqes
  BY <1>1, <1>2, <1>3 DEF BatchOK
<1>5. BatchOK' /\ AtStart' /\ SlackSuffices'
  BY <1>1, <1>2, <1>3 DEF Inv, BatchOK, AtStart, SlackSuffices
<1>6. CASE Transmit(i)
  <2>1. /\ i \in inflight /\ inflight' = inflight \ {i} /\ executed' = executed \cup {i}
        /\ wire' = wire \cup {i} /\ cq' = cq /\ sk_err' = sk_err
    BY <1>6 DEF Transmit, ring_vars
  <2>2. TypeOK'
    BY <1>1, <2>1 DEF TypeOK
  <2>3. SendsAccounted'
    BY <1>1, <1>3, <2>1 DEF SendsAccounted
  <2> QED
    BY <1>1, <1>5, <2>1, <2>2, <2>3 DEF Inv, ReadersListen, Running, BuffersConserved
<1>7. CASE PostWrite(i) \/ SendFails(i)
  <2>1. PICK err \in SUBSET Errnos : Post(Completion(WriteSqe(i), err, FALSE, {}))
    BY <1>1, <1>7 DEF PostWrite, SendFails, TypeOK, Errnos
  <2> DEFINE e == Completion(WriteSqe(i), err, FALSE, {})
  <2>2. e \in Cqe /\ e \in WriteCqes /\ e \notin FinalCqes /\ e \notin FilledCqes /\ e.slot = i
    BY WriteCompletion
  <2> HIDE DEF e
  <2>3. Post(e) /\ cq \in Seq(Cqe)
    BY <1>1, <2>1 DEF e, TypeOK
  <2>4. /\ wire' = wire /\ sk_err' \in {sk_err, {}}
        /\ \/ i \in inflight /\ inflight' = inflight \ {i} /\ executed' = executed
           \/ i \in executed /\ executed' = executed \ {i} /\ inflight' = inflight
    BY <1>7 DEF PostWrite, SendFails, net_vars
  <2>5. cq' \in Seq(Cqe) /\ Len(cq') = Len(cq) + 1
    BY <2>2, <2>3, PostEffect
  <2>6. TypeOK'
    <3>1. visible' \in 0 .. Len(cq')
      BY <1>1, <2>3, <2>5 DEF TypeOK
    <3> QED
      BY <1>1, <2>4, <2>5, <3>1 DEF TypeOK
  <2>7. SendsAccounted'
    <3>1. i \notin Slots(cq, WriteCqes)
      BY <1>1, <1>3, <2>4 DEF SendsAccounted
    <3>2. Slots(cq', WriteCqes) = Slots(cq, WriteCqes) \cup {i} /\ Unique(cq', WriteCqes)
      BY <1>1, <1>3, <2>2, <2>3, <3>1, PostEffect DEF SendsAccounted
    <3> QED
      BY <1>1, <1>3, <2>4, <3>1, <3>2 DEF SendsAccounted
  <2>8. ReadersListen'
    <3>1. Slots(cq', FinalCqes) = Slots(cq, FinalCqes) /\ Unique(cq', FinalCqes)
      BY <1>1, <1>3, <2>2, <2>3, PostEffect DEF ReadersListen
    <3> QED
      BY <1>1, <1>3, <3>1 DEF ReadersListen
  <2>9. BuffersConserved'
    <3>1. Cardinality(Entries(cq', FilledCqes)) = Cardinality(Entries(cq, FilledCqes))
      BY <2>2, <2>3, PostEffect
    <3> QED
      BY <1>1, <3>1 DEF BuffersConserved
  <2> QED
    BY <1>5, <2>6, <2>7, <2>8, <2>9 DEF Inv
<1> QED
  BY <1>6, <1>7

\* The errno of an ICMP error is one the code can see.
LEMMA IcmpErrnoType == \A m : IcmpErrno(m) \subseteq Errnos
BY DEF IcmpErrno, Errno, Errnos

\* A read that completes in the kernel, for whatever reason, preserves the
\* invariant if it takes a buffer exactly when it brings a message and disarms
\* its reader exactly when it is the last.
LEMMA PostReadInv ==
  ASSUME Inv, Open, NEW r \in armed, NEW err \in SUBSET Errnos, NEW more \in BOOLEAN,
         NEW msg \in SUBSET Message,
         Post(Completion(ReadSqe(r), err, more, msg)),
         armed' = IF more THEN armed ELSE armed \ {r},
         bufs' = bufs - (IF err = {} THEN 1 ELSE 0), err = {} => bufs > 0,
         queues' \in [Readers -> Seq(Message)], sk_err' \subseteq Errnos,
         UNCHANGED <<sq, stale, visible, app_vars, inflight, executed, timer, net_vars>>
  PROVE  Inv'
<1>1. /\ TypeOK /\ SendsAccounted /\ ReadersListen /\ BuffersConserved /\ BatchOK /\ AtStart
      /\ r \in Readers /\ pc \notin {"dropped", "closed", "start"} /\ Running
      /\ UNCHANGED <<pc, outcome, sending, sent_at, result, wire, msgs, strays>>
  BY DEF Inv, Open, TypeOK, AtStart, Running, app_vars, net_vars
<1>2. BatchOK' /\ AtStart' /\ SlackSuffices'
  BY <1>1 DEF Inv, BatchOK, AtStart, SlackSuffices
<1> DEFINE e == Completion(ReadSqe(r), err, more, msg)
<1>3. /\ e \in Cqe /\ e \notin WriteCqes /\ e.slot = r
      /\ e \in FinalCqes <=> ~more
      /\ e \in FilledCqes <=> err = {}
  BY <1>1, ReadCompletion
<1>4. Post(e) /\ cq \in Seq(Cqe)
  BY <1>1 DEF TypeOK
<1> HIDE DEF e
<1>5. cq' \in Seq(Cqe) /\ Len(cq') = Len(cq) + 1
  BY <1>3, <1>4, PostEffect
<1>6. BuffersConserved' /\ bufs' \in 0 .. NumBufs
  <2> DEFINE c == Cardinality(Entries(cq, FilledCqes))
             d == Cardinality(Entries(cq', FilledCqes))
  <2>1. c \in Nat /\ d = c + (IF err = {} THEN 1 ELSE 0)
    BY <1>3, <1>4, PostEffect
  <2>2. bufs + c = NumBufs /\ bufs \in Nat /\ NumBufs \in Nat
    BY <1>1, Bounds DEF BuffersConserved, TypeOK
  <2> HIDE DEF c, d
  <2>3. bufs' + d = NumBufs /\ bufs' \in 0 .. NumBufs
    BY <2>1, <2>2
  <2> QED
    BY <2>3 DEF BuffersConserved, d
<1>7. TypeOK'
  <2>1. visible' \in 0 .. Len(cq')
    BY <1>1, <1>4, <1>5 DEF TypeOK
  <2> QED
    BY <1>1, <1>5, <1>6, <2>1 DEF TypeOK
<1>8. SendsAccounted'
  <2>1. Slots(cq', WriteCqes) = Slots(cq, WriteCqes) /\ Unique(cq', WriteCqes)
    BY <1>1, <1>3, <1>4, PostEffect DEF SendsAccounted
  <2> QED
    BY <1>1, <2>1 DEF SendsAccounted
<1>9. ReadersListen'
  <2>1. r \notin Slots(cq, FinalCqes)
    BY <1>1 DEF ReadersListen
  <2>2. /\ Slots(cq', FinalCqes) = Slots(cq, FinalCqes) \cup (IF more THEN {} ELSE {r})
        /\ Unique(cq', FinalCqes)
    BY <1>1, <1>3, <1>4, <2>1, PostEffect DEF ReadersListen
  <2> QED
    BY <1>1, <2>1, <2>2 DEF ReadersListen
<1> QED
  BY <1>2, <1>6, <1>7, <1>8, <1>9 DEF Inv

\* The three ways a multishot read completes preserve the invariant.
LEMMA ReceiveInv ==
  ASSUME Inv, (\E r \in Readers : Receive(r) \/ NoBuffer(r)) \/ ReceiveError
  PROVE  Inv'
<1>1. TypeOK
  BY DEF Inv
<1>2. ASSUME NEW r \in Readers, Receive(r) PROVE Inv'
  <2>1. queues[r] \in Seq(Message) /\ queues[r] # <<>> /\ r \in armed /\ Open /\ bufs > 0
    BY <1>1, <1>2 DEF Receive, TypeOK
  <2>2. queues[r][1] \in Message /\ Tail(queues[r]) \in Seq(Message)
    BY <2>1, TailElements
  <2>3. {Truncate(r, queues[r][1])} \in SUBSET Message
    BY <2>2, TruncateType
  <2>4. queues' \in [Readers -> Seq(Message)]
    BY <1>1, <1>2, <2>2 DEF Receive, TypeOK
  <2>5. sk_err' \subseteq Errnos
    BY <1>1, <1>2, IcmpErrnoType DEF Receive, NextSkErr, TypeOK
  <2>6. PICK more \in BOOLEAN :
          /\ Post(Completion(ReadSqe(r), {}, more, {Truncate(r, queues[r][1])}))
          /\ armed' = IF more THEN armed ELSE armed \ {r}
    BY <1>2 DEF Receive
  <2>7. /\ bufs' = bufs - 1
        /\ UNCHANGED <<sq, stale, visible, app_vars, inflight, executed, timer, net_vars>>
    BY <1>2 DEF Receive
  <2> QED
    BY <2>1, <2>3, <2>4, <2>5, <2>6, <2>7, PostReadInv
<1>3. ASSUME NEW r \in Readers, NoBuffer(r) PROVE Inv'
  <2>1. /\ r \in armed /\ Open /\ armed' = armed \ {r} /\ bufs' = bufs
        /\ Post(Completion(ReadSqe(r), {"ENOBUFS"}, FALSE, {}))
        /\ queues' = queues /\ sk_err' = sk_err
        /\ UNCHANGED <<sq, stale, visible, app_vars, inflight, executed, timer, net_vars>>
    BY <1>3 DEF NoBuffer
  <2>2. {"ENOBUFS"} \in SUBSET Errnos /\ {"ENOBUFS"} # {} /\ {} \in SUBSET Message
    BY DEF Errnos
  <2>3. bufs' = bufs - (IF {"ENOBUFS"} = {} THEN 1 ELSE 0)
    BY <1>1, <2>1, <2>2 DEF TypeOK
  <2>4. queues \in [Readers -> Seq(Message)] /\ sk_err \subseteq Errnos
    BY <1>1 DEF TypeOK
  <2> QED
    BY <2>1, <2>2, <2>3, <2>4, PostReadInv
<1>4. ASSUME ReceiveError PROVE Inv'
  <2>1. /\ RecvQueue \in armed /\ Open /\ armed' = armed \ {RecvQueue} /\ bufs' = bufs
        /\ Post(Completion(ReadSqe(RecvQueue), sk_err, FALSE, {}))
        /\ queues' = queues /\ sk_err' = {} /\ sk_err # {}
        /\ UNCHANGED <<sq, stale, visible, app_vars, inflight, executed, timer, net_vars>>
    BY <1>4 DEF ReceiveError
  <2>2. sk_err \in SUBSET Errnos /\ {} \in SUBSET Message
    BY <1>1 DEF TypeOK
  <2>3. bufs' = bufs - (IF sk_err = {} THEN 1 ELSE 0)
    BY <1>1, <2>1 DEF TypeOK
  <2>4. queues \in [Readers -> Seq(Message)]
    BY <1>1 DEF TypeOK
  <2> QED
    BY <2>1, <2>2, <2>3, <2>4, PostReadInv
<1> QED
  BY <1>2, <1>3, <1>4

\* The timer preserves the invariant.
LEMMA TimerInv == Inv /\ Timer => Inv'
<1> SUFFICES ASSUME Inv, Timer PROVE Inv'
  OBVIOUS
<1>1. /\ TypeOK /\ SendsAccounted /\ ReadersListen /\ BuffersConserved /\ BatchOK /\ AtStart
      /\ pc \notin {"dropped", "closed", "start"} /\ Running /\ timer' = "posted"
      /\ UNCHANGED <<pc, outcome, sq, stale, visible, sending, sent_at, result, armed, inflight,
                     executed, bufs, queues, sk_err, wire, msgs, strays>>
  BY DEF Inv, Timer, Open, TypeOK, AtStart, Running, app_vars, net_vars
<1>2. BatchOK' /\ AtStart' /\ SlackSuffices'
  BY <1>1 DEF Inv, Timer, BatchOK, AtStart, SlackSuffices
<1> DEFINE e == Completion(TimeoutSqe, {"ETIME"}, FALSE, {})
<1>3. e \in Cqe /\ e \notin WriteCqes /\ e \notin FinalCqes /\ e \notin FilledCqes
  BY TimeoutCompletion
<1>4. Post(e) /\ cq \in Seq(Cqe)
  BY <1>1 DEF TypeOK, Timer
<1> HIDE DEF e
<1>5. /\ cq' \in Seq(Cqe) /\ Len(cq') = Len(cq) + 1
      /\ Cardinality(Entries(cq', FilledCqes)) = Cardinality(Entries(cq, FilledCqes))
  BY <1>3, <1>4, PostEffect
<1>6. SendsAccounted'
  <2>1. Slots(cq', WriteCqes) = Slots(cq, WriteCqes) /\ Unique(cq', WriteCqes)
    BY <1>1, <1>3, <1>4, PostEffect DEF SendsAccounted
  <2> QED
    BY <1>1, <2>1 DEF SendsAccounted
<1>7. ReadersListen'
  <2>1. Slots(cq', FinalCqes) = Slots(cq, FinalCqes) /\ Unique(cq', FinalCqes)
    BY <1>1, <1>3, <1>4, PostEffect DEF ReadersListen
  <2> QED
    BY <1>1, <2>1 DEF ReadersListen
<1>8. TypeOK'
  <2>1. visible' \in 0 .. Len(cq')
    BY <1>1, <1>4, <1>5 DEF TypeOK
  <2> QED
    BY <1>1, <1>5, <2>1 DEF TypeOK
<1> QED
  BY <1>1, <1>2, <1>5, <1>6, <1>7, <1>8 DEF Inv, BuffersConserved

\* The network preserves the invariant.
LEMMA NetworkInv == Inv /\ Network => Inv'
<1> SUFFICES ASSUME Inv, Network PROVE Inv'
  OBVIOUS
<1>1. PICK r \in Readers, m \in Message : Arrive(r, m)
  BY AnswersType, StraysType DEF Network, Answer, Stray
<1>2. msgs' \in Nat /\ strays' \in Nat
  BY DEF Inv, TypeOK, Network, Answer, Stray
<1>3. queues' \in [Readers -> Seq(Message)]
  BY <1>1 DEF Inv, TypeOK, Arrive
<1>4. sk_err' \subseteq Errnos
  BY <1>1, IcmpErrnoType DEF Inv, TypeOK, Arrive
<1>5. TypeOK'
  BY <1>1, <1>2, <1>3, <1>4 DEF Inv, TypeOK, Arrive, ring_vars, app_vars
<1> QED
  BY <1>1, <1>5, QuietInv DEF Arrive, ring_vars, app_vars

-----------------------------------------------------------------------------
\* Inv is an invariant of the specification.
THEOREM InvCorrect == Spec => []Inv
<1>1. Inv /\ [Next]_vars => Inv'
  <2> SUFFICES ASSUME Inv, [Next]_vars PROVE Inv'
    OBVIOUS
  <2>1. CASE Run
    BY <2>1, StartInv, LoopInv, WriteInv, ReadInv, EndInv DEF Run, Thread
  <2>2. CASE Kernel
    BY <2>2, SendInv, ReceiveInv, TimerInv DEF Kernel
  <2>3. CASE Network
    BY <2>3, NetworkInv
  <2>4. CASE UNCHANGED vars
    <3>1. TypeOK'
      BY <2>4 DEF Inv, TypeOK, vars, ring_vars, app_vars, kern_vars, net_vars
    <3> QED
      BY <2>4, <3>1, QuietInv DEF vars, ring_vars, app_vars, kern_vars
  <2> QED
    BY <2>1, <2>2, <2>3, <2>4 DEF Next, Finished
<1> QED
  BY <1>1, InitInv, PTL DEF Spec

\* The state keeps its type; in particular user data always names a probe or a
\* reader, so run() never indexes out of the slab or of the readers.
THEOREM TypeCorrect == Spec => []TypeOK
BY InvCorrect, PTL DEF Inv

\* For every number of probes the slab holds exactly the sends that are under
\* way, so sending.remove never panics.
THEOREM SendsCorrect == Spec => []SendsAccounted
BY InvCorrect, PTL DEF Inv

\* For every number of probes run() listens on both queues until it returns.
THEOREM ReadersCorrect == Spec => []ReadersListen
BY InvCorrect, PTL DEF Inv

\* For every number of probes no buffer of the ring is lost or given back twice.
THEOREM BuffersCorrect == Spec => []BuffersConserved
BY InvCorrect, PTL DEF Inv

\* A submission queue with two entries more than the first batch is never full
\* when run() re-arms a reader.
THEOREM SlackCorrect == Spec => []SlackSuffices
BY InvCorrect, PTL DEF Inv

\* A probe's first result is never replaced, in any trace: handle_read records
\* only where there is none, and nothing else writes results.
THEOREM StableCorrect == Spec => ResultsStable
<1> DEFINE Stable == \A i \in Probes : result[i] # {} => result'[i] = result[i]
<1>1. ASSUME NEW e PROVE \A i \in Probes : result[i] # {} => ReadResult(e)[i] = result[i]
  BY DEF ReadResult, handle_read, Records
<1>2. HandleRead \/ RearmFails => Stable
  BY <1>1 DEF HandleRead, RearmFails
<1>3. ASSUME Run, ~(HandleRead \/ RearmFails) PROVE result' = result
  BY <1>3 DEF Run, Thread, Start, StartFails, Submit, SubmitBusy, SubmitFails, Wake, Interrupt,
     HandleWrite, HandleTimeout, CloseRing, app_vars
<1>4. Kernel => result' = result
  BY DEF Kernel, Transmit, PostWrite, SendFails, Receive, NoBuffer, ReceiveError, Timer, app_vars
<1>5. Network => result' = result
  BY DEF Network, Stray, Answer, Arrive, app_vars
<1>6. UNCHANGED vars => result' = result
  BY DEF vars, app_vars
<1>7. [Next]_vars => [Stable]_vars
  BY <1>2, <1>3, <1>4, <1>5, <1>6 DEF Next, Finished
<1> QED
  BY <1>7, PTL DEF Spec, ResultsStable
=============================================================================
