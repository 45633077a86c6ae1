-------------------------- MODULE TraceRefinesProof --------------------------
(***************************************************************************)
(* Trace implements the safety part of TraceAbs for every value of the     *)
(* constants: every step of run(), of the kernel and of the network is a   *)
(* step of the abstract trace or changes nothing it sees.                  *)
(***************************************************************************)
EXTENDS TraceRefines, TraceResults

\* The abstract trace, as TraceRefines maps it.
Pending == IF pc = "start" \/ outcome = "start_failed" THEN Probes ELSE sending
How     == IF outcome \in {"running", "reached", "timeout"} THEN outcome ELSE "failed"

\* The two modules mean the same probes, TTLs, truth and completeness.
LEMMA SameProbes == Abs!Probes = Probes /\ Abs!Hops = Hops /\ \A i : Abs!ttl(i) = ttl(i)
BY DEF Abs!Probes, Probes, NumProbes, Abs!Hops, Hops, Abs!ttl, ttl

\* done of run() is the abstract completeness.
LEMMA SameComplete == \A slab, res : Abs!Complete(slab, res) <=> Reached(slab, res)
<1> SUFFICES ASSUME NEW slab, NEW res
             PROVE  Abs!Complete(slab, res) <=> Reached(slab, res)
  OBVIOUS
<1>1. Abs!Destination = Destination
  BY DEF Abs!Destination, Destination
<1>2. \A t : HopTerminates(res, t) <=>
        \E i \in Probes : ttl(i) = t /\ \E x \in res[i] : x.kind = Destination
  BY DEF HopTerminates, HopProbes, terminates_trace
<1>3. \A t : HopAnswered(res, t) <=> \E i \in Probes : ttl(i) = t /\ res[i] # {}
  BY DEF HopAnswered, HopProbes
<1>4. Abs!Complete(slab, res) <=>
        /\ slab = {}
        /\ \E t \in Hops : /\ HopTerminates(res, t)
                           /\ \A u \in FirstHop .. t : HopAnswered(res, u)
  BY <1>1, <1>2, <1>3, SameProbes, Zenon DEF Abs!Complete
<1> QED
  BY <1>4 DEF Reached, AnsweredPrefix

\* A true result is one the abstract trace may record.
LEMMA SameTruth ==
  ASSUME NEW i \in Probes, NEW x \in ProbeResult, TrueOf(i, x)
  PROVE  Abs!TrueResult(i, x)
<1>1. Abs!Destination = Destination /\ Abs!Hop = Hop /\ Hop # Destination
  BY DEF Abs!Destination, Destination, Abs!Hop, Hop
<1>2. Abs!ttl(i) = ttl(i)
  BY SameProbes
<1>3. x = [source |-> x.source, kind |-> x.kind]
  BY DEF ProbeResult
<1> QED
  BY <1>1, <1>2, <1>3 DEF TrueOf, Abs!TrueResult

\* A step that ends the abstract trace or goes on with it, as the code concludes.
LEMMA Concludes ==
  ASSUME outcome = "running", pc = "loop", Conclude(sending', result')
  PROVE  /\ outcome' = IF Abs!Complete(sending', result') THEN "reached" ELSE "running"
         /\ pc' \in {"loop", "dropped"}
         /\ Pending' = sending' /\ How' = outcome'
BY SameComplete DEF Conclude, Return, Pending, How

-----------------------------------------------------------------------------
(* Every step is an abstract step.                                         *)

\* What the abstract trace sees.
AbsStep == Abs!Next \/ UNCHANGED <<Pending, sent_at, result, How>>

\* The initial states are abstract initial states.
LEMMA InitRefines == Init => Abs!Init
BY SameProbes DEF Init, Abs!Init

\* A failure before or in the loop is an abstract failure.
LEMMA FailRefines ==
  ASSUME How = "running", How' = "failed", Pending' = Pending,
         UNCHANGED <<sent_at, result>> \/ \E i \in Probes : Abs!RecordsTrue(i)
  PROVE  Abs!Fail
BY SameProbes DEF Abs!Fail, How, Pending

\* The steps of run() that handle no completion.
LEMMA LoopRefines ==
  ASSUME Inv, ResultInv,
         Start \/ StartFails \/ Submit \/ SubmitBusy \/ SubmitFails \/ Wake \/ Interrupt
  PROVE  AbsStep
<1>1. outcome = "running" /\ UNCHANGED <<sent_at, result>>
  BY DEF ResultInv, OutcomeOK, Open, Start, StartFails, Submit, SubmitBusy, SubmitFails, Wake,
     Interrupt, LoopTop, app_vars
<1>2. CASE Start \/ Submit \/ SubmitBusy \/ Wake
  <2>1. UNCHANGED <<Pending, How>>
    BY <1>1, <1>2 DEF Start, Submit, SubmitBusy, Wake, LoopTop, Pending, How, app_vars
  <2> QED
    BY <1>1, <2>1 DEF AbsStep
<1>3. CASE StartFails \/ SubmitFails
  <2>1. How = "running" /\ How' = "failed" /\ Pending' = Pending
    BY <1>1, <1>3 DEF StartFails, SubmitFails, LoopTop, Return, Pending, How
  <2> QED
    BY <1>1, <2>1, FailRefines DEF AbsStep, Abs!Next
<1>4. CASE Interrupt
  <2>1. CASE stale > 0
    <3>1. UNCHANGED <<Pending, How>>
      BY <1>1, <1>4, <2>1 DEF Interrupt, Pending, How
    <3> QED
      BY <1>1, <3>1 DEF AbsStep
  <2>2. CASE ~(stale > 0)
    <3>1. How = "running" /\ How' = "failed" /\ Pending' = Pending
      BY <1>1, <1>4, <2>2 DEF Interrupt, Return, Pending, How
    <3> QED
      BY <1>1, <3>1, FailRefines DEF AbsStep, Abs!Next
  <2> QED
    BY <2>1, <2>2
<1> QED
  BY <1>2, <1>3, <1>4

\* A completed send is the end of the send of a pending probe.
LEMMA WriteRefines == ASSUME Inv, ResultInv, HandleWrite PROVE AbsStep
<1>1. /\ TypeOK /\ Running /\ pc = "loop" /\ visible > 0 /\ head.state = "Write" /\ Consume
      /\ SendsAccounted /\ outcome = "running"
  BY DEF Inv, ResultInv, OutcomeOK, Open, HandleWrite, Draining, Running
<1> DEFINE i == head.slot
<1>2. /\ result' = result /\ sending' = sending \ {i}
      /\ sent_at' = [sent_at EXCEPT ![i] = @ \/ head.err = {}]
      /\ Conclude(sending', result')
  BY DEF HandleWrite, Removed
<1>3. i \in Probes /\ i \in sending
  <2>1. cq \in Seq(Cqe) /\ visible \in 0 .. Len(cq)
    BY <1>1 DEF TypeOK
  <2>2. head \in WriteCqes /\ i \in Probes
    BY <1>1, <2>1, ConsumeEffect, CqeFields
  <2>3. i \in Slots(cq, WriteCqes)
    BY <1>1, <2>1, <2>2, ConsumeEffect DEF SendsAccounted
  <2> QED
    BY <1>1, <2>2, <2>3 DEF SendsAccounted
<1>4. \E ok \in BOOLEAN : sent_at' = [sent_at EXCEPT ![i] = ok]
  <2>1. (sent_at[i] \/ head.err = {}) \in BOOLEAN
    OBVIOUS
  <2> QED
    BY <1>2, <2>1
<1>5. /\ outcome' = IF Abs!Complete(sending', result') THEN "reached" ELSE "running"
      /\ Pending' = sending' /\ How' = outcome' /\ Pending = sending /\ How = "running"
  BY <1>1, <1>2, Concludes DEF Pending, How
<1> HIDE DEF i
<1>6. Abs!SendEnds(i)
  BY <1>2, <1>3, <1>4, <1>5 DEF Abs!SendEnds, Abs!Conclude, Pending, How
<1> QED
  BY <1>3, <1>6, SameProbes DEF AbsStep, Abs!Next

\* A handled read records one true answer of a probe known as sent, or nothing.
LEMMA ReadRefines == ASSUME Inv, Inv', ResultInv, HandleRead \/ RearmFails PROVE AbsStep
<1>1. /\ TypeOK /\ TypeOK' /\ Running /\ pc = "loop" /\ visible > 0 /\ head.state = "Read"
      /\ Consume /\ outcome = "running" /\ ReadsGenuine /\ QueuesGenuine
      /\ ~Reached(sending, result)
  BY DEF Inv, ResultInv, OutcomeOK, Open, HandleRead, RearmFails, Draining, Running
<1>2. /\ UNCHANGED <<sending, sent_at, queues, wire>>
      /\ result' = ReadResult(head)
  BY DEF HandleRead, RearmFails, net_vars
<1>3. head.err = {} => Carries(head)
  <2>1. cq \in Seq(Cqe) /\ visible \in 0 .. Len(cq)
    BY <1>1 DEF TypeOK
  <2>2. head \in Cqe
    BY <1>1, <2>1, ConsumeEffect
  <2> QED
    BY <1>1, <1>2, <2>1, <2>2, GenuineConsumed, CqeFields
<1>4. wire \subseteq Probes /\ result \in [Probes -> SUBSET ProbeResult]
      /\ result' \in [Probes -> SUBSET ProbeResult]
  BY <1>1 DEF TypeOK
<1>5. result' = result \/ \E i \in Probes : Abs!RecordsTrue(i)
  <2> SUFFICES ASSUME result' # result PROVE \E i \in Probes : Abs!RecordsTrue(i)
    OBVIOUS
  <2>0. PICK i \in wire :
          \E x : Records(i) /\ TrueOf(i, x) /\ result' = [result EXCEPT ![i] = {x}]
    BY <1>2, <1>3, <1>4, ReadRecords
  <2>1. PICK x : Records(i) /\ TrueOf(i, x) /\ result' = [result EXCEPT ![i] = {x}]
    BY <2>0
  <2>2. i \in Probes /\ result'[i] = {x} /\ \A j \in Probes \ {i} : result'[j] = result[j]
    BY <1>4, <2>1
  <2>3. x \in ProbeResult
    BY <1>4, <2>2
  <2>4. Abs!TrueResult(i, x)
    BY <2>1, <2>2, <2>3, SameTruth
  <2>5. Pending' = Pending
    BY <1>1, <1>2 DEF HandleRead, RearmFails, Conclude, Return, Pending
  <2>6. Abs!RecordsTrue(i)
    BY <1>2, <2>1, <2>2, <2>4, <2>5, SameProbes DEF Abs!RecordsTrue, Records, Pending
  <2> QED
    BY <2>2, <2>6
<1>6. CASE HandleRead
  <2>1. Conclude(sending', result')
    BY <1>2, <1>6 DEF HandleRead
  <2>2. /\ outcome' = IF Abs!Complete(sending', result') THEN "reached" ELSE "running"
        /\ Pending' = sending' /\ How' = outcome' /\ Pending = sending /\ How = "running"
    BY <1>1, <2>1, Concludes DEF Pending, How
  <2>3. CASE result' = result
    <3>1. How' = "running"
      BY <1>1, <1>2, <2>2, <2>3, SameComplete
    <3> QED
      BY <1>2, <2>2, <2>3, <3>1 DEF AbsStep
  <2>4. ASSUME NEW i \in Probes, Abs!RecordsTrue(i) PROVE AbsStep
    <3>1. Abs!Record(i)
      BY <2>2, <2>4 DEF Abs!Record, Abs!Conclude, Pending, How
    <3> QED
      BY <3>1, SameProbes DEF AbsStep, Abs!Next
  <2> QED
    BY <1>5, <2>3, <2>4
<1>7. CASE RearmFails
  <2>1. How = "running" /\ How' = "failed" /\ Pending' = Pending
    BY <1>1, <1>2, <1>7 DEF RearmFails, Return, Pending, How
  <2> QED
    BY <1>2, <1>5, <2>1, FailRefines DEF AbsStep, Abs!Next
<1> QED
  BY <1>6, <1>7

\* The timeout is the abstract timeout; the end of the ring is not seen.
LEMMA EndRefines == ASSUME ResultInv, HandleTimeout \/ CloseRing PROVE AbsStep
<1>1. UNCHANGED <<sent_at, result, sending>>
  BY DEF HandleTimeout, CloseRing
<1>2. CASE HandleTimeout
  <2>1. outcome = "running" /\ pc = "loop" /\ pc' = "dropped" /\ outcome' = "timeout"
    BY <1>2 DEF ResultInv, OutcomeOK, Open, HandleTimeout, Draining, Return
  <2>2. Pending' = Pending /\ How = "running" /\ How' = "timeout"
    BY <1>1, <2>1 DEF Pending, How
  <2>3. Abs!Timeout
    BY <1>1, <2>2 DEF Abs!Timeout, Pending, How
  <2> QED
    BY <2>3 DEF AbsStep, Abs!Next
<1>3. CASE CloseRing
  <2>1. Pending' = Pending /\ How' = How
    BY <1>1, <1>3 DEF CloseRing, Pending, How
  <2> QED
    BY <1>1, <2>1 DEF AbsStep
<1> QED
  BY <1>2, <1>3

\* The abstract trace does not see the kernel and the network.
LEMMA HiddenRefines == ASSUME Kernel \/ Network \/ UNCHANGED vars PROVE AbsStep
<1>1. UNCHANGED app_vars
  BY DEF Kernel, Transmit, PostWrite, SendFails, Receive, NoBuffer, ReceiveError, Timer,
     Network, Stray, Answer, Arrive, vars
<1> QED
  BY <1>1 DEF AbsStep, Pending, How, app_vars

\* Trace implements the safety part of TraceAbs: run() records only true answers of
\* probes known as sent, one each, and returns in the very step that completes the
\* trace, when the time is over or on a failure, and never otherwise.
THEOREM ImplementsSafely == Spec => Abs!Init /\ [][Abs!Next]_(Abs!vars)
<1>1. Inv /\ Inv' /\ ResultInv /\ [Next]_vars => [Abs!Next]_(Abs!vars)
  <2> SUFFICES ASSUME Inv, Inv', ResultInv, [Next]_vars PROVE [Abs!Next]_(Abs!vars)
    OBVIOUS
  <2>1. AbsStep
    <3>1. CASE Run
      BY <3>1, LoopRefines, WriteRefines, ReadRefines, EndRefines DEF Run, Thread
    <3>2. CASE Kernel \/ Network \/ UNCHANGED vars
      BY <3>2, HiddenRefines
    <3> QED
      BY <3>1, <3>2 DEF Next, Finished
  <2> QED
    BY <2>1 DEF AbsStep, Abs!vars, Pending, How
<1> QED
  BY <1>1, InitRefines, InvCorrect, ResultInvCorrect, PTL DEF Spec
=============================================================================
