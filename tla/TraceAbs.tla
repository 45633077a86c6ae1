------------------------------ MODULE TraceAbs ------------------------------
(***************************************************************************)
(* What a trace promises, without rings, buffers and sockets: the sends    *)
(* come to an end, a probe that was sent gets at most one answer, and that *)
(* answer is true of the path; the trace ends at the very step that makes  *)
(* it complete, and otherwise when the time is over or on a failure.       *)
(*                                                                         *)
(* TraceRefines shows that run() of src/src/trace.rs, as Trace models it,  *)
(* keeps this promise.                                                     *)
(***************************************************************************)
EXTENDS Icmp, Integers

CONSTANTS FirstHop, LastHop, Count, PathLen, Target

Probes  == 0 .. (LastHop - FirstHop + 1) * Count - 1
Hops    == FirstHop .. LastHop
ttl(i)  == FirstHop + (i \div Count)

VARIABLES
  pending,  \* probes whose send is not over
  sent,     \* whether a probe was sent
  result,   \* its answer: a set with at most one element
  how       \* how the trace ended: running, reached, timeout, failed

vars == <<pending, sent, result, how>>

\* What can truly be said of a probe.
TrueResult(i, x) ==
  \/ x = [source |-> {ttl(i)}, kind |-> Hop] /\ ttl(i) < PathLen
  \/ x = [source |-> {Target}, kind |-> Destination] /\ ttl(i) >= PathLen
  \/ x.kind \notin {Hop, Destination} /\ \E d \in 1 .. ttl(i) : x.source = {d}

\* Nothing is left to be sent, and the target has answered at a hop such that
\* no hop up to it is silent.
Complete(p, res) ==
  /\ p = {}
  /\ \E t \in Hops :
       /\ \E i \in Probes : ttl(i) = t /\ \E x \in res[i] : x.kind = Destination
       /\ \A u \in FirstHop .. t : \E i \in Probes : ttl(i) = u /\ res[i] # {}

Conclude == how' = IF Complete(pending', result') THEN "reached" ELSE "running"

Init ==
  /\ pending = Probes
  /\ sent = [i \in Probes |-> FALSE]
  /\ result = [i \in Probes |-> {}]
  /\ how = "running"

\* The send of a probe succeeds or fails.
SendEnds(i) ==
  /\ how = "running"
  /\ i \in pending
  /\ pending' = pending \ {i}
  /\ \E ok \in BOOLEAN : sent' = [sent EXCEPT ![i] = ok]
  /\ result' = result
  /\ Conclude

RecordsTrue(i) ==
  /\ sent[i] /\ result[i] = {}
  /\ \A j \in Probes \ {i} : result'[j] = result[j]
  /\ \E x \in result'[i] : result'[i] = {x} /\ TrueResult(i, x)
  /\ UNCHANGED <<pending, sent>>

Record(i) == how = "running" /\ RecordsTrue(i) /\ Conclude

Timeout == how = "running" /\ how' = "timeout" /\ UNCHANGED <<pending, sent, result>>

\* The answer read last may come with the failure.
Fail ==
  /\ how = "running" /\ how' = "failed"
  /\ UNCHANGED <<pending, sent, result>> \/ \E i \in Probes : RecordsTrue(i)

Next == (\E i \in Probes : SendEnds(i) \/ Record(i)) \/ Timeout \/ Fail

\* Time passes: a trace that is not over for another reason times out.
Spec == Init /\ [][Next]_vars /\ WF_vars(Timeout)
=============================================================================
