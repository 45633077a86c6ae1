---------------------------- MODULE TraceRefines ----------------------------
(***************************************************************************)
(* Trace implements TraceAbs.  The slab is what is pending, but for the    *)
(* time before run() has filled it; rings, buffers, sockets and network    *)
(* are hidden.                                                             *)
(***************************************************************************)
EXTENDS Trace

Abs == INSTANCE TraceAbs WITH
  pending <- IF pc = "start" \/ outcome = "start_failed" THEN Probes ELSE sending,
  sent    <- sent_at,
  how     <- IF outcome \in {"running", "reached", "timeout"} THEN outcome ELSE "failed"

\* run() keeps the promise of TraceAbs: it records only true answers of probes
\* it knows as sent, one each, returns in the very step that completes the
\* trace and never before, and returns in the end.
Implements == Abs!Spec
=============================================================================
