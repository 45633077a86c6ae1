------------------------------ MODULE MCFlows ------------------------------
(***************************************************************************)
(* Three processes and two ports, so that a port is taken again.  The      *)
(* processes are interchangeable: Mixed is closed under their permutation. *)
(***************************************************************************)
EXTENDS Flows, TLC

TwoPorts  == {40000, 40001}
TwoProbes == {0, 1}

\* All with the same method, or one with UDP beside two with TCP.
Mixed == {[p \in Procs |-> m] : m \in {"icmp", "udp", "tcp"}}
           \cup {[p \in Procs |-> IF p = u THEN "udp" ELSE "tcp"] : u \in Procs}

Symmetry == Permutations(Procs)
=============================================================================
