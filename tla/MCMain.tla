------------------------------- MODULE MCMain -------------------------------
(***************************************************************************)
(* Command lines at the edges of every range, and small traces whose       *)
(* reports are followed.                                                   *)
(***************************************************************************)
EXTENDS Main

Addr4  == [version |-> "v4", id |-> "a"]
Addr6  == [version |-> "v6", id |-> "a"]
Addr6b == [version |-> "v6", id |-> "b"]
Host   == [name |-> TRUE]

Default == [target |-> Addr4, first_hop |-> 1, max_hops |-> 2, size |-> 60, count |-> 3,
            method |-> "icmp", ip_version |-> "auto"]

RangeArgs ==
  {[Default EXCEPT !.first_hop = f, !.max_hops = h, !.count = c, !.method = m] :
     f \in {0, 1, 254, 255, 256}, h \in {0, 1, 2, 255, 256}, c \in {0, 1, 9, 10, 65535},
     m \in {"icmp", "udp", "tcp"}}

TargetArgs ==
  {[Default EXCEPT !.max_hops = 30, !.target = t, !.size = s, !.method = m, !.ip_version = v] :
     t \in {Addr4, Addr6, Host}, s \in {0, 27, 28, 47, 48}, m \in {"icmp", "udp", "tcp"},
     v \in {"auto", "v4", "v6"}}

EdgeArgs == {Default} \cup RangeArgs \cup TargetArgs

SmallLookups == {<<>>, <<Addr4>>, <<Addr6, Addr4>>, <<Addr4, Addr6, Addr6b>>, <<Addr6b, Addr6>>}

SmallResults ==
  {[source |-> s, kind |-> Hop] : s \in {{}, {"a"}, {"b"}}}
    \cup {[source |-> {"a"}, kind |-> k] : k \in {Destination, Marker("!H"), TooBig(1280)}}
=============================================================================
