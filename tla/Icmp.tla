------------------------------- MODULE Icmp -------------------------------
(***************************************************************************)
(* src/src/icmp.rs and the ReplyKind type of src/src/method/mod.rs: how an *)
(* ICMP error read from a socket error queue is classified.                *)
(*                                                                         *)
(* A Rust enum value is a tuple whose first element is the variant's name. *)
(***************************************************************************)
EXTENDS Naturals

\* icmp.rs: mod v4 and mod v6
v4 == [ECHO_REQUEST |-> 8, DEST_UNREACH |-> 3, TIME_EXCEEDED |-> 11]
v6 == [ECHO_REQUEST |-> 128, DEST_UNREACH |-> 1, PACKET_TOO_BIG |-> 2,
       TIME_EXCEEDED |-> 3]

U8  == 0 .. 255
U16 == {n \in Nat : n < 65536}
U32 == Nat      \* no value the code computes comes near 2^32

\* enum IcmpError, its variant being the version field
IcmpError == [version : {"v4", "v6"}, icmp_type : U8, code : U8, info : U32]

Hop         == <<"Hop">>
Destination == <<"Destination">>
Marker(s)   == <<"Unreachable", "Marker", s>>
Code(c)     == <<"Unreachable", "Code", c>>
Other(t, c) == <<"Unreachable", "Other", t, c>>
TooBig(mtu) == <<"Unreachable", "TooBig", mtu>>

Markers == {"!N", "!H", "!X", "!P", "!S", "!V", "!C", "!?"}

\* enum ReplyKind, with its Unreachable payload
ReplyKind ==
  {Hop, Destination}
    \cup ({"Unreachable"} \X {"Marker"} \X Markers)
    \cup ({"Unreachable"} \X {"Code"} \X U8)
    \cup ({"Unreachable"} \X {"Other"} \X U8 \X U8)
    \cup ({"Unreachable"} \X {"TooBig"} \X U32)

terminates_trace(k) == k = Destination

KindV4(t, c, info) ==
  CASE t = v4.TIME_EXCEEDED /\ c = 0                 -> Hop
    [] t = v4.DEST_UNREACH /\ c = 3                  -> Destination
    [] t = v4.DEST_UNREACH /\ c \in {0, 6, 8, 11}    -> Marker("!N")
    [] t = v4.DEST_UNREACH /\ c \in {1, 7, 12}       -> Marker("!H")
    [] t = v4.DEST_UNREACH /\ c \in {9, 10, 13}      -> Marker("!X")
    [] t = v4.DEST_UNREACH /\ c = 2                  -> Marker("!P")
    [] t = v4.DEST_UNREACH /\ c = 4                  -> TooBig(info)
    [] t = v4.DEST_UNREACH /\ c = 5                  -> Marker("!S")
    [] t = v4.DEST_UNREACH /\ c = 14                 -> Marker("!V")
    [] t = v4.DEST_UNREACH /\ c = 15                 -> Marker("!C")
    [] t = v4.DEST_UNREACH /\ c > 15                 -> Code(c)
    [] t # v4.DEST_UNREACH
         /\ ~(t = v4.TIME_EXCEEDED /\ c = 0)         -> Other(t, c)

KindV6(t, c, info) ==
  CASE t = v6.TIME_EXCEEDED /\ c = 0                 -> Hop
    [] t = v6.DEST_UNREACH /\ c = 4                  -> Destination
    [] t = v6.DEST_UNREACH /\ c = 0                  -> Marker("!N")
    [] t = v6.DEST_UNREACH /\ c = 1                  -> Marker("!X")
    [] t = v6.DEST_UNREACH /\ c \in {2, 3}           -> Marker("!H")
    [] t = v6.DEST_UNREACH /\ c > 4                  -> Code(c)
    [] t = v6.PACKET_TOO_BIG                         -> TooBig(info)
    [] t \notin {v6.DEST_UNREACH, v6.PACKET_TOO_BIG}
         /\ ~(t = v6.TIME_EXCEEDED /\ c = 0)         -> Other(t, c)

\* IcmpError::kind
kind(e) == IF e.version = "v4" THEN KindV4(e.icmp_type, e.code, e.info)
                               ELSE KindV6(e.icmp_type, e.code, e.info)
============================================================================
