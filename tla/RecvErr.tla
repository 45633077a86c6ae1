------------------------------ MODULE RecvErr ------------------------------
(***************************************************************************)
(* src/src/net.rs: parse_ip_recverr walks the control messages of an error *)
(* queue read, and handle_read passes what it finds to parse_sockaddr.     *)
(*                                                                         *)
(* The control data is its length and, at each offset, the header that is  *)
(* read there.  The code takes headers of any content, so a header is      *)
(* chosen when it is read; as no offset is read twice this is the same as  *)
(* having chosen all bytes before.                                         *)
(*                                                                         *)
(* usize arithmetic wraps, as in a release build, where the code does not  *)
(* use a checked operation.  The structures have the sizes they have on a  *)
(* 64-bit host; usize::MAX is a parameter, so that a small instance of it  *)
(* has the boundary within reach.                                          *)
(***************************************************************************)
EXTENDS Integers

CONSTANTS
  UsizeMax,     \* usize::MAX
  Lengths,      \* lengths of control data that no kernel wrote
  CmsgLens      \* values of cmsg_len in it

\* A slice is at most isize::MAX bytes long.
ASSUME SizeAssumption ==
  /\ UsizeMax \in Nat /\ UsizeMax >= 255
  /\ \A n \in Lengths : n \in Nat /\ n <= UsizeMax \div 2
  /\ \A n \in CmsgLens : n \in Nat /\ n <= UsizeMax

\* mem::size_of: usize, cmsghdr, sock_extended_err, sockaddr_in, sockaddr_in6
USIZE == 8
CMSGHDR == 16
SOCK_EXTENDED_ERR == 16
SOCKADDR_IN  == 16
SOCKADDR_IN6 == 28

Wrap(n) == IF n > UsizeMax THEN n - (UsizeMax + 1) ELSE n

\* (length + align - 1) & !(align - 1); the subtraction undoes a wrap of the sum
\* when the result is usize::MAX.
cmsg_align(length) == LET n == Wrap(length + USIZE - 1) IN n - (n % USIZE)

CMSG_HEADER_LEN == cmsg_align(CMSGHDR)

\* usize::checked_add
AddUnchecked(a, b) == {Wrap(a + b)}
checked_add(a, b) == IF a + b > UsizeMax THEN {} ELSE {a + b}

\* CMSG_SPACE of the error and of the widest address of its sender
ControlLenV4 == CMSG_HEADER_LEN + cmsg_align(SOCK_EXTENDED_ERR + SOCKADDR_IN)
RECVERR_CONTROL_LEN == CMSG_HEADER_LEN + cmsg_align(SOCK_EXTENDED_ERR + SOCKADDR_IN6)

-----------------------------------------------------------------------------
(* External: the control data of an error queue read.                      *)

AddrLen(version) == IF version = "v4" THEN SOCKADDR_IN ELSE SOCKADDR_IN6
ErrorLen(version) == CMSGHDR + SOCK_EXTENDED_ERR + AddrLen(version)

\* The kernel writes one control message, as no other option is enabled, padded
\* to whole words: an ICMP error, or one of its own, such as a datagram too long
\* for the link.  put_cmsg cuts it to the room there is and sets MSG_CTRUNC.
KernelError == [version : {"v4", "v6"}, origin : {"icmp", "local"}]
Written(k) ==
  IF ErrorLen(k.version) > RECVERR_CONTROL_LEN
  THEN [len |-> RECVERR_CONTROL_LEN, truncated |-> TRUE, kernel |-> {k}]
  ELSE [len |-> 8 * ((ErrorLen(k.version) + 7) \div 8), truncated |-> FALSE, kernel |-> {k}]

\* Any bytes at all, or what the kernel wrote.
Controls ==
  [len : Lengths, truncated : {FALSE}, kernel : {{}}]
    \cup {Written(k) : k \in KernelError}

\* The fields of a cmsghdr: recverr says that level and type are IP_RECVERR's or
\* IPV6_RECVERR's.
Header == [cmsg_len : CmsgLens, recverr : BOOLEAN]

HeadersAt(c, offset) ==
  IF c.kernel # {} /\ offset = 0
  THEN {[cmsg_len |-> ErrorLen(k.version), recverr |-> TRUE] : k \in c.kernel}
  ELSE Header

\* ee_origin of the error that is read.
Origins(c) ==
  IF c.kernel = {} THEN {"icmp", "icmp6", "local"}
  ELSE {IF k.origin = "icmp" /\ k.version = "v6" THEN "icmp6" ELSE k.origin : k \in c.kernel}

\* The address family in the first two bytes of the sender's address.
Families(c) ==
  IF c.kernel = {} THEN {"v4", "v6", "other"} ELSE {k.version : k \in c.kernel}

-----------------------------------------------------------------------------
VARIABLES
  pc,        \* read, walk, address (the error was found), some, none
  control,   \* the control data
  offset,    \* offset in the code
  error_end, \* the bounds of source_bytes
  cmsg_end,
  version,   \* the variant of IcmpError
  source,    \* what parse_sockaddr returns, as a set with at most one element
  reads,     \* the byte ranges the last step read through a raw pointer
  sums       \* the sums it computed without a check, before wrapping

vars == <<pc, control, offset, error_end, cmsg_end, version, source, reads, sums>>

Init ==
  /\ pc = "read"
  /\ control \in Controls
  /\ offset = 0
  /\ error_end = 0 /\ cmsg_end = 0
  /\ version = "none"
  /\ source = {}
  /\ reads = {} /\ sums = {}

\* handle_read: truncated control data is not parsed.
CheckTruncated ==
  /\ pc = "read"
  /\ pc' = IF control.truncated THEN "none" ELSE "walk"
  /\ UNCHANGED <<control, offset, error_end, cmsg_end, version, source, reads, sums>>

\* The loop condition: a whole header is left.
HeaderLeft == Wrap(offset + CMSGHDR) <= control.len

ReturnNone == pc' = "none" /\ UNCHANGED <<offset, error_end, cmsg_end, version>>

End ==
  /\ pc = "walk"
  /\ ~HeaderLeft
  /\ reads' = {} /\ sums' = {offset + CMSGHDR}
  /\ ReturnNone
  /\ UNCHANGED <<control, source>>

\* The end of the control message, if it is well formed and inside the data.
CmsgEndAnyLen(h) == {e \in checked_add(offset, h.cmsg_len) : e <= control.len}
CmsgEndAnywhere(h) == {e \in checked_add(offset, h.cmsg_len) : h.cmsg_len >= CMSG_HEADER_LEN}
CmsgEnd(h) ==
  {e \in checked_add(offset, h.cmsg_len) :
     h.cmsg_len >= CMSG_HEADER_LEN /\ e <= control.len}

HeaderRead == <<offset, offset + CMSGHDR>>

Malformed ==
  /\ pc = "walk" /\ HeaderLeft
  /\ \E h \in HeadersAt(control, offset) : CmsgEnd(h) = {}
  /\ reads' = {HeaderRead} /\ sums' = {offset + CMSGHDR}
  /\ ReturnNone
  /\ UNCHANGED <<control, source>>

\* Another kind of control message.
Skip ==
  /\ pc = "walk" /\ HeaderLeft
  /\ \E h \in HeadersAt(control, offset) :
       /\ CmsgEnd(h) # {} /\ ~h.recverr
       /\ sums' = {offset + CMSGHDR, h.cmsg_len + USIZE, offset + cmsg_align(h.cmsg_len)}
       /\ offset' = Wrap(offset + cmsg_align(h.cmsg_len))
  /\ reads' = {HeaderRead}
  /\ UNCHANGED <<pc, control, error_end, cmsg_end, version, source>>

data_offset == Wrap(offset + CMSG_HEADER_LEN)
ErrorRead == <<data_offset, data_offset + SOCK_EXTENDED_ERR>>
ErrorSums == {offset + CMSGHDR, offset + CMSG_HEADER_LEN, data_offset + SOCK_EXTENDED_ERR}

ErrorInside(end) == Wrap(data_offset + SOCK_EXTENDED_ERR) <= end

\* The extended error does not fit its control message.
ErrorCut ==
  /\ pc = "walk" /\ HeaderLeft
  /\ \E h \in HeadersAt(control, offset) :
       h.recverr /\ \E end \in CmsgEnd(h) : ~ErrorInside(end)
  /\ reads' = {HeaderRead} /\ sums' = ErrorSums
  /\ ReturnNone
  /\ UNCHANGED <<control, source>>

\* The error is not ICMP's, or it is and it is returned.
ErrorTaken ==
  /\ pc = "walk" /\ HeaderLeft
  /\ \E h \in HeadersAt(control, offset) :
       /\ h.recverr
       /\ \E end \in CmsgEnd(h), origin \in Origins(control) :
            /\ ErrorInside(end)
            /\ IF origin = "local"
               THEN ReturnNone
               ELSE /\ pc' = "address"
                    /\ version' = IF origin = "icmp" THEN "v4" ELSE "v6"
                    /\ error_end' = Wrap(data_offset + SOCK_EXTENDED_ERR)
                    /\ cmsg_end' = end
                    /\ UNCHANGED offset
  /\ reads' = {HeaderRead, ErrorRead} /\ sums' = ErrorSums
  /\ UNCHANGED <<control, source>>

\* parse_sockaddr on n bytes that start with a family: the bytes it reads.
parse_sockaddr(n, family) ==
  CASE n >= 2 /\ family = "v4" /\ n >= SOCKADDR_IN  -> {SOCKADDR_IN}
    [] n >= 2 /\ family = "v6" /\ n >= SOCKADDR_IN6 -> {SOCKADDR_IN6}
    [] OTHER -> {}

\* handle_read: parse_sockaddr(extended.source_bytes)
Address ==
  /\ pc = "address"
  /\ \E family \in Families(control) :
       LET parsed == parse_sockaddr(cmsg_end - error_end, family)
       IN  /\ source' = {family : n \in parsed}
           /\ reads' = {<<error_end, error_end + n>> : n \in parsed}
  /\ sums' = {}
  /\ pc' = "some"
  /\ UNCHANGED <<control, offset, error_end, cmsg_end, version>>

Returned == pc \in {"some", "none"} /\ UNCHANGED vars

Walk == CheckTruncated \/ End \/ Malformed \/ Skip \/ ErrorCut \/ ErrorTaken
Next == Walk \/ Address \/ Returned

Spec == Init /\ [][Next]_vars
-----------------------------------------------------------------------------
(* Properties.                                                             *)

\* The unsafe reads of a cmsghdr, a sock_extended_err and a sockaddr, and the
\* slice source_bytes, stay inside the control data whatever it contains.
ReadsInBounds ==
  /\ \A r \in reads : r[1] <= r[2] /\ r[2] <= control.len
  /\ pc = "address" => error_end <= cmsg_end /\ cmsg_end <= control.len

\* No sum that parse_ip_recverr and cmsg_align compute without a check
\* overflows: checked_add and the bounds that precede it are enough.
NoOverflow == \A n \in sums : n <= UsizeMax

\* RECVERR_CONTROL_LEN has room for what the kernel writes, so every ICMP error
\* is found, with its IP version and the address of the node that sent it, and
\* an error of another origin is not taken for one.
KernelErrorFound ==
  \A k \in control.kernel :
    /\ pc = "none" => k.origin = "local"
    /\ pc = "address" => /\ k.origin = "icmp" /\ version = k.version
                         /\ cmsg_end - error_end = AddrLen(k.version)
    /\ pc = "some" => k.origin = "icmp" /\ source = {k.version}

\* Each turn of the loop moves past a whole header, whatever cmsg_len says, so
\* the walk ends after at most control.len() / 16 turns.
Advances ==
  [][pc = "walk" /\ pc' = "walk" => offset' >= offset + CMSG_HEADER_LEN]_vars
=============================================================================
