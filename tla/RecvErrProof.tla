---------------------------- MODULE RecvErrProof ----------------------------
(***************************************************************************)
(* The proofs about RecvErr, with the structure sizes of a 64-bit host: for *)
(* every usize::MAX from 255 on, every length of the control data and every *)
(* content of it.                                                          *)
(*                                                                         *)
(* The invariant that makes the rest inductive is how far the offset can   *)
(* get: past a control message that ends inside the data, and the padding. *)
(***************************************************************************)
EXTENDS RecvErr, TLAPS

\* Offsets at the loop's top: at most a word past the data, and the start of it
\* as long as the kernel's control message was not looked at.
OffsetOK ==
  /\ offset \in Nat
  /\ offset <= control.len + USIZE
  /\ pc \in {"read", "walk"} /\ control.kernel # {} => offset = 0

\* The bounds of source_bytes.
SliceOK ==
  /\ error_end \in Nat /\ cmsg_end \in Nat
  /\ error_end <= cmsg_end /\ cmsg_end <= control.len

Inv ==
  /\ control \in Controls
  /\ OffsetOK
  /\ SliceOK
  /\ ReadsInBounds
  /\ NoOverflow
  /\ KernelErrorFound

-----------------------------------------------------------------------------
(* The operators.                                                          *)

\* cmsg_align rounds up to whole words when the sum does not overflow.
LEMMA AlignFacts ==
  ASSUME NEW n \in Nat, n + USIZE <= UsizeMax
  PROVE  /\ cmsg_align(n) \in Nat
         /\ n <= cmsg_align(n) /\ cmsg_align(n) < n + USIZE
BY SizeAssumption DEF cmsg_align, Wrap, USIZE

\* The constants the code computes with CMSG_ALIGN and CMSG_SPACE.
LEMMA HeaderLen == CMSG_HEADER_LEN = 16
BY SizeAssumption DEF CMSG_HEADER_LEN, cmsg_align, Wrap, USIZE, CMSGHDR

\* RECVERR_CONTROL_LEN: a header and the error with an IPv6 address, padded.
LEMMA ControlLen == RECVERR_CONTROL_LEN = 64
BY SizeAssumption, HeaderLen
   DEF RECVERR_CONTROL_LEN, cmsg_align, Wrap, USIZE, SOCK_EXTENDED_ERR, SOCKADDR_IN6

\* What the kernel writes fits RECVERR_CONTROL_LEN for both IP versions.
LEMMA WrittenFacts ==
  ASSUME NEW k \in KernelError
  PROVE  /\ Written(k).len \in {48, 64}
         /\ ErrorLen(k.version) <= Written(k).len
         /\ Written(k).truncated = FALSE
         /\ Written(k).kernel = {k}
<1>1. ErrorLen("v4") = 48 /\ ErrorLen("v6") = 60
  BY DEF ErrorLen, AddrLen, CMSGHDR, SOCK_EXTENDED_ERR, SOCKADDR_IN, SOCKADDR_IN6
<1>2. ErrorLen(k.version) \in {48, 60}
  BY <1>1 DEF KernelError
<1>3. Written(k) = [len |-> 8 * ((ErrorLen(k.version) + 7) \div 8), truncated |-> FALSE,
                    kernel |-> {k}]
  BY <1>2, ControlLen DEF Written
<1> QED
  BY <1>2, <1>3

\* Control data is short enough for every sum; what the kernel writes fits.
LEMMA ControlFacts ==
  ASSUME NEW c \in Controls
  PROVE  /\ c.len \in Nat /\ c.len + 64 <= UsizeMax
         /\ c.truncated = FALSE
         /\ \A k \in c.kernel :
              c.kernel = {k} /\ k \in KernelError /\ ErrorLen(k.version) <= c.len
<1>1. CASE c \in [len : Lengths, truncated : {FALSE}, kernel : {{}}]
  <2>1. c.len \in Lengths /\ c.truncated = FALSE /\ c.kernel = {}
    BY <1>1
  <2>2. c.len \in Nat /\ c.len <= UsizeMax \div 2
    BY <2>1, SizeAssumption
  <2>3. c.len + 64 <= UsizeMax
    BY <2>2, SizeAssumption
  <2> QED
    BY <2>1, <2>2, <2>3
<1>2. CASE c \in {Written(k) : k \in KernelError}
  <2>1. PICK k \in KernelError : c = Written(k)
    BY <1>2
  <2>2. /\ c.len \in {48, 64} /\ ErrorLen(k.version) <= c.len
        /\ c.truncated = FALSE /\ c.kernel = {k}
    BY <2>1, WrittenFacts
  <2>3. c.len + 64 <= UsizeMax
    BY <2>2, SizeAssumption
  <2> QED
    BY <2>1, <2>2, <2>3
<1> QED
  BY <1>1, <1>2 DEF Controls

-----------------------------------------------------------------------------
(* The steps.                                                              *)

\* What a turn of the loop may use: the offset leaves room for every sum.
LEMMA TurnFacts ==
  ASSUME Inv
  PROVE  /\ control.len \in Nat /\ control.len + 64 <= UsizeMax
         /\ Wrap(offset + CMSGHDR) = offset + CMSGHDR
         /\ data_offset = offset + 16
         /\ Wrap(data_offset + SOCK_EXTENDED_ERR) = offset + 32
         /\ \A n \in {offset + CMSGHDR, offset + 16, offset + 32} : n \in Nat /\ n <= UsizeMax
<1>1. control.len \in Nat /\ control.len + 64 <= UsizeMax
  BY ControlFacts DEF Inv
<1>2. offset \in Nat /\ offset <= control.len + 8
  BY DEF Inv, OffsetOK, USIZE
<1>3. data_offset = offset + 16
  BY <1>1, <1>2, HeaderLen, SizeAssumption DEF data_offset, Wrap
<1> QED
  BY <1>1, <1>2, <1>3, SizeAssumption DEF Wrap, CMSGHDR, SOCK_EXTENDED_ERR

\* A control message that passes the checks lies inside the data.
LEMMA CmsgEndFacts ==
  ASSUME Inv, NEW h \in HeadersAt(control, offset), NEW end \in CmsgEnd(h)
  PROVE  /\ h.cmsg_len \in Nat /\ h.cmsg_len >= 16
         /\ end = offset + h.cmsg_len /\ end <= control.len
<1>1. h.cmsg_len \in Nat
  <2>1. CASE h \in Header
    <3>1. h.cmsg_len \in CmsgLens
      BY <2>1 DEF Header
    <3> QED
      BY <3>1, SizeAssumption
  <2>2. CASE \E k \in control.kernel : h = [cmsg_len |-> ErrorLen(k.version), recverr |-> TRUE]
    BY <2>2 DEF ErrorLen, AddrLen, CMSGHDR, SOCK_EXTENDED_ERR, SOCKADDR_IN, SOCKADDR_IN6
  <2> QED
    BY <2>1, <2>2 DEF HeadersAt
<1> QED
  BY <1>1, HeaderLen DEF CmsgEnd, checked_add

\* The initial states satisfy the invariant.
LEMMA InitInv == Init => Inv
<1> SUFFICES ASSUME Init PROVE Inv
  OBVIOUS
<1>1. control.len \in Nat
  BY ControlFacts DEF Init
<1> QED
  BY <1>1 DEF Init, Inv, OffsetOK, SliceOK, ReadsInBounds, NoOverflow, KernelErrorFound, USIZE

\* At the start of what the kernel wrote there is one header, and all of it is
\* in the data.
LEMMA KernelHeader ==
  ASSUME Inv, pc = "walk", NEW k \in control.kernel,
         NEW h \in HeadersAt(control, offset)
  PROVE  /\ offset = 0 /\ HeaderLeft
         /\ h.recverr = TRUE /\ CmsgEnd(h) = {32 + AddrLen(k.version)}
         /\ AddrLen(k.version) \in {16, 28}
<1>1. /\ control.len \in Nat /\ control.len + 64 <= UsizeMax
      /\ control.kernel = {k} /\ k \in KernelError /\ ErrorLen(k.version) <= control.len
  BY ControlFacts DEF Inv
<1>2. offset = 0
  BY DEF Inv, OffsetOK
<1>3. AddrLen(k.version) \in {16, 28} /\ ErrorLen(k.version) = 32 + AddrLen(k.version)
  BY DEF ErrorLen, AddrLen, CMSGHDR, SOCK_EXTENDED_ERR, SOCKADDR_IN, SOCKADDR_IN6
<1>4. h = [cmsg_len |-> ErrorLen(k.version), recverr |-> TRUE]
  BY <1>1, <1>2 DEF HeadersAt
<1>5. CmsgEnd(h) = {32 + AddrLen(k.version)}
  <2> DEFINE n == 32 + AddrLen(k.version)
  <2>1. n \in Nat /\ n >= 16 /\ n <= control.len /\ n <= UsizeMax
    BY <1>1, <1>3, SizeAssumption
  <2>2. h.cmsg_len = n
    BY <1>3, <1>4
  <2>3. checked_add(offset, h.cmsg_len) = {n}
    BY <1>2, <2>1, <2>2, SizeAssumption DEF checked_add
  <2>4. CmsgEnd(h) = {e \in {n} : n >= 16 /\ e <= control.len}
    BY <2>2, <2>3, HeaderLen DEF CmsgEnd
  <2> QED
    BY <2>1, <2>4
<1>6. HeaderLeft
  BY <1>1, <1>2, <1>3, TurnFacts DEF HeaderLeft, CMSGHDR
<1> QED
  BY <1>2, <1>3, <1>4, <1>5, <1>6

\* A step that returns None: only the reads, the sums and pc change.
LEMMA NoneInv ==
  ASSUME Inv, ReturnNone, UNCHANGED control,
         \A r \in reads' : r[1] <= r[2] /\ r[2] <= control.len,
         \A n \in sums' : n <= UsizeMax,
         \A k \in control.kernel : k.origin = "local"
  PROVE  Inv'
<1>1. OffsetOK' /\ SliceOK'
  BY DEF Inv, OffsetOK, SliceOK, ReturnNone
<1>2. ReadsInBounds' /\ NoOverflow'
  BY DEF ReadsInBounds, NoOverflow, ReturnNone
<1>3. KernelErrorFound'
  BY DEF KernelErrorFound, ReturnNone
<1> QED
  BY <1>1, <1>2, <1>3 DEF Inv

\* handle_read: truncated control data is dropped; the kernel's never is.
LEMMA CheckTruncatedInv == Inv /\ CheckTruncated => Inv'
<1> SUFFICES ASSUME Inv, CheckTruncated PROVE Inv'
  OBVIOUS
<1>1. pc = "read" /\ pc' = "walk"
  BY ControlFacts DEF CheckTruncated, Inv
<1>2. OffsetOK' /\ SliceOK' /\ ReadsInBounds' /\ NoOverflow' /\ KernelErrorFound'
  BY <1>1 DEF CheckTruncated, Inv, OffsetOK, SliceOK, ReadsInBounds, NoOverflow, KernelErrorFound
<1> QED
  BY <1>2 DEF Inv, CheckTruncated

\* The loop ends for want of a whole header, never before the kernel's error.
LEMMA EndInv == Inv /\ End => Inv'
<1> SUFFICES ASSUME Inv, End PROVE Inv'
  OBVIOUS
<1>1. control.kernel = {}
  <2> SUFFICES ASSUME NEW k \in control.kernel PROVE FALSE
    OBVIOUS
  <2>1. HeadersAt(control, offset) # {}
    BY DEF HeadersAt, End, Inv, OffsetOK
  <2> QED
    BY <2>1, KernelHeader DEF End
<1> QED
  BY <1>1, TurnFacts, NoneInv DEF End

\* A malformed header ends the walk; the kernel's header is not one.
LEMMA MalformedInv == Inv /\ Malformed => Inv'
<1> SUFFICES ASSUME Inv, Malformed PROVE Inv'
  OBVIOUS
<1>1. control.kernel = {}
  BY KernelHeader DEF Malformed
<1>2. HeaderRead[1] <= HeaderRead[2] /\ HeaderRead[2] <= control.len
  BY TurnFacts DEF HeaderRead, Malformed, HeaderLeft, Inv, OffsetOK, CMSGHDR
<1> QED
  BY <1>1, <1>2, TurnFacts, NoneInv DEF Malformed

\* Another control message is skipped: the offset stays within a word of the data.
LEMMA SkipInv == Inv /\ Skip => Inv'
<1> SUFFICES ASSUME Inv, Skip PROVE Inv'
  OBVIOUS
<1>1. control.kernel = {}
  BY KernelHeader DEF Skip
<1>2. PICK h \in HeadersAt(control, offset) :
        /\ CmsgEnd(h) # {}
        /\ sums' = {offset + CMSGHDR, h.cmsg_len + USIZE, offset + cmsg_align(h.cmsg_len)}
        /\ offset' = Wrap(offset + cmsg_align(h.cmsg_len))
  BY DEF Skip
<1>3. /\ h.cmsg_len \in Nat /\ h.cmsg_len >= 16
      /\ offset + h.cmsg_len <= control.len
  BY <1>2, CmsgEndFacts
<1>4. /\ offset \in Nat /\ control.len \in Nat /\ control.len + 64 <= UsizeMax
      /\ UsizeMax \in Nat
  BY TurnFacts, SizeAssumption DEF Inv, OffsetOK
<1>5. /\ cmsg_align(h.cmsg_len) \in Nat
      /\ h.cmsg_len <= cmsg_align(h.cmsg_len) /\ cmsg_align(h.cmsg_len) < h.cmsg_len + USIZE
  BY <1>3, <1>4, AlignFacts DEF USIZE
<1>6. offset' = offset + cmsg_align(h.cmsg_len) /\ offset' <= control.len + USIZE
  BY <1>2, <1>3, <1>4, <1>5 DEF Wrap, USIZE
<1>7. OffsetOK'
  BY <1>1, <1>4, <1>5, <1>6 DEF OffsetOK, Skip
<1>8. NoOverflow'
  BY <1>2, <1>3, <1>4, <1>5, <1>6, TurnFacts DEF NoOverflow, USIZE
<1>9. ReadsInBounds'
  <2>1. HeaderRead[1] <= HeaderRead[2] /\ HeaderRead[2] <= control.len
    BY TurnFacts DEF HeaderRead, Skip, HeaderLeft, Inv, OffsetOK, CMSGHDR
  <2> QED
    BY <2>1 DEF Skip, ReadsInBounds
<1>10. SliceOK' /\ KernelErrorFound'
  BY <1>1 DEF Skip, Inv, SliceOK, KernelErrorFound
<1> QED
  BY <1>7, <1>8, <1>9, <1>10 DEF Inv, Skip

\* An error that does not fit its message ends the walk; the kernel's fits.
LEMMA ErrorCutInv == Inv /\ ErrorCut => Inv'
<1> SUFFICES ASSUME Inv, ErrorCut PROVE Inv'
  OBVIOUS
<1>1. control.kernel = {}
  <2> SUFFICES ASSUME NEW k \in control.kernel PROVE FALSE
    OBVIOUS
  <2>0. PICK h \in HeadersAt(control, offset) : \E end \in CmsgEnd(h) : ~ErrorInside(end)
    BY DEF ErrorCut
  <2>1. PICK end \in CmsgEnd(h) : ~ErrorInside(end)
    BY <2>0
  <2>2. offset = 0 /\ AddrLen(k.version) \in {16, 28} /\ end = 32 + AddrLen(k.version)
    BY <2>1, KernelHeader DEF ErrorCut
  <2> QED
    BY <2>1, <2>2, TurnFacts DEF ErrorInside
<1>2. HeaderRead[1] <= HeaderRead[2] /\ HeaderRead[2] <= control.len
  BY TurnFacts DEF HeaderRead, ErrorCut, HeaderLeft, Inv, OffsetOK, CMSGHDR
<1>3. \A n \in ErrorSums : n <= UsizeMax
  BY TurnFacts, HeaderLen DEF ErrorSums, SOCK_EXTENDED_ERR, Inv, OffsetOK
<1> QED
  BY <1>1, <1>2, <1>3, NoneInv DEF ErrorCut

\* The error is read inside its message, and taken by its origin.
LEMMA ErrorTakenInv == Inv /\ ErrorTaken => Inv'
<1> SUFFICES ASSUME Inv, ErrorTaken PROVE Inv'
  OBVIOUS
<1> DEFINE Taken(end, origin) ==
          /\ ErrorInside(end)
          /\ IF origin = "local"
             THEN ReturnNone
             ELSE /\ pc' = "address"
                  /\ version' = IF origin = "icmp" THEN "v4" ELSE "v6"
                  /\ error_end' = Wrap(data_offset + SOCK_EXTENDED_ERR)
                  /\ cmsg_end' = end
                  /\ UNCHANGED offset
<1>0. PICK h \in HeadersAt(control, offset) :
        \E end \in CmsgEnd(h), origin \in Origins(control) : Taken(end, origin)
  BY DEF ErrorTaken
<1>1. PICK end \in CmsgEnd(h), origin \in Origins(control) : Taken(end, origin)
  BY <1>0
<1>2. offset \in Nat /\ end \in Nat /\ offset + 32 <= end /\ end <= control.len
  BY <1>1, CmsgEndFacts, TurnFacts DEF ErrorInside, Inv, OffsetOK
<1>3. \A n \in sums' : n <= UsizeMax
  BY TurnFacts, HeaderLen DEF ErrorTaken, ErrorSums, SOCK_EXTENDED_ERR, Inv, OffsetOK
<1>4. \A r \in reads' : r[1] <= r[2] /\ r[2] <= control.len
  <2>1. HeaderRead = <<offset, offset + 16>> /\ ErrorRead = <<offset + 16, offset + 32>>
    BY <1>2, TurnFacts DEF HeaderRead, ErrorRead, CMSGHDR, SOCK_EXTENDED_ERR
  <2>2. control.len \in Nat
    BY TurnFacts
  <2> QED
    BY <1>2, <2>1, <2>2 DEF ErrorTaken
<1>5. \A k \in control.kernel :
        /\ origin = "local" => k.origin = "local"
        /\ origin # "local" => /\ k.origin = "icmp"
                               /\ k.version = IF origin = "icmp" THEN "v4" ELSE "v6"
        /\ offset = 0 /\ end = 32 + AddrLen(k.version) /\ AddrLen(k.version) \in {16, 28}
  <2> SUFFICES ASSUME NEW k \in control.kernel
               PROVE  /\ origin = "local" => k.origin = "local"
                      /\ origin # "local" => /\ k.origin = "icmp"
                                             /\ k.version = IF origin = "icmp" THEN "v4" ELSE "v6"
                      /\ offset = 0 /\ end = 32 + AddrLen(k.version)
                      /\ AddrLen(k.version) \in {16, 28}
    OBVIOUS
  <2>1. offset = 0 /\ end = 32 + AddrLen(k.version) /\ AddrLen(k.version) \in {16, 28}
    BY <1>1, KernelHeader DEF ErrorTaken
  <2>2. control.kernel = {k} /\ k.version \in {"v4", "v6"} /\ k.origin \in {"icmp", "local"}
    BY ControlFacts DEF Inv, KernelError
  <2>3. origin = IF k.origin = "icmp" /\ k.version = "v6" THEN "icmp6" ELSE k.origin
    BY <2>2 DEF Origins
  <2> QED
    BY <2>1, <2>2, <2>3
<1>6. CASE origin = "local"
  BY <1>1, <1>3, <1>4, <1>5, <1>6, NoneInv DEF ErrorTaken
<1>7. CASE origin # "local"
  <2>1. /\ pc' = "address" /\ error_end' = offset + 32 /\ cmsg_end' = end
        /\ version' = IF origin = "icmp" THEN "v4" ELSE "v6"
        /\ offset' = offset /\ control' = control
    BY <1>1, <1>7, TurnFacts DEF ErrorTaken
  <2>2. OffsetOK' /\ SliceOK'
    BY <1>2, <2>1 DEF Inv, OffsetOK, SliceOK
  <2>3. ReadsInBounds' /\ NoOverflow'
    BY <1>2, <1>3, <1>4, <2>1 DEF ReadsInBounds, NoOverflow
  <2>4. KernelErrorFound'
    BY <1>5, <1>7, <2>1 DEF KernelErrorFound
  <2> QED
    BY <2>1, <2>2, <2>3, <2>4 DEF Inv
<1> QED
  BY <1>6, <1>7

\* parse_sockaddr reads inside source_bytes and finds the kernel's address.
LEMMA AddressInv == Inv /\ Address => Inv'
<1> SUFFICES ASSUME Inv, Address PROVE Inv'
  OBVIOUS
<1> DEFINE len == cmsg_end - error_end
<1>1. PICK family \in Families(control) :
        /\ source' = {family : n \in parse_sockaddr(len, family)}
        /\ reads' = {<<error_end, error_end + n>> : n \in parse_sockaddr(len, family)}
  BY DEF Address
<1>2. \A n \in parse_sockaddr(len, family) : n \in Nat /\ n <= len
  BY DEF parse_sockaddr, SOCKADDR_IN, SOCKADDR_IN6
<1>3. OffsetOK' /\ SliceOK' /\ NoOverflow'
  BY DEF Inv, Address, OffsetOK, SliceOK, NoOverflow
<1>4. ReadsInBounds'
  BY <1>1, <1>2, TurnFacts DEF ReadsInBounds, Address, Inv, SliceOK
<1>5. KernelErrorFound'
  <2> SUFFICES ASSUME NEW k \in control.kernel
               PROVE  k.origin = "icmp" /\ source' = {k.version}
    BY DEF KernelErrorFound, Address
  <2>1. k.origin = "icmp" /\ len = AddrLen(k.version)
    BY DEF Address, Inv, KernelErrorFound
  <2>2. control.kernel = {k} /\ k.version \in {"v4", "v6"}
    BY ControlFacts DEF Inv, KernelError
  <2>3. family = k.version
    BY <2>2 DEF Families
  <2>4. parse_sockaddr(len, family) = {AddrLen(k.version)}
    BY <2>1, <2>2, <2>3 DEF parse_sockaddr, AddrLen, SOCKADDR_IN, SOCKADDR_IN6
  <2> QED
    BY <1>1, <2>1, <2>3, <2>4
<1> QED
  BY <1>3, <1>4, <1>5 DEF Inv, Address

\* Every step keeps the invariant.
LEMMA NextInv == Inv /\ [Next]_vars => Inv'
<1>1. Inv /\ UNCHANGED vars => Inv'
  BY DEF Inv, OffsetOK, SliceOK, ReadsInBounds, NoOverflow, KernelErrorFound, vars
<1> QED
  BY <1>1, CheckTruncatedInv, EndInv, MalformedInv, SkipInv, ErrorCutInv, ErrorTakenInv,
     AddressInv
     DEF Next, Walk, Returned

-----------------------------------------------------------------------------
(* The theorems.                                                           *)

\* The invariant holds in every state of the walk.
THEOREM InvCorrect == Spec => []Inv
  BY InitInv, NextInv, PTL DEF Spec

\* parse_ip_recverr and parse_sockaddr read inside the control data, whatever it
\* contains and however long it is.
THEOREM BoundsCorrect == Spec => []ReadsInBounds
<1>1. Inv => ReadsInBounds
  BY DEF Inv
<1> QED
  BY <1>1, InvCorrect, PTL

\* No sum that parse_ip_recverr and cmsg_align leave unchecked overflows, for
\* every usize::MAX from 255 on.
THEOREM OverflowCorrect == Spec => []NoOverflow
<1>1. Inv => NoOverflow
  BY DEF Inv
<1> QED
  BY <1>1, InvCorrect, PTL

\* An ICMP error that the kernel queued is always found and understood.
THEOREM FoundCorrect == Spec => []KernelErrorFound
<1>1. Inv => KernelErrorFound
  BY DEF Inv
<1> QED
  BY <1>1, InvCorrect, PTL

\* Each turn of the loop in parse_ip_recverr moves past a header, so it ends.
THEOREM AdvancesCorrect == Spec => Advances
<1>1. Inv /\ [Next]_vars =>
        [pc = "walk" /\ pc' = "walk" => offset' >= offset + CMSG_HEADER_LEN]_vars
  <2> SUFFICES ASSUME Inv, Next, pc = "walk", pc' = "walk", ~UNCHANGED vars
               PROVE  offset' >= offset + CMSG_HEADER_LEN
    OBVIOUS
  <2>1. Skip
    BY DEF Next, Walk, CheckTruncated, End, Malformed, ErrorCut, ErrorTaken, ReturnNone,
           Address, Returned
  <2>2. PICK h \in HeadersAt(control, offset) :
          CmsgEnd(h) # {} /\ offset' = Wrap(offset + cmsg_align(h.cmsg_len))
    BY <2>1 DEF Skip
  <2>3. h.cmsg_len \in Nat /\ h.cmsg_len >= 16 /\ offset + h.cmsg_len <= control.len
    BY <2>2, CmsgEndFacts
  <2>4. /\ offset \in Nat /\ control.len \in Nat /\ control.len + 64 <= UsizeMax
        /\ UsizeMax \in Nat
    BY TurnFacts, SizeAssumption DEF Inv, OffsetOK
  <2>5. /\ cmsg_align(h.cmsg_len) \in Nat
        /\ h.cmsg_len <= cmsg_align(h.cmsg_len) /\ cmsg_align(h.cmsg_len) < h.cmsg_len + USIZE
    BY <2>3, <2>4, AlignFacts DEF USIZE
  <2> QED
    BY <2>2, <2>3, <2>4, <2>5, HeaderLen DEF Wrap, USIZE
<1> QED
  BY <1>1, InvCorrect, PTL DEF Spec, Advances
=============================================================================
