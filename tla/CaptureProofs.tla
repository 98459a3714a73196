---------------------------- MODULE CaptureProofs ----------------------------
(***************************************************************************)
(* What Decode and Capture promise.                                        *)
(*                                                                         *)
(* Decode, for frames of any length: each helper is given len bytes that   *)
(* begin off bytes into the frame.  It looks at nothing after them, and    *)
(* once there are enough of them for all the headers that may follow, more *)
(* of them make no difference.                                             *)
(*                                                                         *)
(* Capture, for any interfaces, addresses, packets and clocks: what was    *)
(* owed when a turn of the loop began is dispatched in it; local addresses *)
(* are those of this second; and each packet is in one place on its way    *)
(* from a buffer to the counters of the day and on to a line of the log.   *)
(***************************************************************************)
EXTENDS Capture, SequenceTheorems, TLAPS

(* n bytes of a frame were looked at: up to where len bytes from off     *)
(* end.                                                                  *)
Within(n, off, len) == n \in Nat /\ n <= off + len

(* A header that fits is subtracted without wrapping round.              *)
LEMMA SubFits ==
  ASSUME NEW x \in Nat, NEW y \in Nat, x >= y
  PROVE  Sub(x, y) = x - y /\ Sub(x, y) \in Nat
  BY DEF Sub

(* The size of the last header, which SMT is not to look into.           *)
LEMMA ProtoHeader ==
  ASSUME NEW h \in Headers
  PROVE  LET hdr == [TCP |-> TCP_HDR_LEN, UDP |-> UDP_HDR_LEN, other |-> 0][h.proto]
         IN  hdr \in Nat /\ hdr <= TCP_HDR_LEN
  BY DEF Headers, Proto, TCP_HDR_LEN, UDP_HDR_LEN

(* helper_ip_deeper looks no further than what was captured.             *)
LEMMA DeeperReads ==
  ASSUME NEW h \in Headers, NEW off \in Nat, NEW len \in Nat
  PROVE  Within(helper_ip_deeper(h, off, len).reads, off, len)
  <1> DEFINE hdr == [TCP |-> TCP_HDR_LEN, UDP |-> UDP_HDR_LEN, other |-> 0][h.proto]
  <1>1. hdr \in Nat
    BY ProtoHeader
  <1>2. helper_ip_deeper(h, off, len).reads = IF len < hdr THEN off ELSE off + hdr
    BY DEF helper_ip_deeper
  <1> HIDE DEF hdr
  <1> QED
    BY <1>1, <1>2 DEF Within

(* Nor does helper_ipv6.                                                 *)
LEMMA Ipv6Reads ==
  ASSUME NEW h \in Headers, NEW off \in Nat, NEW len \in Nat
  PROVE  Within(helper_ipv6(h, off, len).reads, off, len)
  <1>1. CASE len < IPV6_HDR_LEN
    BY <1>1 DEF helper_ipv6, Nothing, Within
  <1>2. CASE ~(len < IPV6_HDR_LEN) /\ h.version # 6
    BY <1>2 DEF helper_ipv6, Nothing, Within, IPV6_HDR_LEN
  <1>3. CASE ~(len < IPV6_HDR_LEN) /\ h.version = 6
    <2> DEFINE o == off + IPV6_HDR_LEN
               l == Sub(len, IPV6_HDR_LEN)
    <2>1. o \in Nat /\ l \in Nat /\ o + l = off + len
      BY <1>3, SubFits DEF IPV6_HDR_LEN
    <2>2. helper_ipv6(h, off, len) = helper_ip_deeper(h, o, l)
      BY <1>3 DEF helper_ipv6
    <2> HIDE DEF o, l
    <2> QED
      BY <2>1, <2>2, DeeperReads DEF Within
  <1> QED
    BY <1>1, <1>2, <1>3

(* Nor does helper_ip.                                                   *)
LEMMA IpReads ==
  ASSUME NEW h \in Headers, NEW off \in Nat, NEW len \in Nat
  PROVE  Within(helper_ip(h, off, len).reads, off, len)
  <1>1. CASE len < IP_HDR_LEN
    BY <1>1 DEF helper_ip, Nothing, Within
  <1>2. CASE ~(len < IP_HDR_LEN) /\ h.version = 6
    <2>1. helper_ip(h, off, len) = helper_ipv6(h, off, len)
      BY <1>2 DEF helper_ip
    <2> QED
      BY <2>1, Ipv6Reads
  <1>3. CASE ~(len < IP_HDR_LEN) /\ h.version = 4
    <2> DEFINE o == off + IP_HDR_LEN
               l == Sub(len, IP_HDR_LEN)
    <2>1. o \in Nat /\ l \in Nat /\ o + l = off + len
      BY <1>3, SubFits DEF IP_HDR_LEN
    <2>2. helper_ip(h, off, len) = helper_ip_deeper(h, o, l)
      BY <1>3 DEF helper_ip
    <2> HIDE DEF o, l
    <2> QED
      BY <2>1, <2>2, DeeperReads DEF Within
  <1>4. CASE ~(len < IP_HDR_LEN) /\ h.version # 4 /\ h.version # 6
    <2>1. helper_ip(h, off, len) = Nothing(off + IP_HDR_LEN)
      BY <1>4 DEF helper_ip
    <2> QED
      BY <1>4, <2>1 DEF Nothing, Within, IP_HDR_LEN
  <1> QED
    BY <1>1, <1>2, <1>3, <1>4

(* Nor does helper_pppoe.                                                *)
LEMMA PppoeReads ==
  ASSUME NEW h \in Headers, NEW off \in Nat, NEW len \in Nat
  PROVE  Within(helper_pppoe(h, off, len).reads, off, len)
  <1>1. CASE len < PPPOE_HDR_LEN
    BY <1>1 DEF helper_pppoe, Nothing, Within
  <1>2. CASE ~(len < PPPOE_HDR_LEN) /\ h.session # "IP"
    BY <1>2 DEF helper_pppoe, Nothing, Within, PPPOE_HDR_LEN
  <1>3. CASE ~(len < PPPOE_HDR_LEN) /\ h.session = "IP"
    <2> DEFINE o == off + PPPOE_HDR_LEN
               l == Sub(len, PPPOE_HDR_LEN)
    <2>1. o \in Nat /\ l \in Nat /\ o + l = off + len
      BY <1>3, SubFits DEF PPPOE_HDR_LEN
    <2>2. helper_pppoe(h, off, len) = helper_ip(h, o, l)
      BY <1>3 DEF helper_pppoe
    <2> HIDE DEF o, l
    <2> QED
      BY <2>1, <2>2, IpReads DEF Within
  <1> QED
    BY <1>1, <1>2, <1>3

(* The helpers after a link header of hdr bytes.                         *)
LEMMA AfterLink ==
  ASSUME NEW h \in Headers, NEW got \in Nat, NEW hdr \in Nat, hdr <= got
  PROVE  /\ Within(helper_ip(h, hdr, Sub(got, hdr)).reads, 0, got)
         /\ Within(helper_ipv6(h, hdr, Sub(got, hdr)).reads, 0, got)
         /\ Within(helper_pppoe(h, hdr, Sub(got, hdr)).reads, 0, got)
         /\ Within(Nothing(hdr).reads, 0, got)
  <1> DEFINE l == Sub(got, hdr)
  <1>1. l \in Nat /\ hdr + l = 0 + got
    BY SubFits
  <1>2. Nothing(hdr).reads = hdr
    BY DEF Nothing
  <1> HIDE DEF l
  <1>3. /\ Within(helper_ip(h, hdr, l).reads, hdr, l)
        /\ Within(helper_ipv6(h, hdr, l).reads, hdr, l)
        /\ Within(helper_pppoe(h, hdr, l).reads, hdr, l)
    BY <1>1, IpReads, Ipv6Reads, PppoeReads
  <1>4. \A n : Within(n, hdr, l) => Within(n, 0, got)
    BY <1>1 DEF Within
  <1>5. Within(hdr, 0, got)
    BY DEF Within
  <1> QED
    BY <1>2, <1>3, <1>4, <1>5 DEF l

(* Each decoder, by cases of the link type.                              *)
LEMMA DecodersStayInside == StaysInside
  <1> SUFFICES ASSUME NEW lt \in Linktype, NEW h \in Headers, NEW got \in Length,
                      NEW pppoe \in BOOLEAN
               PROVE  decoder(lt, h, got, pppoe).reads <= got
    BY DEF StaysInside
  <1>1. got \in Nat
    BY DecodeAssumption
  <1>2. Nothing(0).reads = 0
    BY DEF Nothing
  <1>3. ASSUME NEW n, Within(n, 0, got) PROVE n <= got
    BY <1>1, <1>3 DEF Within
  <1>4. Within(0, 0, got)
    BY <1>1 DEF Within
  <1>5. lt \in {"EN10MB", "LOOP", "NULL", "PPP", "PPP_ETHER", "LINUX_SLL", "RAW"}
    BY DEF Linktype, linkhdrs
  <1>6. CASE lt = "EN10MB"
    <2>1. CASE got < ETHER_HDR_LEN
      BY <1>2, <1>1, <1>6, <2>1 DEF decoder, decode_ether
    <2>2. CASE ~(got < ETHER_HDR_LEN)
      <3>1. ETHER_HDR_LEN \in Nat /\ ETHER_HDR_LEN <= got
        BY <1>1, <2>2 DEF ETHER_HDR_LEN
      <3>2. decoder(lt, h, got, pppoe) \in
              {helper_ip(h, ETHER_HDR_LEN, Sub(got, ETHER_HDR_LEN)),
               helper_pppoe(h, ETHER_HDR_LEN, Sub(got, ETHER_HDR_LEN)),
               Nothing(ETHER_HDR_LEN)}
        BY <1>6, <2>2 DEF decoder, decode_ether
      <3> QED
        BY <1>1, <1>3, <3>1, <3>2, AfterLink
    <2> QED
      BY <2>1, <2>2
  <1>7. CASE lt \in {"LOOP", "NULL"}
    <2>1. decoder(lt, h, got, pppoe) = decode_loop(h, got)
      BY <1>7 DEF decoder
    <2>2. CASE got < NULL_HDR_LEN
      BY <1>1, <1>2, <2>1, <2>2 DEF decode_loop
    <2>3. CASE ~(got < NULL_HDR_LEN)
      <3>1. NULL_HDR_LEN \in Nat /\ NULL_HDR_LEN <= got
        BY <1>1, <2>3 DEF NULL_HDR_LEN
      <3>2. decode_loop(h, got) \in
              {helper_ip(h, NULL_HDR_LEN, Sub(got, NULL_HDR_LEN)),
               helper_ipv6(h, NULL_HDR_LEN, Sub(got, NULL_HDR_LEN)),
               Nothing(NULL_HDR_LEN)}
        BY <2>3 DEF decode_loop
      <3> QED
        BY <1>1, <1>3, <2>1, <3>1, <3>2, AfterLink
    <2> QED
      BY <2>2, <2>3
  <1>8. CASE lt = "PPP"
    <2>1. decoder(lt, h, got, pppoe) = decode_ppp(h, got)
      BY <1>8 DEF decoder
    <2>2. CASE got < PPPOE_HDR_LEN
      BY <1>1, <1>2, <2>1, <2>2 DEF decode_ppp
    <2>3. CASE ~(got < PPPOE_HDR_LEN)
      <3>1. PPP_HDR_LEN \in Nat /\ PPP_HDR_LEN <= got
        BY <1>1, <2>3 DEF PPP_HDR_LEN, PPPOE_HDR_LEN
      <3>2. decode_ppp(h, got) \in
              {helper_ip(h, PPP_HDR_LEN, Sub(got, PPP_HDR_LEN)),
               Nothing(PPP_HDR_LEN)}
        BY <2>3 DEF decode_ppp
      <3> QED
        BY <1>1, <1>3, <2>1, <3>1, <3>2, AfterLink
    <2> QED
      BY <2>2, <2>3
  <1>9. CASE lt = "PPP_ETHER"
    <2>1. decoder(lt, h, got, pppoe) = helper_pppoe(h, 0, got)
      BY <1>9 DEF decoder
    <2> QED
      BY <1>1, <1>3, <2>1, PppoeReads
  <1>10. CASE lt = "LINUX_SLL"
    <2>1. decoder(lt, h, got, pppoe) = decode_linux_sll(h, got)
      BY <1>10 DEF decoder
    <2>2. CASE got < SLL_HDR_LEN
      BY <1>1, <1>2, <2>1, <2>2 DEF decode_linux_sll
    <2>3. CASE ~(got < SLL_HDR_LEN)
      <3>1. SLL_HDR_LEN \in Nat /\ SLL_HDR_LEN <= got
        BY <1>1, <2>3 DEF SLL_HDR_LEN
      <3>2. decode_linux_sll(h, got) \in
              {helper_ip(h, SLL_HDR_LEN, Sub(got, SLL_HDR_LEN)),
               Nothing(SLL_HDR_LEN)}
        BY <2>3 DEF decode_linux_sll
      <3> QED
        BY <1>1, <1>3, <2>1, <3>1, <3>2, AfterLink
    <2> QED
      BY <2>2, <2>3
  <1>11. CASE lt = "RAW"
    <2>1. decoder(lt, h, got, pppoe) = helper_ip(h, 0, got)
      BY <1>11 DEF decoder
    <2> QED
      BY <1>1, <1>3, <2>1, IpReads
  <1> QED
    BY <1>5, <1>6, <1>7, <1>8, <1>9, <1>10, <1>11

(* No decoder that cap_poll hands a frame to looks at bytes that were    *)
(* not captured, for any interfaces, packets and lengths (decode.c).     *)
THEOREM DecodeNoOverread == Spec => []NoOverread
  <1>1. NoOverread
    BY DecodersStayInside DEF NoOverread
  <1> QED
    BY <1>1, PTL

----------------------------------------------------------------------------
(* The same is made of a frame.                                          *)
Same(a, b) == a.ok = b.ok /\ a.proto = b.proto

(* Lengths that are equal, or both enough for n bytes.                   *)
Enough(m, k, n) == m = k \/ (m >= n /\ k >= n)

(* A header is taken off both.                                           *)
LEMMA SubEnough ==
  ASSUME NEW m \in Nat, NEW k \in Nat, NEW y \in Nat, NEW n \in Nat,
         m >= y + n, k >= y + n
  PROVE  Sub(m, y) \in Nat /\ Sub(k, y) \in Nat /\ Enough(Sub(m, y), Sub(k, y), n)
  BY DEF Sub, Enough

(* helper_ip_deeper says the same of a cut frame, if the cut leaves room *)
(* for the longest header.                                               *)
LEMMA DeeperSame ==
  ASSUME NEW h \in Headers, NEW off \in Nat, NEW m \in Nat, NEW k \in Nat,
         Enough(m, k, 20)
  PROVE  Same(helper_ip_deeper(h, off, m), helper_ip_deeper(h, off, k))
  <1> DEFINE hdr == [TCP |-> TCP_HDR_LEN, UDP |-> UDP_HDR_LEN, other |-> 0][h.proto]
  <1>1. hdr \in Nat /\ hdr <= 20
    BY ProtoHeader DEF TCP_HDR_LEN
  <1>2. /\ helper_ip_deeper(h, off, m).ok = TRUE
        /\ helper_ip_deeper(h, off, m).proto = IF m < hdr THEN "INVALID" ELSE h.proto
    BY DEF helper_ip_deeper
  <1>3. /\ helper_ip_deeper(h, off, k).ok = TRUE
        /\ helper_ip_deeper(h, off, k).proto = IF k < hdr THEN "INVALID" ELSE h.proto
    BY DEF helper_ip_deeper
  <1> HIDE DEF hdr
  <1>4. (m < hdr) <=> (k < hdr)
    BY <1>1 DEF Enough
  <1> QED
    BY <1>2, <1>3, <1>4 DEF Same

(* So does helper_ipv6,                                                  *)
LEMMA Ipv6Same ==
  ASSUME NEW h \in Headers, NEW off \in Nat, NEW m \in Nat, NEW k \in Nat,
         Enough(m, k, 60)
  PROVE  Same(helper_ipv6(h, off, m), helper_ipv6(h, off, k))
  <1>1. CASE m = k
    BY <1>1 DEF Same
  <1>2. CASE m >= 60 /\ k >= 60
    <2> DEFINE a == Sub(m, IPV6_HDR_LEN)
               b == Sub(k, IPV6_HDR_LEN)
               o == off + IPV6_HDR_LEN
    <2>1. a \in Nat /\ b \in Nat /\ o \in Nat /\ Enough(a, b, 20)
      BY <1>2, SubEnough DEF IPV6_HDR_LEN
    <2>2. ~(m < IPV6_HDR_LEN) /\ ~(k < IPV6_HDR_LEN)
      BY <1>2 DEF IPV6_HDR_LEN
    <2>3. /\ helper_ipv6(h, off, m) =
               IF h.version # 6 THEN Nothing(o) ELSE helper_ip_deeper(h, o, a)
          /\ helper_ipv6(h, off, k) =
               IF h.version # 6 THEN Nothing(o) ELSE helper_ip_deeper(h, o, b)
      BY <2>2 DEF helper_ipv6
    <2> HIDE DEF a, b, o
    <2>4. Same(helper_ip_deeper(h, o, a), helper_ip_deeper(h, o, b))
      BY <2>1, DeeperSame
    <2> QED
      BY <2>3, <2>4 DEF Same
  <1> QED
    BY <1>1, <1>2 DEF Enough

(* helper_ip                                                             *)
LEMMA IpSame ==
  ASSUME NEW h \in Headers, NEW off \in Nat, NEW m \in Nat, NEW k \in Nat,
         Enough(m, k, 60)
  PROVE  Same(helper_ip(h, off, m), helper_ip(h, off, k))
  <1>1. CASE m = k
    BY <1>1 DEF Same
  <1>2. CASE m >= 60 /\ k >= 60
    <2> DEFINE a == Sub(m, IP_HDR_LEN)
               b == Sub(k, IP_HDR_LEN)
               o == off + IP_HDR_LEN
    <2>1. a \in Nat /\ b \in Nat /\ o \in Nat /\ Enough(a, b, 20)
      BY <1>2, SubEnough DEF IP_HDR_LEN
    <2>2. ~(m < IP_HDR_LEN) /\ ~(k < IP_HDR_LEN)
      BY <1>2 DEF IP_HDR_LEN
    <2>3. CASE h.version = 6
      <3>1. /\ helper_ip(h, off, m) = helper_ipv6(h, off, m)
            /\ helper_ip(h, off, k) = helper_ipv6(h, off, k)
        BY <2>2, <2>3 DEF helper_ip
      <3> QED
        BY <3>1, Ipv6Same
    <2>4. CASE h.version = 4
      <3>1. /\ helper_ip(h, off, m) = helper_ip_deeper(h, o, a)
            /\ helper_ip(h, off, k) = helper_ip_deeper(h, o, b)
        BY <2>2, <2>4 DEF helper_ip
      <3> HIDE DEF a, b, o
      <3> QED
        BY <2>1, <3>1, DeeperSame
    <2>5. CASE h.version # 4 /\ h.version # 6
      <3>1. /\ helper_ip(h, off, m) = Nothing(off + IP_HDR_LEN)
            /\ helper_ip(h, off, k) = Nothing(off + IP_HDR_LEN)
        BY <2>2, <2>5 DEF helper_ip
      <3> QED
        BY <3>1 DEF Same
    <2> QED
      BY <2>3, <2>4, <2>5
  <1> QED
    BY <1>1, <1>2 DEF Enough

(* and helper_pppoe.                                                     *)
LEMMA PppoeSame ==
  ASSUME NEW h \in Headers, NEW off \in Nat, NEW m \in Nat, NEW k \in Nat,
         Enough(m, k, 68)
  PROVE  Same(helper_pppoe(h, off, m), helper_pppoe(h, off, k))
  <1>1. CASE m = k
    BY <1>1 DEF Same
  <1>2. CASE m >= 68 /\ k >= 68
    <2> DEFINE a == Sub(m, PPPOE_HDR_LEN)
               b == Sub(k, PPPOE_HDR_LEN)
               o == off + PPPOE_HDR_LEN
    <2>1. a \in Nat /\ b \in Nat /\ o \in Nat /\ Enough(a, b, 60)
      BY <1>2, SubEnough DEF PPPOE_HDR_LEN
    <2>2. ~(m < PPPOE_HDR_LEN) /\ ~(k < PPPOE_HDR_LEN)
      BY <1>2 DEF PPPOE_HDR_LEN
    <2>3. /\ helper_pppoe(h, off, m) =
               IF h.session # "IP" THEN Nothing(o) ELSE helper_ip(h, o, a)
          /\ helper_pppoe(h, off, k) =
               IF h.session # "IP" THEN Nothing(o) ELSE helper_ip(h, o, b)
      BY <2>2 DEF helper_pppoe
    <2> HIDE DEF a, b, o
    <2>4. Same(helper_ip(h, o, a), helper_ip(h, o, b))
      BY <2>1, IpSame
    <2> QED
      BY <2>3, <2>4 DEF Same
  <1> QED
    BY <1>1, <1>2 DEF Enough

(* What is left of two frames after a link header of hdr bytes.          *)
LEMMA LinkSame ==
  ASSUME NEW h \in Headers, NEW hdr \in Nat, NEW m \in Nat, NEW k \in Nat,
         m >= hdr + 60, k >= hdr + 60
  PROVE  /\ Same(helper_ip(h, hdr, Sub(m, hdr)), helper_ip(h, hdr, Sub(k, hdr)))
         /\ Same(helper_ipv6(h, hdr, Sub(m, hdr)), helper_ipv6(h, hdr, Sub(k, hdr)))
         /\ m >= hdr + 68 /\ k >= hdr + 68 =>
              Same(helper_pppoe(h, hdr, Sub(m, hdr)), helper_pppoe(h, hdr, Sub(k, hdr)))
  <1> DEFINE a == Sub(m, hdr)
             b == Sub(k, hdr)
  <1>1. a \in Nat /\ b \in Nat /\ Enough(a, b, 60)
    BY SubEnough
  <1>2. m >= hdr + 68 /\ k >= hdr + 68 => Enough(a, b, 68)
    BY SubEnough
  <1> HIDE DEF a, b
  <1>3. Same(helper_ip(h, hdr, a), helper_ip(h, hdr, b))
    BY <1>1, IpSame
  <1>4. Same(helper_ipv6(h, hdr, a), helper_ipv6(h, hdr, b))
    BY <1>1, Ipv6Same
  <1>5. Enough(a, b, 68) => Same(helper_pppoe(h, hdr, a), helper_pppoe(h, hdr, b))
    BY <1>1, PppoeSame
  <1> QED
    BY <1>2, <1>3, <1>4, <1>5 DEF a, b

(* Frames that are as long as the headers of the link need.              *)
LEMMA LongFramesAlike ==
  ASSUME NEW lt \in Linktype, NEW h \in Headers, NEW pppoe \in BOOLEAN,
         NEW m \in Nat, NEW k \in Nat, Possible(lt, pppoe),
         m >= linkhdrs[lt] + 60 + (IF pppoe THEN 8 ELSE 0),
         k >= linkhdrs[lt] + 60 + (IF pppoe THEN 8 ELSE 0)
  PROVE  Same(decoder(lt, h, m, pppoe), decoder(lt, h, k, pppoe))
  <1>1. lt \in {"EN10MB", "LOOP", "NULL", "PPP", "PPP_ETHER", "LINUX_SLL", "RAW"}
    BY DEF Linktype, linkhdrs
  <1>2. \A x : Same(x, x)
    BY DEF Same
  <1>3. CASE lt = "EN10MB"
    <2> DEFINE hdr == ETHER_HDR_LEN
    <2>1. /\ hdr \in Nat /\ m >= hdr + 60 /\ k >= hdr + 60
          /\ pppoe => m >= hdr + 68 /\ k >= hdr + 68
      BY <1>3 DEF linkhdrs, ETHER_HDR_LEN
    <2>2. ~(m < hdr) /\ ~(k < hdr)
      BY <2>1
    <2>3. /\ decoder(lt, h, m, pppoe) = decode_ether(h, m, pppoe)
          /\ decoder(lt, h, k, pppoe) = decode_ether(h, k, pppoe)
      BY <1>3 DEF decoder
    <2>4. CASE h.link \in {"IP", "IPv6"} /\ ~pppoe
      <3>1. /\ decode_ether(h, m, pppoe) = helper_ip(h, hdr, Sub(m, hdr))
            /\ decode_ether(h, k, pppoe) = helper_ip(h, hdr, Sub(k, hdr))
        BY <2>2, <2>4 DEF decode_ether
      <3> HIDE DEF hdr
      <3> QED
        BY <2>1, <2>3, <3>1, LinkSame
    <2>5. CASE h.link = "PPPoE" /\ pppoe
      <3>1. /\ decode_ether(h, m, pppoe) = helper_pppoe(h, hdr, Sub(m, hdr))
            /\ decode_ether(h, k, pppoe) = helper_pppoe(h, hdr, Sub(k, hdr))
        BY <2>2, <2>5 DEF decode_ether
      <3> HIDE DEF hdr
      <3> QED
        BY <2>1, <2>3, <2>5, <3>1, LinkSame
    <2>6. CASE ~(h.link \in {"IP", "IPv6"} /\ ~pppoe) /\ ~(h.link = "PPPoE" /\ pppoe)
      <3>1. /\ decode_ether(h, m, pppoe) = Nothing(hdr)
            /\ decode_ether(h, k, pppoe) = Nothing(hdr)
        BY <2>2, <2>6 DEF decode_ether
      <3> QED
        BY <1>2, <2>3, <3>1
    <2> QED
      BY <2>4, <2>5, <2>6
  <1>4. CASE lt \in {"LOOP", "NULL"}
    <2> DEFINE hdr == NULL_HDR_LEN
    <2>1. hdr \in Nat /\ m >= hdr + 60 /\ k >= hdr + 60
      BY <1>4 DEF linkhdrs, NULL_HDR_LEN
    <2>2. ~(m < hdr) /\ ~(k < hdr)
      BY <2>1
    <2>3. /\ decoder(lt, h, m, pppoe) = decode_loop(h, m)
          /\ decoder(lt, h, k, pppoe) = decode_loop(h, k)
      BY <1>4 DEF decoder
    <2>4. CASE h.link = "IP"
      <3>1. /\ decode_loop(h, m) = helper_ip(h, hdr, Sub(m, hdr))
            /\ decode_loop(h, k) = helper_ip(h, hdr, Sub(k, hdr))
        BY <2>2, <2>4 DEF decode_loop
      <3> HIDE DEF hdr
      <3> QED
        BY <2>1, <2>3, <3>1, LinkSame
    <2>5. CASE h.link = "IPv6"
      <3>1. /\ decode_loop(h, m) = helper_ipv6(h, hdr, Sub(m, hdr))
            /\ decode_loop(h, k) = helper_ipv6(h, hdr, Sub(k, hdr))
        BY <2>2, <2>5 DEF decode_loop
      <3> HIDE DEF hdr
      <3> QED
        BY <2>1, <2>3, <3>1, LinkSame
    <2>6. CASE h.link # "IP" /\ h.link # "IPv6"
      <3>1. decode_loop(h, m) = Nothing(hdr) /\ decode_loop(h, k) = Nothing(hdr)
        BY <2>2, <2>6 DEF decode_loop
      <3> QED
        BY <1>2, <2>3, <3>1
    <2> QED
      BY <2>4, <2>5, <2>6
  <1>5. CASE lt = "PPP"
    <2> DEFINE hdr == PPP_HDR_LEN
    <2>1. hdr \in Nat /\ m >= hdr + 60 /\ k >= hdr + 60
      BY <1>5 DEF linkhdrs, PPP_HDR_LEN
    <2>2. ~(m < PPPOE_HDR_LEN) /\ ~(k < PPPOE_HDR_LEN)
      BY <2>1 DEF PPP_HDR_LEN, PPPOE_HDR_LEN
    <2>3. /\ decoder(lt, h, m, pppoe) =
               IF h.link # "IP" THEN Nothing(hdr) ELSE helper_ip(h, hdr, Sub(m, hdr))
          /\ decoder(lt, h, k, pppoe) =
               IF h.link # "IP" THEN Nothing(hdr) ELSE helper_ip(h, hdr, Sub(k, hdr))
      BY <1>5, <2>2 DEF decoder, decode_ppp
    <2> HIDE DEF hdr
    <2> QED
      BY <1>2, <2>1, <2>3, LinkSame
  <1>6. CASE lt = "PPP_ETHER"
    <2>1. /\ decoder(lt, h, m, pppoe) = helper_pppoe(h, 0, m)
          /\ decoder(lt, h, k, pppoe) = helper_pppoe(h, 0, k)
      BY <1>6 DEF decoder
    <2>2. Enough(m, k, 68)
      BY <1>6 DEF linkhdrs, PPPOE_HDR_LEN, Enough
    <2> QED
      BY <2>1, <2>2, PppoeSame
  <1>7. CASE lt = "LINUX_SLL"
    <2> DEFINE hdr == SLL_HDR_LEN
    <2>1. hdr \in Nat /\ m >= hdr + 60 /\ k >= hdr + 60
      BY <1>7 DEF linkhdrs, SLL_HDR_LEN
    <2>2. ~(m < hdr) /\ ~(k < hdr)
      BY <2>1
    <2>3. /\ decoder(lt, h, m, pppoe) =
               IF h.link \notin {"IP", "IPv6"} THEN Nothing(hdr)
               ELSE helper_ip(h, hdr, Sub(m, hdr))
          /\ decoder(lt, h, k, pppoe) =
               IF h.link \notin {"IP", "IPv6"} THEN Nothing(hdr)
               ELSE helper_ip(h, hdr, Sub(k, hdr))
      BY <1>7, <2>2 DEF decoder, decode_linux_sll
    <2> HIDE DEF hdr
    <2> QED
      BY <1>2, <2>1, <2>3, LinkSame
  <1>8. CASE lt = "RAW"
    <2>1. /\ decoder(lt, h, m, pppoe) = helper_ip(h, 0, m)
          /\ decoder(lt, h, k, pppoe) = helper_ip(h, 0, k)
      BY <1>8 DEF decoder
    <2>2. Enough(m, k, 60)
      BY <1>8 DEF linkhdrs, RAW_HDR_LEN, Enough
    <2> QED
      BY <2>1, <2>2, IpSame
  <1> QED
    BY <1>1, <1>3, <1>4, <1>5, <1>6, <1>7, <1>8

(* The snaplen leaves that much of a longer frame.                       *)
LEMMA SnaplenLeavesHeaders ==
  ASSUME NEW lt \in Linktype, NEW pppoe \in BOOLEAN, NEW linux \in BOOLEAN
  PROVE  /\ snaplen(lt, pppoe, linux, -1) \in Nat
         /\ snaplen(lt, pppoe, linux, -1) >=
              linkhdrs[lt] + 60 + (IF pppoe THEN 8 ELSE 0)
  <1>1. linkhdrs[lt] \in Nat
    BY DEF Linktype, linkhdrs, ETHER_HDR_LEN, NULL_HDR_LEN, PPP_HDR_LEN,
           PPPOE_HDR_LEN, SLL_HDR_LEN, RAW_HDR_LEN
  <1> QED
    BY <1>1 DEF snaplen, getsnaplen, IPV6_HDR_LEN, TCP_HDR_LEN, PPPOE_HDR_LEN

(* No decoder needs more of a frame than the default snaplen leaves.     *)
LEMMA DecodersNeedNoMore == CutIsEnough
  <1> SUFFICES ASSUME NEW lt \in Linktype, NEW h \in Headers, NEW len \in Length,
                      NEW pppoe \in BOOLEAN, NEW linux \in BOOLEAN,
                      Possible(lt, pppoe)
               PROVE  LET cut == snaplen(lt, pppoe, linux, -1)
                      IN  Same(decoder(lt, h, IF len < cut THEN len ELSE cut, pppoe),
                               decoder(lt, h, len, pppoe))
    BY DEF CutIsEnough, Same
  <1> DEFINE cut == snaplen(lt, pppoe, linux, -1)
             need == linkhdrs[lt] + 60 + (IF pppoe THEN 8 ELSE 0)
  <1>1. len \in Nat
    BY DecodeAssumption
  <1>2. cut \in Nat /\ cut >= need /\ need \in Int
    BY SnaplenLeavesHeaders DEF Linktype, linkhdrs, ETHER_HDR_LEN, NULL_HDR_LEN,
       PPP_HDR_LEN, PPPOE_HDR_LEN, SLL_HDR_LEN, RAW_HDR_LEN
  <1>3. CASE len < cut
    BY <1>3 DEF Same
  <1>4. CASE ~(len < cut)
    <2>1. len >= need
      BY <1>1, <1>2, <1>4
    <2> QED
      BY <1>1, <1>2, <1>4, <2>1, LongFramesAlike
  <1> QED
    BY <1>3, <1>4

(* Any frame is decoded as if it had been captured as a whole, for any   *)
(* interfaces, packets and lengths (getsnaplen, cap_start_one).          *)
THEOREM DecodeSnaplenIsEnough == Spec => []SnaplenIsEnough
  <1>1. SnaplenIsEnough
    BY DecodersNeedNoMore DEF SnaplenIsEnough
  <1> QED
    BY <1>1, PTL

----------------------------------------------------------------------------
(* Capture: types.                                                       *)
Line == [day : Nat, in : SUBSET Packet, out : SUBSET Packet]
LocalIps == [addrs : Seq(Addr), num_addrs : Nat, is_valid : BOOLEAN]

NetType   == /\ cur \in Ifs
             /\ ifaddrs \in [Ifs -> AddrLists]
             /\ buffer \in [Ifs -> Seq(Packet)]
             /\ arrived \subseteq Packet /\ owed \subseteq Packet
LocalType == /\ local_ips \in [Ifs -> LocalIps]
             /\ updated \in [Ifs -> Nat]
             /\ now_mono \in Nat \ {0}
             /\ recent \in [Ifs -> SUBSET Seq(Addr)]
LogType   == /\ now_real \in Nat /\ today_real \in Nat /\ tomorrow_real \in Nat
             /\ in_today \subseteq Packet /\ out_today \subseteq Packet
             /\ unwritten \subseteq Packet
             /\ log \in Seq(Line)
             /\ counted \subseteq [packet : Packet, in : BOOLEAN, day : Nat]
             /\ set_back \in BOOLEAN

(* The packets of a buffer.                                              *)
In(s) == {s[k] : k \in 1..Len(s)}

(* Before the first turn nothing has been owed; interfaces before cur    *)
(* have nothing left that was; what arrives is new.                      *)
DispatchInv ==
  /\ owed \subseteq arrived
  /\ \A i \in Ifs : In(buffer[i]) \subseteq arrived
  /\ pc \in {"open", "reopen", "daylog_init"} => owed = {}
  /\ pc \in {"poll", "dispatch"} =>
       \A j \in Ifs : j < cur => In(buffer[j]) \cap owed = {}
  /\ pc = "select" => \A j \in Ifs : In(buffer[j]) \cap owed = {}

(* What is believed of an interface since it was first looked at.        *)
LocalInv ==
  /\ pc = "dispatch" => updated[cur] = now_mono
  /\ pc # "stopped" =>
       \A i \in Ifs : updated[i] # 0 =>
         Addresses(local_ips[i]) \in recent[i] \/ <<>> \in recent[i]

(* pcap_dispatch takes one packet from the front of a buffer and adds    *)
(* none.                                                                 *)
LEMMA TailIn ==
  ASSUME NEW S, NEW s \in Seq(S), s # <<>>
  PROVE  Tail(s) \in Seq(S) /\ In(Tail(s)) \subseteq In(s) /\ Head(s) \in In(s)
BY HeadTailProperties, EmptySeq DEF In

(* A packet that arrives is added to what is in a buffer.                *)
LEMMA AppendIn ==
  ASSUME NEW S, NEW s \in Seq(S), NEW p \in S
  PROVE  Append(s, p) \in Seq(S) /\ In(Append(s, p)) = In(s) \cup {p}
BY AppendProperties DEF In

(* There is nothing in an empty buffer.                                  *)
LEMMA EmptyIn == In(<<>>) = {}
BY EmptySeq DEF In

(* Types of the interfaces and their buffers, step by step.              *)
LEMMA NetStep == ASSUME NetType, [Next]_vars PROVE NetType'
<1> USE DEF NetType, net, local, clocks, daylog, history, NextIf
<1>1. ASSUME NEW i \in Ifs, NEW p \in Packet, arrive(i, p) PROVE NetType'
  <2>1. Append(buffer[i], p) \in Seq(Packet)
    BY AppendProperties
  <2> QED BY <1>1, <2>1 DEF arrive
<1>2. ASSUME NEW i \in Ifs, NEW list \in AddrLists, change_addrs(i, list) PROVE NetType'
  BY <1>2 DEF change_addrs
<1>3. ASSUME NEW i \in Ifs, go_up_or_down(i) PROVE NetType'
  BY <1>3 DEF go_up_or_down
<1>4. CASE pcap_open_live
  BY <1>4 DEF pcap_open_live
<1>5. CASE not_up
  BY <1>5 DEF not_up
<1>6. CASE cap_start_one
  <2>1. cur' \in Ifs
    BY <1>6, CaptureAssumption DEF cap_start_one, Ifs
  <2> QED BY <1>6, <2>1 DEF cap_start_one
<1>7. CASE daylog_init
  BY <1>7 DEF daylog_init
<1>8. CASE now_update
  <2>1. cur' \in Ifs
    BY <1>8, CaptureAssumption DEF now_update, Ifs
  <2>2. owed' \subseteq Packet
    <3>1. \A i \in Ifs : \A k \in 1..Len(buffer[i]) : buffer[i][k] \in Packet
      BY ElementOfSeq
    <3> QED BY <1>8, <3>1 DEF now_update
  <2> QED BY <1>8, <2>1, <2>2 DEF now_update
<1>9. CASE localip_update
  BY <1>9 DEF localip_update
<1>10. CASE pcap_dispatch
  <2>1. Tail(buffer[cur]) \in Seq(Packet)
    BY <1>10, TailIn DEF pcap_dispatch
  <2> QED BY <1>10, <2>1 DEF pcap_dispatch
<1>11. CASE dispatched_all
  <2>1. cur' \in Ifs
    BY <1>11, CaptureAssumption DEF dispatched_all, Ifs
  <2> QED BY <1>11, <2>1 DEF dispatched_all
<1>12. CASE dispatch_error
  BY <1>12 DEF dispatch_error
<1>13. CASE sig_shutdown
  BY <1>13 DEF sig_shutdown
<1>14. CASE cap_stop
  BY <1>14, EmptySeq DEF cap_stop
<1>15. CASE Terminated \/ UNCHANGED vars
  BY <1>15 DEF Terminated, vars
<1> QED BY <1>1, <1>2, <1>3, <1>4, <1>5, <1>6, <1>7, <1>8, <1>9, <1>10, <1>11, <1>12,
           <1>13, <1>14, <1>15 DEF Next

(* What was owed when a turn began is gone from the buffers that were    *)
(* dispatched, whatever arrives meanwhile.                               *)
LEMMA DispatchStep == ASSUME NetType, DispatchInv, [Next]_vars PROVE DispatchInv'
<1> USE DEF NetType, DispatchInv, net, local, clocks, daylog, history, NextIf
<1>1. ASSUME NEW i \in Ifs, NEW p \in Packet, arrive(i, p) PROVE DispatchInv'
  <2>1. /\ buffer' = [buffer EXCEPT ![i] = Append(@, p)] /\ p \notin arrived
        /\ arrived' = arrived \cup {p} /\ pc' = pc /\ cur' = cur /\ owed' = owed
    BY <1>1 DEF arrive
  <2>2. \A j \in Ifs : In(buffer'[j]) \subseteq In(buffer[j]) \cup {p}
    BY <2>1, AppendIn
  <2> QED BY <2>1, <2>2
<1>2. ASSUME NEW i \in Ifs, NEW list \in AddrLists, change_addrs(i, list) PROVE DispatchInv'
  BY <1>2 DEF change_addrs
<1>3. ASSUME NEW i \in Ifs, go_up_or_down(i) PROVE DispatchInv'
  BY <1>3 DEF go_up_or_down
<1>4. CASE pcap_open_live
  BY <1>4 DEF pcap_open_live
<1>5. CASE not_up
  BY <1>5 DEF not_up
<1>6. CASE cap_start_one
  BY <1>6 DEF cap_start_one
<1>7. CASE daylog_init
  BY <1>7 DEF daylog_init
<1>8. CASE now_update
  <2>1. owed' \subseteq arrived
    BY <1>8 DEF now_update, In
  <2>2. pc' = "poll" /\ \A j \in Ifs : ~(j < cur')
    BY <1>8, CaptureAssumption DEF now_update, Ifs
  <2> QED BY <1>8, <2>1, <2>2 DEF now_update
<1>9. CASE localip_update
  BY <1>9 DEF localip_update
<1>10. CASE pcap_dispatch
  <2>1. /\ buffer' = [buffer EXCEPT ![cur] = Tail(@)] /\ buffer[cur] # <<>> /\ pc = "dispatch"
        /\ arrived' = arrived /\ pc' = pc /\ cur' = cur /\ owed' = owed
    BY <1>10 DEF pcap_dispatch
  <2>2. \A j \in Ifs : In(buffer'[j]) \subseteq In(buffer[j])
    BY <2>1, TailIn
  <2> QED BY <2>1, <2>2
<1>11. CASE dispatched_all
  <2>1. In(buffer[cur]) \cap owed = {}
    BY <1>11, EmptyIn DEF dispatched_all
  <2>2. pc = "dispatch" /\ UNCHANGED <<buffer, owed, arrived>>
    BY <1>11 DEF dispatched_all
  <2>3. CASE cur = NumIfs /\ pc' = "select" /\ cur' = 1
    BY <2>1, <2>2, <2>3, CaptureAssumption DEF Ifs
  <2>4. CASE cur # NumIfs /\ pc' = "poll" /\ cur' = cur + 1
    <3>1. \A j \in Ifs : j < cur' => j < cur \/ j = cur
      BY <2>4, CaptureAssumption DEF Ifs
    <3>2. pc' = "poll" /\ buffer' = buffer /\ owed' = owed
      BY <2>2, <2>4
    <3> QED BY <2>1, <2>2, <3>1, <3>2
  <2> QED BY <1>11, <2>3, <2>4 DEF dispatched_all
<1>12. CASE dispatch_error
  BY <1>12 DEF dispatch_error
<1>13. CASE sig_shutdown
  BY <1>13 DEF sig_shutdown
<1>14. CASE cap_stop
  BY <1>14, EmptyIn DEF cap_stop
<1>15. CASE Terminated \/ UNCHANGED vars
  BY <1>15 DEF Terminated, vars
<1> QED BY <1>1, <1>2, <1>3, <1>4, <1>5, <1>6, <1>7, <1>8, <1>9, <1>10, <1>11, <1>12,
           <1>13, <1>14, <1>15 DEF Next

(* A refreshed list is the one that getifaddrs returned, if that has     *)
(* any.                                                                  *)
LEMMA RefreshedIsList ==
  ASSUME NEW ips \in LocalIps, NEW list \in Seq(Addr)
  PROVE  /\ Refreshed(ips, list) \in LocalIps
         /\ list # <<>> => Addresses(Refreshed(ips, list)) = list
<1> DEFINE n == Len(list)
           old == IF Len(ips.addrs) > n THEN SubSeq(ips.addrs, n + 1, Len(ips.addrs))
                  ELSE <<>>
<1>1. ips.addrs \in Seq(Addr) /\ ips.num_addrs \in Nat /\ n \in Nat
  BY LenProperties DEF LocalIps
<1>2. Len(ips.addrs) \in Nat /\ \A i \in 1..Len(ips.addrs) : ips.addrs[i] \in Addr
  BY <1>1, LenProperties, ElementOfSeq
<1>3. old \in Seq(Addr)
  <2>1. CASE Len(ips.addrs) > n
    <3>1. n + 1 \in Int /\ Len(ips.addrs) \in Int
      BY <1>1, <1>2
    <3>2. \A i \in n + 1 .. Len(ips.addrs) : ips.addrs[i] \in Addr
      BY <1>1, <1>2
    <3>3. SubSeq(ips.addrs, n + 1, Len(ips.addrs)) \in Seq(Addr)
      BY <3>1, <3>2, SubSeqProperties
    <3> QED BY <2>1, <3>3
  <2> QED BY <2>1, EmptySeq
<1> HIDE DEF old
<1>4. /\ list \o old \in Seq(Addr)
      /\ Len(list \o old) = n + Len(old) /\ Len(old) \in Nat
      /\ \A i \in 1 .. n : (list \o old)[i] = list[i]
  BY <1>1, <1>3, ConcatProperties, LenProperties
<1>5. CASE n = 0
  <2>1. list = <<>>
    BY <1>5, EmptySeq
  <2>2. Refreshed(ips, list) = [ips EXCEPT !.is_valid = FALSE]
    BY <1>5 DEF Refreshed
  <2> QED BY <2>1, <2>2 DEF LocalIps
<1>6. CASE n # 0
  <2>1. Refreshed(ips, list) = [addrs |-> list \o old, num_addrs |-> n, is_valid |-> TRUE]
    BY <1>6 DEF Refreshed, old
  <2>2. Refreshed(ips, list) \in LocalIps
    BY <1>1, <1>4, <2>1 DEF LocalIps
  <2>3. SubSeq(list \o old, 1, n) = list
    <3>1. 1 \in Int /\ n \in Int /\ \A i \in 1..n : (list \o old)[i] \in Addr
      BY <1>1, <1>4, ElementOfSeq
    <3>2. /\ SubSeq(list \o old, 1, n) \in Seq(Addr)
          /\ Len(SubSeq(list \o old, 1, n)) = n
          /\ \A i \in 1..n : SubSeq(list \o old, 1, n)[i] = (list \o old)[i]
      <4> DEFINE s == SubSeq(list \o old, 1, n)
      <4>1. /\ s \in Seq(Addr)
            /\ Len(s) = IF 1 <= n THEN n - 1 + 1 ELSE 0
            /\ \A i \in 1 .. n - 1 + 1 : s[i] = (list \o old)[1 + i - 1]
        BY <3>1, SubSeqProperties
      <4>2. n - 1 + 1 = n /\ 1 <= n /\ \A i \in 1..n : 1 + i - 1 = i
        BY <1>1, <1>6
      <4> HIDE DEF s
      <4>3. s \in Seq(Addr) /\ Len(s) = n /\ \A i \in 1..n : s[i] = (list \o old)[i]
        BY <4>1, <4>2
      <4> QED BY <4>3 DEF s
    <3> QED BY <1>4, <3>2, SeqEqual
  <2> QED BY <2>1, <2>2, <2>3 DEF Addresses
<1> QED BY <1>5, <1>6

(* Types of the local addresses, step by step.                           *)
LEMMA LocalTypeStep == ASSUME NetType, LocalType, [Next]_vars PROVE LocalType'
<1> USE DEF LocalType, net, local, clocks, daylog, history, NextIf
<1>l. \A i \in Ifs : ifaddrs[i] \in Seq(Addr)
  BY CaptureAssumption DEF NetType
<1>1. ASSUME NEW i \in Ifs, NEW p \in Packet, arrive(i, p) PROVE LocalType'
  BY <1>1 DEF arrive
<1>2. ASSUME NEW i \in Ifs, NEW list \in AddrLists, change_addrs(i, list) PROVE LocalType'
  BY <1>2, CaptureAssumption DEF change_addrs
<1>3. ASSUME NEW i \in Ifs, go_up_or_down(i) PROVE LocalType'
  BY <1>3 DEF go_up_or_down
<1>4. CASE pcap_open_live
  BY <1>4 DEF pcap_open_live
<1>5. CASE not_up
  BY <1>5 DEF not_up
<1>6. CASE cap_start_one
  BY <1>6 DEF cap_start_one
<1>7. CASE daylog_init
  BY <1>7 DEF daylog_init
<1>8. CASE now_update
  BY <1>8 DEF now_update
<1>9. CASE localip_update
  <2>1. cur \in Ifs /\ Refreshed(local_ips[cur], ifaddrs[cur]) \in LocalIps
    BY <1>l, RefreshedIsList DEF NetType
  <2>2. {ifaddrs[cur]} \in SUBSET Seq(Addr)
    BY <1>l, <2>1
  <2>3. CASE updated[cur] = now_mono
    BY <1>9, <2>3 DEF localip_update
  <2>4. CASE updated[cur] # now_mono
    BY <1>9, <2>1, <2>2, <2>4 DEF localip_update
  <2> QED BY <2>3, <2>4
<1>10. CASE pcap_dispatch
  BY <1>10 DEF pcap_dispatch
<1>11. CASE dispatched_all
  BY <1>11 DEF dispatched_all
<1>12. CASE dispatch_error
  BY <1>12 DEF dispatch_error
<1>13. CASE sig_shutdown
  BY <1>13 DEF sig_shutdown
<1>14. CASE cap_stop
  <2>1. NoIps \in LocalIps
    BY EmptySeq DEF NoIps, LocalIps
  <2> QED BY <1>14, <2>1 DEF cap_stop
<1>15. CASE Terminated \/ UNCHANGED vars
  BY <1>15 DEF Terminated, vars
<1> QED BY <1>1, <1>2, <1>3, <1>4, <1>5, <1>6, <1>7, <1>8, <1>9, <1>10, <1>11, <1>12,
           <1>13, <1>14, <1>15 DEF Next

(* An interface is looked at before its packets are, in each second.     *)
LEMMA LocalStep == ASSUME NetType, LocalType, LocalInv, [Next]_vars PROVE LocalInv'
<1> USE DEF LocalType, LocalInv, net, local, clocks, daylog, history, NextIf, Addresses
<1>1. ASSUME NEW i \in Ifs, NEW p \in Packet, arrive(i, p) PROVE LocalInv'
  BY <1>1 DEF arrive
<1>2. ASSUME NEW i \in Ifs, NEW list \in AddrLists, change_addrs(i, list) PROVE LocalInv'
  <2>1. \A j \in Ifs : recent[j] \subseteq recent'[j]
    BY <1>2 DEF change_addrs
  <2> QED BY <1>2, <2>1 DEF change_addrs
<1>3. ASSUME NEW i \in Ifs, go_up_or_down(i) PROVE LocalInv'
  BY <1>3 DEF go_up_or_down
<1>4. CASE pcap_open_live
  BY <1>4 DEF pcap_open_live
<1>5. CASE not_up
  BY <1>5 DEF not_up
<1>6. CASE cap_start_one
  BY <1>6 DEF cap_start_one
<1>7. CASE daylog_init
  BY <1>7 DEF daylog_init
<1>8. CASE now_update
  BY <1>8 DEF now_update
<1>9. CASE localip_update
  <2>0. /\ cur \in Ifs /\ ifaddrs[cur] \in Seq(Addr) /\ local_ips[cur] \in LocalIps
        /\ pc = "poll" /\ pc' = "dispatch" /\ cur' = cur /\ now_mono' = now_mono
    BY <1>9, CaptureAssumption DEF NetType, localip_update
  <2>1. CASE updated[cur] = now_mono
    BY <1>9, <2>0, <2>1 DEF localip_update
  <2>2. CASE updated[cur] # now_mono
    <3> DEFINE ips == Refreshed(local_ips[cur], ifaddrs[cur])
    <3>1. /\ updated' = [updated EXCEPT ![cur] = now_mono]
          /\ local_ips' = [local_ips EXCEPT ![cur] = ips]
          /\ recent' = [recent EXCEPT ![cur] = {ifaddrs[cur]}]
      BY <1>9, <2>2 DEF localip_update
    <3>2. SubSeq(ips.addrs, 1, ips.num_addrs) = ifaddrs[cur] \/ ifaddrs[cur] = <<>>
      BY <2>0, RefreshedIsList
    <3> HIDE DEF ips
    <3>3. \A i \in Ifs : updated'[i] # 0 =>
            \/ SubSeq(local_ips'[i].addrs, 1, local_ips'[i].num_addrs) \in recent'[i]
            \/ <<>> \in recent'[i]
      BY <2>0, <3>1, <3>2
    <3> QED BY <2>0, <3>1, <3>3
  <2> QED BY <2>1, <2>2
<1>10. CASE pcap_dispatch
  BY <1>10 DEF pcap_dispatch
<1>11. CASE dispatched_all
  BY <1>11 DEF dispatched_all
<1>12. CASE dispatch_error
  BY <1>12 DEF dispatch_error
<1>13. CASE sig_shutdown
  BY <1>13 DEF sig_shutdown
<1>14. CASE cap_stop
  BY <1>14 DEF cap_stop
<1>15. CASE Terminated \/ UNCHANGED vars
  BY <1>15 DEF Terminated, vars
<1> QED BY <1>1, <1>2, <1>3, <1>4, <1>5, <1>6, <1>7, <1>8, <1>9, <1>10, <1>11, <1>12,
           <1>13, <1>14, <1>15 DEF Next

----------------------------------------------------------------------------
(* A time before the next day begins is on the same day.                 *)
LEMMA SameDay ==
  ASSUME NEW t \in Nat, NEW u \in Nat, t <= u, u < tomorrow(t)
  PROVE  Day(u) = Day(t)
BY CaptureAssumption DEF Day, tomorrow

(* Days are numbers and each one ends.                                   *)
LEMMA DayType ==
  ASSUME NEW t \in Nat
  PROVE  Day(t) \in Nat /\ tomorrow(t) \in Nat /\ t < tomorrow(t)
BY CaptureAssumption DEF Day, tomorrow

(* The packets in the counters of today, and those that were counted.    *)
InMemory == IF pc = "stopped" THEN {} ELSE in_today \cup out_today
Counted  == {c.packet : c \in counted}

(* A packet is in one buffer, once, until it is counted.                 *)
OnceInv ==
  /\ \A i \in Ifs : In(buffer[i]) \subseteq arrived
  /\ Counted \subseteq arrived
  /\ \A i \in Ifs : In(buffer[i]) \cap Counted = {}
  /\ \A i, j \in Ifs : i # j => In(buffer[i]) \cap In(buffer[j]) = {}
  /\ \A i \in Ifs : \A k, l \in 1..Len(buffer[i]) :
       buffer[i][k] = buffer[i][l] => k = l

(* A packet that was counted is in one place, as what it was.            *)
PlaceInv ==
  /\ pc \in {"open", "reopen", "failed", "daylog_init"} =>
       in_today = {} /\ out_today = {} /\ counted = {}
  /\ \A j, k \in 1..Len(log) : \A p \in Packets(log[j]) :
       p \in Packets(log[k]) => j = k
  /\ \A j \in 1..Len(log) : \A p \in Packets(log[j]) :
       p \notin InMemory /\ p \notin unwritten
  /\ \A p \in InMemory : p \notin unwritten
  /\ \A p \in Packet : p \in Counted <=>
       (\E j \in 1..Len(log) : p \in Packets(log[j])) \/ p \in InMemory \/ p \in unwritten
  /\ \A c \in counted : c.packet \in InMemory =>
       c.packet \in (IF c.in THEN in_today ELSE out_today)
  /\ \A c \in counted : \A j \in 1..Len(log) : c.packet \in Packets(log[j]) =>
       c.packet \in (IF c.in THEN log[j].in ELSE log[j].out)

(* The day of the counters is that of the packets in them.               *)
DayInv ==
  /\ pc \in {"select", "poll", "dispatch", "stop"} =>
       /\ tomorrow_real = tomorrow(today_real)
       /\ ~set_back => today_real <= now_real
  /\ ~set_back => \A c \in counted : c.packet \in InMemory => c.day = Day(today_real)
  /\ ~set_back => \A c \in counted : \A j \in 1..Len(log) :
       c.packet \in Packets(log[j]) /\ ~(pc = "stopped" /\ j = Len(log)) =>
         log[j].day = c.day

(* A packet taken from a buffer in which it was once is no longer there. *)
LEMMA TailOnce ==
  ASSUME NEW S, NEW s \in Seq(S), s # <<>>,
         \A k, l \in 1..Len(s) : s[k] = s[l] => k = l
  PROVE  /\ Head(s) \notin In(Tail(s))
         /\ \A k, l \in 1..Len(Tail(s)) : Tail(s)[k] = Tail(s)[l] => k = l
<1>1. /\ Len(s) \in Nat \ {0} /\ Len(Tail(s)) = Len(s) - 1 /\ Head(s) = s[1]
      /\ \A i \in 1..Len(Tail(s)) : Tail(s)[i] = s[i + 1]
  BY HeadTailProperties, EmptySeq
<1>2. \A i \in 1..Len(Tail(s)) : i + 1 \in 1..Len(s) /\ i + 1 # 1
  BY <1>1
<1>3. Head(s) \notin In(Tail(s))
  BY <1>1, <1>2 DEF In
<1>4. \A k, l \in 1..Len(Tail(s)) : Tail(s)[k] = Tail(s)[l] => k + 1 = l + 1
  BY <1>1, <1>2
<1>5. \A k, l \in 1..Len(Tail(s)) : k + 1 = l + 1 => k = l
  BY <1>1
<1> QED BY <1>3, <1>4, <1>5

(* A new packet at the end of a buffer is there once.                    *)
LEMMA AppendOnce ==
  ASSUME NEW S, NEW s \in Seq(S), NEW p \in S, p \notin In(s),
         \A k, l \in 1..Len(s) : s[k] = s[l] => k = l
  PROVE  \A k, l \in 1..Len(Append(s, p)) : Append(s, p)[k] = Append(s, p)[l] => k = l
BY AppendProperties, LenProperties DEF In

(* What a dispatch does to the counters and the log.                     *)
Count(p, dir_in) ==
  /\ daylog_acct(IF dir_in THEN {p} ELSE {}, IF dir_in THEN {} ELSE {p})
  /\ counted' = counted \cup {[packet |-> p, in |-> dir_in, day |-> Day(now_real)]}

(* One more packet was counted.                                          *)
LEMMA CountedOneMore ==
  ASSUME NEW c, counted' = counted \cup {c}
  PROVE  Counted' = Counted \cup {c.packet}
BY DEF Counted

(* A packet is counted as going one way, or not at all (callback).       *)
LEMMA CallbackCounts ==
  ASSUME NEW p, callback(p)
  PROVE  \/ \E dir_in \in BOOLEAN : Count(p, dir_in)
         \/ UNCHANGED <<daylog, counted, unwritten>>
<1> DEFINE dir_out == is_localip(p.src, local_ips[cur])
           dir_in  == is_localip(p.dst, local_ips[cur])
<1>1. dir_in \in BOOLEAN /\ dir_out \in BOOLEAN
  BY DEF is_localip
<1>2. \/ /\ dir_in # dir_out
         /\ daylog_acct(IF dir_in THEN {p} ELSE {}, IF dir_out THEN {p} ELSE {})
         /\ counted' = counted \cup {[packet |-> p, in |-> dir_in, day |-> Day(now_real)]}
      \/ UNCHANGED <<daylog, counted, unwritten>>
  BY DEF callback
<1> HIDE DEF dir_in, dir_out
<1>3. CASE UNCHANGED <<daylog, counted, unwritten>>
  BY <1>3
<1>4. CASE ~UNCHANGED <<daylog, counted, unwritten>>
  <2>1. (IF dir_out THEN {p} ELSE {}) = IF dir_in THEN {} ELSE {p}
    BY <1>1, <1>2, <1>4
  <2> QED BY <1>1, <1>2, <1>4, <2>1 DEF Count
<1> QED BY <1>3, <1>4

(* A line is written, or what would be in it is lost.                    *)
LEMMA EmitTypes ==
  ASSUME LogType, NEW t \in Nat, daylog_emit(t)
  PROVE  log' \in Seq(Line) /\ unwritten' \subseteq Packet
<1> DEFINE line == [day |-> Day(t), in |-> in_today, out |-> out_today]
<1>1. line \in Line
  BY DayType DEF LogType, Line
<1>2. log \in Seq(Line) => Append(log, line) \in Seq(Line)
  BY <1>1, AppendProperties
<1> QED BY <1>2 DEF daylog_emit, LogType

(* Types of the counters and the log, step by step.                      *)
LEMMA LogTypeStep == ASSUME NetType, LogType, [Next]_vars PROVE LogType'
<1> USE DEF LogType, net, local, clocks, daylog, history, NextIf
<1>1. ASSUME NEW i \in Ifs, NEW p \in Packet, arrive(i, p) PROVE LogType'
  BY <1>1 DEF arrive
<1>2. ASSUME NEW i \in Ifs, NEW list \in AddrLists, change_addrs(i, list) PROVE LogType'
  BY <1>2 DEF change_addrs
<1>3. ASSUME NEW i \in Ifs, go_up_or_down(i) PROVE LogType'
  BY <1>3 DEF go_up_or_down
<1>4. CASE pcap_open_live
  BY <1>4 DEF pcap_open_live
<1>5. CASE not_up
  BY <1>5 DEF not_up
<1>6. CASE cap_start_one
  BY <1>6 DEF cap_start_one
<1>7. CASE daylog_init
  BY <1>7, DayType DEF daylog_init
<1>8. CASE now_update
  <2>1. now_real' \in Nat /\ set_back' \in BOOLEAN
    <3>1. PICK t \in 1..MaxReal : now_real' = t /\ set_back' = (set_back \/ t < now_real)
      BY <1>8 DEF now_update
    <3>2. set_back' \in BOOLEAN
      BY <3>1, Zenon
    <3>3. now_real' \in Nat
      BY <3>1, CaptureAssumption
    <3> QED BY <3>2, <3>3
  <2> QED BY <1>8, <2>1 DEF now_update
<1>9. CASE localip_update
  BY <1>9 DEF localip_update
<1>10. CASE pcap_dispatch
  <2>1. Head(buffer[cur]) \in Packet
    BY <1>10, HeadTailProperties DEF pcap_dispatch, NetType
  <2> DEFINE p == Head(buffer[cur])
  <2>2. callback(p) /\ UNCHANGED <<now_real, set_back>>
    BY <1>10 DEF pcap_dispatch
  <2> HIDE DEF p
  <2>3. CASE UNCHANGED <<daylog, counted, unwritten>>
    BY <2>2, <2>3
  <2>4. ASSUME NEW dir_in \in BOOLEAN, Count(p, dir_in) PROVE LogType'
    <3>1. [packet |-> p, in |-> dir_in, day |-> Day(now_real)] \in
            [packet : Packet, in : BOOLEAN, day : Nat]
      BY <2>1, DayType DEF p
    <3>2. counted' \subseteq [packet : Packet, in : BOOLEAN, day : Nat]
      BY <2>4, <3>1 DEF Count
    <3>3. /\ (IF dir_in THEN {p} ELSE {}) \subseteq Packet
          /\ (IF dir_in THEN {} ELSE {p}) \subseteq Packet
      BY <2>1 DEF p
    <3>4. CASE now_real >= tomorrow_real
      <4>1. log' \in Seq(Line) /\ unwritten' \subseteq Packet
        BY <2>4, <3>4, EmitTypes DEF Count, daylog_acct
      <4> QED BY <2>2, <2>4, <3>2, <3>3, <3>4, <4>1, DayType DEF Count, daylog_acct
    <3>5. CASE ~(now_real >= tomorrow_real)
      BY <2>2, <2>4, <3>2, <3>3, <3>5 DEF Count, daylog_acct
    <3> QED BY <3>4, <3>5
  <2> QED BY <2>2, <2>3, <2>4, CallbackCounts
<1>11. CASE dispatched_all
  BY <1>11 DEF dispatched_all
<1>12. CASE dispatch_error
  BY <1>12 DEF dispatch_error
<1>13. CASE sig_shutdown
  BY <1>13 DEF sig_shutdown
<1>14. CASE cap_stop
  <2>1. log' \in Seq(Line) /\ unwritten' \subseteq Packet
    BY <1>14, EmitTypes DEF cap_stop, daylog_free
  <2> QED BY <1>14, <2>1 DEF cap_stop, daylog_free
<1>15. CASE Terminated \/ UNCHANGED vars
  BY <1>15 DEF Terminated, vars
<1> QED BY <1>1, <1>2, <1>3, <1>4, <1>5, <1>6, <1>7, <1>8, <1>9, <1>10, <1>11, <1>12,
           <1>13, <1>14, <1>15 DEF Next

(* A packet leaves its buffer when it is counted, and is not counted     *)
(* again.                                                                *)
LEMMA OnceStep == ASSUME NetType, OnceInv, [Next]_vars PROVE OnceInv'
<1> USE DEF NetType, OnceInv, Counted, net, local, clocks, daylog, history, NextIf
<1>1. ASSUME NEW i \in Ifs, NEW p \in Packet, arrive(i, p) PROVE OnceInv'
  <2>1. /\ buffer' = [buffer EXCEPT ![i] = Append(@, p)] /\ p \notin arrived
        /\ arrived' = arrived \cup {p} /\ counted' = counted
    BY <1>1 DEF arrive
  <2>2. In(buffer'[i]) = In(buffer[i]) \cup {p}
    BY <2>1, AppendIn
  <2>3. \A j \in Ifs : j # i => buffer'[j] = buffer[j]
    BY <2>1
  <2>4. \A k, l \in 1..Len(buffer'[i]) : buffer'[i][k] = buffer'[i][l] => k = l
    <3>1. p \notin In(buffer[i]) /\ buffer[i] \in Seq(Packet)
      BY <2>1
    <3>2. buffer'[i] = Append(buffer[i], p)
      BY <2>1
    <3>3. \A k, l \in 1..Len(buffer[i]) : buffer[i][k] = buffer[i][l] => k = l
      OBVIOUS
    <3> QED BY <3>1, <3>2, <3>3, AppendOnce
  <2> QED BY <2>1, <2>2, <2>3, <2>4
<1>2. ASSUME NEW i \in Ifs, NEW list \in AddrLists, change_addrs(i, list) PROVE OnceInv'
  BY <1>2 DEF change_addrs
<1>3. ASSUME NEW i \in Ifs, go_up_or_down(i) PROVE OnceInv'
  BY <1>3 DEF go_up_or_down
<1>4. CASE pcap_open_live
  BY <1>4 DEF pcap_open_live
<1>5. CASE not_up
  BY <1>5 DEF not_up
<1>6. CASE cap_start_one
  BY <1>6 DEF cap_start_one
<1>7. CASE daylog_init
  BY <1>7 DEF daylog_init
<1>8. CASE now_update
  BY <1>8 DEF now_update
<1>9. CASE localip_update
  BY <1>9 DEF localip_update
<1>10. CASE pcap_dispatch
  <2> DEFINE p == Head(buffer[cur])
  <2>1. /\ buffer' = [buffer EXCEPT ![cur] = Tail(@)] /\ arrived' = arrived
        /\ buffer[cur] # <<>> /\ callback(p)
    BY <1>10 DEF pcap_dispatch
  <2>2. In(buffer'[cur]) \subseteq In(buffer[cur]) /\ p \in In(buffer[cur])
    BY <2>1, TailIn
  <2>3. /\ p \notin In(buffer'[cur])
        /\ \A k, l \in 1..Len(buffer'[cur]) : buffer'[cur][k] = buffer'[cur][l] => k = l
    BY <2>1, TailOnce
  <2> HIDE DEF p
  <2>4. \A j \in Ifs : j # cur => buffer'[j] = buffer[j]
    BY <2>1
  <2>5. Counted' \subseteq Counted \cup {p}
    <3>1. ASSUME NEW dir_in \in BOOLEAN, Count(p, dir_in)
          PROVE  Counted' = Counted \cup {p}
      <4> DEFINE c == [packet |-> p, in |-> dir_in, day |-> Day(now_real)]
      <4>1. counted' = counted \cup {c} /\ c.packet = p
        BY <3>1 DEF Count
      <4> HIDE DEF c, Counted
      <4> QED BY <4>1, CountedOneMore
    <3> QED BY <2>1, <3>1, CallbackCounts
  <2>6. \A j \in Ifs : p \notin In(buffer'[j])
    BY <2>2, <2>3, <2>4
  <2>7. \A j \in Ifs : In(buffer'[j]) \subseteq In(buffer[j])
    BY <2>2, <2>4
  <2> HIDE DEF Counted
  <2> QED BY <2>1, <2>2, <2>3, <2>4, <2>5, <2>6, <2>7
<1>11. CASE dispatched_all
  BY <1>11 DEF dispatched_all
<1>12. CASE dispatch_error
  BY <1>12 DEF dispatch_error
<1>13. CASE sig_shutdown
  BY <1>13 DEF sig_shutdown
<1>14. CASE cap_stop
  BY <1>14, EmptyIn, EmptySeq DEF cap_stop, daylog_free
<1>15. CASE Terminated \/ UNCHANGED vars
  BY <1>15 DEF Terminated, vars
<1> QED BY <1>1, <1>2, <1>3, <1>4, <1>5, <1>6, <1>7, <1>8, <1>9, <1>10, <1>11, <1>12,
           <1>13, <1>14, <1>15 DEF Next

(* What a log with one more line looks like.                             *)
LEMMA LineAppended ==
  ASSUME log \in Seq(Line), NEW line \in Line, log' = Append(log, line)
  PROVE  /\ Len(log) \in Nat /\ Len(log') = Len(log) + 1
         /\ \A j \in 1..Len(log) : log'[j] = log[j]
         /\ log'[Len(log) + 1] = line
BY AppendProperties, LenProperties

(* What daylog_emit does to where packets are: those in the counters     *)
(* move to a new line, or to those that were not written.                *)
Moved(t) ==
  \/ /\ Len(log) \in Nat /\ Len(log') = Len(log) + 1
     /\ \A j \in 1..Len(log) : log'[j] = log[j]
     /\ log'[Len(log) + 1] = [day |-> Day(t), in |-> in_today, out |-> out_today]
     /\ unwritten' = unwritten
  \/ unwritten' = unwritten \cup in_today \cup out_today /\ log' = log

(* daylog_emit writes a line or loses what would be in it.               *)
LEMMA EmitMoves ==
  ASSUME LogType, NEW t \in Nat, daylog_emit(t)
  PROVE  Moved(t)
<1> DEFINE line == [day |-> Day(t), in |-> in_today, out |-> out_today]
<1>1. line \in Line
  BY DayType DEF LogType, Line
<1>2. CASE log' = Append(log, line) /\ unwritten' = unwritten
  BY <1>1, <1>2, LineAppended DEF LogType, Moved
<1>3. CASE unwritten' = unwritten \cup in_today \cup out_today /\ log' = log
  BY <1>3 DEF Moved
<1> QED BY <1>2, <1>3 DEF daylog_emit

(* Afterwards the counters are empty, or hold a packet that is new.      *)
LEMMA PlaceMoved ==
  ASSUME LogType, PlaceInv, pc # "stopped", NEW t \in Nat, Moved(t),
         NEW S, \A p \in S : p \in Packet /\ p \notin Counted,
         InMemory' = S, Counted' = Counted \cup S,
         \A c \in counted' : c \in counted \/ c.packet \in S
  PROVE  /\ \A j, k \in 1..Len(log') : \A p \in Packets(log'[j]) :
              p \in Packets(log'[k]) => j = k
         /\ \A j \in 1..Len(log') : \A p \in Packets(log'[j]) :
              p \notin InMemory' /\ p \notin unwritten'
         /\ \A p \in InMemory' : p \notin unwritten'
         /\ \A p \in Packet : p \in Counted' <=>
              \/ \E j \in 1..Len(log') : p \in Packets(log'[j])
              \/ p \in InMemory' \/ p \in unwritten'
         /\ \A c \in counted' : \A j \in 1..Len(log') : c.packet \in Packets(log'[j]) =>
              c.packet \in (IF c.in THEN log'[j].in ELSE log'[j].out)
<1> DEFINE L == Len(log)
           mem == in_today \cup out_today
<1>0. /\ mem = InMemory /\ L \in Nat /\ mem \subseteq Packet /\ unwritten \subseteq Packet
      /\ \A j \in 1..L : Packets(log[j]) \subseteq Packet
  <2>1. log \in Seq(Line)
    BY DEF LogType
  <2>2. \A j \in 1..L : log[j] \in Line
    BY <2>1, ElementOfSeq
  <2>3. \A j \in 1..L : Packets(log[j]) \subseteq Packet
    BY <2>2 DEF Line, Packets
  <2> QED BY <2>1, <2>3, LenProperties DEF InMemory, LogType
<1>1. CASE unwritten' = unwritten \cup mem /\ log' = log
  BY <1>0, <1>1 DEF PlaceInv
<1>2. CASE /\ Len(log') = L + 1
           /\ \A j \in 1..L : log'[j] = log[j]
           /\ log'[L + 1] = [day |-> Day(t), in |-> in_today, out |-> out_today]
           /\ unwritten' = unwritten
  <2>1. Packets(log'[L + 1]) = mem
    BY <1>2 DEF Packets
  <2>2. \A j \in 1..L : Packets(log'[j]) = Packets(log[j])
    BY <1>2 DEF Packets
  <2>3. \A j \in 1..Len(log') : j \in 1..L \/ j = L + 1
    BY <1>0, <1>2
  <2>4. L + 1 \in 1..Len(log') /\ \A j \in 1..L : j \in 1..Len(log') /\ j # L + 1
    BY <1>0, <1>2
  <2>5. \A c \in counted' : c.packet \in mem =>
          c.packet \in (IF c.in THEN log'[L + 1].in ELSE log'[L + 1].out)
    BY <1>0, <1>2 DEF PlaceInv
  <2>6. \A p \in S : p \notin mem /\ p \notin unwritten /\ \A j \in 1..L : p \notin Packets(log[j])
    BY <1>0 DEF PlaceInv
  <2> HIDE DEF L, mem
  <2>a. \A j, k \in 1..Len(log') : \A p \in Packets(log'[j]) :
              p \in Packets(log'[k]) => j = k
    BY <1>0, <2>1, <2>2, <2>3 DEF PlaceInv, L
  <2>b. \A j \in 1..Len(log') : \A p \in Packets(log'[j]) :
              p \notin InMemory' /\ p \notin unwritten'
    BY <1>0, <1>2, <2>1, <2>2, <2>3, <2>6 DEF PlaceInv, L
  <2>c. \A p \in InMemory' : p \notin unwritten'
    BY <1>2, <2>6
  <2>d. \A p \in Packet : p \in Counted' <=>
              \/ \E j \in 1..Len(log') : p \in Packets(log'[j])
              \/ p \in InMemory' \/ p \in unwritten'
    BY <1>0, <1>2, <2>1, <2>2, <2>3, <2>4 DEF PlaceInv, L
  <2>e. \A c \in counted' : \A j \in 1..Len(log') : c.packet \in Packets(log'[j]) =>
              c.packet \in (IF c.in THEN log'[j].in ELSE log'[j].out)
    <3>1. ASSUME NEW c \in counted', NEW j \in 1..L, c.packet \in Packets(log'[j])
          PROVE  c.packet \in (IF c.in THEN log'[j].in ELSE log'[j].out)
      <4>1. c \in counted
        BY <2>2, <2>6, <3>1
      <4> QED BY <1>2, <2>2, <3>1, <4>1 DEF PlaceInv, L
    <3> QED BY <2>1, <2>3, <2>5, <3>1
  <2> QED BY <2>a, <2>b, <2>c, <2>d, <2>e
<1> QED BY <1>1, <1>2 DEF Moved

(* No step puts a packet in two places, or loses sight of one.           *)
LEMMA PlaceStep == ASSUME NetType, LogType, OnceInv, PlaceInv, [Next]_vars PROVE PlaceInv'
<1> USE DEF PlaceInv, InMemory, Counted, net, local, clocks, daylog, history, NextIf
<1>1. ASSUME NEW i \in Ifs, NEW p \in Packet, arrive(i, p) PROVE PlaceInv'
  BY <1>1 DEF arrive
<1>2. ASSUME NEW i \in Ifs, NEW list \in AddrLists, change_addrs(i, list) PROVE PlaceInv'
  BY <1>2 DEF change_addrs
<1>3. ASSUME NEW i \in Ifs, go_up_or_down(i) PROVE PlaceInv'
  BY <1>3 DEF go_up_or_down
<1>4. CASE pcap_open_live
  BY <1>4 DEF pcap_open_live
<1>5. CASE not_up
  BY <1>5 DEF not_up
<1>6. CASE cap_start_one
  BY <1>6 DEF cap_start_one
<1>7. CASE daylog_init
  BY <1>7 DEF daylog_init
<1>8. CASE now_update
  BY <1>8 DEF now_update
<1>9. CASE localip_update
  BY <1>9 DEF localip_update
<1>10. CASE pcap_dispatch
  <2> DEFINE p == Head(buffer[cur])
  <2>1. /\ callback(p) /\ buffer[cur] # <<>> /\ pc = "dispatch" /\ pc' = pc
        /\ cur \in Ifs /\ buffer[cur] \in Seq(Packet)
    BY <1>10 DEF pcap_dispatch, NetType
  <2>2. p \in Packet /\ p \notin Counted
    BY <2>1, TailIn, HeadTailProperties DEF OnceInv
  <2> HIDE DEF p
  <2>3. CASE UNCHANGED <<daylog, counted, unwritten>>
    BY <2>1, <2>3
  <2>4. ASSUME NEW dir_in \in BOOLEAN, Count(p, dir_in) PROVE PlaceInv'
    <3> DEFINE ins  == IF dir_in THEN {p} ELSE {}
               outs == IF dir_in THEN {} ELSE {p}
    <3>1. ins \cup outs = {p} /\ p \in (IF dir_in THEN ins ELSE outs)
      OBVIOUS
    <3>2. /\ daylog_acct(ins, outs)
          /\ counted' = counted \cup {[packet |-> p, in |-> dir_in, day |-> Day(now_real)]}
      BY <2>4 DEF Count
    <3> HIDE DEF ins, outs
    <3>3. /\ Counted' = Counted \cup {p}
          /\ \A c \in counted' : \/ c \in counted
                                 \/ c.packet = p /\ c.in = dir_in
      <4> DEFINE d == [packet |-> p, in |-> dir_in, day |-> Day(now_real)]
      <4>1. d.packet = p /\ d.in = dir_in
        OBVIOUS
      <4>2. counted' = counted \cup {d}
        BY <3>2
      <4> HIDE DEF d, Counted
      <4>3. Counted' = Counted \cup {d.packet}
        BY <4>2, CountedOneMore
      <4> QED BY <4>1, <4>2, <4>3
    <3>4. \A c \in counted : c.packet # p
      BY <2>2
    <3>5. CASE now_real >= tomorrow_real
      <4>1. daylog_emit(today_real) /\ in_today' = ins /\ out_today' = outs
        BY <3>2, <3>5 DEF daylog_acct
      <4>2. Moved(today_real) /\ today_real \in Nat
        BY <4>1, EmitMoves DEF LogType
      <4>3. InMemory' = {p}
        BY <2>1, <3>1, <4>1
      <4>4. \A c \in counted' : c.packet \in InMemory' =>
              c.packet \in (IF c.in THEN in_today' ELSE out_today')
        BY <3>1, <3>3, <3>4, <4>1, <4>3
      <4>5. /\ pc # "stopped" /\ \A q \in {p} : q \in Packet /\ q \notin Counted
            /\ \A c \in counted' : c \in counted \/ c.packet \in {p}
        BY <2>1, <2>2, <3>3
      <4> HIDE DEF PlaceInv, InMemory, Counted
      <4>6. /\ \A j, k \in 1..Len(log') : \A q \in Packets(log'[j]) :
                 q \in Packets(log'[k]) => j = k
            /\ \A j \in 1..Len(log') : \A q \in Packets(log'[j]) :
                 q \notin InMemory' /\ q \notin unwritten'
            /\ \A q \in InMemory' : q \notin unwritten'
            /\ \A q \in Packet : q \in Counted' <=>
                 \/ \E j \in 1..Len(log') : q \in Packets(log'[j])
                 \/ q \in InMemory' \/ q \in unwritten'
            /\ \A c \in counted' : \A j \in 1..Len(log') : c.packet \in Packets(log'[j]) =>
                 c.packet \in (IF c.in THEN log'[j].in ELSE log'[j].out)
        BY <3>3, <4>2, <4>3, <4>5, PlaceMoved
      <4> QED BY <2>1, <4>4, <4>6 DEF PlaceInv
    <3>6. CASE ~(now_real >= tomorrow_real)
      <4>1. /\ in_today' = in_today \cup ins /\ out_today' = out_today \cup outs
            /\ UNCHANGED <<log, unwritten>>
        BY <3>2, <3>6 DEF daylog_acct
      <4>2. InMemory' = InMemory \cup {p} /\ InMemory = in_today \cup out_today
        BY <2>1, <3>1, <4>1
      <4>3. \A c \in counted' : c.packet \in InMemory' =>
              c.packet \in (IF c.in THEN in_today' ELSE out_today')
        BY <3>1, <3>3, <3>4, <4>1, <4>2
      <4> HIDE DEF InMemory, Counted
      <4>4. p \notin InMemory /\ p \notin unwritten /\ \A j \in 1..Len(log) : p \notin Packets(log[j])
        BY <2>2
      <4>5. \A q \in Packet : q \in Counted' <=>
              \/ \E j \in 1..Len(log') : q \in Packets(log'[j])
              \/ q \in InMemory' \/ q \in unwritten'
        BY <2>2, <3>3, <4>1, <4>2
      <4>6. \A j \in 1..Len(log') : \A q \in Packets(log'[j]) :
              q \notin InMemory' /\ q \notin unwritten'
        BY <4>1, <4>2, <4>4
      <4>7. \A c \in counted' : \A j \in 1..Len(log') : c.packet \in Packets(log'[j]) =>
              c.packet \in (IF c.in THEN log'[j].in ELSE log'[j].out)
        BY <3>3, <4>1, <4>4
      <4>8. /\ \A j, k \in 1..Len(log') : \A q \in Packets(log'[j]) :
                 q \in Packets(log'[k]) => j = k
            /\ \A q \in InMemory' : q \notin unwritten'
        BY <4>1, <4>2, <4>4
      <4> HIDE DEF PlaceInv
      <4> QED BY <2>1, <4>3, <4>5, <4>6, <4>7, <4>8 DEF PlaceInv
    <3> QED BY <3>5, <3>6
  <2> QED BY <2>1, <2>3, <2>4, CallbackCounts
<1>11. CASE dispatched_all
  BY <1>11 DEF dispatched_all
<1>12. CASE dispatch_error
  BY <1>12 DEF dispatch_error
<1>13. CASE sig_shutdown
  BY <1>13 DEF sig_shutdown
<1>14. CASE cap_stop
  <2>1. /\ daylog_emit(now_real) /\ counted' = counted /\ pc = "stop" /\ pc' = "stopped"
    BY <1>14 DEF cap_stop, daylog_free
  <2>2. Moved(now_real) /\ now_real \in Nat
    BY <2>1, EmitMoves DEF LogType
  <2> DEFINE S == {}
  <2>3. /\ InMemory' = S /\ Counted' = Counted \cup S /\ pc # "stopped"
    BY <2>1
  <2>4. \A q \in S : q \in Packet /\ q \notin Counted
    OBVIOUS
  <2>5. \A c \in counted' : c \in counted \/ c.packet \in S
    BY <2>1
  <2>s. S = {}
    OBVIOUS
  <2> HIDE DEF PlaceInv, InMemory, Counted, S
  <2>6. /\ \A j, k \in 1..Len(log') : \A q \in Packets(log'[j]) :
             q \in Packets(log'[k]) => j = k
        /\ \A j \in 1..Len(log') : \A q \in Packets(log'[j]) :
             q \notin InMemory' /\ q \notin unwritten'
        /\ \A q \in InMemory' : q \notin unwritten'
        /\ \A q \in Packet : q \in Counted' <=>
             \/ \E j \in 1..Len(log') : q \in Packets(log'[j])
             \/ q \in InMemory' \/ q \in unwritten'
        /\ \A c \in counted' : \A j \in 1..Len(log') : c.packet \in Packets(log'[j]) =>
             c.packet \in (IF c.in THEN log'[j].in ELSE log'[j].out)
    BY <2>2, <2>3, <2>4, <2>5, PlaceMoved
  <2> QED BY <2>1, <2>3, <2>s, <2>6 DEF PlaceInv
<1>15. CASE Terminated \/ UNCHANGED vars
  BY <1>15 DEF Terminated, vars
<1> QED BY <1>1, <1>2, <1>3, <1>4, <1>5, <1>6, <1>7, <1>8, <1>9, <1>10, <1>11, <1>12,
           <1>13, <1>14, <1>15 DEF Next

(* As long as the clock is not set back, packets are in the line of      *)
(* their day.                                                            *)
LEMMA DayStep ==
  ASSUME NetType, LogType, OnceInv, PlaceInv, DayInv, [Next]_vars
  PROVE  DayInv'
<1> USE DEF DayInv, InMemory, net, local, clocks, daylog, history, NextIf
<1>1. ASSUME NEW i \in Ifs, NEW p \in Packet, arrive(i, p) PROVE DayInv'
  BY <1>1 DEF arrive
<1>2. ASSUME NEW i \in Ifs, NEW list \in AddrLists, change_addrs(i, list) PROVE DayInv'
  BY <1>2 DEF change_addrs
<1>3. ASSUME NEW i \in Ifs, go_up_or_down(i) PROVE DayInv'
  BY <1>3 DEF go_up_or_down
<1>4. CASE pcap_open_live
  BY <1>4 DEF pcap_open_live
<1>5. CASE not_up
  BY <1>5 DEF not_up
<1>6. CASE cap_start_one
  BY <1>6 DEF cap_start_one
<1>7. CASE daylog_init
  BY <1>7 DEF daylog_init, PlaceInv, LogType
<1>8. CASE now_update
  <2>1. PICK t \in 1..MaxReal : now_real' = t /\ set_back' = (set_back \/ t < now_real)
    BY <1>8 DEF now_update
  <2>2. ~set_back' => ~set_back /\ now_real <= now_real'
    <3>1. ~set_back' => ~set_back /\ ~(t < now_real)
      BY <2>1, Zenon
    <3> QED BY <2>1, <3>1, CaptureAssumption DEF LogType
  <2>3. ~set_back' => today_real <= now_real' \/ ~(today_real <= now_real)
    BY <2>1, <2>2, CaptureAssumption DEF LogType
  <2> QED BY <1>8, <2>2, <2>3 DEF now_update
<1>9. CASE localip_update
  BY <1>9 DEF localip_update
<1>10. CASE pcap_dispatch
  <2> DEFINE p == Head(buffer[cur])
  <2>1. /\ callback(p) /\ buffer[cur] # <<>> /\ pc = "dispatch" /\ pc' = pc
        /\ cur \in Ifs /\ buffer[cur] \in Seq(Packet)
        /\ UNCHANGED <<now_real, set_back>>
    BY <1>10 DEF pcap_dispatch, NetType
  <2>2. p \in Packet /\ \A c \in counted : c.packet # p
    <3> HIDE DEF Counted
    <3>1. p \in Packet /\ p \notin Counted
      BY <2>1, TailIn, HeadTailProperties DEF OnceInv
    <3> QED BY <3>1 DEF Counted
  <2> HIDE DEF p
  <2>3. CASE UNCHANGED <<daylog, counted, unwritten>>
    BY <2>1, <2>3
  <2>4. ASSUME NEW dir_in \in BOOLEAN, Count(p, dir_in) PROVE DayInv'
    <3> DEFINE ins  == IF dir_in THEN {p} ELSE {}
               outs == IF dir_in THEN {} ELSE {p}
    <3>1. ins \cup outs = {p}
      OBVIOUS
    <3>2. daylog_acct(ins, outs)
      BY <2>4 DEF Count
    <3> HIDE DEF ins, outs
    <3>3. \A c \in counted' : \/ c \in counted /\ c.packet # p
                              \/ c.packet = p /\ c.day = Day(now_real)
      <4> DEFINE d == [packet |-> p, in |-> dir_in, day |-> Day(now_real)]
      <4>1. d.packet = p /\ d.day = Day(now_real)
        OBVIOUS
      <4>2. counted' = counted \cup {d}
        BY <2>4 DEF Count
      <4> HIDE DEF d
      <4>3. SUFFICES ASSUME NEW c \in counted'
            PROVE  \/ c \in counted /\ c.packet # p
                   \/ c.packet = p /\ c.day = Day(now_real)
        OBVIOUS
      <4>4. CASE c \in counted
        BY <2>2, <4>4
      <4>5. CASE c = d
        BY <4>1, <4>5
      <4> QED BY <4>2, <4>4, <4>5
    <3>4. \A j \in 1..Len(log) : p \notin Packets(log[j])
      <4>1. p \notin Counted
        BY <2>2 DEF Counted
      <4> QED BY <2>2, <4>1 DEF PlaceInv
    <3>5. p \notin in_today \cup out_today
      <4>1. p \notin Counted
        BY <2>2 DEF Counted
      <4> QED BY <2>1, <2>2, <4>1 DEF PlaceInv
    <3>6. CASE now_real >= tomorrow_real
      <4>1. /\ daylog_emit(today_real) /\ in_today' = ins /\ out_today' = outs
            /\ today_real' = now_real /\ tomorrow_real' = tomorrow(now_real)
        BY <3>2, <3>6 DEF daylog_acct
      <4>2. Moved(today_real)
        BY <4>1, EmitMoves DEF LogType
      <4>3. InMemory' = {p}
        BY <2>1, <3>1, <4>1
      <4>4. \A c \in counted' : c.packet \in InMemory' => c.day = Day(today_real')
        BY <3>3, <4>1, <4>3
      <4>5. CASE log' = log
        BY <2>1, <3>3, <3>4, <4>1, <4>4, <4>5 DEF LogType
      <4>6. CASE /\ Len(log) \in Nat /\ Len(log') = Len(log) + 1
                 /\ \A j \in 1..Len(log) : log'[j] = log[j]
                 /\ log'[Len(log) + 1] =
                      [day |-> Day(today_real), in |-> in_today, out |-> out_today]
        <5>1. \A j \in 1..Len(log') : j \in 1..Len(log) \/ j = Len(log) + 1
          BY <4>6
        <5>2. ASSUME NEW c \in counted', NEW j \in 1..Len(log'), ~set_back',
                     c.packet \in Packets(log'[j])
              PROVE  log'[j].day = c.day
          <6>1. CASE j \in 1..Len(log)
            <7>1. c \in counted /\ log'[j] = log[j]
              BY <3>3, <3>4, <4>6, <5>2, <6>1
            <7> QED BY <2>1, <5>2, <6>1, <7>1
          <6>2. CASE j = Len(log) + 1
            <7>1. c.packet \in in_today \cup out_today /\ log'[j].day = Day(today_real)
              BY <4>6, <5>2, <6>2 DEF Packets
            <7>2. c \in counted
              BY <3>3, <3>5, <7>1
            <7> QED BY <2>1, <5>2, <7>1, <7>2
          <6> QED BY <5>1, <6>1, <6>2
        <5> QED BY <2>1, <4>1, <4>4, <5>2 DEF LogType
      <4> QED BY <4>2, <4>5, <4>6 DEF Moved
    <3>7. CASE ~(now_real >= tomorrow_real)
      <4>1. /\ in_today' = in_today \cup ins /\ out_today' = out_today \cup outs
            /\ UNCHANGED <<today_real, tomorrow_real, log>>
        BY <3>2, <3>7 DEF daylog_acct
      <4>2. InMemory' = InMemory \cup {p}
        BY <2>1, <3>1, <4>1
      <4>3. ~set_back => Day(now_real) = Day(today_real)
        BY <2>1, <3>7, SameDay, DayType DEF LogType
      <4>4. ~set_back' => \A c \in counted' : c.packet \in InMemory' => c.day = Day(today_real')
        BY <2>1, <3>3, <4>1, <4>2, <4>3
      <4>5. ~set_back' => \A c \in counted' : \A j \in 1..Len(log') :
              c.packet \in Packets(log'[j]) => log'[j].day = c.day
        BY <2>1, <3>3, <3>4, <4>1
      <4> HIDE DEF InMemory
      <4> QED BY <2>1, <4>1, <4>4, <4>5
    <3> QED BY <3>6, <3>7
  <2> QED BY <2>1, <2>3, <2>4, CallbackCounts
<1>11. CASE dispatched_all
  BY <1>11 DEF dispatched_all
<1>12. CASE dispatch_error
  BY <1>12 DEF dispatch_error
<1>13. CASE sig_shutdown
  BY <1>13 DEF sig_shutdown
<1>14. CASE cap_stop
  <2>1. /\ daylog_emit(now_real) /\ counted' = counted /\ set_back' = set_back
        /\ pc = "stop" /\ pc' = "stopped"
    BY <1>14 DEF cap_stop, daylog_free
  <2>2. Moved(now_real)
    BY <2>1, EmitMoves DEF LogType
  <2>3. InMemory' = {}
    BY <2>1
  <2>4. \A j \in 1..Len(log') : j # Len(log') =>
          j \in 1..Len(log) /\ log'[j] = log[j]
    BY <2>2 DEF Moved
  <2> QED BY <2>1, <2>3, <2>4
<1>15. CASE Terminated \/ UNCHANGED vars
  BY <1>15 DEF Terminated, vars
<1> QED BY <1>1, <1>2, <1>3, <1>4, <1>5, <1>6, <1>7, <1>8, <1>9, <1>10, <1>11, <1>12,
           <1>13, <1>14, <1>15 DEF Next

----------------------------------------------------------------------------
CaptureInv ==
  /\ NetType /\ LocalType /\ LogType
  /\ DispatchInv /\ LocalInv
  /\ OnceInv /\ PlaceInv /\ DayInv

(* All of it holds before capture has begun.                             *)
LEMMA CaptureInit == Init => CaptureInv
<1> SUFFICES ASSUME Init PROVE CaptureInv
  OBVIOUS
<1> USE DEF Init
<1>1. 1 \in Ifs /\ AddrLists \subseteq Seq(Addr)
  BY CaptureAssumption DEF Ifs
<1>2. /\ <<>> \in Seq(Packet) /\ <<>> \in Seq(Line) /\ <<>> \in Seq(Addr)
      /\ Len(<<>>) = 0 /\ In(<<>>) = {}
  BY EmptySeq, EmptyIn
<1>3. NetType
  BY <1>1, <1>2 DEF NetType
<1>4. LocalType
  BY <1>1, <1>2 DEF LocalType, LocalIps, NoIps
<1>5. LogType
  BY <1>2 DEF LogType
<1>6. DispatchInv /\ LocalInv
  BY <1>2 DEF DispatchInv, LocalInv
<1>7. OnceInv
  BY <1>2 DEF OnceInv, Counted
<1>8. PlaceInv /\ DayInv
  BY <1>2 DEF PlaceInv, DayInv, InMemory, Counted
<1> QED BY <1>3, <1>4, <1>5, <1>6, <1>7, <1>8 DEF CaptureInv

(* In every reachable state.                                             *)
THEOREM CaptureIsRight == Spec => []CaptureInv
<1>1. CaptureInv /\ [Next]_vars => CaptureInv'
  BY NetStep, LocalTypeStep, LogTypeStep, DispatchStep, LocalStep, OnceStep, PlaceStep,
     DayStep DEF CaptureInv
<1> QED BY <1>1, CaptureInit, PTL DEF Spec

(* A turn of the main loop dispatches whatever was in the buffers when   *)
(* it began, for any number of interfaces and packets (cap_poll).        *)
THEOREM CaptureAllDispatched == Spec => []AllDispatched
<1>1. CaptureInv => AllDispatched
  BY DEF CaptureInv, DispatchInv, AllDispatched, In
<1> QED BY <1>1, CaptureIsRight, PTL

(* Packets are told apart by addresses of this second, for any lists of  *)
(* addresses and any changes of them (localip_update, add_ip).           *)
THEOREM CaptureLocalIsCurrent == Spec => []LocalIsCurrent
<1>1. CaptureInv => LocalIsCurrent
  BY DEF CaptureInv, NetType, LocalType, LocalInv, LocalIsCurrent
<1> QED BY <1>1, CaptureIsRight, PTL

(* Every counted packet is in one line of the log, in the counters or in *)
(* a line that could not be written, with its way and its day, for any   *)
(* clock and any packets (daylog_acct, daylog_emit, daylog_free).        *)
THEOREM CaptureDaylogIsRight == Spec => []DaylogIsRight
<1>1. CaptureInv => DaylogIsRight
  <2> SUFFICES ASSUME LogType, PlaceInv, DayInv PROVE DaylogIsRight
    BY DEF CaptureInv
  <2> DEFINE last == IF pc = "stopped" THEN Len(log) ELSE 0
  <2>1. DOMAIN log = 1..Len(log) /\ Len(log) \in Nat
    BY LenProperties DEF LogType
  <2>2. \A j, k \in DOMAIN log : j # k => Packets(log[j]) \cap Packets(log[k]) = {}
    BY <2>1 DEF PlaceInv
  <2>3. \A j \in DOMAIN log : Packets(log[j]) \cap (InMemory \cup unwritten) = {}
    BY <2>1 DEF PlaceInv
  <2>4. InMemory \cap unwritten = {}
    BY DEF PlaceInv
  <2>5. Counted = (UNION {Packets(log[j]) : j \in DOMAIN log}) \cup InMemory \cup unwritten
    <3>1. \A j \in DOMAIN log : Packets(log[j]) \subseteq Packet
      <4>1. \A j \in 1..Len(log) : log[j] \in Line
        BY ElementOfSeq DEF LogType
      <4> QED BY <2>1, <4>1 DEF Line, Packets
    <3>2. Counted \subseteq Packet /\ InMemory \subseteq Packet /\ unwritten \subseteq Packet
      BY DEF LogType, Counted, InMemory
    <3>3. \A p \in Packet : p \in Counted <=>
            (\E j \in DOMAIN log : p \in Packets(log[j])) \/ p \in InMemory \/ p \in unwritten
      BY <2>1 DEF PlaceInv
    <3> DEFINE U == UNION {Packets(log[j]) : j \in DOMAIN log}
    <3>4. \A p : p \in U <=> \E j \in DOMAIN log : p \in Packets(log[j])
      OBVIOUS
    <3>5. U \subseteq Packet
      BY <3>1, <3>4
    <3> HIDE DEF U, Counted, InMemory
    <3>6. \A p : p \in Counted <=> p \in U \/ p \in InMemory \/ p \in unwritten
      BY <3>2, <3>3, <3>4, <3>5
    <3>7. Counted = U \cup InMemory \cup unwritten
      BY <3>6
    <3> QED BY <3>7 DEF U
  <2>6. ASSUME NEW c \in counted, NEW j \in DOMAIN log, c.packet \in Packets(log[j])
        PROVE  /\ c.packet \in (IF c.in THEN log[j].in ELSE log[j].out)
               /\ j # last /\ ~set_back => log[j].day = c.day
    BY <2>1, <2>6 DEF PlaceInv, DayInv
  <2> QED BY <2>2, <2>3, <2>4, <2>5, <2>6 DEF DaylogIsRight, InMemory, Counted
<1> QED BY <1>1, CaptureIsRight, PTL
=============================================================================
