------------------------------- MODULE Decode -------------------------------
(***************************************************************************)
(* From a captured frame to the summary that accounting works with         *)
(* (decode.c), and how much of a frame must be captured for that           *)
(* (getsnaplen and its use in cap.c).                                      *)
(*                                                                         *)
(* A frame is its length and what its headers say; a decoder gets the      *)
(* first caplen bytes of it and passes what is left of them, as a pointer  *)
(* and a number, from one header to the next.  A result records in reads   *)
(* how far into the frame the decoders have looked.                        *)
(***************************************************************************)
EXTENDS Integers

CONSTANTS Wrap,     \* 2^32: lengths are unsigned
          Length    \* the lengths of frames

ASSUME DecodeAssumption == Wrap \in Nat /\ Length \subseteq Nat

ETHER_HDR_LEN == 14
NULL_HDR_LEN  == 4
PPP_HDR_LEN   == 4
PPPOE_HDR_LEN == 8
SLL_HDR_LEN   == 16
RAW_HDR_LEN   == 0
IP_HDR_LEN    == 20
IPV6_HDR_LEN  == 40
TCP_HDR_LEN   == 20
UDP_HDR_LEN   == 8

(* linkhdrs: the link types that can be decoded and their headers' sizes.  *)
linkhdrs == [EN10MB |-> ETHER_HDR_LEN, LOOP |-> NULL_HDR_LEN,
             NULL |-> NULL_HDR_LEN, PPP |-> PPP_HDR_LEN,
             PPP_ETHER |-> PPPOE_HDR_LEN, LINUX_SLL |-> SLL_HDR_LEN,
             RAW |-> RAW_HDR_LEN]

Linktype == DOMAIN linkhdrs

(* What the headers say, outermost first: the type, family or protocol in  *)
(* the link's header; what PPPoE carries ("none": not a session); the IP   *)
(* version; the protocol.                                                  *)
Link    == {"IP", "IPv6", "PPPoE", "ARP", "other"}
Session == {"IP", "LCP", "LQR", "other", "none"}
Version == {4, 6, 0}
Proto   == {"TCP", "UDP", "other"}

Headers == [link : Link, session : Session, version : Version, proto : Proto]

(* (uint32_t)(a - b)                                                       *)
Sub(a, b) == IF a >= b THEN a - b ELSE Wrap + a - b

Nothing(n) == [ok |-> FALSE, proto |-> "-", reads |-> n]

(* Too short for its ports: the protocol is not accounted, the hosts are.  *)
helper_ip_deeper(h, off, len) ==
  LET hdr == [TCP |-> TCP_HDR_LEN, UDP |-> UDP_HDR_LEN, other |-> 0][h.proto] IN
  IF len < hdr
  THEN [ok |-> TRUE, proto |-> "INVALID", reads |-> off]
  ELSE [ok |-> TRUE, proto |-> h.proto, reads |-> off + hdr]

(* As helper_ipv6, but leaving it to helper_ip to see that there is room.  *)
helper_ipv6Unchecked(h, off, len) ==
  IF h.version # 6 THEN Nothing(off + IPV6_HDR_LEN)
  ELSE helper_ip_deeper(h, off + IPV6_HDR_LEN, Sub(len, IPV6_HDR_LEN))

helper_ipv6(h, off, len) ==
  IF len < IPV6_HDR_LEN THEN Nothing(off)
  ELSE IF h.version # 6 THEN Nothing(off + IPV6_HDR_LEN)
  ELSE helper_ip_deeper(h, off + IPV6_HDR_LEN, Sub(len, IPV6_HDR_LEN))

helper_ip(h, off, len) ==
  IF len < IP_HDR_LEN THEN Nothing(off)
  ELSE CASE h.version = 6 -> helper_ipv6(h, off, len)
         [] h.version = 4 ->
              helper_ip_deeper(h, off + IP_HDR_LEN, Sub(len, IP_HDR_LEN))
         [] OTHER -> Nothing(off + IP_HDR_LEN)

helper_pppoe(h, off, len) ==
  IF len < PPPOE_HDR_LEN THEN Nothing(off)
  ELSE IF h.session # "IP" THEN Nothing(off + PPPOE_HDR_LEN)
  ELSE helper_ip(h, off + PPPOE_HDR_LEN, Sub(len, PPPOE_HDR_LEN))

(* With --pppoe an Ethernet frame must be PPPoE, without it, IP.           *)
decode_ether(h, caplen, pppoe) ==
  IF caplen < ETHER_HDR_LEN THEN Nothing(0)
  ELSE CASE h.link \in {"IP", "IPv6"} /\ ~pppoe ->
              helper_ip(h, ETHER_HDR_LEN, Sub(caplen, ETHER_HDR_LEN))
         [] h.link = "PPPoE" /\ pppoe ->
              helper_pppoe(h, ETHER_HDR_LEN, Sub(caplen, ETHER_HDR_LEN))
         [] OTHER -> Nothing(ETHER_HDR_LEN)

(* And decode_null.                                                        *)
decode_loop(h, caplen) ==
  IF caplen < NULL_HDR_LEN THEN Nothing(0)
  ELSE CASE h.link = "IP" -> helper_ip(h, NULL_HDR_LEN, Sub(caplen, NULL_HDR_LEN))
         [] h.link = "IPv6" -> helper_ipv6(h, NULL_HDR_LEN, Sub(caplen, NULL_HDR_LEN))
         [] OTHER -> Nothing(NULL_HDR_LEN)

(* It asks for the length of a PPPoE header, and needs that of PPP's.      *)
decode_ppp(h, caplen) ==
  IF caplen < PPPOE_HDR_LEN THEN Nothing(0)
  ELSE IF h.link # "IP" THEN Nothing(PPP_HDR_LEN)
  ELSE helper_ip(h, PPP_HDR_LEN, Sub(caplen, PPP_HDR_LEN))

decode_linux_sll(h, caplen) ==
  IF caplen < SLL_HDR_LEN THEN Nothing(0)
  ELSE IF h.link \notin {"IP", "IPv6"} THEN Nothing(SLL_HDR_LEN)
  ELSE helper_ip(h, SLL_HDR_LEN, Sub(caplen, SLL_HDR_LEN))

(* The decoder of the link type.                                           *)
decoder(linktype, h, caplen, pppoe) ==
  CASE linktype = "EN10MB"    -> decode_ether(h, caplen, pppoe)
    [] linktype = "LOOP"      -> decode_loop(h, caplen)
    [] linktype = "NULL"      -> decode_loop(h, caplen)
    [] linktype = "PPP"       -> decode_ppp(h, caplen)
    [] linktype = "PPP_ETHER" -> helper_pppoe(h, 0, caplen)
    [] linktype = "LINUX_SLL" -> decode_linux_sll(h, caplen)
    [] linktype = "RAW"       -> helper_ip(h, 0, caplen)

(* As getsnaplen, but forgetting that there is IPv6.                       *)
getsnaplenV4(linktype) == linkhdrs[linktype] + IP_HDR_LEN + TCP_HDR_LEN

getsnaplen(linktype) == linkhdrs[linktype] + IPV6_HDR_LEN + TCP_HDR_LEN

(* What cap_start_one asks for: room for PPPoE, the minimum that Linux     *)
(* needs, and the option, which is -1 if it was not given.                 *)
snaplen(linktype, pppoe, linux, want) ==
  LET need == getsnaplen(linktype) + IF pppoe THEN PPPOE_HDR_LEN ELSE 0
  IN  IF want > -1 THEN want
      ELSE IF linux /\ need < 96 THEN 96 ELSE need

----------------------------------------------------------------------------
(* cap_start_one refuses --pppoe on anything but Ethernet.                 *)
Possible(linktype, pppoe) == pppoe => linktype = "EN10MB"

(* No decoder looks beyond what was captured, however short that is.       *)
StaysInside ==
  \A lt \in Linktype, h \in Headers, caplen \in Length, pppoe \in BOOLEAN :
    Possible(lt, pppoe) => decoder(lt, h, caplen, pppoe).reads <= caplen

(* A frame that is cut to what cap_start_one asks for is decoded as the    *)
(* whole would be, with the hack for Linux or not.                         *)
CutIsEnough ==
  \A lt \in Linktype, h \in Headers, len \in Length, pppoe, linux \in BOOLEAN :
    Possible(lt, pppoe) =>
      LET cut == snaplen(lt, pppoe, linux, -1)
          all == decoder(lt, h, len, pppoe)
          got == decoder(lt, h, IF len < cut THEN len ELSE cut, pppoe)
      IN  got.ok = all.ok /\ got.proto = all.proto
=============================================================================
