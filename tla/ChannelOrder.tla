---------------------------- MODULE ChannelOrder ----------------------------
(***************************************************************************)
(* What the ENet transport promises the programs that use it, one channel  *)
(* at a time.  On every channel packets are numbered in the order in which *)
(* enet_peer_send accepted them.  The receiving program sees a subsequence *)
(* of that order in which no reliable packet is skipped: an unreliable     *)
(* packet may be missing, but what arrives is never out of order and never *)
(* delivered twice.  Channels promise nothing about each other.            *)
(*                                                                         *)
(* EnetChannel is shown to implement this module, and so is EnetFragments, *)
(* whose packets are all reliable and travel in pieces.                    *)
(***************************************************************************)
EXTENDS Naturals, Sequences

CONSTANT Channels    \* the channels of the connection

VARIABLES
    sent,       \* sent[ch][n] says whether packet n of channel ch is reliable
    delivered,  \* delivered[ch] lists the packet numbers handed to the receiver
    broken      \* the sender has given the peer up

coVars == <<sent, delivered, broken>>

Cursor(ch) == IF delivered[ch] = <<>> THEN 0 ELSE delivered[ch][Len(delivered[ch])]

COInit ==
    /\ sent = [ch \in Channels |-> <<>>]
    /\ delivered = [ch \in Channels |-> <<>>]
    /\ broken = FALSE

Accept(ch, reliable) ==
    /\ ~broken
    /\ sent' = [sent EXCEPT ![ch] = Append(@, reliable)]
    /\ UNCHANGED <<delivered, broken>>

\* Packet n is the next one delivered: nothing reliable lies between.
Deliver(ch, n) ==
    /\ n \in (Cursor(ch) + 1) .. Len(sent[ch])
    /\ \A k \in (Cursor(ch) + 1) .. (n - 1) : ~sent[ch][k]
    /\ delivered' = [delivered EXCEPT ![ch] = Append(@, n)]
    /\ UNCHANGED <<sent, broken>>

GiveUp ==
    /\ broken' = TRUE
    /\ UNCHANGED <<sent, delivered>>

CONext ==
    \/ \E ch \in Channels, reliable \in BOOLEAN : Accept(ch, reliable)
    \/ \E ch \in Channels : \E n \in 1 .. Len(sent[ch]) : Deliver(ch, n)
    \/ GiveUp

COSpec == COInit /\ [][CONext]_coVars
=============================================================================
