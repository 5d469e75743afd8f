----------------------------- MODULE MCFraming -----------------------------
EXTENDS Framing, TLC

A == 161
B == 42  \* a uid with the value of the POCKET marker

Tag(u, ls, ok) == [kind |-> "tag", uid |-> u, lockers |-> ls, auth |-> ok]
Pass(p) == [kind |-> "pass", passed |-> p]
Pong == [kind |-> "pong"]
RelayEx(bytes) == [kind |-> "relay", bytes |-> bytes]
Usart(bytes) == [kind |-> "usart", bytes |-> bytes]

\* Every way to cut bytes into two pieces that are not empty.
Cuts(bytes) ==
  {<<Usart(SubSeq(bytes, 1, n)), Usart(SubSeq(bytes, n + 1, Len(bytes)))>> : n \in 1 .. Len(bytes) - 1}

Noise == 7
Barcode(data) == <<STX, BarcodeStart, 67, 49>> \o data \o <<ETX, EOT>>
\* Noise, a barcode whose data holds the first byte of its own end, and a
\* second one; a frame too short to be a barcode.
Scans == {<<Noise>> \o Barcode(<<ETX, 50>>) \o Barcode(<<51>>), <<STX, 50, ETX, EOT>> \o Barcode(<<52>>)}

PocketTalks ==
  {<<Tag(A, <<5, 6>>, FALSE), Tag(B, <<7>>, TRUE), Tag(A, <<>>, TRUE)>>,
   <<Tag(A, <<5>>, TRUE), Tag(B, <<>>, TRUE), Tag(A, <<>>, TRUE)>>,
   <<Tag(B, <<>>, TRUE), Pass(TRUE), Pass(FALSE)>>,
   <<RelayEx(<<1, 0, 0, 0, 0, 0>>), Pass(TRUE)>>,
   <<Pass(TRUE), RelayEx(<<1, 0, 0, 0, 0>>), Pass(FALSE)>>}
  \cup {cut \o <<Pass(TRUE)>> : cut \in UNION {Cuts(s) : s \in Scans}}

JspTalks == {<<Tag(A, <<>>, TRUE), Pass(TRUE), Pass(TRUE)>>, <<Pong, Tag(JspStart, <<>>, TRUE)>>}

SphinxTalks == {<<[kind |-> "request", ticket |-> CR], Pong, Pong>>}

GatTalks == {<<Pong, Tag(A, <<>>, TRUE)>>}

Talks == [pocket |-> PocketTalks, jsp |-> JspTalks, sphinx |-> SphinxTalks, gat |-> GatTalks]

Conversing(type, bys, seals) ==
  {[type |-> type, by |-> b, seal |-> s, messages |-> m] : m \in Talks[type], b \in bys, s \in seals}

MCConversations ==
  Conversing("pocket", {"list"}, {"decoder", "encoder"})
    \cup UNION {Conversing(t, {"list", "api"}, {"decoder"}) : t \in Types}
MCGat == Conversing("gat", {"list"}, {"decoder"})
MCDenials == {{}, {A}}
=============================================================================
