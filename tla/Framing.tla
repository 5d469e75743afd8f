------------------------------ MODULE Framing ------------------------------
(***************************************************************************)
(* From the bytes of one terminal to the events the daemon acts on:        *)
(* handleConnection, processData and the process and handle functions of   *)
(* the four protocols (internal/connection/pool.go), TryReadPacket         *)
(* (internal/protocols/jsp/protocol.go), and the part of ProcessTagRead    *)
(* (internal/daemon/daemon.go) that fetches the lockers of a tag.          *)
(*                                                                         *)
(* TCP delivers what the terminal sent cut into reads of any size.  One    *)
(* step is one turn of the reader's loop: a read, and all that follows     *)
(* from it until the reader asks for more.  The settings of the terminal   *)
(* are attached by another goroutine: late, because StartClient starts the *)
(* reader before its caller knows the connection, and again at every check *)
(* of the terminal list, between two packets or in the middle of one.      *)
(*                                                                         *)
(* Left out: registration devices (module Admission), the fields of a GAT  *)
(* packet kept for solariums, the answers to unknown JSP commands.         *)
(***************************************************************************)
EXTENDS Codec, FiniteSets

CONSTANTS
  Conversations,  \* what the terminal may send and who connects to it: [type, by,
                  \* seal, messages], by "list" (processTerminalFrom1C) or "api",
                  \* sealed as DecodePacket or as EncodePacket computes checksums
  ReadSizes,      \* how many bytes a Read returns
  Denials         \* sets of uids that deny lists and marks may turn away at a time

ASSUME ReadsFillTheBuffer == ReadSizes \subseteq 1 .. 4096

Types == {"pocket", "gat", "sphinx", "jsp"}
NoType == "none"

VARIABLES
  conversation,  \* the terminal's type in the terminal list, and its messages
  received,      \* how many bytes have been read
  settings,      \* conn.Settings.Type
  attached,      \* history: "never", "first" (before any byte was read) or "late"
  buffer,        \* conn.Buffer and conn.JSPConn.Buffer, one of which is empty
  reader,        \* "reading", "spinning" in processJSPData's loop, or "panicked",
                 \* and the daemon with it
  extra,         \* Settings.Extra: barcode bytes, lockers and their uid
  reported,      \* the calls of onTagRead, onPassEvent and onBarcodeRead, and
                 \* the pongs, in order
  fetched,       \* history: uid and lockers of the tags that went on to a session
  replaced       \* history: for every packet cut off, whether the settings were
                 \* replaced while it was handled or after it, before the next

vars == <<conversation, received, settings, attached, buffer, reader, extra,
          reported, fetched, replaced>>

NoExtra == [usart |-> <<>>, lockers |-> <<>>, uid |-> 0]

-----------------------------------------------------------------------------
(* What a terminal says.  A length has two bytes, and a packet something in it. *)

PlainTag == [kind : {"tag"}, uid : Byte, lockers : {<<>>}, auth : {TRUE}]
LockerTag ==
  [kind : {"tag"}, uid : Byte, auth : BOOLEAN,
   lockers : {l \in Seq(Byte) : l # <<>> /\ 4 + 4 * Len(l) <= 65535}]
PassReport == [kind : {"pass"}, passed : BOOLEAN]
Scan == [kind : {"usart"}, bytes : {b \in Seq(Byte) : b # <<>> /\ Len(b) <= 65535}]
Pongs == [kind : {"pong"}]
Request == [kind : {"request"}, ticket : Byte]
Relay == [kind : {"relay"}, bytes : {b \in Seq(Byte) : b # <<>> /\ Len(b) <= 65535}]

\* DecodePacket reads past a RelayControlEx of this size.
Fatal(m) == m.kind = "relay" /\ Len(m.bytes) = 5

Message(type) ==
  CASE type = "pocket" ->
         PlainTag \cup LockerTag \cup PassReport \cup Scan \cup Pongs \cup Relay
    [] type = "gat" -> PlainTag \cup Pongs
    [] type = "sphinx" -> Request \cup Pongs
    [] type = "jsp" -> PlainTag \cup PassReport \cup Pongs

\* Every terminal is of one of the types, and says what terminals of its type say.
ASSUME TerminalsAreTyped ==
  \A c \in Conversations : c.type \in Types /\ c.messages \in Seq(Message(c.type))

-----------------------------------------------------------------------------
(* How it says it.  POCKET's DecodePacket and EncodePacket disagree on the       *)
(* checksum; a terminal may have been written after either.                  *)

\* DecodePacket takes the checksum's own bytes into the sum; with a low byte of
\* zero there is one high byte that makes it right.
SealedForDecoder(cmd, payload) ==
  LET packet(h) == PocketHeader(cmd, 0, payload) \o <<0, h>> \o payload
  IN packet(CHOOSE h \in Byte : CRC8(packet(h)) = 0)

Sealed(seal, cmd, payload) ==
  IF seal = "decoder" THEN SealedForDecoder(cmd, payload) ELSE PocketEncode(cmd, 0, payload)

PocketWire(seal, m) ==
  CASE m.kind = "tag" /\ m.lockers = <<>> -> Sealed(seal, 2, <<1, 0, 1, m.uid, 0>>)
    [] m.kind = "tag" /\ m.lockers # <<>> ->
         Sealed(seal, 3, <<1, m.uid, 0, 0>> \o
                         FlattenSeq([n \in DOMAIN m.lockers |->
                                       <<IF m.auth THEN 0 ELSE 16, 1, m.lockers[n], 0>>]))
    [] m.kind = "pass" -> Sealed(seal, 22, <<IF m.passed THEN 1 ELSE 0, 0>>)
    [] m.kind = "usart" -> Sealed(seal, 8, m.bytes)
    [] m.kind = "pong" -> Sealed(seal, 134, <<0, 0>>)
    [] m.kind = "relay" -> Sealed(seal, RelayControlEx, m.bytes)

GatWire(m) ==
  CASE m.kind = "tag" ->
         GatEncode(GatCardIdent, 0, 0, <<1, 1, 1, m.uid>> \o [n \in 1 .. 9 |-> 0])
    [] m.kind = "pong" -> GatEncode(GatReqMaster, 0, 0, <<1>>)

SphinxWire(m) ==
  CASE m.kind = "pong" -> SphinxEncode(SphinxCommand.start, <<>>)
    [] m.kind = "request" -> SphinxEncode(SphinxCommand.request, <<m.ticket, 87>>)

JspWire(m) ==
  CASE m.kind = "tag" -> JspEncode(<<JspCommand.tag_read, m.uid>>)
    [] m.kind = "pass" -> JspEncode(<<JspCommand.pass_report, IF m.passed THEN 1 ELSE 0>>)
    [] m.kind = "pong" -> JspEncode(<<JspCommand.pong, 0>>)

Wire(c, m) ==
  CASE c.type = "pocket" -> PocketWire(c.seal, m)
    [] c.type = "gat" -> GatWire(m)
    [] c.type = "sphinx" -> SphinxWire(m)
    [] c.type = "jsp" -> JspWire(m)

\* Every conversation on the wire, message by message.
WireOf == [c \in Conversations |-> [n \in DOMAIN c.messages |-> Wire(c, c.messages[n])]]

StreamOf == [c \in Conversations |-> FlattenSeq(WireOf[c])]

\* Terminals send bytes.
ASSUME TerminalsSendBytes ==
  \A c \in Conversations : StreamOf[c] \in Seq(Byte)

-----------------------------------------------------------------------------
(* Cutting the buffer into packets: what is cut off, and what remains *)

\* Variant: one packet is processed per read.
CutOnce(round, n) ==
  LET at[i \in 1 .. n + 1] ==
        IF round[i].then # "again" \/ round[i].frames # <<>>
        THEN [frames |-> round[i].frames, next |-> round[i].next, reader |-> "reading"]
        ELSE at[round[i].next]
  IN at

\* A loop over the buffer.  A round that begins at byte i cuts round[i].frames
\* off, leaves the buffer to start at round[i].next, and then goes on "again" or
\* leaves the reader in that state.  at[i] is what all rounds from i on do.
CutFrom(round, n) ==
  LET at[i \in 1 .. n + 1] ==
        IF round[i].then # "again"
        THEN [frames |-> <<>>, next |-> round[i].next, reader |-> round[i].then]
        ELSE LET rest == at[round[i].next]
             IN [frames |-> round[i].frames \o rest.frames, next |-> rest.next,
                 reader |-> rest.reader]
  IN at

CutUp(buf, round) ==
  LET cut == CutFrom(round, Len(buf))[1]
  IN [frames |-> cut.frames, rest |-> SubSeq(buf, cut.next, Len(buf)), reader |-> cut.reader]

\* A round that waits for more, one that drops bytes, one that finds a packet.
Waits(i) == [frames |-> <<>>, next |-> i, then |-> "reading"]
Skips(i) == [frames |-> <<>>, next |-> i, then |-> "again"]
Finds(frame, i) == [frames |-> <<frame>>, next |-> i, then |-> "again"]

\* Variant: a packet that is not complete yet is thrown away.
MarkedRoundForgetful(buf, overhead) ==
  [i \in 1 .. Len(buf) + 1 |->
     LET left == Len(buf) + 1 - i
         size == overhead + DecodeUint16(buf[i + 3], buf[i + 4])
     IN IF left < 8 THEN Waits(i)
        ELSE IF buf[i] # PocketMarker THEN Skips(i + 1)
        ELSE IF left < size THEN Waits(Len(buf) + 1)
        ELSE Finds(SubSeq(buf, i, i + size - 1), i + size)]

\* A marker, a length at bytes 4 and 5; 7 bytes of header for POCKET, 8 for
\* GAT.  With fewer than 8 bytes neither loop looks at the buffer.
MarkedRound(buf, overhead) ==
  [i \in 1 .. Len(buf) + 1 |->
     LET left == Len(buf) + 1 - i
         size == overhead + DecodeUint16(buf[i + 3], buf[i + 4])
     IN IF left < 8 THEN Waits(i)
        ELSE IF buf[i] # PocketMarker THEN Skips(i + 1)
        ELSE IF left < size THEN Waits(i)
        ELSE Finds(SubSeq(buf, i, i + size - 1), i + size)]

\* A line ends with CR LF.
SphinxRound(buf) ==
  [i \in 1 .. Len(buf) + 1 |->
     LET ends == {j \in i + 1 .. Len(buf) : buf[j - 1] = CR /\ buf[j] = LF}
     IN IF ends = {} THEN Waits(i)
        ELSE Finds(SubSeq(buf, i, Min(ends)), Min(ends) + 1)]

\* TryReadPacket on the buffer from i: false, the number of bytes missing, an
\* error or a packet, and where the buffer starts afterwards.  Text that has
\* no start is dropped; so is one byte where no packet can start.
TryReadPacket(buf, i) ==
  LET starts == {j \in i .. Len(buf) : buf[j] = JspStart}
      s == Min(starts)
      digits == SubSeq(buf, s + 1, s + 4)
      end == s + 5 + DecodeHex(digits)
      text == SubSeq(buf, s + 5, end - 1)
  IN IF starts = {} THEN [result |-> "false", next |-> Len(buf) + 1]
     ELSE IF Len(buf) < s + 4 THEN [result |-> "missing", next |-> s]
     ELSE IF ~IsHex(digits) THEN [result |-> "false", next |-> s + 1]
     ELSE IF Len(buf) < end THEN [result |-> "missing", next |-> s]
     ELSE IF buf[end] # JspEnd THEN [result |-> "false", next |-> s + 1]
     ELSE IF JspDecode(text) = Nothing THEN [result |-> "error", next |-> end + 1]
     ELSE [result |-> "packet", next |-> end + 1, text |-> text]

\* processJSPData calls it until bytes are missing.  Where it has no more
\* packets it means to leave its loop, but only leaves the switch, and the
\* loop never ends once the buffer is empty.
JspRound(buf) ==
  [i \in 1 .. Len(buf) + 1 |->
     LET try == TryReadPacket(buf, i)
     IN CASE try.result \in {"missing", "error"} -> Waits(try.next)
          [] try.result = "false" /\ try.next > Len(buf) ->
               [Waits(try.next) EXCEPT !.then = "spinning"]
          [] try.result = "false" /\ try.next <= Len(buf) -> Skips(try.next)
          [] try.result = "packet" -> Finds(try.text, try.next)]

\* processData's switch.
RoundOf(type, buf) ==
  CASE type = "pocket" -> MarkedRound(buf, 7)
    [] type = "gat" -> MarkedRound(buf, 8)
    [] type = "sphinx" -> SphinxRound(buf)
    [] type = "jsp" -> JspRound(buf)

Frames(type, buf) == CutUp(buf, RoundOf(type, buf))

-----------------------------------------------------------------------------
(* What a packet means *)

PocketEvent(data) ==
  LET packet == PocketDecode(data)
  IN IF packet \in {Nothing, Panic} THEN packet
     ELSE CASE packet.cmd = 2 -> PocketTag(packet.payload)
            [] packet.cmd = 3 -> PocketTagExtended(packet.payload)
            [] packet.cmd = 8 -> [kind |-> "usart", bytes |-> packet.payload]
            [] packet.cmd = 22 -> PocketInput(packet.payload)
            [] packet.cmd = 134 -> [kind |-> "pong"]
            [] OTHER -> Nothing

GatEvent(data) ==
  LET packet == GatDecode(data)
  IN IF packet = Nothing THEN Nothing
     ELSE CASE packet.cmd = GatCardIdent -> GatTag(packet.payload)
            [] packet.cmd = GatReqMaster -> [kind |-> "pong"]
            [] OTHER -> Nothing

\* A delegation request is logged only, and an OK finds no ping to answer.
SphinxEvent(line) ==
  LET packet == SphinxDecode(line)
  IN IF packet # Nothing /\ packet.cmd = SphinxCommand.start THEN [kind |-> "pong"]
     ELSE Nothing

JspEvent(text) ==
  LET packet == JspDecode(text)
  IN CASE packet.cmd = JspCommand.tag_read ->
            [kind |-> "tag", uid |-> packet.payload[1], auth |-> TRUE]
       [] packet.cmd = JspCommand.pass_report ->
            [kind |-> "pass", passed |-> packet.payload[1] = 1]
       [] packet.cmd = JspCommand.pong -> [kind |-> "pong"]
       [] OTHER -> Nothing

EventOf(type, frame) ==
  CASE type = "pocket" -> PocketEvent(frame)
    [] type = "gat" -> GatEvent(frame)
    [] type = "sphinx" -> SphinxEvent(frame)
    [] type = "jsp" -> JspEvent(frame)

-----------------------------------------------------------------------------
(* Barcodes: STX data ETX EOT in the payloads of POCKET's Signal packets *)

STX == 2
ETX == 3
EOT == 4
BarcodeStart == 93

\* parseBarcodeStream: what is before STX or not yet complete stays.
BarcodeRound(bytes) ==
  [i \in 1 .. Len(bytes) + 1 |->
     LET starts == {j \in i .. Len(bytes) : bytes[j] = STX}
         ends == {j \in Min(starts) + 1 .. Len(bytes) - 1 :
                    bytes[j] = ETX /\ bytes[j + 1] = EOT}
     IN IF starts = {} \/ ends = {} THEN Waits(i)
        ELSE Finds(SubSeq(bytes, Min(starts) + 1, Min(ends) - 1), Min(ends) + 2)]

ParseBarcodes(bytes) == CutUp(bytes, BarcodeRound(bytes))

\* processBarcodeData: ]<type><subtype><data>, 4 to 32 bytes.
BarcodeEvents(raw) ==
  IF Len(raw) \in 4 .. 32 /\ raw[1] = BarcodeStart
  THEN <<[kind |-> "barcode", data |-> SubSeq(raw, 4, Len(raw))]>>
  ELSE <<>>

-----------------------------------------------------------------------------
(* The handlers, over what they change *)

\* The barcodes found, behind what has been reported.
Tell(told, found) ==
  told \o FlattenSeq([n \in DOMAIN found |-> BarcodeEvents(found[n])])

\* Variant: barcodes stay in the buffer they were found in.
HandleSignalKeeping(st, bytes) ==
  LET all == st.extra.usart \o bytes
      parsed == ParseBarcodes(all)
  IN [st EXCEPT !.extra.usart = all,
                !.reported = Tell(@, parsed.frames)]

\* handlePocketSignal.
HandleSignal(st, bytes) ==
  LET parsed == ParseBarcodes(st.extra.usart \o bytes)
  IN [st EXCEPT !.extra.usart = parsed.rest,
                !.reported = Tell(@, parsed.frames)]

\* handlePocketTagReadExtended leaves the lockers in Settings.Extra.
KeepLockers(extras, event) ==
  IF "lockers" \in DOMAIN event /\ event.lockers # <<>>
  THEN [extras EXCEPT !.lockers = event.lockers, !.uid = event.uid]
  ELSE extras

\* Variant: whose lockers they are is not asked.
FetchAnyLockers(extras, uid) ==
  [lockers |-> extras.lockers, extra |-> [extras EXCEPT !.lockers = <<>>, !.uid = 0]]

\* ProcessTagRead takes them out if they belong to the uid it is called with.
FetchLockers(extras, uid) ==
  IF extras.lockers # <<>> /\ extras.uid = uid
  THEN [lockers |-> extras.lockers, extra |-> [extras EXCEPT !.lockers = <<>>, !.uid = 0]]
  ELSE [lockers |-> <<>>, extra |-> extras]

\* A tag: a uid in denied is turned away by a deny list or a mark before the
\* lockers are looked for.
HandleTag(st, event, denied) ==
  LET kept == KeepLockers(st.extra, event)
      fetch == FetchLockers(kept, event.uid)
      told == [kind |-> "tag", uid |-> event.uid, auth |-> event.auth]
  IN IF event.uid \in denied
     THEN [st EXCEPT !.extra = kept, !.reported = Append(@, told)]
     ELSE [st EXCEPT !.extra = fetch.extra, !.reported = Append(@, told),
                     !.fetched = @ \cup {[uid |-> event.uid, lockers |-> fetch.lockers]}]

HandleEvent(st, event, denied) ==
  CASE event = Nothing -> st
    [] event = Panic -> [st EXCEPT !.alive = FALSE]
    [] event.kind = "usart" -> HandleSignal(st, event.bytes)
    [] event.kind = "tag" -> HandleTag(st, event, denied)
    [] OTHER -> [st EXCEPT !.reported = Append(@, event)]

\* The list puts a new object in the place of the settings.
Renew(st) == [st EXCEPT !.extra = NoExtra]

\* Between what a handler puts into the settings and what it, or ProcessTagRead,
\* takes out again: bytes and lockers are lost, the ones that came with this
\* packet too.
HandleLosing(st, event, denied) ==
  CASE event.kind = "usart" -> st
    [] event.kind = "tag" ->
         HandleTag(Renew(st), [kind |-> "tag", uid |-> event.uid, auth |-> event.auth], denied)
    [] OTHER -> HandleEvent(st, event, denied)

\* When the list replaces the settings, seen from one packet: not at all, after
\* it and before the next, or amid its handling.  Then what the handler is at
\* work on is "lost", or, barcode bytes it has in hand and puts back into what
\* are new settings by now, "kept".
Moments == {"no", "kept", "lost", "after"}

HandlePacket(st, event, denied, moment) ==
  LET after == HandleEvent(st, event, denied)
  IN CASE ~st.alive -> st
       [] st.alive /\ moment = "no" -> after
       [] st.alive /\ moment = "kept" -> [Renew(after) EXCEPT !.extra.usart = after.extra.usart]
       [] st.alive /\ moment = "lost" -> Renew(HandleLosing(st, event, denied))
       [] OTHER -> Renew(after)

\* The packets of one read, one after the other.
HandleFrames(st, type, frames, denied, moments) ==
  LET after[n \in 0 .. Len(frames)] ==
        IF n = 0 THEN st
        ELSE HandlePacket(after[n - 1], EventOf(type, frames[n]), denied, moments[n])
  IN after[Len(frames)]

-----------------------------------------------------------------------------
(* Actions *)

Stream == StreamOf[conversation]

Init ==
  /\ conversation \in Conversations
  /\ received = 0
  /\ settings = NoType
  /\ attached = "never"
  /\ buffer = <<>>
  /\ reader = "reading"
  /\ extra = NoExtra
  /\ reported = <<>>
  /\ fetched = {}
  /\ replaced = <<>>

\* detectProtocol: a marker means POCKET, four other bytes GAT.
Detect(buf) ==
  CASE settings # NoType -> settings
    [] settings = NoType /\ buf[1] = PocketMarker -> "pocket"
    [] settings = NoType /\ buf[1] # PocketMarker /\ Len(buf) >= 4 -> "gat"
    [] OTHER -> NoType

Now == [extra |-> extra, reported |-> reported, fetched |-> fetched,
        alive |-> reader # "panicked"]

\* The moments at which these packets may find their settings replaced.
MomentsAmong(type, frames) ==
  IF conversation.by = "list"
  THEN {moments \in [DOMAIN frames -> Moments] :
          \A n \in DOMAIN frames :
            moments[n] = "kept" => EventOf(type, frames[n]).kind = "usart"}
  ELSE [DOMAIN frames -> {"no"}]

\* One turn of handleConnection's loop with n bytes from the connection.  What
\* no protocol is found for is thrown away.  When processData finds no settings,
\* the list may attach them before detectProtocol looks again: it does not
\* overwrite them, and goes by its guess all the same.
Read(n, denied) ==
  LET buf == buffer \o SubSeq(Stream, received + 1, received + n)
      type == Detect(buf)
      cut == Frames(type, buf)
      moments == MomentsAmong(type, cut.frames)
      overtaken == settings = NoType /\ conversation.by = "list"
  IN /\ reader = "reading"
     /\ received + n <= Len(Stream)
     /\ received' = received + n
     /\ \/ /\ type = NoType
           /\ settings' = NoType
           /\ buffer' = <<>>
           /\ UNCHANGED <<attached, reader, extra, reported, fetched, replaced>>
        \/ /\ type # NoType
           /\ \E during \in moments, early \in {FALSE, overtaken} :
                LET after == HandleFrames(Now, type, cut.frames, denied, during)
                    swapped == early \/ \E k \in DOMAIN during : during[k] # "no"
                IN /\ settings' = IF swapped THEN conversation.type ELSE type
                   /\ attached' = IF swapped /\ attached = "never" THEN "late" ELSE attached
                   /\ reader' = IF after.alive THEN cut.reader ELSE "panicked"
                   /\ extra' = after.extra
                   /\ reported' = after.reported
                   /\ fetched' = after.fetched
                   /\ replaced' = replaced \o during
           /\ buffer' = cut.rest
     /\ UNCHANGED conversation

\* The first time settings are attached.
AttachedFirst == IF attached # "never" THEN attached ELSE IF received = 0 THEN "first" ELSE "late"

\* The settings are replaced now: after the last packet, if it was not amid it.
ReplacedNow ==
  IF replaced = <<>> \/ Last(replaced) = "lost" THEN replaced
  ELSE [replaced EXCEPT ![Len(replaced)] = "after"]

\* Variant: the type is attached as the list spells it.
AttachRaw ==
  /\ attached = "never"
  /\ attached' = "late"
  /\ settings' = "POCKET"
  /\ UNCHANGED <<conversation, received, buffer, reader, extra, reported, fetched, replaced>>

\* Another goroutine attaches the settings.  At every check of the list
\* processTerminalFrom1C puts new ones into the connection, because the test
\* for a connection it has already looks for a key that no connection has, and
\* StartClient then returns the old one.  handleAPITerminalsAdd has a copy of
\* the connection, so that it reaches only settings that are there already.
Attach ==
  /\ reader # "panicked"
  /\ attached' = AttachedFirst
  /\ IF conversation.by = "list"
     THEN /\ settings' = conversation.type
          /\ extra' = NoExtra
          /\ replaced' = ReplacedNow
     ELSE /\ settings' = IF settings = NoType THEN NoType ELSE conversation.type
          /\ UNCHANGED <<extra, replaced>>
  /\ UNCHANGED <<conversation, received, buffer, reader, reported, fetched>>

Next ==
  \/ \E n \in ReadSizes, denied \in Denials : Read(n, denied)
  \/ Attach

Spec == Init /\ [][Next]_vars

-----------------------------------------------------------------------------
(* What the messages mean, told without buffers and reads *)

\* The messages of which every byte has been read.
Whole ==
  {n \in DOMAIN conversation.messages :
     Len(FlattenSeq(SubSeq(WireOf[conversation], 1, n))) <= received}

\* What is left in the settings of the scanner's bytes behind the first n
\* messages: nothing from before the settings were last replaced, and nothing of
\* the message amid which they were.
Tape(messages, n, moments) ==
  LET heard(k) == /\ messages[k].kind = "usart"
                  /\ \A j \in k .. n : moments[j] \in {"no", "kept"}
  IN FlattenSeq([k \in 1 .. n |-> IF heard(k) THEN messages[k].bytes ELSE <<>>])

\* The barcodes in bytes, as if they had come in one piece.
BarcodesOf(bytes) == Tell(<<>>, ParseBarcodes(bytes).frames)

\* A scan means the barcodes it completes, with the bytes that were heard before.
MeaningOf(messages, n, moments) ==
  LET m == messages[n]
      before == Tape(messages, n - 1, moments)
      now == BarcodesOf(before \o m.bytes)
  IN CASE m.kind = "tag" -> <<[kind |-> "tag", uid |-> m.uid, auth |-> m.auth]>>
       [] m.kind = "usart" /\ moments[n] # "lost" ->
            SubSeq(now, Len(BarcodesOf(before)) + 1, Len(now))
       [] m.kind = "usart" /\ moments[n] = "lost" -> <<>>
       [] m.kind \in {"request", "relay"} -> <<>>
       [] OTHER -> <<m>>

Meaning(messages, moments) ==
  FlattenSeq([n \in DOMAIN messages |-> MeaningOf(messages, n, moments)])

-----------------------------------------------------------------------------
(* Properties *)

\* What the handlers are called with.
Report ==
  [kind : {"tag"}, uid : Byte, auth : BOOLEAN] \cup [kind : {"pass"}, passed : BOOLEAN]
    \cup [kind : {"barcode"}, data : Seq(Byte)] \cup [kind : {"pong"}]

\* Every variable has its type, and the reader keeps no more than it has read.
TypeOK ==
  /\ conversation \in Conversations
  /\ received \in 0 .. Len(Stream)
  /\ settings \in Types \cup {NoType}
  /\ attached \in {"never", "first", "late"}
  /\ buffer \in Seq(Byte) /\ Len(buffer) <= received
  /\ reader \in {"reading", "spinning", "panicked"}
  /\ extra \in [usart : Seq(Byte), lockers : Seq(Byte), uid : Byte]
  /\ reported \in Seq(Report)
  /\ fetched \subseteq [uid : Byte, lockers : Seq(Byte)]
  /\ replaced \in Seq(Moments)

\* However TCP cuts the bytes into reads: when the settings were attached in
\* time, what the reader has reported and what it keeps, of packets and of
\* barcodes, is what a single read of all bytes so far would have left, also
\* of packets that cannot be decoded; a packet that ends the daemon ends it
\* either way.  Settings replaced later do matter, but only by the packets they
\* fall between.  Not so JSP, whose loop ends at a text that is none until the
\* next read, or never (processJSPData).
CutsDoNotMatter ==
  LET type == conversation.type
      cut == Frames(type, SubSeq(Stream, 1, received))
      start == [extra |-> NoExtra, reported |-> <<>>, fetched |-> {}, alive |-> TRUE]
      once == HandleFrames(start, type, cut.frames, {}, replaced)
  IN attached = "first" /\ conversation.by = "list" /\ type # "jsp" =>
       /\ buffer = cut.rest
       /\ Len(replaced) = Len(cut.frames)
       /\ reported = once.reported /\ extra.usart = once.extra.usart
       /\ reader = "panicked" <=> ~once.alive

\* However TCP cuts the bytes into reads, and the terminal a barcode into
\* Signals: when the settings were attached in time, the handlers have been
\* called for exactly the messages that have arrived whole, in their order; for
\* a barcode, if no check of the list fell between its Signals, or into one so
\* that its bytes were lost.  A RelayControlEx of five bytes ends the daemon, and nothing else does.
\* Not so GAT terminals, whose packets processGatData frames and DecodePacket
\* reads in different ways, and POCKET terminals that compute the checksum as
\* EncodePacket does.
ReportsWhatArrived ==
  LET whole == Cardinality(Whole)
      fatal == {n \in 1 .. whole : Fatal(conversation.messages[n])}
      last == IF fatal = {} THEN whole ELSE Min(fatal)
  IN (/\ attached = "first" /\ conversation.by = "list"
      /\ conversation.type # "gat" /\ conversation.seal = "decoder")
       => /\ Len(replaced) = whole
          /\ reported = Meaning(SubSeq(conversation.messages, 1, last), replaced)
          /\ reader = "panicked" <=> fatal # {}

\* Whatever the reader takes the terminal for before its settings arrive, and
\* whatever is thrown away when they do, at this and every later check of the
\* list: no handler is called for something that was not sent, twice for one
\* message, or out of order.
NothingInvented ==
  LET sent == Meaning(conversation.messages, [n \in DOMAIN conversation.messages |-> "no"])
  IN \E f \in [DOMAIN reported -> DOMAIN sent] :
       /\ \A i \in DOMAIN reported : reported[i] = sent[f[i]]
       /\ \A i, j \in DOMAIN reported : i < j => f[i] < f[j]

\* A session is given the lockers of no card but its own, although lockers are
\* kept in the settings from a tag that was turned away to the next one.
LockersBelongToCard ==
  \A f \in fetched :
    f.lockers = <<>> \/ \E n \in DOMAIN conversation.messages :
                          LET m == conversation.messages[n]
                          IN m.kind = "tag" /\ m.uid = f.uid /\ m.lockers = f.lockers
=============================================================================
