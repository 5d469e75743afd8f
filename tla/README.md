# Verification of the access-control daemon

This directory holds TLA+ models of the daemon that lives in `src/` (Go): it
keeps TCP connections to access terminals (turnstile readers), asks a 1C
service whether the holder of a card or a face may pass, answers the terminal
and reports the pass. The models are checked with TLC on small instances and
the main safety results are proved with TLAPS for every instance.

The repository has no tests of its own for these parts, and the daemon is
concurrent throughout: the value of the project is in the interleavings.

## 1. The system

### Components

| Component | Source | State it keeps | Operations | Model |
|---|---|---|---|---|
| Connection pool | `internal/connection/pool.go` | map of connections, map of scheduled reconnections, one RWMutex; per connection: socket, `Connected`, `Settings`, `LastActivity` | `StartClient`, `ConnectToTerminal`, `Disconnect`, `DropConnection`, `IdleProc`, `LockTerminal`, `Send`, `Close`, one reader goroutine per connection | `ConnPool` |
| Access sessions | `internal/session/manager.go` | map of sessions under a mutex; the fields of a session are shared without one | `StartSession`, `sendKpoRequest`, `Wait`, `ProcessSessionStage` and its stages, `CleanupExpiredSessions` | `Session`, `AccessDecision` |
| Daemon loop, terminal list | `internal/daemon/daemon.go` | terminal list, ping states, event channel | tick every 50 ms, `ProcessTagRead`, `ProcessPassEvent`, CRT callbacks, terminal list, commands, auto-ping | `TermList`; the rest of the tick in `ConnPool`, `Session`, `Faces` |
| Card lists | `internal/cardlist/cardlist.go` | two lists in memory and a JSON file | add, delete, sync, check, asynchronous save, load | `CardList` |
| Memory registration | `internal/connection/memreg.go`, `pkg/utils/memreg.go` | marks of cards per storage, in memory | toggle, set, clear at a terminal | `Admission` |
| Wire protocols | `internal/protocols/*` | per connection: byte buffer, JSP request ids | framing, encoding, resynchronisation, handlers of packets | `Codec`, `Framing` |
| CRT client (faces) | `internal/crt/client.go` | poll state, bans | poll, match, ban, callback into the daemon | `Faces`; the session it starts is in `Session` |
| Helios client | `internal/helios/client.go` | table of requests | request, events, expiry | not modelled: no path of the daemon starts a request |
| 1C HTTP client | `internal/httpclient/client.go` | none | requests with retries | retries and the list request in `TermList`; the outcomes of access requests are inputs of `Session` |
| Web API, events | `internal/daemon/web_api.go`, `web_ui.go` | none of its own | terminals, sessions, card lists, settings, event stream | connect/drop/configure are in `ConnPool`, the list of terminals in `TermList` |
| Log | `internal/logging/logger.go` | current and rotated files, a ring of entries | log, rotate, clean up, recent entries | `Logger` |
| Helpers | `pkg/utils` | none | CRC8, addresses, lockers, phrases | those others use: `Codec`, `TermList` |
| Configuration, storage, email, time | the rest | files | parsing, formatting, output | not modelled |

### How they interact

```
 terminal --bytes--> reader goroutine --tag--> ProcessTagRead --> StartSession
    ^                    |  (pool.go)             (daemon.go)        |   (manager.go)
    |                    +--pass--> ProcessPassEvent                 +--> goroutine: ask 1C
    |                                   |                            |
    +---- Send <---- ProcessSessionStage <---- main loop, 50 ms -----+
                          |                        |
                          +--> report to 1C        +--> IdleProc (reconnect, timeouts)
 CRT client --face--> handleCRTIdentification --> StartSession
 HTTP API ----> StartClient / Disconnect / DropConnection / settings
```

Everything is calls and shared memory between goroutines of one process; the
only durable state is the card list file and the logs.

### What is hard, and what makes each component correct

* **Pool.** Two maps and every connection's fields are shared by readers, the
  main loop and HTTP handlers; a `sync.RWMutex` is not reentrant. A dial lasts
  up to ten seconds. Readers name what they disconnect by *address*, not by
  object, so a reader may meet a successor of its own connection. Correct
  means: no socket is lost, no entry without a living reader, no terminal is
  forgotten, a removed one does not come back, and a reader ends when its
  socket does.
* **Sessions.** Four goroutines may touch one session, and no lock covers its
  fields: the one that starts it, the one that asks 1C, the main loop and, when
  a gate is open, the terminal's reader. Verdicts come late or never.
  Correct means: nobody is let in without a verdict, the log says what the
  terminal was told, a completed session stays completed, and every session
  ends.
* **Card lists.** Every change starts a goroutine that writes the file;
  writes are unordered, not atomic, and lost at a stop. Correct means: what the
  daemon starts with was once its contents, both lists of one moment.
* **Memory registration and admission.** Ask and mark are two steps, and a tag
  is put to two lists and the marks one after the other while all three change.
  Correct means: a reason that holds throughout is not missed.
* **Wire protocols.** A stream is cut into arbitrary reads, a barcode into
  arbitrary messages, and the first bytes may be framed before anybody has said
  which protocol they are. The list puts new settings into the connection at every
  check, and with them goes what a barcode or a tag has left there. Correct means:
  what arrived whole is reported once and in order, new settings cost no more than
  the barcode they part, and nothing that was not sent is reported.
* **Faces.** One goroutine per face reads the clock, waits for a lock, looks for
  the terminal and its sessions and starts one, all in separate steps, while
  bans expire and tags are read. Correct means: a ban holds, a face older than
  the daemon counts for nothing, and a face does not push in front of a session
  it could have seen.
* **Terminal list.** The main loop itself asks 1C, with sleeps; goroutines of
  earlier lists are still connecting when the next list comes. Correct means:
  the loop goes on, and in the end each terminal of a stable list is connected
  with that list's settings and shown so.
* **Log.** A rotation is four calls to the file system with the process free to
  die, or a call to fail, between any two. Correct means: no line is lost except
  with a file the limits remove, and the limits hold.

`cmd/main.go:105` stops the daemon ten seconds after its start, signal or not. The
models are of a daemon that runs, and so are the liveness claims.

`PROJECT.json` lists the hazards one by one, at their lines, with the
properties that watch them.

## 2. ConnPool

State corresponds to code as follows.

| Variable | Code |
|---|---|
| `mutex` | owner of `cp.mutex` where the lock is held across a step |
| `connections`, `reconnections` | the two maps; of a reconnection only whether `NTime` has passed |
| `keyOf`, `connected`, `sock`, `settings` | fields of a `Connection` object; of `Settings` only the type |
| `quiet` | keys whose `LastActivity` is older than `ServiceRequestExpireTime` |
| `reader`, `caller`, `main` | where the reader goroutines, the API handlers / list goroutines and the main loop stand |
| `wanted`, `stopped` | history: connected to and not removed since; `Close` was called |

A critical section that only touches memory is one action guarded by
`mutex = Free`. The lock is visible in the state only while its owner waits
with it: in `StartClient`'s dial and in the three calls that ask for the lock
their caller holds. Those have no successor: `sync.RWMutex` never grants them.

**Checked (`pool_safety`)** for one address, two successive connections and two
callers: `OpenSocketIsEntry`, `EntryHasReader`, `NoTerminalForgotten`,
`RemovedStaysRemoved`, `FrozenWhileHeld`. One address is enough for TLC because
actions on different addresses share only the lock, and two connections are
needed for a reader to meet its successor; the proofs remove both bounds.

**Checked (`pool_liveness`)** `ClosedSocketIsReaped`: the reader of a closed
socket ends, unless it spins in `processJSPData` or the pool is wedged. The two
exceptions are states the code reaches.

**Refuted (`pool_reconnect`)** `DueReconnectionIsAttempted`: `IdleProc` calls
`StartClient` for a due reconnection while it holds the lock, and so blocks for
ever; `internal/protocols/README.md:189` promises automatic reconnection. The
same happens at the first connection that is quiet for
`ServiceRequestExpireTime`, and in `LockTerminal`, which sends under the lock.

**Fairness.** Goroutines that can run do (the Go scheduler); strong where a
step waits for the mutex, since `sync.RWMutex` does not starve a waiter; a dial
ends (it has a timeout). Nothing is assumed of terminals or operators, nor
that a `Read` on an open socket returns; a `Read` on a closed one does.

## 3. Session and AccessDecision

| Variable | Code |
|---|---|
| `session` | the `Session` record: stage, wait, verdict `Data["kpo"]`, `Data["result"]`, pass flags, `Completed`, membership in the map |
| `starter` | the goroutine in `ProcessTagRead` or `handleCRTIdentification` and `StartSession` |
| `asker` | the goroutine `sendKpoRequest` starts |
| `worker` | `ProcessSessionStage` as run by the main loop and by the terminals' readers |
| `granted`, `shown`, `answers`, `reports`, `passed`, `gates`, `logged` | history |

A worker enters a session (the early returns and the wait), then acts on the
stage it saw; where the code sends, reports or logs first and writes the stage
afterwards, these are two steps, so another goroutine may come in between. A
pass event and the main loop may work on one session at the same time.
`Cameras` is a *set* of values: `POST /api/system/settings` may change the
switch between any two reads.

**Checked (`session`)**, one session of one terminal, both ways to start it, all
interleavings, with `service_autofix_expired` on, so that the fallback verdict
occurs (the theorems hold for both values): `StageHasData` (no unchecked assertion on missing data fails),
`AllowedOnlyIfGranted`, `LogMatchesAnswer`, `CompletedIsFinal` and
`RepeatsAreBounded`: because `Wait` is set after the session has been handed to the
main loop, a session may be answered twice, and a face's verdict may send it
back once more; the property says that this is all. One session is enough for
these properties since sessions share only the busy readers, the check for an
active session and a wedged pool; the proofs hold for any number.

**Abstract specification.** `AccessDecision` says what one session promises to the
person, to 1C and to the operator, with no stages, waits or goroutines: it is answered
a bounded number of times and lets in only on a grant; after an answer that let in,
1C is told of one pass at most; then one row is written, which says what was last
answered; then it is closed. A session sent through the gates keeps only the first
half: nobody gets in, is reported or logged without a grant. `DecisionIsKept` is the
refinement, with `Session`'s history variables and `Completed` for the variables of
`AccessDecision`, and every step of the starter, of the asker and of the stages in
between for a grant or for none of its steps. It relates what the single properties
leave apart: the *order* of answer, report, row and end when a late wait or a face's
verdict sends a session back in between.

The run is of `FairSpec`, so it also checks `SessionEnds`: a session ends whether
1C answers, answers late or never does.

**Refuted (`session_tag`)** `AuthenticatedTagIsChecked`: `checkTagReadDeny` reads
`Data["rfid"]["auth"]`, which nothing sets, so every tag of a configured
terminal is denied without asking 1C. **Refuted (`session_report`)**
`ReportFollowsPass`: the pass is reported when it is granted, not when it
happens.

**Fairness.** The goroutines run; the tick takes up every active session (strong:
the main loop may be busy with another one); time passes, so a wait falls due.
1C may never answer, and no session needs to expire.

The two gate stages are excepted from `LogMatchesAnswer`, `CompletedIsFinal`,
`RepeatsAreBounded`, most of `DecisionIsKept` and `SessionEnds`: they end without an answer, their stages
wait for events with no timeout, and two workers may handle them at once.

## 4. CardList and SnapshotStore

| Variable | Code |
|---|---|
| `gmclist`, `mclist` | the two maps; a message is a model value, and so is the empty one |
| `writer` | the goroutines of `persistAsync`, each with its copy of both maps |
| `file` | `cardlist.json`: the snapshot its text starts with, and the length of the text |
| `past`, `clean` | history: every pair of lists there has been; no save overlapped or failed since the last change |

`os.WriteFile` is two steps, the opening that truncates and one write at offset
zero. A text shorter than what another goroutine has written meanwhile leaves
the end of that one behind it, which does not parse (`Parses`): hence the
lengths, `Size`, a constant function of the snapshot. A write that fails may
leave any number of bytes. `Restart` is a stop at any moment followed by `Load`.

**Abstract specification.** `SnapshotStore` says what such a store can promise at
best: contents change, and a restart takes up some earlier contents as a
whole. `RestartsFromPast` is its instance with `current <- Data`. It does not
promise the *latest* contents, and the code does not give them: of two saves
under way, the older may be the last to write.

**Checked (`cardlist`)** with one card, two messages (nine snapshots of four
lengths) and two saves at a time, so that a mixture of snapshots, a longer text
under a shorter one, and a save overtaken by another all occur:
`RestartsFromPast`, and `LastChangeIsSaved`: a change made while no save was under
way is durable once it is saved. One card is enough: what is lost or mixed is
a whole list.

## 5. Admission

`Admission` extends `CardList` with the readers of doors (`ProcessTagRead` up to
`StartSession`, where `Session` begins) and of registration devices
(`handleMemRegDevice`), and with the marks. Each look at a list or at the marks is
a step, since each takes a lock of its own. `barred` is a history: the reasons
that have held ever since the card was read.

**Checked (`admission`)** with one card, one door, a device that toggles marks and
one save at a time: `AdmittedWasNotBarred`, a reason that holds throughout keeps the
card out. It takes the lists one by one: a card moved from the secondary to the
global list between the two checks is on a list throughout and passes.

The empty message stands for "not listed" (`cardlist.go:56`, `daemon.go:1179`), so a
card listed without a message passes, while `internal/cardlist/cardlist.go:15` says
that the list blocks. The model does as the code: see `Denies`.

## 6. Codec and Framing

`Codec` holds the packets of the four protocols as functions on sequences of
bytes: lengths, markers, checksums and hexadecimal digits are computed, because
they decide where a packet ends; contents are cut down to what the handlers tell
apart. `Framing` is one terminal's reader.

| Variable | Code |
|---|---|
| `conversation`, `received` | what the terminal sends, and how far it has been read |
| `settings`, `attached` | `conn.Settings.Type`; whether settings have been attached, and if the first time was before the first byte |
| `buffer`, `reader` | `conn.Buffer` or `JSPConn.Buffer`; "spinning" is `processJSPData` after its `break` that only leaves the switch, "panicked" a reader that ended the daemon |
| `extra` | `Settings.Extra`: bytes of barcodes, lockers and whose they are |
| `reported`, `fetched` | history: calls of the handlers, in order; lockers that went on to a session |
| `replaced` | history: for each packet cut off, whether the list replaced the settings amid it, or after it and before the next |

`Read` is one turn of `handleConnection`: append, detect, frame, decode, handle.
`Attach` is the other goroutine, as often as it likes: every check of the list gets past
its test for a connection (`daemon.go:1076` looks up `type_ip_port` among keys `ip:port`),
is given the old connection by `StartClient` (`pool.go:110`), and puts a new object in
the place of `conn.Settings` (`daemon.go:1111`), the bytes in `usart_buf` and the lockers
of the last tag gone. The reader holds no lock, so this may also happen inside `Read`:
`during` chooses one of `Moments` for each packet,

* `"no"`: the settings are not replaced while it is handled, nor before the next;
* `"after"`: they are when its handler is through, before the next packet;
* `"lost"`: amid the handler, between what it puts into the settings and what it, or
  `ProcessTagRead`, takes out: the Signal's bytes, or the tag's lockers, are gone too;
* `"kept"`: amid `parseBarcodeStream`, which has the bytes in hand and puts what is left
  of them into the new settings.

The reference is `Meaning`, which says what the messages mean without buffers or reads,
given those moments: a barcode is heard if the settings are not replaced between its first
Signal and its last, and no Signal is lost amid its handling (`Tape`). Tags, passes and pongs do not depend on them.

`DecodePacket` asks of a RelayControlEx (0x15) for five bytes and reads the sixth
(`pocket/protocol.go:225-228`). With a payload of five and a checksum that fits it panics
in the reader's goroutine, where nothing recovers: `PocketDecode` is `Panic`, the reader
"panicked", and nothing happens any more. It is the only packet of the four protocols
whose decoding panics; the terminals of the run send one. The other modules do not
follow a panic: there the process has ended.

`Message` is what a terminal of each type may say, of any uid, lockers and bytes, as
long as its length fits the two bytes of a header. `TerminalsAreTyped` says that the
conversations are made of it, `TerminalsSendBytes` that they are bytes on the wire.
`ChecksumsCanBeMade` (in `Codec`) has no parameter: that XOR undoes itself and that the
checksum's eight shifts reach every byte, which TLC works out byte by byte. By it
there is a checksum that `DecodePacket` accepts, whatever the payload.

**Checked (`framing`)**, every cut into reads of the sizes in the .cfg, settings attached
before, between or after the reads, through the list or the API, replaced by the list
between any two packets and amid each, and tags that the lists turn away or not (33,788
distinct states): `CutsDoNotMatter` (for POCKET, GAT and SPHINX: what is told
and kept is what one read of all the bytes would have left in which the settings are
replaced at the same packets, of bytes that mean nothing too), `ReportsWhatArrived`,
`NothingInvented`, `LockersBelongToCard`. The conversations hold a uid equal to POCKET's
marker, one equal to JSP's start, a SPHINX parameter equal to CR, barcodes with half their
end inside and cut at every byte, tags with lockers interleaved with others, and a
RelayControlEx that can be decoded and one that cannot, each with messages behind it.

`CutsDoNotMatter` and `ReportsWhatArrived` are for settings first attached before the
first byte, since a guess of the protocol does depend on the cuts. A barcode parted by
new settings is lost, as the code does it; no document promises otherwise.

Two things the code does that `ReportsWhatArrived` also excepts. No GAT packet is ever
reported: `processGatData` (`pool.go:871`) looks for POCKET's marker and a length at
bytes 4 and 5, `gat.DecodePacket` expects the length first, and counts the checksum in
where `gat.EncodePacket` does not; `internal/protocols/README.md:57-60` says that
all protocols report tags, and `READINESS_SUMMARY.md:14` counts GAT as 90% ready. (Without the conjunct on
`"gat"` TLC finds the counterexample.) And `pocket.DecodePacket` verifies a checksum
that `pocket.EncodePacket` does not compute, so a terminal written after the latter is
not understood; messages sealed so are in the run, and invent nothing.

## 7. Faces

| Variable | Code |
|---|---|
| `caught`, `now` | Vizir's events; one clock for both sides, which never compare their times |
| `fetchedTime`, `camEvents`, `banIdleNext` | fields of `CRTClient` of the polling |
| `personCamBan` | the bans, under `c.mutex` |
| `fetcher` | the goroutine of each face: match details, person card, ban, terminal, sessions, start, data |
| `settings`, `session` | the terminals of the connections; of a session whether it is active, where, and its face |
| `passOnly` | `config.CRTBanPassOnly` |
| `banned`, `baseline` | history: start of the latest ban; newest face at the first poll |

**Checked (`faces`)** with two cameras, one of them linked, two people (one whose id is
too long), one terminal that comes and goes, two sessions, three faces and four
moments: `BanHolds`, `NobodyFromBefore`, `FaceWaitsForTerminal`. Three faces are needed for a
baseline, a ban and a face that meets it; a ban of two units can be running, just
over and dropped within four. `BanHolds` is about the camera's verdict: a face
already let through may still start its session while that ban runs.
`FaceWaitsForTerminal` says what the separate steps can
keep: a session that was active throughout is respected. One that starts between the
check and `StartSession` is not (`daemon.go:1552`), so two sessions of one terminal
are reachable, and after a pass the ban may then go to the other's face.

The code also loses faces: it takes the newest per camera of each poll, moves the
date one second past the newest (`client.go:243`), and does not repeat a stage that
failed. The model does the same; no document promises otherwise.

## 8. Logger

| Variable | Code |
|---|---|
| `file`, `rotated` | the current file and those renamed, under the second of their name, with the numbers of their lines and their bytes |
| `handle`, `size`, `lastCheck` | `logFile`, `logFileSize`, `lastRotationCheck` |
| `ring`, `pos` | the ring of recent entries |
| `pc` | where `log` stands: close, rename, open, clean up and write are steps; `l.mutex` lets one writer in |
| `log`, `first`, `clobbered`, `cleaned`, `undercounted` | history |

**Checked (`logger`)** with four configurations (by size with one or two files kept, by
age, none), four lines of two sizes, three seconds, a day of one second and a ring of
two: `LinesSurvive`, `SizeIsBounded`, `RecentLogsAreLatest`, across crashes in every place,
failing renames and opens, `Close` and restarts. Four lines overflow the file twice
and the ring twice, and three seconds let two rotated files stand, one of them in
excess.

Two exceptions are what the code does: a second rotation within one second renames
over the first file (`logger.go:206`), so lines are lost before any limit of
`CONFIG.md:238-241` is reached, and after a rename that fails the size is reset although
the file is not empty (`logger.go:217`).

## 9. TermList

| Variable | Code |
|---|---|
| `check` | the attempt at which `Request1C` is, called by the main loop |
| `terminalList`, `status` | `config.TerminalList` and the `_connected` notes in it |
| `task` | goroutines in `processTerminalFrom1C`, counted by entry and place |
| `connection` | address -> whose `Settings` the connection there has |
| `wedged` | the pool's lock is lost (see ConnPool) |
| `offered`, `drops` | 1C's present answer; connections that broke |

**Checked (`termlist`)** with a terminal, another one that takes its address while the
first moves to a port of its own, and an entry without an address, two lists, one
retry: `CheckEnds`, `ListedTerminalIsServed`, `ConnectedIsShown`. Two lists are enough for a
goroutine to outlive its list in both directions; `MaxTasks` bounds goroutines per
entry, `MaxDrops` the connections that break.

**Fairness.** The loop and the goroutines run, requests and dials end (both have
timeouts). `ListedTerminalIsServed` also assumes, as its antecedent, that a 1C asked again
and again sends its list at some time, and a terminal dialled again and again
accepts; that the pool is not locked out is part of the property.

Seen while modelling, and left to prose: `updateTerminalConnectionStatus` finds an entry
only when its text of IP has neither port nor type (`Matches`); `GetTerminalList` and
the status writer touch one Go map without a common lock (`pool.go:1527`,
`daemon.go:1157`), which the runtime may answer by ending the process; a terminal that
moved leaves its old connection with the same id, and a face may be taken to that one
(`daemon.go:1533`).

## 10. Proofs

The eight modules `ConnPoolProofs`, `SessionProofs`, `CardListProofs`, `AdmissionProofs`,
`FacesProofs`, `TermListProofs`, `LoggerProofs` and `FramingProofs` prove, with no
assumption but the named `ASSUME`s on the constants (they are distinct, switches are
Booleans, lengths and bounds are naturals, terminals say what section 6 lets them) and
the fact `ChecksumsCanBeMade`, for any number of terminals, connections, callers,
sessions, cards, faces, lines, goroutines, messages, bytes and reads:

| Theorem | Says |
|---|---|
| `PoolTypeCorrect`, `NoSocketLeaks`, `NoZombieEntry`, `TerminalRemembered`, `RemovalIsFinal`, `HeldLockFreezesPool` | the six properties of `pool_safety` |
| `SessionTypeCorrect`, `StagesHaveData`, `NoEntryWithoutGrant`, `LogIsTruthful`, `RepeatsHaveBound`, `CompletionIsFinal`, `SessionKeepsDecision` | those of `session` but `SessionEnds`, the last one the refinement of `AccessDecision` |
| `CardListTypeCorrect`, `CleanChangeIsDurable`, `RestartIsConsistent` | those of `cardlist`, the last one the refinement of `SnapshotStore` |
| `AdmissionTypeCorrect`, `BarredCardStaysOut` | those of `admission` |
| `FacesTypeCorrect`, `NobodyFromBeforeStart`, `BanIsKept`, `FaceWaits` | those of `faces` |
| `TermListTypeCorrect`, `ListShowsConnected` | the invariants of `termlist` |
| `LoggerTypeCorrect`, `FilesHoldLatest`, `FilesAreBounded`, `RingHoldsLatest`, `ShowsTheLatest` | the invariants of `logger`; `RingHoldsLatest` is the part of `RecentLogsAreLatest` about the ring |
| `FramingTyped`, `CutsNeverMatter`, `WhatArrivedIsReported` | the first three invariants of `framing`, for all that may be sent and settings replaced anywhere |
| `LockersStayWithCard` | `LockersBelongToCard` where the first settings were attached in time, and replaced anywhere |

Every inductive invariant below was checked by TLC as an invariant of the run
before it was proved.

*Pool.* The properties are not inductive: `EntryHasReader` survives a dial only if
the owner of the lock is the caller that dials and the new object is unused. The
invariant adds where the owner of the lock stands, that an unused object
belongs to nobody, that the reader of a listed object has not finished, and
that what is listed or scheduled is wanted. The reader that disconnects by key
is the interesting case: either the entry under its key is its own, or it takes
away another object, whose own reader then finds nothing.

*Sessions.* `NoEntryWithoutGrant` needs the verdict's way through the session: a
YES in `Data["kpo"]` was granted, a result `1` came from such a YES, a worker
that is about to move a session to PASSED saw it (`GrantTravels`). `LogIsTruthful`
and `CompletionIsFinal` need that outside the gates only the main loop works on
a session (`OnlyMainLoop`), and that an answered session keeps its result until
it is answered again (`AnswerStays`).

The bound on repeats is the sum `Counted`: the answers given, plus one while the
session is on a stage that leads to an answer, plus one while a wait may still send it
back, never exceed two, or three once a face's verdict has sent it back; and the
reports made, plus one while the session is on PASSED, never exceed the answers. The
stage that counts is the one the main loop is handling, if it is: whatever the starter
writes meanwhile, the main loop writes over. So a wait that ends moves its one from
"wait ahead" to "answer ahead", and an answer moves that one to those given.
`SessionKeepsDecision` takes its guards from these invariants: an answer has its place
below the bound, because it was ahead; a report its answer, because it was due; the row
says what was last told, because the result has not changed since (`AnswerStays`);
and nothing comes after the row, because a session with a row is completed or about to
be. Every other step touches none of the outcome and is a grant or a stutter.

*Card lists.* The refinement holds because all a restart could find, or come to
find, is past: what is in memory, with a goroutine, or at the start of the file
(`PastHolds`). Durability needs the shape of a clean save (`CleanSave`): one
goroutine at most is under way, it carries the lists as they are, and after its
truncation the file stays empty until it writes.

*Admission.* Past a check the reason it looked for is out of the history
(`ChecksHold`), and a reason once out does not come back during a reading.

*Faces.* Types need an argument of their own: a goroutine may be started over
another only if a face were polled twice, and that it is not follows from the time to
poll from, which is past every face taken up (`Polled`, from the order of Vizir's
events). The same fact puts everybody before the baseline out of reach. `BanHolds`
needs that a ban is where its latest start says, or was dropped when it was over
(`BansKept`), also when the goroutine that bans read the clock long before it gets
the lock. `FaceWaitsForTerminal` needs that the sessions found are still of the
terminal found, and not active any more once the check is past (`Waited`).

*Terminal list.* What 1C tells, and what goroutines of earlier lists attach, is
arbitrary; a terminal's row is found by the address of its text or by its id, and
one of the two always leads to its connection.

*Log.* `LinesSurvive` is inductive together with facts about time: no file is from
the future, and the order of names is that of modification (`FilesInTime`), so a
rename puts the newest lines under the newest name, and what the clean-up takes is
older than what it leaves (`OldestGo`). `SizeIsBounded` needs that the logger counts
no less than the file has, across restarts and `Close`, and that it asked before it
writes (`NoneUncounted`). The ring is described by the age of a slot (`RingIsLatest`):
how many lines came after the one in it. `ShowsTheLatest` follows the loop of
`GetRecentLogs` round the ring: what it has shown at a slot are the latest lines of the
level among those of the slots it has passed, by induction over the slots.

*Framing.* The four loops over the buffer and the one over barcodes are one function of
their rounds (`CutFrom`). Of a round the proofs need that it goes forward (`IsRound`);
that with more bytes it does what it did, or goes on where it waited (`LoopGoesOn`); and
that it does not look behind where it stands (`LoopIsShifted`). So what two reads cut off,
one cuts off (`LoopsGoOn`), and since what a handler tells depends on the packet and the
barcode's bytes alone, not on lockers or on who is turned away (`EventHandled`,
`PacketHandled` with the moment of a replacement), `CutsDoNotMatter` is inductive: the
moments of two reads are those of one, one behind the other (`HandledOneByOne`), and a
replacement between two reads is one after the last packet (`ReplacedNowIs`). JSP's rounds
lack the second: the loop ends at a text that is none. `FramingTyped` needs that every
decoder reads inside its packet, but for the one that panics, which reports nothing.

`WhatArrivedIsReported` holds for JSP too, because its terminals send packets. Its
invariant is `ReportsInv`: the reader has told the messages that arrived whole, to the
first that ends the daemon (`LastTold`), keeps the bytes behind the last of them, and of
barcodes what the Signals since the last replacement have left. A read then begins at the beginning of a message, and

1. every message stands in the stream behind those before it (`MessageStands`), and
   those that have arrived whole are the first ones (`FirstAreWhole`);
2. a loop that stands at the beginning of a message cuts its packet off if it is
   whole, and leaves it where it stands if not (`MessageIsCut`, per protocol:
   `PocketCuts`, `LineCuts`, `JspCuts`), so by induction it cuts off exactly the
   packets of the whole ones (`MessagesAreCut`);
3. the packet means what the message said (`PocketMeans`, `SphinxMeans`, `JspMeans`). For
   POCKET, a checksum that is right exists: one byte decides it (`OneByteDecides`);
4. the barcodes of one more Signal are those that the bytes heard so far complete
   (`BarcodesOneMore`, from `LoopsGoOn`), and what is heard is the Signal's bytes behind
   those before, or nothing where the settings are replaced (`TapeOneMore`), so one more
   event tells one more message (`TellsNext`).

`LockersStayWithCard` adds to it that lockers, kept or handed on, came with their uid: new
settings hold none (`RenewedKeepsLockersOwned`), and a tag amid which they are replaced
takes none along (`PacketKeepsLockersOwned`).
SPHINX's packets have no checksum and no length, and need none: CR LF stands in no
line but at its end. Inductions are done on sets of naturals (`NatSetInduction`, from
the least element of one), over bytes, messages, packets and rounds.

### Only model-checked

Liveness (`ClosedSocketIsReaped`, `SessionEnds`, `CheckEnds`, `ListedTerminalIsServed`) and
the refuted properties are TLC's alone: liveness under fairness is beyond the
prover. So is what `Framing` says of a reader without its settings in time:
`NothingInvented`, and `LockersBelongToCard` beyond `LockersStayWithCard`. A reader that guesses
the protocol, or refuses a checksum, walks through payloads, and a payload may hold
bytes that read as a packet: neither property is true of every conversation, and
they are checked for those of the run. In time, `NothingInvented` follows from
`WhatArrivedIsReported`: what was told is a beginning of what was meant.

## 11. Not modelled

Wording, formatting, pages, statistics, CSV and SQLite output, the email digest,
time zones and INI parsing: no property is about them. `UnlockTerminal`,
`StartServer`, `ProcessSession` and the stage functions behind it,
`HandlePassEvent`, `AddSessionRequest` of the CRT client and every request of the
Helios client have no caller in the program. The auto-pings
(`daemon.go:374-557`) look for ping states that only `StartServer`
initialises, for connections the daemon never accepts, so none is sent, although `READINESS_SUMMARY.md:85` counts them as
working. The event stream drops and divides events by design, and nothing depends on
them. A data race on `Session.Data` (a Go map) may stop the program; nothing follows
that.

Of the wire protocols the encoders of messages and relays, the interactive packets,
the fields a GAT terminal keeps for solariums and JSP's table of requests are left
out: they end at the socket or in a field nobody reads.

## 12. Plan

1. The refinement of an abstract pool, and a bound on what a guessed protocol can cost.
2. The gates of `Session` with a count of their repeats, two sessions of one terminal.
3. Commands on the TCP port and the daemon's shutdown.
