------------------------------ MODULE ConnPool ------------------------------
(***************************************************************************)
(* The pool of TCP connections to access terminals                         *)
(* (internal/connection/pool.go) and the goroutines that share it:         *)
(*                                                                         *)
(*   - one reader goroutine per Connection object (handleConnection),      *)
(*   - the daemon's main loop, which calls IdleProc every 50 ms,           *)
(*   - callers: the HTTP handlers of web_api.go and the goroutines that    *)
(*     connect the terminals of the list received from 1C.                 *)
(*                                                                         *)
(* cp.mutex is a sync.RWMutex: it is not reentrant.  A critical section    *)
(* that only touches memory is one action guarded by mutex = Free (so is   *)
(* a read section: it waits for a writer and holds nobody up).  The write  *)
(* lock is visible in the state only where its owner waits while holding   *)
(* it: StartClient while it dials, and the three places that ask for the   *)
(* lock they already hold (IdleProc -> StartClient, IdleProc ->            *)
(* disconnect, LockTerminal -> Send).  Nothing can follow such a request,  *)
(* so those goroutines have no further action.                             *)
(***************************************************************************)

CONSTANTS
  Keys,       \* terminal addresses "ip:port", the keys of both maps
  Conns,      \* identities of Connection objects; bounds how many are made
  Callers,    \* goroutines of API handlers and of the terminal list
  Types,      \* terminal types in use; gat stands for sphinx too
  Free,       \* mutex: nobody holds the write lock
  MainLoop,   \* mutex: the daemon's main loop holds it
  NoConn,     \* no entry in the connection map
  NoKey       \* no terminal address

ASSUME ConstantsAreDistinct ==
  /\ NoConn \notin Conns
  /\ NoKey \notin Keys
  /\ Callers \cap Conns = {}
  /\ MainLoop # Free
  /\ {Free, MainLoop} \cap (Callers \cup Conns) = {}

ASSUME TypesAreKnown == Types \subseteq {"pocket", "gat", "jsp"}

VARIABLES
  mutex,          \* owner of the write lock across steps
  connections,    \* key -> Connection object, or NoConn
  reconnections,  \* key -> none | waiting (NTime ahead) | due (NTime passed)
  keyOf,          \* Connection.Key
  connected,      \* Connection.Connected
  sock,           \* Connection.Conn: unused | open | closed
  settings,       \* Connection.Settings: nil, or the terminal type
  quiet,          \* keys whose entry has a LastActivity older than
                  \* ServiceRequestExpireTime
  reader,         \* where the object's reader goroutine stands
  main,           \* where the main loop stands
  caller,         \* where each caller stands, on which key, on whose behalf
  wanted,         \* history: terminals connected to and not removed since
  stopped         \* history: Close was called by Stop

poolVars == <<connections, reconnections, wanted>>
connVars == <<keyOf, connected, sock, settings, quiet>>
vars == <<mutex, poolVars, connVars, reader, main, caller, stopped>>

Settings == {"nil", "blank"} \cup Types
Purposes == {"add", "list", "connect", "none"}
ReaderStates == {"none", "reading", "handling", "tag", "starting", "locking",
                 "failing", "spinning", "selfLocked", "exited"}
MainStates == {"tick", "timeouts", "rest", "inStartClient", "inDisconnect"}
CallerStates == {"ready", "checked", "dialing", "attach", "dropping"}

Idle == [pc |-> "ready", key |-> NoKey, by |-> "none"]

TypeOK ==
  /\ mutex \in {Free, MainLoop} \cup Callers \cup Conns
  /\ connections \in [Keys -> Conns \cup {NoConn}]
  /\ reconnections \in [Keys -> {"none", "waiting", "due"}]
  /\ keyOf \in [Conns -> Keys \cup {NoKey}]
  /\ connected \in [Conns -> BOOLEAN]
  /\ sock \in [Conns -> {"unused", "open", "closed"}]
  /\ settings \in [Conns -> Settings]
  /\ quiet \in SUBSET Keys
  /\ reader \in [Conns -> ReaderStates]
  /\ main \in MainStates
  /\ caller \in [Callers -> [pc : CallerStates, key : Keys \cup {NoKey}, by : Purposes]]
  /\ wanted \in SUBSET Keys
  /\ stopped \in BOOLEAN

Init ==
  /\ mutex = Free
  /\ connections = [k \in Keys |-> NoConn]
  /\ reconnections = [k \in Keys |-> "none"]
  /\ keyOf = [c \in Conns |-> NoKey]
  /\ connected = [c \in Conns |-> FALSE]
  /\ sock = [c \in Conns |-> "unused"]
  /\ settings = [c \in Conns |-> "nil"]
  /\ quiet = {}
  /\ reader = [c \in Conns |-> "none"]
  /\ main = "tick"
  /\ caller = [p \in Callers |-> Idle]
  /\ wanted = {}
  /\ stopped = FALSE

----------------------------------------------------------------------------
(* Definitions marked "Variant" are what a plausible slip in the code would *)
(* make of the definition that follows them; no specification uses them.    *)

\* Variant: the reconnection is not scheduled.
DisconnectNoSchedule(k) ==
  LET c == connections[k] IN
  IF c = NoConn THEN UNCHANGED <<poolVars, connected, sock>>
  ELSE /\ connected' = [connected EXCEPT ![c] = FALSE]
       /\ sock' = [sock EXCEPT ![c] = "closed"]
       /\ connections' = [connections EXCEPT ![k] = NoConn]
       /\ UNCHANGED <<reconnections, wanted>>

\* Variant: the reconnection is scheduled even if there is no entry.
DisconnectAlwaysSchedules(k) ==
  LET c == connections[k] IN
  /\ reconnections' = [reconnections EXCEPT ![k] = "waiting"]
  /\ IF c = NoConn THEN UNCHANGED <<connections, wanted, connected, sock>>
     ELSE /\ connected' = [connected EXCEPT ![c] = FALSE]
          /\ sock' = [sock EXCEPT ![c] = "closed"]
          /\ connections' = [connections EXCEPT ![k] = NoConn]
          /\ UNCHANGED wanted

\* Variant: the entry is marked and closed, not deleted.
DisconnectKeepsEntry(k) ==
  LET c == connections[k] IN
  IF c = NoConn THEN UNCHANGED <<poolVars, connected, sock>>
  ELSE /\ connected' = [connected EXCEPT ![c] = FALSE]
       /\ sock' = [sock EXCEPT ![c] = "closed"]
       /\ reconnections' = [reconnections EXCEPT ![k] = "waiting"]
       /\ UNCHANGED <<connections, wanted>>

\* disconnect: whatever connection the map holds under the KEY is closed and
\* removed, and a reconnection is scheduled for it.
Disconnect(k) ==
  LET c == connections[k] IN
  IF c = NoConn THEN UNCHANGED <<poolVars, connected, sock>>
  ELSE /\ connected' = [connected EXCEPT ![c] = FALSE]
       /\ sock' = [sock EXCEPT ![c] = "closed"]
       /\ reconnections' = [reconnections EXCEPT ![k] = "waiting"]
       /\ connections' = [connections EXCEPT ![k] = NoConn]
       /\ UNCHANGED wanted

----------------------------------------------------------------------------
(* Callers.                                                                 *)

Goto(p, pc) == caller' = [caller EXCEPT ![p].pc = pc]
Finish(p) == caller' = [caller EXCEPT ![p] = Idle]

\* A handler decides to connect to k.  ConnectToTerminal looks the key up
\* under the read lock first; the terminal list looks up "type_ip_port",
\* which no entry has, so its check never stops it.
BeginConnect(p, k, by) ==
  /\ caller[p].pc = "ready"
  /\ mutex = Free
  /\ by = "connect" => connections[k] = NoConn
  /\ caller' = [caller EXCEPT ![p] = [pc |-> "checked", key |-> k, by |-> by]]
  /\ UNCHANGED <<mutex, poolVars, connVars, reader, main, stopped>>

\* What follows StartClient: ConnectToTerminal returns, the others set the
\* terminal's settings.
AfterStart(p) == IF caller[p].by = "connect" THEN Finish(p) ELSE Goto(p, "attach")

\* Variant: the lock is released for the dial.
StartClientUnlocked(p) ==
  LET c == connections[caller[p].key] IN
  /\ caller[p].pc = "checked"
  /\ mutex = Free
  /\ IF c # NoConn /\ connected[c]
     THEN AfterStart(p)
     ELSE Goto(p, "dialing")
  /\ UNCHANGED <<mutex, poolVars, connVars, reader, main, stopped>>

\* StartClient up to the dial: a connected entry is reused; otherwise the
\* caller dials, up to TerminalConnectTimeout, with the lock held.
StartClient(p) ==
  LET c == connections[caller[p].key] IN
  /\ caller[p].pc = "checked"
  /\ mutex = Free
  /\ IF c # NoConn /\ connected[c]
     THEN AfterStart(p) /\ UNCHANGED mutex
     ELSE Goto(p, "dialing") /\ mutex' = p
  /\ UNCHANGED <<poolVars, connVars, reader, main, stopped>>

DialFails(p) ==
  /\ caller[p].pc = "dialing"
  /\ mutex' = Free
  /\ Finish(p)
  /\ UNCHANGED <<poolVars, connVars, reader, main, stopped>>

\* The new object replaces the entry, its reader goroutine starts, and no
\* Settings are set.  A reconnection entry for the key stays where it is.
DialSucceeds(p, c) ==
  LET k == caller[p].key IN
  /\ caller[p].pc = "dialing"
  /\ sock[c] = "unused"
  /\ keyOf' = [keyOf EXCEPT ![c] = k]
  /\ connected' = [connected EXCEPT ![c] = TRUE]
  /\ sock' = [sock EXCEPT ![c] = "open"]
  /\ reader' = [reader EXCEPT ![c] = "reading"]
  /\ connections' = [connections EXCEPT ![k] = c]
  /\ wanted' = wanted \cup {k}
  /\ mutex' = Free
  /\ quiet' = quiet \ {k}
  /\ AfterStart(p)
  /\ UNCHANGED <<reconnections, settings, main, stopped>>

\* Variant: the type of the request is stored as it came.
AttachRawType(p, t) ==
  LET c == connections[caller[p].key] IN
  /\ caller[p].pc = "attach"
  /\ mutex = Free
  /\ Finish(p)
  /\ settings' = IF c = NoConn THEN settings ELSE [settings EXCEPT ![c] = "unknown"]
  /\ UNCHANGED <<mutex, poolVars, keyOf, connected, sock, quiet, reader, main, stopped>>

\* processTerminalFrom1C writes to the live object of GetConnections;
\* terminals/add and terminals/check write to the copy GetConnection makes,
\* which reaches the connection only through a Settings pointer it already has.
AttachSettings(p, t) ==
  LET c == connections[caller[p].key] IN
  /\ caller[p].pc = "attach"
  /\ mutex = Free
  /\ Finish(p)
  /\ IF c # NoConn /\ (caller[p].by = "list" \/ settings[c] # "nil")
     THEN settings' = [settings EXCEPT ![c] = t]
     ELSE UNCHANGED settings
  /\ UNCHANGED <<mutex, poolVars, keyOf, connected, sock, quiet, reader, main, stopped>>

\* DELETE /api/terminals: the exported Disconnect.
ManualDisconnect(p, k) ==
  /\ caller[p].pc = "ready"
  /\ mutex = Free
  /\ Disconnect(k)
  /\ UNCHANGED <<mutex, keyOf, settings, quiet, reader, main, caller, stopped>>

\* terminals/del and terminals/check: the key is looked up first ...
BeginDrop(p, k) ==
  /\ caller[p].pc = "ready"
  /\ mutex = Free
  /\ connections[k] # NoConn
  /\ caller' = [caller EXCEPT ![p] = [pc |-> "dropping", key |-> k, by |-> "none"]]
  /\ UNCHANGED <<mutex, poolVars, connVars, reader, main, stopped>>

\* Variant: the lock is not taken.
DropUnlocked(p) ==
  LET k == caller[p].key
      c == connections[k] IN
  /\ caller[p].pc = "dropping"
  /\ IF c = NoConn THEN UNCHANGED sock
                   ELSE sock' = [sock EXCEPT ![c] = "closed"]
  /\ connections' = [connections EXCEPT ![k] = NoConn]
  /\ reconnections' = [reconnections EXCEPT ![k] = "none"]
  /\ wanted' = wanted \ {k}
  /\ Finish(p)
  /\ UNCHANGED <<mutex, keyOf, connected, settings, quiet, reader, main, stopped>>

\* ... and DropConnection, later, closes and forgets it without clearing
\* Connected, and forgets a scheduled reconnection.
DropConnection(p) ==
  LET k == caller[p].key
      c == connections[k] IN
  /\ caller[p].pc = "dropping"
  /\ mutex = Free
  /\ IF c = NoConn THEN UNCHANGED sock
                   ELSE sock' = [sock EXCEPT ![c] = "closed"]
  /\ connections' = [connections EXCEPT ![k] = NoConn]
  /\ reconnections' = [reconnections EXCEPT ![k] = "none"]
  /\ wanted' = wanted \ {k}
  /\ Finish(p)
  /\ UNCHANGED <<mutex, keyOf, connected, settings, quiet, reader, main, stopped>>

\* Stop -> Close: connected entries are closed and the map emptied; the
\* scheduled reconnections stay.
Close(p) ==
  /\ caller[p].pc = "ready"
  /\ ~stopped
  /\ mutex = Free
  /\ sock' = [c \in Conns |->
                IF connected[c] /\ (\E k \in Keys : connections[k] = c)
                THEN "closed" ELSE sock[c]]
  /\ connections' = [k \in Keys |-> NoConn]
  /\ stopped' = TRUE
  /\ UNCHANGED <<mutex, reconnections, wanted, keyOf, connected, settings, quiet,
                 reader, main, caller>>

----------------------------------------------------------------------------
(* Reader goroutines.                                                       *)

ReaderTo(c, s) == reader' = [reader EXCEPT ![c] = s]

\* Back in handleConnection's loop: `for conn.Connected`.  processJSPData
\* returns only when the buffer ends in a partial packet or a packet is not
\* JSON; with an empty buffer its `break` leaves the switch, not the loop.
ReturnToLoop(c) ==
  \/ ReaderTo(c, IF connected[c] THEN "reading" ELSE "exited")
  \/ settings[c] = "jsp" /\ ReaderTo(c, "spinning")

\* Read returned bytes: LastActivity is refreshed.
ReadData(c) ==
  /\ reader[c] = "reading"
  /\ sock[c] = "open"
  /\ ReaderTo(c, "handling")
  /\ quiet' = quiet \ {k \in Keys : connections[k] = c}
  /\ UNCHANGED <<mutex, poolVars, keyOf, connected, sock, settings, main, caller, stopped>>

\* Variant: only the deadline's error ends the loop, "use of closed network
\* connection" is skipped.
ReadErrorIgnoresClosed(c) ==
  /\ reader[c] = "reading"
  /\ sock[c] = "open"
  /\ ReaderTo(c, "failing")
  /\ UNCHANGED <<mutex, poolVars, connVars, main, caller, stopped>>

\* Read failed: the socket was closed here, or the peer closed it, or 30 s
\* passed without data.
ReadError(c) ==
  /\ reader[c] = "reading"
  /\ ReaderTo(c, "failing")
  /\ UNCHANGED <<mutex, poolVars, connVars, main, caller, stopped>>

\* The reader of an object disconnects the KEY of that object.
ReaderDisconnects(c) ==
  /\ reader[c] = "failing"
  /\ mutex = Free
  /\ Disconnect(keyOf[c])
  /\ ReaderTo(c, "exited")
  /\ UNCHANGED <<mutex, keyOf, settings, quiet, main, caller, stopped>>

\* processData: without Settings the first bytes decide (0x2A is POCKET,
\* four bytes or more GAT, anything less is thrown away); a blank type
\* matches no protocol.  A known protocol may yield a tag read.
HandleData(c) ==
  /\ reader[c] = "handling"
  /\ \/ /\ settings[c] = "nil"
        /\ \E t \in Types \cap {"pocket", "gat"} :
             /\ settings' = [settings EXCEPT ![c] = t]
             /\ ReaderTo(c, "tag") \/ ReaderTo(c, IF connected[c] THEN "reading" ELSE "exited")
     \/ ReturnToLoop(c) /\ UNCHANGED settings
     \/ settings[c] \in Types /\ ReaderTo(c, "tag") /\ UNCHANGED settings
  /\ UNCHANGED <<mutex, poolVars, keyOf, connected, sock, quiet, main, caller, stopped>>

Unconfigured(k) == connections[k] = NoConn \/ settings[connections[k]] = "nil"

\* ProcessTagRead: nothing to do for an unknown or unconfigured terminal; a
\* deny list or a memory-registration mark may also end it here.
ProcessTagRead(c) ==
  /\ reader[c] = "tag"
  /\ mutex = Free
  /\ \/ ReturnToLoop(c)
     \/ ~Unconfigured(keyOf[c]) /\ ReaderTo(c, "starting")
  /\ UNCHANGED <<mutex, poolVars, connVars, main, caller, stopped>>

\* StartSession -> checkTagReadDeny: a configured terminal's tag is denied
\* (no session data ever holds "auth"); only without one does it go on.
CheckTagReadDeny(c) ==
  /\ reader[c] = "starting"
  /\ mutex = Free
  /\ IF Unconfigured(keyOf[c]) THEN ReaderTo(c, "locking") ELSE ReturnToLoop(c)
  /\ UNCHANGED <<mutex, poolVars, connVars, main, caller, stopped>>

\* LockTerminal: marks the reader locked, creating Settings if there are
\* none, and for POCKET and JSP calls Send with the write lock held.
LockTerminal(c) ==
  LET e == connections[keyOf[c]] IN
  /\ reader[c] = "locking"
  /\ mutex = Free
  /\ IF e # NoConn /\ connected[e] /\ settings[e] \in {"pocket", "jsp"}
     THEN mutex' = c /\ ReaderTo(c, "selfLocked") /\ UNCHANGED settings
     ELSE /\ UNCHANGED mutex
          /\ ReturnToLoop(c)
          /\ settings' = IF e # NoConn /\ connected[e] /\ settings[e] = "nil"
                         THEN [settings EXCEPT ![e] = "blank"] ELSE settings
  /\ UNCHANGED <<poolVars, keyOf, connected, sock, quiet, main, caller, stopped>>

----------------------------------------------------------------------------
(* The main loop: IdleProc's two critical sections, then the rest of the    *)
(* tick, which sends answers and pings.                                     *)

SomeDue == \E k \in Keys : reconnections[k] = "due"
SomeQuiet == \E k \in quiet : connections[k] # NoConn /\ connected[connections[k]]

\* Reconnections: the first due one calls StartClient, which asks for the
\* lock IdleProc holds.
IdleReconnections ==
  /\ main = "tick"
  /\ mutex = Free
  /\ IF SomeDue THEN mutex' = MainLoop /\ main' = "inStartClient"
                ELSE UNCHANGED mutex /\ main' = "timeouts"
  /\ UNCHANGED <<poolVars, connVars, reader, caller, stopped>>

\* Timeouts: the first quiet connection calls disconnect, which asks for the
\* lock IdleProc holds.
IdleTimeouts ==
  /\ main = "timeouts"
  /\ mutex = Free
  /\ IF SomeQuiet THEN mutex' = MainLoop /\ main' = "inDisconnect"
                  ELSE UNCHANGED mutex /\ main' = "rest"
  /\ UNCHANGED <<poolVars, connVars, reader, caller, stopped>>

\* Send: a write to whatever connection the key now names refreshes its
\* LastActivity.
IdleSend(k) ==
  /\ main = "rest"
  /\ mutex = Free
  /\ connections[k] # NoConn /\ connected[connections[k]]
  /\ quiet' = quiet \ {k}
  /\ UNCHANGED <<mutex, poolVars, keyOf, connected, sock, settings, reader, main,
                 caller, stopped>>

IdleEnds ==
  /\ main = "rest"
  /\ main' = "tick"
  /\ UNCHANGED <<mutex, poolVars, connVars, reader, caller, stopped>>

----------------------------------------------------------------------------
(* Time.                                                                    *)

\* ServiceRequestExpireTime passes without activity on the connection of k.
GoesQuiet(k) ==
  /\ connections[k] # NoConn
  /\ quiet' = quiet \cup {k}
  /\ UNCHANGED <<mutex, poolVars, keyOf, connected, sock, settings, reader, main,
                 caller, stopped>>

\* NTime of a scheduled reconnection passes.
BecomesDue(k) ==
  /\ reconnections[k] = "waiting"
  /\ reconnections' = [reconnections EXCEPT ![k] = "due"]
  /\ UNCHANGED <<mutex, connections, wanted, connVars, reader, main, caller, stopped>>

----------------------------------------------------------------------------
CallerStep(p) ==
  \/ \E k \in Keys, by \in Purposes \ {"none"} : BeginConnect(p, k, by)
  \/ StartClient(p)
  \/ DialFails(p)
  \/ \E c \in Conns : DialSucceeds(p, c)
  \/ \E t \in Types : AttachSettings(p, t)
  \/ \E k \in Keys : ManualDisconnect(p, k)
  \/ \E k \in Keys : BeginDrop(p, k)
  \/ DropConnection(p)
  \/ Close(p)

ReaderStep(c) ==
  \/ ReadData(c)
  \/ ReadError(c)
  \/ ReaderDisconnects(c)
  \/ HandleData(c)
  \/ ProcessTagRead(c)
  \/ CheckTagReadDeny(c)
  \/ LockTerminal(c)

MainStep ==
  \/ IdleReconnections
  \/ IdleTimeouts
  \/ \E k \in Keys : IdleSend(k)
  \/ IdleEnds

TimeStep ==
  \/ \E k \in Keys : GoesQuiet(k)
  \/ \E k \in Keys : BecomesDue(k)

Next ==
  \/ \E p \in Callers : CallerStep(p)
  \/ \E c \in Conns : ReaderStep(c)
  \/ MainStep
  \/ TimeStep

Spec == Init /\ [][Next]_vars

(* Fairness.  Goroutines that can run do run (the Go scheduler), a dial ends *)
(* within its timeout, and sync.RWMutex does not starve a waiter, hence      *)
(* strong fairness where a step waits for the mutex.  Nothing is assumed of  *)
(* terminals, of operators or of when a connection goes quiet.               *)
ReaderAdvances(c) ==
  \/ ReadError(c) /\ sock[c] = "closed"
  \/ HandleData(c)
  \/ ReaderDisconnects(c)
  \/ ProcessTagRead(c)
  \/ CheckTagReadDeny(c)
  \/ LockTerminal(c)

CallerAdvances(p) ==
  \/ StartClient(p)
  \/ DialFails(p)
  \/ \E c \in Conns : DialSucceeds(p, c)

MainAdvances == IdleReconnections \/ IdleTimeouts \/ IdleEnds

Fairness ==
  /\ \A c \in Conns : SF_vars(ReaderAdvances(c))
  /\ \A p \in Callers : SF_vars(CallerAdvances(p))
  /\ SF_vars(MainAdvances)

FairSpec == Spec /\ Fairness

----------------------------------------------------------------------------
(* Properties.                                                              *)

\* A goroutine waits for the lock it holds.
Wedged == main \in {"inStartClient", "inDisconnect"} \/ \E c \in Conns : reader[c] = "selfLocked"

\* No open socket is lost: whatever StartClient opened is the entry of its
\* key until disconnect, DropConnection or Close closes it.  This is what the
\* lock held across the dial is for: two callers that both saw no entry must
\* not both install one.
OpenSocketIsEntry ==
  \A c \in Conns : sock[c] = "open" => keyOf[c] # NoKey /\ connections[keyOf[c]] = c

\* No zombie entry: a connection in the map is connected, open, filed under
\* its own key, and its reader goroutine is alive, so its failure will be
\* noticed.  disconnect works by key, so a reader may end with another
\* object's entry removed, never with an entry of its own left behind.
EntryHasReader ==
  \A k \in Keys : LET c == connections[k] IN
    c # NoConn => /\ keyOf[c] = k
                  /\ connected[c] /\ sock[c] = "open"
                  /\ reader[c] \notin {"none", "exited"}

\* A terminal somebody connected to and nobody removed is either connected or
\* scheduled for reconnection, whatever readers, operators and the list do to
\* its connection meanwhile.
NoTerminalForgotten ==
  ~stopped => \A k \in wanted : connections[k] # NoConn \/ reconnections[k] # "none"

\* A terminal an operator removed stays removed: the reader of the dropped
\* connection, which still fails and calls disconnect, must not schedule it
\* again.
RemovedStaysRemoved ==
  \A k \in Keys \ wanted : connections[k] = NoConn /\ reconnections[k] = "none"

\* While a goroutine waits with the write lock held, in a dial or in a wedge,
\* nobody adds an entry to either map or removes one.
FrozenWhileHeld ==
  [][mutex # Free /\ mutex' = mutex =>
       /\ UNCHANGED connections
       /\ \A k \in Keys : (reconnections'[k] = "none") <=> (reconnections[k] = "none")]_vars

\* Once a socket is closed, its reader goroutine ends, unless it spins in
\* processJSPData or the pool is wedged: readers are not leaked by drops and
\* disconnects.
ClosedSocketIsReaped ==
  \A c \in Conns :
    (sock[c] = "closed") ~> (reader[c] \in {"exited", "spinning"} \/ Wedged)

\* A reconnection whose time has come is attempted: the attempt deletes the
\* entry or moves NTime ahead (internal/protocols/README.md:189).
DueReconnectionIsAttempted ==
  \A k \in Keys : (reconnections[k] = "due") ~> (reconnections[k] # "due")
=============================================================================
