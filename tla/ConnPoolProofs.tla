--------------------------- MODULE ConnPoolProofs ---------------------------
(* Machine-checked proofs about the connection pool, for any sets of        *)
(* terminals, Connection objects and callers.                               *)
EXTENDS ConnPool, TLAPS

\* A goroutine that acts on an address has one: a caller past its request, a
\* reader from its object's creation on.
ActorsHaveKeys ==
  /\ \A p \in Callers : caller[p].pc # "ready" => caller[p].key \in Keys
  /\ \A c \in Conns : reader[c] # "none" => keyOf[c] \in Keys

\* A dial holds the write lock, and the key it dials has no entry: StartClient
\* found none and nobody else can have added one.
DialHoldsLock ==
  \A p \in Callers : caller[p].pc = "dialing" =>
    mutex = p /\ connections[caller[p].key] = NoConn

Typed == TypeOK /\ ActorsHaveKeys

IInv ==
  /\ Typed
  /\ DialHoldsLock
  /\ EntryHasReader
  /\ OpenSocketIsEntry
  /\ NoTerminalForgotten
  /\ RemovedStaysRemoved

USE ConstantsAreDistinct, TypesAreKnown

----------------------------------------------------------------------------
(* What disconnect does to typing.                                          *)

\* disconnect of an address leaves the pool's maps well typed.
LEMMA DisconnectTyped ==
  ASSUME TypeOK, NEW k \in Keys, Disconnect(k)
  PROVE  /\ connections' \in [Keys -> Conns \cup {NoConn}]
         /\ reconnections' \in [Keys -> {"none", "waiting", "due"}]
         /\ connected' \in [Conns -> BOOLEAN]
         /\ sock' \in [Conns -> {"unused", "open", "closed"}]
         /\ wanted' = wanted
  BY DEF TypeOK, Disconnect, poolVars

\* The pool starts well typed, and every step keeps it so: one step below for
\* each operation of pool.go and of its callers.
LEMMA InitTyped == Init => Typed
<1> SUFFICES ASSUME Init
             PROVE  Typed
  OBVIOUS
<1>1. Idle \in [pc : CallerStates, key : Keys \cup {NoKey}, by : Purposes]
  BY DEF Idle, CallerStates, Purposes
<1>2. TypeOK
  BY <1>1 DEF Init, TypeOK, Settings, ReaderStates, MainStates
<1>3. ActorsHaveKeys
  BY DEF Init, ActorsHaveKeys, Idle
<1> QED
  BY <1>2, <1>3 DEF Typed

\* Every operation keeps the pool well typed.
LEMMA StepTyped == Typed /\ [Next]_vars => Typed'
<1> SUFFICES ASSUME Typed, [Next]_vars
             PROVE  Typed'
  OBVIOUS
<1> USE DEF Typed, TypeOK, ActorsHaveKeys
<1>1. CASE \E p \in Callers : CallerStep(p)
  <2>0. PICK p \in Callers : CallerStep(p)
    BY <1>1
  <2> USE DEF poolVars, connVars, Goto, Finish, Idle, AfterStart, CallerStates, Purposes
  <2>1. ASSUME NEW k \in Keys, NEW by \in Purposes \ {"none"}, BeginConnect(p, k, by)
        PROVE  Typed'
    BY <2>1 DEF BeginConnect
  <2>2. CASE StartClient(p)
    BY <2>2 DEF StartClient
  <2>3. CASE DialFails(p)
    BY <2>3 DEF DialFails
  <2>4. ASSUME NEW c \in Conns, DialSucceeds(p, c)
        PROVE  Typed'
    <3>1. caller[p].key \in Keys
      BY <2>4 DEF DialSucceeds
    <3>2. /\ connections' \in [Keys -> Conns \cup {NoConn}]
          /\ keyOf' \in [Conns -> Keys \cup {NoKey}]
          /\ connected' \in [Conns -> BOOLEAN]
          /\ sock' \in [Conns -> {"unused", "open", "closed"}]
          /\ reader' \in [Conns -> ReaderStates]
      BY <2>4, <3>1 DEF DialSucceeds, ReaderStates
    <3>3. /\ mutex' = Free
          /\ wanted' \in SUBSET Keys
          /\ quiet' \in SUBSET Keys
          /\ UNCHANGED <<reconnections, settings, main, stopped>>
      BY <2>4, <3>1 DEF DialSucceeds
    <3>4. /\ caller' \in [Callers -> [pc : CallerStates, key : Keys \cup {NoKey}, by : Purposes]]
          /\ \A q \in Callers : caller'[q].pc # "ready" => caller'[q].key \in Keys
      BY <2>4 DEF DialSucceeds
    <3>5. \A d \in Conns : reader'[d] # "none" => keyOf'[d] \in Keys
      BY <2>4, <3>1 DEF DialSucceeds
    <3> QED
      BY <3>2, <3>3, <3>4, <3>5
  <2>5. ASSUME NEW t \in Types, AttachSettings(p, t)
        PROVE  Typed'
    BY <2>5 DEF AttachSettings, Settings
  <2>6. ASSUME NEW k \in Keys, ManualDisconnect(p, k)
        PROVE  Typed'
    BY <2>6, DisconnectTyped DEF ManualDisconnect
  <2>7. ASSUME NEW k \in Keys, BeginDrop(p, k)
        PROVE  Typed'
    BY <2>7 DEF BeginDrop
  <2>8. CASE DropConnection(p)
    BY <2>8 DEF DropConnection
  <2>9. CASE Close(p)
    BY <2>9 DEF Close
  <2> QED
    BY <2>0, <2>1, <2>2, <2>3, <2>4, <2>5, <2>6, <2>7, <2>8, <2>9 DEF CallerStep
<1>2. CASE \E c \in Conns : ReaderStep(c)
  <2>0. PICK c \in Conns : ReaderStep(c)
    BY <1>2
  <2> USE DEF poolVars, connVars, ReaderTo, ReturnToLoop, ReaderStates
  <2>1. CASE ReadData(c)
    BY <2>1 DEF ReadData
  <2>2. CASE ReadError(c)
    BY <2>2 DEF ReadError
  <2>3. CASE ReaderDisconnects(c)
    BY <2>3, DisconnectTyped DEF ReaderDisconnects
  <2>4. CASE HandleData(c)
    BY <2>4 DEF HandleData, Settings
  <2>5. CASE ProcessTagRead(c)
    BY <2>5 DEF ProcessTagRead
  <2>6. CASE CheckTagReadDeny(c)
    BY <2>6 DEF CheckTagReadDeny
  <2>7. CASE LockTerminal(c)
    BY <2>7 DEF LockTerminal, Settings
  <2> QED
    BY <2>0, <2>1, <2>2, <2>3, <2>4, <2>5, <2>6, <2>7 DEF ReaderStep
<1>3. CASE MainStep
  <2> USE DEF poolVars, connVars, MainStates
  <2>1. CASE IdleReconnections
    BY <2>1 DEF IdleReconnections
  <2>2. CASE IdleTimeouts
    BY <2>2 DEF IdleTimeouts
  <2>3. ASSUME NEW k \in Keys, IdleSend(k)
        PROVE  Typed'
    BY <2>3 DEF IdleSend
  <2>4. CASE IdleEnds
    BY <2>4 DEF IdleEnds
  <2> QED
    BY <1>3, <2>1, <2>2, <2>3, <2>4 DEF MainStep
<1>4. CASE TimeStep
  BY <1>4 DEF TimeStep, GoesQuiet, BecomesDue, poolVars, connVars
<1>5. CASE UNCHANGED vars
  BY <1>5 DEF vars, poolVars, connVars
<1> QED
  BY <1>1, <1>2, <1>3, <1>4, <1>5 DEF Next

----------------------------------------------------------------------------
(* The invariant.                                                           *)

\* disconnect closes what it removes, so it leaves no entry without a reader,
\* no open socket without an entry and no terminal forgotten.  Its caller must
\* not be a reader that stays: the reader's own case is proved apart.
LEMMA DisconnectSafe ==
  ASSUME IInv, NEW k \in Keys, Disconnect(k), UNCHANGED <<keyOf, stopped>>
  PROVE  /\ OpenSocketIsEntry'
         /\ NoTerminalForgotten'
         /\ RemovedStaysRemoved'
         /\ connections'[k] = NoConn
         /\ \A j \in Keys \ {k} : connections'[j] = connections[j]
         /\ \A j \in Keys \ {k} : LET c == connections[j] IN
              c # NoConn => /\ keyOf'[c] = j
                            /\ connected'[c] /\ sock'[c] = "open"
<1> USE DEF IInv, Typed, TypeOK, Disconnect, poolVars
<1>1. CASE connections[k] = NoConn
  BY <1>1 DEF EntryHasReader, OpenSocketIsEntry, NoTerminalForgotten, RemovedStaysRemoved
<1>2. CASE connections[k] # NoConn
  <2>1. OpenSocketIsEntry'
    BY <1>2 DEF OpenSocketIsEntry, EntryHasReader
  <2>2. NoTerminalForgotten'
    BY <1>2 DEF NoTerminalForgotten
  <2>3. RemovedStaysRemoved'
    BY <1>2 DEF RemovedStaysRemoved
  <2> QED
    BY <1>2, <2>1, <2>2, <2>3 DEF EntryHasReader
<1> QED
  BY <1>1, <1>2

\* Initially nothing is connected and nobody dials.
LEMMA InitIInv == Init => IInv
  BY InitTyped DEF Init, IInv, DialHoldsLock, EntryHasReader, OpenSocketIsEntry,
                   NoTerminalForgotten, RemovedStaysRemoved, Idle

\* Every operation preserves the invariant, together with the typing it rests
\* on: the lock that a dial holds is what makes DialSucceeds safe.
LEMMA StepIInv == IInv /\ [Next]_vars => IInv'
<1> SUFFICES ASSUME IInv, [Next]_vars
             PROVE  IInv'
  OBVIOUS
<1>t. Typed'
  BY StepTyped DEF IInv
<1> USE DEF IInv
<1>0. Typed
  OBVIOUS
<1> USE <1>0, <1>t DEF Typed, TypeOK, ActorsHaveKeys
<1>1. CASE \E p \in Callers : CallerStep(p)
  <2>0. PICK p \in Callers : CallerStep(p)
    BY <1>1
  <2> USE DEF poolVars, connVars
  <2> DEFINE Props == /\ EntryHasReader
                      /\ OpenSocketIsEntry
                      /\ NoTerminalForgotten
                      /\ RemovedStaysRemoved
  <2>a. ASSUME UNCHANGED <<poolVars, connVars, reader, stopped>>
        PROVE  Props'
    BY <2>a DEF EntryHasReader, OpenSocketIsEntry, NoTerminalForgotten, RemovedStaysRemoved
  <2>1. ASSUME NEW k \in Keys, NEW by \in Purposes \ {"none"}, BeginConnect(p, k, by)
        PROVE  IInv'
    <3>1. DialHoldsLock'
      BY <2>1 DEF BeginConnect, DialHoldsLock
    <3> QED
      BY <2>1, <2>a, <3>1 DEF BeginConnect
  <2>2. CASE StartClient(p)
    <3>1. DialHoldsLock'
      BY <2>2 DEF StartClient, DialHoldsLock, AfterStart, Finish, Goto, Idle, EntryHasReader
    <3> QED
      BY <2>2, <2>a, <3>1 DEF StartClient
  <2>3. CASE DialFails(p)
    <3>1. DialHoldsLock'
      BY <2>3 DEF DialFails, DialHoldsLock, Finish, Idle
    <3> QED
      BY <2>3, <2>a, <3>1 DEF DialFails
  <2>4. ASSUME NEW c \in Conns, DialSucceeds(p, c)
        PROVE  IInv'
    <3> DEFINE k == caller[p].key
    <3>0. /\ k \in Keys
          /\ connections[k] = NoConn
          /\ sock[c] = "unused"
          /\ \A j \in Keys : connections[j] # c
          /\ \A q \in Callers : caller'[q].pc = "dialing" => q # p /\ caller[q] = caller'[q]
      BY <2>4 DEF DialSucceeds, DialHoldsLock, EntryHasReader, AfterStart, Finish, Goto, Idle
    <3>1. DialHoldsLock'
      BY <2>4, <3>0 DEF DialSucceeds, DialHoldsLock
    <3>2. EntryHasReader'
      BY <2>4, <3>0 DEF DialSucceeds, EntryHasReader
    <3>3. OpenSocketIsEntry'
      BY <2>4, <3>0 DEF DialSucceeds, OpenSocketIsEntry
    <3>4. NoTerminalForgotten' /\ RemovedStaysRemoved'
      BY <2>4, <3>0 DEF DialSucceeds, NoTerminalForgotten, RemovedStaysRemoved
    <3> QED
      BY <3>1, <3>2, <3>3, <3>4
  <2>5. ASSUME NEW t \in Types, AttachSettings(p, t)
        PROVE  IInv'
    <3>1. DialHoldsLock'
      BY <2>5 DEF AttachSettings, DialHoldsLock, Finish, Idle
    <3> QED
      BY <2>5, <3>1 DEF AttachSettings, EntryHasReader, OpenSocketIsEntry,
                        NoTerminalForgotten, RemovedStaysRemoved
  <2>6. ASSUME NEW k \in Keys, ManualDisconnect(p, k)
        PROVE  IInv'
    <3>1. DialHoldsLock'
      BY <2>6 DEF ManualDisconnect, DialHoldsLock
    <3>2. Props'
      BY <2>6, DisconnectSafe DEF ManualDisconnect, EntryHasReader
    <3> QED
      BY <3>1, <3>2
  <2>7. ASSUME NEW k \in Keys, BeginDrop(p, k)
        PROVE  IInv'
    <3>1. DialHoldsLock'
      BY <2>7 DEF BeginDrop, DialHoldsLock
    <3> QED
      BY <2>7, <2>a, <3>1 DEF BeginDrop
  <2>8. CASE DropConnection(p)
    <3> DEFINE k == caller[p].key
    <3>1. DialHoldsLock'
      BY <2>8 DEF DropConnection, DialHoldsLock, Finish, Idle
    <3>2. EntryHasReader' /\ OpenSocketIsEntry'
      BY <2>8 DEF DropConnection, EntryHasReader, OpenSocketIsEntry
    <3>3. NoTerminalForgotten' /\ RemovedStaysRemoved'
      BY <2>8 DEF DropConnection, NoTerminalForgotten, RemovedStaysRemoved
    <3> QED
      BY <3>1, <3>2, <3>3
  <2>9. CASE Close(p)
    <3>1. DialHoldsLock'
      BY <2>9 DEF Close, DialHoldsLock
    <3>2. EntryHasReader' /\ OpenSocketIsEntry'
      BY <2>9 DEF Close, EntryHasReader, OpenSocketIsEntry
    <3>3. NoTerminalForgotten' /\ RemovedStaysRemoved'
      BY <2>9 DEF Close, NoTerminalForgotten, RemovedStaysRemoved
    <3> QED
      BY <3>1, <3>2, <3>3
  <2> QED
    BY <2>0, <2>1, <2>2, <2>3, <2>4, <2>5, <2>6, <2>7, <2>8, <2>9 DEF CallerStep
<1>2. CASE \E c \in Conns : ReaderStep(c)
  <2>0. PICK c \in Conns : ReaderStep(c)
    BY <1>2
  <2> USE DEF poolVars, connVars
  \* A reader that keeps the maps, and leaves only if it is disconnected, keeps
  \* the invariant.
  <2>a. ASSUME UNCHANGED <<poolVars, keyOf, connected, sock, caller, stopped>>,
               UNCHANGED mutex \/ mutex = Free,
               \E s \in ReaderStates \ {"none"} :
                 (s = "exited" => ~connected[c]) /\ ReaderTo(c, s),
               reader[c] # "none"
        PROVE  IInv'
    <3>1. DialHoldsLock'
      BY <2>a DEF DialHoldsLock
    <3>2. EntryHasReader'
      BY <2>a DEF EntryHasReader, ReaderTo, ReaderStates
    <3> QED
      BY <2>a, <3>1, <3>2 DEF OpenSocketIsEntry, NoTerminalForgotten, RemovedStaysRemoved
  <2>b. ASSUME ReturnToLoop(c)
        PROVE  \E s \in ReaderStates \ {"none"} :
                 (s = "exited" => ~connected[c]) /\ ReaderTo(c, s)
    BY <2>b DEF ReturnToLoop, ReaderStates
  <2>1. CASE ReadData(c)
    BY <2>1, <2>a DEF ReadData, ReaderStates
  <2>2. CASE ReadError(c)
    BY <2>2, <2>a DEF ReadError, ReaderStates
  <2>3. CASE ReaderDisconnects(c)
    <3>0. keyOf[c] \in Keys
      BY <2>3 DEF ReaderDisconnects
    <3>1. DialHoldsLock'
      BY <2>3 DEF ReaderDisconnects, DialHoldsLock
    <3>2. OpenSocketIsEntry' /\ NoTerminalForgotten' /\ RemovedStaysRemoved'
      BY <2>3, <3>0, DisconnectSafe DEF ReaderDisconnects
    <3>3. EntryHasReader'
      BY <2>3, <3>0, DisconnectSafe DEF ReaderDisconnects, EntryHasReader, ReaderTo
    <3> QED
      BY <3>1, <3>2, <3>3
  <2>4. CASE HandleData(c)
    BY <2>4, <2>a, <2>b DEF HandleData, ReaderStates
  <2>5. CASE ProcessTagRead(c)
    BY <2>5, <2>a, <2>b DEF ProcessTagRead, ReaderStates
  <2>6. CASE CheckTagReadDeny(c)
    BY <2>6, <2>a, <2>b DEF CheckTagReadDeny, ReaderStates
  <2>7. CASE LockTerminal(c)
    BY <2>7, <2>a, <2>b DEF LockTerminal, ReaderStates
  <2> QED
    BY <2>0, <2>1, <2>2, <2>3, <2>4, <2>5, <2>6, <2>7 DEF ReaderStep
<1>3. CASE MainStep
  <2>1. UNCHANGED <<poolVars, keyOf, connected, sock, reader, caller, stopped>>
    BY <1>3 DEF MainStep, IdleReconnections, IdleTimeouts, IdleSend, IdleEnds, connVars
  <2>2. mutex = Free \/ UNCHANGED mutex
    BY <1>3 DEF MainStep, IdleReconnections, IdleTimeouts, IdleSend, IdleEnds
  <2>3. DialHoldsLock'
    BY <2>1, <2>2 DEF DialHoldsLock, poolVars
  <2> QED
    BY <2>1, <2>3 DEF EntryHasReader, OpenSocketIsEntry, NoTerminalForgotten,
                      RemovedStaysRemoved, poolVars
<1>4. CASE TimeStep
  <2> USE DEF poolVars, connVars
  <2>1. ASSUME NEW k \in Keys, GoesQuiet(k)
        PROVE  IInv'
    BY <2>1 DEF GoesQuiet, DialHoldsLock, EntryHasReader, OpenSocketIsEntry,
                NoTerminalForgotten, RemovedStaysRemoved
  <2>2. ASSUME NEW k \in Keys, BecomesDue(k)
        PROVE  IInv'
    BY <2>2 DEF BecomesDue, DialHoldsLock, EntryHasReader, OpenSocketIsEntry,
                NoTerminalForgotten, RemovedStaysRemoved
  <2> QED
    BY <1>4, <2>1, <2>2 DEF TimeStep
<1>5. CASE UNCHANGED vars
  BY <1>5 DEF vars, poolVars, connVars, DialHoldsLock, EntryHasReader, OpenSocketIsEntry,
              NoTerminalForgotten, RemovedStaysRemoved
<1> QED
  BY <1>1, <1>2, <1>3, <1>4, <1>5 DEF Next

----------------------------------------------------------------------------
(* Theorems.                                                                *)

\* The invariant holds of the pool, whatever the terminals, the objects and the
\* callers are.
THEOREM PoolInvariant == Spec => []IInv
  BY InitIInv, StepIInv, PTL DEF Spec

\* Every reachable state of the pool is well typed.
THEOREM PoolTypeCorrect == Spec => []TypeOK
<1>1. IInv => TypeOK
  BY DEF IInv, Typed
<1> QED
  BY PoolInvariant, <1>1, PTL

\* No connection leaks: an open socket is always the entry of its address, so
\* disconnect, DropConnection and Close can still reach it.
THEOREM NoSocketLeaks == Spec => []OpenSocketIsEntry
<1>1. IInv => OpenSocketIsEntry
  BY DEF IInv
<1> QED
  BY PoolInvariant, <1>1, PTL

\* No entry outlives its reader: an entry is open, and somebody reads it.
THEOREM NoZombieEntry == Spec => []EntryHasReader
<1>1. IInv => EntryHasReader
  BY DEF IInv
<1> QED
  BY PoolInvariant, <1>1, PTL

\* Until Stop, a terminal that was connected and not removed has a connection or
\* a scheduled reconnection.
THEOREM TerminalRemembered == Spec => []NoTerminalForgotten
<1>1. IInv => NoTerminalForgotten
  BY DEF IInv
<1> QED
  BY PoolInvariant, <1>1, PTL

\* A removed terminal has neither: a stale reader cannot bring it back.
THEOREM RemovalIsFinal == Spec => []RemovedStaysRemoved
<1>1. IInv => RemovedStaysRemoved
  BY DEF IInv
<1> QED
  BY PoolInvariant, <1>1, PTL

\* While the write lock stays with its owner, neither map gains or loses an entry.
THEOREM HeldLockFreezesPool == Spec => FrozenWhileHeld
<1> DEFINE Frozen == mutex # Free /\ mutex' = mutex =>
       /\ UNCHANGED connections
       /\ \A k \in Keys : (reconnections'[k] = "none") <=> (reconnections[k] = "none")
<1>1. IInv /\ [Next]_vars => [Frozen]_vars
  <2> SUFFICES ASSUME IInv, Next, mutex # Free, mutex' = mutex
               PROVE  Frozen
    BY DEF Frozen
  <2> USE DEF IInv, Typed, TypeOK, poolVars, connVars
  <2>1. CASE \E p \in Callers : CallerStep(p)
    BY <2>1 DEF CallerStep, BeginConnect, StartClient, DialFails, DialSucceeds,
                AttachSettings, ManualDisconnect, BeginDrop, DropConnection, Close
  <2>2. CASE \E c \in Conns : ReaderStep(c)
    BY <2>2 DEF ReaderStep, ReadData, ReadError, ReaderDisconnects, HandleData,
                ProcessTagRead, CheckTagReadDeny, LockTerminal
  <2>3. CASE MainStep
    BY <2>3 DEF MainStep, IdleReconnections, IdleTimeouts, IdleSend, IdleEnds
  <2>4. CASE TimeStep
    BY <2>4 DEF TimeStep, GoesQuiet, BecomesDue
  <2> QED
    BY <2>1, <2>2, <2>3, <2>4 DEF Next
<1> QED
  BY PoolInvariant, <1>1, PTL DEF Spec, FrozenWhileHeld
=============================================================================
