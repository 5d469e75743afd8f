--------------------------- MODULE TermListProofs ---------------------------
(* Machine-checked proofs about the terminal list, for any entries, whatever *)
(* they tell, any lists 1C may answer with, and any number of retries.       *)
EXTENDS TermList, TLAPS

USE BoundsAreNatural

\* A goroutine is in one place at a time, and no entry has too many.
TasksAreCounted == \A e \in Entries : Tasks(e) <= MaxTasks

IInv == TypeOK /\ TasksAreCounted

----------------------------------------------------------------------------
(* Goroutines.                                                              *)

\* Who counts the goroutines of an entry up or down keeps them in bounds
\* (checkTerminalList starts them, processTerminalFrom1C ends them).
LEMMA Counted ==
  ASSUME IInv, NEW e \in Entries, NEW places \in [Places -> Nat],
         places["waiting"] + places["attach"] + places["up"] + places["down"] <= MaxTasks,
         task' = [task EXCEPT ![e] = places]
  PROVE  task' \in [Entries -> [Places -> 0 .. MaxTasks]] /\ TasksAreCounted'
<1>1. places \in [Places -> 0 .. MaxTasks]
  BY DEF Places
<1>2. task \in [Entries -> [Places -> 0 .. MaxTasks]]
  BY DEF IInv, TypeOK
<1> QED
  BY <1>1, <1>2 DEF IInv, TasksAreCounted, Tasks

\* A goroutine goes from one place to another.
LEMMA MoveCounted ==
  ASSUME IInv, NEW e \in Entries, NEW from \in Places, NEW to \in Places, from # to,
         Move(e, from, to)
  PROVE  task' \in [Entries -> [Places -> 0 .. MaxTasks]] /\ TasksAreCounted'
<1> DEFINE places == [task[e] EXCEPT ![from] = @ - 1, ![to] = @ + 1]
<1>1. task[e] \in [Places -> 0 .. MaxTasks] /\ Tasks(e) <= MaxTasks
  BY DEF IInv, TypeOK, TasksAreCounted
<1>2. task[e][from] > 0 /\ task' = [task EXCEPT ![e] = places]
  BY DEF Move, IInv, TypeOK
<1>3. places \in [Places -> Nat]
  BY <1>1, <1>2 DEF Places
<1>5. \A p \in Places : places[p] = IF p = to THEN task[e][p] + 1
                                   ELSE IF p = from THEN task[e][p] - 1 ELSE task[e][p]
  BY <1>1
<1>6. \A p \in Places : task[e][p] \in Nat
  BY <1>1
<1> HIDE DEF places
<1>4. places["waiting"] + places["attach"] + places["up"] + places["down"] = Tasks(e)
  BY <1>5, <1>6 DEF Places, Tasks
<1>7. places["waiting"] + places["attach"] + places["up"] + places["down"] <= MaxTasks
  BY <1>1, <1>4
<1> QED
  BY <1>2, <1>3, <1>7, Counted

\* A goroutine is over.
LEMMA EndCounted ==
  ASSUME IInv, NEW e \in Entries, NEW from \in Places, task[e][from] > 0,
         task' = [task EXCEPT ![e][from] = @ - 1]
  PROVE  task' \in [Entries -> [Places -> 0 .. MaxTasks]] /\ TasksAreCounted'
<1> DEFINE places == [task[e] EXCEPT ![from] = @ - 1]
<1>1. task[e] \in [Places -> 0 .. MaxTasks] /\ Tasks(e) <= MaxTasks
  BY DEF IInv, TypeOK, TasksAreCounted
<1>2. task' = [task EXCEPT ![e] = places]
  BY DEF IInv, TypeOK
<1>3. places \in [Places -> Nat]
  BY <1>1 DEF Places
<1>4. places["waiting"] + places["attach"] + places["up"] + places["down"] = Tasks(e) - 1
  BY <1>1 DEF Places, Tasks
<1>5. Tasks(e) \in Nat
  BY <1>1 DEF Tasks, Places
<1> HIDE DEF places
<1>6. places["waiting"] + places["attach"] + places["up"] + places["down"] <= MaxTasks
  BY <1>1, <1>4, <1>5
<1> QED
  BY <1>2, <1>3, <1>6, Counted

\* A terminal that is told gets one goroutine more, each time the list is
\* saved.
LEMMA SaveCounted ==
  ASSUME IInv, SaveTerminalList
  PROVE  task' \in [Entries -> [Places -> 0 .. MaxTasks]] /\ TasksAreCounted'
<1> DEFINE more(e) == [task[e] EXCEPT !["waiting"] = @ + 1]
<1>1. \A e \in Entries : task[e] \in [Places -> 0 .. MaxTasks] /\ Tasks(e) <= MaxTasks
  BY DEF IInv, TypeOK, TasksAreCounted
<1>2. task' = [e \in Entries |-> IF e \in Listed(offered) THEN more(e) ELSE task[e]]
  BY DEF SaveTerminalList
<1>3. \A e \in Listed(offered) : Tasks(e) < MaxTasks
  BY DEF SaveTerminalList
<1>4. ASSUME NEW e \in Entries, e \in Listed(offered)
      PROVE  /\ more(e) \in [Places -> 0 .. MaxTasks]
             /\ more(e)["waiting"] + more(e)["attach"] + more(e)["up"] + more(e)["down"] <= MaxTasks
  <2>1. task[e] \in [Places -> Nat] /\ Tasks(e) < MaxTasks
    BY <1>1, <1>3, <1>4
  <2> QED
    BY <2>1 DEF Tasks, Places
<1> HIDE DEF more
<1>5. \A e \in Entries : task'[e] \in [Places -> 0 .. MaxTasks]
  BY <1>1, <1>2, <1>4
<1>6. TasksAreCounted'
  BY <1>1, <1>2, <1>4 DEF TasksAreCounted, Tasks
<1> QED
  BY <1>2, <1>5, <1>6

----------------------------------------------------------------------------
(* The invariant.                                                           *)

\* The invariant holds when the program starts ...
LEMMA InitInvariant == Init => IInv
<1> SUFFICES ASSUME Init PROVE IInv
  OBVIOUS
<1>1. TypeOK
  <2>1. task \in [Entries -> [Places -> 0 .. MaxTasks]]
    BY DEF Init
  <2>2. status \in [Entries -> {"unset", "up", "down"}]
    BY DEF Init
  <2>3. connection \in [Addresses -> Entries \cup {NoSettings, NoConnection}]
    BY DEF Init
  <2>4. wedged \in BOOLEAN /\ offered \in Offers /\ terminalList \in SUBSET Entries
    BY DEF Init
  <2>5. check \in 0 .. MaxRetries + 1 /\ drops \in 0 .. MaxDrops
    BY DEF Init
  <2> QED
    BY <2>1, <2>2, <2>3, <2>4, <2>5 DEF TypeOK
<1>2. \A e \in Entries : Tasks(e) = 0
  BY DEF Init, Tasks, Places
<1> QED
  BY <1>1, <1>2 DEF IInv, TasksAreCounted

\* Every step of the check, of a goroutine and of the world keeps the types.
LEMMA StepInvariant ==
  ASSUME IInv, [Next]_vars
  PROVE  IInv'
<1>0. TypeOK /\ TasksAreCounted
  BY DEF IInv
<1>1. CASE CheckTerminalList \/ RequestFails \/ ListIsUnusable
  <2>1. check' \in 0 .. MaxRetries + 1
    BY <1>0, <1>1 DEF CheckTerminalList, RequestFails, ListIsUnusable, TypeOK
  <2>2. UNCHANGED <<offered, terminalList, status, task, connection, wedged, drops>>
    BY <1>1 DEF CheckTerminalList, RequestFails, ListIsUnusable
  <2> QED
    BY <1>0, <2>1, <2>2 DEF IInv, TypeOK, TasksAreCounted, Tasks
<1>2. CASE SaveTerminalList
  <2>1. /\ terminalList' = Listed(offered) /\ check' = 0
        /\ status' = [e \in Entries |-> "unset"]
        /\ UNCHANGED <<offered, connection, wedged, drops>>
    BY <1>2 DEF SaveTerminalList
  <2>2. Listed(offered) \in SUBSET Entries
    BY <1>0, OffersAreEntries DEF TypeOK, Listed
  <2> QED
    BY <1>0, <1>2, <2>1, <2>2, SaveCounted DEF IInv, TypeOK
<1>3. ASSUME NEW e \in Entries, TaskStep(e)
      PROVE  IInv'
  <2> DEFINE Counts == task' \in [Entries -> [Places -> 0 .. MaxTasks]] /\ TasksAreCounted'
  <2>1. Address(e) \in Addresses
    BY DEF Addresses
  <2>2. /\ "waiting" \in Places /\ "attach" \in Places /\ "up" \in Places /\ "down" \in Places
    BY DEF Places
  <2>3. ASSUME UNCHANGED <<offered, check, terminalList, wedged, drops>>, Counts,
               status' \in [Entries -> {"unset", "up", "down"}],
               connection' \in [Addresses -> Entries \cup {NoSettings, NoConnection}]
        PROVE  IInv'
    BY <1>0, <2>3 DEF IInv, TypeOK
  <2>4. CASE GiveUp(e)
    <3>1. Counts
      BY <2>2, <2>4, EndCounted DEF GiveUp
    <3> QED
      BY <1>0, <2>3, <2>4, <3>1 DEF GiveUp, TypeOK
  <2>5. CASE StartClient(e)
    <3>1. Counts
      BY <2>2, <2>5, MoveCounted DEF StartClient
    <3> QED
      BY <1>0, <2>1, <2>3, <2>5, <3>1 DEF StartClient, TypeOK
  <2>6. CASE DialFails(e)
    <3>1. Counts
      BY <2>2, <2>6, MoveCounted DEF DialFails
    <3> QED
      BY <1>0, <2>3, <2>6, <3>1 DEF DialFails, TypeOK
  <2>7. CASE AttachSettings(e)
    <3>1. Counts
      BY <2>2, <2>7, MoveCounted DEF AttachSettings
    <3> QED
      BY <1>0, <2>1, <2>3, <2>7, <3>1 DEF AttachSettings, TypeOK
  <2>8. ASSUME NEW outcome \in {"up", "down"}, UpdateTerminalConnectionStatus(e, outcome)
        PROVE  IInv'
    <3>1. Counts
      BY <2>2, <2>8, EndCounted DEF UpdateTerminalConnectionStatus
    <3>2. status' \in [Entries -> {"unset", "up", "down"}]
      BY <1>0, <2>8 DEF UpdateTerminalConnectionStatus, TypeOK
    <3> QED
      BY <1>0, <2>3, <2>8, <3>1, <3>2 DEF UpdateTerminalConnectionStatus, TypeOK
  <2> QED
    BY <1>3, <2>4, <2>5, <2>6, <2>7, <2>8 DEF TaskStep
<1>4. CASE OfferChanges
  BY <1>0, <1>4 DEF OfferChanges, IInv, TypeOK, TasksAreCounted, Tasks
<1>5. ASSUME NEW a \in Addresses, Drop(a)
      PROVE  IInv'
  <2>1. drops' \in 0 .. MaxDrops
    BY <1>0, <1>5 DEF Drop, TypeOK
  <2>2. connection' \in [Addresses -> Entries \cup {NoSettings, NoConnection}]
    BY <1>0, <1>5 DEF Drop, TypeOK
  <2>3. UNCHANGED <<offered, check, terminalList, status, task, wedged>>
    BY <1>5 DEF Drop
  <2> QED
    BY <1>0, <2>1, <2>2, <2>3 DEF IInv, TypeOK, TasksAreCounted, Tasks
<1>6. CASE PoolWedges
  BY <1>0, <1>6 DEF PoolWedges, IInv, TypeOK, TasksAreCounted, Tasks
<1>7. CASE UNCHANGED vars
  BY <1>0, <1>7 DEF vars, IInv, TypeOK, TasksAreCounted, Tasks
<1> QED
  BY <1>1, <1>2, <1>3, <1>4, <1>5, <1>6, <1>7 DEF Next

\* ... so it always holds, as every operation preserves it.
LEMMA Invariant == Spec => []IInv
BY InitInvariant, StepInvariant, PTL DEF Spec

----------------------------------------------------------------------------
(* The theorems.                                                            *)

\* The list, the notes on it and the connections have entries of 1C only, and
\* no entry has more goroutines than were started for it.
THEOREM TermListTypeCorrect == Spec => []TypeOK
<1>1. IInv => TypeOK
  BY DEF IInv
<1> QED
  BY <1>1, Invariant, PTL

\* Whatever 1C tells of ports, a terminal with its Settings is shown as
\* connected and every connection that passes the filter has a row of its own
\* (GetTerminalList of the pool).
THEOREM ListShowsConnected == Spec => []ConnectedIsShown
<1>1. ASSUME IInv
      PROVE  ConnectedIsShown
  <2>1. terminalList \subseteq Entries
    BY <1>1 DEF IInv, TypeOK
  <2>2. ASSUME NEW l \in terminalList, connection[Address(l)] = l
        PROVE  ConnectionsOf(l) # {}
    <3>1. Address(l) \in Addresses /\ l \in Entries
      BY <2>1 DEF Addresses
    <3>2. Address(l) \in {a \in Addresses :
            connection[a] \in Entries /\ Told[connection[a]].id = Told[l].id}
      BY <2>2, <3>1
    <3> QED
      BY <3>2 DEF ConnectionsOf
  <2>3. ASSUME NEW a \in Addresses, Connected(a), a[1] \in Passing
        PROVE  \E row \in Rows : row.with = {a}
    <3>1. CASE \E l \in terminalList : ParseTerm(l) = a
      <4>1. PICK l \in terminalList : ParseTerm(l) = a
        BY <3>1
      <4>2. ConnectionsOf(l) = {a}
        BY <2>3, <4>1 DEF ConnectionsOf
      <4>3. [address |-> ParseTerm(l), with |-> ConnectionsOf(l)] \in Rows
        BY <4>1 DEF Rows
      <4> QED
        BY <4>2, <4>3
    <3>2. CASE \A l \in terminalList : ParseTerm(l) # a
      <4>1. [address |-> a, with |-> {a}] \in Rows
        BY <2>3, <3>2 DEF Rows
      <4> QED
        BY <4>1
    <3> QED
      BY <3>1, <3>2
  <2> QED
    BY <2>2, <2>3 DEF ConnectedIsShown
<1> QED
  BY <1>1, Invariant, PTL
=============================================================================
