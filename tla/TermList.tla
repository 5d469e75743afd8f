------------------------------ MODULE TermList ------------------------------
(***************************************************************************)
(* The terminal list: the daemon's main loop asks 1C for it                *)
(* (checkTerminalList, internal/daemon/daemon.go; GetTerminalList and      *)
(* Request1C, internal/httpclient/client.go), starts one goroutine for     *)
(* each terminal of it (processTerminalFrom1C), and the web interface      *)
(* shows it together with the connections (GetTerminalList,                *)
(* internal/connection/pool.go).                                           *)
(*                                                                         *)
(* Goroutines of an earlier check may still be at work when the next is    *)
(* made.  Of a connection only its Settings are kept, of the pool only     *)
(* that its lock may be lost for good: module ConnPool has the rest.  The  *)
(* map config.Reconnections, which nobody reads, is left out.              *)
(***************************************************************************)
EXTENDS Naturals, FiniteSets

CONSTANTS
  Entries,      \* terminals as 1C tells of them
  Told,         \* entry -> what is told: [id, ip, port, type, field], port and
                \* type in the text of IP, field the number PORT; 0 for no port
  Offers,       \* sets of entries 1C may answer with
  DefaultPort,  \* type -> port of a terminal whose port is not told
  NotAnIP,      \* an address that is none
  Passing,      \* addresses TermListFilter lets pass
  NoSettings, NoConnection,
  MaxRetries,   \* config.HTTPRequestRetryCount
  MaxTasks,     \* bound: goroutines for one entry at a time
  MaxDrops      \* bound: connections that break

ASSUME BoundsAreNatural == MaxRetries \in Nat /\ MaxTasks \in Nat /\ MaxDrops \in Nat
ASSUME OffersAreEntries == Offers \subseteq SUBSET Entries
ASSUME SettingsAreNotEntries ==
  NoSettings \notin Entries /\ NoConnection \notin Entries /\ NoSettings # NoConnection

VARIABLES
  offered,      \* what 1C would answer now
  check,        \* the number of the request a check has made, 0 for no check
  terminalList, \* config.TerminalList
  status,       \* entry -> what updateTerminalConnectionStatus has noted
  task,         \* entry -> where -> how many goroutines stand there
  connection,   \* address -> the entry whose Settings it has, NoSettings, or
                \* NoConnection
  wedged,       \* the pool's lock is lost
  drops         \* bounded count of the connections that broke

vars == <<offered, check, terminalList, status, task, connection, wedged, drops>>

-----------------------------------------------------------------------------
(* Addresses *)

\* ParseTerm, whose port is the one in the text or the type's.
ParseTerm(e) ==
  <<Told[e].ip, IF Told[e].port > 0 THEN Told[e].port ELSE DefaultPort[Told[e].type]>>

\* What is dialled: the number PORT comes before the text.
Address(e) ==
  IF Told[e].field > 0 THEN <<Told[e].ip, Told[e].field>> ELSE ParseTerm(e)

Addresses == {Address(e) : e \in Entries}
Places == {"waiting", "attach", "up", "down"}
Tasks(e) == task[e]["waiting"] + task[e]["attach"] + task[e]["up"] + task[e]["down"]

TypeOK ==
  /\ offered \in Offers
  /\ check \in 0 .. MaxRetries + 1
  /\ terminalList \in SUBSET Entries
  /\ status \in [Entries -> {"unset", "up", "down"}]
  /\ task \in [Entries -> [Places -> 0 .. MaxTasks]]
  /\ connection \in [Addresses -> Entries \cup {NoSettings, NoConnection}]
  /\ wedged \in BOOLEAN
  /\ drops \in 0 .. MaxDrops

Init ==
  /\ offered \in Offers
  /\ check = 0
  /\ terminalList = {}
  /\ status = [e \in Entries |-> "unset"]
  /\ task = [e \in Entries |-> [p \in Places |-> 0]]
  /\ connection = [a \in Addresses |-> NoConnection]
  /\ wedged = FALSE
  /\ drops = 0

Connected(a) == connection[a] # NoConnection

-----------------------------------------------------------------------------
(* The check, in the main loop *)

\* IdleProc comes first in a tick, and a wedged pool stops the main loop.
CheckTerminalList ==
  /\ check = 0 /\ ~wedged
  /\ check' = 1
  /\ UNCHANGED <<offered, terminalList, status, task, connection, wedged, drops>>

\* Variant: the attempts are counted from the start again.
RequestFailsAgain ==
  /\ check > 0
  /\ check' = IF check <= MaxRetries THEN check + 1 ELSE 1
  /\ UNCHANGED <<offered, terminalList, status, task, connection, wedged, drops>>

\* Variant: one attempt too many.
RequestFailsOnceMore ==
  /\ check > 0
  /\ check' = IF check <= MaxRetries + 1 THEN check + 1 ELSE 0
  /\ UNCHANGED <<offered, terminalList, status, task, connection, wedged, drops>>

\* Request1C sleeps and asks again, MaxRetries times.
RequestFails ==
  /\ check > 0
  /\ check' = IF check <= MaxRetries THEN check + 1 ELSE 0
  /\ UNCHANGED <<offered, terminalList, status, task, connection, wedged, drops>>

\* An answer that is not a list, or not 200, is not asked for again.
ListIsUnusable ==
  /\ check > 0
  /\ check' = 0
  /\ UNCHANGED <<offered, terminalList, status, task, connection, wedged, drops>>

FilterTerminalList(e) == Told[e].ip \in Passing

Listed(answer) == {e \in answer : FilterTerminalList(e)}

\* The new list has no notes.  A goroutine for each terminal in it.
SaveTerminalList ==
  LET new == Listed(offered) IN
  /\ check > 0
  /\ \A e \in new : Tasks(e) < MaxTasks
  /\ terminalList' = new
  /\ status' = [e \in Entries |-> "unset"]
  /\ task' = [e \in Entries |->
       IF e \in new THEN [task[e] EXCEPT !["waiting"] = @ + 1] ELSE task[e]]
  /\ check' = 0
  /\ UNCHANGED <<offered, connection, wedged, drops>>

-----------------------------------------------------------------------------
(* processTerminalFrom1C *)

Move(e, from, to) ==
  /\ task[e][from] > 0
  /\ task' = [task EXCEPT ![e][from] = @ - 1, ![e][to] = @ + 1]

GiveUp(e) ==
  /\ Told[e].ip = NotAnIP
  /\ task[e]["waiting"] > 0
  /\ task' = [task EXCEPT ![e]["waiting"] = @ - 1]
  /\ UNCHANGED <<offered, check, terminalList, status, connection, wedged, drops>>

\* Variant: a connection that exists ends the goroutine.
StartNewClient(e) ==
  /\ ~wedged /\ Told[e].ip # NotAnIP
  /\ Move(e, "waiting", IF Connected(Address(e)) THEN "up" ELSE "attach")
  /\ connection' = IF Connected(Address(e)) THEN connection
                   ELSE [connection EXCEPT ![Address(e)] = NoSettings]
  /\ UNCHANGED <<offered, check, terminalList, status, wedged, drops>>

\* StartClient finds a connection or makes one, without Settings.  The key the
\* caller looks for before is of another form than the pool's, so it never
\* finds anything.
StartClient(e) ==
  /\ ~wedged /\ Told[e].ip # NotAnIP
  /\ Move(e, "waiting", "attach")
  /\ connection' = IF Connected(Address(e)) THEN connection
                   ELSE [connection EXCEPT ![Address(e)] = NoSettings]
  /\ UNCHANGED <<offered, check, terminalList, status, wedged, drops>>

DialFails(e) ==
  /\ ~wedged /\ Told[e].ip # NotAnIP /\ ~Connected(Address(e))
  /\ Move(e, "waiting", "down")
  /\ UNCHANGED <<offered, check, terminalList, status, connection, wedged, drops>>

\* The Settings of a connection that is there already are replaced.
AttachSettings(e) ==
  /\ ~wedged
  /\ Move(e, "attach", "up")
  /\ connection' = IF Connected(Address(e)) THEN [connection EXCEPT ![Address(e)] = e]
                   ELSE connection
  /\ UNCHANGED <<offered, check, terminalList, status, wedged, drops>>

\* updateTerminalConnectionStatus finds a terminal only by the text of IP
\* without port and parameters, and by PORT or 8080.
Matches(l, e) ==
  /\ Told[l].id = Told[e].id /\ Told[l].ip = Told[e].ip
  /\ Told[l].port = 0 /\ Told[l].type = "pocket"
  /\ Address(e)[2] = IF Told[l].field > 0 THEN Told[l].field ELSE 8080

UpdateTerminalConnectionStatus(e, outcome) ==
  /\ task[e][outcome] > 0
  /\ task' = [task EXCEPT ![e][outcome] = @ - 1]
  /\ \/ \E l \in terminalList : Matches(l, e) /\ status' = [status EXCEPT ![l] = outcome]
     \/ /\ ~\E l \in terminalList : Matches(l, e)
        /\ UNCHANGED status
  /\ UNCHANGED <<offered, check, terminalList, connection, wedged, drops>>

-----------------------------------------------------------------------------
(* The view of the web interface *)

\* Variant: a connection is looked for by address only.
ConnectionsByAddress(l) == {a \in Addresses : Connected(a) /\ a = ParseTerm(l)}

\* The connections a terminal may be shown with: the one at the address in
\* the text, or else one with its id.  The list was parsed without PORT.
ConnectionsOf(l) ==
  LET byAddress == {a \in Addresses : Connected(a) /\ a = ParseTerm(l)}
      byID == {a \in Addresses : connection[a] \in Entries /\ Told[connection[a]].id = Told[l].id}
  IN IF byAddress # {} THEN byAddress ELSE byID

\* Terminals of the list, of which the last with an address counts, and then
\* connections at other addresses.
Rows ==
  {[address |-> ParseTerm(l), with |-> ConnectionsOf(l)] : l \in terminalList}
    \cup {[address |-> a, with |-> {a}] : a \in
            {b \in Addresses : /\ Connected(b) /\ b[1] \in Passing
                               /\ \A l \in terminalList : ParseTerm(l) # b}}

-----------------------------------------------------------------------------
(* 1C, the network and the pool *)

OfferChanges ==
  /\ offered' \in Offers \ {offered}
  /\ UNCHANGED <<check, terminalList, status, task, connection, wedged, drops>>

Drop(a) ==
  /\ ~wedged /\ Connected(a) /\ drops < MaxDrops
  /\ connection' = [connection EXCEPT ![a] = NoConnection]
  /\ drops' = drops + 1
  /\ UNCHANGED <<offered, check, terminalList, status, task, wedged>>

\* IdleProc finds a connection quiet, or a reader locks a terminal.
PoolWedges ==
  /\ ~wedged /\ \E a \in Addresses : Connected(a)
  /\ wedged' = TRUE
  /\ UNCHANGED <<offered, check, terminalList, status, task, connection, drops>>

-----------------------------------------------------------------------------
TaskStep(e) ==
  \/ GiveUp(e)
  \/ StartClient(e)
  \/ DialFails(e)
  \/ AttachSettings(e)
  \/ \E outcome \in {"up", "down"} : UpdateTerminalConnectionStatus(e, outcome)

Next ==
  \/ CheckTerminalList
  \/ RequestFails
  \/ ListIsUnusable
  \/ SaveTerminalList
  \/ \E e \in Entries : TaskStep(e)
  \/ OfferChanges
  \/ \E a \in Addresses : Drop(a)
  \/ PoolWedges

\* The main loop goes on, every request ends (http.Client has a timeout), and
\* every goroutine goes on.
Fairness ==
  /\ WF_vars(CheckTerminalList)
  /\ WF_vars(RequestFails \/ ListIsUnusable \/ SaveTerminalList)
  /\ \A e \in Entries : WF_vars(TaskStep(e))

Spec == Init /\ [][Next]_vars /\ Fairness

\* Of the world outside, where a property needs it: 1C asked again and again
\* sends its list at some time, and a terminal dialled again and again accepts.
WorldObliges ==
  /\ SF_vars(SaveTerminalList)
  /\ \A e \in Entries : SF_vars(StartClient(e))

-----------------------------------------------------------------------------
(* Properties *)

\* A terminal of the list whose connection has its Settings is shown as
\* connected, also when PORT and the text of IP tell different ports; and
\* every connection that passes the filter is in some row (GetTerminalList of
\* the pool, against processTerminalFrom1C).
ConnectedIsShown ==
  /\ \A l \in terminalList : connection[Address(l)] = l => ConnectionsOf(l) # {}
  /\ \A a \in Addresses : Connected(a) /\ a[1] \in Passing =>
       \E row \in Rows : row.with = {a}

\* A check comes to its end, whatever 1C does: the main loop waits for it
\* (checkTerminalList, Request1C).
CheckEnds == check > 0 ~> check = 0

\* A terminal that stays on the list, alone at its address, is connected in
\* the end and keeps the Settings of the list, although connections break,
\* requests and dials fail, and goroutines of earlier checks attach what
\* earlier lists told; unless the pool locks itself out.
ListedTerminalIsServed ==
  WorldObliges =>
    \A e \in Entries :
      Told[e].ip \in Passing \ {NotAnIP} =>
        (<>[](e \in offered /\ \A o \in offered : o # e => Address(o) # Address(e))
           => <>[](wedged \/ connection[Address(e)] = e))
=============================================================================
