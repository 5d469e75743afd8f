----------------------------- MODULE Admission -----------------------------
(***************************************************************************)
(* What stands between a tag and an access session: the readers' checks of *)
(* the deny lists (CardList) and of the marks of memory registration       *)
(* (pkg/utils/memreg.go), which other terminals set and clear              *)
(* (internal/connection/memreg.go: "towel/add", "towel/take").             *)
(*                                                                         *)
(* Each terminal has one reader goroutine.  At a door it runs              *)
(* ProcessTagRead (internal/daemon/daemon.go), at a registration device    *)
(* handleMemRegDevice.  Every look at a list or at the marks takes its own *)
(* lock, so the lists and the marks may change between two of them.  The   *)
(* marks are kept in memory only.                                          *)
(***************************************************************************)
EXTENDS CardList

CONSTANTS
  Doors,         \* terminals where a card asks for access
  Devices,       \* terminals where a card is marked
  DeniesMarked,  \* doors with Settings.MemRegDeny
  ModeOf         \* device -> mode of Settings.MemRegDev; DISP acts as SET, TAKE as CLR

ASSUME TerminalsAreTyped ==
  /\ DeniesMarked \subseteq Doors
  /\ ModeOf \in [Devices -> {"AUTO", "SET", "CLR"}]

VARIABLES
  marks,   \* the cards with a value in the storage
  door,    \* where the reader of each door stands, and with which card
  device,  \* the same for the devices, and whether the card had a mark
  barred   \* history: what has spoken against the card at a door ever since
           \* its tag arrived

admissionVars == <<vars, marks, door, device, barred>>

NoCard == NotListed

Denies(list, c) == list[c] \notin {NotListed, Blank}

\* What speaks against card c at door d at this moment.
Reasons(d, c) ==
  (IF gmclist[c] # NotListed THEN {"listed"} ELSE {})
    \cup (IF Denies(gmclist, c) THEN {"global"} ELSE {})
    \cup (IF d \in DeniesMarked /\ c \in marks THEN {"marked"} ELSE {})
    \cup (IF Denies(mclist, c) THEN {"secondary"} ELSE {})

AllReasons == {"listed", "global", "marked", "secondary"}

IdleDoor == [pc |-> "idle", card |-> NoCard]
IdleDevice == [pc |-> "idle", card |-> NoCard, seen |-> FALSE]

AdmissionTypeOK ==
  /\ TypeOK
  /\ marks \in SUBSET Cards
  /\ door \in [Doors -> [pc : {"idle", "global", "marks", "secondary", "admitted"},
                         card : Cards \cup {NoCard}]]
  /\ device \in [Devices -> [pc : {"idle", "acting"}, card : Cards \cup {NoCard},
                             seen : BOOLEAN]]
  /\ barred \in [Doors -> SUBSET AllReasons]

AdmissionInit ==
  /\ Init
  /\ marks = {}
  /\ door = [d \in Doors |-> IdleDoor]
  /\ device = [d \in Devices |-> IdleDevice]
  /\ barred = [d \in Doors |-> {}]

----------------------------------------------------------------------------
(* Doors: ProcessTagRead, after which the session is started (Session).     *)

DoorTo(d, pc) == door' = [door EXCEPT ![d].pc = pc]
TurnAway(d) == door' = [door EXCEPT ![d] = IdleDoor]

TagRead(d, c) ==
  /\ door[d].pc = "idle"
  /\ door' = [door EXCEPT ![d] = [pc |-> "global", card |-> c]]
  /\ UNCHANGED <<vars, marks, device>>

\* CheckGlobal returns the card's message, and "" stands for "not listed".
CheckGlobal(d) ==
  /\ door[d].pc = "global"
  /\ IF Denies(gmclist, door[d].card) THEN TurnAway(d) ELSE DoorTo(d, "marks")
  /\ UNCHANGED <<vars, marks, device>>

\* Variant: the marks are not looked at.
CheckMarksSkipped(d) ==
  /\ door[d].pc = "marks"
  /\ DoorTo(d, "secondary")
  /\ UNCHANGED <<vars, marks, device>>

\* MEMREG deny, at a door that has it.
CheckMarks(d) ==
  /\ door[d].pc = "marks"
  /\ IF d \in DeniesMarked /\ door[d].card \in marks
     THEN TurnAway(d) ELSE DoorTo(d, "secondary")
  /\ UNCHANGED <<vars, marks, device>>

CheckSecondary(d) ==
  /\ door[d].pc = "secondary"
  /\ IF Denies(mclist, door[d].card) THEN TurnAway(d) ELSE DoorTo(d, "admitted")
  /\ UNCHANGED <<vars, marks, device>>

\* StartSession returns and the reader goes back to its socket.
StartSession(d) ==
  /\ door[d].pc = "admitted"
  /\ TurnAway(d)
  /\ UNCHANGED <<vars, marks, device>>

----------------------------------------------------------------------------
(* Devices: handleMemRegDevice asks for the mark and then acts on what it   *)
(* was told.                                                                *)

AskForMark(v, c) ==
  /\ device[v].pc = "idle"
  /\ device' = [device EXCEPT ![v] = [pc |-> "acting", card |-> c, seen |-> c \in marks]]
  /\ UNCHANGED <<vars, marks, door>>

\* Variant: the keys of the storage and of the card are swapped.
ActOnMarkSwapped(v) ==
  /\ device[v].pc = "acting"
  /\ marks' = IF device[v].seen THEN marks \ {v} ELSE marks \cup {v}
  /\ device' = [device EXCEPT ![v] = IdleDevice]
  /\ UNCHANGED <<vars, door>>

\* AUTO toggles, SET sets a mark that was not there, CLR clears one that was.
ActOnMark(v) ==
  LET c == device[v].card IN
  /\ device[v].pc = "acting"
  /\ marks' = IF ~device[v].seen /\ ModeOf[v] \in {"AUTO", "SET"} THEN marks \cup {c}
              ELSE IF device[v].seen /\ ModeOf[v] \in {"AUTO", "CLR"} THEN marks \ {c}
              ELSE marks
  /\ device' = [device EXCEPT ![v] = IdleDevice]
  /\ UNCHANGED <<vars, door>>

----------------------------------------------------------------------------
(* Lists change and are saved while cards are read; with the process the    *)
(* readers and the marks are gone.                                          *)

ListStep ==
  /\ \E w \in Writers : ChangeLists(w) \/ Save(w)
  /\ UNCHANGED <<marks, door, device>>

RestartDaemon ==
  /\ \E readable \in BOOLEAN : Restart(readable)
  /\ marks' = {}
  /\ door' = [d \in Doors |-> IdleDoor]
  /\ device' = [v \in Devices |-> IdleDevice]

DoorStep(d) ==
  \/ \E c \in Cards : TagRead(d, c)
  \/ CheckGlobal(d)
  \/ CheckMarks(d)
  \/ CheckSecondary(d)
  \/ StartSession(d)

DeviceStep(v) == (\E c \in Cards : AskForMark(v, c)) \/ ActOnMark(v)

\* The history follows every step: a reason that ceases to hold is dropped.
Watch ==
  barred' = [d \in Doors |->
    IF door'[d].pc = "idle" THEN {}
    ELSE IF door[d].pc = "idle" THEN Reasons(d, door[d].card)'
    ELSE barred[d] \cap Reasons(d, door[d].card)']

AdmissionNext ==
  /\ \/ ListStep
     \/ RestartDaemon
     \/ \E d \in Doors : DoorStep(d)
     \/ \E v \in Devices : DeviceStep(v)
  /\ Watch

AdmissionSpec == AdmissionInit /\ [][AdmissionNext]_admissionVars

----------------------------------------------------------------------------
(* Properties.                                                              *)

\* A card that is admitted was free of each reason to deny it at some moment
\* of the reading: no reason that held throughout is overlooked, whatever the
\* lists and the marks do meanwhile.  (A card that is moved from one list to
\* the other during the reading may slip between the two checks, and a card on
\* the global list without a message is let through: see Denies.)
AdmittedWasNotBarred ==
  \A d \in Doors : door[d].pc = "admitted" => barred[d] \subseteq {"listed"}
=============================================================================
