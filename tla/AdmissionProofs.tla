-------------------------- MODULE AdmissionProofs --------------------------
(***************************************************************************)
(* Proof that a reason which holds throughout the reading of a card keeps  *)
(* the card out, for any cards, doors, devices and lists.  The invariant   *)
(* says which reasons a door has already dealt with: past its check of a   *)
(* list or of the marks, that reason did not hold at the moment of the     *)
(* check, and a reason once dropped never comes back during a reading.     *)
(***************************************************************************)
EXTENDS Admission, CardListProofs

\* A history for each door, and a place for its reader.
DoorsTyped ==
  /\ DOMAIN barred = Doors
  /\ door \in [Doors -> [pc : {"idle", "global", "marks", "secondary", "admitted"},
                         card : Cards \cup {NoCard}]]

\* The reasons a reader has found not to hold.
Excluded(pc) ==
  CASE pc = "marks" -> {"global"}
    [] pc = "secondary" -> {"global", "marked"}
    [] pc = "admitted" -> {"global", "marked", "secondary"}
    [] OTHER -> {}

ChecksHold ==
  \A d \in Doors : /\ barred[d] \subseteq AllReasons
                   /\ barred[d] \cap Excluded(door[d].pc) = {}

DoorInv == DoorsTyped /\ ChecksHold

----------------------------------------------------------------------------
\* The reasons to deny a card are always among those named in AllReasons.
LEMMA ReasonsAreReasons ==
  ASSUME NEW d \in Doors, NEW c
  PROVE  Reasons(d, c) \subseteq AllReasons /\ Reasons(d, c)' \subseteq AllReasons
  BY DEF Reasons, AllReasons

\* At the start nobody is reading.
LEMMA InitDoors == AdmissionInit => DoorInv
  BY DEF AdmissionInit, DoorInv, DoorsTyped, ChecksHold, IdleDoor

\* What the history keeps of a door: nothing new while a card is being read.
LEMMA HistoryShrinks ==
  ASSUME Watch, NEW d \in Doors
  PROVE  /\ barred'[d] \subseteq AllReasons
         /\ door'[d].pc = "idle" => barred'[d] = {}
         /\ door'[d].pc # "idle" /\ door[d].pc # "idle" =>
              barred'[d] = barred[d] \cap Reasons(d, door[d].card)'
  BY ReasonsAreReasons DEF Watch

\* A door whose reader does not move has dealt with what it had dealt with.
LEMMA StillExcluded ==
  ASSUME DoorInv, Watch, NEW d \in Doors, door'[d] = door[d]
  PROVE  barred'[d] \cap Excluded(door'[d].pc) = {}
<1>1. CASE door[d].pc = "idle"
  BY <1>1, HistoryShrinks
<1>2. CASE door[d].pc # "idle"
  BY <1>2, HistoryShrinks DEF DoorInv, ChecksHold
<1> QED
  BY <1>1, <1>2

\* One reader moves and has dealt with what its new place asks for.
LEMMA OneDoorMoves ==
  ASSUME DoorInv, Watch, NEW d \in Doors,
         NEW state \in [pc : {"idle", "global", "marks", "secondary", "admitted"},
                        card : Cards \cup {NoCard}],
         door' = [door EXCEPT ![d] = state],
         barred'[d] \cap Excluded(state.pc) = {}
  PROVE  DoorInv'
<1>1. door'[d] = state /\ \A o \in Doors \ {d} : door'[o] = door[o]
  BY DEF DoorInv, DoorsTyped
<1>2. DoorsTyped'
  BY DEF DoorInv, DoorsTyped, Watch
<1>3. \A o \in Doors : barred'[o] \cap Excluded(door'[o].pc) = {}
  BY <1>1, StillExcluded
<1>4. \A o \in Doors : barred'[o] \subseteq AllReasons
  BY HistoryShrinks
<1> QED
  BY <1>2, <1>3, <1>4 DEF DoorInv, ChecksHold

\* Turned away or done, a reader keeps no history.
LEMMA TurnAwayKeeps ==
  ASSUME DoorInv, Watch, NEW d \in Doors, TurnAway(d)
  PROVE  DoorInv'
<1>1. door'[d].pc = "idle" /\ IdleDoor.pc = "idle"
  BY DEF TurnAway, IdleDoor, DoorInv, DoorsTyped
<1>2. barred'[d] = {}
  BY <1>1, HistoryShrinks
<1>3. IdleDoor \in [pc : {"idle", "global", "marks", "secondary", "admitted"},
                    card : Cards \cup {NoCard}]
  BY DEF IdleDoor
<1>4. door' = [door EXCEPT ![d] = IdleDoor]
  BY DEF TurnAway
<1> QED
  BY <1>2, <1>3, <1>4, OneDoorMoves

\* A reader passes a check: the reason it looked for does not hold just now,
\* and those it looked for before are not in its history.
LEMMA PassKeeps ==
  ASSUME DoorInv, Watch, NEW d \in Doors, door[d].pc # "idle",
         NEW to \in {"marks", "secondary", "admitted"}, DoorTo(d, to),
         NEW reason, reason \notin Reasons(d, door[d].card)',
         Excluded(to) = Excluded(door[d].pc) \cup {reason}
  PROVE  DoorInv'
<1> DEFINE state == [door[d] EXCEPT !.pc = to]
<1>1. door' = [door EXCEPT ![d] = state] /\ state.pc = to
  BY DEF DoorTo, DoorInv, DoorsTyped
<1>2. state \in [pc : {"idle", "global", "marks", "secondary", "admitted"},
                 card : Cards \cup {NoCard}]
  BY DEF DoorInv, DoorsTyped
<1>3. door'[d].pc = to
  BY <1>1 DEF DoorInv, DoorsTyped
<1>4. barred'[d] = barred[d] \cap Reasons(d, door[d].card)'
  BY <1>3, HistoryShrinks
<1>5. barred[d] \cap Excluded(door[d].pc) = {}
  BY DEF DoorInv, ChecksHold
<1>6. barred'[d] \cap Excluded(to) = {}
  BY <1>4, <1>5
<1> QED
  BY <1>1, <1>2, <1>6, OneDoorMoves

\* The reader of a door does a step of ProcessTagRead.
LEMMA DoorStepKeeps ==
  ASSUME DoorInv, Watch, NEW d \in Doors, DoorStep(d)
  PROVE  DoorInv'
<1>1. ASSUME NEW c \in Cards, TagRead(d, c)
      PROVE  DoorInv'
  <2> DEFINE state == [pc |-> "global", card |-> c]
  <2>1. door' = [door EXCEPT ![d] = state]
    BY <1>1 DEF TagRead
  <2>2. state \in [pc : {"idle", "global", "marks", "secondary", "admitted"},
                   card : Cards \cup {NoCard}]
    OBVIOUS
  <2>3. barred'[d] \cap Excluded(state.pc) = {}
    BY DEF Excluded
  <2> QED
    BY <2>1, <2>2, <2>3, OneDoorMoves
<1>2. CASE CheckGlobal(d)
  <2>1. CASE TurnAway(d)
    BY <2>1, TurnAwayKeeps
  <2>2. CASE DoorTo(d, "marks") /\ ~Denies(gmclist, door[d].card)
    <3>1. "global" \notin Reasons(d, door[d].card)'
      <4>1. door'[d].card = door[d].card /\ gmclist' = gmclist
        BY <1>2, <2>2 DEF CheckGlobal, DoorTo, DoorInv, DoorsTyped, vars, listVars
      <4> QED
        BY <2>2, <4>1 DEF Reasons, Denies
    <3>2. Excluded("marks") = Excluded(door[d].pc) \cup {"global"} /\ door[d].pc # "idle"
      BY <1>2 DEF CheckGlobal, Excluded
    <3> QED
      BY <2>2, <3>1, <3>2, PassKeeps
  <2> QED
    BY <1>2, <2>1, <2>2 DEF CheckGlobal
<1>3. CASE CheckMarks(d)
  <2>1. CASE TurnAway(d)
    BY <2>1, TurnAwayKeeps
  <2>2. CASE DoorTo(d, "secondary") /\ ~(d \in DeniesMarked /\ door[d].card \in marks)
    <3>1. "marked" \notin Reasons(d, door[d].card)'
      <4>1. door'[d].card = door[d].card /\ marks' = marks
        BY <1>3, <2>2 DEF CheckMarks, DoorTo, DoorInv, DoorsTyped
      <4> QED
        BY <2>2, <4>1 DEF Reasons
    <3>2. Excluded("secondary") = Excluded(door[d].pc) \cup {"marked"} /\ door[d].pc # "idle"
      BY <1>3 DEF CheckMarks, Excluded
    <3> QED
      BY <2>2, <3>1, <3>2, PassKeeps
  <2> QED
    BY <1>3, <2>1, <2>2 DEF CheckMarks
<1>4. CASE CheckSecondary(d)
  <2>1. CASE TurnAway(d)
    BY <2>1, TurnAwayKeeps
  <2>2. CASE DoorTo(d, "admitted") /\ ~Denies(mclist, door[d].card)
    <3>1. "secondary" \notin Reasons(d, door[d].card)'
      <4>1. door'[d].card = door[d].card /\ mclist' = mclist
        BY <1>4, <2>2 DEF CheckSecondary, DoorTo, DoorInv, DoorsTyped, vars, listVars
      <4> QED
        BY <2>2, <4>1 DEF Reasons, Denies
    <3>2. Excluded("admitted") = Excluded(door[d].pc) \cup {"secondary"} /\ door[d].pc # "idle"
      BY <1>4 DEF CheckSecondary, Excluded
    <3> QED
      BY <2>2, <3>1, <3>2, PassKeeps
  <2> QED
    BY <1>4, <2>1, <2>2 DEF CheckSecondary
<1>5. CASE StartSession(d)
  BY <1>5, TurnAwayKeeps DEF StartSession
<1> QED
  BY <1>1, <1>2, <1>3, <1>4, <1>5 DEF DoorStep

\* Nobody's reader moves: lists, saves and marks change.
LEMMA DoorsStandStill ==
  ASSUME DoorInv, Watch, UNCHANGED door
  PROVE  DoorInv'
<1>1. DoorsTyped'
  BY DEF DoorInv, DoorsTyped, Watch
<1>2. \A d \in Doors : barred'[d] \cap Excluded(door'[d].pc) = {}
  BY StillExcluded
<1>3. \A d \in Doors : barred'[d] \subseteq AllReasons
  BY HistoryShrinks
<1> QED
  BY <1>1, <1>2, <1>3 DEF DoorInv, ChecksHold

\* Every operation keeps the readings and their reasons in step.
LEMMA StepDoors == DoorInv /\ [AdmissionNext]_admissionVars => DoorInv'
<1> SUFFICES ASSUME DoorInv, [AdmissionNext]_admissionVars
             PROVE  DoorInv'
  OBVIOUS
<1>1. ASSUME ListStep, Watch
      PROVE  DoorInv'
  BY <1>1, DoorsStandStill DEF ListStep
<1>2. ASSUME NEW v \in Devices, DeviceStep(v), Watch
      PROVE  DoorInv'
  BY <1>2, DoorsStandStill DEF DeviceStep, AskForMark, ActOnMark
<1>3. ASSUME NEW d \in Doors, DoorStep(d), Watch
      PROVE  DoorInv'
  BY <1>3, DoorStepKeeps
<1>4. ASSUME RestartDaemon, Watch
      PROVE  DoorInv'
  <2>1. door' = [d \in Doors |-> IdleDoor]
    BY <1>4 DEF RestartDaemon
  <2>2. \A d \in Doors : door'[d].pc = "idle"
    BY <2>1 DEF IdleDoor
  <2>3. DOMAIN barred' = Doors /\ \A d \in Doors : barred'[d] = {}
    BY <1>4, <2>2, HistoryShrinks DEF Watch
  <2> QED
    BY <2>1, <2>3 DEF DoorInv, DoorsTyped, ChecksHold, IdleDoor
<1>5. CASE UNCHANGED admissionVars
  BY <1>5 DEF admissionVars, DoorInv, DoorsTyped, ChecksHold
<1> QED
  BY <1>1, <1>2, <1>3, <1>4, <1>5 DEF AdmissionNext

\* No card is admitted that one of the deny lists or a mark has spoken against
\* throughout its reading (CheckGlobal, Has and CheckSecondary in
\* ProcessTagRead), for any number of terminals and any changes meanwhile.
THEOREM BarredCardStaysOut == AdmissionSpec => []AdmittedWasNotBarred
<1>1. DoorInv => AdmittedWasNotBarred
  BY DEF DoorInv, ChecksHold, Excluded, AllReasons, AdmittedWasNotBarred
<1> QED
  BY <1>1, InitDoors, StepDoors, PTL DEF AdmissionSpec

----------------------------------------------------------------------------
(* Typing.                                                                  *)

\* A device acts on a card it was given.
DevicesHaveCards == \A v \in Devices : device[v].pc = "acting" => device[v].card \in Cards

TypedInv == AdmissionTypeOK /\ DevicesHaveCards /\ DoorInv

\* The program starts well typed ...
LEMMA InitTypedInv == AdmissionInit => TypedInv
<1> SUFFICES ASSUME AdmissionInit
             PROVE  TypedInv
  OBVIOUS
<1>1. TypeOK
  BY InitTyped DEF AdmissionInit
<1>2. AdmissionTypeOK
  BY <1>1 DEF AdmissionInit, AdmissionTypeOK, IdleDoor, IdleDevice
<1>3. DevicesHaveCards
  BY DEF AdmissionInit, DevicesHaveCards, IdleDevice
<1> QED
  BY <1>2, <1>3, InitDoors DEF TypedInv

\* A step of the lists is a step of CardList; any other leaves them alone.
LEMMA ListsFollowCardList ==
  ASSUME [AdmissionNext]_admissionVars
  PROVE  [Next]_vars
<1>1. CASE ListStep
  BY <1>1 DEF ListStep, Next
<1>2. CASE RestartDaemon
  BY <1>2 DEF RestartDaemon, Next
<1>3. ASSUME NEW d \in Doors, DoorStep(d)
      PROVE  UNCHANGED vars
  BY <1>3 DEF DoorStep, TagRead, CheckGlobal, CheckMarks, CheckSecondary, StartSession
<1>4. ASSUME NEW v \in Devices, DeviceStep(v)
      PROVE  UNCHANGED vars
  BY <1>4 DEF DeviceStep, AskForMark, ActOnMark
<1>5. CASE UNCHANGED admissionVars
  BY <1>5 DEF admissionVars
<1> QED
  BY <1>1, <1>2, <1>3, <1>4, <1>5 DEF AdmissionNext

\* The devices and the marks.
LEMMA DevicesTyped ==
  ASSUME TypedInv, [AdmissionNext]_admissionVars
  PROVE  /\ marks' \in SUBSET Cards
         /\ device' \in [Devices -> [pc : {"idle", "acting"}, card : Cards \cup {NoCard},
                                     seen : BOOLEAN]]
         /\ DevicesHaveCards'
<1> USE DEF TypedInv, AdmissionTypeOK, DevicesHaveCards
<1>1. ASSUME NEW v \in Devices, NEW c \in Cards, AskForMark(v, c)
      PROVE  /\ marks' \in SUBSET Cards
             /\ device' \in [Devices -> [pc : {"idle", "acting"}, card : Cards \cup {NoCard},
                                         seen : BOOLEAN]]
             /\ DevicesHaveCards'
  BY <1>1 DEF AskForMark
<1>2. ASSUME NEW v \in Devices, ActOnMark(v)
      PROVE  /\ marks' \in SUBSET Cards
             /\ device' \in [Devices -> [pc : {"idle", "acting"}, card : Cards \cup {NoCard},
                                         seen : BOOLEAN]]
             /\ DevicesHaveCards'
  BY <1>2 DEF ActOnMark, IdleDevice
<1>3. CASE RestartDaemon
  BY <1>3 DEF RestartDaemon, IdleDevice
<1>4. CASE UNCHANGED <<marks, device>>
  BY <1>4
<1>5. ASSUME NEW d \in Doors, DoorStep(d)
      PROVE  UNCHANGED <<marks, device>>
  BY <1>5 DEF DoorStep, TagRead, CheckGlobal, CheckMarks, CheckSecondary, StartSession
<1> QED
  BY <1>1, <1>2, <1>3, <1>4, <1>5 DEF AdmissionNext, ListStep, DeviceStep, admissionVars

\* ... and stays so, lists and readers together.
LEMMA StepTypedInv == TypedInv /\ [AdmissionNext]_admissionVars => TypedInv'
<1> SUFFICES ASSUME TypedInv, [AdmissionNext]_admissionVars
             PROVE  TypedInv'
  OBVIOUS
<1>1. TypeOK'
  BY ListsFollowCardList, StepTyped DEF TypedInv, AdmissionTypeOK
<1>2. DoorInv'
  BY StepDoors DEF TypedInv
<1>3. barred' \in [Doors -> SUBSET AllReasons]
  <2>1. barred' = [d \in Doors |-> barred'[d]]
    <3>1. CASE UNCHANGED admissionVars
      BY <3>1 DEF TypedInv, AdmissionTypeOK, admissionVars
    <3>2. CASE AdmissionNext
      BY <3>2 DEF AdmissionNext, Watch
    <3> QED
      BY <3>1, <3>2
  <2>2. \A d \in Doors : barred'[d] \in SUBSET AllReasons
    BY <1>2 DEF DoorInv, ChecksHold
  <2> QED
    BY <2>1, <2>2
<1> QED
  BY <1>1, <1>2, <1>3, DevicesTyped DEF TypedInv, AdmissionTypeOK, DoorInv, DoorsTyped

\* Lists, file, marks and readers stay well typed together.
THEOREM AdmissionTypeCorrect == AdmissionSpec => []AdmissionTypeOK
<1>1. TypedInv => AdmissionTypeOK
  BY DEF TypedInv
<1> QED
  BY <1>1, InitTypedInv, StepTypedInv, PTL DEF AdmissionSpec
=============================================================================
