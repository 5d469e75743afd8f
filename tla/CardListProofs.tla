--------------------------- MODULE CardListProofs ---------------------------
(***************************************************************************)
(* Proofs about CardList, for any cards, messages, text lengths and number *)
(* of goroutines that save:                                                *)
(*                                                                         *)
(*   - type correctness,                                                   *)
(*   - the implementation of SnapshotStore: whatever is in memory, in a    *)
(*     goroutine or in the file was in memory at one moment (PastHolds),   *)
(*   - LastChangeIsSaved, from the shape of a clean save (CleanSave): one  *)
(*     goroutine at most is under way, it carries the lists as they are,   *)
(*     and after its truncation the file stays empty until it writes.      *)
(***************************************************************************)
EXTENDS CardList, TLAPS

\* Everything a restart could find, or could come to find, is past.
PastHolds ==
  /\ Nothing \in past
  /\ Data \in past
  /\ \A w \in Writers : writer[w].data \in past
  /\ file.data # Junk => file.data \in past

\* The only save under way is that of the last change.
SavedBy(w) ==
  /\ writer[w].pc # "idle"
  /\ writer[w].data = Data
  /\ writer[w].pc = "writing" => file = NoBytes
  /\ \A v \in Writers \ {w} : writer[v].pc = "idle"

CleanSave ==
  clean => \/ AllSaved /\ Loaded = Data
           \/ \E w \in Writers : SavedBy(w)

IInv == TypeOK /\ PastHolds /\ CleanSave

----------------------------------------------------------------------------
(* The changes of the lists.                                                *)

\* The three ways to change a list yield a list.
LEMMA ListsTyped ==
  ASSUME NEW list \in Lists, NEW e \in Entries, NEW S \in SUBSET Cards
  PROVE  /\ Added(list, e) \in Lists
         /\ Removed(list, S) \in Lists
         /\ Synced(list, e) \in Lists
<1>1. PICK T \in SUBSET Cards : e \in [T -> Messages]
  BY DEF Entries
<1>2. DOMAIN e = T /\ \A c \in T : e[c] \in Messages
  BY <1>1
<1> QED
  BY <1>2 DEF Lists, Added, Removed, Synced

\* Every change leaves two lists and hands them over.
LEMMA ChangeEffect ==
  ASSUME TypeOK, NEW w \in Writers, ChangeLists(w)
  PROVE  /\ gmclist' \in Lists /\ mclist' \in Lists
         /\ PersistAsync(w)
<1> USE DEF TypeOK
<1>1. ASSUME NEW e \in Entries, AddGlobal(w, e) \/ AddSecondary(w, e) \/ SyncGlobal(w, e)
      PROVE  gmclist' \in Lists /\ mclist' \in Lists /\ PersistAsync(w)
  BY <1>1, ListsTyped DEF AddGlobal, AddSecondary, SyncGlobal
<1>2. ASSUME NEW S \in SUBSET Cards, DelGlobal(w, S) \/ DelSecondary(w, S)
      PROVE  gmclist' \in Lists /\ mclist' \in Lists /\ PersistAsync(w)
  <2>1. \A list \in Lists : Removed(list, S) \in Lists
    BY DEF Lists, Removed
  <2> QED
    BY <1>2, <2>1 DEF DelGlobal, DelSecondary
<1> QED
  BY <1>1, <1>2 DEF ChangeLists

----------------------------------------------------------------------------
(* Typing.                                                                  *)

\* Empty lists are a snapshot.
LEMMA NothingTyped == Nothing \in Snapshots
  BY DEF Nothing, Snapshots, EmptyList, Lists

\* The program starts well typed ...
LEMMA InitTyped == Init => TypeOK
  BY NothingTyped DEF Init, TypeOK, IdleWriter, NoBytes, EmptyList, Lists

\* What a restart reads is a pair of lists.
LEMMA LoadedTyped == TypeOK => Loaded \in Snapshots
  BY NothingTyped DEF TypeOK, Loaded, Parses

\* ... a change of a list keeps it so, ...
LEMMA ChangeTyped ==
  ASSUME TypeOK, NEW w \in Writers, ChangeLists(w)
  PROVE  TypeOK'
<1>1. gmclist' \in Lists /\ mclist' \in Lists /\ PersistAsync(w)
  BY ChangeEffect
<1>2. Data' \in Snapshots
  BY <1>1 DEF Data, Snapshots
<1> QED
  BY <1>1, <1>2 DEF TypeOK, PersistAsync, AllSaved

\* ... and each step of a save, ...
LEMMA SaveTyped ==
  ASSUME TypeOK, NEW w \in Writers, Save(w)
  PROVE  TypeOK'
<1> USE DEF TypeOK, listVars
<1>1. IdleWriter \in [pc : {"idle", "opening", "writing"}, data : Snapshots]
  BY NothingTyped DEF IdleWriter
<1>2. Size[writer[w].data] \in Nat \ {0}
  BY SizesArePositive
<1>3. CASE Open(w)
  BY <1>3 DEF Open, NoBytes
<1>4. CASE Write(w)
  BY <1>1, <1>2, <1>4 DEF Write, Finish, Longest
<1>5. CASE SaveFails(w)
  <2>1. file' \in [data : Snapshots \cup {Junk}, size : Nat]
    <3>1. CASE UNCHANGED file
      BY <3>1
    <3>2. ASSUME NEW n \in 1 .. (Size[writer[w].data] - 1),
                 file' = [data |-> Junk, size |-> Longest(file.size, n)]
          PROVE  file' \in [data : Snapshots \cup {Junk}, size : Nat]
      BY <1>2, <3>2 DEF Longest
    <3> QED
      BY <1>5, <3>1, <3>2 DEF SaveFails
  <2>2. writer' \in [Writers -> [pc : {"idle", "opening", "writing"}, data : Snapshots]]
    BY <1>1, <1>5 DEF SaveFails, Finish
  <2> QED
    BY <1>5, <2>1, <2>2 DEF SaveFails
<1> QED
  BY <1>3, <1>4, <1>5 DEF Save

\* ... and a restart, ...
LEMMA RestartTyped ==
  ASSUME TypeOK, NEW readable \in BOOLEAN, Restart(readable)
  PROVE  TypeOK'
<1>1. (IF readable THEN Loaded ELSE Nothing) \in Snapshots
  BY LoadedTyped, NothingTyped
<1> QED
  BY <1>1, NothingTyped DEF Restart, TypeOK, Snapshots, IdleWriter

\* ... hence every operation.
LEMMA StepTyped == TypeOK /\ [Next]_vars => TypeOK'
<1>1. ASSUME TypeOK, UNCHANGED vars
      PROVE  TypeOK'
  BY <1>1 DEF TypeOK, vars, listVars
<1> QED
  BY <1>1, ChangeTyped, SaveTyped, RestartTyped DEF Next

----------------------------------------------------------------------------
(* The past.                                                                *)

\* Empty lists are past from the start.
LEMMA InitPast == Init => PastHolds
  BY DEF Init, PastHolds, Data, Nothing, NoBytes, IdleWriter

\* A change makes the new lists past, and takes nothing back.
LEMMA ChangePast ==
  ASSUME TypeOK, PastHolds, NEW w \in Writers, ChangeLists(w)
  PROVE  PastHolds'
<1>1. PersistAsync(w)
  BY ChangeEffect
<1> QED
  BY <1>1 DEF PastHolds, PersistAsync, TypeOK

\* A save moves lists that are past.
LEMMA SavePast ==
  ASSUME TypeOK, PastHolds, NEW w \in Writers, Save(w)
  PROVE  PastHolds'
<1> USE DEF TypeOK, PastHolds, listVars, Data
<1>1. CASE Open(w)
  BY <1>1 DEF Open, NoBytes
<1>2. CASE Write(w)
  BY <1>2 DEF Write, Finish, IdleWriter
<1>3. CASE SaveFails(w)
  BY <1>3 DEF SaveFails, Finish, IdleWriter
<1> QED
  BY <1>1, <1>2, <1>3 DEF Save

\* What a restart finds in the file is past.
LEMMA LoadedIsPast == TypeOK /\ PastHolds => Loaded \in past
  BY DEF PastHolds, Loaded, Parses

\* A pair of lists is its two lists.
LEMMA DataOf ==
  ASSUME NEW d \in Snapshots, gmclist' = d.GMCList, mclist' = d.MCList
  PROVE  Data' = d
  BY DEF Data, Snapshots

\* After a restart the lists are those of the file, or empty.
LEMMA RestartData ==
  ASSUME TypeOK, NEW readable \in BOOLEAN, Restart(readable)
  PROVE  Data' = IF readable THEN Loaded ELSE Nothing
<1> DEFINE d == IF readable THEN Loaded ELSE Nothing
<1>1. d \in Snapshots
  BY LoadedTyped, NothingTyped
<1>2. gmclist' = d.GMCList /\ mclist' = d.MCList
  BY DEF Restart
<1> QED
  BY <1>1, <1>2, DataOf

\* A restart begins with what is past.
LEMMA RestartPast ==
  ASSUME TypeOK, PastHolds, NEW readable \in BOOLEAN, Restart(readable)
  PROVE  PastHolds'
<1>1. Data' \in past
  BY RestartData, LoadedIsPast DEF PastHolds
<1> QED
  BY <1>1 DEF Restart, PastHolds, IdleWriter

----------------------------------------------------------------------------
(* The clean save.                                                          *)

\* At the start no save is under way.
LEMMA InitClean == Init => CleanSave
<1> SUFFICES ASSUME Init
             PROVE  CleanSave
  OBVIOUS
<1>1. AllSaved
  BY DEF Init, AllSaved, IdleWriter
<1>2. Loaded = Data
  BY DEF Init, Loaded, Parses, NoBytes, Data, Nothing
<1> QED
  BY <1>1, <1>2 DEF CleanSave

\* A change either starts the only save or makes the history unclean.
LEMMA ChangeClean ==
  ASSUME TypeOK, NEW w \in Writers, ChangeLists(w)
  PROVE  CleanSave'
<1>1. PersistAsync(w)
  BY ChangeEffect
<1>2. ASSUME AllSaved
      PROVE  SavedBy(w)'
  BY <1>1, <1>2 DEF PersistAsync, AllSaved, SavedBy, TypeOK
<1> QED
  BY <1>1, <1>2 DEF PersistAsync, CleanSave

\* The one save under way goes on; it is the only goroutine that can.
LEMMA SaveClean ==
  ASSUME TypeOK, CleanSave, NEW w \in Writers, Save(w)
  PROVE  CleanSave'
<1> SUFFICES ASSUME clean'
             PROVE  (AllSaved /\ Loaded = Data)' \/ SavedBy(w)'
  BY DEF CleanSave
<1> USE DEF TypeOK, listVars
<1>1. Open(w) \/ Write(w)
  BY DEF Save, SaveFails
<1>2. clean /\ Data' = Data
  BY <1>1 DEF Open, Write, Data
<1>3. SavedBy(w)
  BY <1>1, <1>2 DEF CleanSave, AllSaved, SavedBy, Open, Write
<1>4. CASE Open(w)
  BY <1>2, <1>3, <1>4 DEF Open, SavedBy
<1>5. CASE Write(w)
  <2>1. AllSaved'
    BY <1>3, <1>5 DEF Write, Finish, SavedBy, AllSaved, IdleWriter
  <2>2. /\ Data \in Snapshots
        /\ Data # Junk
        /\ Size[Data] \in Nat \ {0}
    BY MarksAreDistinct, SizesArePositive DEF Data, Snapshots
  <2>3. file.size = 0
    BY <1>3, <1>5 DEF SavedBy, Write, NoBytes
  <2>4. file' = [data |-> Data, size |-> Size[Data]]
    BY <1>3, <1>5, <2>2, <2>3 DEF Write, SavedBy, Longest
  <2>5. Loaded' = Data
    BY <2>2, <2>4 DEF Loaded, Parses
  <2> QED
    BY <1>2, <2>1, <2>5
<1> QED
  BY <1>1, <1>4, <1>5

\* A restart leaves no save under way.
LEMMA RestartClean ==
  ASSUME TypeOK, NEW readable \in BOOLEAN, Restart(readable)
  PROVE  CleanSave'
<1>1. AllSaved'
  BY DEF Restart, AllSaved, IdleWriter
<1>2. Loaded' = Loaded
  BY DEF Restart, Loaded, Parses
<1>3. clean' => Data' = Loaded
  BY RestartData DEF Restart
<1> QED
  BY <1>1, <1>2, <1>3 DEF CleanSave

----------------------------------------------------------------------------
(* The invariant and what follows from it.                                  *)

\* The invariant holds when the program starts ...
LEMMA InitIInv == Init => IInv
  BY InitTyped, InitPast, InitClean DEF IInv

\* ... and every operation preserves it.
LEMMA StepIInv == IInv /\ [Next]_vars => IInv'
<1> SUFFICES ASSUME IInv, [Next]_vars
             PROVE  IInv'
  OBVIOUS
<1>1. TypeOK'
  BY StepTyped DEF IInv
<1>2. ASSUME NEW w \in Writers, ChangeLists(w)
      PROVE  PastHolds' /\ CleanSave'
  BY <1>2, ChangePast, ChangeClean DEF IInv
<1>3. ASSUME NEW w \in Writers, Save(w)
      PROVE  PastHolds' /\ CleanSave'
  BY <1>3, SavePast, SaveClean DEF IInv
<1>4. ASSUME NEW readable \in BOOLEAN, Restart(readable)
      PROVE  PastHolds' /\ CleanSave'
  BY <1>4, RestartPast, RestartClean DEF IInv
<1>5. ASSUME UNCHANGED vars
      PROVE  PastHolds' /\ CleanSave'
  BY <1>5 DEF IInv, PastHolds, CleanSave, SavedBy, AllSaved, Loaded, Parses, Data, vars, listVars
<1> QED
  BY <1>1, <1>2, <1>3, <1>4, <1>5 DEF Next, IInv

\* The inductive invariant holds of every behaviour of cardlist.go.
THEOREM CardListInvariant == Spec => []IInv
<1> QED
  BY InitIInv, StepIInv, PTL DEF Spec

\* The lists, the saves and the file stay well typed.
THEOREM CardListTypeCorrect == Spec => []TypeOK
<1>1. IInv => TypeOK
  BY DEF IInv
<1> QED
  BY <1>1, CardListInvariant, PTL

\* A change made while no save was under way is what a restart loads once it
\* is saved (os.WriteFile in persistAsync, Load).
THEOREM CleanChangeIsDurable == Spec => []LastChangeIsSaved
<1>1. IInv => LastChangeIsSaved
  BY DEF IInv, CleanSave, SavedBy, AllSaved, LastChangeIsSaved
<1> QED
  BY <1>1, CardListInvariant, PTL

----------------------------------------------------------------------------
(* cardlist.go implements SnapshotStore.                                    *)

\* The lists at the start are the initial state of the store.
LEMMA StoreInit == Init => Store!Init
  BY DEF Init, Store!Init, Data, Nothing

\* Every operation is one of the store, or leaves it as it is.
LEMMA StoreStep == IInv /\ [Next]_vars => [Store!Next]_Store!vars
<1> SUFFICES ASSUME IInv, [Next]_vars
             PROVE  Store!Next \/ UNCHANGED Store!vars
  OBVIOUS
<1> USE DEF Store!Next, Store!vars
<1>1. ASSUME NEW w \in Writers, ChangeLists(w)
      PROVE  Store!Change
  <2>1. gmclist' \in Lists /\ mclist' \in Lists /\ PersistAsync(w)
    BY <1>1, ChangeEffect DEF IInv
  <2> QED
    BY <2>1 DEF Store!Change, PersistAsync, Data, Snapshots
<1>2. ASSUME NEW w \in Writers, Save(w)
      PROVE  UNCHANGED Store!vars
  BY <1>2 DEF Save, Open, Write, SaveFails, listVars, Data
<1>3. ASSUME NEW readable \in BOOLEAN, Restart(readable)
      PROVE  Store!Restart
  <2>1. Data' \in past
    BY <1>3, RestartData, LoadedIsPast DEF IInv, PastHolds
  <2> QED
    BY <1>3, <2>1 DEF Store!Restart, Restart
<1>4. CASE UNCHANGED vars
  BY <1>4 DEF vars, listVars, Data
<1> QED
  BY <1>1, <1>2, <1>3, <1>4 DEF Next

\* However saves overlap, overtake one another, fail or are cut off by a stop,
\* the daemon starts with both lists of one moment, or with empty ones.
THEOREM RestartIsConsistent == Spec => RestartsFromPast
<1> QED
  BY StoreInit, StoreStep, CardListInvariant, PTL
     DEF Spec, RestartsFromPast, Store!Spec
=============================================================================
