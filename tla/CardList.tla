------------------------------ MODULE CardList ------------------------------
(***************************************************************************)
(* The deny lists of cards (internal/cardlist/cardlist.go), changed by     *)
(* POST /api/cardlist and checked on every tag read.                       *)
(*                                                                         *)
(* A change is made under the mutex and hands a snapshot of both lists to  *)
(* a goroutine of its own, which calls os.WriteFile: open with truncation, *)
(* then one write at offset zero.  Nothing orders these goroutines, and    *)
(* nobody waits for them when the daemon stops.  Starting again, the       *)
(* daemon calls Load once.                                                 *)
(***************************************************************************)
EXTENDS Naturals

CONSTANTS
  Cards,      \* normalised card numbers; parseGMC drops anything else
  Messages,   \* texts a listed card may carry
  Blank,      \* the empty one
  NotListed,  \* the card is not in the map
  Writers,    \* goroutines that save; bounds how many are under way at once
  Size,       \* snapshot -> length of its JSON text
  Junk        \* text that does not parse

\* One of the two maps, and the persistData of both.
Lists == [Cards -> Messages \cup {NotListed}]
Snapshots == [GMCList : Lists, MCList : Lists]
EmptyList == [c \in Cards |-> NotListed]
Nothing == [GMCList |-> EmptyList, MCList |-> EmptyList]

ASSUME MarksAreDistinct ==
  /\ Blank \in Messages
  /\ NotListed \notin Messages
  /\ Junk \notin Snapshots

ASSUME SizesArePositive == Size \in [Snapshots -> Nat \ {0}]

VARIABLES
  gmclist,  \* the global list
  mclist,   \* the secondary list
  writer,   \* where each goroutine that saves stands, and with which snapshot
  file,     \* cardlist.json: the snapshot its text starts with, and its length
  past,     \* history: every pair of lists there has been
  clean     \* history: the last change was made with no save under way, and
            \* nothing has failed since

listVars == <<gmclist, mclist>>
vars == <<listVars, writer, file, past, clean>>

Data == [GMCList |-> gmclist, MCList |-> mclist]

IdleWriter == [pc |-> "idle", data |-> Nothing]
AllSaved == \A w \in Writers : writer[w].pc = "idle"

TypeOK ==
  /\ gmclist \in Lists
  /\ mclist \in Lists
  /\ writer \in [Writers -> [pc : {"idle", "opening", "writing"}, data : Snapshots]]
  /\ file \in [data : Snapshots \cup {Junk}, size : Nat]
  /\ past \in SUBSET Snapshots
  /\ clean \in BOOLEAN

\* No file yet, or an empty one: Load finds nothing in either.
NoBytes == [data |-> Junk, size |-> 0]

Init ==
  /\ gmclist = EmptyList
  /\ mclist = EmptyList
  /\ writer = [w \in Writers |-> IdleWriter]
  /\ file = NoBytes
  /\ past = {Nothing}
  /\ clean = TRUE

----------------------------------------------------------------------------
(* Changes.                                                                 *)

\* The cards of a request and their messages.
Entries == UNION {[S -> Messages] : S \in SUBSET Cards}

\* Add: a card that is listed already gets the new message.
Added(list, e) == [c \in Cards |-> IF c \in DOMAIN e THEN e[c] ELSE list[c]]

Removed(list, S) == [c \in Cards |-> IF c \in S THEN NotListed ELSE list[c]]

\* Sync: missing cards are added and extra ones removed; a card that stays
\* keeps the message it has.
Synced(list, e) ==
  [c \in Cards |-> IF c \notin DOMAIN e THEN NotListed
                   ELSE IF list[c] = NotListed THEN e[c] ELSE list[c]]

\* Variant: the snapshot holds the list that changes only.
PersistGlobalOnly(w) ==
  /\ writer[w].pc = "idle"
  /\ writer' = [writer EXCEPT ![w] = [pc |-> "opening", data |->
                  [GMCList |-> gmclist', MCList |-> EmptyList]]]
  /\ past' = past \cup {Data'}
  /\ clean' = AllSaved
  /\ UNCHANGED file

\* persistAsync: called with the mutex held, it copies both lists for a new
\* goroutine.
PersistAsync(w) ==
  /\ writer[w].pc = "idle"
  /\ writer' = [writer EXCEPT ![w] = [pc |-> "opening", data |-> Data']]
  /\ past' = past \cup {Data'}
  /\ clean' = AllSaved
  /\ UNCHANGED file

AddGlobal(w, e) ==
  /\ DOMAIN e # {}
  /\ gmclist' = Added(gmclist, e)
  /\ UNCHANGED mclist
  /\ PersistAsync(w)

AddSecondary(w, e) ==
  /\ DOMAIN e # {}
  /\ mclist' = Added(mclist, e)
  /\ UNCHANGED gmclist
  /\ PersistAsync(w)

\* Nothing is saved when none of the cards was listed.
DelGlobal(w, S) ==
  /\ gmclist' = Removed(gmclist, S)
  /\ gmclist' # gmclist
  /\ UNCHANGED mclist
  /\ PersistAsync(w)

DelSecondary(w, S) ==
  /\ mclist' = Removed(mclist, S)
  /\ mclist' # mclist
  /\ UNCHANGED gmclist
  /\ PersistAsync(w)

\* Nor when no card was missing or extra.
SyncGlobal(w, e) ==
  /\ gmclist' = Synced(gmclist, e)
  /\ gmclist' # gmclist
  /\ UNCHANGED mclist
  /\ PersistAsync(w)

----------------------------------------------------------------------------
(* Saves: os.WriteFile.                                                     *)

Finish(w) == writer' = [writer EXCEPT ![w] = IdleWriter]
Longest(m, n) == IF m > n THEN m ELSE n

\* Variant: the file is not truncated.
OpenKeepsText(w) ==
  /\ writer[w].pc = "opening"
  /\ writer' = [writer EXCEPT ![w].pc = "writing"]
  /\ UNCHANGED <<listVars, file, past, clean>>

\* The file is created or truncated ...
Open(w) ==
  /\ writer[w].pc = "opening"
  /\ writer' = [writer EXCEPT ![w].pc = "writing"]
  /\ file' = NoBytes
  /\ UNCHANGED <<listVars, past, clean>>

\* ... and the text written over its start: what another goroutine has written
\* since the truncation shows behind it, if that is longer.
Write(w) ==
  /\ writer[w].pc = "writing"
  /\ file' = [data |-> writer[w].data,
              size |-> Longest(file.size, Size[writer[w].data])]
  /\ Finish(w)
  /\ UNCHANGED <<listVars, past, clean>>

\* Either may fail, which is only printed.  A failed write may leave n bytes.
SaveFails(w) ==
  /\ writer[w].pc # "idle"
  /\ \/ UNCHANGED file
     \/ /\ writer[w].pc = "writing"
        /\ \E n \in 1 .. (Size[writer[w].data] - 1) :
             file' = [data |-> Junk, size |-> Longest(file.size, n)]
  /\ Finish(w)
  /\ clean' = FALSE
  /\ UNCHANGED <<listVars, past>>

----------------------------------------------------------------------------
(* Stop and start.                                                          *)

\* What is in the file: a text with anything behind it does not parse.
Parses == file.data # Junk /\ file.size = Size[file.data]

\* Load: both lists of a text that parses; otherwise the lists stay empty, and
\* a warning is printed.
Loaded == IF Parses THEN file.data ELSE Nothing

\* Variant: the maps of a text that does not parse, which are nil, are taken over.
RestartWithNil(readable) ==
  /\ gmclist' = IF readable /\ Parses THEN file.data.GMCList ELSE Junk
  /\ mclist' = IF readable /\ Parses THEN file.data.MCList ELSE Junk
  /\ writer' = [w \in Writers |-> IdleWriter]
  /\ clean' = readable
  /\ UNCHANGED <<file, past>>

\* The daemon stops at any moment, saves under way are lost, and it starts
\* again; reading the file may fail.
Restart(readable) ==
  /\ LET data == IF readable THEN Loaded ELSE Nothing IN
       /\ gmclist' = data.GMCList
       /\ mclist' = data.MCList
  /\ writer' = [w \in Writers |-> IdleWriter]
  /\ clean' = readable
  /\ UNCHANGED <<file, past>>

----------------------------------------------------------------------------
ChangeLists(w) ==
  \/ \E e \in Entries : AddGlobal(w, e) \/ AddSecondary(w, e) \/ SyncGlobal(w, e)
  \/ \E S \in SUBSET Cards : DelGlobal(w, S) \/ DelSecondary(w, S)

Save(w) == Open(w) \/ Write(w) \/ SaveFails(w)

Next ==
  \/ \E w \in Writers : ChangeLists(w) \/ Save(w)
  \/ \E readable \in BOOLEAN : Restart(readable)

Spec == Init /\ [][Next]_vars

----------------------------------------------------------------------------
(* Properties.                                                              *)

\* However saves overlap, overtake each other, fail or are cut off, the daemon
\* starts with both lists as they were at one moment, or with empty ones:
\* never with the global list of one moment and the secondary of another.
Store == INSTANCE SnapshotStore WITH current <- Data
RestartsFromPast == Store!Spec

\* A change made while no save was under way is durable once it is saved: the
\* file then holds both lists as they are in memory, also after a longer text.
LastChangeIsSaved == clean /\ AllSaved => Loaded = Data
=============================================================================
