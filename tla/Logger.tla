------------------------------- MODULE Logger -------------------------------
(***************************************************************************)
(* The daemon's log: internal/logging/logger.go.  Every line goes to a     *)
(* file, which is renamed and begun anew when it is full, and to a ring    *)
(* of recent entries for the web interface.                                *)
(*                                                                         *)
(* A line is written under the logger's mutex, so one at a time; the       *)
(* process may die between any two calls of the file system, and renaming  *)
(* and opening may fail.  Every write is followed by Sync, so what is      *)
(* written survives.  The screen log, the same code for a second file,     *)
(* is left out: config.LogFileScreen is never set.                         *)
(*                                                                         *)
(* Time is in seconds, the resolution of the name of a rotated file.       *)
(***************************************************************************)
EXTENDS Naturals, Sequences, FiniteSets, SequencesExt

CONSTANTS
  Configs,     \* values of config.LogRotation*: [enabled, size, files, days]
  BufferSize,  \* entries in the ring, 1000 in the code
  Kinds,       \* lines that may be logged: [level, size], size in bytes
  Day,         \* seconds in a day
  MaxNow, MaxLines  \* bounds

ASSUME NumbersArePositive ==
  /\ BufferSize \in Nat \ {0} /\ Day \in Nat \ {0}
  /\ MaxNow \in Nat \ {0} /\ MaxLines \in Nat
ASSUME ConfigsAreRecords ==
  Configs \subseteq [enabled : BOOLEAN, size : Nat, files : Nat, days : Nat]
ASSUME KindsAreRecords == Kinds \subseteq [level : STRING, size : Nat \ {0}]

VARIABLES
  now,
  limits,      \* the configuration, read at the start
  file,        \* the file of config.LogFile
  rotated,     \* second -> the file rotated under that name
  handle,      \* Logger.logFile: "none", "open", or "closed" but not nil
  size,        \* Logger.logFileSize
  lastCheck,   \* Logger.lastRotationCheck
  ring, pos,   \* Logger.logBuffer, the number of a line or 0, and bufferPos
  pc,          \* where log() or the process stands
  log,         \* history: every line logged, and whether it reached the file
  first,       \* history: the number of the first line since the start
  clobbered,   \* history: a rotated file was renamed over another
  cleaned,     \* history: cleanupOldLogs has removed a file
  undercounted \* history: the file was not renamed, and size was still reset

disk == <<file, rotated>>
memory == <<handle, size, lastCheck, ring, pos>>
history == <<log, first, clobbered, cleaned, undercounted>>
vars == <<now, limits, disk, memory, pc, history>>

Lines == 1 .. MaxLines
Levels == {kind.level : kind \in Kinds}
Slots == 0 .. BufferSize - 1
NoFile == [lines |-> <<>>, bytes |-> 0, mtime |-> 0]
Exists(f) == f.mtime > 0

TypeOK ==
  LET Files == [lines : Seq(Lines), bytes : Nat, mtime : 0 .. MaxNow] IN
  /\ now \in 1 .. MaxNow
  /\ limits \in Configs
  /\ file \in Files
  /\ rotated \in [1 .. MaxNow -> Files]
  /\ handle \in {"none", "open", "closed"}
  /\ size \in Nat
  /\ lastCheck \in 0 .. MaxNow
  /\ ring \in [Slots -> 0 .. MaxLines] /\ pos \in Slots
  /\ pc \in {"down", "idle", "rename", "open", "clean", "write"}
  /\ log \in Seq([kind : Kinds, written : BOOLEAN])
  /\ Len(log) <= MaxLines /\ first \in 1 .. MaxLines + 1
  /\ clobbered \in BOOLEAN /\ cleaned \in BOOLEAN /\ undercounted \in BOOLEAN

Init ==
  /\ now = 1
  /\ limits \in Configs
  /\ file = NoFile
  /\ rotated = [t \in 1 .. MaxNow |-> NoFile]
  /\ handle = "none" /\ size = 0 /\ lastCheck = 0
  /\ ring = [i \in Slots |-> 0] /\ pos = 0
  /\ pc = "down"
  /\ log = <<>> /\ first = 1
  /\ clobbered = FALSE /\ cleaned = FALSE /\ undercounted = FALSE

-----------------------------------------------------------------------------
(* Start and stop *)

Created == IF Exists(file) THEN file ELSE [NoFile EXCEPT !.mtime = now]

\* Variant: the bytes the file has from before are not counted.
NewLoggerFromZero ==
  /\ pc = "down"
  /\ file' = Created /\ handle' = "open" /\ size' = 0
  /\ lastCheck' = now
  /\ ring' = [i \in Slots |-> 0] /\ pos' = 0
  /\ first' = Len(log) + 1
  /\ pc' = "idle"
  /\ UNCHANGED <<now, limits, rotated, log, clobbered, cleaned, undercounted>>

\* Without a file nothing is ever written or rotated.
NewLogger ==
  /\ pc = "down"
  /\ \/ file' = Created /\ handle' = "open" /\ size' = file.bytes
     \/ handle' = "none" /\ size' = 0 /\ UNCHANGED file
  /\ lastCheck' = now
  /\ ring' = [i \in Slots |-> 0] /\ pos' = 0
  /\ first' = Len(log) + 1
  /\ pc' = "idle"
  /\ UNCHANGED <<now, limits, rotated, log, clobbered, cleaned, undercounted>>

\* Close leaves the handle: lines logged afterwards are not written, but
\* counted, and a rotation opens the file again.
Close ==
  /\ pc = "idle" /\ handle = "open"
  /\ handle' = "closed"
  /\ UNCHANGED <<now, limits, disk, size, lastCheck, ring, pos, pc, history>>

Crash ==
  /\ pc # "down"
  /\ pc' = "down"
  /\ handle' = "none" /\ size' = 0 /\ lastCheck' = 0
  /\ ring' = [i \in Slots |-> 0] /\ pos' = 0
  /\ UNCHANGED <<now, limits, disk, history>>

Tick ==
  /\ now < MaxNow
  /\ now' = now + 1
  /\ UNCHANGED <<limits, disk, memory, pc, history>>

-----------------------------------------------------------------------------
(* log: one line *)

Full(bytes) == limits.size > 0 /\ size + bytes > limits.size

\* Once a day: is the file older than it may be?
DueToLook == limits.days > 0 /\ now > lastCheck + Day

Old(f) == now > f.mtime + limits.days * Day

\* shouldRotate; rotateLogFile begins with closing the file.  A closed file
\* has no modification time.
Log(kind) ==
  LET asks == handle # "none" /\ limits.enabled
      looks == asks /\ ~Full(kind.size) /\ DueToLook
      rotates == (asks /\ Full(kind.size)) \/ (looks /\ handle = "open" /\ Old(file))
  IN
  /\ pc = "idle" /\ Len(log) < MaxLines
  /\ log' = Append(log, [kind |-> kind, written |-> FALSE])
  /\ lastCheck' = IF looks THEN now ELSE lastCheck
  /\ handle' = IF rotates THEN "closed" ELSE handle
  /\ pc' = IF rotates THEN "rename" ELSE "write"
  /\ UNCHANGED <<now, limits, disk, size, ring, pos, first, clobbered, cleaned, undercounted>>

\* The name of the rotated file is the time; a file of that name is replaced.
Rename ==
  /\ pc = "rename"
  /\ \/ /\ Exists(file)
        /\ rotated' = [rotated EXCEPT ![now] = file]
        /\ file' = NoFile
        /\ clobbered' = (clobbered \/ Exists(rotated[now]))
        /\ undercounted' = FALSE
     \/ UNCHANGED <<disk, clobbered, undercounted>>
  /\ pc' = "open"
  /\ UNCHANGED <<now, limits, memory, log, first, cleaned>>

\* The size starts again from 0, also in a file that was not renamed.  A file
\* that is not opened leaves the size, so the next line tries again.
Open ==
  /\ pc = "open"
  /\ \/ /\ file' = Created /\ handle' = "open" /\ size' = 0
        /\ undercounted' = (undercounted \/ file.lines # <<>>)
     \/ UNCHANGED <<file, handle, size, undercounted>>
  /\ pc' = "clean"
  /\ UNCHANGED <<now, limits, rotated, lastCheck, ring, pos, log, first, clobbered, cleaned>>

Kept == {t \in DOMAIN rotated : Exists(rotated[t])}

\* Variant: the newest files are the ones in excess.
ExcessOfNew ==
  {t \in Kept : /\ limits.files > 0
                /\ Cardinality({u \in Kept : u <= t}) > limits.files}

\* All but the newest limits.files, by modification time, which is the order
\* of the names.
Excess ==
  {t \in Kept : /\ limits.files > 0
                /\ Cardinality({u \in Kept : u >= t}) > limits.files}

CleanupOldLogs ==
  LET gone == Excess \cup {t \in Kept : limits.days > 0 /\ Old(rotated[t])} IN
  /\ pc = "clean"
  /\ rotated' = [t \in DOMAIN rotated |-> IF t \in gone THEN NoFile ELSE rotated[t]]
  /\ cleaned' = (cleaned \/ gone # {})
  /\ pc' = "write"
  /\ UNCHANGED <<now, limits, file, memory, log, first, clobbered, undercounted>>

Appended(n) ==
  [lines |-> Append(file.lines, n), bytes |-> file.bytes + log[n].kind.size, mtime |-> now]

\* Variant: the position in the ring goes on for ever.
WriteWithoutWrap ==
  LET n == Len(log) IN
  /\ pc = "write"
  /\ file' = IF handle = "open" THEN Appended(n) ELSE file
  /\ log' = [log EXCEPT ![n].written = handle = "open"]
  /\ size' = IF handle = "none" THEN size ELSE size + log[n].kind.size
  /\ ring' = [ring EXCEPT ![pos] = n]
  /\ pos' = pos + 1
  /\ pc' = "idle"
  /\ UNCHANGED <<now, limits, rotated, handle, lastCheck, first, clobbered, cleaned, undercounted>>

\* Variant: a line that is not written is not remembered either.
WriteFileFirst ==
  LET n == Len(log) IN
  /\ pc = "write"
  /\ file' = IF handle = "open" THEN Appended(n) ELSE file
  /\ log' = [log EXCEPT ![n].written = handle = "open"]
  /\ size' = IF handle = "none" THEN size ELSE size + log[n].kind.size
  /\ ring' = IF handle = "open" THEN [ring EXCEPT ![pos] = n] ELSE ring
  /\ pos' = IF handle = "open" THEN (pos + 1) % BufferSize ELSE pos
  /\ pc' = "idle"
  /\ UNCHANGED <<now, limits, rotated, handle, lastCheck, first, clobbered, cleaned, undercounted>>

\* The write, whose error nobody sees, and addToBuffer.
Write ==
  LET n == Len(log) IN
  /\ pc = "write"
  /\ file' = IF handle = "open" THEN Appended(n) ELSE file
  /\ log' = [log EXCEPT ![n].written = handle = "open"]
  /\ size' = IF handle = "none" THEN size ELSE size + log[n].kind.size
  /\ ring' = [ring EXCEPT ![pos] = n]
  /\ pos' = (pos + 1) % BufferSize
  /\ pc' = "idle"
  /\ UNCHANGED <<now, limits, rotated, handle, lastCheck, first, clobbered, cleaned, undercounted>>

\* The entries of a level, or of all (""), among the first i slots from the
\* position on, where the oldest is.
Collected(level) ==
  LET upTo[i \in 0 .. BufferSize] ==
        IF i = 0 THEN <<>>
        ELSE LET n == ring[(pos + i - 1) % BufferSize]
             IN IF n > 0 /\ level \in {"", log[n].kind.level} THEN Append(upTo[i - 1], n)
                ELSE upTo[i - 1]
  IN upTo

\* GetRecentLogs: newest first, and no more than limit.
GetRecentLogs(level, limit) ==
  LET most == IF limit = 0 \/ limit > BufferSize THEN BufferSize ELSE limit
      entries == Reverse(Collected(level)[BufferSize])
  IN IF Len(entries) > most THEN SubSeq(entries, 1, most) ELSE entries

-----------------------------------------------------------------------------
Next ==
  \/ NewLogger
  \/ Close
  \/ Crash
  \/ Tick
  \/ \E kind \in Kinds : Log(kind)
  \/ Rename
  \/ Open
  \/ CleanupOldLogs
  \/ Write

Spec == Init /\ [][Next]_vars

-----------------------------------------------------------------------------
(* Properties *)

\* The files from the oldest to the current one, and what is in them.
Pieces == 1 .. MaxNow + 1
LinesOf(t) == IF t <= MaxNow THEN rotated[t].lines ELSE file.lines
OnDisk == UNION {ToSet(LinesOf(t)) : t \in Pieces}
Written == {n \in DOMAIN log : log[n].written}

\* The lines stand in the files, and the files in the order of their names, as
\* they were logged, and none stands twice.
InOrder ==
  \A u \in Pieces : \A j \in DOMAIN LinesOf(u) :
    \A t \in 1 .. u : \A i \in DOMAIN LinesOf(t) :
      t < u \/ i < j => LinesOf(t)[i] < LinesOf(u)[j]

\* What is on disk is the latest that was written.
LatestOf(there, all) == there \subseteq all /\ \A m \in there, n \in all \ there : n < m

\* The files hold the latest lines that were written, in order and without a
\* gap, through failing renames and opens, crashes in the middle of a rotation
\* and restarts, and all of them if no limit has removed a file; except when
\* two rotations fell into one second (rotateLogFile, cleanupOldLogs).
LinesSurvive ==
  ~clobbered => InOrder /\ LatestOf(OnDisk, Written) /\ (cleaned \/ OnDisk = Written)

\* A file has more than LogRotationMaxSize bytes only when it has a single
\* line, or a rename has failed; restarts keep counting (log, NewLogger).
SizeIsBounded ==
  LET bounded == limits.enabled /\ limits.size > 0
      fits(f) == f.bytes <= limits.size \/ Len(f.lines) = 1
  IN bounded /\ ~undercounted => fits(file)

\* What the web interface shows are the latest entries of the level among the
\* last BufferSize since the start, newest first and none twice, and all of them
\* unless the limit is reached, however often the ring has gone round
\* (addToBuffer, GetRecentLogs).
RecentLogsAreLatest ==
  LET last == IF pc \in {"rename", "open", "clean", "write"} THEN Len(log) - 1 ELSE Len(log)
      from == IF last >= first + BufferSize THEN last - BufferSize + 1 ELSE first
  IN pc # "down" =>
       \A level \in Levels \cup {""}, limit \in 0 .. BufferSize :
         LET of == {n \in from .. last : level \in {"", log[n].kind.level}}
             shown == GetRecentLogs(level, limit)
             most == IF limit = 0 THEN BufferSize ELSE limit
         IN /\ \A i, j \in DOMAIN shown : i < j => shown[i] > shown[j]
            /\ LatestOf(ToSet(shown), of)
            /\ Len(shown) <= most /\ (Len(shown) < most => ToSet(shown) = of)
=============================================================================
