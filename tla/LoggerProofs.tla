---------------------------- MODULE LoggerProofs ----------------------------
(* Machine-checked proofs about the log files, for any limits, any lines and *)
(* any size of the ring.                                                     *)
EXTENDS Logger, SequenceTheorems, FiniteSetTheorems, WellFoundedInduction, TLAPS

USE NumbersArePositive

FileRecords == [lines : Seq(Lines), bytes : Nat, mtime : 0 .. MaxNow]
Busy == {"rename", "open", "clean", "write"}

\* The line being logged is the last and has not reached the file.
LastIsPending == pc \in Busy => Len(log) > 0 /\ ~log[Len(log)].written

\* A file that does not exist has nothing in it.
AbsentIsEmpty ==
  /\ ~Exists(file) => file = NoFile
  /\ \A t \in 1 .. MaxNow : ~Exists(rotated[t]) => rotated[t] = NoFile

\* Nothing on disk is from the future, and the files are in the order of their
\* modification as in that of their names.
FilesInTime ==
  /\ file.mtime <= now
  /\ \A t \in Kept :
       /\ t <= now /\ rotated[t].mtime <= now
       /\ Exists(file) => rotated[t].mtime <= file.mtime
       /\ \A u \in Kept : u <= t => rotated[u].mtime <= rotated[t].mtime

\* The logger counts no less than the file has, and asked before it writes.
NoneUncounted ==
  /\ file.lines = <<>> => file.bytes = 0
  /\ handle # "none" /\ ~undercounted => size >= file.bytes
  /\ /\ pc \in {"clean", "write"} /\ handle = "open" /\ ~undercounted
     /\ limits.enabled /\ limits.size > 0
     => file.lines = <<>> \/ size + log[Len(log)].kind.size <= limits.size
  /\ pc \in {"rename", "open"} => handle = "closed"

IInv ==
  /\ TypeOK /\ LastIsPending /\ AbsentIsEmpty /\ FilesInTime /\ NoneUncounted
  /\ SizeIsBounded /\ LinesSurvive

----------------------------------------------------------------------------
(* Types.                                                                   *)

\* A position in the ring is followed by a position in the ring (addToBuffer).
LEMMA NextSlot ==
  ASSUME NEW p \in Slots
  PROVE  (p + 1) % BufferSize \in Slots
BY DEF Slots

\* A file just made, or one that was there, is a file with a time.
LEMMA CreatedIsFile ==
  ASSUME TypeOK
  PROVE  /\ Created \in FileRecords /\ NoFile \in FileRecords
         /\ Created.mtime > 0
         /\ Created.lines = IF Exists(file) THEN file.lines ELSE <<>>
         /\ Created.bytes = IF Exists(file) THEN file.bytes ELSE 0
         /\ Created.mtime = IF Exists(file) THEN file.mtime ELSE now
<1>1. file \in FileRecords /\ now \in 1 .. MaxNow
  BY DEF TypeOK, FileRecords
<1>2. <<>> \in Seq(Lines)
  BY EmptySeq
<1>3. NoFile \in FileRecords
  BY <1>2 DEF NoFile, FileRecords
<1>4. CASE Exists(file)
  BY <1>1, <1>3, <1>4 DEF Created, FileRecords, Exists
<1>5. CASE ~Exists(file)
  <2>1. Created = [lines |-> <<>>, bytes |-> 0, mtime |-> now]
    BY <1>5 DEF Created, NoFile
  <2> QED
    BY <1>1, <1>2, <1>3, <1>5, <2>1 DEF FileRecords
<1> QED
  BY <1>4, <1>5

\* The line being logged has a number and a size.
LEMMA PendingLine ==
  ASSUME TypeOK, LastIsPending, pc \in Busy
  PROVE  /\ Len(log) \in 1 .. Len(log) /\ Len(log) \in Lines /\ Len(log) \in DOMAIN log
         /\ log[Len(log)] \in [kind : Kinds, written : BOOLEAN]
         /\ log[Len(log)].kind.size \in Nat \ {0}
         /\ ~log[Len(log)].written
<1>1. log \in Seq([kind : Kinds, written : BOOLEAN]) /\ Len(log) <= MaxLines
  BY DEF TypeOK
<1>2. Len(log) \in 1 .. Len(log) /\ Len(log) \in Lines /\ DOMAIN log = 1 .. Len(log)
  BY <1>1, LenProperties DEF LastIsPending, Lines
<1>3. log[Len(log)] \in [kind : Kinds, written : BOOLEAN]
  BY <1>1, <1>2, ElementOfSeq
<1> QED
  BY <1>2, <1>3, KindsAreRecords DEF LastIsPending

\* A line in a file has a number, and the file its bytes.
LEMMA AppendedIsFile ==
  ASSUME TypeOK, LastIsPending, pc \in Busy
  PROVE  /\ Appended(Len(log)) \in FileRecords
         /\ Appended(Len(log)).lines = Append(file.lines, Len(log))
         /\ Appended(Len(log)).bytes = file.bytes + log[Len(log)].kind.size
         /\ Appended(Len(log)).mtime = now
<1>1. file.lines \in Seq(Lines) /\ file.bytes \in Nat /\ now \in 0 .. MaxNow
  BY DEF TypeOK, FileRecords
<1>2. Append(file.lines, Len(log)) \in Seq(Lines)
  BY <1>1, PendingLine, AppendProperties
<1>3. file.bytes + log[Len(log)].kind.size \in Nat
  BY <1>1, PendingLine
<1> QED
  BY <1>1, <1>2, <1>3 DEF Appended, FileRecords

\* The program starts well typed.
LEMMA InitTyped == Init => TypeOK /\ LastIsPending
<1> SUFFICES ASSUME Init PROVE TypeOK /\ LastIsPending
  OBVIOUS
<1>1. NoFile \in FileRecords
  BY EmptySeq DEF NoFile, FileRecords
<1>2. log \in Seq([kind : Kinds, written : BOOLEAN]) /\ Len(log) = 0
  BY EmptySeq DEF Init
<1>3. /\ now \in 1 .. MaxNow /\ limits \in Configs /\ file \in FileRecords
      /\ rotated \in [1 .. MaxNow -> FileRecords]
      /\ handle \in {"none", "open", "closed"} /\ size \in Nat /\ lastCheck \in 0 .. MaxNow
  BY <1>1 DEF Init
<1>4. ring \in [Slots -> 0 .. MaxLines] /\ pos \in Slots /\ first \in 1 .. MaxLines + 1
  BY DEF Init, Slots
<1>5. clobbered \in BOOLEAN /\ cleaned \in BOOLEAN /\ undercounted \in BOOLEAN
  BY DEF Init
<1>6. pc = "down"
  BY DEF Init
<1> QED
  BY <1>2, <1>3, <1>4, <1>5, <1>6 DEF TypeOK, FileRecords, LastIsPending, Busy

\* Every step keeps the types and leaves one line pending at most.
LEMMA StepTyped ==
  ASSUME TypeOK, LastIsPending, [Next]_vars
  PROVE  TypeOK' /\ LastIsPending'
<1> USE DEF disk, memory, history
<1>0. /\ now \in 1 .. MaxNow /\ limits \in Configs /\ file \in FileRecords
      /\ rotated \in [1 .. MaxNow -> FileRecords]
      /\ handle \in {"none", "open", "closed"} /\ size \in Nat /\ lastCheck \in 0 .. MaxNow
      /\ ring \in [Slots -> 0 .. MaxLines] /\ pos \in Slots
      /\ pc \in {"down", "idle", "rename", "open", "clean", "write"}
      /\ log \in Seq([kind : Kinds, written : BOOLEAN]) /\ Len(log) <= MaxLines
      /\ first \in 1 .. MaxLines + 1
      /\ clobbered \in BOOLEAN /\ cleaned \in BOOLEAN /\ undercounted \in BOOLEAN
      /\ Len(log) \in Nat
  BY LenProperties DEF TypeOK, FileRecords
<1>1. ASSUME /\ now' \in 1 .. MaxNow /\ limits' \in Configs /\ file' \in FileRecords
             /\ rotated' \in [1 .. MaxNow -> FileRecords]
             /\ handle' \in {"none", "open", "closed"} /\ size' \in Nat /\ lastCheck' \in 0 .. MaxNow
             /\ ring' \in [Slots -> 0 .. MaxLines] /\ pos' \in Slots
             /\ pc' \in {"down", "idle", "rename", "open", "clean", "write"}
             /\ log' \in Seq([kind : Kinds, written : BOOLEAN]) /\ Len(log') <= MaxLines
             /\ first' \in 1 .. MaxLines + 1,
             clobbered' \in BOOLEAN, cleaned' \in BOOLEAN, undercounted' \in BOOLEAN
      PROVE  TypeOK'
  BY <1>1 DEF TypeOK, FileRecords
<1>2. [i \in Slots |-> 0] \in [Slots -> 0 .. MaxLines] /\ 0 \in Slots
  BY DEF Slots
<1>3. CASE NewLogger
  <2>0. file.bytes \in Nat
    BY <1>0 DEF FileRecords
  <2>1. file' \in FileRecords /\ handle' \in {"none", "open", "closed"} /\ size' \in Nat
    BY <1>0, <1>3, <2>0, CreatedIsFile DEF NewLogger
  <2>2. lastCheck' \in 0 .. MaxNow /\ first' \in 1 .. MaxLines + 1 /\ pc' = "idle"
    BY <1>0, <1>3 DEF NewLogger
  <2>3. ring' \in [Slots -> 0 .. MaxLines] /\ pos' \in Slots
    BY <1>2, <1>3 DEF NewLogger
  <2>4. UNCHANGED <<now, limits, rotated, log, clobbered, cleaned, undercounted>>
    BY <1>3 DEF NewLogger
  <2> QED
    BY <1>0, <1>1, <2>1, <2>2, <2>3, <2>4 DEF LastIsPending, Busy
<1>4. CASE Close
  BY <1>0, <1>1, <1>4 DEF Close, LastIsPending, Busy
<1>5. CASE Crash
  BY <1>0, <1>1, <1>2, <1>5 DEF Crash, LastIsPending, Busy
<1>6. CASE Tick
  BY <1>0, <1>1, <1>6 DEF Tick, LastIsPending
<1>7. ASSUME NEW kind \in Kinds, Log(kind)
      PROVE  TypeOK' /\ LastIsPending'
  <2> DEFINE line == [kind |-> kind, written |-> FALSE]
  <2>1. line \in [kind : Kinds, written : BOOLEAN]
    OBVIOUS
  <2>2. log' = Append(log, line) /\ Len(log) < MaxLines
    BY <1>7 DEF Log
  <2> HIDE DEF line
  <2>3. /\ log' \in Seq([kind : Kinds, written : BOOLEAN]) /\ Len(log') = Len(log) + 1
        /\ log'[Len(log')] = line
    BY <1>0, <2>1, <2>2, AppendProperties
  <2>4. /\ lastCheck' \in 0 .. MaxNow /\ handle' \in {"none", "open", "closed"}
        /\ pc' \in {"rename", "write"}
        /\ UNCHANGED <<now, limits, file, rotated, size, ring, pos, first, clobbered, cleaned,
                       undercounted>>
    BY <1>0, <1>7 DEF Log
  <2>5. ~line.written /\ Len(log') > 0
    BY <1>0, <2>3 DEF line
  <2> QED
    BY <1>0, <1>1, <2>2, <2>3, <2>4, <2>5 DEF LastIsPending
<1>8. CASE Rename
  <2>1. file' \in FileRecords /\ rotated' \in [1 .. MaxNow -> FileRecords]
    BY <1>0, <1>8, CreatedIsFile DEF Rename
  <2>2. clobbered' \in BOOLEAN /\ undercounted' \in BOOLEAN
    BY <1>0, <1>8 DEF Rename
  <2>3. /\ pc = "rename" /\ pc' = "open"
        /\ UNCHANGED <<now, limits, handle, size, lastCheck, ring, pos, log, first, cleaned>>
    BY <1>8 DEF Rename
  <2> QED
    BY <1>0, <1>1, <2>1, <2>2, <2>3 DEF LastIsPending, Busy
<1>9. CASE Open
  <2>1. file' \in FileRecords /\ handle' \in {"none", "open", "closed"} /\ size' \in Nat
    BY <1>0, <1>9, CreatedIsFile DEF Open
  <2>2. undercounted' \in BOOLEAN
    BY <1>0, <1>9 DEF Open
  <2>3. /\ pc = "open" /\ pc' = "clean"
        /\ UNCHANGED <<now, limits, rotated, lastCheck, ring, pos, log, first, clobbered, cleaned>>
    BY <1>9 DEF Open
  <2> QED
    BY <1>0, <1>1, <2>1, <2>2, <2>3 DEF LastIsPending, Busy
<1>10. CASE CleanupOldLogs
  <2>1. rotated' \in [1 .. MaxNow -> FileRecords]
    BY <1>0, <1>10, CreatedIsFile DEF CleanupOldLogs
  <2>2. cleaned' \in BOOLEAN
    BY <1>0, <1>10 DEF CleanupOldLogs
  <2>3. /\ pc = "clean" /\ pc' = "write"
        /\ UNCHANGED <<now, limits, file, handle, size, lastCheck, ring, pos, log, first, clobbered,
                       undercounted>>
    BY <1>10 DEF CleanupOldLogs
  <2> QED
    BY <1>0, <1>1, <2>1, <2>2, <2>3 DEF LastIsPending, Busy
<1>11. CASE Write
  <2> DEFINE n == Len(log)
  <2>0. pc \in Busy
    BY <1>11 DEF Write, Busy
  <2>1. file' \in FileRecords
    BY <1>0, <1>11, <2>0, AppendedIsFile DEF Write
  <2>2. log' \in Seq([kind : Kinds, written : BOOLEAN]) /\ Len(log') = Len(log)
    <3> DEFINE line == [log[n] EXCEPT !.written = (handle = "open")]
    <3>1. line \in [kind : Kinds, written : BOOLEAN]
      BY <2>0, PendingLine
    <3>2. log' = [log EXCEPT ![n] = line]
      BY <1>11 DEF Write
    <3> HIDE DEF line
    <3> QED
      BY <1>0, <2>0, <3>1, <3>2, PendingLine, ExceptSeq
  <2>3. size' \in Nat
    BY <1>0, <1>11, <2>0, PendingLine DEF Write
  <2>4. ring' \in [Slots -> 0 .. MaxLines] /\ pos' \in Slots
    <3>1. n \in 0 .. MaxLines
      BY <2>0, PendingLine DEF Lines
    <3> QED
      BY <1>0, <1>11, <3>1, NextSlot DEF Write
  <2>5. /\ pc' = "idle"
        /\ UNCHANGED <<now, limits, rotated, handle, lastCheck, first, clobbered, cleaned,
                       undercounted>>
    BY <1>11 DEF Write
  <2> QED
    BY <1>0, <1>1, <2>1, <2>2, <2>3, <2>4, <2>5 DEF LastIsPending, Busy
<1>12. CASE UNCHANGED vars
  BY <1>0, <1>1, <1>12 DEF vars, LastIsPending
<1> QED
  BY <1>3, <1>4, <1>5, <1>6, <1>7, <1>8, <1>9, <1>10, <1>11, <1>12 DEF Next

----------------------------------------------------------------------------
(* Sizes.                                                                   *)

\* What is counted is not less than what is in the file, through failing
\* renames and opens, lines logged after Close, crashes and restarts.
LEMMA StepSizes ==
  ASSUME TypeOK, LastIsPending, AbsentIsEmpty, NoneUncounted, SizeIsBounded, [Next]_vars
  PROVE  NoneUncounted' /\ SizeIsBounded'
<1> USE DEF disk, memory, history
<1>0. /\ file \in FileRecords /\ file.bytes \in Nat /\ file.lines \in Seq(Lines) /\ Len(file.lines) \in Nat
      /\ size \in Nat /\ limits \in Configs
      /\ limits.size \in Nat
      /\ pc \in {"down", "idle", "rename", "open", "clean", "write"}
  BY ConfigsAreRecords, LenProperties DEF TypeOK, FileRecords
<1>1. /\ NoFile.lines = <<>> /\ NoFile.bytes = 0
      /\ ~Exists(file) => file.lines = <<>> /\ file.bytes = 0
      /\ Created.lines = file.lines /\ Created.bytes = file.bytes
  BY CreatedIsFile DEF NoFile, AbsentIsEmpty
<1>2. limits' = limits
  BY DEF Next, NewLogger, Close, Crash, Tick, Log, Rename, Open, CleanupOldLogs, Write, vars
<1>3. ASSUME file'.lines = file.lines, file'.bytes = file.bytes, undercounted' = undercounted
      PROVE  SizeIsBounded'
  BY <1>2, <1>3 DEF SizeIsBounded
<1>4. CASE NewLogger
  <2>1. /\ file'.lines = file.lines /\ file'.bytes = file.bytes /\ undercounted' = undercounted
        /\ pc' = "idle" /\ (handle' # "none" => size' = file.bytes)
    BY <1>1, <1>4 DEF NewLogger
  <2> QED
    BY <1>0, <1>3, <2>1 DEF NoneUncounted
<1>5. CASE Close
  BY <1>0, <1>2, <1>3, <1>5 DEF Close, NoneUncounted
<1>6. CASE Crash
  BY <1>0, <1>2, <1>3, <1>6 DEF Crash, NoneUncounted
<1>7. CASE Tick
  BY <1>0, <1>2, <1>3, <1>7 DEF Tick, NoneUncounted
<1>8. ASSUME NEW kind \in Kinds, Log(kind)
      PROVE  NoneUncounted' /\ SizeIsBounded'
  <2>1. log'[Len(log')] = [kind |-> kind, written |-> FALSE]
    <3>1. log \in Seq([kind : Kinds, written : BOOLEAN])
          /\ [kind |-> kind, written |-> FALSE] \in [kind : Kinds, written : BOOLEAN]
      BY DEF TypeOK
    <3>2. log' = Append(log, [kind |-> kind, written |-> FALSE])
      BY <1>8 DEF Log
    <3> QED
      BY <3>1, <3>2, AppendProperties, LenProperties
  <2>2. /\ UNCHANGED <<file, size, undercounted>>
        /\ handle' # "none" => handle # "none"
        /\ handle' = "open" => handle = "open"
        /\ pc' = "write" /\ handle' = "open" /\ limits.enabled => ~Full(kind.size)
        /\ pc' # "clean"
    BY <1>8 DEF Log
  <2>3. log'[Len(log')].kind = kind /\ kind.size \in Nat
    BY <2>1, KindsAreRecords
  <2>4. /\ pc' \in {"clean", "write"} /\ handle' = "open" /\ limits.enabled /\ limits.size > 0
        => size + kind.size <= limits.size
    BY <1>0, <2>2, <2>3 DEF Full
  <2>5. pc' # "open" /\ (pc' = "rename" => handle' = "closed")
    BY <1>8 DEF Log
  <2>6. SizeIsBounded'
    BY <1>3, <2>2
  <2>7. size' = size /\ file' = file /\ limits' = limits /\ (undercounted' <=> undercounted)
    BY <1>2, <2>2
  <2>8. NoneUncounted'
    BY <2>2, <2>3, <2>4, <2>5, <2>7 DEF NoneUncounted
  <2> QED
    BY <2>6, <2>8
<1>9. CASE Rename
  <2>1. CASE UNCHANGED <<disk, clobbered, undercounted>>
    BY <1>0, <1>2, <1>3, <1>9, <2>1 DEF Rename, NoneUncounted
  <2>2. CASE file' = NoFile
    BY <1>0, <1>1, <1>2, <1>9, <2>2 DEF Rename, NoneUncounted, SizeIsBounded
  <2> QED
    BY <1>9, <2>1, <2>2 DEF Rename
<1>10. CASE Open
  <2>1. CASE UNCHANGED <<file, handle, size, undercounted>>
    <3>1. handle' = "closed" /\ pc' = "clean"
      BY <1>10, <2>1 DEF Open, NoneUncounted
    <3> QED
      BY <1>2, <1>3, <2>1, <3>1 DEF NoneUncounted
  <2>2. CASE /\ file' = Created /\ handle' = "open" /\ size' = 0
             /\ undercounted' = (undercounted \/ file.lines # <<>>)
    <3>1. ~undercounted' => ~undercounted /\ file.lines = <<>>
      BY <2>2
    <3>2. file'.lines = file.lines /\ file'.bytes = file.bytes /\ handle' = "open" /\ size' = 0
      BY <1>1, <2>2
    <3>3. SizeIsBounded'
      BY <1>2, <3>1, <3>2 DEF SizeIsBounded
    <3>4. pc' = "clean"
      BY <1>10 DEF Open
    <3>5. NoneUncounted'
      BY <1>0, <3>1, <3>2, <3>4 DEF NoneUncounted
    <3> QED
      BY <3>3, <3>5
  <2> QED
    BY <1>10, <2>1, <2>2 DEF Open
<1>11. CASE CleanupOldLogs
  BY <1>0, <1>2, <1>3, <1>11 DEF CleanupOldLogs, NoneUncounted
<1>12. CASE Write
  <2> DEFINE n == Len(log)
             k == log[n].kind.size
  <2>0. pc \in Busy /\ pc = "write" /\ pc' = "idle" /\ UNCHANGED <<handle, undercounted>>
    BY <1>12 DEF Write, Busy
  <2>1. k \in Nat \ {0}
    BY <2>0, PendingLine
  <2>2. size' = IF handle = "none" THEN size ELSE size + k
    BY <1>12 DEF Write
  <2>3. CASE handle = "open"
    <3>1. file' = Appended(n)
      BY <1>12, <2>3 DEF Write
    <3>2. file'.bytes = file.bytes + k /\ file'.lines = Append(file.lines, n) /\ n \in Lines
      BY <2>0, <3>1, AppendedIsFile, PendingLine
    <3>3. Len(file'.lines) = Len(file.lines) + 1 /\ file'.lines # <<>>
      BY <1>0, <3>2, AppendProperties, EmptySeq
    <3> HIDE DEF k
    <3>4. NoneUncounted'
      BY <1>0, <2>0, <2>1, <2>2, <2>3, <3>2, <3>3 DEF NoneUncounted
    <3>5. ASSUME limits.enabled, limits.size > 0, ~undercounted
          PROVE  file'.bytes <= limits.size \/ Len(file'.lines) = 1
      <4>1. size >= file.bytes /\ (file.lines = <<>> \/ size + k <= limits.size)
        BY <2>0, <2>3, <3>5 DEF NoneUncounted, k
      <4>2. file.lines = <<>> => Len(file.lines) = 0
        BY EmptySeq
      <4> QED
        BY <1>0, <2>1, <3>2, <3>3, <4>1, <4>2
    <3> QED
      BY <1>2, <2>0, <3>4, <3>5 DEF SizeIsBounded
  <2>4. CASE handle # "open"
    <3>1. file' = file
      BY <1>12, <2>4 DEF Write
    <3> HIDE DEF k
    <3> QED
      BY <1>0, <1>2, <1>3, <2>0, <2>1, <2>2, <2>4, <3>1 DEF NoneUncounted
  <2> QED
    BY <2>3, <2>4
<1>13. CASE UNCHANGED vars
  BY <1>0, <1>2, <1>3, <1>13 DEF vars, NoneUncounted
<1> QED
  BY <1>4, <1>5, <1>6, <1>7, <1>8, <1>9, <1>10, <1>11, <1>12, <1>13 DEF Next

----------------------------------------------------------------------------
(* Times.                                                                   *)

\* Times of files go on with their names.
LEMMA StepTimes ==
  ASSUME TypeOK, LastIsPending, AbsentIsEmpty, FilesInTime, [Next]_vars
  PROVE  AbsentIsEmpty' /\ FilesInTime'
<1> USE DEF disk, memory, history
<1>0. /\ now \in 1 .. MaxNow /\ file \in FileRecords /\ file.mtime \in Nat
      /\ rotated \in [1 .. MaxNow -> FileRecords]
      /\ \A t \in 1 .. MaxNow : rotated[t] \in FileRecords /\ rotated[t].mtime \in Nat
      /\ DOMAIN rotated = 1 .. MaxNow
  BY DEF TypeOK, FileRecords
<1>1. NoFile.mtime = 0
  BY DEF NoFile
<1>2. ASSUME UNCHANGED <<now, disk>>
      PROVE  AbsentIsEmpty' /\ FilesInTime'
  BY <1>2 DEF AbsentIsEmpty, FilesInTime, Kept
\* The file has been written now, or is new.
<1>3. ASSUME UNCHANGED <<now, rotated>>, file'.mtime = now
      PROVE  AbsentIsEmpty' /\ FilesInTime'
  <2>1. Exists(file')
    BY <1>0, <1>3 DEF Exists
  <2>2. AbsentIsEmpty'
    BY <1>3, <2>1 DEF AbsentIsEmpty
  <2>3. FilesInTime'
    BY <1>0, <1>3 DEF FilesInTime, Kept
  <2> QED
    BY <2>2, <2>3
<1>4. CASE file' = Created /\ UNCHANGED <<now, rotated>>
  <2>1. CASE Exists(file)
    BY <1>2, <1>4, <2>1 DEF Created
  <2>2. CASE ~Exists(file)
    <3>1. Created.mtime = now
      BY <2>2, CreatedIsFile
    <3> QED
      BY <1>3, <1>4, <3>1
  <2> QED
    BY <2>1, <2>2
<1>5. CASE NewLogger
  <2>1. UNCHANGED <<now, rotated>> /\ file' \in {file, Created}
    BY <1>5 DEF NewLogger
  <2> QED
    BY <1>2, <1>4, <2>1
<1>6. CASE Open
  <2>1. UNCHANGED <<now, rotated>> /\ file' \in {file, Created}
    BY <1>6 DEF Open
  <2> QED
    BY <1>2, <1>4, <2>1
<1>7. CASE Tick
  <2>1. now' = now + 1 /\ UNCHANGED <<file, rotated>>
    BY <1>7 DEF Tick
  <2>2. Kept' = Kept /\ \A t \in Kept : t \in 1 .. MaxNow
    BY <1>0, <2>1 DEF Kept
  <2> QED
    BY <1>0, <2>1, <2>2 DEF AbsentIsEmpty, FilesInTime
<1>8. CASE Rename
  <2>1. CASE UNCHANGED disk
    BY <1>2, <1>8, <2>1 DEF Rename
  <2>2. CASE Exists(file) /\ rotated' = [rotated EXCEPT ![now] = file] /\ file' = NoFile
    <3>1. now' = now
      BY <1>8 DEF Rename
    <3>2. rotated'[now] = file /\ \A t \in 1 .. MaxNow \ {now} : rotated'[t] = rotated[t]
      BY <1>0, <2>2
    <3>3. ~Exists(file') /\ file'.mtime = 0
      BY <1>1, <2>2 DEF Exists
    <3>4. \A t \in Kept' : t \in 1 .. MaxNow /\ (t = now \/ t \in Kept)
      BY <1>0, <2>2, <3>2 DEF Kept
    <3>5. AbsentIsEmpty'
      BY <2>2, <3>2 DEF AbsentIsEmpty
    <3>6. \A t \in Kept' : t <= now /\ rotated'[t].mtime <= now
      BY <1>0, <3>2, <3>4 DEF FilesInTime
    <3>7. ASSUME NEW t \in Kept', NEW u \in Kept', u <= t
          PROVE  rotated'[u].mtime <= rotated'[t].mtime
      <4>1. CASE t = now
        BY <1>0, <2>2, <3>2, <3>4, <4>1 DEF FilesInTime
      <4>2. CASE t # now
        <5>1. u # now
          BY <1>0, <3>4, <3>6, <3>7, <4>2
        <5> QED
          BY <1>0, <3>2, <3>4, <3>7, <4>2, <5>1 DEF FilesInTime
      <4> QED
        BY <4>1, <4>2
    <3> QED
      BY <1>0, <3>1, <3>3, <3>5, <3>6, <3>7 DEF FilesInTime
  <2> QED
    BY <1>8, <2>1, <2>2 DEF Rename
<1>9. CASE CleanupOldLogs
  <2>1. /\ UNCHANGED <<now, file>> /\ DOMAIN rotated' = 1 .. MaxNow
        /\ \A t \in 1 .. MaxNow : rotated'[t] \in {rotated[t], NoFile}
    BY <1>0, <1>9 DEF CleanupOldLogs
  <2>2. \A t \in Kept' : t \in Kept /\ rotated'[t] = rotated[t]
    BY <1>0, <1>1, <2>1 DEF Kept, Exists
  <2>3. AbsentIsEmpty'
    BY <2>1 DEF AbsentIsEmpty
  <2>4. FilesInTime'
    BY <2>1, <2>2 DEF FilesInTime
  <2> QED
    BY <2>3, <2>4
<1>10. CASE Write
  <2>0. pc \in Busy
    BY <1>10 DEF Write, Busy
  <2>1. UNCHANGED <<now, rotated>> /\ file' \in {file, Appended(Len(log))}
    BY <1>10 DEF Write
  <2> QED
    BY <1>2, <1>3, <2>0, <2>1, AppendedIsFile
<1>11. ASSUME Close \/ Crash \/ (\E kind \in Kinds : Log(kind)) \/ UNCHANGED vars
       PROVE  UNCHANGED <<now, disk>>
  BY <1>11 DEF Close, Crash, Log, vars
<1> QED
  BY <1>2, <1>5, <1>6, <1>7, <1>8, <1>9, <1>10, <1>11 DEF Next

----------------------------------------------------------------------------
(* Lines.                                                                   *)

\* A line is on disk when it stands in one of the files.
LEMMA OnDiskIs ==
  \A n : n \in OnDisk <=> \E t \in Pieces : \E i \in DOMAIN LinesOf(t) : LinesOf(t)[i] = n
BY DEF OnDisk, ToSet

\* What is old or in excess goes with all that is older (cleanupOldLogs).
Gone == Excess \cup {t \in Kept : limits.days > 0 /\ Old(rotated[t])}

\* A file that is older than one that goes, goes too.
LEMMA OldestGo ==
  ASSUME TypeOK, FilesInTime, NEW t \in Gone, NEW u \in Kept, u <= t
  PROVE  t \in Kept /\ u \in Gone
<1>0. /\ now \in Nat /\ Kept \subseteq 1 .. MaxNow /\ t \in Kept
      /\ limits \in Configs
      /\ \A v \in 1 .. MaxNow : rotated[v].mtime \in Nat
      /\ rotated[u].mtime <= rotated[t].mtime
      /\ t \in Nat /\ u \in Nat
  <2>1. /\ now \in Nat /\ limits \in Configs /\ DOMAIN rotated = 1 .. MaxNow
        /\ \A v \in 1 .. MaxNow : rotated[v].mtime \in Nat
    BY DEF TypeOK, FileRecords
  <2>2. Kept \subseteq 1 .. MaxNow
    BY <2>1 DEF Kept
  <2>3. t \in Kept
    BY DEF Gone, Excess
  <2> QED
    BY <2>1, <2>2, <2>3 DEF FilesInTime
<1>1. CASE t \in Excess
  <2>1. IsFiniteSet(Kept)
    <3>1. IsFiniteSet(1 .. MaxNow)
      BY FS_Interval
    <3> QED
      BY <1>0, <3>1, FS_Subset
  <2>2. {v \in Kept : v >= t} \subseteq {v \in Kept : v >= u}
    <3>1. \A v \in Kept : v >= t => v >= u
      BY <1>0
    <3> QED
      BY <3>1
  <2>3. /\ IsFiniteSet({v \in Kept : v >= u}) /\ IsFiniteSet({v \in Kept : v >= t})
        /\ Cardinality({v \in Kept : v >= t}) <= Cardinality({v \in Kept : v >= u})
    BY <2>1, <2>2, FS_Subset
  <2>4. /\ Cardinality({v \in Kept : v >= t}) \in Nat /\ Cardinality({v \in Kept : v >= u}) \in Nat
        /\ limits.files \in Nat
    BY <1>0, <2>3, FS_CardinalityType, ConfigsAreRecords
  <2>5. limits.files > 0 /\ Cardinality({v \in Kept : v >= t}) > limits.files
    BY <1>1 DEF Excess
  <2>6. limits.files > 0 /\ Cardinality({v \in Kept : v >= u}) > limits.files
    BY <2>3, <2>4, <2>5
  <2> QED
    BY <1>0, <2>6 DEF Excess, Gone
<1>2. CASE limits.days > 0 /\ Old(rotated[t])
  <2> DEFINE age == limits.days * Day
  <2>1. age \in Nat
    BY <1>0, ConfigsAreRecords
  <2>2. now > rotated[t].mtime + age
    BY <1>2 DEF Old
  <2> HIDE DEF age
  <2>3. now > rotated[u].mtime + age
    BY <1>0, <2>1, <2>2
  <2> QED
    BY <1>0, <1>2, <2>3 DEF Old, Gone, age
<1> QED
  BY <1>0, <1>1, <1>2 DEF Gone

\* Files that keep their lines keep their order.
LEMMA SameLines ==
  ASSUME file'.lines = file.lines, \A t \in 1 .. MaxNow : rotated'[t].lines = rotated[t].lines
  PROVE  OnDisk' = OnDisk /\ (InOrder' <=> InOrder)
<1>1. \A t \in Pieces : LinesOf(t)' = LinesOf(t)
  BY DEF LinesOf, Pieces
<1>2. OnDisk' = OnDisk
  BY <1>1 DEF OnDisk
<1>3. \A u \in Pieces : \A t \in 1 .. u : t \in Pieces
  BY DEF Pieces
<1>4. InOrder' <=> InOrder
  BY <1>1, <1>3 DEF InOrder
<1> QED
  BY <1>2, <1>4

\* A file is renamed to a name that is free (rotateLogFile).
LEMMA RenamedLines ==
  ASSUME TypeOK, AbsentIsEmpty, FilesInTime, InOrder, ~Exists(rotated[now]),
         rotated' = [rotated EXCEPT ![now] = file], file' = NoFile
  PROVE  OnDisk' = OnDisk /\ InOrder'
<1> DEFINE last == MaxNow + 1
<1>0. /\ now \in 1 .. MaxNow /\ now \in Pieces /\ last \in Pieces
      /\ DOMAIN rotated = 1 .. MaxNow
      /\ \A t \in Pieces : t \in 1 .. MaxNow \/ t = last
      /\ \A u \in Pieces : \A t \in 1 .. u : t \in Pieces
  BY DEF TypeOK, Pieces
<1>1. /\ \A t \in Pieces : t = now => LinesOf(t)' = LinesOf(last)
      /\ LinesOf(last)' = <<>> /\ LinesOf(now) = <<>>
  BY <1>0 DEF LinesOf, NoFile, AbsentIsEmpty
<1>2. \A t \in Pieces : t # now /\ t # last => LinesOf(t)' = LinesOf(t)
  BY <1>0 DEF LinesOf
<1>3. \A t \in Pieces : t > now /\ t # last => LinesOf(t) = <<>>
  BY <1>0 DEF LinesOf, NoFile, AbsentIsEmpty, FilesInTime, Kept
<1>4. \A t \in Pieces : t <= now \/ LinesOf(t)' = <<>>
  BY <1>0, <1>1, <1>2, <1>3 DEF Pieces
<1>5. DOMAIN <<>> = {}
  OBVIOUS
<1>6. OnDisk' = OnDisk
  <2>1. ASSUME NEW n \in OnDisk
        PROVE  n \in OnDisk'
    <3>1. PICK t \in Pieces : \E i \in DOMAIN LinesOf(t) : LinesOf(t)[i] = n
      BY OnDiskIs
    <3>2. \E u \in Pieces : LinesOf(u)' = LinesOf(t)
      <4>1. CASE t = last
        BY <1>0, <1>1, <4>1
      <4>2. CASE t # last
        <5>1. t # now
          BY <1>1, <1>5, <3>1
        <5> QED
          BY <1>2, <4>2, <5>1
      <4> QED
        BY <4>1, <4>2
    <3> QED
      BY <3>1, <3>2 DEF OnDisk, ToSet
  <2>2. ASSUME NEW n \in OnDisk'
        PROVE  n \in OnDisk
    <3>1. PICK t \in Pieces : \E i \in DOMAIN LinesOf(t)' : LinesOf(t)'[i] = n
      BY <2>2 DEF OnDisk, ToSet
    <3>2. \E u \in Pieces : LinesOf(u) = LinesOf(t)'
      BY <1>0, <1>1, <1>2, <1>5, <3>1
    <3> QED
      BY <3>1, <3>2, OnDiskIs
  <2> QED
    BY <2>1, <2>2
<1>7. ASSUME NEW u \in Pieces, NEW j \in DOMAIN LinesOf(u)', NEW t \in 1 .. u,
             NEW i \in DOMAIN LinesOf(t)', t < u \/ i < j
      PROVE  LinesOf(t)'[i] < LinesOf(u)'[j]
  <2>1. u <= now /\ t \in Pieces
    BY <1>0, <1>4, <1>5, <1>7
  <2>2. CASE u = now
    <3>1. LinesOf(u)' = LinesOf(last)
      BY <1>1, <2>2
    <3>2. CASE t = u
      BY <3>1, <3>2, <1>7, <1>0 DEF InOrder, Pieces
    <3>3. CASE t # u
      <4>1. LinesOf(t)' = LinesOf(t) /\ t < last /\ t \in 1 .. last
        BY <1>0, <1>2, <2>1, <2>2, <3>3
      <4> QED
        BY <1>0, <1>7, <3>1, <4>1 DEF InOrder
    <3> QED
      BY <3>2, <3>3
  <2>3. CASE u # now
    <3>1. LinesOf(u)' = LinesOf(u) /\ LinesOf(t)' = LinesOf(t)
      BY <1>0, <1>2, <2>1, <2>3 DEF Pieces
    <3> QED
      BY <1>7, <3>1 DEF InOrder
  <2> QED
    BY <2>2, <2>3
<1> QED
  BY <1>6, <1>7 DEF InOrder

\* What is old or in excess is removed.
LEMMA CleanedLines ==
  ASSUME TypeOK, AbsentIsEmpty, FilesInTime, InOrder, LatestOf(OnDisk, Written),
         UNCHANGED <<file, log>>,
         rotated' = [t \in DOMAIN rotated |-> IF t \in Gone THEN NoFile ELSE rotated[t]]
  PROVE  /\ InOrder' /\ LatestOf(OnDisk', Written')
         /\ Gone = {} => OnDisk' = OnDisk
<1>0. /\ DOMAIN rotated = 1 .. MaxNow /\ Gone \subseteq Kept /\ Kept \subseteq 1 .. MaxNow
      /\ \A t \in Pieces : t \in 1 .. MaxNow \/ t = MaxNow + 1
      /\ \A u \in Pieces : u \in Nat /\ \A t \in 1 .. u : t \in Pieces
      /\ Written' = Written
  <2>1. DOMAIN rotated = 1 .. MaxNow
    BY DEF TypeOK
  <2>2. Gone \subseteq Kept /\ Kept \subseteq 1 .. MaxNow
    BY <2>1 DEF Gone, Excess, Kept
  <2> QED
    BY <2>1, <2>2 DEF Pieces, Written
<1>1. \A t \in Pieces : LinesOf(t)' = IF t \in Gone THEN <<>> ELSE LinesOf(t)
  BY <1>0 DEF LinesOf, NoFile, Pieces
<1>2. DOMAIN <<>> = {}
  OBVIOUS
<1>3. InOrder'
  <2>1. SUFFICES ASSUME NEW u \in Pieces, NEW j \in DOMAIN LinesOf(u)', NEW t \in 1 .. u,
                        NEW i \in DOMAIN LinesOf(t)', t < u \/ i < j
                 PROVE  LinesOf(t)'[i] < LinesOf(u)'[j]
    BY DEF InOrder
  <2>2. LinesOf(t)' = LinesOf(t) /\ LinesOf(u)' = LinesOf(u)
    BY <1>0, <1>1, <1>2
  <2> QED
    BY <2>1, <2>2 DEF InOrder
<1>4. OnDisk' \subseteq OnDisk
  BY <1>1, <1>2 DEF OnDisk, ToSet
<1>5. ASSUME NEW m \in OnDisk', NEW n \in Written' \ OnDisk'
      PROVE  n < m
  <2>1. CASE n \notin OnDisk
    BY <1>0, <1>4, <1>5, <2>1 DEF LatestOf
  <2>2. CASE n \in OnDisk
    <3>1. PICK t \in Pieces : \E i \in DOMAIN LinesOf(t) : LinesOf(t)[i] = n
      BY <2>2, OnDiskIs
    <3>2. PICK u \in Pieces : \E j \in DOMAIN LinesOf(u)' : LinesOf(u)'[j] = m
      BY <1>5 DEF OnDisk, ToSet
    <3>3. t \in Gone /\ t \in Kept
      <4>1. t \notin Gone => n \in OnDisk'
        BY <1>1, <3>1 DEF OnDisk, ToSet
      <4> QED
        BY <1>0, <1>5, <4>1
    <3>4. u \notin Gone /\ LinesOf(u)' = LinesOf(u)
      BY <1>1, <1>2, <3>2
    <3>5. t < u
      <4>1. CASE u = MaxNow + 1
        BY <1>0, <3>3, <4>1
      <4>2. CASE u # MaxNow + 1
        <5>1. u \in Kept
          <6>1. rotated[u].lines # <<>> /\ u \in 1 .. MaxNow
            BY <1>0, <1>2, <3>2, <3>4, <4>2 DEF LinesOf, Pieces
          <6> QED
            BY <1>0, <6>1 DEF Kept, AbsentIsEmpty, NoFile
        <5>2. ~(u <= t)
          BY <3>3, <3>4, <5>1, OldestGo
        <5> QED
          BY <1>0, <5>2
      <4> QED
        BY <4>1, <4>2
    <3>6. t \in 1 .. u
      BY <1>0, <3>3, <3>5
    <3> QED
      BY <3>1, <3>2, <3>4, <3>5, <3>6 DEF InOrder
  <2> QED
    BY <2>1, <2>2
<1>6. LatestOf(OnDisk', Written')
  BY <1>0, <1>4, <1>5 DEF LatestOf
<1>7. Gone = {} => OnDisk' = OnDisk
  BY <1>1 DEF OnDisk
<1> QED
  BY <1>3, <1>6, <1>7

\* The pending line comes after every line that was written.
LEMMA PendingIsLatest ==
  ASSUME TypeOK, LastIsPending, pc \in Busy
  PROVE  \A m \in Written : m \in Nat /\ m < Len(log)
<1>1. /\ DOMAIN log = 1 .. Len(log) /\ Len(log) \in Nat
  BY LenProperties DEF TypeOK
<1> QED
  BY <1>1, PendingLine DEF Written

\* The pending line is written behind the others.
LEMMA WrittenLines ==
  ASSUME TypeOK, LastIsPending, LinesSurvive, ~clobbered, Write, handle = "open"
  PROVE  InOrder' /\ LatestOf(OnDisk', Written') /\ (cleaned' \/ OnDisk' = Written')
<1> DEFINE last == MaxNow + 1
<1>0. pc \in Busy /\ UNCHANGED <<rotated, cleaned>>
  BY DEF Write, Busy
<1> PICK n \in Lines : n = Len(log)
  BY <1>0, PendingLine
<1>1. file'.lines = Append(file.lines, n)
  BY <1>0, AppendedIsFile DEF Write
<1>2. file.lines \in Seq(Lines) /\ n \in Nat
  BY DEF TypeOK, Lines
<1>3. /\ DOMAIN file.lines = 1 .. Len(file.lines) /\ Len(file.lines) \in Nat
      /\ DOMAIN file'.lines = 1 .. Len(file.lines) + 1
      /\ \A i \in 1 .. Len(file.lines) : file'.lines[i] = file.lines[i]
      /\ file'.lines[Len(file.lines) + 1] = n
  BY <1>1, <1>2, AppendProperties, LenProperties
<1>4. /\ last \in Pieces /\ LinesOf(last) = file.lines /\ LinesOf(last)' = file'.lines
      /\ \A t \in Pieces : t # last => LinesOf(t)' = LinesOf(t)
      /\ \A u \in Pieces : u <= last /\ u \in Nat /\ \A t \in 1 .. u : t \in Pieces
  BY <1>0 DEF LinesOf, Pieces
<1>5. Written' = Written \cup {n} /\ n \notin Written
  <2> DEFINE line == [log[n] EXCEPT !.written = (handle = "open")]
  <2>1. /\ log \in Seq([kind : Kinds, written : BOOLEAN])
        /\ n \in 1 .. Len(log) /\ DOMAIN log = 1 .. Len(log)
    BY <1>0, PendingLine, LenProperties DEF TypeOK
  <2>2. log[n] \in [kind : Kinds, written : BOOLEAN] /\ ~log[n].written
    BY <1>0, PendingLine
  <2>3. line.written
    BY <2>2
  <2>4. log' = [log EXCEPT ![n] = line]
    BY DEF Write
  <2> HIDE DEF line
  <2>5. /\ DOMAIN log' = DOMAIN log /\ log'[n] = line
        /\ \A m \in DOMAIN log : m # n => log'[m] = log[m]
    BY <2>1, <2>4
  <2> QED
    BY <2>1, <2>2, <2>3, <2>5 DEF Written
<1>6. InOrder /\ LatestOf(OnDisk, Written) /\ (cleaned \/ OnDisk = Written)
  BY DEF LinesSurvive
<1>7. \A m \in Written : m \in Nat /\ m < n
  BY <1>0, PendingIsLatest
<1>8. \A t \in Pieces : \A i \in DOMAIN LinesOf(t) : LinesOf(t)[i] < n
  BY <1>6, <1>7, OnDiskIs DEF LatestOf
<1>9. OnDisk' = OnDisk \cup {n}
  <2>1. ASSUME NEW m \in OnDisk
        PROVE  m \in OnDisk'
    <3>1. PICK t \in Pieces : \E i \in DOMAIN LinesOf(t) : LinesOf(t)[i] = m
      BY OnDiskIs
    <3>2. PICK i \in DOMAIN LinesOf(t) : LinesOf(t)[i] = m
      BY <3>1
    <3>3. i \in DOMAIN LinesOf(t)' /\ LinesOf(t)'[i] = m
      <4>1. CASE t = last
        <5>1. i \in 1 .. Len(file.lines) /\ file.lines[i] = m
          BY <1>3, <1>4, <3>2, <4>1
        <5>2. i \in DOMAIN file'.lines /\ file'.lines[i] = m
          BY <1>3, <5>1
        <5> QED
          BY <1>4, <4>1, <5>2
      <4>2. CASE t # last
        BY <1>4, <3>2, <4>2
      <4> QED
        BY <4>1, <4>2
    <3> QED
      BY <3>3 DEF OnDisk, ToSet
  <2>2. n \in OnDisk'
    <3>1. \E i \in DOMAIN LinesOf(last)' : LinesOf(last)'[i] = n
      BY <1>3, <1>4
    <3> QED
      BY <1>4, <3>1 DEF OnDisk, ToSet
  <2>3. ASSUME NEW m \in OnDisk'
        PROVE  m \in OnDisk \cup {n}
    <3>1. PICK t \in Pieces : \E i \in DOMAIN LinesOf(t)' : LinesOf(t)'[i] = m
      BY <2>3 DEF OnDisk, ToSet
    <3>2. m = n \/ \E i \in DOMAIN LinesOf(t) : LinesOf(t)[i] = m
      <4>1. CASE t = last
        <5>1. PICK i \in DOMAIN file'.lines : file'.lines[i] = m
          BY <1>4, <3>1, <4>1
        <5>2. CASE i = Len(file.lines) + 1
          BY <1>3, <5>1, <5>2
        <5>3. CASE i # Len(file.lines) + 1
          <6>1. i \in DOMAIN file.lines /\ file.lines[i] = m
            BY <1>3, <5>1, <5>3
          <6> QED
            BY <1>4, <4>1, <6>1
        <5> QED
          BY <5>2, <5>3
      <4>2. CASE t # last
        BY <1>4, <3>1, <4>2
      <4> QED
        BY <4>1, <4>2
    <3> QED
      BY <3>2, OnDiskIs
  <2> QED
    BY <2>1, <2>2, <2>3
<1>10. InOrder'
  <2>1. SUFFICES ASSUME NEW u \in Pieces, NEW j \in DOMAIN LinesOf(u)', NEW t \in 1 .. u,
                        NEW i \in DOMAIN LinesOf(t)', t < u \/ i < j
                 PROVE  LinesOf(t)'[i] < LinesOf(u)'[j]
    BY DEF InOrder
  <2>2. t \in Pieces /\ (t = last => u = last)
    BY <1>4
  <2>3. CASE u # last
    BY <1>4, <1>6, <2>1, <2>2, <2>3 DEF InOrder
  <2>4. CASE u = last /\ j = Len(file.lines) + 1
    <3>1. LinesOf(u)'[j] = n
      BY <1>3, <1>4, <2>4
    <3>2. i \in DOMAIN LinesOf(t) /\ LinesOf(t)'[i] = LinesOf(t)[i]
      BY <1>3, <1>4, <2>1, <2>2, <2>4
    <3> QED
      BY <1>8, <2>2, <3>1, <3>2
  <2>5. CASE u = last /\ j # Len(file.lines) + 1
    <3>1. j \in DOMAIN LinesOf(u) /\ LinesOf(u)'[j] = LinesOf(u)[j]
      BY <1>3, <1>4, <2>5
    <3>2. i \in DOMAIN LinesOf(t) /\ LinesOf(t)'[i] = LinesOf(t)[i]
      BY <1>3, <1>4, <2>1, <2>2, <2>5
    <3> QED
      BY <1>6, <2>1, <3>1, <3>2 DEF InOrder
  <2> QED
    BY <2>3, <2>4, <2>5
<1>11. LatestOf(OnDisk', Written')
  BY <1>5, <1>6, <1>7, <1>9 DEF LatestOf
<1>12. cleaned' \/ OnDisk' = Written'
  BY <1>0, <1>5, <1>6, <1>9
<1> QED
  BY <1>10, <1>11, <1>12

\* No step loses a line but a second rotation in the same second, and none
\* brings two out of order.
LEMMA StepLines ==
  ASSUME TypeOK, LastIsPending, AbsentIsEmpty, FilesInTime, LinesSurvive, [Next]_vars
  PROVE  LinesSurvive'
<1> USE DEF disk, memory, history
<1> SUFFICES ASSUME ~clobbered'
             PROVE  InOrder' /\ LatestOf(OnDisk', Written') /\ (cleaned' \/ OnDisk' = Written')
  BY DEF LinesSurvive
<1>1. ~clobbered
  BY DEF Next, NewLogger, Close, Crash, Tick, Log, Rename, Open, CleanupOldLogs, Write, vars
<1>2. InOrder /\ LatestOf(OnDisk, Written) /\ (cleaned \/ OnDisk = Written)
  BY <1>1 DEF LinesSurvive
<1>3. ASSUME file'.lines = file.lines, UNCHANGED <<rotated, cleaned>>, Written' = Written
      PROVE  InOrder' /\ LatestOf(OnDisk', Written') /\ (cleaned' \/ OnDisk' = Written')
  BY <1>2, <1>3, SameLines
<1>4. log' = log => Written' = Written
  BY DEF Written
<1>5. Created.lines = file.lines
  BY CreatedIsFile DEF AbsentIsEmpty, NoFile
<1>6. CASE NewLogger \/ Open \/ Close \/ Crash \/ Tick \/ UNCHANGED vars
  BY <1>3, <1>4, <1>5, <1>6 DEF NewLogger, Open, Close, Crash, Tick, vars
<1>7. ASSUME NEW kind \in Kinds, Log(kind)
      PROVE  Written' = Written /\ UNCHANGED <<file, rotated, cleaned>>
  <2> DEFINE line == [kind |-> kind, written |-> FALSE]
  <2>1. log \in Seq([kind : Kinds, written : BOOLEAN]) /\ line \in [kind : Kinds, written : BOOLEAN]
    BY DEF TypeOK
  <2>2. log' = Append(log, line) /\ UNCHANGED <<file, rotated, cleaned>>
    BY <1>7 DEF Log
  <2>3. ~line.written
    OBVIOUS
  <2> HIDE DEF line
  <2>4. /\ DOMAIN log = 1 .. Len(log) /\ DOMAIN log' = 1 .. Len(log) + 1 /\ Len(log) \in Nat
        /\ \A m \in 1 .. Len(log) : log'[m] = log[m]
        /\ log'[Len(log) + 1] = line
    BY <2>1, <2>2, AppendProperties, LenProperties
  <2> QED
    BY <2>2, <2>3, <2>4 DEF Written
<1>8. CASE Rename
  <2>1. CASE UNCHANGED disk
    BY <1>3, <1>4, <1>8, <2>1 DEF Rename
  <2>2. CASE /\ rotated' = [rotated EXCEPT ![now] = file] /\ file' = NoFile
             /\ clobbered' = (clobbered \/ Exists(rotated[now]))
    <3>1. ~Exists(rotated[now]) /\ UNCHANGED <<now, cleaned, log>>
      BY <1>8, <2>2 DEF Rename
    <3> QED
      BY <1>2, <1>4, <2>2, <3>1, RenamedLines
  <2> QED
    BY <1>8, <2>1, <2>2 DEF Rename
<1>9. CASE CleanupOldLogs
  <2>1. /\ rotated' = [t \in DOMAIN rotated |-> IF t \in Gone THEN NoFile ELSE rotated[t]]
        /\ cleaned' = (cleaned \/ Gone # {}) /\ UNCHANGED <<file, log>>
    BY <1>9 DEF CleanupOldLogs, Gone
  <2>2. InOrder' /\ LatestOf(OnDisk', Written') /\ (Gone = {} => OnDisk' = OnDisk)
    BY <1>2, <2>1, CleanedLines
  <2> QED
    BY <1>2, <1>4, <2>1, <2>2
<1>10. CASE Write
  <2>1. CASE handle = "open"
    BY <1>1, <1>10, <2>1, WrittenLines
  <2>2. CASE handle # "open"
    <3>1. UNCHANGED <<file, rotated, cleaned>>
      BY <1>10, <2>2 DEF Write
    <3>2. pc \in Busy /\ Len(log) \in DOMAIN log /\ ~log[Len(log)].written
      <4>1. pc \in Busy
        BY <1>10 DEF Write, Busy
      <4> QED
        BY <4>1, PendingLine
    <3> DEFINE line == [log[Len(log)] EXCEPT !.written = (handle = "open")]
    <3>3. ~line.written
      <4>1. log[Len(log)] \in [kind : Kinds, written : BOOLEAN]
        BY <3>2, PendingLine
      <4> QED
        BY <2>2, <4>1
    <3>4. log' = [log EXCEPT ![Len(log)] = line]
      BY <1>10 DEF Write
    <3> HIDE DEF line
    <3>5. Written' = Written
      BY <3>2, <3>3, <3>4 DEF Written
    <3> QED
      BY <1>3, <3>1, <3>5
  <2> QED
    BY <2>1, <2>2
<1> QED
  BY <1>3, <1>6, <1>7, <1>8, <1>9, <1>10 DEF Next

----------------------------------------------------------------------------
(* The ring.                                                                *)

\* The latest line that has come into the ring, or would have.
Latest == IF pc \in Busy THEN Len(log) - 1 ELSE Len(log)

\* How many lines came after the one in a slot.
Age(i) == IF i < pos THEN (pos - 1) - i ELSE (pos + BufferSize) - (i + 1)

\* The ring holds the latest lines since the start, each once, and the older
\* the further back from the position, however often it has gone round.
RingIsLatest ==
  pc # "down" =>
    /\ first <= Latest + 1
    /\ \A i \in Slots : ring[i] = IF Age(i) < (Latest + 1) - first THEN Latest - Age(i) ELSE 0

\* The position goes to the start of the ring from its end.
LEMMA Wraps ==
  ASSUME NEW p \in Slots
  PROVE  (p + 1) % BufferSize = IF p = BufferSize - 1 THEN 0 ELSE p + 1
<1>1. CASE p = BufferSize - 1
  BY <1>1 DEF Slots
<1>2. CASE p # BufferSize - 1
  BY <1>2 DEF Slots
<1> QED
  BY <1>1, <1>2

\* A line comes into the ring in the place of the one that is BufferSize older.
LEMMA StepRing ==
  ASSUME TypeOK, LastIsPending, RingIsLatest, [Next]_vars
  PROVE  RingIsLatest'
<1> USE DEF disk, memory, history
<1>0. /\ pos \in Slots /\ ring \in [Slots -> 0 .. MaxLines] /\ Len(log) \in Nat /\ first \in Nat
      /\ \A i \in Slots : i \in 0 .. BufferSize - 1
  BY LenProperties DEF TypeOK, Slots
<1>1. CASE NewLogger
  <2>1. /\ pc' = "idle" /\ first' = Len(log) + 1 /\ log' = log /\ pos' = 0
        /\ ring' = [i \in Slots |-> 0]
    BY <1>1 DEF NewLogger
  <2>2. Latest' = Len(log)
    BY <2>1 DEF Latest, Busy
  <2>3. \A i \in Slots : Age(i)' \in Nat
    BY <1>0, <2>1 DEF Age
  <2> QED
    BY <1>0, <2>1, <2>2, <2>3 DEF RingIsLatest
<1>2. CASE Crash
  BY <1>2 DEF Crash, RingIsLatest
<1>3. ASSUME UNCHANGED <<ring, pos, first>>, pc # "down", Latest' = Latest
      PROVE  RingIsLatest'
  BY <1>3 DEF RingIsLatest, Age
<1>4. ASSUME NEW kind \in Kinds, Log(kind)
      PROVE  RingIsLatest'
  <2>1. pc = "idle" /\ pc' \in Busy /\ UNCHANGED <<ring, pos, first>>
    BY <1>4 DEF Log, Busy
  <2>2. Len(log') = Len(log) + 1
    BY <1>4, AppendProperties DEF Log, TypeOK
  <2>3. Latest' = Latest
    BY <1>0, <2>1, <2>2 DEF Latest, Busy
  <2> QED
    BY <1>3, <2>1, <2>3
<1>5. CASE Rename \/ Open \/ CleanupOldLogs \/ Close
  <2>1. /\ UNCHANGED <<ring, pos, first, log>> /\ pc # "down" /\ (pc \in Busy <=> pc' \in Busy)
    BY <1>5 DEF Rename, Open, CleanupOldLogs, Close, Busy
  <2> QED
    BY <1>3, <2>1 DEF Latest
<1>6. CASE Tick \/ UNCHANGED vars
  BY <1>6 DEF Tick, vars, RingIsLatest, Latest, Age
<1>7. CASE Write
  <2>1. /\ pc = "write" /\ pc' = "idle" /\ first' = first
        /\ ring' = [ring EXCEPT ![pos] = Len(log)]
        /\ pos' = (pos + 1) % BufferSize
    BY <1>7 DEF Write
  <2>2. Len(log') = Len(log)
    BY <1>7 DEF Write, TypeOK
  <2>3. Latest = Len(log) - 1 /\ Latest' = Len(log) /\ Len(log) > 0
    BY <2>1, <2>2 DEF Latest, Busy, LastIsPending
  <2>4. pos' = IF pos = BufferSize - 1 THEN 0 ELSE pos + 1
    BY <1>0, <2>1, Wraps
  <2>5. \A i \in Slots : Age(i)' = IF i = pos THEN 0 ELSE Age(i) + 1
    <3>1. SUFFICES ASSUME NEW i \in Slots
                   PROVE  Age(i)' = IF i = pos THEN 0 ELSE Age(i) + 1
      OBVIOUS
    <3>2. CASE pos = BufferSize - 1
      BY <1>0, <2>4, <3>2 DEF Age
    <3>3. CASE pos # BufferSize - 1
      <4>1. i \in Nat /\ pos \in Nat /\ pos' = pos + 1 /\ i < BufferSize
        BY <1>0, <2>4, <3>3
      <4>2. CASE i < pos
        BY <4>1, <4>2 DEF Age
      <4>3. CASE i = pos
        BY <4>1, <4>3 DEF Age
      <4>4. CASE i > pos
        BY <4>1, <4>4 DEF Age
      <4> QED
        BY <4>1, <4>2, <4>3, <4>4
    <3> QED
      BY <3>2, <3>3
  <2>6. \A i \in Slots : Age(i) \in Nat
    BY <1>0 DEF Age
  <2>7. /\ first <= Latest + 1
        /\ \A i \in Slots : ring[i] = IF Age(i) < (Latest + 1) - first THEN Latest - Age(i) ELSE 0
    BY <2>1 DEF RingIsLatest
  <2>8. ASSUME NEW i \in Slots
        PROVE  ring'[i] = IF Age(i)' < (Latest' + 1) - first' THEN Latest' - Age(i)' ELSE 0
    <3>1. CASE i = pos
      <4>1. Age(i)' = 0 /\ ring'[i] = Len(log)
        BY <1>0, <2>1, <2>5, <3>1
      <4>2. 0 < (Latest' + 1) - first'
        BY <1>0, <2>1, <2>3, <2>7
      <4>3. Latest' - 0 = Len(log)
        BY <1>0, <2>3
      <4> QED
        BY <4>1, <4>2, <4>3
    <3>2. CASE i # pos
      <4>1. ring'[i] = ring[i] /\ Age(i)' = Age(i) + 1
        BY <1>0, <2>1, <2>5, <3>2
      <4> PICK a \in Nat : a = Age(i)
        BY <2>6
      <4>2. ring[i] = IF a < Len(log) - first THEN (Len(log) - 1) - a ELSE 0
        BY <1>0, <2>3, <2>7
      <4>3. ring'[i] = IF a + 1 < (Len(log) + 1) - first THEN Len(log) - (a + 1) ELSE 0
        BY <1>0, <4>1, <4>2
      <4>4. Age(i)' = a + 1 /\ Latest' = Len(log) /\ first' = first
        BY <2>1, <2>3, <4>1
      <4> QED
        BY <4>3, <4>4
    <3> QED
      BY <3>1, <3>2
  <2> QED
    BY <1>0, <2>1, <2>3, <2>7, <2>8 DEF RingIsLatest
<1> QED
  BY <1>1, <1>2, <1>4, <1>5, <1>6, <1>7 DEF Next

----------------------------------------------------------------------------
(* What is shown of the ring.                                               *)

\* Induction: a set of naturals with 0 and every successor has them all.
LEMMA NatSetInduction ==
  ASSUME NEW T, 0 \in T, \A n \in Nat : n \in T => n + 1 \in T
  PROVE  Nat \subseteq T
<1> DEFINE rest == Nat \ T
<1>1. SUFFICES ASSUME rest # {} PROVE FALSE
  OBVIOUS
<1>2. PICK x \in rest : \A y \in rest : ~(<<y, x>> \in OpToRel(<, Nat))
  <2>1. rest \subseteq Nat
    OBVIOUS
  <2> HIDE DEF rest
  <2> QED
    BY <1>1, <2>1, WFMin, NatLessThanWellFounded, Zenon
<1>3. \A y \in rest : ~(y < x)
  BY <1>2 DEF OpToRel
<1>4. x # 0 /\ x - 1 \in Nat /\ (x - 1) + 1 = x
  OBVIOUS
<1>5. x - 1 \in T
  BY <1>3, <1>4
<1> QED
  BY <1>4, <1>5

\* One round of GetRecentLogs' loop, at slot i from the position on.
Round(level, sofar, i) ==
  LET n == ring[(pos + i - 1) % BufferSize]
  IN IF n > 0 /\ level \in {"", log[n].kind.level} THEN Append(sofar, n) ELSE sofar

\* The loop of GetRecentLogs is well defined: it begins with nothing, and every
\* round starts from what the one before has left.
LEMMA CollectedDef ==
  ASSUME NEW level
  PROVE  /\ Collected(level)[0] = <<>>
         /\ \A i \in 1 .. BufferSize :
              Collected(level)[i] = Round(level, Collected(level)[i - 1], i)
<1> DEFINE Is(f, m) == f = [i \in 0 .. m |-> IF i = 0 THEN <<>> ELSE Round(level, f[i - 1], i)]
           T == {m \in Nat : \E f : Is(f, m)}
<1>1. 0 \in T
  <2> DEFINE f == [i \in 0 .. 0 |-> <<>>]
  <2>1. Is(f, 0)
    OBVIOUS
  <2> QED
    BY <2>1
<1>2. ASSUME NEW m \in Nat, m \in T
      PROVE  m + 1 \in T
  <2>1. PICK f : Is(f, m)
    BY <1>2
  <2> DEFINE g == [i \in 0 .. m + 1 |-> IF i = m + 1 THEN Round(level, f[m], m + 1) ELSE f[i]]
  <2>2. \A i \in 0 .. m : g[i] = f[i] /\ f[i] = IF i = 0 THEN <<>> ELSE Round(level, f[i - 1], i)
    BY <2>1
  <2>3. \A i \in 0 .. m + 1 : g[i] = IF i = 0 THEN <<>> ELSE Round(level, g[i - 1], i)
    <3>1. SUFFICES ASSUME NEW i \in 0 .. m + 1
                   PROVE  g[i] = IF i = 0 THEN <<>> ELSE Round(level, g[i - 1], i)
      OBVIOUS
    <3>2. CASE i = m + 1
      BY <2>2, <3>2
    <3>3. CASE i # m + 1
      <4>1. i \in 0 .. m /\ (i # 0 => i - 1 \in 0 .. m)
        BY <3>3
      <4> QED
        BY <2>2, <4>1
    <3> QED
      BY <3>2, <3>3
  <2>4. g = [i \in 0 .. m + 1 |-> g[i]]
    OBVIOUS
  <2> HIDE DEF g
  <2>5. Is(g, m + 1)
    BY <2>3, <2>4
  <2> QED
    BY <2>5
<1>3. BufferSize \in T
  <2> HIDE DEF T
  <2> QED
    BY <1>1, <1>2, NatSetInduction
<1>4. PICK f : Is(f, BufferSize)
  BY <1>3
<1>5. Collected(level) = CHOOSE g : Is(g, BufferSize)
  BY DEF Collected, Round
<1>6. Is(Collected(level), BufferSize)
  <2> HIDE DEF Is
  <2> QED
    BY <1>4, <1>5
<1> QED
  BY <1>6

\* The slot i places from the position on, at the position for i = 1.
Slot(i) == (pos + i - 1) % BufferSize

\* The loop sees the ring from the oldest line to the latest.
LEMMA SlotsInOrder ==
  ASSUME TypeOK, LastIsPending, RingIsLatest, pc # "down", NEW i \in 1 .. BufferSize
  PROVE  ring[Slot(i)] = IF (Latest - BufferSize) + i < first THEN 0 ELSE (Latest - BufferSize) + i
<1>1. /\ pos \in Nat /\ pos < BufferSize /\ i \in Nat /\ Slots = 0 .. BufferSize - 1
      /\ first \in Nat /\ Len(log) \in Nat
  BY LenProperties DEF TypeOK, Slots
<1>2. Latest \in Int
  BY <1>1 DEF Latest
<1>3. Slot(i) = IF pos + i - 1 < BufferSize THEN pos + i - 1 ELSE (pos + i - 1) - BufferSize
  <2>1. CASE pos + i - 1 < BufferSize
    BY <1>1, <2>1 DEF Slot
  <2>2. CASE ~(pos + i - 1 < BufferSize)
    <3>1. /\ pos + i - 1 = BufferSize + ((pos + i - 1) - BufferSize)
          /\ (pos + i - 1) - BufferSize \in 0 .. BufferSize - 1
      BY <1>1, <2>2
    <3>2. \A b \in Nat \ {0} : \A r \in 0 .. b - 1 : (b + r) % b = r
      OBVIOUS
    <3> QED
      BY <1>1, <3>1, <3>2 DEF Slot
  <2> QED
    BY <2>1, <2>2
<1>4. Slot(i) \in Slots /\ Age(Slot(i)) = BufferSize - i
  <2>1. CASE pos + i - 1 < BufferSize
    BY <1>1, <1>3, <2>1 DEF Age
  <2>2. CASE ~(pos + i - 1 < BufferSize)
    BY <1>1, <1>3, <2>2 DEF Age
  <2> QED
    BY <2>1, <2>2
<1>5. ring[Slot(i)] = IF BufferSize - i < (Latest + 1) - first THEN Latest - (BufferSize - i) ELSE 0
  BY <1>4 DEF RingIsLatest
<1> QED
  BY <1>1, <1>2, <1>5

\* The oldest line the ring can still have.
Oldest == IF Latest >= first + BufferSize THEN Latest - BufferSize + 1 ELSE first

\* What the first i rounds collect: the lines of the level from the oldest on,
\* in the order they were logged.
CollectedAre(level, i) ==
  LET c == Collected(level)[i]
  IN /\ c \in Seq(Nat)
     /\ \A j, k \in 1 .. Len(c) : j < k => c[j] < c[k]
     /\ \A n \in Nat : (\E k \in 1 .. Len(c) : c[k] = n)
                         <=> /\ n >= Oldest /\ n <= (Latest - BufferSize) + i
                             /\ level \in {"", log[n].kind.level}

\* The loop collects every line of the level the ring has, and nothing else.
LEMMA CollectedInOrder ==
  ASSUME TypeOK, LastIsPending, RingIsLatest, pc # "down", NEW level,
         NEW i \in 0 .. BufferSize
  PROVE  CollectedAre(level, i)
<1> DEFINE T == {m \in Nat : m <= BufferSize => CollectedAre(level, m)}
<1>1. first \in Nat /\ Latest \in Int /\ first >= 1 /\ Latest >= first - 1 /\ Oldest \in Nat
  <2>1. first \in Nat /\ first >= 1 /\ Len(log) \in Nat
    BY LenProperties DEF TypeOK
  <2> QED
    BY <2>1 DEF Latest, Oldest, RingIsLatest
<1>2. 0 \in T
  <2>1. Collected(level)[0] = <<>>
    BY CollectedDef
  <2>2. Oldest > (Latest - BufferSize) + 0
    BY <1>1 DEF Oldest
  <2>3. \A n \in Nat : ~(n >= Oldest /\ n <= (Latest - BufferSize) + 0)
    BY <1>1, <2>2
  <2>4. <<>> \in Seq(Nat) /\ Len(<<>>) = 0 /\ 1 .. 0 = {}
    OBVIOUS
  <2>5. CollectedAre(level, 0)
    BY <2>1, <2>3, <2>4 DEF CollectedAre
  <2> QED
    BY <2>5
<1>3. ASSUME NEW m \in Nat, m \in T
      PROVE  m + 1 \in T
  <2>1. SUFFICES ASSUME m + 1 <= BufferSize
                 PROVE  CollectedAre(level, m + 1)
    OBVIOUS
  <2> DEFINE c == Collected(level)[m]
             n == ring[Slot(m + 1)]
             d == Collected(level)[m + 1]
             matches(k) == level \in {"", log[k].kind.level}
  <2>2. /\ c \in Seq(Nat)
        /\ \A j, k \in 1 .. Len(c) : j < k => c[j] < c[k]
        /\ \A x \in Nat : (\E k \in 1 .. Len(c) : c[k] = x)
                            <=> /\ x >= Oldest /\ x <= (Latest - BufferSize) + m
                                /\ matches(x)
    <3>1. CollectedAre(level, m)
      BY <1>3, <2>1
    <3> QED
      BY <3>1 DEF CollectedAre
  <2>3. n = IF (Latest - BufferSize) + (m + 1) < first THEN 0 ELSE (Latest - BufferSize) + (m + 1)
    <3>1. m + 1 \in 1 .. BufferSize
      BY <2>1
    <3> QED
      BY <3>1, SlotsInOrder
  <2>4. d = IF n > 0 /\ matches(n) THEN Append(c, n) ELSE c
    <3>1. m + 1 \in 1 .. BufferSize /\ (m + 1) - 1 = m
      BY <2>1
    <3>2. Collected(level)[m + 1] = Round(level, Collected(level)[m], m + 1)
      BY <3>1, CollectedDef
    <3> QED
      BY <3>2 DEF Round, Slot
  <2> HIDE DEF c, n, d, matches
  <2>5. CASE n > 0 /\ matches(n)
    <3>1. n \in Nat /\ n = (Latest - BufferSize) + (m + 1) /\ n >= first /\ n >= Oldest
      BY <1>1, <2>1, <2>3, <2>5 DEF Oldest
    <3>2. /\ d \in Seq(Nat) /\ Len(c) \in Nat /\ Len(d) = Len(c) + 1 /\ d[Len(c) + 1] = n
          /\ \A k \in 1 .. Len(c) : d[k] = c[k]
      BY <2>2, <2>4, <2>5, <3>1, AppendProperties, LenProperties
    <3>3. \A k \in 1 .. Len(c) : c[k] \in Nat /\ c[k] < n
      <4>1. \A k \in 1 .. Len(c) : c[k] \in Nat
        BY <2>2, ElementOfSeq
      <4> QED
        BY <1>1, <2>2, <3>1, <4>1
    <3>4. \A j, k \in 1 .. Len(d) : j < k => d[j] < d[k]
      <4>1. SUFFICES ASSUME NEW j \in 1 .. Len(d), NEW k \in 1 .. Len(d), j < k
                     PROVE  d[j] < d[k]
        OBVIOUS
      <4>2. j \in 1 .. Len(c) /\ (k \in 1 .. Len(c) \/ k = Len(c) + 1)
        BY <3>2, <4>1
      <4> QED
        BY <2>2, <3>2, <3>3, <4>1, <4>2
    <3>5. ASSUME NEW x \in Nat
          PROVE  (\E k \in 1 .. Len(d) : d[k] = x) <=> (\E k \in 1 .. Len(c) : c[k] = x) \/ x = n
      <4>1. \A k \in 1 .. Len(c) : k \in 1 .. Len(d)
        BY <3>2
      <4>2. Len(c) + 1 \in 1 .. Len(d)
        BY <3>2
      <4>3. \A k \in 1 .. Len(d) : k \in 1 .. Len(c) \/ k = Len(c) + 1
        BY <3>2
      <4> QED
        BY <3>2, <4>1, <4>2, <4>3
    <3>6. \A x \in Nat : (\E k \in 1 .. Len(d) : d[k] = x)
                           <=> /\ x >= Oldest /\ x <= (Latest - BufferSize) + (m + 1)
                               /\ matches(x)
      BY <1>1, <2>2, <2>5, <3>1, <3>5
    <3> QED
      BY <3>2, <3>4, <3>6 DEF CollectedAre, d, matches
  <2>6. CASE ~(n > 0 /\ matches(n))
    <3>1. d = c
      BY <2>4, <2>6
    <3>2. \A x \in Nat : x >= Oldest /\ matches(x) =>
            (x <= (Latest - BufferSize) + m <=> x <= (Latest - BufferSize) + (m + 1))
      <4>1. CASE n > 0
        BY <1>1, <2>3, <2>6, <4>1
      <4>2. CASE ~(n > 0)
        BY <1>1, <2>3, <4>2 DEF Oldest
      <4> QED
        BY <4>1, <4>2
    <3> QED
      BY <2>2, <3>1, <3>2 DEF CollectedAre, d, matches
  <2> QED
    BY <2>5, <2>6
<1>4. i \in T
  <2> HIDE DEF T
  <2> QED
    BY <1>2, <1>3, NatSetInduction
<1> QED
  BY <1>4

\* Reversed and cut off at the limit, they are the latest of the level.
LEMMA ShownAreLatest ==
  ASSUME TypeOK, LastIsPending, RingIsLatest, pc # "down", NEW level,
         NEW limit \in 0 .. BufferSize
  PROVE  LET of == {n \in Oldest .. Latest : level \in {"", log[n].kind.level}}
             shown == GetRecentLogs(level, limit)
             most == IF limit = 0 THEN BufferSize ELSE limit
         IN /\ \A i, j \in DOMAIN shown : i < j => shown[i] > shown[j]
            /\ LatestOf(ToSet(shown), of)
            /\ Len(shown) <= most /\ (Len(shown) < most => ToSet(shown) = of)
<1> DEFINE c == Collected(level)[BufferSize]
           matches(k) == level \in {"", log[k].kind.level}
           of == {n \in Oldest .. Latest : matches(n)}
           most == IF limit = 0 THEN BufferSize ELSE limit
           entries == Reverse(c)
           shown == GetRecentLogs(level, limit)
<1>1. Oldest \in Nat /\ Latest \in Int
  <2>1. first \in Nat /\ Len(log) \in Nat
    BY LenProperties DEF TypeOK
  <2> QED
    BY <2>1 DEF Latest, Oldest, RingIsLatest
<1>2. /\ c \in Seq(Nat)
      /\ \A j, k \in 1 .. Len(c) : j < k => c[j] < c[k]
      /\ \A n \in Nat : (\E k \in 1 .. Len(c) : c[k] = n)
                          <=> /\ n >= Oldest /\ n <= (Latest - BufferSize) + BufferSize
                              /\ matches(n)
  <2>1. CollectedAre(level, BufferSize)
    BY CollectedInOrder
  <2> QED
    BY <2>1 DEF CollectedAre
<1>3. most \in Nat /\ most >= 1
  OBVIOUS
<1>4. shown = IF Len(entries) > most THEN SubSeq(entries, 1, most) ELSE entries
  BY DEF GetRecentLogs
<1>5. entries = [k \in 1 .. Len(c) |-> c[(Len(c) - k) + 1]]
  BY DEF Reverse
<1> HIDE DEF c, matches, most, entries, shown
<1>6. /\ Len(c) \in Nat /\ \A k \in 1 .. Len(c) : c[k] \in Nat
  BY <1>2, LenProperties, ElementOfSeq
<1>7. /\ entries \in Seq(Nat) /\ Len(entries) = Len(c)
      /\ \A k \in 1 .. Len(c) : entries[k] = c[(Len(c) - k) + 1]
  <2>1. \A k \in 1 .. Len(c) : (Len(c) - k) + 1 \in 1 .. Len(c)
    BY <1>6
  <2> QED
    BY <1>5, <1>6, <2>1
<1>8. /\ DOMAIN shown = 1 .. Len(shown) /\ Len(shown) \in Nat
      /\ Len(shown) = IF Len(c) > most THEN most ELSE Len(c)
      /\ \A k \in 1 .. Len(shown) : shown[k] = c[(Len(c) - k) + 1]
  <2>1. CASE Len(c) > most
    <3>1. \A k \in 1 .. most : entries[k] \in Nat
      BY <1>3, <1>6, <1>7, <2>1
    <3>2. /\ shown \in Seq(Nat) /\ Len(shown) = most
          /\ \A k \in 1 .. most : shown[k] = entries[k]
      BY <1>3, <1>4, <1>7, <2>1, <3>1, SubSeqProperties
    <3> QED
      BY <1>3, <1>6, <1>7, <2>1, <3>2, LenProperties
  <2>2. CASE ~(Len(c) > most)
    BY <1>4, <1>6, <1>7, <2>2, LenProperties
  <2> QED
    BY <2>1, <2>2
<1>9. \A k \in 1 .. Len(shown) : (Len(c) - k) + 1 \in 1 .. Len(c)
  BY <1>3, <1>6, <1>8
<1>10. \A i, j \in DOMAIN shown : i < j => shown[i] > shown[j]
  <2>1. SUFFICES ASSUME NEW i \in 1 .. Len(shown), NEW j \in 1 .. Len(shown), i < j
                 PROVE  shown[i] > shown[j]
    BY <1>8
  <2>2. (Len(c) - j) + 1 < (Len(c) - i) + 1
    BY <1>6, <2>1
  <2>3. c[(Len(c) - j) + 1] < c[(Len(c) - i) + 1]
    BY <1>2, <1>9, <2>2
  <2>4. c[(Len(c) - j) + 1] \in Nat /\ c[(Len(c) - i) + 1] \in Nat
    BY <1>6, <1>9
  <2> QED
    BY <1>8, <2>3, <2>4
<1>11. \A n \in of : \E k \in 1 .. Len(c) : c[k] = n
  BY <1>1, <1>2
<1>12. \A k \in 1 .. Len(c) : c[k] \in of
  BY <1>1, <1>2, <1>6
<1>13. ToSet(shown) = {shown[k] : k \in 1 .. Len(shown)}
  BY <1>8 DEF ToSet
<1>14. ToSet(shown) \subseteq of
  BY <1>8, <1>9, <1>12, <1>13
<1>15. ASSUME NEW m \in ToSet(shown), NEW n \in of \ ToSet(shown)
       PROVE  n < m
  <2>1. PICK k \in 1 .. Len(shown) : m = c[(Len(c) - k) + 1]
    BY <1>8, <1>13
  <2>2. PICK l \in 1 .. Len(c) : c[l] = n
    BY <1>11
  <2>3. l < (Len(c) - k) + 1
    <3>1. SUFFICES ASSUME ~(l < (Len(c) - k) + 1) PROVE FALSE
      OBVIOUS
    <3>2. (Len(c) - l) + 1 \in 1 .. Len(shown) /\ (Len(c) - ((Len(c) - l) + 1)) + 1 = l
      BY <1>6, <1>8, <3>1
    <3>3. shown[(Len(c) - l) + 1] = n
      BY <1>8, <2>2, <3>2
    <3> QED
      BY <1>13, <3>2, <3>3
  <2> QED
    BY <1>2, <1>9, <2>1, <2>2, <2>3
<1>16. ASSUME Len(shown) < most
       PROVE  of \subseteq ToSet(shown)
  <2>1. Len(shown) = Len(c)
    BY <1>3, <1>6, <1>8, <1>16
  <2>2. SUFFICES ASSUME NEW n \in of PROVE n \in ToSet(shown)
    OBVIOUS
  <2>3. PICK l \in 1 .. Len(c) : c[l] = n
    BY <1>11
  <2>4. (Len(c) - l) + 1 \in 1 .. Len(shown) /\ (Len(c) - ((Len(c) - l) + 1)) + 1 = l
    BY <1>6, <2>1
  <2>5. shown[(Len(c) - l) + 1] = n
    BY <1>8, <2>3, <2>4
  <2> QED
    BY <1>13, <2>4, <2>5
<1>17. Len(shown) <= most
  BY <1>3, <1>6, <1>8
<1>18. LatestOf(ToSet(shown), of)
  <2> HIDE DEF of
  <2> QED
    BY <1>14, <1>15 DEF LatestOf
<1> QED
  <2>1. Len(shown) < most => ToSet(shown) = of
    BY <1>14, <1>16
  <2> HIDE DEF of
  <2> QED
    BY <1>10, <1>17, <1>18, <2>1 DEF of, shown, most, matches

----------------------------------------------------------------------------
(* The theorems.                                                            *)

\* The invariant holds when the program starts ...
LEMMA InitInvariant == Init => IInv
<1> SUFFICES ASSUME Init PROVE IInv
  OBVIOUS
<1>1. TypeOK /\ LastIsPending
  BY InitTyped
<1>2. /\ file = NoFile /\ NoFile.lines = <<>> /\ NoFile.bytes = 0 /\ NoFile.mtime = 0
      /\ \A t \in 1 .. MaxNow : rotated[t] = NoFile
      /\ DOMAIN rotated = 1 .. MaxNow
      /\ handle = "none" /\ pc = "down" /\ log = <<>> /\ now = 1
  BY DEF Init, NoFile
<1>3. AbsentIsEmpty /\ FilesInTime
  BY <1>2 DEF AbsentIsEmpty, FilesInTime, Kept, Exists
<1>4. NoneUncounted
  BY <1>2 DEF NoneUncounted
<1>5. SizeIsBounded
  <2>1. limits.size \in Nat
    BY <1>1, ConfigsAreRecords DEF TypeOK
  <2> QED
    BY <1>2, <2>1 DEF SizeIsBounded
<1>6. LinesSurvive
  <2>1. \A t \in Pieces : LinesOf(t) = <<>>
    BY <1>2 DEF LinesOf, Pieces
  <2>2. DOMAIN <<>> = {}
    OBVIOUS
  <2>3. InOrder
    BY <2>1, <2>2 DEF InOrder
  <2>4. OnDisk = {} /\ Written = {}
    BY <1>2, <2>1, <2>2, OnDiskIs DEF Written
  <2> QED
    BY <2>3, <2>4 DEF LinesSurvive, LatestOf
<1> QED
  BY <1>1, <1>3, <1>4, <1>5, <1>6 DEF IInv

\* ... every operation preserves it ...
LEMMA StepInvariant == IInv /\ [Next]_vars => IInv'
BY StepTyped, StepSizes, StepTimes, StepLines DEF IInv

\* ... so it always holds.
LEMMA Invariant == Spec => []IInv
BY InitInvariant, StepInvariant, PTL DEF Spec

\* The log files, the ring and the position in it keep their types.
THEOREM LoggerTypeCorrect == Spec => []TypeOK
<1>1. IInv => TypeOK
  BY DEF IInv
<1> QED
  BY <1>1, Invariant, PTL

\* The files hold the latest lines that were written, in order and without a
\* gap, unless two rotations fell into one second, and all of them until a
\* limit removes a file (rotateLogFile, cleanupOldLogs).
THEOREM FilesHoldLatest == Spec => []LinesSurvive
<1>1. IInv => LinesSurvive
  BY DEF IInv
<1> QED
  BY <1>1, Invariant, PTL

\* A file has more bytes than it may only when it has a single line, or could
\* not be renamed (log, NewLogger).
THEOREM FilesAreBounded == Spec => []SizeIsBounded
<1>1. IInv => SizeIsBounded
  BY DEF IInv
<1> QED
  BY <1>1, Invariant, PTL

\* The ring behind the web interface holds the latest entries since the start,
\* none of them twice and none left out, also those that did not reach the file
\* (addToBuffer).
THEOREM RingHoldsLatest == Spec => []RingIsLatest
<1>1. Init => RingIsLatest
  BY DEF Init, RingIsLatest
<1>2. IInv /\ RingIsLatest /\ [Next]_vars => RingIsLatest'
  BY StepRing DEF IInv
<1> QED
  BY <1>1, <1>2, Invariant, PTL DEF Spec

\* What the web interface shows of a level are its latest entries since the
\* start, newest first, none left out that the limit leaves room for, however
\* often the ring has gone round (addToBuffer, GetRecentLogs).
THEOREM ShowsTheLatest == Spec => []RecentLogsAreLatest
<1>1. IInv /\ RingIsLatest => RecentLogsAreLatest
  <2>1. SUFFICES ASSUME TypeOK, LastIsPending, RingIsLatest, pc # "down",
                        NEW level \in Levels \cup {""}, NEW limit \in 0 .. BufferSize
                 PROVE  LET of == {n \in Oldest .. Latest : level \in {"", log[n].kind.level}}
                            shown == GetRecentLogs(level, limit)
                            most == IF limit = 0 THEN BufferSize ELSE limit
                        IN /\ \A i, j \in DOMAIN shown : i < j => shown[i] > shown[j]
                           /\ LatestOf(ToSet(shown), of)
                           /\ Len(shown) <= most /\ (Len(shown) < most => ToSet(shown) = of)
    BY DEF RecentLogsAreLatest, IInv, Oldest, Latest, Busy
  <2> QED
    BY <2>1, ShownAreLatest
<1> QED
  BY <1>1, Invariant, RingHoldsLatest, PTL
=============================================================================
