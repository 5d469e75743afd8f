--------------------------- MODULE SessionProofs ---------------------------
(* Machine-checked proofs about access sessions, for any number of sessions *)
(* and terminals and any setting of the switches.                           *)
EXTENDS Session, TLAPS

Busy(w, s) == worker[w].pc # "idle" /\ worker[w].on = s

\* A worker that is not idle works on a session.
WorkersHaveSessions ==
  \A w \in Workers : worker[w].pc # "idle" => worker[w].on \in Sessions

\* What is known of a session in each stage, before a worker has entered it.
SessionHasData ==
  \A s \in Sessions :
    /\ session[s].stage = "KPO_RESULT" => session[s].kpo # "absent"
    /\ session[s].wait # "none" => session[s].kpo # "absent"
    /\ starter[s] \in {"setWait", "setStage"} => session[s].kpo # "absent"
    /\ session[s].stage \notin {"INIT", "KPO_RESULT"} => session[s].result # "unset"

\* The same, as the worker that entered it knows it: results and verdicts are
\* replaced but never taken back.
WorkerHasData ==
  \A w \in Workers : LET s == worker[w].on IN
    /\ worker[w].pc = "handling" /\ worker[w].stage = "KPO_RESULT" => session[s].kpo # "absent"
    /\ worker[w].pc \in {"handling", "sent"} /\ worker[w].stage \notin {"INIT", "KPO_RESULT"} =>
         session[s].result # "unset"
    /\ worker[w].pc = "sent" => worker[w].stage \in {"PASSED", "DONE"}

\* YES travels from a verdict to the session's result and only from there to
\* the terminal, to 1C and to the log.
GrantTravels ==
  \A s \in Sessions :
    session[s].kpo = "YES" \/ session[s].result = "1" => granted[s] # {}

\* Outside the gates the main loop alone works on a session.
OnlyMainLoop ==
  \A k \in Keys, s \in Sessions : Busy(k, s) => gates[s]

\* Outside the gates, what the terminal was last told is the session's result
\* from the answer to the end, the log included, a session that is being
\* started has not been answered, and a completed one is not worked on.
AnswerIsResult(s) == session[s].result = "1" <=> shown[s] = "allow"

Plain == {"INIT", "KPO_RESULT", "LAST_ANSWER", "PASSED", "DONE"}

AnswerStaysOf(s) ==
  /\ session[s].stage \in Plain
  /\ session[s].stage \in {"PASSED", "DONE"} => AnswerIsResult(s)
  /\ starter[s] \in {"none", "accepted", "created"} =>
       /\ session[s].stage = "INIT" /\ session[s].wait = "none" /\ logged[s] = "none"
       /\ Busy(MainLoop, s) => worker[MainLoop].pc = "handling" /\ worker[MainLoop].stage = "INIT"
  /\ Busy(MainLoop, s) =>
       /\ worker[MainLoop].pc # "entering"
       /\ ~session[s].completed
       /\ worker[MainLoop].stage \in Plain
       /\ worker[MainLoop].stage \in {"PASSED", "DONE"} => AnswerIsResult(s)
       /\ worker[MainLoop].pc = "logged" => worker[MainLoop].stage = "DONE"
  /\ logged[s] # "none" =>
       session[s].completed \/ (Busy(MainLoop, s) /\ worker[MainLoop].pc = "logged")
  /\ logged[s] # "none" => (logged[s] = "YES" <=> shown[s] = "allow")

AnswerStays == \A s \in Sessions : ~gates[s] => AnswerStaysOf(s)

IInv ==
  /\ TypeOK
  /\ WorkersHaveSessions
  /\ SessionHasData
  /\ WorkerHasData
  /\ GrantTravels
  /\ AllowedOnlyIfGranted
  /\ OnlyMainLoop
  /\ AnswerStays

USE ConstantsAreDistinct, SwitchesAreBoolean

Typed == TypeOK /\ WorkersHaveSessions

----------------------------------------------------------------------------
(* Typing.                                                                  *)

\* The fields of a session's record have their types.
LEMMA RecordFields ==
  ASSUME NEW r \in Records
  PROVE  /\ r.inMap \in {"no", "yes", "removed"}
         /\ r.stage \in Stages
         /\ r.wait \in {"none", "pending", "due"}
         /\ r.kpo \in {"absent", "UNDEF", "YES", "NO"}
         /\ r.result \in {"unset", "0", "1"}
         /\ r.cid \in BOOLEAN
         /\ r.completed \in BOOLEAN
  BY DEF Records

\* So has the record of a session that hears of a pass or leaves the map.
LEMMA RecordUpdates ==
  ASSUME NEW r \in Records, NEW p \in {"true", "false"}
  PROVE  /\ [r EXCEPT !.first = p] \in Records
         /\ [r EXCEPT !.second = p] \in Records
         /\ [r EXCEPT !.inMap = "removed"] \in Records
  BY DEF Records

\* The program starts well typed, with no session and idle workers.
LEMMA InitTyped == Init => Typed
<1>1. NewRecord \in Records
  BY DEF NewRecord, Records, Stages
<1>2. Idle \in WorkerStates
  BY DEF Idle, WorkerStates, Stages
<1> QED
  BY <1>1, <1>2 DEF Init, Typed, TypeOK, WorkersHaveSessions, Idle, StarterStates, AskerStates

\* Entering a session leaves it and the worker well typed.
LEMMA EnterTyped ==
  ASSUME Typed, NEW w \in Workers, NEW s \in Sessions, Enter(w, s)
  PROVE  /\ session' \in [Sessions -> Records]
         /\ worker' \in [Workers -> WorkerStates]
         /\ granted' \in [Sessions -> SUBSET {"1C", "autofix", "crt"}]
         /\ WorkersHaveSessions'
<1> DEFINE r == session[s]
           stage == IF r.wait = "none" THEN r.stage ELSE "KPO_RESULT"
           kpo == IF r.wait = "due" /\ ~(r.kpo \in {"YES", "NO"}) THEN Fixed ELSE r.kpo
<1>1. r \in Records
  BY DEF Typed, TypeOK
<1>2. stage \in Stages /\ kpo \in {"absent", "UNDEF", "YES", "NO"}
  BY <1>1, RecordFields DEF Stages, Fixed
<1>3. [r EXCEPT !.stage = stage, !.wait = "none", !.kpo = kpo] \in Records
  <2> HIDE DEF r, stage, kpo
  <2> QED
    BY <1>1, <1>2 DEF Records
<1>4. /\ Idle \in WorkerStates
      /\ [pc |-> "handling", on |-> s, stage |-> stage] \in WorkerStates
  <2> HIDE DEF stage
  <2> QED
    BY <1>2 DEF Idle, WorkerStates, Stages
<1>5. CASE Leave(w) /\ UNCHANGED <<session, granted>>
  BY <1>4, <1>5 DEF Leave, Idle, Typed, TypeOK, WorkersHaveSessions
<1>6. CASE /\ WorkerTo(w, "handling", s, stage)
           /\ session' = [session EXCEPT ![s].stage = stage, ![s].wait = "none", ![s].kpo = kpo]
           /\ granted' \in {granted, [granted EXCEPT ![s] = @ \cup {"autofix"}]}
  <2>1. session' \in [Sessions -> Records]
    <3> HIDE DEF stage, kpo
    <3> QED
      BY <1>3, <1>6 DEF Typed, TypeOK
  <2>2. worker' \in [Workers -> WorkerStates] /\ WorkersHaveSessions'
    <3> HIDE DEF stage
    <3> QED
      BY <1>4, <1>6 DEF WorkerTo, Typed, TypeOK, WorkersHaveSessions
  <2>3. granted' \in [Sessions -> SUBSET {"1C", "autofix", "crt"}]
    BY <1>6 DEF Typed, TypeOK
  <2> QED
    BY <2>1, <2>2, <2>3
<1> QED
  BY <1>5, <1>6 DEF Enter

\* Starting a session, asking 1C about it and the passage of time leave its
\* record well typed.
LEMMA RecordsTyped ==
  ASSUME session \in [Sessions -> Records], NEW s \in Sessions,
         StarterStep(s) \/ AskerStep(s) \/ WaitExpires(s)
  PROVE  session' \in [Sessions -> Records]
<1>0. session[s] \in Records
  OBVIOUS
<1>1. ASSUME NEW k \in Keys, NEW auth \in BOOLEAN, ProcessTagRead(s, k, auth)
      PROVE  session' \in [Sessions -> Records]
  <2>1. [session[s] EXCEPT !.key = k, !.by = "tag", !.auth = auth] \in Records
    BY <1>0 DEF Records
  <2> QED
    BY <1>1, <2>1 DEF ProcessTagRead
<1>2. ASSUME NEW k \in Keys, HandleCRTIdentification(s, k)
      PROVE  session' \in [Sessions -> Records]
  <2>1. [session[s] EXCEPT !.key = k, !.by = "crt"] \in Records
    BY <1>0 DEF Records
  <2> QED
    BY <1>2, <2>1 DEF HandleCRTIdentification
<1>3. CASE CreateSession(s)
  <2>1. [session[s] EXCEPT !.inMap = "yes"] \in Records
    BY <1>0 DEF Records
  <2> QED
    BY <1>3, <2>1 DEF CreateSession
<1>4. CASE DenyTagRead(s)
  <2>0. "LAST_ANSWER" \in Stages
    BY DEF Stages
  <2>1. [session[s] EXCEPT !.result = "0", !.stage = "LAST_ANSWER"] \in Records
    BY <1>0, <2>0 DEF Records
  <2>2. session' = [session EXCEPT ![s].result = "0", ![s].stage = "LAST_ANSWER"]
    BY <1>4 DEF DenyTagRead
  <2> QED
    BY <2>1, <2>2
<1>5. CASE PassTagRead(s) \/ LockTerminal(s)
  BY <1>5 DEF PassTagRead, LockTerminal
<1>6. CASE SendKpoRequest(s)
  <2>1. [session[s] EXCEPT !.kpo = "UNDEF", !.stage = "KPO_RESULT"] \in Records
    BY <1>0 DEF Records, Stages
  <2> QED
    BY <1>6, <2>1 DEF SendKpoRequest
<1>7. CASE Wait(s)
  <2>1. [session[s] EXCEPT !.wait = "pending"] \in Records
    BY <1>0 DEF Records
  <2> QED
    BY <1>7, <2>1 DEF Wait
<1>8. CASE CrtGrants(s)
  <2>1. [session[s] EXCEPT !.kpo = "YES"] \in Records
    BY <1>0 DEF Records
  <2> QED
    BY <1>8, <2>1 DEF CrtGrants
<1>9. CASE CrtSetsStage(s)
  <2>1. [session[s] EXCEPT !.stage = "KPO_RESULT"] \in Records
    BY <1>0 DEF Records, Stages
  <2> QED
    BY <1>9, <2>1 DEF CrtSetsStage
<1>10. ASSUME NEW v \in {"YES", "NO"}, Answered(s, v)
       PROVE  session' \in [Sessions -> Records]
  <2>1. [session[s] EXCEPT !.kpo = v] \in Records
    BY <1>0 DEF Records
  <2> QED
    BY <1>10, <2>1 DEF Answered, SetKpoResult
<1>11. CASE AskingFails(s)
  <2> DEFINE v == Fixed
  <2>0. v \in {"YES", "NO"}
    BY DEF Fixed
  <2> HIDE DEF v
  <2>1. [session[s] EXCEPT !.kpo = v] \in Records
    BY <1>0, <2>0 DEF Records
  <2>2. session' = session \/ session' = [session EXCEPT ![s].kpo = v]
    BY <1>11 DEF AskingFails, SetKpoResult, v
  <2> QED
    BY <2>1, <2>2
<1>12. ASSUME NEW found \in BOOLEAN, GetUserCID(s, found)
       PROVE  session' \in [Sessions -> Records]
  <2> DEFINE cid == session[s].cid \/ found
  <2>1. [session[s] EXCEPT !.cid = cid] \in Records
    BY <1>0 DEF Records
  <2>2. session' = [session EXCEPT ![s].cid = cid]
    BY <1>12 DEF GetUserCID
  <2> QED
    BY <2>1, <2>2
<1>13. CASE WaitExpires(s)
  <2>1. [session[s] EXCEPT !.wait = "due"] \in Records
    BY <1>0 DEF Records
  <2> QED
    BY <1>13, <2>1 DEF WaitExpires
<1> QED
  BY <1>1, <1>2, <1>3, <1>4, <1>5, <1>6, <1>7, <1>8, <1>9, <1>10, <1>11, <1>12, <1>13
     DEF StarterStep, AskerStep

\* Every operation keeps the state well typed.
LEMMA StepTyped == Typed /\ [Next]_vars => Typed'
<1> SUFFICES ASSUME Typed, [Next]_vars
             PROVE  Typed'
  OBVIOUS
<1> USE DEF Typed, TypeOK, WorkersHaveSessions, Workers, history
<1>0. \A s \in Sessions : session[s] \in Records
  OBVIOUS
<1>1. ASSUME NEW s \in Sessions, StarterStep(s)
      PROVE  Typed'
  <2>1. session' \in [Sessions -> Records]
    BY <1>1, RecordsTyped
  <2>2. PICK to \in StarterStates : starter' = [starter EXCEPT ![s] = to]
    BY <1>1 DEF StarterStep, ProcessTagRead, HandleCRTIdentification, CreateSession,
       DenyTagRead, PassTagRead, LockTerminal, SendKpoRequest, Wait, CrtGrants,
       CrtSetsStage, AfterStart, StarterStates
  <2>3. /\ asker' \in {asker, [asker EXCEPT ![s] = "asking"]}
        /\ granted' \in {granted, [granted EXCEPT ![s] = @ \cup {"crt"}]}
    BY <1>1 DEF StarterStep, ProcessTagRead, HandleCRTIdentification, CreateSession,
       DenyTagRead, PassTagRead, LockTerminal, SendKpoRequest, Wait, CrtGrants,
       CrtSetsStage
  <2>4. UNCHANGED <<worker, shown, answers, reports, passed, gates, logged>>
    BY <1>1 DEF StarterStep, ProcessTagRead, HandleCRTIdentification, CreateSession,
       DenyTagRead, PassTagRead, LockTerminal, SendKpoRequest, Wait, CrtGrants,
       CrtSetsStage
  <2> QED
    BY <2>1, <2>2, <2>3, <2>4 DEF AskerStates
<1>2. ASSUME NEW s \in Sessions, AskerStep(s) \/ WaitExpires(s)
      PROVE  Typed'
  <2>1. session' \in [Sessions -> Records]
    BY <1>2, RecordsTyped
  <2>2. asker' \in [Sessions -> AskerStates] /\ granted' \in [Sessions -> SUBSET {"1C", "autofix", "crt"}]
    BY <1>2 DEF AskerStep, Answered, AskingFails, GetUserCID, WaitExpires, SetKpoResult,
       AskerStates
  <2>3. UNCHANGED <<starter, worker, shown, answers, reports, passed, gates, logged>>
    BY <1>2 DEF AskerStep, Answered, AskingFails, GetUserCID, WaitExpires
  <2> QED
    BY <2>1, <2>2, <2>3
<1>4. ASSUME NEW s \in Sessions, MainEnters(s)
      PROVE  Typed'
  BY <1>4, EnterTyped DEF MainEnters
<1>5. ASSUME NEW k \in Keys, NEW s \in Sessions, NEW p \in {"true", "false"},
             ProcessPassEvent(k, s, p)
      PROVE  Typed'
  <2>1. /\ [session[s] EXCEPT !.first = p] \in Records
        /\ [session[s] EXCEPT !.second = p] \in Records
    BY <1>0, RecordUpdates
  <2>2. [pc |-> "entering", on |-> s, stage |-> "INIT"] \in WorkerStates
    BY DEF WorkerStates, Stages
  <2>3. session' \in [Sessions -> Records]
    <3>1. \/ session' = [session EXCEPT ![s].first = p]
          \/ session' = [session EXCEPT ![s].second = p]
      BY <1>5 DEF ProcessPassEvent
    <3> QED
      BY <1>0, <2>1, <3>1
  <2>4. worker' \in [Workers -> WorkerStates] /\ WorkersHaveSessions'
    BY <1>5, <2>2 DEF ProcessPassEvent, WorkerTo
  <2>5. passed' \in [Sessions -> BOOLEAN]
    BY <1>5 DEF ProcessPassEvent
  <2>6. UNCHANGED <<starter, asker, granted, shown, answers, reports, gates, logged>>
    BY <1>5 DEF ProcessPassEvent
  <2> QED
    BY <2>3, <2>4, <2>5, <2>6
<1>6. ASSUME NEW k \in Keys, ReaderEnters(k)
      PROVE  Typed'
  <2>1. worker[k].on \in Sessions
    BY <1>6 DEF ReaderEnters
  <2> QED
    BY <1>6, <2>1, EnterTyped DEF ReaderEnters
<1>7. ASSUME NEW w \in Workers, Handle(w)
      PROVE  Typed'
  <2> DEFINE s == worker[w].on
  <2>a. s \in Sessions /\ session[s] \in Records
    BY <1>7 DEF Handle, ProcessKpoResult, ProcessGateStage, SendLastAnswer, ReportPassed,
                WriteStage, LogSession, Complete
  <2>b. worker[w].stage \in Stages
    BY DEF WorkerStates
  <2>c. /\ Idle \in WorkerStates
        /\ \A stage \in Stages, pc \in {"sent", "logged"} :
             [pc |-> pc, on |-> s, stage |-> stage] \in WorkerStates
    BY <2>a DEF Idle, WorkerStates, Stages
  <2>d. CASE ProcessKpoResult(w)
    <3>1. PICK result \in {"0", "1"}, stage \in Stages :
            session' = [session EXCEPT ![s].result = result, ![s].stage = stage]
      BY <2>d DEF ProcessKpoResult, Stages
    <3>2. [session[s] EXCEPT !.result = result, !.stage = stage] \in Records
      BY <2>a DEF Records
    <3>3. session' \in [Sessions -> Records]
      BY <2>a, <3>1, <3>2
    <3> QED
      BY <2>a, <2>c, <2>d, <3>3 DEF ProcessKpoResult, Leave, Idle
  <2>e. CASE ProcessGateStage(w)
    <3>1. PICK result \in {"unset", "0", "1"}, stage \in Stages :
            session' = [session EXCEPT ![s].stage = stage, ![s].result = result]
      <4>1. PICK cam \in Cameras : session' = [session EXCEPT
              ![s].stage = NextGateStage(session[s], worker[w].stage, cam),
              ![s].result = IF worker[w].stage = "FIRST_PASSED" /\ session[s].first = "false"
                            THEN "0" ELSE @]
        BY <2>e DEF ProcessGateStage
      <4>2. NextGateStage(session[s], worker[w].stage, cam) \in Stages
        BY <2>a, RecordFields DEF NextGateStage, Stages
      <4>3. session[s].result \in {"unset", "0", "1"}
        BY <2>a, RecordFields
      <4> QED
        BY <4>1, <4>2, <4>3
    <3>2. [session[s] EXCEPT !.stage = stage, !.result = result] \in Records
      BY <2>a DEF Records
    <3>3. session' \in [Sessions -> Records]
      BY <2>a, <3>1, <3>2
    <3> QED
      BY <2>a, <2>c, <2>e, <3>3 DEF ProcessGateStage, Leave, Idle
  <2>f. CASE SendLastAnswer(w)
    BY <2>a, <2>c, <2>f DEF SendLastAnswer, WorkerTo, Stages
  <2>g. CASE ReportPassed(w)
    BY <2>a, <2>c, <2>g DEF ReportPassed, WorkerTo, Stages
  <2>h. CASE WriteStage(w)
    <3>1. [session[s] EXCEPT !.stage = worker[w].stage] \in Records
      BY <2>a, <2>b DEF Records
    <3> QED
      BY <2>a, <2>c, <2>h, <3>1 DEF WriteStage, Leave, Idle
  <2>i. CASE LogSession(w)
    BY <2>a, <2>c, <2>i DEF LogSession, WorkerTo, Stages
  <2>j. CASE Complete(w)
    <3>1. [session[s] EXCEPT !.completed = TRUE] \in Records
      BY <2>a DEF Records
    <3> QED
      BY <2>a, <2>c, <2>j, <3>1 DEF Complete, Leave, Idle
  <2> QED
    BY <1>7, <2>d, <2>e, <2>f, <2>g, <2>h, <2>i, <2>j DEF Handle
<1>8. ASSUME NEW s \in Sessions, CleanupExpired(s)
      PROVE  Typed'
  <2>1. [session[s] EXCEPT !.inMap = "removed"] \in Records
    BY <1>0, RecordUpdates
  <2>2. session' \in [Sessions -> Records]
    BY <1>8, <2>1 DEF CleanupExpired
  <2>3. UNCHANGED <<starter, asker, worker, history>>
    BY <1>8 DEF CleanupExpired
  <2> QED
    BY <2>2, <2>3
<1>9. CASE UNCHANGED vars
  BY <1>9 DEF vars
<1> QED
  BY <1>1, <1>2, <1>4, <1>5, <1>6, <1>7, <1>8, <1>9 DEF Next, WorkerStep

----------------------------------------------------------------------------
(* Nobody gets in without a YES.                                            *)

\* What a step may do with a YES: it comes with a grant, moves from the verdict
\* to the result and from the result to the terminal, to 1C and to the log.
YesMoves ==
  \A o \in Sessions :
    /\ granted[o] \subseteq granted'[o]
    /\ session'[o].kpo = "YES" => session[o].kpo = "YES" \/ granted'[o] # {}
    /\ session'[o].result = "1" => session[o].result = "1" \/ session[o].kpo = "YES"
    /\ shown'[o] = "allow" => shown[o] = "allow" \/ session[o].result = "1"
    /\ reports'[o] > 0 => reports[o] > 0 \/ session[o].result = "1"
    /\ logged'[o] = "YES" => logged[o] = "YES" \/ session[o].result = "1"

\* Entering a session replaces its verdict only by a YES it records.
LEMMA EnterMovesYes ==
  ASSUME Typed, NEW w \in Workers, NEW s \in Sessions, Enter(w, s)
  PROVE  \A o \in Sessions :
           /\ granted[o] \subseteq granted'[o]
           /\ session'[o].kpo = "YES" => session[o].kpo = "YES" \/ granted'[o] # {}
           /\ session'[o].result = session[o].result
<1> USE DEF Typed, TypeOK
<1>1. CASE UNCHANGED <<session, granted>>
  BY <1>1
<1>2. CASE ~UNCHANGED <<session, granted>>
  <2> DEFINE r == session[s]
             expired == r.wait = "due" /\ ~(r.kpo \in {"YES", "NO"})
             kpo == IF expired THEN Fixed ELSE r.kpo
  <2>1. PICK stage : session' = [session EXCEPT ![s].stage = stage, ![s].wait = "none",
                                               ![s].kpo = kpo]
    BY <1>2 DEF Enter, Leave
  <2>2. granted' = IF expired /\ Autofix THEN [granted EXCEPT ![s] = @ \cup {"autofix"}]
                                         ELSE granted
    BY <1>2 DEF Enter, Leave
  <2>3. \A o \in Sessions \ {s} : session'[o] = session[o] /\ granted'[o] = granted[o]
    BY <2>1, <2>2
  <2>4. session[s] \in Records
    OBVIOUS
  <2>5. session'[s].kpo = kpo /\ session'[s].result = session[s].result
    <3> HIDE DEF kpo
    <3> QED
      BY <2>1, <2>4 DEF Records
  <2>6. kpo = "YES" => r.kpo = "YES" \/ granted'[s] # {}
    BY <2>2 DEF Fixed
  <2>7. granted[s] \subseteq granted'[s]
    BY <2>2
  <2> QED
    BY <2>3, <2>5, <2>6, <2>7
<1> QED
  BY <1>1, <1>2

\* A verdict that comes from 1C, or instead of 1C's, is recorded if it is YES.
LEMMA VerdictMovesYes ==
  ASSUME Typed, NEW s \in Sessions, NEW v, NEW from, SetKpoResult(s, v, from)
  PROVE  \A o \in Sessions :
           /\ granted[o] \subseteq granted'[o]
           /\ session'[o].kpo = "YES" => session[o].kpo = "YES" \/ granted'[o] # {}
           /\ session'[o].result = session[o].result
<1> USE DEF Typed, TypeOK
<1>1. CASE ~Live(s)
  BY <1>1 DEF SetKpoResult
<1>2. CASE Live(s)
  <2>1. session' = [session EXCEPT ![s].kpo = v]
    BY <1>2 DEF SetKpoResult
  <2>2. granted' = IF v = "YES" THEN [granted EXCEPT ![s] = @ \cup {from}] ELSE granted
    BY <1>2 DEF SetKpoResult
  <2>3. session[s] \in Records
    OBVIOUS
  <2>4. session'[s].kpo = v /\ session'[s].result = session[s].result
    BY <2>1, <2>3 DEF Records
  <2>5. \A o \in Sessions \ {s} : session'[o] = session[o] /\ granted'[o] = granted[o]
    BY <2>1, <2>2
  <2>6. granted[s] \subseteq granted'[s] /\ (v = "YES" => granted'[s] # {})
    BY <2>2
  <2> QED
    BY <2>4, <2>5, <2>6
<1> QED
  BY <1>1, <1>2

\* No operation lets a YES appear anywhere else.
LEMMA StepMovesYes == Typed /\ [Next]_vars => YesMoves
<1> SUFFICES ASSUME Typed, [Next]_vars
             PROVE  YesMoves
  OBVIOUS
<1> USE DEF YesMoves, history
<1>0. /\ session \in [Sessions -> Records] /\ \A o \in Sessions : session[o] \in Records
      /\ granted \in [Sessions -> SUBSET {"1C", "autofix", "crt"}]
      /\ shown \in [Sessions -> {"none", "allow", "deny"}]
      /\ reports \in [Sessions -> Nat]
      /\ logged \in [Sessions -> {"none", "YES", "NO"}]
      /\ \A w \in Workers : worker[w].pc # "idle" => worker[w].on \in Sessions
  BY DEF Typed, TypeOK, WorkersHaveSessions
<1>1. ASSUME NEW s \in Sessions, StarterStep(s)
      PROVE  YesMoves
  <2>1. ASSUME NEW k \in Keys, NEW auth \in BOOLEAN, ProcessTagRead(s, k, auth)
        PROVE  YesMoves
    BY <1>0, <2>1 DEF ProcessTagRead, Records
  <2>2. ASSUME NEW k \in Keys, HandleCRTIdentification(s, k)
        PROVE  YesMoves
    BY <1>0, <2>2 DEF HandleCRTIdentification, Records
  <2>3. CASE CreateSession(s)
    BY <1>0, <2>3 DEF CreateSession, Records
  <2>4. CASE DenyTagRead(s)
    BY <1>0, <2>4 DEF DenyTagRead, Records
  <2>5. CASE PassTagRead(s) \/ LockTerminal(s)
    BY <1>0, <2>5 DEF PassTagRead, LockTerminal
  <2>6. CASE SendKpoRequest(s)
    BY <1>0, <2>6 DEF SendKpoRequest, Records
  <2>7. CASE Wait(s)
    BY <1>0, <2>7 DEF Wait, Records
  <2>8. CASE CrtGrants(s)
    BY <1>0, <2>8 DEF CrtGrants, Records
  <2>9. CASE CrtSetsStage(s)
    BY <1>0, <2>9 DEF CrtSetsStage, Records
  <2> QED
    BY <1>1, <2>1, <2>2, <2>3, <2>4, <2>5, <2>6, <2>7, <2>8, <2>9 DEF StarterStep
<1>2. ASSUME NEW s \in Sessions, AskerStep(s)
      PROVE  YesMoves
  <2>1. ASSUME NEW v \in {"YES", "NO"}, Answered(s, v)
        PROVE  YesMoves
    BY <1>0, <2>1, VerdictMovesYes DEF Answered
  <2>2. CASE AskingFails(s)
    BY <1>0, <2>2, VerdictMovesYes DEF AskingFails
  <2>3. ASSUME NEW found \in BOOLEAN, GetUserCID(s, found)
        PROVE  YesMoves
    BY <1>0, <2>3 DEF GetUserCID, Records
  <2> QED
    BY <1>2, <2>1, <2>2, <2>3 DEF AskerStep
<1>3. ASSUME NEW s \in Sessions, WaitExpires(s) \/ CleanupExpired(s)
      PROVE  YesMoves
  BY <1>0, <1>3 DEF WaitExpires, CleanupExpired, Records
<1>4. ASSUME NEW s \in Sessions, MainEnters(s)
      PROVE  YesMoves
  BY <1>4, EnterMovesYes DEF MainEnters, Workers
<1>5. ASSUME NEW k \in Keys, NEW s \in Sessions, NEW p \in {"true", "false"},
             ProcessPassEvent(k, s, p)
      PROVE  YesMoves
  BY <1>0, <1>5 DEF ProcessPassEvent, Records
<1>6. ASSUME NEW k \in Keys, ReaderEnters(k)
      PROVE  YesMoves
  BY <1>0, <1>6, EnterMovesYes DEF ReaderEnters, Workers
<1>7. ASSUME NEW w \in Workers, Handle(w)
      PROVE  YesMoves
  <2> DEFINE s == worker[w].on
  <2>0. s \in Sessions
    BY <1>0, <1>7 DEF Handle, ProcessKpoResult, ProcessGateStage, SendLastAnswer,
       ReportPassed, WriteStage, LogSession, Complete
  <2> HIDE DEF s
  <2>1. CASE ProcessKpoResult(w)
    BY <1>0, <2>0, <2>1 DEF ProcessKpoResult, Records, s
  <2>2. CASE ProcessGateStage(w)
    BY <1>0, <2>0, <2>2 DEF ProcessGateStage, Records, s
  <2>3. CASE SendLastAnswer(w)
    BY <1>0, <2>0, <2>3 DEF SendLastAnswer, s
  <2>4. CASE ReportPassed(w)
    BY <1>0, <2>0, <2>4 DEF ReportPassed, s
  <2>5. CASE WriteStage(w)
    BY <1>0, <2>0, <2>5 DEF WriteStage, Records, s
  <2>6. CASE LogSession(w)
    BY <1>0, <2>0, <2>6 DEF LogSession, s
  <2>7. CASE Complete(w)
    BY <1>0, <2>0, <2>7 DEF Complete, Records, s
  <2> QED
    BY <1>7, <2>1, <2>2, <2>3, <2>4, <2>5, <2>6, <2>7 DEF Handle
<1>8. CASE UNCHANGED vars
  BY <1>8 DEF vars
<1> QED
  BY <1>1, <1>2, <1>3, <1>4, <1>5, <1>6, <1>7, <1>8 DEF Next, WorkerStep

\* The verdict is YES only with a grant, and so is all that follows from it.
LEMMA StepGranted ==
  Typed /\ GrantTravels /\ AllowedOnlyIfGranted /\ YesMoves
    => GrantTravels' /\ AllowedOnlyIfGranted'
  BY DEF YesMoves, GrantTravels, AllowedOnlyIfGranted

----------------------------------------------------------------------------
(* No stage is handled without its data.                                    *)

\* Verdicts and results are replaced but never taken back.
DataKept ==
  \A o \in Sessions :
    /\ session[o].kpo # "absent" => session'[o].kpo # "absent"
    /\ session[o].result # "unset" => session'[o].result # "unset"

\* A worker enters a session whose stage has its data, and takes that stage.
LEMMA EnterKeepsData ==
  ASSUME Typed, SessionHasData, NEW w \in Workers, NEW s \in Sessions, Enter(w, s),
         UNCHANGED starter
  PROVE  /\ DataKept
         /\ SessionHasData'
         /\ \/ worker' = [worker EXCEPT ![w] = Idle]
            \/ worker' = [worker EXCEPT ![w] = [pc |-> "handling", on |-> s,
                                                stage |-> session'[s].stage]]
<1> USE DEF Typed, TypeOK
<1>1. CASE Leave(w) /\ UNCHANGED <<session, granted>>
  BY <1>1 DEF DataKept, SessionHasData, Leave
<1>2. CASE ~(Leave(w) /\ UNCHANGED <<session, granted>>)
  <2> DEFINE r == session[s]
             stage == IF r.wait = "none" THEN r.stage ELSE "KPO_RESULT"
             expired == r.wait = "due" /\ ~(r.kpo \in {"YES", "NO"})
             kpo == IF expired THEN Fixed ELSE r.kpo
  <2>1. /\ session' = [session EXCEPT ![s].stage = stage, ![s].wait = "none", ![s].kpo = kpo]
        /\ WorkerTo(w, "handling", s, stage)
    BY <1>2 DEF Enter
  <2>2. r \in Records
    OBVIOUS
  <2>3. /\ session'[s].stage = stage /\ session'[s].wait = "none"
        /\ session'[s].kpo = kpo /\ session'[s].result = r.result
    <3> HIDE DEF stage, kpo
    <3> QED
      BY <2>1, <2>2 DEF Records
  <2>4. \A o \in Sessions \ {s} : session'[o] = session[o]
    BY <2>1
  <2>5. /\ r.kpo # "absent" => kpo # "absent"
        /\ stage = "KPO_RESULT" => kpo # "absent"
        /\ starter[s] \in {"setWait", "setStage"} => kpo # "absent"
        /\ stage \notin {"INIT", "KPO_RESULT"} => r.result # "unset"
    BY DEF SessionHasData, Fixed
  <2> HIDE DEF r, stage, kpo, expired
  <2>6. DataKept
    BY <2>3, <2>4, <2>5 DEF DataKept, r
  <2>7. SessionHasData'
    BY <2>3, <2>4, <2>5 DEF SessionHasData, r
  <2> QED
    BY <2>1, <2>3, <2>6, <2>7 DEF WorkerTo
<1> QED
  BY <1>1, <1>2

\* A verdict, whoever gives it, is one.
LEMMA VerdictKeepsData ==
  ASSUME Typed, SessionHasData, NEW s \in Sessions, NEW v \in {"YES", "NO"}, NEW from,
         SetKpoResult(s, v, from), UNCHANGED starter
  PROVE  DataKept /\ SessionHasData'
<1> USE DEF Typed, TypeOK
<1>1. CASE session' = session
  BY <1>1 DEF DataKept, SessionHasData
<1>2. CASE session' = [session EXCEPT ![s].kpo = v]
  <2>1. session[s] \in Records
    OBVIOUS
  <2>2. /\ session'[s].kpo = v /\ session'[s].stage = session[s].stage
        /\ session'[s].wait = session[s].wait /\ session'[s].result = session[s].result
    BY <1>2, <2>1 DEF Records
  <2>3. \A o \in Sessions \ {s} : session'[o] = session[o]
    BY <1>2
  <2> QED
    BY <2>2, <2>3 DEF DataKept, SessionHasData
<1> QED
  BY <1>1, <1>2 DEF SetKpoResult

\* Every operation leaves each session with the data of its stage.
LEMMA StepSessionData ==
  Typed /\ SessionHasData /\ WorkerHasData /\ [Next]_vars => DataKept /\ SessionHasData'
<1> SUFFICES ASSUME Typed, SessionHasData, WorkerHasData, [Next]_vars
             PROVE  DataKept /\ SessionHasData'
  OBVIOUS
<1> USE DEF history, DataKept, SessionHasData
<1>0. /\ session \in [Sessions -> Records] /\ \A o \in Sessions : session[o] \in Records
      /\ starter \in [Sessions -> StarterStates]
      /\ \A w \in Workers : worker[w].pc # "idle" => worker[w].on \in Sessions
  BY DEF Typed, TypeOK, WorkersHaveSessions
<1>1. ASSUME NEW s \in Sessions, StarterStep(s)
      PROVE  DataKept /\ SessionHasData'
  <2>1. ASSUME NEW k \in Keys, NEW auth \in BOOLEAN, ProcessTagRead(s, k, auth)
        PROVE  DataKept /\ SessionHasData'
    BY <1>0, <2>1 DEF ProcessTagRead, Records
  <2>2. ASSUME NEW k \in Keys, HandleCRTIdentification(s, k)
        PROVE  DataKept /\ SessionHasData'
    BY <1>0, <2>2 DEF HandleCRTIdentification, Records
  <2>3. CASE CreateSession(s)
    BY <1>0, <2>3 DEF CreateSession, Records
  <2>4. CASE DenyTagRead(s)
    BY <1>0, <2>4 DEF DenyTagRead, AfterStart, Records
  <2>5. CASE PassTagRead(s) \/ LockTerminal(s)
    BY <1>0, <2>5 DEF PassTagRead, LockTerminal
  <2>6. CASE SendKpoRequest(s)
    BY <1>0, <2>6 DEF SendKpoRequest, Records
  <2>7. CASE Wait(s)
    BY <1>0, <2>7 DEF Wait, AfterStart, Records
  <2>8. CASE CrtGrants(s)
    BY <1>0, <2>8 DEF CrtGrants, Records
  <2>9. CASE CrtSetsStage(s)
    BY <1>0, <2>9 DEF CrtSetsStage, Records
  <2> QED
    BY <1>1, <2>1, <2>2, <2>3, <2>4, <2>5, <2>6, <2>7, <2>8, <2>9 DEF StarterStep
<1>2. ASSUME NEW s \in Sessions, AskerStep(s)
      PROVE  DataKept /\ SessionHasData'
  <2>1. ASSUME NEW v \in {"YES", "NO"}, Answered(s, v)
        PROVE  DataKept /\ SessionHasData'
    BY <2>1, VerdictKeepsData DEF Answered
  <2>2. CASE AskingFails(s)
    BY <2>2, VerdictKeepsData DEF AskingFails, Fixed
  <2>3. ASSUME NEW found \in BOOLEAN, GetUserCID(s, found)
        PROVE  DataKept /\ SessionHasData'
    BY <1>0, <2>3 DEF GetUserCID, Records
  <2> QED
    BY <1>2, <2>1, <2>2, <2>3 DEF AskerStep
<1>3. ASSUME NEW s \in Sessions, WaitExpires(s) \/ CleanupExpired(s)
      PROVE  DataKept /\ SessionHasData'
  BY <1>0, <1>3 DEF WaitExpires, CleanupExpired, Records
<1>4. ASSUME NEW s \in Sessions, MainEnters(s)
      PROVE  DataKept /\ SessionHasData'
  BY <1>4, EnterKeepsData DEF MainEnters, Workers
<1>5. ASSUME NEW k \in Keys, NEW s \in Sessions, NEW p \in {"true", "false"},
             ProcessPassEvent(k, s, p)
      PROVE  DataKept /\ SessionHasData'
  BY <1>0, <1>5 DEF ProcessPassEvent, Records
<1>6. ASSUME NEW k \in Keys, ReaderEnters(k)
      PROVE  DataKept /\ SessionHasData'
  BY <1>0, <1>6, EnterKeepsData DEF ReaderEnters, Workers
<1>7. ASSUME NEW w \in Workers, Handle(w)
      PROVE  DataKept /\ SessionHasData'
  <2> DEFINE s == worker[w].on
  <2>0. s \in Sessions
    BY <1>0, <1>7 DEF Handle, ProcessKpoResult, ProcessGateStage, SendLastAnswer,
       ReportPassed, WriteStage, LogSession, Complete
  <2> HIDE DEF s
  <2>1. CASE ProcessKpoResult(w)
    BY <1>0, <2>0, <2>1 DEF ProcessKpoResult, Records, s
  <2>2. CASE ProcessGateStage(w)
    <3>1. PICK cam \in Cameras : session' = [session EXCEPT
            ![s].stage = NextGateStage(session[s], worker[w].stage, cam),
            ![s].result = IF worker[w].stage = "FIRST_PASSED" /\ session[s].first = "false"
                          THEN "0" ELSE @]
      BY <2>2 DEF ProcessGateStage, s
    <3>2. /\ session'[s].stage = NextGateStage(session[s], worker[w].stage, cam)
          /\ session'[s].kpo = session[s].kpo /\ session'[s].wait = session[s].wait
          /\ session'[s].result \in {"0", session[s].result}
      BY <1>0, <2>0, <3>1 DEF Records
    <3>3. \A o \in Sessions \ {s} : session'[o] = session[o]
      BY <1>0, <3>1
    <3>4. \/ session'[s].stage = session[s].stage
          \/ /\ session'[s].stage # "KPO_RESULT"
             /\ worker[w].stage \notin {"INIT", "KPO_RESULT"}
      BY <3>2 DEF NextGateStage
    <3>5. worker[w].stage \notin {"INIT", "KPO_RESULT"} => session[s].result # "unset"
      BY <2>2 DEF WorkerHasData, ProcessGateStage, s
    <3> QED
      BY <2>0, <2>2, <3>2, <3>3, <3>4, <3>5 DEF ProcessGateStage
  <2>3. CASE SendLastAnswer(w) \/ ReportPassed(w) \/ LogSession(w)
    BY <2>3 DEF SendLastAnswer, ReportPassed, LogSession
  <2>4. CASE WriteStage(w)
    <3>1. worker[w].stage \in {"PASSED", "DONE"} /\ session[s].result # "unset"
      BY <2>4 DEF WriteStage, WorkerHasData, s
    <3> QED
      BY <1>0, <2>0, <2>4, <3>1 DEF WriteStage, Records, s
  <2>5. CASE Complete(w)
    BY <1>0, <2>0, <2>5 DEF Complete, Records, s
  <2> QED
    BY <1>7, <2>1, <2>2, <2>3, <2>4, <2>5 DEF Handle
<1>8. CASE UNCHANGED vars
  BY <1>8 DEF vars
<1> QED
  BY <1>1, <1>2, <1>3, <1>4, <1>5, <1>6, <1>7, <1>8 DEF Next, WorkerStep

\* ... and each worker with the data of the stage it handles.
LEMMA StepWorkerData ==
  Typed /\ SessionHasData /\ WorkerHasData /\ [Next]_vars => WorkerHasData'
<1> SUFFICES ASSUME Typed, SessionHasData, WorkerHasData, [Next]_vars
             PROVE  WorkerHasData'
  OBVIOUS
<1>0. DataKept /\ SessionHasData'
  BY StepSessionData
<1> USE DEF WorkerHasData, DataKept, history
<1>a. /\ worker \in [Workers -> WorkerStates]
      /\ \A w \in Workers : worker[w].pc # "idle" => worker[w].on \in Sessions
  BY DEF Typed, TypeOK, WorkersHaveSessions
<1>b. ASSUME UNCHANGED worker
      PROVE  WorkerHasData'
  BY <1>0, <1>a, <1>b
<1>c. ASSUME NEW w \in Workers, Leave(w)
      PROVE  WorkerHasData'
  BY <1>0, <1>a, <1>c DEF Leave, Idle
<1>d. ASSUME NEW w \in Workers, NEW s \in Sessions, Enter(w, s), UNCHANGED starter
      PROVE  WorkerHasData'
  <2>1. CASE worker' = [worker EXCEPT ![w] = Idle]
    BY <1>c, <2>1 DEF Leave
  <2>2. CASE worker' = [worker EXCEPT ![w] = [pc |-> "handling", on |-> s,
                                              stage |-> session'[s].stage]]
    <3> DEFINE stage == session'[s].stage
    <3>1. /\ stage = "KPO_RESULT" => session'[s].kpo # "absent"
          /\ stage \notin {"INIT", "KPO_RESULT"} => session'[s].result # "unset"
      BY <1>0 DEF SessionHasData
    <3>2. worker' = [worker EXCEPT ![w] = [pc |-> "handling", on |-> s, stage |-> stage]]
      BY <2>2
    <3> HIDE DEF stage
    <3> QED
      BY <1>0, <1>a, <3>1, <3>2
  <2> QED
    BY <1>d, <2>1, <2>2, EnterKeepsData
<1>1. ASSUME NEW s \in Sessions, StarterStep(s) \/ AskerStep(s) \/ WaitExpires(s) \/ CleanupExpired(s)
      PROVE  UNCHANGED worker
  BY <1>1 DEF StarterStep, ProcessTagRead, HandleCRTIdentification, CreateSession,
     DenyTagRead, PassTagRead, LockTerminal, SendKpoRequest, Wait, CrtGrants, CrtSetsStage,
     AskerStep, Answered, AskingFails, GetUserCID, WaitExpires, CleanupExpired
<1>2. ASSUME NEW s \in Sessions, MainEnters(s)
      PROVE  WorkerHasData'
  BY <1>2, <1>d DEF MainEnters, Workers
<1>3. ASSUME NEW k \in Keys, NEW s \in Sessions, NEW p \in {"true", "false"},
             ProcessPassEvent(k, s, p)
      PROVE  WorkerHasData'
  BY <1>0, <1>a, <1>3 DEF ProcessPassEvent, WorkerTo, Workers
<1>4. ASSUME NEW k \in Keys, ReaderEnters(k)
      PROVE  WorkerHasData'
  BY <1>4, <1>a, <1>d DEF ReaderEnters, Workers
<1>5. ASSUME NEW w \in Workers, Handle(w)
      PROVE  WorkerHasData'
  <2>1. CASE ProcessKpoResult(w) \/ ProcessGateStage(w) \/ WriteStage(w) \/ Complete(w)
    BY <2>1, <1>c DEF ProcessKpoResult, ProcessGateStage, WriteStage, Complete
  <2>2. CASE SendLastAnswer(w)
    BY <1>0, <1>a, <2>2 DEF SendLastAnswer, WorkerTo
  <2>3. CASE ReportPassed(w)
    BY <1>0, <1>a, <2>3 DEF ReportPassed, WorkerTo
  <2>4. CASE LogSession(w)
    BY <1>0, <1>a, <2>4 DEF LogSession, WorkerTo
  <2> QED
    BY <1>5, <2>1, <2>2, <2>3, <2>4 DEF Handle
<1>6. CASE UNCHANGED vars
  BY <1>6, <1>b DEF vars
<1> QED
  BY <1>b, <1>1, <1>2, <1>3, <1>4, <1>5, <1>6 DEF Next, WorkerStep

----------------------------------------------------------------------------
(* The answer, the log and the end.                                         *)

\* A step on another session, or by a terminal's reader, leaves the data o is
\* answered from alone, and the main loop with it.
Untouched(o) ==
  /\ session'[o] = session[o] /\ starter'[o] = starter[o]
  /\ shown'[o] = shown[o] /\ logged'[o] = logged[o]
  /\ answers'[o] = answers[o] /\ reports'[o] = reports[o]
  /\ gates[o] => gates'[o]
  /\ \A w \in Workers : Busy(w, o)' => Busy(w, o)
  /\ Busy(MainLoop, o) => worker'[MainLoop] = worker[MainLoop]

\* Every operation is one on a session and leaves the others alone.
LEMMA OthersUntouched ==
  ASSUME Typed, NEW s \in Sessions, NEW o \in Sessions \ {s},
         \/ StarterStep(s) \/ AskerStep(s) \/ WaitExpires(s) \/ CleanupExpired(s)
         \/ MainEnters(s)
         \/ \E k \in Keys, p \in {"true", "false"} : ProcessPassEvent(k, s, p)
         \/ \E k \in Keys : worker[k].on = s /\ ReaderEnters(k)
         \/ \E w \in Workers : worker[w].on = s /\ Handle(w)
  PROVE  Untouched(o)
<1> USE DEF Untouched, history, Busy, Workers
<1>0. /\ session \in [Sessions -> Records] /\ starter \in [Sessions -> StarterStates]
      /\ worker \in [Workers -> WorkerStates]
      /\ shown \in [Sessions -> {"none", "allow", "deny"}]
      /\ answers \in [Sessions -> Nat] /\ reports \in [Sessions -> Nat]
      /\ gates \in [Sessions -> BOOLEAN]
      /\ logged \in [Sessions -> {"none", "YES", "NO"}]
  BY DEF Typed, TypeOK
<1>1. CASE StarterStep(s)
  <2>1. /\ session'[o] = session[o]
        /\ starter'[o] = starter[o]
    <3>1. ASSUME NEW k \in Keys, NEW auth \in BOOLEAN, ProcessTagRead(s, k, auth)
          PROVE  session'[o] = session[o] /\ starter'[o] = starter[o]
      BY <1>0, <3>1 DEF ProcessTagRead
    <3>2. ASSUME NEW k \in Keys, HandleCRTIdentification(s, k)
          PROVE  session'[o] = session[o] /\ starter'[o] = starter[o]
      BY <1>0, <3>2 DEF HandleCRTIdentification
    <3>3. CASE CreateSession(s) \/ DenyTagRead(s) \/ PassTagRead(s) \/ LockTerminal(s)
      BY <1>0, <3>3 DEF CreateSession, DenyTagRead, PassTagRead, LockTerminal
    <3>4. CASE SendKpoRequest(s) \/ Wait(s) \/ CrtGrants(s) \/ CrtSetsStage(s)
      BY <1>0, <3>4 DEF SendKpoRequest, Wait, CrtGrants, CrtSetsStage
    <3> QED
      BY <1>1, <3>1, <3>2, <3>3, <3>4 DEF StarterStep
  <2>2. UNCHANGED <<worker, shown, answers, reports, gates, logged>>
    BY <1>1 DEF StarterStep, ProcessTagRead, HandleCRTIdentification, CreateSession,
       DenyTagRead, PassTagRead, LockTerminal, SendKpoRequest, Wait, CrtGrants, CrtSetsStage
  <2> QED
    BY <2>1, <2>2
<1>2. CASE AskerStep(s) \/ WaitExpires(s) \/ CleanupExpired(s)
  BY <1>0, <1>2 DEF AskerStep, Answered, AskingFails, GetUserCID, SetKpoResult, WaitExpires,
     CleanupExpired
<1>3. ASSUME NEW w \in Workers, Enter(w, s), w = MainLoop => worker[w].pc = "idle",
             UNCHANGED <<starter, asker, shown, answers, reports, passed, gates, logged>>
      PROVE  Untouched(o)
  BY <1>0, <1>3 DEF Enter, WorkerTo, Leave, Idle
<1>4. CASE MainEnters(s)
  BY <1>3, <1>4 DEF MainEnters
<1>5. ASSUME NEW k \in Keys, NEW p \in {"true", "false"}, ProcessPassEvent(k, s, p)
      PROVE  Untouched(o)
  BY <1>0, <1>5 DEF ProcessPassEvent, WorkerTo
<1>6. ASSUME NEW k \in Keys, worker[k].on = s, ReaderEnters(k)
      PROVE  Untouched(o)
  BY <1>3, <1>6, ConstantsAreDistinct DEF ReaderEnters
<1>7. ASSUME NEW w \in Workers, worker[w].on = s, Handle(w)
      PROVE  Untouched(o)
  <2>1. CASE ProcessKpoResult(w) \/ ProcessGateStage(w) \/ WriteStage(w) \/ Complete(w)
    <3>1. session'[o] = session[o] /\ (gates[o] => gates'[o])
      BY <1>0, <1>7, <2>1 DEF ProcessKpoResult, ProcessGateStage, WriteStage, Complete
    <3>2. UNCHANGED <<starter, shown, answers, reports, logged>> /\ Leave(w)
      BY <2>1 DEF ProcessKpoResult, ProcessGateStage, WriteStage, Complete
    <3> QED
      BY <1>0, <1>7, <3>1, <3>2 DEF Leave, Idle
  <2>2. CASE SendLastAnswer(w) \/ ReportPassed(w) \/ LogSession(w)
    BY <1>0, <1>7, <2>2 DEF SendLastAnswer, ReportPassed, LogSession, WorkerTo
  <2> QED
    BY <1>7, <2>1, <2>2 DEF Handle
<1> QED
  BY <1>1, <1>2, <1>4, <1>5, <1>6, <1>7

\* What is left alone stays answered as it was.
LEMMA UntouchedAnswer ==
  ASSUME NEW o \in Sessions, ~gates[o], AnswerStaysOf(o), Untouched(o)
  PROVE  AnswerStaysOf(o)'
  BY DEF AnswerStaysOf, AnswerIsResult, Untouched, Busy, Workers

\* Nothing that starts a session, asks 1C about it or lets time pass completes it.
LEMMA StartCompletesNothing ==
  ASSUME Typed, NEW s \in Sessions,
         StarterStep(s) \/ AskerStep(s) \/ WaitExpires(s) \/ CleanupExpired(s)
  PROVE  session'[s].completed = session[s].completed
<1>0. /\ session \in [Sessions -> Records] /\ session[s] \in Records
      /\ starter \in [Sessions -> StarterStates]
  BY DEF Typed, TypeOK
<1>1. CASE StarterStep(s)
  <2>1. ASSUME NEW k \in Keys, NEW auth \in BOOLEAN, ProcessTagRead(s, k, auth)
        PROVE  session'[s].completed = session[s].completed
    BY <1>0, <2>1 DEF ProcessTagRead, Records
  <2>2. ASSUME NEW k \in Keys, HandleCRTIdentification(s, k)
        PROVE  session'[s].completed = session[s].completed
    BY <1>0, <2>2 DEF HandleCRTIdentification, Records
  <2>3. CASE CreateSession(s) \/ PassTagRead(s) \/ LockTerminal(s) \/ Wait(s)
    BY <1>0, <2>3 DEF CreateSession, PassTagRead, LockTerminal, Wait, Records
  <2>4. CASE DenyTagRead(s)
    BY <1>0, <2>4 DEF DenyTagRead, Records
  <2>5. CASE SendKpoRequest(s)
    BY <1>0, <2>5 DEF SendKpoRequest, Records
  <2>6. CASE CrtGrants(s) \/ CrtSetsStage(s)
    BY <1>0, <2>6 DEF CrtGrants, CrtSetsStage, Records
  <2> QED
    BY <1>1, <2>1, <2>2, <2>3, <2>4, <2>5, <2>6 DEF StarterStep
<1>2. CASE AskerStep(s) \/ WaitExpires(s) \/ CleanupExpired(s)
  BY <1>0, <1>2 DEF AskerStep, Answered, AskingFails, GetUserCID, SetKpoResult,
     WaitExpires, CleanupExpired, Records
<1> QED
  BY <1>1, <1>2

\* What starts a session, asks 1C about it or lets time pass keeps it answered
\* as it was.
LEMMA StartAnswer ==
  ASSUME Typed, NEW s \in Sessions, ~gates[s], AnswerStaysOf(s),
         StarterStep(s) \/ AskerStep(s) \/ WaitExpires(s) \/ CleanupExpired(s)
  PROVE  /\ AnswerStaysOf(s)'
         /\ UNCHANGED <<worker, shown, answers, reports, gates, logged>>
         /\ session[s].completed => session'[s].completed
<1> USE DEF history
<1>0. /\ session \in [Sessions -> Records] /\ session[s] \in Records
      /\ starter \in [Sessions -> StarterStates]
  BY DEF Typed, TypeOK
<1>1. UNCHANGED <<worker, shown, answers, reports, gates, logged>>
  BY DEF StarterStep, ProcessTagRead, HandleCRTIdentification, CreateSession,
     DenyTagRead, PassTagRead, LockTerminal, SendKpoRequest, Wait, CrtGrants, CrtSetsStage,
     AskerStep, Answered, AskingFails, GetUserCID, WaitExpires, CleanupExpired
<1>2. session'[s].completed = session[s].completed
  BY StartCompletesNothing
<1>3. CASE /\ session'[s].stage = session[s].stage /\ session'[s].wait = session[s].wait
           /\ session'[s].result = session[s].result
           /\ starter'[s] = starter[s] \/ starter'[s] \notin {"none", "accepted", "created"}
              \/ starter[s] \in {"none", "accepted"}
  BY <1>1, <1>2, <1>3 DEF AnswerStaysOf, AnswerIsResult, Busy
<1>4. CASE /\ session'[s].stage \in {"KPO_RESULT", "LAST_ANSWER"}
           /\ session'[s].result = session[s].result
           /\ starter'[s] \notin {"none", "accepted", "created"}
  BY <1>1, <1>2, <1>4 DEF AnswerStaysOf, AnswerIsResult, Busy, Plain
<1>5. CASE StarterStep(s)
  <2>1. CASE \/ \E k \in Keys, auth \in BOOLEAN : ProcessTagRead(s, k, auth)
             \/ \E k \in Keys : HandleCRTIdentification(s, k)
             \/ CreateSession(s)
    <3>1. ASSUME NEW k \in Keys, NEW auth \in BOOLEAN, ProcessTagRead(s, k, auth)
          PROVE  AnswerStaysOf(s)'
      BY <1>0, <1>3, <3>1 DEF ProcessTagRead, Records
    <3>2. ASSUME NEW k \in Keys, HandleCRTIdentification(s, k)
          PROVE  AnswerStaysOf(s)'
      BY <1>0, <1>3, <3>2 DEF HandleCRTIdentification, Records
    <3>3. CASE CreateSession(s)
      BY <1>0, <1>3, <3>3 DEF CreateSession, Records
    <3> QED
      BY <1>1, <1>2, <2>1, <3>1, <3>2, <3>3
  <2>2. CASE DenyTagRead(s)
    <3>1. /\ session'[s].stage = "LAST_ANSWER" /\ starter'[s] \in {"setKpo", "done"}
          /\ session'[s].result = "0"
      BY <1>0, <2>2 DEF DenyTagRead, AfterStart, Records
    <3>2. starter[s] = "created"
      BY <2>2 DEF DenyTagRead
    <3> QED
      BY <1>1, <1>2, <3>1, <3>2 DEF AnswerStaysOf, AnswerIsResult, Busy, Plain
  <2>3. CASE PassTagRead(s) \/ LockTerminal(s)
    BY <1>0, <1>3, <2>3 DEF PassTagRead, LockTerminal
  <2>4. CASE SendKpoRequest(s) \/ CrtSetsStage(s)
    BY <1>0, <1>4, <2>4 DEF SendKpoRequest, CrtSetsStage, Records
  <2>5. CASE Wait(s)
    <3>1. /\ session'[s].stage = session[s].stage /\ session'[s].result = session[s].result
          /\ starter'[s] \in {"setKpo", "done"}
      BY <1>0, <2>5 DEF Wait, AfterStart, Records
    <3> QED
      BY <1>1, <1>2, <3>1 DEF AnswerStaysOf, AnswerIsResult, Busy
  <2>6. CASE CrtGrants(s)
    BY <1>0, <1>3, <2>6 DEF CrtGrants, Records
  <2> QED
    BY <1>5, <2>1, <2>2, <2>3, <2>4, <2>5, <2>6 DEF StarterStep
<1>6. CASE AskerStep(s) \/ CleanupExpired(s)
  BY <1>0, <1>3, <1>6 DEF AskerStep, Answered, AskingFails, GetUserCID, SetKpoResult,
     CleanupExpired, Records
<1>7. CASE WaitExpires(s)
  <2>1. /\ session'[s].stage = session[s].stage /\ session'[s].result = session[s].result
        /\ starter'[s] = starter[s] /\ session[s].wait = "pending"
    BY <1>0, <1>7 DEF WaitExpires, Records
  <2> QED
    BY <1>1, <1>2, <2>1 DEF AnswerStaysOf, AnswerIsResult, Busy
<1> QED
  BY <1>1, <1>2, <1>5, <1>6, <1>7

\* What the main loop does with a session keeps it answered as it was, or
\* answers it, or logs the answer.
LEMMA MainAnswer ==
  ASSUME Typed, NEW s \in Sessions, ~gates'[s], ~gates[s], AnswerStaysOf(s),
         MainEnters(s) \/ (worker[MainLoop].on = s /\ Handle(MainLoop))
  PROVE  /\ AnswerStaysOf(s)'
         /\ ~session[s].completed
<1> USE DEF history
<1>0. /\ session \in [Sessions -> Records] /\ session[s] \in Records
      /\ worker \in [Workers -> WorkerStates] /\ MainLoop \in Workers
      /\ shown \in [Sessions -> {"none", "allow", "deny"}]
      /\ gates \in [Sessions -> BOOLEAN]
      /\ logged \in [Sessions -> {"none", "YES", "NO"}]
  BY DEF Typed, TypeOK, Workers
<1>1. CASE MainEnters(s)
  <2>1. CASE Leave(MainLoop) /\ UNCHANGED session
    BY <1>0, <1>1, <2>1 DEF MainEnters, Leave, Idle, AnswerStaysOf, AnswerIsResult, Busy
  <2>2. CASE ~(Leave(MainLoop) /\ UNCHANGED session)
    <3> DEFINE r == session[s]
               stage == IF r.wait = "none" THEN r.stage ELSE "KPO_RESULT"
               kpo == IF r.wait = "due" /\ ~(r.kpo \in {"YES", "NO"}) THEN Fixed ELSE r.kpo
    <3>1. /\ session' = [session EXCEPT ![s].stage = stage, ![s].wait = "none", ![s].kpo = kpo]
          /\ WorkerTo(MainLoop, "handling", s, stage)
      BY <1>1, <2>2 DEF MainEnters, Enter
    <3>2. /\ session'[s].stage = stage /\ session'[s].wait = "none"
          /\ session'[s].result = r.result /\ session'[s].completed = r.completed
      <4> HIDE DEF stage, kpo
      <4> QED
        BY <1>0, <3>1 DEF Records
    <3>3. worker'[MainLoop] = [pc |-> "handling", on |-> s, stage |-> stage]
      BY <1>0, <3>1 DEF WorkerTo
    <3>4. /\ ~r.completed /\ worker[MainLoop].pc = "idle"
          /\ UNCHANGED <<starter, shown, gates, logged>>
      BY <1>1 DEF MainEnters
    <3>5. stage \in {r.stage, "KPO_RESULT"} /\ (r.wait = "none" => stage = r.stage)
      OBVIOUS
    <3> HIDE DEF r, stage, kpo
    <3> QED
      BY <3>2, <3>3, <3>4, <3>5 DEF AnswerStaysOf, AnswerIsResult, Busy, Plain, r
  <2> QED
    BY <1>1, <2>1, <2>2 DEF MainEnters
<1>2. CASE worker[MainLoop].on = s /\ Handle(MainLoop)
  <2>0. Busy(MainLoop, s) /\ ~session[s].completed
    BY <1>2 DEF Handle, ProcessKpoResult, ProcessGateStage, SendLastAnswer,
       ReportPassed, WriteStage, LogSession, Complete, Busy, AnswerStaysOf
  <2>1. CASE ProcessKpoResult(MainLoop)
    <3>1. /\ session'[s].stage \in {"LAST_ANSWER", "OPEN_FIRST"}
          /\ session'[s].stage = "OPEN_FIRST" => gates'[s]
          /\ session'[s].completed = session[s].completed
          /\ worker'[MainLoop].pc = "idle"
          /\ worker[MainLoop].stage = "KPO_RESULT" /\ worker[MainLoop].pc = "handling"
      BY <1>0, <1>2, <2>1 DEF ProcessKpoResult, Leave, Idle, Records
    <3>2. UNCHANGED <<starter, shown, logged>>
      BY <2>1 DEF ProcessKpoResult
    <3> QED
      BY <2>0, <3>1, <3>2 DEF AnswerStaysOf, AnswerIsResult, Busy, Plain
  <2>2. CASE ProcessGateStage(MainLoop)
    <3>1. worker[MainLoop].stage = "INIT" /\ worker[MainLoop].pc = "handling"
      BY <2>0, <2>2 DEF ProcessGateStage, AnswerStaysOf, Plain
    <3>2. PICK cam \in Cameras : session' = [session EXCEPT
            ![s].stage = NextGateStage(session[s], "INIT", cam),
            ![s].result = IF FALSE THEN "0" ELSE @]
      BY <1>2, <2>2, <3>1 DEF ProcessGateStage
    <3>3. /\ session'[s].stage = NextGateStage(session[s], "INIT", cam)
          /\ session'[s].result = session[s].result
          /\ session'[s].wait = session[s].wait
          /\ session'[s].completed = session[s].completed
      BY <1>0, <3>2 DEF Records
    <3>4. session'[s].stage = session[s].stage
      BY <3>3 DEF NextGateStage
    <3>5. worker'[MainLoop].pc = "idle" /\ UNCHANGED <<starter, shown, logged>>
      BY <1>0, <2>2 DEF ProcessGateStage, Leave, Idle
    <3> QED
      BY <2>0, <3>1, <3>3, <3>4, <3>5 DEF AnswerStaysOf, AnswerIsResult, Busy
  <2>3. CASE SendLastAnswer(MainLoop)
    <3>1. /\ worker[MainLoop].stage = "LAST_ANSWER" /\ worker[MainLoop].pc = "handling"
          /\ \E stage \in {"PASSED", "DONE"} :
               worker'[MainLoop] = [pc |-> "sent", on |-> s, stage |-> stage]
          /\ shown'[s] = "allow" <=> session[s].result = "1"
          /\ UNCHANGED <<session, starter, logged>>
      BY <1>0, <1>2, <2>3 DEF SendLastAnswer, WorkerTo
    <3>2. logged[s] = "none" /\ starter[s] \notin {"none", "accepted", "created"}
      BY <2>0, <3>1 DEF AnswerStaysOf
    <3> QED
      BY <2>0, <3>1, <3>2 DEF AnswerStaysOf, AnswerIsResult, Busy, Plain
  <2>4. CASE ReportPassed(MainLoop)
    <3>1. /\ worker[MainLoop].stage = "PASSED" /\ worker[MainLoop].pc = "handling"
          /\ worker'[MainLoop] = [pc |-> "sent", on |-> s, stage |-> "DONE"]
          /\ UNCHANGED <<session, starter, shown, logged>>
      BY <1>0, <1>2, <2>4 DEF ReportPassed, WorkerTo
    <3> QED
      BY <2>0, <3>1 DEF AnswerStaysOf, AnswerIsResult, Busy, Plain
  <2>5. CASE WriteStage(MainLoop)
    <3>1. /\ session'[s].stage = worker[MainLoop].stage
          /\ session'[s].result = session[s].result
          /\ session'[s].wait = session[s].wait
          /\ session'[s].completed = session[s].completed
          /\ worker[MainLoop].pc = "sent" /\ worker'[MainLoop].pc = "idle"
          /\ UNCHANGED <<starter, shown, logged>>
      BY <1>0, <1>2, <2>5 DEF WriteStage, Leave, Idle, Records
    <3> QED
      BY <2>0, <3>1 DEF AnswerStaysOf, AnswerIsResult, Busy
  <2>6. CASE LogSession(MainLoop)
    <3>1. /\ worker[MainLoop].stage = "DONE" /\ worker[MainLoop].pc = "handling"
          /\ worker'[MainLoop] = [pc |-> "logged", on |-> s, stage |-> "DONE"]
          /\ logged'[s] = IF session[s].result = "1" THEN "YES" ELSE "NO"
          /\ UNCHANGED <<session, starter, shown>>
      BY <1>0, <1>2, <2>6 DEF LogSession, WorkerTo
    <3> QED
      BY <2>0, <3>1 DEF AnswerStaysOf, AnswerIsResult, Busy, Plain
  <2>7. CASE Complete(MainLoop)
    <3>1. /\ session'[s].stage = session[s].stage
          /\ session'[s].result = session[s].result
          /\ session'[s].wait = session[s].wait
          /\ session'[s].completed
          /\ worker'[MainLoop].pc = "idle"
          /\ UNCHANGED <<starter, shown, logged>>
      BY <1>0, <1>2, <2>7 DEF Complete, Leave, Idle, Records
    <3> QED
      BY <2>0, <3>1 DEF AnswerStaysOf, AnswerIsResult, Busy
  <2> QED
    BY <1>2, <2>0, <2>1, <2>2, <2>3, <2>4, <2>5, <2>6, <2>7 DEF Handle
<1> QED
  BY <1>1, <1>2

\* A completed session is left alone.
Settled ==
  \A s \in Sessions : session[s].completed /\ ~gates[s] =>
    /\ session'[s].completed
    /\ answers'[s] = answers[s] /\ reports'[s] = reports[s] /\ logged'[s] = logged[s]

\* Every operation leaves the readers to the sessions in the gates, and outside
\* the gates keeps each session answered as it was and a completed one alone.
LEMMA StepAnswer ==
  Typed /\ OnlyMainLoop /\ AnswerStays /\ [Next]_vars
    => OnlyMainLoop' /\ AnswerStays' /\ Settled
<1> SUFFICES ASSUME Typed, OnlyMainLoop, AnswerStays, [Next]_vars
             PROVE  OnlyMainLoop' /\ AnswerStays' /\ Settled
  OBVIOUS
<1> DEFINE Kept(o) == /\ \A k \in Keys : Busy(k, o)' => gates'[o]
                      /\ ~gates'[o] => AnswerStaysOf(o)'
                      /\ session[o].completed /\ ~gates[o] =>
                           /\ session'[o].completed
                           /\ answers'[o] = answers[o] /\ reports'[o] = reports[o]
                           /\ logged'[o] = logged[o]
<1>0. /\ session \in [Sessions -> Records] /\ \A o \in Sessions : session[o] \in Records
      /\ worker \in [Workers -> WorkerStates]
      /\ gates \in [Sessions -> BOOLEAN] /\ MainLoop \notin Keys
      /\ answers \in [Sessions -> Nat] /\ reports \in [Sessions -> Nat]
      /\ logged \in [Sessions -> {"none", "YES", "NO"}]
      /\ \A w \in Workers : worker[w].pc # "idle" => worker[w].on \in Sessions
  BY ConstantsAreDistinct DEF Typed, TypeOK, WorkersHaveSessions
<1>a. ASSUME NEW o \in Sessions, Untouched(o)
      PROVE  Kept(o)
  <2>1. \A k \in Keys : Busy(k, o)' => gates'[o]
    BY <1>a DEF Untouched, OnlyMainLoop, Workers
  <2>2. ~gates'[o] => AnswerStaysOf(o)'
    BY <1>a, UntouchedAnswer DEF Untouched, AnswerStays
  <2> QED
    BY <1>a, <2>1, <2>2 DEF Untouched
<1>b. ASSUME NEW s \in Sessions,
             \A o \in Sessions \ {s} : Untouched(o),
             Kept(s)
      PROVE  \A o \in Sessions : Kept(o)
  <2> HIDE DEF Kept
  <2> QED
    BY <1>a, <1>b
<1>c. ASSUME \A o \in Sessions : Kept(o)
      PROVE  OnlyMainLoop' /\ AnswerStays' /\ Settled
  BY <1>c DEF OnlyMainLoop, AnswerStays, Settled
<1> HIDE DEF Kept
<1>1. ASSUME NEW s \in Sessions,
             StarterStep(s) \/ AskerStep(s) \/ WaitExpires(s) \/ CleanupExpired(s)
      PROVE  \A o \in Sessions : Kept(o)
  <2>1. UNCHANGED <<worker, gates>>
    BY <1>1 DEF StarterStep, ProcessTagRead, HandleCRTIdentification, CreateSession,
       DenyTagRead, PassTagRead, LockTerminal, SendKpoRequest, Wait, CrtGrants, CrtSetsStage,
       AskerStep, Answered, AskingFails, GetUserCID, WaitExpires, CleanupExpired, history
  <2>2. CASE ~gates[s]
    <3>1. /\ AnswerStaysOf(s)' /\ UNCHANGED <<answers, reports, logged>>
          /\ session[s].completed => session'[s].completed
      BY <1>1, <2>2, StartAnswer DEF AnswerStays
    <3>2. Kept(s)
      BY <2>1, <3>1 DEF Kept, OnlyMainLoop, Busy
    <3> QED
      BY <1>1, <1>b, <3>2, OthersUntouched
  <2>3. CASE gates[s]
    <3>1. Kept(s)
      BY <2>1, <2>3 DEF Kept
    <3> QED
      BY <1>1, <1>b, <3>1, OthersUntouched
  <2> QED
    BY <2>2, <2>3
<1>2. ASSUME NEW s \in Sessions,
             MainEnters(s) \/ (worker[MainLoop].on = s /\ Handle(MainLoop))
      PROVE  \A o \in Sessions : Kept(o)
  <2>1. \A o \in Sessions \ {s} : Untouched(o)
    BY <1>2, OthersUntouched DEF Workers
  <2>2. /\ gates[s] => gates'[s]
        /\ \A k \in Keys : Busy(k, s)' => Busy(k, s)
    <3>1. CASE MainEnters(s)
      BY <1>0, <3>1 DEF MainEnters, Enter, WorkerTo, Leave, Busy, Workers
    <3>2. CASE worker[MainLoop].on = s /\ Handle(MainLoop)
      BY <1>0, <3>2 DEF Handle, ProcessKpoResult, ProcessGateStage, SendLastAnswer, ReportPassed,
         WriteStage, LogSession, Complete, WorkerTo, Leave, Busy, Workers, history
    <3> QED
      BY <1>2, <3>1, <3>2
  <2>3. ~gates'[s] => AnswerStaysOf(s)'
    BY <1>2, <2>2, MainAnswer DEF AnswerStays
  <2>4. ~gates[s] => ~session[s].completed
    <3>1. CASE MainEnters(s)
      BY <3>1 DEF MainEnters
    <3>2. CASE worker[MainLoop].on = s /\ Handle(MainLoop)
      BY <3>2 DEF Handle, ProcessKpoResult, ProcessGateStage, SendLastAnswer, ReportPassed,
         WriteStage, LogSession, Complete, AnswerStays, AnswerStaysOf, Busy
    <3> QED
      BY <1>2, <3>1, <3>2
  <2>5. Kept(s)
    BY <2>2, <2>3, <2>4 DEF Kept, OnlyMainLoop
  <2> QED
    BY <1>b, <2>1, <2>5
<1>3. ASSUME NEW k \in Keys, NEW s \in Sessions, NEW p \in {"true", "false"},
             ProcessPassEvent(k, s, p)
      PROVE  \A o \in Sessions : Kept(o)
  <2>1. gates[s] /\ gates'[s]
    BY <1>3 DEF ProcessPassEvent, AnswerStays, AnswerStaysOf, Plain
  <2>2. Kept(s)
    BY <2>1 DEF Kept
  <2> QED
    BY <1>3, <1>b, <2>2, OthersUntouched
<1>4. ASSUME NEW k \in Keys, ReaderEnters(k) \/ Handle(k)
      PROVE  \A o \in Sessions : Kept(o)
  <2> DEFINE s == worker[k].on
  <2>1. Busy(k, s)
    BY <1>4 DEF ReaderEnters, Handle, ProcessKpoResult, ProcessGateStage, SendLastAnswer,
       ReportPassed, WriteStage, LogSession, Complete, Busy
  <2>2. s \in Sessions /\ gates[s]
    BY <1>0, <2>1 DEF OnlyMainLoop, Busy, Workers
  <2>3. gates'[s]
    BY <1>0, <1>4, <2>2 DEF ReaderEnters, Handle, ProcessKpoResult, ProcessGateStage,
       SendLastAnswer, ReportPassed, WriteStage, LogSession, Complete, history
  <2>4. Kept(s)
    BY <2>2, <2>3 DEF Kept
  <2>5. \A o \in Sessions \ {s} : Untouched(o)
    BY <1>4, <2>2, OthersUntouched DEF Workers
  <2> QED
    BY <1>b, <2>2, <2>4, <2>5
<1>5. ASSUME Handle(MainLoop)
      PROVE  \A o \in Sessions : Kept(o)
  <2>1. worker[MainLoop].on \in Sessions
    BY <1>0, <1>5 DEF Handle, ProcessKpoResult, ProcessGateStage, SendLastAnswer, ReportPassed,
       WriteStage, LogSession, Complete, Workers
  <2> QED
    BY <1>2, <1>5, <2>1
<1>6. CASE UNCHANGED vars
  <2>1. \A o \in Sessions : Untouched(o)
    BY <1>6 DEF vars, history, Untouched, Busy
  <2> QED
    BY <1>a, <1>c, <2>1
<1> QED
  BY <1>1, <1>2, <1>3, <1>4, <1>5, <1>6, <1>c DEF Next, WorkerStep, Workers

----------------------------------------------------------------------------
(* The theorems.                                                            *)

\* The invariant holds when the program starts.
LEMMA InitIInv == Init => IInv
<1> SUFFICES ASSUME Init
             PROVE  IInv
  OBVIOUS
<1>1. Typed
  BY InitTyped
<1>2. /\ \A s \in Sessions : session[s] = NewRecord /\ starter[s] = "none"
      /\ \A w \in Workers : worker[w] = Idle
      /\ \A s \in Sessions : /\ granted[s] = {} /\ shown[s] = "none" /\ reports[s] = 0
                             /\ logged[s] = "none"
  BY DEF Init
<1>3. SessionHasData /\ WorkerHasData
  BY <1>2 DEF SessionHasData, WorkerHasData, NewRecord, Idle
<1>4. GrantTravels /\ AllowedOnlyIfGranted
  BY <1>2 DEF GrantTravels, AllowedOnlyIfGranted, NewRecord
<1>5. OnlyMainLoop /\ AnswerStays
  BY <1>2 DEF OnlyMainLoop, AnswerStays, AnswerStaysOf, Busy, Plain, NewRecord, Idle, Workers
<1> QED
  BY <1>1, <1>3, <1>4, <1>5 DEF IInv, Typed

\* Every operation preserves it: the four parts in turn.
LEMMA StepIInv == IInv /\ [Next]_vars => IInv'
<1> SUFFICES ASSUME IInv, [Next]_vars
             PROVE  IInv'
  OBVIOUS
<1>1. Typed'
  BY StepTyped DEF IInv, Typed
<1>2. SessionHasData' /\ WorkerHasData'
  BY StepSessionData, StepWorkerData DEF IInv, Typed
<1>3. GrantTravels' /\ AllowedOnlyIfGranted'
  BY StepMovesYes, StepGranted DEF IInv, Typed
<1>4. OnlyMainLoop' /\ AnswerStays'
  BY StepAnswer DEF IInv, Typed
<1> QED
  BY <1>1, <1>2, <1>3, <1>4 DEF IInv, Typed

\* Types, data, grants and answers agree in every reachable state.
THEOREM SessionInvariant == Spec => []IInv
  BY InitIInv, StepIInv, PTL DEF Spec

\* The program's and the goroutines' states keep their types (Session's
\* variables, however the goroutines interleave).
THEOREM SessionTypeCorrect == Spec => []TypeOK
<1>1. IInv => TypeOK
  BY DEF IInv
<1> QED
  BY <1>1, SessionInvariant, PTL

\* processKpoResult and processPassed never miss the data they take.
THEOREM StagesHaveData == Spec => []StageHasData
<1>1. IInv => StageHasData
  BY DEF IInv, WorkerHasData, StageHasData
<1> QED
  BY <1>1, SessionInvariant, PTL

\* Nobody is let in, reported or logged as let in without a YES.
THEOREM NoEntryWithoutGrant == Spec => []AllowedOnlyIfGranted
<1>1. IInv => AllowedOnlyIfGranted
  BY DEF IInv
<1> QED
  BY <1>1, SessionInvariant, PTL

\* The log says what the terminal was told (processDone, processLastAnswer).
THEOREM LogIsTruthful == Spec => []LogMatchesAnswer
<1>1. IInv => LogMatchesAnswer
  BY DEF IInv, AnswerStays, AnswerStaysOf, LogMatchesAnswer
<1> QED
  BY <1>1, SessionInvariant, PTL

\* A completed session is left alone (the first lines of ProcessSessionStage).
THEOREM CompletionIsFinal == Spec => CompletedIsFinal
<1>1. IInv /\ [Next]_vars => Settled
  BY StepAnswer DEF IInv, Typed
<1>2. IInv /\ [Next]_vars =>
        [\A s \in Sessions : session[s].completed /\ ~gates[s] =>
           /\ session'[s].completed
           /\ answers'[s] = answers[s] /\ reports'[s] = reports[s]
           /\ logged'[s] = logged[s]]_vars
  BY <1>1 DEF Settled
<1> QED
  BY <1>2, SessionInvariant, PTL DEF Spec, CompletedIsFinal

----------------------------------------------------------------------------
(* How often a session is answered and reported.                            *)

One(b) == IF b THEN 1 ELSE 0

\* sendKpoRequest has been called, or the session denied without it.
Asked(s) == starter[s] \in {"setWait", "setKpo", "setStage", "done"}

\* The stage a session goes on from: the one the main loop is handling, which
\* will replace what others write meanwhile, and otherwise its own.
At(s) == IF Busy(MainLoop, s) /\ worker[MainLoop].stage # "INIT"
         THEN worker[MainLoop].stage ELSE session[s].stage

\* It may still be answered on its way, it may still be sent back by a wait, it
\* has been sent back by the verdict of a face, and its pass is yet to be told.
AnswerAhead(s) == ~session[s].completed /\ At(s) \in {"INIT", "KPO_RESULT", "LAST_ANSWER"}
WaitAhead(s) == ~Asked(s) \/ starter[s] = "setWait" \/ session[s].wait # "none"
FaceDecides(s) == session[s].by = "crt" /\ NoKpoPass
SentBack(s) == FaceDecides(s) /\ starter[s] = "done"
ReportDue(s) == ~session[s].completed /\ At(s) = "PASSED"

\* Answers given and still ahead together have a bound, which only a face's
\* verdict raises, once; and of each answer comes one report at most.
Counted(s) ==
  /\ starter[s] \in {"setKpo", "setStage"} => FaceDecides(s)
  /\ session[s].wait # "none" => starter[s] \in {"setKpo", "setStage", "done"}
  /\ ~Asked(s) => session[s].stage = "INIT" /\ ~session[s].completed
  /\ ~Asked(s) /\ Busy(MainLoop, s) =>
       worker[MainLoop].pc = "handling" /\ worker[MainLoop].stage = "INIT"
  /\ answers[s] + One(AnswerAhead(s)) + One(WaitAhead(s)) <= 2 + One(SentBack(s))
  /\ reports[s] + One(ReportDue(s)) <= answers[s]
  /\ At(s) \in {"PASSED", "DONE"} => shown[s] # "none"
  /\ Busy(MainLoop, s) /\ worker[MainLoop].pc = "logged" => logged[s] # "none"

RepeatsAreCounted == \A s \in Sessions : ~gates[s] => Counted(s)

\* What is left alone is counted as it was.
LEMMA UntouchedCounted ==
  ASSUME NEW o \in Sessions, ~gates[o], Counted(o), Untouched(o)
  PROVE  Counted(o)'
<1>1. At(o)' = At(o)
  BY DEF Untouched, Busy, At, Workers
<1>2. /\ AnswerAhead(o)' <=> AnswerAhead(o)
      /\ ReportDue(o)' <=> ReportDue(o)
      /\ WaitAhead(o)' <=> WaitAhead(o)
      /\ SentBack(o)' <=> SentBack(o)
  BY <1>1 DEF Untouched, AnswerAhead, ReportDue, WaitAhead, SentBack, FaceDecides, Asked
<1> QED
  BY <1>1, <1>2 DEF Untouched, Counted, One, FaceDecides, Asked, Busy, Workers

\* The starter sends a session back once by its wait and once by a face's
\* verdict; the goroutine that asks 1C, time and the clean-up never do.
LEMMA StartCounted ==
  ASSUME Typed, NEW s \in Sessions, ~gates[s], AnswerStaysOf(s), Counted(s),
         StarterStep(s) \/ AskerStep(s) \/ WaitExpires(s) \/ CleanupExpired(s)
  PROVE  Counted(s)'
<1> DEFINE r == session[s]
           q == session'[s]
<1>0. /\ session \in [Sessions -> Records] /\ r \in Records
      /\ starter \in [Sessions -> StarterStates]
      /\ answers[s] \in Nat /\ reports[s] \in Nat
  BY DEF Typed, TypeOK
<1>1. UNCHANGED <<worker, shown, answers, reports, logged>>
  BY StartAnswer
<1>2. r.stage \in Plain /\ (Busy(MainLoop, s) => worker[MainLoop].stage \in Plain)
  BY DEF AnswerStaysOf
<1>3. CASE /\ q.stage = r.stage /\ q.completed = r.completed
           /\ q.wait = r.wait \/ (q.wait # "none" /\ r.wait # "none")
           /\ ~Asked(s) => starter'[s] \in {"accepted", "created", "locking", "asking", "stuck"}
           /\ ~Asked(s) => starter'[s] # "done"
           /\ Asked(s) => q.by = r.by
           /\ Asked(s) => starter'[s] = starter[s]
  BY <1>0, <1>1, <1>3
     DEF Counted, One, Asked, At, AnswerAhead, ReportDue, WaitAhead, FaceDecides, SentBack, Busy
<1>4. CASE StarterStep(s)
  <2>1. ASSUME NEW k \in Keys, NEW auth \in BOOLEAN, ProcessTagRead(s, k, auth)
        PROVE  Counted(s)'
    BY <1>0, <1>3, <2>1 DEF ProcessTagRead, Records, Asked
  <2>2. ASSUME NEW k \in Keys, HandleCRTIdentification(s, k)
        PROVE  Counted(s)'
    BY <1>0, <1>3, <2>2 DEF HandleCRTIdentification, Records, Asked
  <2>3. CASE CreateSession(s) \/ PassTagRead(s) \/ LockTerminal(s)
    BY <1>0, <1>3, <2>3 DEF CreateSession, PassTagRead, LockTerminal, Records, Asked
  <2>4. CASE DenyTagRead(s)
    <3>1. /\ ~Asked(s) /\ Asked(s)' /\ starter'[s] # "setWait"
          /\ starter'[s] = IF FaceDecides(s) THEN "setKpo" ELSE "done"
          /\ q.by = r.by /\ q.stage = "LAST_ANSWER" /\ q.wait = r.wait
          /\ q.completed = r.completed
      BY <1>0, <2>4 DEF DenyTagRead, AfterStart, Records, Asked, FaceDecides
    <3> QED
      BY <1>0, <1>1, <3>1
         DEF Counted, One, Asked, At, AnswerAhead, ReportDue, WaitAhead, FaceDecides, SentBack, Busy, Plain
  <2>5. CASE SendKpoRequest(s)
    <3>1. /\ ~Asked(s) /\ starter'[s] = "setWait" /\ q.by = r.by /\ q.stage = "KPO_RESULT"
          /\ q.wait = r.wait /\ q.completed = r.completed
      BY <1>0, <2>5 DEF SendKpoRequest, Records, Asked
    <3> QED
      BY <1>0, <1>1, <3>1
         DEF Counted, One, Asked, At, AnswerAhead, ReportDue, WaitAhead, FaceDecides, SentBack, Busy, Plain
  <2>6. CASE Wait(s)
    <3>1. /\ starter[s] = "setWait" /\ starter'[s] = IF FaceDecides(s) THEN "setKpo" ELSE "done"
          /\ q.by = r.by /\ q.stage = r.stage /\ q.completed = r.completed
      BY <1>0, <2>6 DEF Wait, AfterStart, Records, FaceDecides
    <3> QED
      BY <1>0, <1>1, <3>1
         DEF Counted, One, Asked, At, AnswerAhead, ReportDue, WaitAhead, FaceDecides, SentBack, Busy
  <2>7. CASE CrtGrants(s)
    <3>1. /\ starter[s] = "setKpo" /\ starter'[s] = "setStage"
          /\ q.by = r.by /\ q.stage = r.stage /\ q.wait = r.wait /\ q.completed = r.completed
      BY <1>0, <2>7 DEF CrtGrants, Records
    <3> QED
      BY <1>0, <1>1, <3>1
         DEF Counted, One, Asked, At, AnswerAhead, ReportDue, WaitAhead, FaceDecides, SentBack, Busy
  <2>8. CASE CrtSetsStage(s)
    <3>1. /\ starter[s] = "setStage" /\ starter'[s] = "done"
          /\ q.by = r.by /\ q.stage = "KPO_RESULT" /\ q.wait = r.wait
          /\ q.completed = r.completed
      BY <1>0, <2>8 DEF CrtSetsStage, Records
    <3> QED
      BY <1>0, <1>1, <3>1
         DEF Counted, One, Asked, At, AnswerAhead, ReportDue, WaitAhead, FaceDecides, SentBack, Busy
  <2> QED
    BY <1>4, <2>1, <2>2, <2>3, <2>4, <2>5, <2>6, <2>7, <2>8 DEF StarterStep
<1>5. CASE AskerStep(s) \/ WaitExpires(s) \/ CleanupExpired(s)
  <2>1. /\ q.stage = r.stage /\ q.completed = r.completed /\ q.by = r.by
        /\ q.wait = r.wait \/ (q.wait # "none" /\ r.wait # "none")
        /\ starter'[s] = starter[s]
    BY <1>0, <1>5 DEF AskerStep, Answered, AskingFails, GetUserCID, SetKpoResult,
       WaitExpires, CleanupExpired, Records
  <2> QED
    BY <1>0, <1>1, <2>1
       DEF Counted, One, Asked, At, AnswerAhead, ReportDue, WaitAhead, FaceDecides, SentBack, Busy
<1> QED
  BY <1>4, <1>5

\* The main loop answers and reports what was ahead, and goes back only for a
\* wait.
LEMMA MainCounted ==
  ASSUME Typed, NEW s \in Sessions, ~gates'[s], ~gates[s], AnswerStaysOf(s), Counted(s),
         WorkerHasData,
         MainEnters(s) \/ (worker[MainLoop].on = s /\ Handle(MainLoop))
  PROVE  Counted(s)'
<1> DEFINE r == session[s]
           q == session'[s]
           m == worker[MainLoop]
<1>0. /\ session \in [Sessions -> Records] /\ r \in Records
      /\ worker \in [Workers -> WorkerStates] /\ MainLoop \in Workers
      /\ answers \in [Sessions -> Nat] /\ reports \in [Sessions -> Nat]
      /\ answers[s] \in Nat /\ reports[s] \in Nat
      /\ shown \in [Sessions -> {"none", "allow", "deny"}]
      /\ logged \in [Sessions -> {"none", "YES", "NO"}]
  BY DEF Typed, TypeOK, Workers
<1>1. r.stage \in Plain /\ ~r.completed /\ UNCHANGED starter
  <2>1. r.stage \in Plain
    BY DEF AnswerStaysOf
  <2>2. ~r.completed
    BY MainAnswer
  <2>3. UNCHANGED starter
    BY DEF MainEnters, Handle, ProcessKpoResult, ProcessGateStage, SendLastAnswer,
       ReportPassed, WriteStage, LogSession, Complete
  <2> QED
    BY <2>1, <2>2, <2>3
<1> USE DEF Counted, One, Asked, At, AnswerAhead, ReportDue, WaitAhead, FaceDecides, SentBack, Busy
<1>2. CASE MainEnters(s)
  <2>1. CASE Leave(MainLoop) /\ UNCHANGED session
    BY <1>0, <1>1, <1>2, <2>1 DEF MainEnters, Leave, Idle
  <2>2. CASE ~(Leave(MainLoop) /\ UNCHANGED session)
    <3> DEFINE stage == IF r.wait = "none" THEN r.stage ELSE "KPO_RESULT"
               kpo == IF r.wait = "due" /\ ~(r.kpo \in {"YES", "NO"}) THEN Fixed ELSE r.kpo
    <3>1. /\ session' = [session EXCEPT ![s].stage = stage, ![s].wait = "none", ![s].kpo = kpo]
          /\ WorkerTo(MainLoop, "handling", s, stage)
      BY <1>2, <2>2 DEF MainEnters, Enter
    <3>2. /\ q.stage = stage /\ q.wait = "none" /\ q.by = r.by /\ q.completed = r.completed
      <4> HIDE DEF stage, kpo
      <4> QED
        BY <1>0, <3>1 DEF Records
    <3>3. worker'[MainLoop] = [pc |-> "handling", on |-> s, stage |-> stage]
      BY <1>0, <3>1 DEF WorkerTo
    <3>4. m.pc = "idle" /\ UNCHANGED <<answers, reports, shown, logged>>
      BY <1>2 DEF MainEnters
    <3>5. /\ r.wait = "none" => stage = r.stage
          /\ r.wait # "none" => stage = "KPO_RESULT"
      OBVIOUS
    <3> HIDE DEF stage, kpo
    <3>6. At(s) = r.stage /\ At(s)' = stage
      BY <3>2, <3>3, <3>4
    <3>7. /\ ~Asked(s) => stage = "INIT"
          /\ r.wait # "none" => starter[s] \in {"setKpo", "setStage", "done"}
      BY <3>5
    <3>8. /\ AnswerAhead(s) <=> r.stage \in {"INIT", "KPO_RESULT", "LAST_ANSWER"}
          /\ AnswerAhead(s)' <=> stage \in {"INIT", "KPO_RESULT", "LAST_ANSWER"}
          /\ ReportDue(s) <=> r.stage = "PASSED"
          /\ ReportDue(s)' <=> stage = "PASSED"
      BY <1>1, <3>2, <3>6
    <3>9. /\ WaitAhead(s) <=> ~Asked(s) \/ starter[s] = "setWait" \/ r.wait # "none"
          /\ WaitAhead(s)' <=> ~Asked(s) \/ starter[s] = "setWait"
          /\ SentBack(s)' <=> SentBack(s)
      BY <1>1, <3>2
    <3>10. /\ starter'[s] \in {"setKpo", "setStage"} => FaceDecides(s)'
           /\ q.wait = "none"
           /\ ~Asked(s)' => q.stage = "INIT" /\ ~q.completed
           /\ ~Asked(s)' /\ Busy(MainLoop, s)' =>
                worker'[MainLoop].pc = "handling" /\ worker'[MainLoop].stage = "INIT"
           /\ At(s)' \in {"PASSED", "DONE"} => shown'[s] # "none"
           /\ worker'[MainLoop].pc # "logged"
      BY <1>1, <3>2, <3>3, <3>4, <3>5, <3>6, <3>7
    <3>11. /\ answers[s] + One(AnswerAhead(s)) + One(WaitAhead(s)) <= 2 + One(SentBack(s))
           /\ reports[s] + One(ReportDue(s)) <= answers[s]
      OBVIOUS
    <3> HIDE DEF At, AnswerAhead, ReportDue, WaitAhead, SentBack, Asked, Busy, FaceDecides
    <3>12. CASE r.wait = "none"
      <4>1. /\ AnswerAhead(s)' <=> AnswerAhead(s)
            /\ ReportDue(s)' <=> ReportDue(s)
            /\ WaitAhead(s)' <=> WaitAhead(s)
        BY <3>5, <3>8, <3>9, <3>12
      <4> QED
        BY <3>4, <3>9, <3>10, <3>11, <4>1
    <3>13. CASE r.wait # "none"
      <4>1. WaitAhead(s) /\ ~WaitAhead(s)' /\ ~ReportDue(s)'
        BY <3>5, <3>7, <3>8, <3>9, <3>13 DEF Asked
      <4> QED
        BY <1>0, <3>4, <3>9, <3>10, <3>11, <4>1
    <3> QED
      BY <3>12, <3>13
  <2> QED
    BY <1>2, <2>1, <2>2 DEF MainEnters
<1>3. CASE m.on = s /\ Handle(MainLoop)
  <2>0. Busy(MainLoop, s) /\ m.stage \in Plain
    BY <1>3 DEF Handle, ProcessKpoResult, ProcessGateStage, SendLastAnswer,
       ReportPassed, WriteStage, LogSession, Complete, AnswerStaysOf
  <2>1. CASE ProcessKpoResult(MainLoop)
    <3>1. /\ q.stage = "LAST_ANSWER"
          /\ q.completed = r.completed /\ q.wait = r.wait /\ q.by = r.by
          /\ worker'[MainLoop].pc = "idle" /\ m.stage = "KPO_RESULT" /\ m.pc = "handling"
          /\ UNCHANGED <<answers, reports, shown, logged>>
      BY <1>0, <1>3, <2>1 DEF ProcessKpoResult, Leave, Idle, Records, Typed, TypeOK
    <3> QED
      BY <1>0, <1>1, <2>0, <3>1 DEF Plain
  <2>2. CASE ProcessGateStage(MainLoop)
    <3>1. m.stage = "INIT"
      BY <2>0, <2>2 DEF ProcessGateStage, Plain
    <3>2. PICK cam \in Cameras : session' = [session EXCEPT
            ![s].stage = NextGateStage(session[s], "INIT", cam),
            ![s].result = IF FALSE THEN "0" ELSE @]
      BY <1>3, <2>2, <3>1 DEF ProcessGateStage
    <3>3. /\ q.stage = NextGateStage(session[s], "INIT", cam)
          /\ q.wait = r.wait /\ q.by = r.by /\ q.completed = r.completed
      BY <1>0, <3>2 DEF Records
    <3>4. q.stage = r.stage
      BY <3>3 DEF NextGateStage
    <3>5. worker'[MainLoop].pc = "idle" /\ UNCHANGED <<answers, reports, shown, logged>>
      BY <1>0, <2>2 DEF ProcessGateStage, Leave, Idle, history
    <3> QED
      BY <1>0, <1>1, <2>0, <3>1, <3>3, <3>4, <3>5
  <2>3. CASE SendLastAnswer(MainLoop)
    <3>1. /\ m.stage = "LAST_ANSWER"
          /\ \E stage \in {"PASSED", "DONE"} :
               worker'[MainLoop] = [pc |-> "sent", on |-> s, stage |-> stage]
          /\ answers'[s] = answers[s] + 1
          /\ shown'[s] # "none"
          /\ UNCHANGED <<session, reports, logged>>
      BY <1>0, <1>3, <2>3 DEF SendLastAnswer, WorkerTo
    <3> QED
      BY <1>0, <1>1, <2>0, <3>1 DEF Plain
  <2>4. CASE ReportPassed(MainLoop)
    <3>1. /\ m.stage = "PASSED"
          /\ worker'[MainLoop] = [pc |-> "sent", on |-> s, stage |-> "DONE"]
          /\ reports'[s] \in {reports[s], reports[s] + 1}
          /\ UNCHANGED <<session, answers, shown, logged>>
      BY <1>0, <1>3, <2>4 DEF ReportPassed, WorkerTo
    <3> QED
      BY <1>0, <1>1, <2>0, <3>1 DEF Plain
  <2>5. CASE WriteStage(MainLoop)
    <3>1. /\ q.stage = m.stage /\ q.wait = r.wait /\ q.by = r.by /\ q.completed = r.completed
          /\ m.stage \in {"PASSED", "DONE"} /\ m.pc = "sent"
          /\ worker'[MainLoop].pc = "idle"
          /\ UNCHANGED <<answers, reports, shown, logged>>
      BY <1>0, <1>3, <2>5 DEF WriteStage, Leave, Idle, Records, WorkerHasData, history
    <3> QED
      BY <1>0, <1>1, <2>0, <3>1
  <2>6. CASE LogSession(MainLoop)
    <3>1. /\ m.stage = "DONE"
          /\ worker'[MainLoop] = [pc |-> "logged", on |-> s, stage |-> "DONE"]
          /\ logged'[s] # "none"
          /\ UNCHANGED <<session, answers, reports, shown>>
      BY <1>0, <1>3, <2>6 DEF LogSession, WorkerTo
    <3> QED
      BY <1>0, <1>1, <2>0, <3>1
  <2>7. CASE Complete(MainLoop)
    <3>1. /\ q.stage = r.stage /\ q.wait = r.wait /\ q.by = r.by /\ q.completed
          /\ m.pc = "logged" /\ worker'[MainLoop].pc = "idle"
          /\ UNCHANGED <<answers, reports, shown, logged>>
      BY <1>0, <1>3, <2>7 DEF Complete, Leave, Idle, Records, history
    <3>2. m.stage = "DONE"
      BY <2>0, <3>1 DEF AnswerStaysOf
    <3> QED
      BY <1>0, <1>1, <2>0, <3>1, <3>2
  <2> QED
    BY <1>3, <2>1, <2>2, <2>3, <2>4, <2>5, <2>6, <2>7 DEF Handle
<1> QED
  BY <1>2, <1>3

\* Every operation keeps every session outside the gates counted: the other
\* sessions are left alone, and a reader works in the gates only.
LEMMA StepCounted ==
  IInv /\ RepeatsAreCounted /\ [Next]_vars => RepeatsAreCounted'
<1> SUFFICES ASSUME IInv, RepeatsAreCounted, [Next]_vars,
                    NEW o \in Sessions, ~gates'[o]
             PROVE  Counted(o)'
  BY DEF RepeatsAreCounted
<1>0. /\ Typed /\ WorkerHasData
      /\ \A w \in Workers : worker[w].pc # "idle" => worker[w].on \in Sessions
  BY DEF IInv, Typed, WorkersHaveSessions
<1>a. ASSUME Untouched(o)
      PROVE  Counted(o)'
  BY <1>a, UntouchedCounted DEF Untouched, RepeatsAreCounted
<1>b. ~gates[o] => AnswerStaysOf(o) /\ Counted(o) /\ \A k \in Keys : ~Busy(k, o)
  BY DEF IInv, AnswerStays, RepeatsAreCounted, OnlyMainLoop
<1>c. gates \in [Sessions -> BOOLEAN]
  BY <1>0 DEF Typed, TypeOK
<1>1. ASSUME NEW s \in Sessions,
             StarterStep(s) \/ AskerStep(s) \/ WaitExpires(s) \/ CleanupExpired(s)
      PROVE  Counted(o)'
  <2>1. CASE o = s
    <3>1. UNCHANGED gates
      BY <1>1 DEF StarterStep, ProcessTagRead, HandleCRTIdentification, CreateSession,
         DenyTagRead, PassTagRead, LockTerminal, SendKpoRequest, Wait, CrtGrants, CrtSetsStage,
         AskerStep, Answered, AskingFails, GetUserCID, WaitExpires, CleanupExpired, history
    <3> QED
      BY <1>0, <1>1, <1>b, <2>1, <3>1, StartCounted
  <2>2. CASE o # s
    BY <1>0, <1>1, <1>a, <2>2, OthersUntouched
  <2> QED
    BY <2>1, <2>2
<1>2. ASSUME NEW s \in Sessions,
             MainEnters(s) \/ (worker[MainLoop].on = s /\ Handle(MainLoop))
      PROVE  Counted(o)'
  <2>1. CASE o = s
    <3>1. gates[o] => gates'[o]
      <4>1. CASE MainEnters(s)
        BY <4>1 DEF MainEnters
      <4>2. CASE ProcessKpoResult(MainLoop) /\ worker[MainLoop].on = s
        BY <1>c, <2>1, <4>2 DEF ProcessKpoResult
      <4>3. CASE Handle(MainLoop) /\ ~ProcessKpoResult(MainLoop)
        BY <4>3 DEF Handle, ProcessGateStage, SendLastAnswer, ReportPassed, WriteStage,
           LogSession, Complete, history
      <4> QED
        BY <1>2, <4>1, <4>2, <4>3
    <3> QED
      BY <1>0, <1>2, <1>b, <2>1, <3>1, MainCounted
  <2>2. CASE o # s
    BY <1>0, <1>2, <1>a, <2>2, OthersUntouched DEF Workers
  <2> QED
    BY <2>1, <2>2
<1>3. ASSUME NEW k \in Keys, NEW s \in Sessions, NEW p \in {"true", "false"},
             ProcessPassEvent(k, s, p)
      PROVE  Counted(o)'
  <2>1. o # s
    BY <1>3, <1>b DEF ProcessPassEvent, AnswerStaysOf, Plain
  <2> QED
    BY <1>0, <1>3, <1>a, <2>1, OthersUntouched
<1>4. ASSUME NEW k \in Keys, ReaderEnters(k) \/ Handle(k)
      PROVE  Counted(o)'
  <2> DEFINE s == worker[k].on
  <2>1. Busy(k, s) /\ (gates[o] => gates'[o])
    BY <1>0, <1>4 DEF ReaderEnters, Handle, ProcessKpoResult, ProcessGateStage, SendLastAnswer,
       ReportPassed, WriteStage, LogSession, Complete, Busy, Typed, TypeOK, history
  <2>2. s \in Sessions /\ o # s
    BY <1>0, <1>b, <2>1 DEF Busy, Workers
  <2> QED
    BY <1>0, <1>4, <1>a, <2>2, OthersUntouched DEF Workers
<1>5. ASSUME Handle(MainLoop)
      PROVE  Counted(o)'
  <2>1. worker[MainLoop].on \in Sessions
    BY <1>0, <1>5 DEF Handle, ProcessKpoResult, ProcessGateStage, SendLastAnswer, ReportPassed,
       WriteStage, LogSession, Complete, Workers
  <2> QED
    BY <1>2, <1>5, <2>1
<1>6. CASE UNCHANGED vars
  BY <1>a, <1>6 DEF vars, history, Untouched, Busy
<1> QED
  BY <1>1, <1>2, <1>3, <1>4, <1>5, <1>6 DEF Next, WorkerStep, Workers

\* The count begins with no answer.
LEMMA InitCounted == Init => RepeatsAreCounted
<1> SUFFICES ASSUME Init, NEW s \in Sessions
             PROVE  Counted(s)
  BY DEF RepeatsAreCounted
<1>1. /\ session[s] = NewRecord /\ starter[s] = "none" /\ worker[MainLoop].pc = "idle"
      /\ answers[s] = 0 /\ reports[s] = 0
  BY DEF Init, Workers, Idle
<1>2. /\ session[s].by = "none" /\ session[s].stage = "INIT" /\ session[s].wait = "none"
      /\ ~session[s].completed
  BY <1>1 DEF NewRecord
<1> QED
  BY <1>1, <1>2 DEF Counted, One, Asked, At, AnswerAhead, ReportDue, WaitAhead, FaceDecides,
     SentBack, Busy

\* The count of every session outside the gates holds in every reachable state.
THEOREM RepeatsInvariant == Spec => []RepeatsAreCounted
  BY InitCounted, StepCounted, SessionInvariant, PTL DEF Spec

\* Whatever a late wait and a face's verdict do to a session outside the gates,
\* it is answered and reported twice at most, and three times if a face has
\* decided over 1C (Wait, handleCRTIdentification, ProcessSessionStage).
THEOREM RepeatsHaveBound == Spec => []RepeatsAreBounded
<1>1. IInv /\ RepeatsAreCounted => RepeatsAreBounded
  <2> SUFFICES ASSUME IInv, NEW s \in Sessions, Counted(s)
               PROVE  LET most == IF session[s].by = "crt" /\ NoKpoPass THEN 3 ELSE 2
                      IN  answers[s] <= most /\ reports[s] <= most
    BY DEF RepeatsAreCounted, RepeatsAreBounded
  <2>1. answers[s] \in Nat /\ reports[s] \in Nat
    BY DEF IInv, TypeOK
  <2>2. /\ One(AnswerAhead(s)) \in {0, 1} /\ One(ReportDue(s)) \in {0, 1}
        /\ One(WaitAhead(s)) \in {0, 1} /\ One(SentBack(s)) \in {0, 1}
        /\ ~FaceDecides(s) => One(SentBack(s)) = 0
    BY DEF One, SentBack
  <2> QED
    BY <2>1, <2>2 DEF Counted, FaceDecides
<1> QED
  BY <1>1, RepeatsInvariant, SessionInvariant, PTL

----------------------------------------------------------------------------
(* Sessions keep the promises of AccessDecision.                            *)

\* What AccessDecision sees of who has granted and of what is completed.
HasGrant == [s \in Sessions |-> granted[s] # {}]
IsClosed == [s \in Sessions |-> session[s].completed]

\* The steps of one session are AccessDecision's.
LEMMA DecisionSteps ==
  ASSUME NEW s \in Sessions,
         \/ Decision!Grant(s)
         \/ \E answer \in {"allow", "deny"} : Decision!Answer(s, answer)
         \/ Decision!Report(s)
         \/ Decision!Log(s)
         \/ Decision!Close(s)
         \/ Decision!SendThroughGates(s)
         \/ Decision!InGates(s)
  PROVE  Decision!Next
<1> HIDE ConstantsAreDistinct, SwitchesAreBoolean
<1> QED
  BY DEF Decision!Next

\* A step that answers, reports, logs and completes nothing is a grant, if the
\* first one of a session comes with it, or is not seen.
LEMMA GrantOrStutter ==
  ASSUME NEW s \in Sessions,
         UNCHANGED <<gates, shown, answers, reports, logged>>,
         \A o \in Sessions : session'[o].completed = session[o].completed,
         \A o \in Sessions \ {s} : granted'[o] = granted[o],
         granted[s] \subseteq granted'[s]
  PROVE  [Decision!Next]_(Decision!vars)
<1>1. IsClosed' = IsClosed
  BY Zenon DEF IsClosed
<1>2. CASE granted[s] = {} /\ granted'[s] # {}
  <2>1. HasGrant' = [HasGrant EXCEPT ![s] = TRUE]
    BY <1>2, Zenon DEF HasGrant
  <2>2. Decision!Grant(s)
    BY <1>1, <2>1 DEF Decision!Grant, Decision!outcome, HasGrant, IsClosed
  <2> QED
    BY <2>2, DecisionSteps
<1>3. CASE ~(granted[s] = {} /\ granted'[s] # {})
  <2>1. \A o \in Sessions : (granted'[o] # {}) <=> (granted[o] # {})
    BY <1>3
  <2>2. HasGrant' = HasGrant
    BY <2>1, Zenon DEF HasGrant
  <2> QED
    BY <1>1, <2>2 DEF Decision!vars, Decision!outcome, HasGrant, IsClosed
<1> QED
  BY <1>2, <1>3

\* The program starts with nothing granted, told or closed.
LEMMA DecisionInit == Init => Decision!Init
<1> SUFFICES ASSUME Init
             PROVE  Decision!Init
  OBVIOUS
<1>1. /\ \A s \in Sessions : granted[s] = {} /\ session[s].completed = FALSE
      /\ gates = [s \in Sessions |-> FALSE] /\ shown = [s \in Sessions |-> "none"]
      /\ answers = [s \in Sessions |-> 0] /\ reports = [s \in Sessions |-> 0]
      /\ logged = [s \in Sessions |-> "none"]
  BY DEF Init, NewRecord
<1>2. HasGrant = [s \in Sessions |-> FALSE]
  BY <1>1, Zenon DEF HasGrant
<1>3. IsClosed = [s \in Sessions |-> FALSE]
  BY <1>1, Zenon DEF IsClosed
<1> QED
  BY <1>1, <1>2, <1>3 DEF Decision!Init, HasGrant, IsClosed

\* In the gates the events of the terminal take the place of the answer, but
\* still nobody is let in without a grant.
LEMMA GatesDecision ==
  ASSUME IInv, IInv', NEW w \in Workers, NEW s \in Sessions,
         worker[w].on = s, Handle(w), gates[s]
  PROVE  [Decision!Next]_(Decision!vars)
<1>0. /\ Typed
      /\ session \in [Sessions -> Records] /\ gates \in [Sessions -> BOOLEAN]
      /\ gates[s] = TRUE
  BY DEF IInv, Typed, TypeOK
<1>1. UNCHANGED granted
  BY DEF Handle, ProcessKpoResult, ProcessGateStage, SendLastAnswer, ReportPassed,
     WriteStage, LogSession, Complete, history
<1>2. UNCHANGED gates
  <2>1. CASE ProcessKpoResult(w)
    <3>1. PICK b \in BOOLEAN : gates' = [gates EXCEPT ![s] = gates[s] \/ b]
      BY <2>1 DEF ProcessKpoResult
    <3>2. (gates[s] \/ b) = gates[s]
      BY <1>0, Zenon
    <3> QED
      BY <1>0, <3>1, <3>2
  <2> QED
    BY <2>1 DEF Handle, ProcessGateStage, SendLastAnswer, ReportPassed, WriteStage,
       LogSession, Complete, history
<1>3. \A o \in Sessions \ {s} : Untouched(o)
  BY <1>0, OthersUntouched
<1>4. shown'[s] = "allow" \/ reports'[s] > 0 \/ logged'[s] = "YES" => HasGrant[s]
  BY <1>0, <1>1 DEF IInv, AllowedOnlyIfGranted, HasGrant
<1>5. \A o \in Sessions \ {s} : IsClosed'[o] = IsClosed[o]
  BY <1>3, Zenon DEF Untouched, IsClosed
<1>6. HasGrant' = HasGrant
  BY <1>1 DEF HasGrant
<1>7. Decision!InGates(s)
  BY <1>0, <1>2, <1>3, <1>4, <1>5, <1>6 DEF Decision!InGates, Untouched, HasGrant, IsClosed
<1> QED
  BY <1>7, DecisionSteps

\* Outside the gates the main loop answers, reports, logs and closes a session
\* as AccessDecision says.
LEMMA MainDecision ==
  ASSUME IInv, RepeatsAreCounted, NEW s \in Sessions,
         worker[MainLoop].on = s, Handle(MainLoop), ~gates[s]
  PROVE  [Decision!Next]_(Decision!vars)
<1> DEFINE m == worker[MainLoop]
<1>0. /\ m.pc # "idle" /\ MainLoop \in Workers
      /\ session \in [Sessions -> Records] /\ session[s] \in Records
      /\ gates \in [Sessions -> BOOLEAN] /\ gates[s] = FALSE
      /\ answers \in [Sessions -> Nat] /\ reports \in [Sessions -> Nat]
      /\ logged \in [Sessions -> {"none", "YES", "NO"}]
  BY DEF IInv, TypeOK, Workers, Handle, ProcessKpoResult, ProcessGateStage, SendLastAnswer,
     ReportPassed, WriteStage, LogSession, Complete
<1>1. Counted(s) /\ AnswerStaysOf(s) /\ Busy(MainLoop, s)
  BY <1>0 DEF RepeatsAreCounted, IInv, AnswerStays, Busy
<1>2. UNCHANGED granted /\ HasGrant' = HasGrant
  BY DEF Handle, ProcessKpoResult, ProcessGateStage, SendLastAnswer, ReportPassed,
     WriteStage, LogSession, Complete, history, HasGrant
<1>3. m.pc # "logged" => logged[s] = "none" /\ ~session[s].completed
  BY <1>0, <1>1 DEF AnswerStaysOf
<1>4. /\ session[s].result = "1" => granted[s] # {}
      /\ session[s].kpo = "YES" => granted[s] # {}
  BY <1>0 DEF IInv, GrantTravels
<1>5. ASSUME UNCHANGED <<gates, shown, answers, reports, logged>>,
             \A o \in Sessions : session'[o].completed = session[o].completed
      PROVE  [Decision!Next]_(Decision!vars)
  BY <1>0, <1>2, <1>5, GrantOrStutter
<1>6. ASSUME UNCHANGED session
      PROVE  IsClosed' = IsClosed
  BY <1>6 DEF IsClosed
<1>11. CASE ProcessKpoResult(MainLoop)
  <2>1. UNCHANGED <<shown, answers, reports, logged>>
    BY <1>11 DEF ProcessKpoResult
  <2>2. \A o \in Sessions : session'[o].completed = session[o].completed
    BY <1>0, <1>11 DEF ProcessKpoResult, Records
  <2>3. IsClosed' = IsClosed
    BY <2>2, Zenon DEF IsClosed
  <2>4. PICK b \in BOOLEAN : /\ gates' = [gates EXCEPT ![s] = gates[s] \/ b]
                             /\ b => session[s].kpo = "YES"
    BY <1>11 DEF ProcessKpoResult
  <2>5. CASE b
    <3>1. gates' = [gates EXCEPT ![s] = TRUE]
      BY <2>4, <2>5, Zenon
    <3>2. logged[s] = "none" /\ HasGrant[s]
      BY <1>0, <1>3, <1>4, <1>11, <2>4, <2>5 DEF ProcessKpoResult, HasGrant
    <3>3. Decision!SendThroughGates(s)
      BY <1>2, <2>1, <2>3, <3>1, <3>2
         DEF Decision!SendThroughGates, Decision!outcome, HasGrant, IsClosed
    <3> QED
      BY <3>3, DecisionSteps
  <2>6. CASE ~b
    <3>1. (gates[s] \/ b) = gates[s]
      BY <1>0, <2>6, Zenon
    <3>2. UNCHANGED gates
      BY <1>0, <2>4, <3>1
    <3> QED
      BY <1>5, <2>1, <2>2, <3>2
  <2> QED
    BY <2>5, <2>6
<1>12. CASE ProcessGateStage(MainLoop) \/ WriteStage(MainLoop)
  <2>1. UNCHANGED <<gates, shown, answers, reports, logged>>
    BY <1>12 DEF ProcessGateStage, WriteStage, history
  <2>2. PICK stage, result :
          session' = [session EXCEPT ![s].stage = stage, ![s].result = result]
    <3>1. CASE ProcessGateStage(MainLoop)
      BY <3>1 DEF ProcessGateStage
    <3>2. CASE WriteStage(MainLoop)
      <4>1. session' = [session EXCEPT ![s].stage = m.stage]
        BY <3>2 DEF WriteStage
      <4>2. session' = [session EXCEPT ![s].stage = m.stage, ![s].result = session[s].result]
        BY <1>0, <4>1 DEF Records
      <4> QED
        BY <4>2
    <3> QED
      BY <1>12, <3>1, <3>2
  <2>3. \A o \in Sessions : session'[o].completed = session[o].completed
    BY <1>0, <2>2 DEF Records
  <2> QED
    BY <1>5, <2>1, <2>3
<1>13. CASE SendLastAnswer(MainLoop)
  <2> DEFINE answer == IF session[s].result = "1" THEN "allow" ELSE "deny"
  <2>1. /\ m.pc = "handling" /\ m.stage = "LAST_ANSWER"
        /\ shown' = [shown EXCEPT ![s] = answer]
        /\ answers' = [answers EXCEPT ![s] = @ + 1]
        /\ UNCHANGED <<session, gates, reports, logged>>
    BY <1>13 DEF SendLastAnswer
  <2>2. logged[s] = "none" /\ IsClosed' = IsClosed
    BY <1>3, <1>6, <2>1
  <2>3. answers[s] < IF NoKpoPass THEN 3 ELSE 2
    <3>1. AnswerAhead(s)
      BY <1>1, <1>3, <2>1 DEF AnswerAhead, At
    <3>2. One(AnswerAhead(s)) = 1 /\ One(WaitAhead(s)) \in {0, 1}
      BY <3>1 DEF One
    <3>3. One(SentBack(s)) \in {0, 1} /\ (One(SentBack(s)) = 1 => NoKpoPass)
      BY DEF One, SentBack, FaceDecides
    <3>4. answers[s] \in Nat
      BY <1>0
    <3> QED
      BY <1>1, <3>2, <3>3, <3>4 DEF Counted
  <2>4. answer = "allow" => HasGrant[s]
    BY <1>0, <1>4 DEF HasGrant
  <2>5. answer \in {"allow", "deny"}
    OBVIOUS
  <2> HIDE DEF answer
  <2>6. Decision!Answer(s, answer)
    BY <1>2, <2>1, <2>2, <2>3, <2>4 DEF Decision!Answer, HasGrant, IsClosed
  <2> QED
    BY <2>5, <2>6, DecisionSteps
<1>14. CASE ReportPassed(MainLoop)
  <2>1. /\ m.pc = "handling" /\ m.stage = "PASSED"
        /\ reports' = [reports EXCEPT ![s] = @ + IF session[s].result = "1" THEN 1 ELSE 0]
        /\ UNCHANGED <<session, gates, shown, answers, logged>>
    BY <1>14 DEF ReportPassed
  <2>2. logged[s] = "none" /\ IsClosed' = IsClosed
    BY <1>3, <1>6, <2>1
  <2>3. CASE session[s].result = "1"
    <3>1. shown[s] = "allow"
      BY <1>1, <2>1, <2>3 DEF AnswerStaysOf, AnswerIsResult
    <3>2. ReportDue(s)
      BY <1>1, <1>3, <2>1 DEF ReportDue, At
    <3>3. reports[s] < answers[s]
      BY <1>0, <1>1, <3>2 DEF Counted, One
    <3>4. reports' = [reports EXCEPT ![s] = @ + 1]
      BY <2>1, <2>3
    <3>5. Decision!Report(s)
      BY <1>2, <2>1, <2>2, <3>1, <3>3, <3>4 DEF Decision!Report, HasGrant, IsClosed
    <3> QED
      BY <3>5, DecisionSteps
  <2>4. CASE session[s].result # "1"
    <3>1. UNCHANGED reports
      BY <1>0, <2>1, <2>4
    <3> QED
      BY <1>5, <2>1, <3>1
  <2> QED
    BY <2>3, <2>4
<1>15. CASE LogSession(MainLoop)
  <2>1. /\ m.pc = "handling" /\ m.stage = "DONE"
        /\ logged' = [logged EXCEPT ![s] = IF session[s].result = "1" THEN "YES" ELSE "NO"]
        /\ UNCHANGED <<session, gates, shown, answers, reports>>
    BY <1>15 DEF LogSession
  <2>2. logged[s] = "none" /\ IsClosed' = IsClosed
    BY <1>3, <1>6, <2>1
  <2>3. shown[s] # "none"
    BY <1>1, <2>1 DEF Counted, At
  <2>4. session[s].result = "1" <=> shown[s] = "allow"
    BY <1>1, <2>1 DEF AnswerStaysOf, AnswerIsResult
  <2>5. logged' = [logged EXCEPT ![s] = IF shown[s] = "allow" THEN "YES" ELSE "NO"]
    BY <2>1, <2>4
  <2>6. Decision!Log(s)
    BY <1>2, <2>1, <2>2, <2>3, <2>5 DEF Decision!Log, HasGrant, IsClosed
  <2> QED
    BY <2>6, DecisionSteps
<1>16. CASE Complete(MainLoop)
  <2>1. /\ m.pc = "logged"
        /\ session' = [session EXCEPT ![s].completed = TRUE]
        /\ UNCHANGED <<gates, shown, answers, reports, logged>>
    BY <1>16 DEF Complete, history
  <2>2. logged[s] # "none"
    BY <1>1, <2>1 DEF Counted
  <2>3. /\ session'[s].completed = TRUE
        /\ \A o \in Sessions \ {s} : session'[o] = session[o]
    BY <1>0, <2>1 DEF Records
  <2>4. IsClosed' = [IsClosed EXCEPT ![s] = TRUE]
    BY <2>3, Zenon DEF IsClosed
  <2>5. Decision!Close(s)
    BY <1>2, <2>1, <2>2, <2>4 DEF Decision!Close, HasGrant, IsClosed
  <2> QED
    BY <2>5, DecisionSteps
<1> QED
  BY <1>11, <1>12, <1>13, <1>14, <1>15, <1>16 DEF Handle

\* Every operation is a step of AccessDecision, or is not seen there: before the
\* main loop or the gates only grants are.
LEMMA StepDecision ==
  IInv /\ RepeatsAreCounted /\ [Next]_vars => [Decision!Next]_(Decision!vars)
<1> SUFFICES ASSUME IInv, RepeatsAreCounted, [Next]_vars
             PROVE  [Decision!Next]_(Decision!vars)
  OBVIOUS
<1>0. /\ Typed /\ IInv' /\ YesMoves
      /\ session \in [Sessions -> Records] /\ \A o \in Sessions : session[o] \in Records
      /\ granted \in [Sessions -> SUBSET {"1C", "autofix", "crt"}]
      /\ \A w \in Workers : worker[w].pc # "idle" => worker[w].on \in Sessions
  BY StepIInv, StepMovesYes DEF IInv, Typed, TypeOK, WorkersHaveSessions
<1>1. ASSUME NEW s \in Sessions,
             StarterStep(s) \/ AskerStep(s) \/ WaitExpires(s) \/ CleanupExpired(s)
      PROVE  [Decision!Next]_(Decision!vars)
  <2>1. UNCHANGED <<gates, shown, answers, reports, logged>>
    BY <1>1 DEF StarterStep, ProcessTagRead, HandleCRTIdentification, CreateSession,
       DenyTagRead, PassTagRead, LockTerminal, SendKpoRequest, Wait, CrtGrants, CrtSetsStage,
       AskerStep, Answered, AskingFails, GetUserCID, WaitExpires, CleanupExpired, history
  <2>2. \A o \in Sessions : session'[o].completed = session[o].completed
    BY <1>0, <1>1, StartCompletesNothing, OthersUntouched DEF Untouched
  <2>3. \A o \in Sessions \ {s} : granted'[o] = granted[o]
    BY <1>0, <1>1 DEF StarterStep, ProcessTagRead, HandleCRTIdentification, CreateSession,
       DenyTagRead, PassTagRead, LockTerminal, SendKpoRequest, Wait, CrtGrants, CrtSetsStage,
       AskerStep, Answered, AskingFails, GetUserCID, SetKpoResult, WaitExpires,
       CleanupExpired, history
  <2> QED
    BY <1>0, <2>1, <2>2, <2>3, GrantOrStutter DEF YesMoves
<1>2. ASSUME NEW w \in Workers, NEW s \in Sessions, Enter(w, s),
             UNCHANGED <<gates, shown, answers, reports, logged>>
      PROVE  [Decision!Next]_(Decision!vars)
  <2>1. \A o \in Sessions : session'[o].completed = session[o].completed
    BY <1>0, <1>2 DEF Enter, Records
  <2>2. \A o \in Sessions \ {s} : granted'[o] = granted[o]
    BY <1>0, <1>2 DEF Enter
  <2> QED
    BY <1>0, <1>2, <2>1, <2>2, GrantOrStutter DEF YesMoves
<1>3. ASSUME NEW s \in Sessions, MainEnters(s)
      PROVE  [Decision!Next]_(Decision!vars)
  BY <1>2, <1>3 DEF MainEnters, Workers
<1>4. ASSUME NEW k \in Keys, NEW s \in Sessions, NEW p \in {"true", "false"},
             ProcessPassEvent(k, s, p)
      PROVE  [Decision!Next]_(Decision!vars)
  <2>1. UNCHANGED <<granted, gates, shown, answers, reports, logged>>
    BY <1>4 DEF ProcessPassEvent
  <2>2. \A o \in Sessions : session'[o].completed = session[o].completed
    BY <1>0, <1>4 DEF ProcessPassEvent, Records
  <2> QED
    BY <2>1, <2>2, GrantOrStutter
<1>5. ASSUME NEW k \in Keys, ReaderEnters(k)
      PROVE  [Decision!Next]_(Decision!vars)
  <2>1. k \in Workers /\ worker[k].on \in Sessions
    BY <1>0, <1>5 DEF ReaderEnters, Workers
  <2>2. /\ Enter(k, worker[k].on)
        /\ UNCHANGED <<gates, shown, answers, reports, logged>>
    BY <1>5 DEF ReaderEnters
  <2> QED
    BY <1>2, <2>1, <2>2
<1>6. ASSUME NEW w \in Workers, Handle(w)
      PROVE  [Decision!Next]_(Decision!vars)
  <2>1. PICK s \in Sessions : worker[w].on = s /\ Busy(w, s)
    BY <1>0, <1>6 DEF Handle, ProcessKpoResult, ProcessGateStage, SendLastAnswer,
       ReportPassed, WriteStage, LogSession, Complete, Busy
  <2>2. CASE gates[s]
    BY <1>0, <1>6, <2>1, <2>2, GatesDecision
  <2>3. CASE ~gates[s]
    <3>1. w = MainLoop
      BY <2>1, <2>3 DEF IInv, OnlyMainLoop, Workers
    <3> QED
      BY <1>6, <2>1, <2>3, <3>1, MainDecision
  <2> QED
    BY <2>2, <2>3
<1>7. CASE UNCHANGED vars
  <2>1. IsClosed' = IsClosed /\ HasGrant' = HasGrant
    BY <1>7 DEF vars, history, IsClosed, HasGrant
  <2> QED
    BY <1>7, <2>1 DEF vars, history, Decision!vars, Decision!outcome, HasGrant, IsClosed
<1> QED
  BY <1>1, <1>3, <1>4, <1>5, <1>6, <1>7 DEF Next, WorkerStep

\* However the goroutines interleave and however often a session is sent back,
\* it is answered, reported, logged and completed as AccessDecision promises
\* (ProcessSessionStage and what starts and advances a session).
THEOREM SessionKeepsDecision == Spec => DecisionIsKept
<1>1. Spec => Decision!Init /\ [][Decision!Next]_(Decision!vars)
  BY DecisionInit, StepDecision, SessionInvariant, RepeatsInvariant, PTL DEF Spec
<1> QED
  BY <1>1, PTL DEF DecisionIsKept, Decision!Spec
=============================================================================
