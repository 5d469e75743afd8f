------------------------------ MODULE Session ------------------------------
(***************************************************************************)
(* Access sessions: internal/session/manager.go together with the handlers *)
(* of internal/daemon/daemon.go that start and advance them.               *)
(*                                                                         *)
(* A session is shared, without a lock on its fields, by                   *)
(*   - the goroutine that starts it: the reader of the terminal whose tag  *)
(*     was read (ProcessTagRead), or the CRT client's (face recognised),   *)
(*   - the goroutine that asks 1C (sendKpoRequest),                        *)
(*   - the workers that run ProcessSessionStage: the daemon's main loop,   *)
(*     for every session on every tick, and a terminal's reader, when a    *)
(*     pass event finds a session whose gate is open.                      *)
(* A worker enters a session, then acts on the stage it saw; where it      *)
(* sends, reports or logs before it moves the session on, the two are      *)
(* separate steps.                                                         *)
(*                                                                         *)
(* Messages, lockers and card data are left out: they change what is       *)
(* displayed, not what happens.  CAM_RESULT is a stage nothing leaves: the *)
(* camera check is started only by ProcessSession, which has no caller.    *)
(***************************************************************************)
EXTENDS Naturals

CONSTANTS
  Sessions,   \* sessions that may be created; bounds their number
  Keys,       \* terminal addresses
  MainLoop,   \* the worker that is the daemon's main loop
  NoSession,
  NoKey,
  Cameras,    \* values of config.CamServiceActive: POST /api/system/settings
              \* may change it between any two reads
  Autofix,    \* config.ServiceAutofixExpired
  NoKpoPass   \* config.CRTNoKpoPass

ASSUME ConstantsAreDistinct ==
  /\ NoSession \notin Sessions
  /\ NoKey \notin Keys
  /\ MainLoop \notin Keys

ASSUME SwitchesAreBoolean ==
  Cameras \subseteq BOOLEAN /\ Autofix \in BOOLEAN /\ NoKpoPass \in BOOLEAN

VARIABLES
  session,   \* the sessions' records
  starter,   \* where the goroutine that starts the session stands
  asker,     \* where the goroutine that asks 1C stands
  worker,    \* MainLoop or key -> what it is processing
  granted,   \* history: sessions that got a YES verdict, and from whom
  shown,     \* history: the last answer given to the session's terminal
  answers,   \* history: how many were given
  reports,   \* history: how many passes were reported to 1C
  passed,    \* history: the terminal reported a pass to the session
  gates,     \* history: the session was sent through the two gates
  logged     \* history: what the CSV log says of the session

history == <<granted, shown, answers, reports, passed, gates, logged>>
vars == <<session, starter, asker, worker, history>>

Workers == Keys \cup {MainLoop}

Stages == {"INIT", "KPO_RESULT", "OPEN_FIRST", "FIRST_PASSED", "CAM_RESULT",
           "OPEN_SECOND", "SECOND_PASSED", "PASSED", "LAST_ANSWER", "DONE"}
Records ==
  [inMap : {"no", "yes", "removed"},  \* membership in SessionManager.sessions
   key : Keys \cup {NoKey},
   by : {"none", "tag", "crt"},        \* who starts it
   auth : BOOLEAN,                     \* what the reader says of the tag
   stage : Stages,
   wait : {"none", "pending", "due"},  \* Wait, and whether ExpireTime passed
   kpo : {"absent", "UNDEF", "YES", "NO"},
   result : {"unset", "0", "1"},
   first : {"unset", "true", "false"}, \* Data["passed_first"]
   second : {"unset", "true", "false"},
   cid : BOOLEAN,                      \* CID is not empty
   completed : BOOLEAN]                \* Processed and Completed
NewRecord ==
  [inMap |-> "no", key |-> NoKey, by |-> "none", auth |-> FALSE, stage |-> "INIT",
   wait |-> "none", kpo |-> "absent", result |-> "unset", first |-> "unset",
   second |-> "unset", cid |-> FALSE, completed |-> FALSE]

\* stage: the one the worker handles, and once it has sent what that stage
\* sends, the one the session moves to.
WorkerStates == [pc : {"idle", "entering", "handling", "sent", "logged"},
                 on : Sessions \cup {NoSession}, stage : Stages]
Idle == [pc |-> "idle", on |-> NoSession, stage |-> "INIT"]

StarterStates == {"none", "accepted", "created", "locking", "stuck", "asking",
                  "setWait", "setKpo", "setStage", "done"}
AskerStates == {"none", "asking", "cid", "done"}

TypeOK ==
  /\ session \in [Sessions -> Records]
  /\ starter \in [Sessions -> StarterStates]
  /\ asker \in [Sessions -> AskerStates]
  /\ worker \in [Workers -> WorkerStates]
  /\ granted \in [Sessions -> SUBSET {"1C", "autofix", "crt"}]
  /\ shown \in [Sessions -> {"none", "allow", "deny"}]
  /\ answers \in [Sessions -> Nat]
  /\ reports \in [Sessions -> Nat]
  /\ passed \in [Sessions -> BOOLEAN]
  /\ gates \in [Sessions -> BOOLEAN]
  /\ logged \in [Sessions -> {"none", "YES", "NO"}]

Init ==
  /\ session = [s \in Sessions |-> NewRecord]
  /\ starter = [s \in Sessions |-> "none"]
  /\ asker = [s \in Sessions |-> "none"]
  /\ worker = [w \in Workers |-> Idle]
  /\ granted = [s \in Sessions |-> {}]
  /\ shown = [s \in Sessions |-> "none"]
  /\ answers = [s \in Sessions |-> 0]
  /\ reports = [s \in Sessions |-> 0]
  /\ passed = [s \in Sessions |-> FALSE]
  /\ gates = [s \in Sessions |-> FALSE]
  /\ logged = [s \in Sessions |-> "none"]

Live(s) == session[s].inMap = "yes"

\* LockTerminal has asked for the pool's lock while holding it: from then on
\* no goroutine gets past a call to the pool.
PoolWedged == \E s \in Sessions : starter[s] = "stuck"

----------------------------------------------------------------------------
(* The goroutine that starts a session.                                     *)

\* The reader of k is inside ProcessTagRead.
ReaderBusy(k) ==
  \/ worker[k].pc # "idle"
  \/ \E s \in Sessions : /\ session[s].by = "tag" /\ session[s].key = k
                         /\ starter[s] \notin {"none", "done"}

\* ProcessTagRead up to StartSession: the terminal is connected and has
\* Settings, and no deny list holds the card.  The reader's verdict on the tag
\* is only printed.
ProcessTagRead(s, k, auth) ==
  /\ starter[s] = "none"
  /\ ~PoolWedged
  /\ ~ReaderBusy(k)
  /\ starter' = [starter EXCEPT ![s] = "accepted"]
  /\ session' = [session EXCEPT ![s].key = k, ![s].by = "tag", ![s].auth = auth]
  /\ UNCHANGED <<asker, worker, history>>

\* handleCRTIdentification up to StartSession: the terminal is connected, has
\* Settings and no active session, at this moment.
HandleCRTIdentification(s, k) ==
  /\ starter[s] = "none"
  /\ ~PoolWedged
  /\ \A o \in Sessions : Live(o) /\ session[o].key = k => session[o].completed
  /\ starter' = [starter EXCEPT ![s] = "accepted"]
  /\ session' = [session EXCEPT ![s].key = k, ![s].by = "crt"]
  /\ UNCHANGED <<asker, worker, history>>

\* CreateSession: the session is in the map, at INIT, before it has data.
CreateSession(s) ==
  /\ starter[s] = "accepted"
  /\ starter' = [starter EXCEPT ![s] = "created"]
  /\ session' = [session EXCEPT ![s].inMap = "yes"]
  /\ UNCHANGED <<asker, worker, history>>

\* Where a session goes once StartSession has returned.
AfterStart(s) == IF session[s].by = "crt" /\ NoKpoPass THEN "setKpo" ELSE "done"

\* checkTagReadDeny: Data["rfid"] holds the uid and the lockers, never "auth",
\* so a tag of a terminal with Settings is "not read" ...
DenyTagRead(s) ==
  /\ starter[s] = "created"
  /\ ~PoolWedged
  /\ session' = [session EXCEPT ![s].result = "0", ![s].stage = "LAST_ANSWER"]
  /\ starter' = [starter EXCEPT ![s] = AfterStart(s)]
  /\ UNCHANGED <<asker, worker, history>>

\* ... and only one that lost its connection, or its Settings with it, since
\* the tag was read lets it through.
PassTagRead(s) ==
  /\ starter[s] = "created"
  /\ ~PoolWedged
  /\ starter' = [starter EXCEPT ![s] = "locking"]
  /\ UNCHANGED <<session, asker, worker, history>>

\* LockTerminal: with no connection it is an error nobody looks at, with a GAT
\* or SPHINX one nothing is sent; with a JSP or POCKET one that has come back
\* by now it sends under the pool's lock.
LockTerminal(s) ==
  /\ starter[s] = "locking"
  /\ ~PoolWedged
  /\ \E to \in {"asking", "stuck"} : starter' = [starter EXCEPT ![s] = to]
  /\ UNCHANGED <<session, asker, worker, history>>

\* sendKpoRequest: from here the main loop may act on KPO_RESULT, ...
SendKpoRequest(s) ==
  /\ starter[s] = "asking"
  /\ session' = [session EXCEPT ![s].kpo = "UNDEF", ![s].stage = "KPO_RESULT"]
  /\ asker' = [asker EXCEPT ![s] = "asking"]
  /\ starter' = [starter EXCEPT ![s] = "setWait"]
  /\ UNCHANGED <<worker, history>>

\* ... and Wait, which makes it wait for the verdict, comes after.
Wait(s) ==
  /\ starter[s] = "setWait"
  /\ starter' = [starter EXCEPT ![s] = AfterStart(s)]
  /\ session' = IF session[s].completed THEN session
                ELSE [session EXCEPT ![s].wait = "pending"]
  /\ UNCHANGED <<asker, worker, history>>

\* Variant: the stage is set before the verdict it needs.
CrtGrantsLate(s) ==
  /\ starter[s] = "setKpo"
  /\ session' = [session EXCEPT ![s].stage = "KPO_RESULT"]
  /\ granted' = [granted EXCEPT ![s] = @ \cup {"crt"}]
  /\ starter' = [starter EXCEPT ![s] = "setStage"]
  /\ UNCHANGED <<asker, worker, shown, answers, reports, passed, gates, logged>>

\* crt_no_kpo_pass: after StartSession, whatever it did with the session, the
\* face's verdict replaces that of 1C ...
CrtGrants(s) ==
  /\ starter[s] = "setKpo"
  /\ session' = [session EXCEPT ![s].kpo = "YES"]
  /\ granted' = [granted EXCEPT ![s] = @ \cup {"crt"}]
  /\ starter' = [starter EXCEPT ![s] = "setStage"]
  /\ UNCHANGED <<asker, worker, shown, answers, reports, passed, gates, logged>>

\* Variant: the session goes on as if the terminal had been answered.
CrtSkipsAnswer(s) ==
  /\ starter[s] = "setStage"
  /\ session' = [session EXCEPT ![s].stage = "PASSED"]
  /\ starter' = [starter EXCEPT ![s] = "done"]
  /\ UNCHANGED <<asker, worker, history>>

\* ... and the session is sent back to KPO_RESULT.
CrtSetsStage(s) ==
  /\ starter[s] = "setStage"
  /\ session' = [session EXCEPT ![s].stage = "KPO_RESULT"]
  /\ starter' = [starter EXCEPT ![s] = "done"]
  /\ UNCHANGED <<asker, worker, history>>

----------------------------------------------------------------------------
(* The goroutine that asks 1C.                                              *)

\* setKpoResult: nothing happens to a session that is no longer in the map.
SetKpoResult(s, v, from) ==
  /\ session' = IF Live(s) THEN [session EXCEPT ![s].kpo = v] ELSE session
  /\ granted' = IF Live(s) /\ v = "YES" THEN [granted EXCEPT ![s] = @ \cup {from}]
                                        ELSE granted

\* 1C answers, after any number of attempts: the verdict, early or late,
\* replaces the one the session has.
Answered(s, v) ==
  /\ asker[s] = "asking"
  /\ SetKpoResult(s, v, "1C")
  /\ asker' = [asker EXCEPT ![s] = "cid"]
  /\ UNCHANGED <<starter, worker, shown, answers, reports, passed, gates, logged>>

Fixed == IF Autofix THEN "YES" ELSE "NO"

\* Variant: a verdict of its own for a failed request.
AskingFailsAsFail(s) ==
  /\ asker[s] = "asking"
  /\ SetKpoResult(s, "FAIL", "autofix")
  /\ asker' = [asker EXCEPT ![s] = "done"]
  /\ UNCHANGED <<starter, worker, shown, answers, reports, passed, gates, logged>>

\* Every attempt failed: the configured verdict.
AskingFails(s) ==
  /\ asker[s] = "asking"
  /\ SetKpoResult(s, Fixed, "autofix")
  /\ asker' = [asker EXCEPT ![s] = "done"]
  /\ UNCHANGED <<starter, worker, shown, answers, reports, passed, gates, logged>>

\* GetUserCID, after the verdict: the camera check needs its result.
GetUserCID(s, found) ==
  /\ asker[s] = "cid"
  /\ asker' = [asker EXCEPT ![s] = "done"]
  /\ session' = [session EXCEPT ![s].cid = @ \/ found]
  /\ UNCHANGED <<starter, worker, history>>

----------------------------------------------------------------------------
(* Workers: ProcessSessionStage.                                            *)

WorkerTo(w, pc, s, stage) ==
  worker' = [worker EXCEPT ![w] = [pc |-> pc, on |-> s, stage |-> stage]]
Leave(w) == worker' = [worker EXCEPT ![w] = Idle]

\* Variant: an expired wait is not noticed.
EnterForever(w, s) ==
  IF Live(s) /\ ~session[s].completed
       /\ (session[s].wait = "none" \/ session[s].kpo \in {"YES", "NO"})
  THEN LET stage == IF session[s].wait = "none" THEN session[s].stage ELSE "KPO_RESULT" IN
       /\ WorkerTo(w, "handling", s, stage)
       /\ session' = [session EXCEPT ![s].stage = stage, ![s].wait = "none"]
       /\ UNCHANGED granted
  ELSE Leave(w) /\ UNCHANGED <<session, granted>>

\* Entry: a session that is gone or completed is left alone; one that waits is
\* left alone until the verdict is in or the wait has expired, and then starts
\* again from KPO_RESULT, wherever it was.
Enter(w, s) ==
  LET r == session[s]
      answered == r.kpo \in {"YES", "NO"}
      expired == r.wait = "due" /\ ~answered
      stage == IF r.wait = "none" THEN r.stage ELSE "KPO_RESULT" IN
  IF Live(s) /\ ~r.completed /\ (r.wait = "none" \/ answered \/ expired)
  THEN /\ WorkerTo(w, "handling", s, stage)
       /\ session' = [session EXCEPT ![s].stage = stage, ![s].wait = "none",
                                     ![s].kpo = IF expired THEN Fixed ELSE @]
       /\ granted' = IF expired /\ Autofix THEN [granted EXCEPT ![s] = @ \cup {"autofix"}]
                                           ELSE granted
  ELSE Leave(w) /\ UNCHANGED <<session, granted>>

\* The main loop takes up a session on its tick.  IdleProc comes first in a
\* tick, so a wedged pool stops it.
MainEnters(s) ==
  /\ worker[MainLoop].pc = "idle"
  /\ ~PoolWedged
  /\ Live(s) /\ ~session[s].completed
  /\ Enter(MainLoop, s)
  /\ UNCHANGED <<starter, asker, shown, answers, reports, passed, gates, logged>>

\* ProcessPassEvent: some session of the terminal that is not completed, the
\* first the map yields, takes the event if its gate is open just now.
ProcessPassEvent(k, s, p) ==
  /\ ~ReaderBusy(k)
  /\ Live(s) /\ session[s].key = k /\ ~session[s].completed
  /\ session[s].stage \in {"OPEN_FIRST", "OPEN_SECOND"}
  /\ session' = IF session[s].stage = "OPEN_FIRST"
                THEN [session EXCEPT ![s].first = p]
                ELSE [session EXCEPT ![s].second = p]
  /\ passed' = [passed EXCEPT ![s] = @ \/ p = "true"]
  /\ WorkerTo(k, "entering", s, "INIT")
  /\ UNCHANGED <<starter, asker, granted, shown, answers, reports, gates, logged>>

ReaderEnters(k) ==
  /\ worker[k].pc = "entering"
  /\ Enter(k, worker[k].on)
  /\ UNCHANGED <<starter, asker, shown, answers, reports, passed, gates, logged>>

\* Variant: any verdict that is not NO lets the person in.
ProcessKpoResultUnlessNo(w) ==
  LET s == worker[w].on
      yes == session[s].kpo # "NO" IN
  /\ worker[w].pc = "handling" /\ worker[w].stage = "KPO_RESULT"
  /\ \E cam \in Cameras :
       /\ session' = [session EXCEPT
            ![s].result = IF yes THEN "1" ELSE "0",
            ![s].stage = IF yes /\ cam THEN "OPEN_FIRST" ELSE "LAST_ANSWER"]
       /\ gates' = [gates EXCEPT ![s] = @ \/ (yes /\ cam)]
  /\ Leave(w)
  /\ UNCHANGED <<starter, asker, granted, shown, answers, reports, passed, logged>>

\* Anything but YES is a denial, UNDEF too.
ProcessKpoResult(w) ==
  LET s == worker[w].on
      yes == session[s].kpo = "YES" IN
  /\ worker[w].pc = "handling" /\ worker[w].stage = "KPO_RESULT"
  /\ \E cam \in Cameras :
       /\ session' = [session EXCEPT
            ![s].result = IF yes THEN "1" ELSE "0",
            ![s].stage = IF yes /\ cam THEN "OPEN_FIRST" ELSE "LAST_ANSWER"]
       /\ gates' = [gates EXCEPT ![s] = @ \/ (yes /\ cam)]
  /\ Leave(w)
  /\ UNCHANGED <<starter, asker, granted, shown, answers, reports, passed, logged>>

\* The stages of the two gates; no relay is opened on the way.  A stage with
\* nothing to do yet leaves the session where it is, and so does CAM_RESULT.
NextGateStage(r, stage, cam) ==
  CASE stage = "OPEN_FIRST" -> "FIRST_PASSED"
    [] stage = "FIRST_PASSED" /\ r.first = "true" ->
         IF cam /\ r.cid THEN "CAM_RESULT" ELSE "OPEN_SECOND"
    [] stage = "FIRST_PASSED" /\ r.first = "false" -> "LAST_ANSWER"
    [] stage = "OPEN_SECOND" -> "SECOND_PASSED"
    [] stage = "SECOND_PASSED" /\ r.second # "unset" -> "PASSED"
    [] OTHER -> r.stage

ProcessGateStage(w) ==
  LET s == worker[w].on
      stage == worker[w].stage IN
  /\ worker[w].pc = "handling"
  /\ stage \notin {"KPO_RESULT", "LAST_ANSWER", "PASSED", "DONE"}
  /\ \E cam \in Cameras : session' = [session EXCEPT
       ![s].stage = NextGateStage(session[s], stage, cam),
       ![s].result = IF stage = "FIRST_PASSED" /\ session[s].first = "false" THEN "0" ELSE @]
  /\ Leave(w)
  /\ UNCHANGED <<starter, asker, history>>

\* processLastAnswer: the answer goes to the terminal; only a JSP relay can be
\* opened, and an error is only printed.
SendLastAnswer(w) ==
  LET s == worker[w].on
      allow == session[s].result = "1" IN
  /\ worker[w].pc = "handling" /\ worker[w].stage = "LAST_ANSWER"
  /\ ~PoolWedged
  /\ WorkerTo(w, "sent", s, IF allow THEN "PASSED" ELSE "DONE")
  /\ shown' = [shown EXCEPT ![s] = IF allow THEN "allow" ELSE "deny"]
  /\ answers' = [answers EXCEPT ![s] = @ + 1]
  /\ UNCHANGED <<session, starter, asker, granted, reports, passed, gates, logged>>

\* Variant: the report is sent and the stage stays.
ReportPassedStays(w) ==
  LET s == worker[w].on IN
  /\ worker[w].pc = "handling" /\ worker[w].stage = "PASSED"
  /\ WorkerTo(w, "sent", s, "PASSED")
  /\ reports' = [reports EXCEPT ![s] = @ + 1]
  /\ UNCHANGED <<session, starter, asker, granted, shown, answers, passed, gates, logged>>

\* processPassed: the report to 1C, sent or failed, is not repeated.
ReportPassed(w) ==
  LET s == worker[w].on IN
  /\ worker[w].pc = "handling" /\ worker[w].stage = "PASSED"
  /\ WorkerTo(w, "sent", s, "DONE")
  /\ reports' = [reports EXCEPT ![s] = @ + IF session[s].result = "1" THEN 1 ELSE 0]
  /\ UNCHANGED <<session, starter, asker, granted, shown, answers, passed, gates, logged>>

\* The stage is written once the answer or the report is out.
WriteStage(w) ==
  /\ worker[w].pc = "sent"
  /\ session' = [session EXCEPT ![worker[w].on].stage = worker[w].stage]
  /\ Leave(w)
  /\ UNCHANGED <<starter, asker, history>>

\* Variant: the row takes its result from the verdict, not from the session's.
LogSessionVerdict(w) ==
  LET s == worker[w].on IN
  /\ worker[w].pc = "handling" /\ worker[w].stage = "DONE"
  /\ ~PoolWedged
  /\ WorkerTo(w, "logged", s, "DONE")
  /\ logged' = [logged EXCEPT ![s] = IF session[s].kpo = "YES" THEN "YES" ELSE "NO"]
  /\ UNCHANGED <<session, starter, asker, granted, shown, answers, reports, passed, gates>>

\* Variant: Processed and Completed are set before the row is written.
LogSessionLast(w) ==
  LET s == worker[w].on IN
  /\ worker[w].pc = "handling" /\ worker[w].stage = "DONE"
  /\ ~PoolWedged
  /\ IF session[s].completed
     THEN /\ WorkerTo(w, "logged", s, "DONE")
          /\ logged' = [logged EXCEPT ![s] = IF session[s].result = "1" THEN "YES" ELSE "NO"]
          /\ UNCHANGED session
     ELSE /\ session' = [session EXCEPT ![s].completed = TRUE]
          /\ UNCHANGED <<worker, logged>>
  /\ UNCHANGED <<starter, asker, granted, shown, answers, reports, passed, gates>>

\* processDone: the row of the log, then Processed and Completed.
LogSession(w) ==
  LET s == worker[w].on IN
  /\ worker[w].pc = "handling" /\ worker[w].stage = "DONE"
  /\ ~PoolWedged
  /\ WorkerTo(w, "logged", s, "DONE")
  /\ logged' = [logged EXCEPT ![s] = IF session[s].result = "1" THEN "YES" ELSE "NO"]
  /\ UNCHANGED <<session, starter, asker, granted, shown, answers, reports, passed, gates>>

Complete(w) ==
  /\ worker[w].pc = "logged"
  /\ session' = [session EXCEPT ![worker[w].on].completed = TRUE]
  /\ Leave(w)
  /\ UNCHANGED <<starter, asker, history>>

\* CleanupExpiredSessions: on the main loop's tick, a session older than
\* SessionExpireTime leaves the map, in whatever stage.
CleanupExpired(s) ==
  /\ worker[MainLoop].pc = "idle"
  /\ ~PoolWedged
  /\ Live(s)
  /\ session' = [session EXCEPT ![s].inMap = "removed"]
  /\ UNCHANGED <<starter, asker, worker, history>>

----------------------------------------------------------------------------
(* Time.                                                                    *)

WaitExpires(s) ==
  /\ session[s].wait = "pending"
  /\ session' = [session EXCEPT ![s].wait = "due"]
  /\ UNCHANGED <<starter, asker, worker, history>>

----------------------------------------------------------------------------
StarterStep(s) ==
  \/ \E k \in Keys, auth \in BOOLEAN : ProcessTagRead(s, k, auth)
  \/ \E k \in Keys : HandleCRTIdentification(s, k)
  \/ CreateSession(s)
  \/ DenyTagRead(s)
  \/ PassTagRead(s)
  \/ LockTerminal(s)
  \/ SendKpoRequest(s)
  \/ Wait(s)
  \/ CrtGrants(s)
  \/ CrtSetsStage(s)

AskerStep(s) ==
  \/ \E v \in {"YES", "NO"} : Answered(s, v)
  \/ AskingFails(s)
  \/ \E found \in BOOLEAN : GetUserCID(s, found)

Handle(w) ==
  \/ ProcessKpoResult(w)
  \/ ProcessGateStage(w)
  \/ SendLastAnswer(w)
  \/ ReportPassed(w)
  \/ WriteStage(w)
  \/ LogSession(w)
  \/ Complete(w)

WorkerStep ==
  \/ \E s \in Sessions : MainEnters(s)
  \/ \E k \in Keys, s \in Sessions, p \in {"true", "false"} : ProcessPassEvent(k, s, p)
  \/ \E k \in Keys : ReaderEnters(k)
  \/ \E w \in Workers : Handle(w)
  \/ \E s \in Sessions : CleanupExpired(s)

Next ==
  \/ \E s \in Sessions : StarterStep(s) \/ AskerStep(s) \/ WaitExpires(s)
  \/ WorkerStep

Spec == Init /\ [][Next]_vars

(* Fairness.  Goroutines that can run do run, the main loop's tick takes up  *)
(* every session that is active, and time passes.  1C need not answer, the   *)
(* terminals and the operators need not do anything, and no session need     *)
(* expire.                                                                   *)
StarterAdvances(s) ==
  \/ CreateSession(s)
  \/ DenyTagRead(s)
  \/ PassTagRead(s)
  \/ LockTerminal(s)
  \/ SendKpoRequest(s)
  \/ Wait(s)
  \/ CrtGrants(s)
  \/ CrtSetsStage(s)

Fairness ==
  /\ \A s \in Sessions : /\ WF_vars(StarterAdvances(s))
                         /\ SF_vars(MainEnters(s))
                         /\ WF_vars(WaitExpires(s))
  /\ \A w \in Workers : WF_vars(Handle(w))
  /\ \A k \in Keys : WF_vars(ReaderEnters(k))

FairSpec == Spec /\ Fairness

----------------------------------------------------------------------------
(* Properties.                                                              *)

\* No stage is handled without the data it takes: processKpoResult finds a
\* verdict, and processPassed finds Data["result"], which it asserts to be an
\* int and which would otherwise bring the daemon down.
StageHasData ==
  \A w \in Workers : worker[w].pc = "handling" =>
    /\ worker[w].stage = "KPO_RESULT" => session[worker[w].on].kpo # "absent"
    /\ worker[w].stage = "PASSED" => session[worker[w].on].result # "unset"

\* Nobody is let in, reported to 1C or logged as let in without a YES of 1C, of
\* the configured fallback or of the face recognition, however starters,
\* verdicts, waits and rewinds interleave.
AllowedOnlyIfGranted ==
  \A s \in Sessions :
    shown[s] = "allow" \/ reports[s] > 0 \/ logged[s] = "YES" => granted[s] # {}

\* The log says what the terminal was last told, even when the session was
\* answered twice.  The gates are excepted: they end without an answer.
LogMatchesAnswer ==
  \A s \in Sessions :
    logged[s] # "none" /\ ~gates[s] => (logged[s] = "YES" <=> shown[s] = "allow")

\* Completed is final: nothing is sent, reported or logged for the session
\* again, a wait set late included ("return nil // Already processed").
CompletedIsFinal ==
  [][\A s \in Sessions : session[s].completed /\ ~gates[s] =>
       /\ session'[s].completed
       /\ answers'[s] = answers[s] /\ reports'[s] = reports[s]
       /\ logged'[s] = logged[s]]_vars

\* A wait set late sends an answered session back, and so does a face's
\* verdict, each of them once at most: that bounds how often a session outside
\* the gates is answered and reported.
RepeatsAreBounded ==
  \A s \in Sessions : ~gates[s] =>
    LET most == IF session[s].by = "crt" /\ NoKpoPass THEN 3 ELSE 2
    IN  answers[s] <= most /\ reports[s] <= most

\* All of it together: sessions keep the promises of AccessDecision.  Outside
\* the gates a session is answered, then perhaps reported, then logged as it was
\* answered, then completed, and nothing comes out of this order when a late
\* wait or a face's verdict sends it back.
Decision == INSTANCE AccessDecision WITH
  MaxAnswers <- IF NoKpoPass THEN 3 ELSE 2,
  granted <- [s \in Sessions |-> granted[s] # {}],
  gated <- gates,
  told <- shown,
  row <- logged,
  closed <- [s \in Sessions |-> session[s].completed]

DecisionIsKept == Decision!Spec

\* Whether 1C answers or not, a session ends: it is completed, unless it is
\* removed as expired, goes through the gates (whose stages wait for events
\* with no timeout) or the pool is wedged.
SessionEnds ==
  \A s \in Sessions :
    Live(s) ~> (session[s].completed \/ ~Live(s) \/ gates[s] \/ PoolWedged)

\* A tag its reader has authenticated is put to 1C (the flow of
\* internal/protocols/README.md:119: tag_read, Session Manager, HTTP Client).
AuthenticatedTagIsChecked ==
  \A s \in Sessions :
    session[s].by = "tag" /\ session[s].auth /\ starter[s] = "done" => asker[s] # "none"

\* 1C gets the report of a pass after the terminal's pass_report (the flow of
\* internal/protocols/README.md:134: pass_report, Session Manager, HTTP Client).
ReportFollowsPass ==
  \A s \in Sessions : reports[s] > 0 => passed[s]
=============================================================================
