------------------------------- MODULE Faces -------------------------------
(***************************************************************************)
(* Faces: the client of the video recognition service Vizir               *)
(* (internal/crt/client.go), handleCRTIdentification, which starts a       *)
(* session for a recognised person, and the ban that a pass sets           *)
(* (ProcessPassEvent), both in internal/daemon/daemon.go.                  *)
(*                                                                         *)
(* The main loop polls for faces caught by cameras and starts one          *)
(* goroutine for each new face; the goroutine asks who it is, looks at the *)
(* bans, and starts a session at the terminal linked with the camera.      *)
(* Meanwhile readers of terminals start sessions for tags and report       *)
(* passes, and sessions end.                                               *)
(*                                                                         *)
(* Of a session only whether it is active is kept: module Session has the  *)
(* rest.  Times are Vizir's for a face, the daemon's for a ban; neither is *)
(* compared with the other, so one clock serves both.  Verification mode   *)
(* is left out: nothing calls AddSessionRequest.                           *)
(***************************************************************************)
EXTENDS Naturals, Sequences, FiniteSets

CONSTANTS
  Cameras, People, Terminals, Keys, Sessions,
  NoTerminal, NoKey, Nobody, NoSession,
  CamLinks,    \* config.CRTCamLinks: camera -> terminal or NoTerminal
  IdLength,    \* person -> digits of the id, 0 if it is not a number
  Answers,     \* what MatchDetailMessage/GetItems may return: sequences of
               \* [who, score], score in percent
  BanTime,     \* config.CRTBanCamPidTime, 0 for no bans
  PassOnly,    \* values config.CRTBanPassOnly may have
  IdlePeriod,  \* 10 s in the code
  Take,        \* 20 in the code
  MaxNow, MaxCaught  \* bounds

ASSUME NumbersAreNatural ==
  /\ BanTime \in Nat /\ IdlePeriod \in Nat /\ MaxCaught \in Nat
  /\ Take \in Nat \ {0} /\ MaxNow \in Nat \ {0}
ASSUME SwitchIsBoolean == PassOnly \subseteq BOOLEAN
ASSUME LinksAreTerminals == CamLinks \in [Cameras -> Terminals \cup {NoTerminal}]
ASSUME AnswersNamePeople ==
  /\ Answers \subseteq Seq([who : People \cup {Nobody}, score : Nat])
  /\ IdLength \in [People -> Nat]

VARIABLES
  now,
  caught,       \* Vizir's events, oldest first; the position is the FaceCardId
  fetchedTime,
  camEvents,    \* camera -> the last face card seen, or 0
  personCamBan, \* camera and person -> end of the ban, or 0
  banIdleNext,
  fetcher,      \* face card -> where its goroutine stands
  settings,     \* key -> Settings.ID of its connection, or NoTerminal
  passOnly,     \* config.CRTBanPassOnly, as read at the start
  session,      \* the sessions
  banned,       \* history: camera and person -> start of the latest ban, or 0
  baseline      \* history: the newest face when the first poll succeeded, or 0

config == <<settings, passOnly>>
client == <<fetchedTime, camEvents, banIdleNext>>
vars == <<now, caught, client, personCamBan, fetcher, config, session, banned, baseline>>

Cards == 1 .. MaxCaught
Moments == 0 .. MaxNow

FetcherStates ==
  [pc : {"none", "fetching", "matched", "identified", "let", "found", "free", "started", "ended"},
   who : People \cup {Nobody},
   mtf : Moments,               \* when the person was identified
   key : Keys \cup {NoKey},
   active : SUBSET Sessions,    \* history: sessions the terminal had when found
   on : Sessions \cup {NoSession}]
NoFetcher ==
  [pc |-> "none", who |-> Nobody, mtf |-> 0, key |-> NoKey, active |-> {}, on |-> NoSession]

Records ==
  [state : {"none", "active", "over"},  \* over: Completed, or out of the map
   key : Keys \cup {NoKey},
   face : 0 .. MaxCaught]               \* Data["faceid"]: the face card, or 0

TypeOK ==
  /\ now \in 1 .. MaxNow
  /\ caught \in Seq([cam : Cameras, at : Moments]) /\ Len(caught) <= MaxCaught
  /\ fetchedTime \in 0 .. MaxNow + 1
  /\ camEvents \in [Cameras -> 0 .. Len(caught)]
  /\ personCamBan \in [Cameras \X People -> 0 .. MaxNow + BanTime]
  /\ banIdleNext \in 0 .. MaxNow + IdlePeriod
  /\ fetcher \in [Cards -> FetcherStates]
  /\ settings \in [Keys -> Terminals \cup {NoTerminal}]
  /\ passOnly \in PassOnly
  /\ session \in [Sessions -> Records]
  /\ banned \in [Cameras \X People -> Moments]
  /\ baseline \in 0 .. Len(caught)

Init ==
  /\ now = 1
  /\ caught = <<>>
  /\ fetchedTime = 0
  /\ camEvents = [c \in Cameras |-> 0]
  /\ personCamBan = [cp \in Cameras \X People |-> 0]
  /\ banIdleNext = 0
  /\ fetcher = [c \in Cards |-> NoFetcher]
  /\ settings = [k \in Keys |-> NoTerminal]
  /\ passOnly \in PassOnly
  /\ session = [s \in Sessions |-> [state |-> "none", key |-> NoKey, face |-> 0]]
  /\ banned = [cp \in Cameras \X People |-> 0]
  /\ baseline = 0

Cam2Term(n) == CamLinks[caught[n].cam]

-----------------------------------------------------------------------------
(* The service and the clock *)

Tick ==
  /\ now < MaxNow
  /\ now' = now + 1
  /\ UNCHANGED <<caught, client, personCamBan, fetcher, config, session, banned, baseline>>

Catch(cam) ==
  /\ Len(caught) < MaxCaught
  /\ caught' = Append(caught, [cam |-> cam, at |-> now])
  /\ UNCHANGED <<now, client, personCamBan, fetcher, config, session, banned, baseline>>

\* CameraEvent/GetItems: cards of the newest faces, from a date on, but on the
\* first poll without one, and then one face only.  The number of a card tells
\* its place: newest first.
GetItems ==
  LET from == {n \in DOMAIN caught : caught[n].at >= fetchedTime}
      take == IF fetchedTime = 0 THEN 1 ELSE Take
  IN {n \in from : Cardinality({m \in from : m > n}) < take}

-----------------------------------------------------------------------------
(* Polling, in the daemon's main loop *)

\* getCameraEvents: the newest card of each camera among the items.
NewestOf(items) ==
  {n \in items : \A o \in items : caught[o].cam = caught[n].cam => o <= n}

\* New cards are noted before anything is known of them, and not taken up again
\* if their goroutine fails.
TakeUp(new) ==
  /\ camEvents' = [cam \in Cameras |->
       IF \E n \in new : caught[n].cam = cam
       THEN CHOOSE n \in new : caught[n].cam = cam ELSE camEvents[cam]]
  /\ fetcher' = [n \in Cards |->
       IF n \in new /\ Cam2Term(n) # NoTerminal
       THEN [fetcher[n] EXCEPT !.pc = "fetching"] ELSE fetcher[n]]

New(items) == {n \in NewestOf(items) : camEvents[caught[n].cam] # n}

\* Variant: the faces of the first poll are processed.
PollFromTheFirst ==
  /\ \E newest \in GetItems :
       /\ \A o \in GetItems : o <= newest
       /\ fetchedTime' = caught[newest].at + 1
       /\ baseline' = IF fetchedTime = 0 THEN newest ELSE baseline
  /\ TakeUp(New(GetItems))
  /\ UNCHANGED <<now, caught, banIdleNext, personCamBan, config, session, banned>>

\* A poll that fails or finds nothing changes nothing.  The first that finds
\* something only tells the time.
PollCameraEvents ==
  /\ \E newest \in GetItems :
       /\ \A o \in GetItems : o <= newest
       /\ fetchedTime' = caught[newest].at + 1
       /\ baseline' = IF fetchedTime = 0 THEN newest ELSE baseline
  /\ TakeUp(IF fetchedTime = 0 THEN {} ELSE New(GetItems))
  /\ UNCHANGED <<now, caught, banIdleNext, personCamBan, config, session, banned>>

\* Variant: bans that will be over before the next time are dropped too.
IdleBanEarly ==
  /\ banIdleNext <= now
  /\ personCamBan' = [cp \in DOMAIN personCamBan |->
       IF personCamBan[cp] < now + IdlePeriod THEN 0 ELSE personCamBan[cp]]
  /\ banIdleNext' = now + IdlePeriod
  /\ UNCHANGED <<now, caught, fetchedTime, camEvents, fetcher, config, session, banned, baseline>>

\* idleBan, at most once in IdlePeriod: bans that are over are dropped.
IdleBan ==
  /\ banIdleNext <= now
  /\ personCamBan' = [cp \in DOMAIN personCamBan |->
       IF personCamBan[cp] < now THEN 0 ELSE personCamBan[cp]]
  /\ banIdleNext' = now + IdlePeriod
  /\ UNCHANGED <<now, caught, fetchedTime, camEvents, fetcher, config, session, banned, baseline>>

-----------------------------------------------------------------------------
(* A face's goroutine, in the client *)

Proceed(n, pc) == fetcher' = [fetcher EXCEPT ![n].pc = pc]

Fails(n) ==
  /\ fetcher[n].pc \in {"fetching", "matched"}
  /\ Proceed(n, "ended")
  /\ UNCHANGED <<now, caught, client, personCamBan, config, session, banned, baseline>>

\* getMatchDetailMessage: the first of the best scores, from 1 to 100 percent.
Plausible(answer) ==
  {i \in DOMAIN answer : answer[i].who # Nobody /\ answer[i].score \in 1 .. 100}

IsBest(i, answer) ==
  \A j \in Plausible(answer) :
    \/ answer[j].score < answer[i].score
    \/ answer[j].score = answer[i].score /\ i <= j

BestMatch(answer) ==
  IF \E i \in Plausible(answer) : IsBest(i, answer)
  THEN answer[CHOOSE i \in Plausible(answer) : IsBest(i, answer)].who ELSE Nobody

FetchMatchDetails(n) ==
  /\ fetcher[n].pc = "fetching"
  /\ \E answer \in Answers :
       fetcher' = [fetcher EXCEPT
         ![n].who = BestMatch(answer),
         ![n].pc = IF BestMatch(answer) = Nobody THEN "ended" ELSE "matched"]
  /\ UNCHANGED <<now, caught, client, personCamBan, config, session, banned, baseline>>

\* processIdentification up to the lock: the clock is read.
FetchPersonCard(n) ==
  /\ fetcher[n].pc = "matched"
  /\ fetcher' = [fetcher EXCEPT ![n].pc = "identified", ![n].mtf = now]
  /\ UNCHANGED <<now, caught, client, personCamBan, config, session, banned, baseline>>

\* Variant: a ban is prolonged each time the person is seen.
ProlongBan(n) ==
  LET f == fetcher[n]
      cp == <<caught[n].cam, f.who>>
      free == personCamBan[cp] = 0 \/ f.mtf >= personCamBan[cp] IN
  /\ f.pc = "identified"
  /\ Proceed(n, IF free THEN "let" ELSE "ended")
  /\ personCamBan' = [personCamBan EXCEPT ![cp] = (IF free THEN f.mtf ELSE @) + BanTime]
  /\ banned' = [banned EXCEPT ![cp] = f.mtf]
  /\ UNCHANGED <<now, caught, client, config, session, baseline>>

\* Under the lock: a banned person goes no further, any other is banned unless
\* bans are left to passes.  CRTBanFromCatch changes nothing: the moment of
\* the catch it asks for is the moment of the identification.
ProcessIdentification(n) ==
  LET f == fetcher[n]
      cp == <<caught[n].cam, f.who>>
      free == personCamBan[cp] = 0 \/ f.mtf >= personCamBan[cp]
      bans == free /\ BanTime > 0 /\ ~passOnly IN
  /\ f.pc = "identified"
  /\ Proceed(n, IF free THEN "let" ELSE "ended")
  /\ personCamBan' = IF bans THEN [personCamBan EXCEPT ![cp] = f.mtf + BanTime] ELSE personCamBan
  /\ banned' = IF bans THEN [banned EXCEPT ![cp] = f.mtf] ELSE banned
  /\ UNCHANGED <<now, caught, client, config, session, baseline>>

-----------------------------------------------------------------------------
(* A face's goroutine, in the daemon: handleCRTIdentification *)

ValidFaceIDData(who) == IdLength[who] \in 3 .. 15

Active(s, k) == session[s].state = "active" /\ session[s].key = k

\* Any connection with the terminal's id: the map is not ordered.
FindTerminal(n) ==
  /\ fetcher[n].pc = "let"
  /\ \/ \E k \in Keys :
          /\ ValidFaceIDData(fetcher[n].who)
          /\ settings[k] = Cam2Term(n)
          /\ fetcher' = [fetcher EXCEPT ![n].pc = "found", ![n].key = k,
                           ![n].active = {s \in Sessions : Active(s, k)}]
     \/ /\ \/ ~ValidFaceIDData(fetcher[n].who)
           \/ \A k \in Keys : settings[k] # Cam2Term(n)
        /\ Proceed(n, "ended")
  /\ UNCHANGED <<now, caught, client, personCamBan, config, session, banned, baseline>>

\* Variant: a session that has no face is not taken for one.
CheckFaceSessions(n) ==
  /\ fetcher[n].pc = "found"
  /\ Proceed(n, IF \E s \in Sessions : Active(s, fetcher[n].key) /\ session[s].face > 0
                THEN "ended" ELSE "free")
  /\ UNCHANGED <<now, caught, client, personCamBan, config, session, banned, baseline>>

\* GetConnection has lost the connection, or a session of it is active.
CheckSessions(n) ==
  /\ fetcher[n].pc = "found"
  /\ Proceed(n, IF \/ settings[fetcher[n].key] = NoTerminal
                   \/ \E s \in Sessions : Active(s, fetcher[n].key)
                THEN "ended" ELSE "free")
  /\ UNCHANGED <<now, caught, client, personCamBan, config, session, banned, baseline>>

StartSession(n, s) ==
  /\ fetcher[n].pc = "free" /\ session[s].state = "none"
  /\ session' = [session EXCEPT ![s].state = "active", ![s].key = fetcher[n].key]
  /\ fetcher' = [fetcher EXCEPT ![n].pc = "started", ![n].on = s]
  /\ UNCHANGED <<now, caught, client, personCamBan, config, banned, baseline>>

\* The face is put into the session's data when the session is in the map
\* already.
SetFaceData(n) ==
  /\ fetcher[n].pc = "started"
  /\ session' = [session EXCEPT ![fetcher[n].on].face = n]
  /\ Proceed(n, "ended")
  /\ UNCHANGED <<now, caught, client, personCamBan, config, banned, baseline>>

-----------------------------------------------------------------------------
(* The rest of the daemon *)

\* A terminal is connected, or connected again under another id, or dropped.
Connect(k, t) ==
  /\ settings[k] # t
  /\ settings' = [settings EXCEPT ![k] = t]
  /\ UNCHANGED <<passOnly, now, caught, client, personCamBan, fetcher, session, banned, baseline>>

\* ProcessTagRead does not ask whether a session is active.
ProcessTagRead(k, s) ==
  /\ settings[k] # NoTerminal /\ session[s].state = "none"
  /\ session' = [session EXCEPT ![s].state = "active", ![s].key = k]
  /\ UNCHANGED <<now, caught, client, personCamBan, fetcher, config, banned, baseline>>

\* It is completed, or CleanupExpiredSessions takes it out of the map.
SessionEnds(s) ==
  /\ session[s].state = "active"
  /\ session' = [session EXCEPT ![s].state = "over"]
  /\ UNCHANGED <<now, caught, client, personCamBan, fetcher, config, banned, baseline>>

\* TryBanAfterPass, if the session has a face.
BanAfterPass(s) ==
  LET n == session[s].face
      cp == <<caught[n].cam, fetcher[n].who>> IN
  /\ n > 0 /\ BanTime > 0 /\ passOnly
  /\ personCamBan' = [personCamBan EXCEPT ![cp] = now + BanTime]
  /\ banned' = [banned EXCEPT ![cp] = now]

\* ProcessPassEvent: the first session of the terminal that the map yields and
\* that is not completed, at whatever stage.
ProcessPassEvent(k) ==
  /\ \E s \in Sessions : Active(s, k) /\ BanAfterPass(s)
  /\ UNCHANGED <<now, caught, client, fetcher, config, session, baseline>>

-----------------------------------------------------------------------------
Face(n) ==
  \/ Fails(n)
  \/ FetchMatchDetails(n)
  \/ FetchPersonCard(n)
  \/ ProcessIdentification(n)
  \/ FindTerminal(n)
  \/ CheckSessions(n)
  \/ \E s \in Sessions : StartSession(n, s)
  \/ SetFaceData(n)

Next ==
  \/ Tick
  \/ \E cam \in Cameras : Catch(cam)
  \/ PollCameraEvents
  \/ IdleBan
  \/ \E n \in Cards : Face(n)
  \/ \E k \in Keys, t \in Terminals \cup {NoTerminal} : Connect(k, t)
  \/ \E k \in Keys, s \in Sessions : ProcessTagRead(k, s)
  \/ \E s \in Sessions : SessionEnds(s)
  \/ \E k \in Keys : ProcessPassEvent(k)

Spec == Init /\ [][Next]_vars

-----------------------------------------------------------------------------
(* Properties *)

LetThrough(n) == fetcher[n].pc = "identified" /\ fetcher'[n].pc = "let"

\* A person is let through by a camera only when BanTime has passed since the
\* moment of the ban before, set by an identification or by a pass, however
\* late the goroutine that read the clock gets the lock and whatever idleBan
\* has dropped (processIdentification, TryBanAfterPass, idleBan).
BanHolds ==
  [][\A n \in Cards : LetThrough(n) =>
       LET since == banned[caught[n].cam, fetcher[n].who]
       IN since > 0 => now >= since + BanTime]_vars

\* Who stood before a camera before the first successful poll is not let in
\* for it afterwards, not even after polls that fail or faces caught in the
\* same moment (pollCameraEvents: "just establish baseline").
NobodyFromBefore ==
  \A n \in Cards : n <= baseline => fetcher[n].pc = "none"

\* A face starts no session at a terminal one of whose sessions was active
\* from the moment the terminal was found until then, be it a tag's or a
\* face's and be its data complete or not (handleCRTIdentification).
FaceWaitsForTerminal ==
  [][\A n \in Cards : fetcher[n].pc = "free" /\ fetcher'[n].pc = "started" =>
       \A s \in fetcher[n].active : session[s].state # "active"]_vars
=============================================================================
