---------------------------- MODULE FacesProofs ----------------------------
(* Machine-checked proofs about faces, bans and sessions, for any sets of   *)
(* cameras, people, terminals and sessions, any answers of Vizir and any    *)
(* times.                                                                   *)
EXTENDS Faces, SequenceTheorems, TLAPS

USE NumbersAreNatural

\* What a goroutine has found out is there when it is used.
Known ==
  \A n \in Cards :
    /\ fetcher[n].pc # "none" => n <= Len(caught)
    /\ fetcher[n].pc \in {"matched", "identified", "let", "found", "free", "started"}
         => fetcher[n].who \in People
    /\ fetcher[n].pc \in {"found", "free", "started"} => fetcher[n].key \in Keys
    /\ fetcher[n].pc = "started" => fetcher[n].on \in Sessions

\* The face of a session has been identified, and its goroutine is over.
SessionsHaveFaces ==
  \A s \in Sessions : LET n == session[s].face IN
    n > 0 => fetcher[n].pc = "ended" /\ fetcher[n].who \in People /\ n <= Len(caught)

\* Vizir's events are in the order of their times, and what has been taken up,
\* or was there at the first poll, is before the time to poll from.
Polled ==
  /\ \A i, j \in DOMAIN caught : i <= j => caught[i].at <= caught[j].at
  /\ \A i \in DOMAIN caught : caught[i].at <= now
  /\ \A n \in Cards : fetcher[n].pc # "none" => caught[n].at < fetchedTime
  /\ baseline > 0 => caught[baseline].at < fetchedTime

\* A ban is kept as long as it lasts, and nobody was identified in the future.
BansKept ==
  /\ \A n \in Cards : fetcher[n].mtf <= now
  /\ \A cp \in Cameras \X People : banned[cp] > 0 =>
       \/ personCamBan[cp] = banned[cp] + BanTime
       \/ personCamBan[cp] = 0 /\ banned[cp] + BanTime < now

\* The sessions a goroutine has found are still its terminal's, and past the
\* check none of them is active.
Waited ==
  \A n \in Cards : \A s \in fetcher[n].active :
    /\ fetcher[n].pc \in {"found", "free"} =>
         session[s].state # "none" /\ session[s].key = fetcher[n].key
    /\ fetcher[n].pc = "free" => session[s].state # "active"

Typed == TypeOK /\ Known /\ SessionsHaveFaces

IInv == Typed /\ Polled /\ NobodyFromBefore /\ BansKept /\ Waited

----------------------------------------------------------------------------
(* Operators.                                                               *)

\* An event of Vizir's has a camera and a time, at most MaxCaught have one.
LEMMA EventsAreTyped ==
  ASSUME TypeOK
  PROVE  /\ Len(caught) \in Nat /\ DOMAIN caught = 1 .. Len(caught)
         /\ \A n \in 1 .. Len(caught) :
              /\ n \in Cards
              /\ caught[n] \in [cam : Cameras, at : Moments]
              /\ caught[n].cam \in Cameras /\ caught[n].at \in Moments
<1>1. caught \in Seq([cam : Cameras, at : Moments]) /\ Len(caught) <= MaxCaught
  BY DEF TypeOK
<1>2. Len(caught) \in Nat /\ DOMAIN caught = 1 .. Len(caught)
  BY <1>1, LenProperties
<1>3. \A n \in 1 .. Len(caught) : caught[n] \in [cam : Cameras, at : Moments]
  BY <1>1, ElementOfSeq
<1>4. \A n \in 1 .. Len(caught) : n \in Cards
  BY <1>1, <1>2 DEF Cards
<1> QED
  BY <1>2, <1>3, <1>4

\* What is polled was caught, and not before the time asked for
\* (CameraEvent/GetItems from a date on).
LEMMA ItemsAreRecent ==
  ASSUME TypeOK
  PROVE  \A n \in GetItems :
           /\ n \in 1 .. Len(caught) /\ n \in Cards
           /\ caught[n].cam \in Cameras /\ caught[n].at \in Moments
           /\ caught[n].at >= fetchedTime
BY EventsAreTyped DEF GetItems

\* What is polled has not been taken up before (pollCameraEvents).
LEMMA ItemsAreNew ==
  ASSUME TypeOK, Polled
  PROVE  \A n \in GetItems : fetcher[n].pc = "none"
<1>1. fetchedTime \in Nat
  BY DEF TypeOK
<1> QED
  BY <1>1, ItemsAreRecent DEF Polled, Moments

\* The best match is of somebody, or there is none (getMatchDetailMessage).
LEMMA BestIsSomebody ==
  ASSUME NEW answer \in Answers
  PROVE  BestMatch(answer) \in People \cup {Nobody}
<1>1. answer \in Seq([who : People \cup {Nobody}, score : Nat])
  BY AnswersNamePeople
<1>2. \A i \in DOMAIN answer : answer[i].who \in People \cup {Nobody}
  <2>1. DOMAIN answer = 1 .. Len(answer)
    BY <1>1, LenProperties
  <2>2. \A i \in 1 .. Len(answer) : answer[i] \in [who : People \cup {Nobody}, score : Nat]
    BY <1>1, ElementOfSeq
  <2> QED
    BY <2>1, <2>2
<1>3. Plausible(answer) \subseteq DOMAIN answer
  BY DEF Plausible
<1> QED
  BY <1>2, <1>3 DEF BestMatch

----------------------------------------------------------------------------
(* Types.                                                                   *)

\* The program starts well typed.
LEMMA InitTyped == Init => Typed
<1> SUFFICES ASSUME Init PROVE Typed
  OBVIOUS
<1>1. caught \in Seq([cam : Cameras, at : Moments]) /\ Len(caught) = 0
  BY EmptySeq DEF Init
<1>2. fetcher \in [Cards -> FetcherStates] /\ session \in [Sessions -> Records]
  BY DEF Init, NoFetcher, FetcherStates, Moments, Records
<1>3. TypeOK
  BY <1>1, <1>2 DEF Init, TypeOK, Moments
<1>4. Known
  BY DEF Init, Known, NoFetcher
<1>5. SessionsHaveFaces
  BY DEF Init, SessionsHaveFaces
<1> QED
  BY <1>3, <1>4, <1>5 DEF Typed

\* A goroutine goes on and keeps what it knows.
LEMMA WithPc ==
  ASSUME NEW f \in FetcherStates,
         NEW pc \in {"none", "fetching", "matched", "identified", "let", "found", "free",
                     "started", "ended"}
  PROVE  /\ [f EXCEPT !.pc = pc] \in FetcherStates
         /\ [f EXCEPT !.pc = pc].pc = pc
         /\ [f EXCEPT !.pc = pc].who = f.who /\ [f EXCEPT !.pc = pc].mtf = f.mtf
         /\ [f EXCEPT !.pc = pc].key = f.key /\ [f EXCEPT !.pc = pc].active = f.active
         /\ [f EXCEPT !.pc = pc].on = f.on
BY DEF FetcherStates

\* A step of a goroutine that leaves the rest alone but for bans.
LEMMA GoroutineTyped ==
  ASSUME Typed, NEW n \in Cards, NEW f \in FetcherStates,
         fetcher' = [fetcher EXCEPT ![n] = f],
         UNCHANGED <<now, caught, client, config, session, baseline>>,
         fetcher[n].pc \notin {"none", "ended"},
         f.pc # "none",
         f.pc \in {"matched", "identified", "let", "found", "free", "started"} => f.who \in People,
         f.pc \in {"found", "free", "started"} => f.key \in Keys,
         f.pc = "started" => f.on \in Sessions,
         personCamBan' \in [Cameras \X People -> 0 .. MaxNow + BanTime],
         banned' \in [Cameras \X People -> Moments]
  PROVE  Typed'
<1>1. TypeOK'
  BY DEF Typed, TypeOK, client, config
<1>2. fetcher'[n] = f /\ \A m \in Cards \ {n} : fetcher'[m] = fetcher[m]
  BY DEF Typed, TypeOK
<1>3. Known'
  BY <1>2 DEF Typed, Known
<1>4. SessionsHaveFaces'
  <2>1. \A s \in Sessions : session[s].face \in 0 .. MaxCaught
    BY DEF Typed, TypeOK, Records
  <2>2. \A s \in Sessions : session[s].face > 0 => session[s].face \in Cards \ {n}
    BY <2>1 DEF Typed, SessionsHaveFaces, Cards
  <2> QED
    BY <1>2, <2>2 DEF Typed, SessionsHaveFaces
<1> QED
  BY <1>1, <1>3, <1>4 DEF Typed

\* The goroutine may go on with what it knows already.
LEMMA ProceedTyped ==
  ASSUME Typed, NEW n \in Cards, NEW pc \in {"let", "free", "ended"}, Proceed(n, pc),
         UNCHANGED <<now, caught, client, config, session, baseline>>,
         fetcher[n].pc \notin {"none", "ended"},
         pc = "let" => fetcher[n].pc = "identified",
         pc = "free" => fetcher[n].pc = "found",
         personCamBan' \in [Cameras \X People -> 0 .. MaxNow + BanTime],
         banned' \in [Cameras \X People -> Moments]
  PROVE  Typed'
<1> DEFINE f == [fetcher[n] EXCEPT !.pc = pc]
<1>1. fetcher[n] \in FetcherStates
  BY DEF Typed, TypeOK
<1>2. f \in FetcherStates /\ f.pc = pc /\ f.who = fetcher[n].who /\ f.key = fetcher[n].key
  <2>1. pc \in {"none", "fetching", "matched", "identified", "let", "found", "free", "started",
                "ended"}
    OBVIOUS
  <2> QED
    BY <1>1, <2>1 DEF FetcherStates
<1>3. fetcher' = [fetcher EXCEPT ![n] = f]
  BY DEF Proceed
<1>4. /\ pc = "let" => f.who \in People
      /\ pc = "free" => f.who \in People /\ f.key \in Keys
  BY <1>2 DEF Typed, Known
<1> HIDE DEF f
<1> QED
  BY <1>2, <1>3, <1>4, GoroutineTyped

\* A session changes and keeps its face.
LEMMA SessionTyped ==
  ASSUME Typed, NEW s \in Sessions, NEW r \in Records, r.face = session[s].face,
         session' = [session EXCEPT ![s] = r],
         UNCHANGED <<now, caught, client, personCamBan, fetcher, config, banned, baseline>>
  PROVE  Typed'
<1>1. UNCHANGED <<now, caught, fetchedTime, camEvents, banIdleNext, personCamBan, fetcher, settings,
                  passOnly, banned, baseline>>
  BY DEF client, config
<1>2. session' \in [Sessions -> Records] /\ \A x \in Sessions : session'[x].face = session[x].face
  BY DEF Typed, TypeOK
<1> QED
  BY <1>1, <1>2 DEF Typed, TypeOK, Known, SessionsHaveFaces

\* A goroutine starts a session, or tells it of its face and is over.
LEMMA SessionAndFaceTyped ==
  ASSUME Typed, NEW n \in Cards, NEW g \in FetcherStates, NEW s \in Sessions, NEW r \in Records,
         fetcher' = [fetcher EXCEPT ![n] = g], session' = [session EXCEPT ![s] = r],
         UNCHANGED <<now, caught, client, personCamBan, config, banned, baseline>>,
         fetcher[n].pc \in {"free", "started"},
         g.who = fetcher[n].who, g.key = fetcher[n].key,
         \/ g.pc = "started" /\ g.on \in Sessions /\ r.face = session[s].face
         \/ g.pc = "ended" /\ r.face = n
  PROVE  Typed'
<1>1. UNCHANGED <<now, caught, fetchedTime, camEvents, banIdleNext, personCamBan, settings,
                  passOnly, banned, baseline>>
  BY DEF client, config
<1>2. /\ session' \in [Sessions -> Records]
      /\ session'[s] = r /\ \A x \in Sessions \ {s} : session'[x] = session[x]
  BY DEF Typed, TypeOK
<1>3. /\ fetcher' \in [Cards -> FetcherStates]
      /\ fetcher'[n] = g /\ \A m \in Cards \ {n} : fetcher'[m] = fetcher[m]
  BY DEF Typed, TypeOK
<1>4. TypeOK'
  BY <1>1, <1>2, <1>3 DEF Typed, TypeOK
<1>5. g.who \in People /\ g.key \in Keys /\ n <= Len(caught)
  BY DEF Typed, Known
<1>6. Known'
  BY <1>1, <1>3, <1>5 DEF Typed, Known
<1>7. \A x \in Sessions : session[x].face \in 0 .. MaxCaught
  BY DEF Typed, TypeOK, Records
<1>8. \A x \in Sessions : session[x].face > 0 => session[x].face \in Cards \ {n}
  BY <1>7 DEF Typed, SessionsHaveFaces, Cards
<1>9. SessionsHaveFaces'
  BY <1>1, <1>2, <1>3, <1>5, <1>7, <1>8 DEF Typed, SessionsHaveFaces
<1> QED
  BY <1>4, <1>6, <1>9 DEF Typed

\* Every step keeps the types, and what a goroutine and a session know of a
\* face.
LEMMA StepTyped ==
  ASSUME Typed, Polled, [Next]_vars
  PROVE  Typed'
<1> USE DEF client, config
<1>0. TypeOK
  BY DEF Typed
<1>1. CASE Tick
  BY <1>1 DEF Tick, Typed, TypeOK, Known, SessionsHaveFaces
<1>2. ASSUME NEW cam \in Cameras, Catch(cam)
      PROVE  Typed'
  <2>1. now \in Moments /\ caught \in Seq([cam : Cameras, at : Moments])
    BY <1>0 DEF TypeOK, Moments
  <2>2. [cam |-> cam, at |-> now] \in [cam : Cameras, at : Moments]
    BY <2>1
  <2>3. /\ caught' \in Seq([cam : Cameras, at : Moments])
        /\ Len(caught') = Len(caught) + 1 /\ Len(caught') <= MaxCaught
    BY <1>2, <2>1, <2>2, EventsAreTyped, AppendProperties DEF Catch, Typed
  <2>4. TypeOK'
    BY <1>2, <2>3, EventsAreTyped, <1>0 DEF Catch, TypeOK
  <2>5. Known' /\ SessionsHaveFaces'
    BY <1>2, <2>3, EventsAreTyped DEF Catch, Typed, TypeOK, Known, SessionsHaveFaces, Cards, Records
  <2> QED
    BY <2>4, <2>5 DEF Typed
<1>3. CASE PollCameraEvents
  <2>1. PICK newest \in GetItems : /\ fetchedTime' = caught[newest].at + 1
                                  /\ baseline' = IF fetchedTime = 0 THEN newest ELSE baseline
    BY <1>3 DEF PollCameraEvents
  <2>2. newest \in 1 .. Len(caught) /\ caught[newest].at \in Moments
    BY <1>0, ItemsAreRecent
  <2>3. fetchedTime' \in 0 .. MaxNow + 1 /\ baseline' \in 0 .. Len(caught)
    <3>1. caught[newest].at \in 0 .. MaxNow
      BY <2>2 DEF Moments
    <3>2. baseline \in 0 .. Len(caught) /\ Len(caught) \in Nat
      BY <1>0, EventsAreTyped DEF TypeOK
    <3> QED
      BY <2>1, <2>2, <3>1, <3>2
  <2> DEFINE new == IF fetchedTime = 0 THEN {} ELSE New(GetItems)
  <2>4. \A n \in new : n \in 1 .. Len(caught) /\ n \in Cards
    BY <1>0, ItemsAreRecent DEF New, NewestOf
  <2>5. TakeUp(new) /\ UNCHANGED <<now, caught, banIdleNext, personCamBan, config, session, banned>>
    BY <1>3 DEF PollCameraEvents
  <2> HIDE DEF new
  <2>6. camEvents' \in [Cameras -> 0 .. Len(caught)]
    <3>1. \A cam \in Cameras : camEvents[cam] \in 0 .. Len(caught)
      BY <1>0 DEF TypeOK
    <3>2. \A cam \in Cameras : (\E n \in new : caught[n].cam = cam) =>
            (CHOOSE n \in new : caught[n].cam = cam) \in 0 .. Len(caught)
      BY <2>4, EventsAreTyped, <1>0
    <3> QED
      BY <2>5, <3>1, <3>2 DEF TakeUp
  <2>7. \A n \in Cards : \/ fetcher'[n] = fetcher[n]
                         \/ n \in new /\ fetcher'[n] = [fetcher[n] EXCEPT !.pc = "fetching"]
    BY <2>5 DEF TakeUp
  <2> DEFINE begun(n) == [fetcher[n] EXCEPT !.pc = "fetching"]
  <2>12. \A n \in Cards : begun(n) \in FetcherStates /\ begun(n).pc = "fetching"
    <3>1. SUFFICES ASSUME NEW n \in Cards
                   PROVE  begun(n) \in FetcherStates /\ begun(n).pc = "fetching"
      OBVIOUS
    <3>2. fetcher[n] \in FetcherStates
      BY <1>0 DEF TypeOK
    <3> QED
      BY <3>2, WithPc
  <2>13. \A n \in Cards : fetcher'[n] = fetcher[n] \/ (n \in new /\ fetcher'[n] = begun(n))
    BY <2>7
  <2> HIDE DEF begun
  <2>14. UNCHANGED caught /\ UNCHANGED session
    BY <2>5
  <2>8. fetcher' \in [Cards -> FetcherStates]
    <3>1. \A n \in Cards : fetcher[n] \in FetcherStates
      BY <1>0 DEF TypeOK
    <3>2. \A n \in Cards : fetcher'[n] \in FetcherStates
      BY <2>12, <2>13, <3>1
    <3>3. fetcher' = [n \in Cards |-> fetcher'[n]]
      BY <2>5 DEF TakeUp
    <3> QED
      BY <3>2, <3>3
  <2>9. TypeOK'
    <3>1. UNCHANGED <<now, caught, banIdleNext, personCamBan, settings, passOnly, session, banned>>
      BY <2>5
    <3> QED
      BY <1>0, <2>3, <2>6, <2>8, <3>1 DEF TypeOK
  <2>10. Known'
    <3>1. \A n \in Cards : fetcher'[n].pc # "fetching" => fetcher'[n] = fetcher[n]
      BY <2>12, <2>13
    <3>2. \A n \in Cards : fetcher'[n].pc # "none" => n <= Len(caught')
      BY <2>4, <2>13, <2>14 DEF Typed, Known
    <3> QED
      BY <3>1, <3>2 DEF Typed, Known
  <2>11. SessionsHaveFaces'
    <3>1. \A s \in Sessions : session[s].face \in 0 .. MaxCaught
      BY <1>0 DEF TypeOK, Records
    <3>2. \A n \in Cards : fetcher[n].pc = "ended" => n \notin new
      BY <1>0, ItemsAreNew DEF New, NewestOf, new
    <3> QED
      BY <2>13, <2>14, <3>1, <3>2 DEF Typed, SessionsHaveFaces, Cards
  <2> QED
    BY <2>9, <2>10, <2>11 DEF Typed
<1>4. CASE IdleBan
  <2>1. /\ personCamBan' \in [Cameras \X People -> 0 .. MaxNow + BanTime]
        /\ banIdleNext' \in 0 .. MaxNow + IdlePeriod
    BY <1>0, <1>4 DEF IdleBan, TypeOK
  <2>2. UNCHANGED <<now, caught, fetchedTime, camEvents, fetcher, settings, passOnly, session, banned, baseline>>
    BY <1>4 DEF IdleBan
  <2>3. TypeOK'
    BY <1>0, <2>1, <2>2 DEF TypeOK
  <2> QED
    BY <2>2, <2>3 DEF Typed, Known, SessionsHaveFaces
<1>5. ASSUME NEW n \in Cards, Face(n)
      PROVE  Typed'
  <2> DEFINE f == fetcher[n]
  <2>1. /\ f \in FetcherStates
        /\ personCamBan \in [Cameras \X People -> 0 .. MaxNow + BanTime]
        /\ banned \in [Cameras \X People -> Moments]
        /\ fetcher \in [Cards -> FetcherStates]
        /\ now \in Moments
    BY <1>0 DEF TypeOK, Moments
  <2>2. /\ f.pc \in {"matched", "identified", "let", "found", "free", "started"} => f.who \in People
        /\ f.pc \in {"found", "free", "started"} => f.key \in Keys
        /\ f.pc = "started" => f.on \in Sessions
        /\ f.pc # "none" => /\ n \in 1 .. Len(caught) /\ caught[n].cam \in Cameras
                            /\ n <= Len(caught)
    BY <1>0, EventsAreTyped DEF Typed, Known, Cards
  <2>3. CASE Fails(n)
    BY <1>0, <2>1, <2>3, ProceedTyped DEF Fails
  <2>4. CASE FetchMatchDetails(n)
    <3>1. PICK answer \in Answers : fetcher' = [fetcher EXCEPT
            ![n].who = BestMatch(answer),
            ![n].pc = IF BestMatch(answer) = Nobody THEN "ended" ELSE "matched"]
      BY <2>4 DEF FetchMatchDetails
    <3> DEFINE who == BestMatch(answer)
               g == [f EXCEPT !.who = who, !.pc = IF who = Nobody THEN "ended" ELSE "matched"]
    <3>2. who \in People \cup {Nobody}
      BY BestIsSomebody
    <3>3. fetcher' = [fetcher EXCEPT ![n] = g]
      BY <3>1, <2>1
    <3> HIDE DEF who
    <3>4. g \in FetcherStates /\ g.pc \in {"ended", "matched"} /\ (g.pc = "matched" => g.who \in People)
      BY <3>2, <2>1 DEF FetcherStates
    <3> HIDE DEF g
    <3> QED
      BY <2>1, <2>4, <3>3, <3>4, GoroutineTyped DEF FetchMatchDetails
  <2>5. CASE FetchPersonCard(n)
    <3> DEFINE g == [f EXCEPT !.pc = "identified", !.mtf = now]
    <3>1. fetcher' = [fetcher EXCEPT ![n] = g]
      BY <2>1, <2>5 DEF FetchPersonCard
    <3>2. g \in FetcherStates /\ g.pc = "identified" /\ g.who = f.who
      BY <2>1 DEF FetcherStates
    <3> HIDE DEF g
    <3> QED
      BY <2>1, <2>2, <2>5, <3>1, <3>2, GoroutineTyped DEF FetchPersonCard
  <2>6. CASE ProcessIdentification(n)
    <3>1. /\ personCamBan' \in [Cameras \X People -> 0 .. MaxNow + BanTime]
          /\ banned' \in [Cameras \X People -> Moments]
      <4> DEFINE cp == <<caught[n].cam, f.who>>
      <4>1. cp \in Cameras \X People
        BY <2>2, <2>6 DEF ProcessIdentification
      <4>2. /\ personCamBan' \in {personCamBan, [personCamBan EXCEPT ![cp] = f.mtf + BanTime]}
            /\ banned' \in {banned, [banned EXCEPT ![cp] = f.mtf]}
        BY <2>6 DEF ProcessIdentification
      <4>3. f.mtf \in Moments /\ f.mtf + BanTime \in 0 .. MaxNow + BanTime
        BY <2>1 DEF FetcherStates, Moments
      <4> HIDE DEF cp, f
      <4> QED
        BY <2>1, <4>1, <4>2, <4>3
    <3> QED
      BY <2>1, <2>6, <3>1, ProceedTyped DEF ProcessIdentification
  <2>7. CASE FindTerminal(n)
    <3>1. ASSUME NEW k \in Keys,
                 fetcher' = [fetcher EXCEPT ![n].pc = "found", ![n].key = k,
                               ![n].active = {s \in Sessions : Active(s, k)}]
          PROVE  Typed'
      <4> DEFINE g == [f EXCEPT !.pc = "found", !.key = k,
                               !.active = {s \in Sessions : Active(s, k)}]
      <4>1. fetcher' = [fetcher EXCEPT ![n] = g]
        BY <2>1, <3>1
      <4>2. g \in FetcherStates /\ g.pc = "found" /\ g.who = f.who /\ g.key = k
        BY <2>1 DEF FetcherStates
      <4> HIDE DEF g
      <4> QED
        BY <2>1, <2>2, <2>7, <4>1, <4>2, GoroutineTyped DEF FindTerminal
    <3>2. CASE Proceed(n, "ended")
      BY <2>1, <2>7, <3>2, ProceedTyped DEF FindTerminal
    <3> QED
      BY <2>7, <3>1, <3>2 DEF FindTerminal
  <2>8. CASE CheckSessions(n)
    <3>1. PICK pc \in {"ended", "free"} : Proceed(n, pc)
      BY <2>8 DEF CheckSessions
    <3> QED
      BY <2>1, <2>8, <3>1, ProceedTyped DEF CheckSessions
  <2>9. ASSUME NEW s \in Sessions, StartSession(n, s)
        PROVE  Typed'
    <3> DEFINE g == [f EXCEPT !.pc = "started", !.on = s]
               r == [session[s] EXCEPT !.state = "active", !.key = f.key]
    <3>1. fetcher' = [fetcher EXCEPT ![n] = g] /\ session' = [session EXCEPT ![s] = r]
      BY <2>1, <2>9 DEF StartSession
    <3>2. g \in FetcherStates /\ g.pc = "started" /\ g.who = f.who /\ g.key = f.key /\ g.on = s
      BY <2>1 DEF FetcherStates
    <3>3. f.pc = "free" /\ f.key \in Keys
      BY <2>2, <2>9 DEF StartSession
    <3>4. session[s] \in Records /\ r \in Records /\ r.face = session[s].face
      BY <1>0, <3>3 DEF TypeOK, Records
    <3>5. UNCHANGED <<now, caught, client, personCamBan, config, banned, baseline>>
      BY <2>9 DEF StartSession
    <3>6. fetcher[n].pc \in {"free", "started"} /\ g.who = fetcher[n].who /\ g.key = fetcher[n].key
      BY <3>2, <3>3
    <3>7. g.pc = "started" /\ g.on \in Sessions /\ r.face = session[s].face
      BY <3>2, <3>4
    <3>8. g \in FetcherStates /\ r \in Records
      BY <3>2, <3>4
    <3> HIDE DEF g, r, f
    <3> QED
      BY <3>1, <3>5, <3>6, <3>7, <3>8, SessionAndFaceTyped
  <2>10. CASE SetFaceData(n)
    <3> DEFINE g == [f EXCEPT !.pc = "ended"]
               r == [session[f.on] EXCEPT !.face = n]
    <3>1. fetcher' = [fetcher EXCEPT ![n] = g] /\ session' = [session EXCEPT ![f.on] = r]
      BY <2>1, <2>10 DEF SetFaceData, Proceed
    <3>2. g \in FetcherStates /\ g.pc = "ended" /\ g.who = f.who /\ g.key = f.key
      BY <2>1 DEF FetcherStates
    <3>3. f.pc = "started" /\ f.on \in Sessions
      BY <2>2, <2>10 DEF SetFaceData
    <3>4. session[f.on] \in Records
      BY <1>0, <3>3 DEF TypeOK
    <3>5. r \in Records /\ r.face = n
      BY <3>4 DEF Records, Cards
    <3>6. UNCHANGED <<now, caught, client, personCamBan, config, banned, baseline>>
      BY <2>10 DEF SetFaceData
    <3>7. fetcher[n].pc \in {"free", "started"} /\ g.who = fetcher[n].who /\ g.key = fetcher[n].key
      BY <3>2, <3>3
    <3> DEFINE s == f.on
    <3>8. /\ session' = [session EXCEPT ![s] = r] /\ fetcher' = [fetcher EXCEPT ![n] = g]
          /\ s \in Sessions /\ g \in FetcherStates /\ g.pc = "ended"
      BY <3>1, <3>2, <3>3
    <3> HIDE DEF g, r, s
    <3> QED
      BY <3>5, <3>6, <3>7, <3>8, SessionAndFaceTyped
  <2> QED
    BY <1>5, <2>3, <2>4, <2>5, <2>6, <2>7, <2>8, <2>9, <2>10 DEF Face
<1>6. ASSUME NEW k \in Keys, NEW t \in Terminals \cup {NoTerminal}, Connect(k, t)
      PROVE  Typed'
  <2>1. settings' \in [Keys -> Terminals \cup {NoTerminal}]
    BY <1>0, <1>6 DEF TypeOK, Connect
  <2>2. UNCHANGED <<passOnly, now, caught, fetchedTime, camEvents, banIdleNext, personCamBan,
                    fetcher, session, banned, baseline>>
    BY <1>6 DEF Connect
  <2> QED
    BY <1>0, <2>1, <2>2 DEF Typed, TypeOK, Known, SessionsHaveFaces
<1>7. ASSUME NEW k \in Keys, NEW s \in Sessions, ProcessTagRead(k, s)
      PROVE  Typed'
  <2> DEFINE r == [session[s] EXCEPT !.state = "active", !.key = k]
  <2>1. session' = [session EXCEPT ![s] = r]
    BY <1>0, <1>7 DEF ProcessTagRead, TypeOK
  <2>2. session[s] \in Records /\ r \in Records /\ r.face = session[s].face
    BY <1>0 DEF TypeOK, Records
  <2> HIDE DEF r
  <2> QED
    BY <1>7, <2>1, <2>2, SessionTyped DEF ProcessTagRead
<1>8. ASSUME NEW s \in Sessions, SessionEnds(s)
      PROVE  Typed'
  <2> DEFINE r == [session[s] EXCEPT !.state = "over"]
  <2>1. session' = [session EXCEPT ![s] = r]
    BY <1>0, <1>8 DEF SessionEnds, TypeOK
  <2>2. session[s] \in Records /\ r \in Records /\ r.face = session[s].face
    BY <1>0 DEF TypeOK, Records
  <2> HIDE DEF r
  <2> QED
    BY <1>8, <2>1, <2>2, SessionTyped DEF SessionEnds
<1>9. ASSUME NEW k \in Keys, ProcessPassEvent(k)
      PROVE  Typed'
  <2>1. PICK s \in Sessions : BanAfterPass(s)
    BY <1>9 DEF ProcessPassEvent
  <2> DEFINE n == session[s].face
             cp == <<caught[n].cam, fetcher[n].who>>
  <2>2. n \in Cards
    BY <1>0, <2>1 DEF TypeOK, Records, BanAfterPass, Cards
  <2>3. cp \in Cameras \X People
    BY <1>0, <2>1, <2>2, EventsAreTyped DEF Typed, SessionsHaveFaces, BanAfterPass, Cards
  <2>4. /\ personCamBan' = [personCamBan EXCEPT ![cp] = now + BanTime]
        /\ banned' = [banned EXCEPT ![cp] = now]
    BY <2>1 DEF BanAfterPass
  <2>5. now \in Moments /\ now + BanTime \in 0 .. MaxNow + BanTime
    BY <1>0 DEF TypeOK, Moments
  <2> HIDE DEF cp
  <2>6. /\ personCamBan' \in [Cameras \X People -> 0 .. MaxNow + BanTime]
        /\ banned' \in [Cameras \X People -> Moments]
    BY <1>0, <2>3, <2>4, <2>5 DEF TypeOK
  <2>7. UNCHANGED <<now, caught, fetchedTime, camEvents, banIdleNext, fetcher, settings, passOnly,
                    session, baseline>>
    BY <1>9 DEF ProcessPassEvent
  <2> QED
    BY <1>0, <2>6, <2>7 DEF Typed, TypeOK, Known, SessionsHaveFaces
<1>10. CASE UNCHANGED vars
  <2>1. UNCHANGED <<now, caught, fetchedTime, camEvents, banIdleNext, personCamBan, fetcher, settings,
                    passOnly, session, banned, baseline>>
    BY <1>10 DEF vars
  <2> QED
    BY <1>0, <2>1 DEF Typed, TypeOK, Known, SessionsHaveFaces
<1> QED
  BY <1>1, <1>2, <1>3, <1>4, <1>5, <1>6, <1>7, <1>8, <1>9, <1>10 DEF Next

----------------------------------------------------------------------------
(* Polling.                                                                 *)

\* A face that is not being taken up by a poll goes on, or stays as it is: one
\* that was not taken up is not, and the moment it was identified at is before
\* the next.
LEMMA FaceGoesOn ==
  ASSUME Typed, NEW n \in Cards, Face(n)
  PROVE  /\ fetcher[n].pc # "none"
         /\ \A m \in Cards \ {n} : fetcher'[m] = fetcher[m]
         /\ UNCHANGED <<now, caught, client, config, baseline>>
         /\ fetcher'[n].pc # "none"
         /\ fetcher'[n].mtf = fetcher[n].mtf \/ FetchPersonCard(n)
<1>1. fetcher \in [Cards -> FetcherStates] /\ fetcher[n] \in FetcherStates
  BY DEF Typed, TypeOK
<1>2. /\ fetcher[n].pc # "none"
      /\ UNCHANGED <<now, caught, client, config, baseline>>
  BY DEF Face, Fails, FetchMatchDetails, FetchPersonCard, ProcessIdentification, FindTerminal,
         CheckSessions, StartSession, SetFaceData, client, config
<1> DEFINE Moved == /\ \A m \in Cards \ {n} : fetcher'[m] = fetcher[m]
                    /\ fetcher'[n].pc # "none"
                    /\ fetcher'[n].mtf = fetcher[n].mtf \/ FetchPersonCard(n)
<1>3. ASSUME NEW pc \in {"ended", "let", "free"}, Proceed(n, pc)
      PROVE  Moved
  BY <1>1, <1>3 DEF Proceed, FetcherStates
<1>4. CASE Fails(n) \/ ProcessIdentification(n) \/ CheckSessions(n) \/ SetFaceData(n)
  <2>1. PICK pc \in {"ended", "let", "free"} : Proceed(n, pc)
    BY <1>4 DEF Fails, ProcessIdentification, CheckSessions, SetFaceData
  <2> QED
    BY <2>1, <1>2, <1>3
<1>5. CASE FetchMatchDetails(n)
  BY <1>1, <1>2, <1>5 DEF FetchMatchDetails, FetcherStates
<1>6. CASE FetchPersonCard(n)
  BY <1>1, <1>2, <1>6 DEF FetchPersonCard, FetcherStates
<1>7. CASE FindTerminal(n)
  <2>1. ASSUME NEW k \in Keys, NEW active,
               fetcher' = [fetcher EXCEPT ![n].pc = "found", ![n].key = k, ![n].active = active]
        PROVE  Moved
    BY <1>1, <2>1 DEF FetcherStates
  <2> QED
    BY <1>3, <1>7, <2>1 DEF FindTerminal
<1>8. CASE \E s \in Sessions : StartSession(n, s)
  BY <1>1, <1>8 DEF StartSession, FetcherStates
<1> QED
  BY <1>2, <1>4, <1>5, <1>6, <1>7, <1>8 DEF Face

\* Polls move the time to poll from past what they take up, and what was there
\* at the first is not taken up later.
LEMMA StepPolled ==
  ASSUME Typed, Polled, NobodyFromBefore, [Next]_vars
  PROVE  Polled' /\ NobodyFromBefore'
<1>0. /\ TypeOK /\ Len(caught) \in Nat /\ DOMAIN caught = 1 .. Len(caught)
      /\ now \in Nat /\ fetchedTime \in Nat /\ baseline \in Nat /\ baseline <= Len(caught)
      /\ \A n \in 1 .. Len(caught) : n \in Cards /\ caught[n].at \in Nat
      /\ \A n \in Cards : n \in Nat /\ n > 0
      /\ \A n \in Cards : fetcher[n].pc # "none" => n <= Len(caught)
  BY EventsAreTyped DEF Typed, TypeOK, Known, Moments, Cards
<1>1. CASE Tick
  BY <1>0, <1>1 DEF Tick, Polled, NobodyFromBefore, client
<1>2. ASSUME NEW cam \in Cameras, Catch(cam)
      PROVE  Polled' /\ NobodyFromBefore'
  <2>1. /\ DOMAIN caught' = 1 .. Len(caught) + 1
        /\ \A n \in 1 .. Len(caught) : caught'[n] = caught[n]
        /\ caught'[Len(caught) + 1].at = now
    <3>1. caught \in Seq([cam : Cameras, at : Moments])
          /\ [cam |-> cam, at |-> now] \in [cam : Cameras, at : Moments]
      BY <1>0 DEF TypeOK, Moments
    <3> QED
      BY <1>2, <3>1, AppendProperties, LenProperties DEF Catch
  <2>2. UNCHANGED <<now, fetchedTime, fetcher, baseline>>
    BY <1>2 DEF Catch, client
  <2>3. \A i \in 1 .. Len(caught) + 1 : i \in 1 .. Len(caught) \/ i = Len(caught) + 1
    BY <1>0
  <2>4. \A i, j \in 1 .. Len(caught) : i <= j => caught[i].at <= caught[j].at
    BY <1>0 DEF Polled
  <2>5. \A i \in 1 .. Len(caught) : caught[i].at <= now
    BY <1>0 DEF Polled
  <2>6. \A i, j \in DOMAIN caught' : i <= j => caught'[i].at <= caught'[j].at
    BY <1>0, <2>1, <2>3, <2>4, <2>5
  <2>7. \A i \in DOMAIN caught' : caught'[i].at <= now'
    BY <1>0, <2>1, <2>2, <2>3, <2>5
  <2>8. \A n \in Cards : fetcher'[n].pc # "none" => caught'[n].at < fetchedTime'
    BY <1>0, <2>1, <2>2 DEF Polled
  <2>9. baseline' > 0 => caught'[baseline'].at < fetchedTime'
    BY <1>0, <2>1, <2>2 DEF Polled
  <2>10. NobodyFromBefore'
    BY <2>2 DEF NobodyFromBefore
  <2> QED
    BY <2>6, <2>7, <2>8, <2>9, <2>10 DEF Polled
<1>3. CASE PollCameraEvents
  <2>1. PICK newest \in GetItems : /\ \A o \in GetItems : o <= newest
                                  /\ fetchedTime' = caught[newest].at + 1
                                  /\ baseline' = IF fetchedTime = 0 THEN newest ELSE baseline
    BY <1>3 DEF PollCameraEvents
  <2> DEFINE new == IF fetchedTime = 0 THEN {} ELSE New(GetItems)
  <2>2. UNCHANGED <<now, caught>> /\ TakeUp(new)
    BY <1>3 DEF PollCameraEvents
  <2>3. \A n \in new : n \in GetItems /\ fetchedTime > 0
    BY <1>0 DEF New, NewestOf
  <2> HIDE DEF new
  <2>4. \A n \in Cards : fetcher'[n] = fetcher[n] \/ n \in new
    BY <2>2 DEF TakeUp
  <2>5. newest \in 1 .. Len(caught) /\ caught[newest].at >= fetchedTime /\ newest > 0
    BY <1>0, <2>1, ItemsAreRecent
  <2>6. \A n \in new : n \in 1 .. Len(caught) /\ n <= newest /\ caught[n].at >= fetchedTime
    BY <1>0, <2>1, <2>3, ItemsAreRecent
  <2>7. fetchedTime' > fetchedTime /\ fetchedTime' > caught[newest].at
    BY <1>0, <2>1, <2>5
  <2>8. \A n \in new : caught[n].at <= caught[newest].at
    BY <1>0, <2>5, <2>6 DEF Polled
  <2>9. \A n \in Cards : fetcher'[n].pc # "none" => caught'[n].at < fetchedTime'
    <3>1. SUFFICES ASSUME NEW n \in Cards, fetcher'[n].pc # "none"
                   PROVE  caught[n].at < fetchedTime'
      BY <2>2
    <3>2. CASE n \in new
      BY <3>2, <1>0, <2>1, <2>5, <2>6, <2>8
    <3>3. CASE fetcher'[n] = fetcher[n]
      BY <3>1, <3>3, <1>0, <2>1, <2>5, <2>7 DEF Polled
    <3> QED
      BY <3>2, <3>3, <2>4
  <2>10. baseline' > 0 => caught'[baseline'].at < fetchedTime'
    BY <1>0, <2>1, <2>2, <2>5, <2>7 DEF Polled
  <2>11. NobodyFromBefore'
    <3>1. CASE fetchedTime = 0
      <4>1. \A n \in Cards : fetcher[n].pc = "none"
        BY <3>1, <1>0 DEF Polled
      <4> QED
        BY <3>1, <4>1, <2>3, <2>4, <1>0 DEF NobodyFromBefore
    <3>2. CASE fetchedTime > 0
      <4>1. baseline' = baseline
        BY <3>2, <2>1
      <4>2. \A n \in new : n > baseline
        BY <1>0, <2>6 DEF Polled
      <4> QED
        BY <4>1, <4>2, <2>4, <1>0 DEF NobodyFromBefore
    <3> QED
      BY <1>0, <3>1, <3>2
  <2> QED
    BY <2>2, <2>9, <2>10, <2>11 DEF Polled
<1>4. CASE IdleBan
  BY <1>4 DEF IdleBan, Polled, NobodyFromBefore
<1>5. ASSUME NEW n \in Cards, Face(n)
      PROVE  Polled' /\ NobodyFromBefore'
  BY <1>5, FaceGoesOn DEF Polled, NobodyFromBefore, client
<1>6. CASE UNCHANGED <<now, caught, fetchedTime, fetcher, baseline>>
  BY <1>6 DEF Polled, NobodyFromBefore
<1>7. ASSUME \/ \E k \in Keys, t \in Terminals \cup {NoTerminal} : Connect(k, t)
             \/ \E k \in Keys, s \in Sessions : ProcessTagRead(k, s)
             \/ \E s \in Sessions : SessionEnds(s)
             \/ \E k \in Keys : ProcessPassEvent(k)
             \/ UNCHANGED vars
      PROVE  UNCHANGED <<now, caught, fetchedTime, fetcher, baseline>>
  BY <1>7 DEF Connect, ProcessTagRead, SessionEnds, ProcessPassEvent, vars, client
<1> QED
  BY <1>1, <1>2, <1>3, <1>4, <1>5, <1>6, <1>7 DEF Next

----------------------------------------------------------------------------
(* Bans.                                                                    *)

\* A ban is there as long as it lasts, whoever sets or drops it and whenever
\* the goroutine that read the clock gets the lock.
LEMMA StepBansKept ==
  ASSUME Typed, BansKept, [Next]_vars
  PROVE  BansKept'
<1> DEFINE Kept(cp) == \/ personCamBan[cp] = banned[cp] + BanTime
                       \/ personCamBan[cp] = 0 /\ banned[cp] + BanTime < now
<1>0. /\ now \in Nat
      /\ personCamBan \in [Cameras \X People -> Nat] /\ banned \in [Cameras \X People -> Nat]
      /\ \A n \in Cards : fetcher[n].mtf \in Nat /\ fetcher[n].mtf <= now
      /\ fetcher \in [Cards -> FetcherStates]
  <2>1. \A n \in Cards : fetcher[n].mtf \in Nat
    BY DEF Typed, TypeOK, FetcherStates, Moments
  <2> QED
    BY <2>1 DEF Typed, TypeOK, Moments, BansKept
<1>1. CASE Tick
  <2>1. now' = now + 1 /\ UNCHANGED <<fetcher, personCamBan, banned>>
    BY <1>1 DEF Tick
  <2> QED
    BY <1>0, <2>1 DEF BansKept
<1>2. CASE IdleBan
  <2>1. /\ \A cp \in Cameras \X People :
             personCamBan'[cp] = IF personCamBan[cp] < now THEN 0 ELSE personCamBan[cp]
        /\ UNCHANGED <<now, fetcher, banned>>
    BY <1>0, <1>2 DEF IdleBan
  <2> QED
    BY <1>0, <2>1 DEF BansKept
<1>3. ASSUME NEW cp \in Cameras \X People, NEW since \in Nat, since <= now,
             personCamBan' = [personCamBan EXCEPT ![cp] = since + BanTime],
             banned' = [banned EXCEPT ![cp] = since],
             now' = now, \A n \in Cards : fetcher'[n].mtf = fetcher[n].mtf
      PROVE  BansKept'
  BY <1>0, <1>3 DEF BansKept
<1>4. ASSUME NEW n \in Cards, Face(n)
      PROVE  BansKept'
  <2>1. CASE ProcessIdentification(n)
    <3> DEFINE cp == <<caught[n].cam, fetcher[n].who>>
    <3>1. now' = now /\ \A m \in Cards : fetcher'[m].mtf = fetcher[m].mtf
      BY <1>0, <2>1 DEF ProcessIdentification, Proceed, FetcherStates
    <3>2. cp \in Cameras \X People
      BY <2>1, EventsAreTyped DEF ProcessIdentification, Typed, Known, Cards
    <3>3. \/ /\ personCamBan' = [personCamBan EXCEPT ![cp] = fetcher[n].mtf + BanTime]
             /\ banned' = [banned EXCEPT ![cp] = fetcher[n].mtf]
          \/ UNCHANGED <<personCamBan, banned>>
      BY <2>1 DEF ProcessIdentification
    <3> HIDE DEF cp
    <3>4. CASE UNCHANGED <<personCamBan, banned>>
      BY <1>0, <3>1, <3>4 DEF BansKept
    <3> QED
      BY <1>0, <1>3, <3>1, <3>2, <3>3, <3>4
  <2>2. CASE FetchPersonCard(n)
    <3>1. /\ UNCHANGED <<now, personCamBan, banned>>
          /\ \A m \in Cards : fetcher'[m].mtf \in {fetcher[m].mtf, now}
      BY <1>0, <2>2 DEF FetchPersonCard, FetcherStates
    <3> QED
      BY <1>0, <3>1 DEF BansKept
  <2>3. ASSUME \/ Fails(n) \/ FetchMatchDetails(n) \/ FindTerminal(n) \/ CheckSessions(n)
               \/ \E s \in Sessions : StartSession(n, s)
               \/ SetFaceData(n),
               ~FetchPersonCard(n)
        PROVE  BansKept'
    <3>1. UNCHANGED <<now, personCamBan, banned>>
      BY <2>3 DEF Fails, FetchMatchDetails, FindTerminal, CheckSessions, StartSession, SetFaceData
    <3>2. fetcher'[n].mtf = fetcher[n].mtf /\ \A m \in Cards \ {n} : fetcher'[m] = fetcher[m]
      BY <1>4, <2>3, FaceGoesOn
    <3> QED
      BY <1>0, <3>1, <3>2 DEF BansKept
  <2> QED
    BY <1>4, <2>1, <2>2, <2>3 DEF Face
<1>5. ASSUME NEW k \in Keys, ProcessPassEvent(k)
      PROVE  BansKept'
  <2>1. PICK s \in Sessions : BanAfterPass(s)
    BY <1>5 DEF ProcessPassEvent
  <2> DEFINE n == session[s].face
             cp == <<caught[n].cam, fetcher[n].who>>
  <2>2. n \in Cards
    BY <2>1 DEF Typed, TypeOK, Records, BanAfterPass, Cards
  <2>3. cp \in Cameras \X People
    BY <2>1, <2>2, EventsAreTyped DEF Typed, SessionsHaveFaces, BanAfterPass, Cards
  <2>4. /\ personCamBan' = [personCamBan EXCEPT ![cp] = now + BanTime]
        /\ banned' = [banned EXCEPT ![cp] = now] /\ UNCHANGED <<now, fetcher>>
    BY <1>5, <2>1 DEF BanAfterPass, ProcessPassEvent
  <2>5. now <= now /\ now' = now /\ \A m \in Cards : fetcher'[m].mtf = fetcher[m].mtf
    BY <1>0, <2>4
  <2> HIDE DEF cp
  <2> QED
    BY <1>0, <1>3, <2>3, <2>4, <2>5
<1>6. CASE PollCameraEvents
  <2>1. UNCHANGED <<now, personCamBan, banned>>
    BY <1>6 DEF PollCameraEvents
  <2>2. \A n \in Cards : fetcher'[n].mtf = fetcher[n].mtf
    BY <1>0, <1>6 DEF PollCameraEvents, TakeUp, FetcherStates
  <2> QED
    BY <1>0, <2>1, <2>2 DEF BansKept
<1>7. ASSUME \/ \E cam \in Cameras : Catch(cam)
             \/ \E k \in Keys, t \in Terminals \cup {NoTerminal} : Connect(k, t)
             \/ \E k \in Keys, s \in Sessions : ProcessTagRead(k, s)
             \/ \E s \in Sessions : SessionEnds(s)
             \/ UNCHANGED vars
      PROVE  UNCHANGED <<now, fetcher, personCamBan, banned>>
  BY <1>7 DEF Catch, Connect, ProcessTagRead, SessionEnds, vars
<1>8. CASE UNCHANGED <<now, fetcher, personCamBan, banned>>
  BY <1>0, <1>8 DEF BansKept
<1> QED
  BY <1>1, <1>2, <1>4, <1>5, <1>6, <1>7, <1>8 DEF Next

----------------------------------------------------------------------------
(* Sessions of a terminal.                                                  *)

\* A session never comes to be active again once it is over, so what a
\* goroutine has found active is waited for.
LEMMA StepWaited ==
  ASSUME Typed, Waited, [Next]_vars
  PROVE  Waited'
<1>0. /\ fetcher \in [Cards -> FetcherStates] /\ session \in [Sessions -> Records]
      /\ \A n \in Cards : fetcher[n].active \subseteq Sessions
  BY DEF Typed, TypeOK, FetcherStates
\* What is known of the sessions a goroutine has found is lost by no session's step.
<1>1. ASSUME \A n \in Cards :
               fetcher'[n].active = fetcher[n].active /\ fetcher'[n].key = fetcher[n].key
               /\ (fetcher'[n].pc \in {"found", "free"} => fetcher'[n].pc = fetcher[n].pc),
             \A s \in Sessions : session[s].state # "none" =>
               /\ session'[s].key = session[s].key /\ session'[s].state # "none"
               /\ session'[s].state = "active" => session[s].state = "active"
      PROVE  Waited'
  BY <1>0, <1>1 DEF Waited
<1>2. ASSUME NEW n \in Cards, NEW s \in Sessions, StartSession(n, s)
      PROVE  Waited'
  <2>1. /\ session'[s].key = fetcher[n].key /\ session[s].state = "none"
        /\ \A x \in Sessions \ {s} : session'[x] = session[x]
        /\ fetcher'[n].pc = "started"
        /\ \A m \in Cards \ {n} : fetcher'[m] = fetcher[m]
        /\ fetcher'[n].active = fetcher[n].active /\ fetcher'[n].key = fetcher[n].key
    BY <1>0, <1>2 DEF StartSession, FetcherStates, Records
  <2> QED
    BY <1>0, <1>1, <2>1
<1>3. ASSUME NEW n \in Cards, Face(n)
      PROVE  Waited'
  <2>1. CASE FindTerminal(n)
    <3>1. UNCHANGED session
      BY <2>1 DEF FindTerminal
    <3>2. ASSUME NEW k \in Keys,
                 fetcher' = [fetcher EXCEPT ![n].pc = "found", ![n].key = k,
                               ![n].active = {s \in Sessions : Active(s, k)}]
          PROVE  Waited'
      <4>1. /\ fetcher'[n].active = {s \in Sessions : Active(s, k)} /\ fetcher'[n].key = k
            /\ fetcher'[n].pc = "found" /\ \A m \in Cards \ {n} : fetcher'[m] = fetcher[m]
        BY <1>0, <3>2 DEF FetcherStates
      <4> QED
        BY <1>0, <3>1, <4>1 DEF Waited, Active
    <3>3. CASE Proceed(n, "ended")
      <4>1. /\ fetcher'[n].pc = "ended" /\ fetcher'[n].active = fetcher[n].active
            /\ fetcher'[n].key = fetcher[n].key /\ \A m \in Cards \ {n} : fetcher'[m] = fetcher[m]
        BY <1>0, <3>3 DEF Proceed, FetcherStates
      <4> QED
        BY <1>0, <1>1, <3>1, <4>1
    <3> QED
      BY <2>1, <3>2, <3>3 DEF FindTerminal
  <2>2. CASE CheckSessions(n)
    <3>1. /\ UNCHANGED session /\ fetcher'[n].active = fetcher[n].active
          /\ fetcher'[n].key = fetcher[n].key /\ \A m \in Cards \ {n} : fetcher'[m] = fetcher[m]
          /\ fetcher[n].pc = "found"
      BY <1>0, <2>2 DEF CheckSessions, Proceed, FetcherStates
    <3>2. fetcher'[n].pc = "free" => \A s \in Sessions : ~Active(s, fetcher[n].key)
      BY <1>0, <2>2 DEF CheckSessions, Proceed, FetcherStates
    <3> QED
      BY <1>0, <3>1, <3>2 DEF Waited, Active
  <2>3. CASE SetFaceData(n)
    <3>1. /\ fetcher'[n].pc = "ended" /\ fetcher'[n].active = fetcher[n].active
          /\ fetcher'[n].key = fetcher[n].key /\ \A m \in Cards \ {n} : fetcher'[m] = fetcher[m]
      BY <1>0, <2>3 DEF SetFaceData, Proceed, FetcherStates
    <3>2. fetcher[n].on \in Sessions
      BY <2>3 DEF SetFaceData, Typed, Known
    <3>3. \A s \in Sessions : session'[s].state = session[s].state /\ session'[s].key = session[s].key
      BY <1>0, <2>3, <3>2 DEF SetFaceData, Records
    <3> QED
      BY <1>0, <1>1, <3>1, <3>3
  <2>4. ASSUME Fails(n) \/ FetchMatchDetails(n) \/ FetchPersonCard(n) \/ ProcessIdentification(n)
        PROVE  Waited'
    <3>1. UNCHANGED session
      BY <2>4 DEF Fails, FetchMatchDetails, FetchPersonCard, ProcessIdentification
    <3>2. /\ fetcher'[n].pc \notin {"found", "free"} /\ fetcher'[n].active = fetcher[n].active
          /\ fetcher'[n].key = fetcher[n].key
      <4>1. CASE Fails(n)
        BY <1>0, <4>1 DEF Fails, Proceed, FetcherStates
      <4>2. CASE FetchMatchDetails(n)
        BY <1>0, <4>2 DEF FetchMatchDetails, FetcherStates
      <4>3. CASE FetchPersonCard(n)
        BY <1>0, <4>3 DEF FetchPersonCard, FetcherStates
      <4>4. CASE ProcessIdentification(n)
        BY <1>0, <4>4 DEF ProcessIdentification, Proceed, FetcherStates
      <4> QED
        BY <2>4, <4>1, <4>2, <4>3, <4>4
    <3>3. \A m \in Cards \ {n} : fetcher'[m] = fetcher[m]
      BY <1>3, FaceGoesOn
    <3> QED
      BY <1>0, <1>1, <3>1, <3>2, <3>3
  <2> QED
    BY <1>2, <1>3, <2>1, <2>2, <2>3, <2>4 DEF Face
<1>4. CASE PollCameraEvents
  <2>1. UNCHANGED session
    BY <1>4 DEF PollCameraEvents
  <2>2. \A n \in Cards : /\ fetcher'[n].active = fetcher[n].active /\ fetcher'[n].key = fetcher[n].key
                         /\ fetcher'[n].pc \in {"fetching", fetcher[n].pc}
    BY <1>0, <1>4 DEF PollCameraEvents, TakeUp, FetcherStates
  <2> QED
    BY <1>0, <1>1, <2>1, <2>2
<1>5. ASSUME NEW k \in Keys, NEW s \in Sessions, ProcessTagRead(k, s)
      PROVE  Waited'
  <2>1. UNCHANGED fetcher /\ session[s].state = "none" /\ \A x \in Sessions \ {s} : session'[x] = session[x]
    BY <1>0, <1>5 DEF ProcessTagRead
  <2> QED
    BY <1>0, <1>1, <2>1
<1>6. ASSUME NEW s \in Sessions, SessionEnds(s)
      PROVE  Waited'
  <2>1. /\ UNCHANGED fetcher /\ \A x \in Sessions \ {s} : session'[x] = session[x]
        /\ session'[s].state = "over" /\ session'[s].key = session[s].key
    BY <1>0, <1>6 DEF SessionEnds, Records
  <2> QED
    BY <1>0, <1>1, <2>1
<1>7. ASSUME \/ Tick
             \/ \E cam \in Cameras : Catch(cam)
             \/ IdleBan
             \/ \E k \in Keys, t \in Terminals \cup {NoTerminal} : Connect(k, t)
             \/ \E k \in Keys : ProcessPassEvent(k)
             \/ UNCHANGED vars
      PROVE  UNCHANGED <<fetcher, session>>
  BY <1>7 DEF Tick, Catch, IdleBan, Connect, ProcessPassEvent, vars
<1>8. CASE UNCHANGED <<fetcher, session>>
  BY <1>0, <1>8 DEF Waited
<1> QED
  BY <1>3, <1>4, <1>5, <1>6, <1>7, <1>8 DEF Next

----------------------------------------------------------------------------
(* The theorems.                                                            *)

\* The invariant holds when the program starts ...
LEMMA InitInvariant == Init => IInv
<1> SUFFICES ASSUME Init PROVE IInv
  OBVIOUS
<1>1. Typed
  BY InitTyped
<1>2. \A n \in Cards : fetcher[n].pc = "none" /\ fetcher[n].active = {} /\ fetcher[n].mtf = 0
  BY DEF Init, NoFetcher
<1>3. Polled /\ NobodyFromBefore
  BY <1>2 DEF Init, Polled, NobodyFromBefore
<1>4. BansKept /\ Waited
  BY <1>2 DEF Init, BansKept, Waited
<1> QED
  BY <1>1, <1>3, <1>4 DEF IInv

\* ... every operation preserves it ...
LEMMA StepInvariant == IInv /\ [Next]_vars => IInv'
BY StepTyped, StepPolled, StepBansKept, StepWaited DEF IInv

\* ... so it always holds.
LEMMA Invariant == Spec => []IInv
BY InitInvariant, StepInvariant, PTL DEF Spec

\* But for being taken up, a face gets ahead by steps of its own only.
LEMMA OnlyOwnSteps ==
  ASSUME IInv, [Next]_vars, NEW n \in Cards,
         fetcher'[n].pc # fetcher[n].pc, fetcher'[n].pc # "fetching"
  PROVE  Face(n)
<1>1. Typed /\ fetcher \in [Cards -> FetcherStates]
  BY DEF IInv, Typed, TypeOK
<1>2. ~PollCameraEvents
  BY <1>1 DEF PollCameraEvents, TakeUp, FetcherStates
<1>3. ASSUME NEW m \in Cards, Face(m) PROVE m = n
  BY <1>1, <1>3, FaceGoesOn
<1>4. fetcher' # fetcher
  OBVIOUS
<1>5. \E m \in Cards : Face(m)
  BY <1>2, <1>4 DEF Next, Tick, Catch, IdleBan, Connect, ProcessTagRead, SessionEnds,
                    ProcessPassEvent, vars
<1> QED
  BY <1>3, <1>5

\* The client, the bans, the goroutines and the sessions keep their types: a
\* poll remembers a face that was caught, a ban ends when it may.
THEOREM FacesTypeCorrect == Spec => []TypeOK
<1>1. IInv => TypeOK
  BY DEF IInv, Typed
<1> QED
  BY <1>1, Invariant, PTL

\* Nobody is let in for having stood before a camera before the first
\* successful poll (pollCameraEvents).
THEOREM NobodyFromBeforeStart == Spec => []NobodyFromBefore
<1>1. IInv => NobodyFromBefore
  BY DEF IInv
<1> QED
  BY <1>1, Invariant, PTL

\* A camera lets nobody through within BanTime of the ban before, whatever the
\* order of goroutines, passes and idleBan (processIdentification,
\* TryBanAfterPass, idleBan).
THEOREM BanIsKept == Spec => BanHolds
<1>1. ASSUME IInv, NEW n \in Cards, ProcessIdentification(n),
             fetcher'[n].pc = "let"
      PROVE  LET since == banned[caught[n].cam, fetcher[n].who]
             IN since > 0 => now >= since + BanTime
  <2> DEFINE cp == <<caught[n].cam, fetcher[n].who>>
  <2>1. cp \in Cameras \X People
    BY <1>1, EventsAreTyped DEF ProcessIdentification, IInv, Typed, Known, Cards
  <2>2. /\ fetcher[n].mtf \in Nat /\ fetcher[n].mtf <= now /\ now \in Nat
        /\ personCamBan[cp] \in Nat /\ banned[cp] \in Nat
    BY <1>1, <2>1 DEF IInv, Typed, TypeOK, FetcherStates, Moments, BansKept
  <2>3. personCamBan[cp] = 0 \/ fetcher[n].mtf >= personCamBan[cp]
    BY <1>1 DEF ProcessIdentification, Proceed, IInv, Typed, TypeOK, FetcherStates
  <2>4. banned[cp] > 0 => \/ personCamBan[cp] = banned[cp] + BanTime
                          \/ personCamBan[cp] = 0 /\ banned[cp] + BanTime < now
    BY <1>1, <2>1 DEF IInv, BansKept
  <2> HIDE DEF cp
  <2>5. banned[cp] > 0 => now >= banned[cp] + BanTime
    BY <2>2, <2>3, <2>4
  <2> QED
    BY <2>5 DEF cp
<1>2. ASSUME IInv, [Next]_vars, NEW n \in Cards, LetThrough(n)
      PROVE  ProcessIdentification(n) /\ fetcher'[n].pc = "let"
  <2>1. fetcher[n].pc = "identified" /\ fetcher'[n].pc = "let"
    BY <1>2 DEF LetThrough
  <2>2. Face(n)
    BY <1>2, <2>1, OnlyOwnSteps
  <2> QED
    BY <2>1, <2>2 DEF Face, Fails, FetchMatchDetails, FetchPersonCard, FindTerminal, CheckSessions,
                      StartSession, SetFaceData
<1>3. IInv /\ [Next]_vars =>
        [\A n \in Cards : LetThrough(n) =>
           LET since == banned[caught[n].cam, fetcher[n].who]
           IN since > 0 => now >= since + BanTime]_vars
  BY <1>1, <1>2
<1> QED
  BY <1>3, Invariant, PTL DEF Spec, BanHolds

\* A face starts no session at a terminal one of whose sessions was active from
\* the moment the terminal was found until then (handleCRTIdentification).
THEOREM FaceWaits == Spec => FaceWaitsForTerminal
<1>1. IInv /\ [Next]_vars =>
        [\A n \in Cards : fetcher[n].pc = "free" /\ fetcher'[n].pc = "started" =>
           \A s \in fetcher[n].active : session[s].state # "active"]_vars
  BY DEF IInv, Waited
<1> QED
  BY <1>1, Invariant, PTL DEF Spec, FaceWaitsForTerminal
=============================================================================
