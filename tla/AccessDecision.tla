--------------------------- MODULE AccessDecision ---------------------------
(***************************************************************************)
(* What the life of an access session promises to the person, to 1C and to *)
(* the operator, however many goroutines work on it and however often it   *)
(* is sent back: the terminal is answered a bounded number of times, and   *)
(* lets in only on a grant; 1C is told of a pass once at most for each     *)
(* answer, and only after one that let in; then one row is written, which  *)
(* says what the terminal was last told; then the session is closed.       *)
(*                                                                         *)
(* A session sent through the gates, where events of the terminal take the *)
(* place of the answer, keeps only the first of these promises.            *)
(***************************************************************************)
EXTENDS Naturals

CONSTANTS
  Sessions,
  MaxAnswers  \* how often a session may be answered

VARIABLES
  granted,  \* session -> somebody has said YES
  gated,    \* session -> it was sent through the gates
  told,     \* session -> the last answer given to the terminal
  answers,  \* session -> how many answers it was given
  reports,  \* session -> how many passes 1C was told of
  row,      \* session -> what the log says
  closed    \* session -> it has ended

outcome == <<told, answers, reports, row, closed>>
vars == <<granted, gated, outcome>>

Init ==
  /\ granted = [s \in Sessions |-> FALSE]
  /\ gated = [s \in Sessions |-> FALSE]
  /\ told = [s \in Sessions |-> "none"]
  /\ answers = [s \in Sessions |-> 0]
  /\ reports = [s \in Sessions |-> 0]
  /\ row = [s \in Sessions |-> "none"]
  /\ closed = [s \in Sessions |-> FALSE]

\* A YES may come at any time, also too late.
Grant(s) ==
  /\ granted' = [granted EXCEPT ![s] = TRUE]
  /\ UNCHANGED <<gated, outcome>>

Answer(s, answer) ==
  /\ row[s] = "none" /\ answers[s] < MaxAnswers
  /\ answer = "allow" => granted[s]
  /\ told' = [told EXCEPT ![s] = answer]
  /\ answers' = [answers EXCEPT ![s] = @ + 1]
  /\ UNCHANGED <<granted, gated, reports, row, closed>>

Report(s) ==
  /\ row[s] = "none" /\ told[s] = "allow" /\ reports[s] < answers[s]
  /\ reports' = [reports EXCEPT ![s] = @ + 1]
  /\ UNCHANGED <<granted, gated, told, answers, row, closed>>

Log(s) ==
  /\ row[s] = "none" /\ told[s] # "none"
  /\ row' = [row EXCEPT ![s] = IF told[s] = "allow" THEN "YES" ELSE "NO"]
  /\ UNCHANGED <<granted, gated, told, answers, reports, closed>>

Close(s) ==
  /\ row[s] # "none"
  /\ closed' = [closed EXCEPT ![s] = TRUE]
  /\ UNCHANGED <<granted, gated, told, answers, reports, row>>

\* Only a session that is let in is sent through the gates.
SendThroughGates(s) ==
  /\ row[s] = "none" /\ granted[s]
  /\ gated' = [gated EXCEPT ![s] = TRUE]
  /\ UNCHANGED <<granted, outcome>>

\* The gates: nobody is let in, reported or logged as let in without a grant.
InGates(s) ==
  /\ gated[s]
  /\ told'[s] = "allow" \/ reports'[s] > 0 \/ row'[s] = "YES" => granted[s]
  /\ \A o \in Sessions \ {s} :
       /\ told'[o] = told[o] /\ answers'[o] = answers[o] /\ reports'[o] = reports[o]
       /\ row'[o] = row[o] /\ closed'[o] = closed[o]
  /\ UNCHANGED <<granted, gated>>

Next ==
  \E s \in Sessions :
    \/ Grant(s)
    \/ \E answer \in {"allow", "deny"} : Answer(s, answer)
    \/ Report(s)
    \/ Log(s)
    \/ Close(s)
    \/ SendThroughGates(s)
    \/ InGates(s)

Spec == Init /\ [][Next]_vars
=============================================================================
