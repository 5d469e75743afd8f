--------------------------- MODULE SnapshotStore ---------------------------
(***************************************************************************)
(* What a store that saves snapshots of its contents and reads one back    *)
(* when the program starts again can promise, however late, in whatever    *)
(* order and with whatever failures the snapshots are saved: the program   *)
(* starts with contents the store really had at some moment, all of it     *)
(* from the same moment, or with nothing.                                  *)
(***************************************************************************)
CONSTANTS
  Snapshots,  \* what the store may contain
  Nothing     \* what a new store contains

VARIABLES
  current,    \* the contents
  past        \* every contents there has been, Nothing included

vars == <<current, past>>

Init ==
  /\ current = Nothing
  /\ past = {Nothing}

Change ==
  /\ current' \in Snapshots
  /\ past' = past \cup {current'}

Restart ==
  /\ current' \in past
  /\ UNCHANGED past

Next == Change \/ Restart

Spec == Init /\ [][Next]_vars
=============================================================================
