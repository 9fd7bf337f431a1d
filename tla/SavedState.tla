------------------------------ MODULE SavedState ------------------------------
(***************************************************************************)
(* What an agent may rely on when it keeps its state in a memory: while it *)
(* is up its state changes, and now and then a state it had is saved; it   *)
(* may go down at any time, and when it comes up again its state is the    *)
(* last one that was saved or one it had later.  Only when the copy it     *)
(* keeps elsewhere is doubtful may it lose what was saved, and only while  *)
(* it is down.  Files, uploads, downloads and what becomes of them are not *)
(* the agent's concern.                                                    *)
(***************************************************************************)
EXTENDS Naturals

VARIABLES
  up,        \* the agent runs on a state
  current,   \* the revision of its state; none when it is down
  newest,    \* the last revision there was
  saved,     \* the last revision it was told was saved
  doubtful   \* the copy elsewhere may be older than it looks

vars == <<up, current, newest, saved, doubtful>>

Init ==
  up = FALSE /\ current = 0 /\ newest = 0 /\ saved = 0 /\ doubtful = FALSE

(* What is saved may be older than the state by now, not than what was saved.*)
Saves == saved' \in saved..current

Change ==
  /\ up
  /\ newest' = newest + 1 /\ current' = newest'
  /\ UNCHANGED <<up, saved, doubtful>>

Save ==
  /\ up /\ Saves
  /\ UNCHANGED <<up, current, newest, doubtful>>

(* The copy elsewhere is replaced.                                           *)
Copy ==
  /\ up /\ doubtful' \in BOOLEAN
  /\ UNCHANGED <<up, current, newest, saved>>

GoDown ==
  /\ up /\ Saves
  /\ up' = FALSE /\ current' = 0 /\ doubtful' \in BOOLEAN
  /\ UNCHANGED newest

Lose ==
  /\ ~up /\ doubtful
  /\ saved' \in 0..saved
  /\ UNCHANGED <<up, current, newest, doubtful>>

ComeUp ==
  /\ ~up
  /\ up' = TRUE /\ current' \in saved..newest /\ doubtful' \in BOOLEAN
  /\ UNCHANGED <<newest, saved>>

Next == Change \/ Save \/ Copy \/ GoDown \/ Lose \/ ComeUp

Spec == Init /\ [][Next]_vars

=============================================================================
