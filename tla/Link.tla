-------------------------------- MODULE Link ---------------------------------
(***************************************************************************)
(* What a controller promises the sender of a machine without a buffer of  *)
(* its own: stop and wait.  A program line is written only with access,    *)
(* access is given only when nothing is owed, so the machine never holds   *)
(* two program lines.  Status queries are written at any time and owed an  *)
(* answer like a line.                                                     *)
(***************************************************************************)
EXTENDS Naturals

VARIABLES
    pending,      \* program lines the machine has not answered
    owed,         \* commands whose answer has not been counted
    access        \* a line may be written

linkVars == << pending, owed, access >>

\* The first command of a session is under way.
Init == pending = 1 /\ owed = 1 /\ access = FALSE

WriteLine ==
    /\ access /\ owed = 0
    /\ pending' = pending + 1 /\ owed' = 1 /\ access' = FALSE

Ask == owed' = owed + 1 /\ access' = FALSE /\ UNCHANGED pending

\* The machine answers a line; the answer is on its way.
Answer == pending > 0 /\ pending' = pending - 1 /\ UNCHANGED << owed, access >>

\* Answers that arrived are counted, or lost.
Count ==
    /\ owed' \in pending..owed /\ access' \in BOOLEAN
    /\ access' => owed' = 0
    /\ UNCHANGED pending

Next == WriteLine \/ Ask \/ Answer \/ Count

Spec == Init /\ [][Next]_linkVars

=============================================================================
