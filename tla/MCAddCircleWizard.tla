------------------------- MODULE MCAddCircleWizard -------------------------
(***************************************************************************)
(* Either the setup page is opened once (p1), with room for two shares; the *)
(* client then starts without a configuration, or with one that somebody   *)
(* wrote by hand: with the circle, but without a mount point.  Or the page  *)
(* is opened twice, at once or one after the other (p2, p3), and one of     *)
(* them has room for one share; the client then starts without a           *)
(* configuration, so that the second page may meet the circle of the first. *)
(* One path is a directory, the other is not there.                         *)
(***************************************************************************)
EXTENDS AddCircleWizard

CONSTANTS p1, p2, p3, c1, docs, pics, dir, gone

OneCircle == {NoConfig, [c \in Circles |-> [NoShares EXCEPT ![docs] = dir]]}

RowsOfPages == (p1 :> 2) @@ (p2 :> 1) @@ (p3 :> 0)

\* The pages that are not opened in a behaviour are closed from the start.
MCInit ==
  /\ ApiInit /\ ~mountpointOnDisk
  /\ \E opened \in {{p1}, {p2, p3}} :
       /\ opened = {p1} \/ disk = NoConfig
       /\ page = [p \in Pages |-> Blank(IF p \in opened THEN "new" ELSE "closed")]

MCSpec == MCInit /\ [][Next]_vars /\ Fairness
=============================================================================
