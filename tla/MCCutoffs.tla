------------------------------ MODULE MCCutoffs ------------------------------
(* TLC instances of Cutoffs: weeks of three days of four minutes. *)
EXTENDS Cutoffs, TLC

CONSTANTS p, q, app1, app2

From(s, e) == [start |-> s, end |-> e]

(* In a day; over midnight and the week's end; from midnight, after an     *)
(* evening that is blocked and one that is not; an empty one, one that     *)
(* ends at midnight.                                                       *)
SomeCalendars ==
  {(0 :> {From(2, 2)} @@ 1 :> {From(1, 3)} @@ 2 :> {From(1, 2), From(3, 1)}),
   (0 :> {From(3, 1)} @@ 1 :> {From(3, 0)} @@ 2 :> {From(0, 1)}),
   (0 :> {From(0, 3)} @@ 1 :> {From(0, 2)} @@ 2 :> {From(0, 1)})}

SomeBudgets == {(0 :> {} @@ 1 :> {0} @@ 2 :> {}), (0 :> {0} @@ 1 :> {2} @@ 2 :> {})}

LimitOfApp1 ==
  [app \in Apps |-> [day \in Weekdays |-> IF app = app1 /\ day = 1 THEN {0} ELSE {}]]

WrappersAlike == Permutations(Pids)
=============================================================================
