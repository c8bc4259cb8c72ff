---------------------------- MODULE MCWorkforce ----------------------------
(***************************************************************************)
(* The accounts, the planner board, the payroll and the salary rows, on    *)
(* small instances: payroll is given any attendance, priced or not, and the*)
(* accounts share nothing with the other three, so a behaviour plays one.  *)
(***************************************************************************)
EXTENDS Payroll, WorkSchedule, PayProfiles, Lanes, TLC

CONSTANTS w1, r1, r2, shift, s1, t1, t2, a1, d1

VARIABLE scene

workforceVars == <<scene, payVars, boardVars, profileVars, laneVars>>

MCCutoff == [r \in Runs |-> Days]

\* The cashier of the third charge is linked to no employee.
MCOwner == [k \in Charges |-> IF k = 3 THEN None ELSE w1]

MCAmount == [k \in Charges |-> IF k = 1 THEN 3 ELSE 1]

MCPattern == [d \in Dates |-> IF d = 1 THEN shift ELSE Blank]

MCWanted == [d \in Dates |-> IF d = 1 THEN Windows \cup {"CLEAR"} ELSE {OFF}]

\* Requests about the board overlap until there is a suspension.
MCAtOnce == [S \in SUBSET Suspensions |-> IF S = {} THEN 2 ELSE 1]

Symmetry == Permutations({t1, t2})

Init ==
    /\ scene \in {"one run", "two runs", "one date", "two dates", "salary", "lanes"}
    /\ PayInit
    /\ BoardInit
    /\ ProfilesInit
    /\ LanesInit

Requested == {t \in Tasks : task'[t] # None}

Next ==
    /\ UNCHANGED scene
    /\ \/ /\ scene = "one run"
          /\ PayNext
          /\ payState'[r2] = None
          /\ tagged' \subseteq {1, 2}
          /\ UNCHANGED <<boardVars, profileVars, laneVars>>
       \/ /\ scene = "two runs"
          /\ PayNext
          /\ Cardinality(Requested) <= 1
          /\ tagged' \subseteq {1, 3}
          /\ UNCHANGED <<boardVars, profileVars, laneVars>>
       \/ /\ scene = "one date"
          /\ BoardNext
          /\ \A t \in Reqs : InHand(t)' \cap Dates \subseteq {1}
          /\ UNCHANGED <<payVars, profileVars, laneVars>>
       \/ /\ scene = "two dates"
          /\ BoardNext
          /\ \A n \in Slots : cell'[1][n] # Blank => cell'[1][n].win # OFF
          /\ \A d \in Dates :
                duty'[d] # Blank /\ duty'[d].typed => duty'[d].result = "WORKED"
          /\ \/ \A n \in Slots : cell'[2][n] = Blank
             \/ /\ today' = 1
                /\ sus'[s1] = Blank
                /\ \A d \in Dates : duty'[d] = Blank
          /\ UNCHANGED <<payVars, profileVars, laneVars>>
       \/ /\ scene = "salary"
          /\ ProfilesNext
          /\ sideBySide' => Cardinality(Given') < 3
          /\ UNCHANGED <<payVars, boardVars, laneVars>>
       \/ /\ scene = "lanes"
          /\ LanesNext
          /\ UNCHANGED <<payVars, boardVars, profileVars>>

Spec == Init /\ [][Next]_workforceVars

=============================================================================
