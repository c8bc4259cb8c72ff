-------------------------- MODULE WorkforceProofs --------------------------
(***************************************************************************)
(* What holds of the accounts, the salary rows, the payroll runs and the   *)
(* planner board of the workers.  In each the invariant says that what a   *)
(* request has read still holds, for what no other request changed while   *)
(* it had it in hand: a request commits on its reading.                    *)
(*                                                                         *)
(* Accounts: an account that was not changed in other hands works in one   *)
(* lane.                                                                   *)
(*                                                                         *)
(* Salary rows: while one form is open at a time, no day has two rates,    *)
(* and a new row leaves every day before it as it was.                     *)
(*                                                                         *)
(* Payroll: a rebuild carries what payments deducted, no charge is         *)
(* deducted beyond its amount, and a finalized run is frozen.              *)
(*                                                                         *)
(* Board: a date has one row in force at most, a published date changes by *)
(* its cell only, and a suspension owns the days it marked.                *)
(***************************************************************************)
EXTENDS PayProfiles, Lanes, Payroll, WorkSchedule, SumProofs, TLAPS

-----------------------------------------------------------------------------
(* Accounts *)

\* What a step does, without the history.
Core == AccountStep \/ RunStep

\* What the form was filled for exists: an employee, a login, a planned run.
FormKnown(f) ==
    /\ f.who # Nobody => employee[f.who] # "NONE"
    /\ f.op = "account" => login[f.who] # "NONE"
    /\ f.op \in {"save", "dispatch", "turn"} => stage[f.trip] # "NEW"
    /\ f.op = "turn" /\ f.short => f.who # Nobody

Grounded ==
    /\ \A s \in Accounts : employee[s] = "NONE" => lane[s] = Nobody /\ login[s] = "NONE"
    /\ \A r \in Trips : stage[r] = "NEW" => rider[r] = Nobody
    /\ \A r \in Trips : rider[r] # Nobody => employee[rider[r]] # "NONE"
    /\ \A t \in Desks : form[t] # Nobody => FormKnown(form[t])

\* No run that nobody changed in the hands of a request is left to the rider.
FreeOfRuns(s) == \A r \in Trips \ touched : ~(rider[r] = s /\ Active(r))

\* What the request has read of an account and a run still holds.
FormFits(f) ==
    /\ f.op = "switch" /\ f.who \notin touched =>
          f.to # lane[f.who] /\ ~drawer[f.who] /\ FreeOfRuns(f.who)
    /\ f.op = "open" /\ f.who \notin touched => lane[f.who] = "CASHIER"
    /\ f.op \in {"run", "save", "dispatch"} /\ f.who \notin touched =>
          lane[f.who] = "RIDER"
    /\ f.op = "turn" /\ f.trip \notin touched => stage[f.trip] = "OUT"

FormsFit == \A t \in Desks : form[t] # Nobody => FormFits(form[t])

LanesInv == LanesTypeOK /\ Grounded /\ FormsFit /\ OneLaneAtATime

-----------------------------------------------------------------------------
(* Lemmas *)

\* What each kind of form holds.
LEMMA FormFields ==
    ASSUME NEW f \in Forms
    PROVE  /\ f # Nobody
           /\ f.op \in {"open", "run", "switch", "account", "rider", "save",
                        "dispatch", "turn"}
           /\ f.who \in Accounts \cup {Nobody}
           /\ f.op # "turn" => f.who \in Accounts
           /\ f.op \in {"save", "dispatch", "turn"} => f.trip \in Trips
           /\ f.op = "switch" => f.to \in LaneNames
           /\ f.op = "account" => f.to \in {"ON", "OFF"} /\ f.linked \in BOOLEAN
           /\ f.op = "rider" => f.to \in {"ACTIVE", "INACTIVE"}
           /\ f.op = "turn" => f.to \in Stages \ {"NEW"} /\ f.short \in BOOLEAN
  BY LanesAssumption DEF Forms

\* A step opens one form and changes nothing else, or opens none.
LEMMA FormsMove ==
    ASSUME LanesInv, Core
    PROVE  \/ /\ UNCHANGED <<accountVars, dutyVars>>
              /\ \E t \in Desks, f \in Forms : /\ form' = [form EXCEPT ![t] = f]
                                               /\ FormKnown(f) /\ FormFits(f)
           \/ \E t \in Desks : form' = [form EXCEPT ![t] = Nobody]
           \/ form' = form
<1> DEFINE Opened == \E t \in Desks, f \in Forms :
                        /\ form' = [form EXCEPT ![t] = f]
                        /\ FormKnown(f) /\ FormFits(f)
           Ended == \E t \in Desks : form' = [form EXCEPT ![t] = Nobody]
           Goal == \/ UNCHANGED <<accountVars, dutyVars>> /\ Opened
                   \/ Ended \/ form' = form
<1> SUFFICES Goal
  OBVIOUS
<1>inv. LanesTypeOK /\ Grounded /\ FormsFit /\ OneLaneAtATime
  BY DEF LanesInv
<1>1. ASSUME NEW t \in Desks, NEW s \in Accounts, SwitchBegin(t, s) PROVE Goal
  <2> DEFINE f == [op |-> "switch", who |-> s, trip |-> Nobody,
                   to |-> IF lane[s] = "CASHIER" THEN "RIDER" ELSE "CASHIER"]
  <2>1. /\ form' = [form EXCEPT ![t] = f]
        /\ UNCHANGED <<accountVars, dutyVars>>
        /\ employee[s] = "ACTIVE" /\ ~Obliged(s)
    BY <1>1 DEF SwitchBegin, BeginForm
  <2>2. f \in Forms
    BY DEF Forms, LaneNames
  <2>3. FormKnown(f)
    BY <2>1 DEF FormKnown
  <2>4. FormFits(f)
    <3>1. f.op = "switch" /\ f.who = s /\ f.to # lane[s]
      OBVIOUS
    <3>2. ASSUME s \notin touched PROVE ~drawer[s] /\ FreeOfRuns(s)
      BY <1>inv, <2>1, <3>2 DEF Obliged, FreeOfRuns, OneLaneAtATime
    <3> HIDE DEF f
    <3> QED
      BY <3>1, <3>2 DEF FormFits
  <2> HIDE DEF f
  <2> QED
    BY <2>1, <2>2, <2>3, <2>4
<1>2. ASSUME NEW t \in Desks, NEW s \in Accounts, ToggleBegin(t, s) PROVE Goal
  <2> DEFINE f == [op |-> "account", who |-> s, trip |-> Nobody,
                   to |-> IF login[s] = "ON" THEN "OFF" ELSE "ON",
                   linked |-> employee[s] # "GONE"]
  <2>1. /\ form' = [form EXCEPT ![t] = f]
        /\ UNCHANGED <<accountVars, dutyVars>>
        /\ login[s] # "NONE"
    BY <1>2 DEF ToggleBegin, BeginForm
  <2>2. f \in Forms
    BY DEF Forms
  <2>3. FormKnown(f) /\ FormFits(f)
    BY <1>inv, <2>1 DEF FormKnown, FormFits, Grounded
  <2> HIDE DEF f
  <2> QED
    BY <2>1, <2>2, <2>3
<1>3. ASSUME NEW t \in Desks, NEW s \in Accounts, RiderToggleBegin(t, s) PROVE Goal
  <2> DEFINE f == [op |-> "rider", who |-> s, trip |-> Nobody,
                   to |-> IF employee[s] = "ACTIVE" THEN "INACTIVE" ELSE "ACTIVE"]
  <2>1. /\ form' = [form EXCEPT ![t] = f]
        /\ UNCHANGED <<accountVars, dutyVars>>
        /\ employee[s] \in {"ACTIVE", "INACTIVE"}
    BY <1>3 DEF RiderToggleBegin, BeginForm, OnRidersPage
  <2>2. f \in Forms
    BY DEF Forms
  <2>3. FormKnown(f) /\ FormFits(f)
    BY <2>1 DEF FormKnown, FormFits
  <2> HIDE DEF f
  <2> QED
    BY <2>1, <2>2, <2>3
<1>4. ASSUME NEW t \in Desks, NEW s \in Accounts, OpenBegin(t, s) PROVE Goal
  <2> DEFINE f == [op |-> "open", who |-> s, trip |-> Nobody]
  <2>1. /\ form' = [form EXCEPT ![t] = f]
        /\ UNCHANGED <<accountVars, dutyVars>>
        /\ login[s] # "NONE" /\ lane[s] = "CASHIER"
    BY <1>4 DEF OpenBegin, BeginForm
  <2>2. f \in Forms
    BY DEF Forms
  <2>3. FormKnown(f) /\ FormFits(f)
    BY <1>inv, <2>1 DEF FormKnown, FormFits, Grounded
  <2> HIDE DEF f
  <2> QED
    BY <2>1, <2>2, <2>3
<1>5. ASSUME NEW t \in Desks, NEW s \in Accounts, NewRunBegin(t, s) PROVE Goal
  <2> DEFINE f == [op |-> "run", who |-> s, trip |-> Nobody]
  <2>1. /\ form' = [form EXCEPT ![t] = f]
        /\ UNCHANGED <<accountVars, dutyVars>>
        /\ employee[s] = "ACTIVE" /\ lane[s] = "RIDER"
    BY <1>5 DEF NewRunBegin, BeginForm, ToRide
  <2>2. f \in Forms
    BY DEF Forms
  <2>3. FormKnown(f) /\ FormFits(f)
    BY <2>1 DEF FormKnown, FormFits
  <2> HIDE DEF f
  <2> QED
    BY <2>1, <2>2, <2>3
<1>6. ASSUME NEW t \in Desks, NEW r \in Trips, NEW s \in Accounts,
             NEW op \in {"save", "dispatch"}, StagingBegin(t, r, s, op)
      PROVE  Goal
  <2> DEFINE f == [op |-> op, who |-> s, trip |-> r]
  <2>1. /\ form' = [form EXCEPT ![t] = f]
        /\ UNCHANGED <<accountVars, dutyVars>>
        /\ stage[r] = "PLANNED" /\ employee[s] = "ACTIVE" /\ lane[s] = "RIDER"
    BY <1>6 DEF StagingBegin, BeginForm, ToRide
  <2>2. f \in Forms
    BY DEF Forms
  <2>3. FormKnown(f) /\ FormFits(f)
    BY <2>1 DEF FormKnown, FormFits
  <2> HIDE DEF f
  <2> QED
    BY <2>1, <2>2, <2>3
<1>7. ASSUME NEW t \in Desks, NEW r \in Trips, NEW to \in Stages \ {"NEW"},
             NEW short \in BOOLEAN, TurnBegin(t, r, to, short)
      PROVE  Goal
  <2> DEFINE f == [op |-> "turn", who |-> rider[r], trip |-> r, to |-> to,
                   short |-> short]
  <2>1. /\ form' = [form EXCEPT ![t] = f]
        /\ UNCHANGED <<accountVars, dutyVars>>
        /\ stage[r] = "OUT" /\ (short => rider[r] # Nobody)
    BY <1>7 DEF TurnBegin, BeginForm
  <2>2. rider[r] \in Accounts \cup {Nobody}
    BY <1>inv DEF LanesTypeOK
  <2>3. f \in Forms
    BY <2>2 DEF Forms
  <2>4. FormKnown(f) /\ FormFits(f)
    BY <1>inv, <2>1 DEF FormKnown, FormFits, Grounded
  <2> HIDE DEF f
  <2> QED
    BY <2>1, <2>3, <2>4
<1>8. ASSUME NEW t \in Desks,
             Switch(t) \/ Toggle(t) \/ RiderToggle(t) \/ OpenDrawer(t) \/ Staging(t)
             \/ Turn(t) \/ DropForm(t) \/ \E r \in Trips : NewRunFor(t, r)
      PROVE  Goal
  BY <1>8 DEF Switch, Toggle, RiderToggle, OpenDrawer, Staging, Turn, DropForm, NewRunFor,
              EndForm
<1>9. ASSUME NEW s \in Accounts,
             HireRider(s) \/ DeleteRider(s) \/ CloseDrawer(s)
             \/ \E l \in LaneNames : Hire(s, l)
      PROVE  Goal
  BY <1>9 DEF HireRider, DeleteRider, CloseDrawer, Hire
<1>10. ASSUME NEW r \in Trips, QueueRun(r) \/ RaiseShort(r) \/ AnswerShort(r)
       PROVE  Goal
  BY <1>10 DEF QueueRun, RaiseShort, AnswerShort
<1> HIDE DEF Goal
<1> QED
  BY <1>1, <1>2, <1>3, <1>4, <1>5, <1>6, <1>7, <1>8, <1>9, <1>10
  DEF Core, AccountStep, RunStep

\* Every action keeps the shape of the rows.
LEMMA RowsType ==
    ASSUME LanesInv, Core
    PROVE  /\ lane' \in [Accounts -> LaneNames \cup {Nobody}]
           /\ login' \in [Accounts -> {"NONE", "ON", "OFF"}]
           /\ employee' \in [Accounts -> {"NONE", "ACTIVE", "INACTIVE", "GONE"}]
           /\ stints' \in [Accounts -> Seq(LaneNames)]
           /\ drawer' \in [Accounts -> BOOLEAN]
           /\ stage' \in [Trips -> Stages]
           /\ rider' \in [Trips -> Accounts \cup {Nobody}]
           /\ due' \in [Trips -> Dues \cup {Nobody}]
<1> DEFINE Typed == /\ lane' \in [Accounts -> LaneNames \cup {Nobody}]
                    /\ login' \in [Accounts -> {"NONE", "ON", "OFF"}]
                    /\ employee' \in [Accounts -> {"NONE", "ACTIVE", "INACTIVE", "GONE"}]
                    /\ stints' \in [Accounts -> Seq(LaneNames)]
                    /\ drawer' \in [Accounts -> BOOLEAN]
                    /\ stage' \in [Trips -> Stages]
                    /\ rider' \in [Trips -> Accounts \cup {Nobody}]
                    /\ due' \in [Trips -> Dues \cup {Nobody}]
<1> SUFFICES Typed
  OBVIOUS
<1>inv. LanesTypeOK /\ Grounded
  BY DEF LanesInv
<1>1. ASSUME UNCHANGED <<accountVars, dutyVars>> PROVE Typed
  BY <1>inv, <1>1 DEF LanesTypeOK, accountVars, dutyVars
<1>2. ASSUME NEW s \in Accounts, HireRider(s) PROVE Typed
  BY <1>inv, <1>2 DEF HireRider, LanesTypeOK, LaneNames, dutyVars
<1>hire. ASSUME NEW s \in Accounts, NEW l \in LaneNames, Hire(s, l) PROVE Typed
  <2>1. <<l>> \in Seq(LaneNames)
    OBVIOUS
  <2>2. stints' \in [Accounts -> Seq(LaneNames)]
    BY <1>inv, <1>hire, <2>1 DEF Hire, LanesTypeOK
  <2> QED
    BY <1>inv, <1>hire, <2>2 DEF Hire, LanesTypeOK, dutyVars
<1>3. ASSUME NEW s \in Accounts, DeleteRider(s) \/ CloseDrawer(s) PROVE Typed
  BY <1>inv, <1>3 DEF DeleteRider, CloseDrawer, LanesTypeOK, accountVars
<1>4. ASSUME NEW r \in Trips, QueueRun(r) PROVE Typed
  BY <1>inv, <1>4 DEF QueueRun, LanesTypeOK, accountVars, Stages
<1>5. ASSUME NEW r \in Trips, RaiseShort(r) PROVE Typed
  <2>1. [who |-> rider[r], open |-> TRUE] \in Dues
    BY <1>inv, <1>5 DEF RaiseShort, LanesTypeOK, Dues
  <2> QED
    BY <1>inv, <1>5, <2>1 DEF RaiseShort, LanesTypeOK, accountVars
<1>6. ASSUME NEW r \in Trips, AnswerShort(r) PROVE Typed
  <2>1. [due[r] EXCEPT !.open = FALSE] \in Dues
    BY <1>inv, <1>6 DEF AnswerShort, LanesTypeOK, Dues
  <2> QED
    BY <1>inv, <1>6, <2>1 DEF AnswerShort, LanesTypeOK, accountVars
<1>7. ASSUME NEW t \in Desks, form[t] # Nobody,
             \/ Switch(t) \/ Toggle(t) \/ RiderToggle(t) \/ OpenDrawer(t) \/ Staging(t)
             \/ Turn(t) \/ \E r \in Trips : NewRunFor(t, r)
      PROVE  Typed
  <2> DEFINE f == form[t]
  <2>1. f \in Forms /\ FormKnown(f)
    BY <1>inv, <1>7 DEF LanesTypeOK, Grounded
  <2>2. CASE Switch(t)
    <3>1. f.who \in Accounts /\ f.to \in LaneNames
      BY <2>1, <2>2, FormFields DEF Switch, Filling
    <3>2. Append(stints[f.who], f.to) \in Seq(LaneNames)
      BY <1>inv, <3>1 DEF LanesTypeOK
    <3> QED
      BY <1>inv, <2>2, <3>1, <3>2 DEF Switch, LanesTypeOK, dutyVars
  <2>3. CASE Toggle(t)
    <3>1. f.who \in Accounts /\ f.to \in {"ON", "OFF"}
      BY <2>1, <2>3, FormFields DEF Toggle, Filling
    <3> QED
      BY <1>inv, <2>3, <3>1 DEF Toggle, LanesTypeOK, dutyVars
  <2>4. CASE RiderToggle(t)
    <3>1. f.who \in Accounts /\ f.to \in {"ACTIVE", "INACTIVE"}
      BY <2>1, <2>4, FormFields DEF RiderToggle, Filling
    <3> QED
      BY <1>inv, <2>4, <3>1 DEF RiderToggle, LanesTypeOK, dutyVars
  <2>5. CASE OpenDrawer(t)
    BY <1>inv, <2>5 DEF OpenDrawer, LanesTypeOK, accountVars
  <2>6. ASSUME NEW r \in Trips, NewRunFor(t, r) PROVE Typed
    <3>1. f.who \in Accounts
      BY <2>1, <2>6, FormFields DEF NewRunFor, Filling
    <3> QED
      BY <1>inv, <2>6, <3>1 DEF NewRunFor, LanesTypeOK, accountVars, Stages
  <2>7. CASE Staging(t)
    <3>1. f.who \in Accounts
      BY <2>1, <2>7, FormFields DEF Staging, Filling
    <3> QED
      BY <1>inv, <2>7, <3>1 DEF Staging, LanesTypeOK, accountVars, Stages
  <2>8. CASE Turn(t)
    <3>1. /\ f.op = "turn" /\ f.trip \in Trips /\ f.to \in Stages
          /\ f.who \in Accounts \cup {Nobody} /\ f.short \in BOOLEAN
      BY <2>1, <2>8, FormFields DEF Turn, Filling
    <3>2. f.short => [who |-> f.who, open |-> TRUE] \in Dues
      BY <2>1, <3>1 DEF FormKnown, Dues
    <3> QED
      BY <1>inv, <2>8, <3>1, <3>2 DEF Turn, LanesTypeOK, accountVars
  <2> QED
    BY <1>7, <2>2, <2>3, <2>4, <2>5, <2>6, <2>7, <2>8
<1> HIDE DEF Typed
<1>8. ASSUME NEW t \in Desks,
             \/ Switch(t) \/ Toggle(t) \/ RiderToggle(t) \/ OpenDrawer(t) \/ Staging(t)
             \/ Turn(t) \/ \E r \in Trips : NewRunFor(t, r)
      PROVE  Typed
  BY <1>7, <1>8 DEF Switch, Toggle, RiderToggle, OpenDrawer, Staging, Turn, NewRunFor, Filling
<1>9. ASSUME NEW t \in Desks, NEW s \in Accounts,
             \/ SwitchBegin(t, s) \/ ToggleBegin(t, s) \/ RiderToggleBegin(t, s)
             \/ OpenBegin(t, s) \/ NewRunBegin(t, s)
      PROVE  Typed
  BY <1>1, <1>9 DEF SwitchBegin, ToggleBegin, RiderToggleBegin, OpenBegin, NewRunBegin,
                    BeginForm
<1>10. ASSUME NEW t \in Desks, NEW r \in Trips,
              \/ DropForm(t)
              \/ \E s \in Accounts, op \in {"save", "dispatch"} : StagingBegin(t, r, s, op)
              \/ \E to \in Stages \ {"NEW"}, short \in BOOLEAN : TurnBegin(t, r, to, short)
       PROVE  Typed
  BY <1>1, <1>10 DEF DropForm, StagingBegin, TurnBegin, BeginForm
<1>11. ASSUME NEW t \in Desks, DropForm(t) PROVE Typed
  BY <1>1, <1>11 DEF DropForm
<1> QED
  BY <1>2, <1>3, <1>4, <1>5, <1>6, <1>8, <1>9, <1>10, <1>11, <1>hire DEF Core, AccountStep, RunStep

\* An employee, a login and a run, once there, are never as if they were not.
LEMMA NothingUndone ==
    ASSUME LanesInv, Core
    PROVE  /\ \A s \in Accounts : employee[s] # "NONE" => employee'[s] # "NONE"
           /\ \A s \in Accounts : login[s] # "NONE" => login'[s] # "NONE"
           /\ \A r \in Trips : stage[r] # "NEW" => stage'[r] # "NEW"
<1> DEFINE Kept == /\ \A s \in Accounts : employee[s] # "NONE" => employee'[s] # "NONE"
                   /\ \A s \in Accounts : login[s] # "NONE" => login'[s] # "NONE"
                   /\ \A r \in Trips : stage[r] # "NEW" => stage'[r] # "NEW"
<1> SUFFICES Kept
  OBVIOUS
<1>inv. LanesTypeOK
  BY DEF LanesInv
<1>1. ASSUME UNCHANGED <<accountVars, dutyVars>> PROVE Kept
  BY <1>1 DEF accountVars, dutyVars
<1>2. ASSUME NEW s \in Accounts,
             HireRider(s) \/ DeleteRider(s) \/ CloseDrawer(s)
             \/ \E l \in LaneNames : Hire(s, l)
      PROVE  Kept
  BY <1>inv, <1>2 DEF Hire, HireRider, DeleteRider, CloseDrawer, LanesTypeOK, accountVars,
                      dutyVars
<1>3. ASSUME NEW r \in Trips, QueueRun(r) \/ RaiseShort(r) \/ AnswerShort(r)
      PROVE  Kept
  BY <1>inv, <1>3 DEF QueueRun, RaiseShort, AnswerShort, LanesTypeOK, accountVars
<1>4. ASSUME NEW t \in Desks, Switch(t) \/ OpenDrawer(t) \/ Staging(t)
                              \/ \E r \in Trips : NewRunFor(t, r)
      PROVE  Kept
  BY <1>inv, <1>4 DEF Switch, OpenDrawer, Staging, NewRunFor, LanesTypeOK, accountVars,
                      dutyVars
<1>5. ASSUME NEW t \in Desks, Toggle(t) \/ RiderToggle(t) \/ Turn(t) PROVE Kept
  <2>1. form[t] \in Forms
    BY <1>inv, <1>5 DEF Toggle, RiderToggle, Turn, Filling, LanesTypeOK
  <2>2. CASE Toggle(t)
    <3>1. form[t].to \in {"ON", "OFF"}
      BY <2>1, <2>2, FormFields DEF Toggle, Filling
    <3> QED
      BY <1>inv, <2>2, <3>1 DEF Toggle, LanesTypeOK, dutyVars
  <2>3. CASE RiderToggle(t)
    <3>1. form[t].to \in {"ACTIVE", "INACTIVE"}
      BY <2>1, <2>3, FormFields DEF RiderToggle, Filling
    <3> QED
      BY <1>inv, <2>3, <3>1 DEF RiderToggle, LanesTypeOK, dutyVars
  <2>4. CASE Turn(t)
    <3>1. form[t].to # "NEW"
      BY <2>1, <2>4, FormFields DEF Turn, Filling
    <3> QED
      BY <1>inv, <2>4, <3>1 DEF Turn, LanesTypeOK, accountVars
  <2> QED
    BY <1>5, <2>2, <2>3, <2>4
<1>6. ASSUME NEW t \in Desks,
             \/ DropForm(t)
             \/ \E s \in Accounts :
                   SwitchBegin(t, s) \/ ToggleBegin(t, s) \/ RiderToggleBegin(t, s)
                   \/ OpenBegin(t, s) \/ NewRunBegin(t, s)
             \/ \E r \in Trips, s \in Accounts, op \in {"save", "dispatch"} :
                   StagingBegin(t, r, s, op)
             \/ \E r \in Trips, to \in Stages \ {"NEW"}, short \in BOOLEAN :
                   TurnBegin(t, r, to, short)
      PROVE  Kept
  BY <1>1, <1>6 DEF DropForm, SwitchBegin, ToggleBegin, RiderToggleBegin, OpenBegin,
                    NewRunBegin, StagingBegin, TurnBegin, BeginForm
<1> HIDE DEF Kept
<1> QED
  BY <1>2, <1>3, <1>4, <1>5, <1>6 DEF Core, AccountStep, RunStep

\* A form in hand after a step was in hand before it, or has just been opened by
\* a step that changed nothing else.
LEMMA FormsAfter ==
    ASSUME LanesInv, Core, NEW t \in Desks, form'[t] # Nobody
    PROVE  /\ form'[t] \in Forms
           /\ FormKnown(form'[t])
           /\ FormFits(form'[t])
           /\ form'[t] = form[t] \/ UNCHANGED <<accountVars, dutyVars>>
<1>1. /\ form \in [Desks -> Forms \cup {Nobody}]
      /\ form[t] # Nobody => form[t] \in Forms /\ FormKnown(form[t]) /\ FormFits(form[t])
  BY DEF LanesInv, LanesTypeOK, Grounded, FormsFit
<1>2. CASE form' = form
  BY <1>1, <1>2
<1>3. CASE \E u \in Desks : form' = [form EXCEPT ![u] = Nobody]
  BY <1>1, <1>3
<1>4. CASE /\ UNCHANGED <<accountVars, dutyVars>>
           /\ \E u \in Desks, f \in Forms : /\ form' = [form EXCEPT ![u] = f]
                                            /\ FormKnown(f) /\ FormFits(f)
  <2>1. PICK u \in Desks, f \in Forms : /\ form' = [form EXCEPT ![u] = f]
                                        /\ FormKnown(f) /\ FormFits(f)
    BY <1>4
  <2> QED
    BY <1>1, <1>4, <2>1
<1> QED
  BY <1>2, <1>3, <1>4, FormsMove

LEMMA FormsType ==
    ASSUME LanesInv, Core
    PROVE  form' \in [Desks -> Forms \cup {Nobody}]
<1>1. form \in [Desks -> Forms \cup {Nobody}]
  BY DEF LanesInv, LanesTypeOK
<1> QED
  BY <1>1, FormsMove

\* The accounts and runs in the hands of a request are marked when they change.
LEMMA Marked ==
    ASSUME LanesInv, LanesNext
    PROVE  /\ touched \subseteq touched'
           /\ touched' \in SUBSET (Accounts \cup Trips)
           /\ \A t \in Desks, s \in Accounts \ touched' :
                 form'[t] # Nobody /\ form'[t].who = s => Duty(s)' = Duty(s)
           /\ \A t \in Desks, r \in Trips \ touched' :
                 form'[t] # Nobody /\ form'[t].trip = r => Fate(r)' = Fate(r)
<1>1. touched' = touched
         \cup {s \in Accounts : Duty(s)' # Duty(s)
                                /\ \E t \in Desks : form'[t] # Nobody /\ form'[t].who = s}
         \cup {r \in Trips : Fate(r)' # Fate(r)
                             /\ \E t \in Desks : form'[t] # Nobody /\ form'[t].trip = r}
  BY DEF LanesNext
<1>2. touched \in SUBSET (Accounts \cup Trips)
  BY DEF LanesInv, LanesTypeOK
<1> QED
  BY <1>1, <1>2

\* What a form was filled for stays there.
LEMMA GroundedStep ==
    ASSUME LanesInv, Core
    PROVE  Grounded'
<1>inv. LanesTypeOK /\ Grounded
  BY DEF LanesInv
<1>1. \A t \in Desks : form'[t] # Nobody => FormKnown(form[t])'
  <2> SUFFICES ASSUME NEW t \in Desks, form'[t] # Nobody
               PROVE  FormKnown(form[t])'
    OBVIOUS
  <2>1. form'[t] \in Forms /\ FormKnown(form'[t])
    BY FormsAfter
  <2>2. PICK f \in Forms : f = form'[t]
    BY <2>1
  <2>3. /\ f.who # Nobody => f.who \in Accounts
        /\ f.op = "account" => f.who \in Accounts
        /\ f.op \in {"save", "dispatch", "turn"} => f.trip \in Trips
    BY FormFields
  <2>4. /\ f.who # Nobody => employee'[f.who] # "NONE"
        /\ f.op = "account" => login'[f.who] # "NONE"
        /\ f.op \in {"save", "dispatch", "turn"} => stage'[f.trip] # "NEW"
        /\ f.op = "turn" /\ f.short => f.who # Nobody
    BY <2>1, <2>2, <2>3, NothingUndone DEF FormKnown
  <2> QED
    BY <2>2, <2>4 DEF FormKnown
<1> DEFINE Firm == /\ \A s \in Accounts : employee'[s] = "NONE" =>
                                             lane'[s] = Nobody /\ login'[s] = "NONE"
                   /\ \A r \in Trips : stage'[r] = "NEW" => rider'[r] = Nobody
                   /\ \A r \in Trips : rider'[r] # Nobody => employee'[rider'[r]] # "NONE"
<1> SUFFICES Firm
  BY <1>1 DEF Grounded
<1>kept. /\ \A s \in Accounts : employee[s] # "NONE" => employee'[s] # "NONE"
         /\ \A s \in Accounts : login[s] # "NONE" => login'[s] # "NONE"
         /\ \A r \in Trips : stage[r] # "NEW" => stage'[r] # "NEW"
  BY NothingUndone
<1>2. ASSUME UNCHANGED <<accountVars, dutyVars>> PROVE Firm
  BY <1>inv, <1>2 DEF accountVars, dutyVars, Grounded
<1>3. ASSUME NEW s \in Accounts, HireRider(s) \/ \E l \in LaneNames : Hire(s, l)
      PROVE  Firm
  BY <1>inv, <1>3, <1>kept DEF Hire, HireRider, LanesTypeOK, Grounded, dutyVars
<1>4. ASSUME NEW s \in Accounts, DeleteRider(s) \/ CloseDrawer(s) PROVE Firm
  BY <1>inv, <1>4, <1>kept DEF DeleteRider, CloseDrawer, LanesTypeOK, Grounded, accountVars
<1>5. ASSUME NEW r \in Trips, QueueRun(r) \/ RaiseShort(r) \/ AnswerShort(r)
      PROVE  Firm
  BY <1>inv, <1>5 DEF QueueRun, RaiseShort, AnswerShort, LanesTypeOK, Grounded, accountVars
<1>6. ASSUME NEW t \in Desks,
             \/ Switch(t) \/ Toggle(t) \/ RiderToggle(t) \/ OpenDrawer(t) \/ Staging(t)
             \/ Turn(t) \/ \E r \in Trips : NewRunFor(t, r)
      PROVE  Firm
  <2> DEFINE f == form[t]
  <2>1. f \in Forms /\ FormKnown(f)
    BY <1>inv, <1>6 DEF LanesTypeOK, Grounded, Switch, Toggle, RiderToggle, OpenDrawer,
                        Staging, Turn, NewRunFor, Filling
  <2>2. /\ f.who \in Accounts \cup {Nobody}
        /\ f.op # "turn" => f.who \in Accounts /\ employee[f.who] # "NONE"
        /\ f.op \in {"save", "dispatch", "turn"} =>
              f.trip \in Trips /\ stage[f.trip] # "NEW"
    BY <2>1, FormFields, LanesAssumption DEF FormKnown
  <2>3. CASE Switch(t)
    BY <1>inv, <2>2, <2>3 DEF Switch, Filling, LanesTypeOK, Grounded, dutyVars
  <2>4. CASE Toggle(t) \/ RiderToggle(t)
    <3>1. f.who \in Accounts /\ employee'[f.who] # "NONE"
      BY <2>2, <2>4, <1>kept DEF Toggle, RiderToggle, Filling
    <3> QED
      BY <1>inv, <2>4, <3>1, <1>kept
      DEF Toggle, RiderToggle, LanesTypeOK, Grounded, dutyVars
  <2>5. CASE OpenDrawer(t)
    BY <1>inv, <2>5 DEF OpenDrawer, LanesTypeOK, Grounded, accountVars
  <2>6. ASSUME NEW r \in Trips, NewRunFor(t, r) PROVE Firm
    BY <1>inv, <2>2, <2>6 DEF NewRunFor, Filling, LanesTypeOK, Grounded, accountVars
  <2>7. CASE Staging(t)
    BY <1>inv, <2>2, <2>7 DEF Staging, Filling, LanesTypeOK, Grounded, accountVars
  <2>8. CASE Turn(t)
    BY <1>inv, <2>2, <2>8, <1>kept DEF Turn, Filling, LanesTypeOK, Grounded, accountVars
  <2> QED
    BY <1>6, <2>3, <2>4, <2>5, <2>6, <2>7, <2>8
<1>7. ASSUME NEW t \in Desks,
             \/ DropForm(t)
             \/ \E s \in Accounts :
                   SwitchBegin(t, s) \/ ToggleBegin(t, s) \/ RiderToggleBegin(t, s)
                   \/ OpenBegin(t, s) \/ NewRunBegin(t, s)
             \/ \E r \in Trips, s \in Accounts, op \in {"save", "dispatch"} :
                   StagingBegin(t, r, s, op)
             \/ \E r \in Trips, to \in Stages \ {"NEW"}, short \in BOOLEAN :
                   TurnBegin(t, r, to, short)
      PROVE  Firm
  BY <1>2, <1>7 DEF DropForm, SwitchBegin, ToggleBegin, RiderToggleBegin, OpenBegin,
                    NewRunBegin, StagingBegin, TurnBegin, BeginForm
<1> HIDE DEF Firm
<1> QED
  BY <1>3, <1>4, <1>5, <1>6, <1>7 DEF Core, AccountStep, RunStep

\* What a request has read still holds where nothing was marked.
LEMMA FormsFitStep ==
    ASSUME LanesInv, LanesNext
    PROVE  FormsFit'
<1>core. Core
  BY DEF LanesNext, Core
<1> SUFFICES ASSUME NEW t \in Desks, form'[t] # Nobody
             PROVE  FormFits(form[t])'
  BY DEF FormsFit
<1>1. form'[t] \in Forms /\ FormFits(form'[t])
  BY <1>core, FormsAfter
<1>2. PICK f \in Forms : f = form'[t]
  BY <1>1
<1>3. /\ touched \subseteq touched'
      /\ f.who \in Accounts \ touched' => Duty(f.who)' = Duty(f.who)
      /\ f.trip \in Trips \ touched' => Fate(f.trip)' = Fate(f.trip)
  BY <1>2, Marked
<1>4. /\ f.op # "turn" => f.who \in Accounts
      /\ f.op = "turn" => f.trip \in Trips
  BY FormFields
<1>5. f.op # "turn" /\ f.who \notin touched' =>
         /\ f.who \notin touched
         /\ lane'[f.who] = lane[f.who] /\ drawer'[f.who] = drawer[f.who]
         /\ FreeOfRuns(f.who) => FreeOfRuns(f.who)'
  BY <1>3, <1>4 DEF Duty, FreeOfRuns
<1>6. f.op = "turn" /\ f.trip \notin touched' =>
         f.trip \notin touched /\ stage'[f.trip] = stage[f.trip]
  BY <1>3, <1>4 DEF Fate
<1>7. FormFits(f)'
  BY <1>1, <1>2, <1>5, <1>6 DEF FormFits
<1> QED
  BY <1>2, <1>7

\* The drawer and the runs of an account nobody marked are those of its lane.
Fitting(s) ==
    /\ drawer[s] => lane[s] = "CASHIER"
    /\ \A r \in Trips \ touched : rider[r] = s /\ Active(r) => lane[s] = "RIDER"

\* The history of an account ends with its lane, and never repeats one.
Recorded(s) ==
    login[s] # "NONE" =>
       /\ Len(stints[s]) > 0 /\ stints[s][Len(stints[s])] = lane[s]
       /\ \A i \in 2 .. Len(stints[s]) : stints[s][i] # stints[s][i - 1]

\* A switch to the other lane makes the history one longer.
LEMMA StintAdded ==
    ASSUME NEW h \in Seq(LaneNames), NEW l \in LaneNames, Len(h) > 0,
           h[Len(h)] # l, \A i \in 2 .. Len(h) : h[i] # h[i - 1]
    PROVE  LET g == Append(h, l) IN
           /\ Len(g) > 0 /\ g[Len(g)] = l
           /\ \A i \in 2 .. Len(g) : g[i] # g[i - 1]
<1> DEFINE g == Append(h, l)
<1>1. /\ Len(h) \in Nat /\ Len(g) = Len(h) + 1 /\ g[Len(g)] = l
      /\ \A i \in 1 .. Len(h) : g[i] = h[i]
  OBVIOUS
<1>2. ASSUME NEW i \in 2 .. Len(g) PROVE g[i] # g[i - 1]
  <2>1. CASE i = Len(g)
    <3>1. g[i] = l /\ g[i - 1] = h[Len(h)]
      BY <1>1, <2>1
    <3> QED
      BY <3>1
  <2>2. CASE i # Len(g)
    <3>1. i \in 2 .. Len(h) /\ i - 1 \in 1 .. Len(h)
      BY <1>1, <2>2
    <3>2. g[i] = h[i] /\ g[i - 1] = h[i - 1]
      BY <1>1, <3>1
    <3> QED
      BY <3>1, <3>2
  <2> QED
    BY <2>1, <2>2
<1> HIDE DEF g
<1> QED
  BY <1>1, <1>2 DEF g

\* No step leaves an account that nobody marked with a drawer, a run or a history
\* of another lane.
LEMMA OneLaneStep ==
    ASSUME LanesInv, LanesNext
    PROVE  OneLaneAtATime'
<1>inv. /\ LanesTypeOK /\ Grounded
        /\ \A s \in Accounts \ touched : Fitting(s) /\ Recorded(s)
  BY DEF LanesInv, OneLaneAtATime, Fitting, Recorded
<1>marks. touched \subseteq touched'
  BY Marked
<1>core. Core
  BY DEF LanesNext, Core
<1> SUFFICES ASSUME NEW s \in Accounts \ touched'
             PROVE  Fitting(s)' /\ Recorded(s)'
  BY DEF OneLaneAtATime, Fitting, Recorded
<1>s. s \in Accounts /\ Fitting(s) /\ Recorded(s)
  BY <1>inv, <1>marks
<1> DEFINE Goal == Fitting(s)' /\ Recorded(s)'
<1> SUFFICES Goal
  OBVIOUS
<1>1. ASSUME UNCHANGED <<accountVars, dutyVars>> PROVE Goal
  BY <1>s, <1>1, <1>marks DEF accountVars, dutyVars, Fitting, Recorded, Active
<1>2. ASSUME NEW u \in Accounts, NEW l \in LaneNames, Hire(u, l) PROVE Goal
  <2>1. CASE u = s
    <3>1. lane[s] = Nobody /\ login[s] = "NONE"
      BY <1>inv, <1>2, <2>1 DEF Hire, Grounded
    <3>2. ~drawer[s] /\ \A r \in Trips \ touched : ~(rider[r] = s /\ Active(r))
      BY <1>s, <3>1, LanesAssumption DEF Fitting, LaneNames
    <3>3. Fitting(s)'
      BY <1>2, <3>2, <1>marks DEF Hire, Fitting, Active, dutyVars
    <3>4. stints'[s] = <<l>> /\ lane'[s] = l
      BY <1>inv, <1>2, <2>1 DEF Hire, LanesTypeOK
    <3>5. Recorded(s)'
      BY <3>4 DEF Recorded
    <3> QED
      BY <3>3, <3>5
  <2>2. CASE u # s
    BY <1>inv, <1>s, <1>2, <2>2, <1>marks
    DEF Hire, LanesTypeOK, Fitting, Recorded, Active, dutyVars
  <2> QED
    BY <2>1, <2>2
<1>3. ASSUME NEW u \in Accounts, HireRider(u) PROVE Goal
  <2>1. CASE u = s
    <3>1. lane[s] = Nobody /\ login[s] = "NONE"
      BY <1>inv, <1>3, <2>1 DEF HireRider, Grounded
    <3>2. ~drawer[s] /\ \A r \in Trips \ touched : ~(rider[r] = s /\ Active(r))
      BY <1>s, <3>1, LanesAssumption DEF Fitting, LaneNames
    <3>3. Fitting(s)'
      BY <1>3, <3>2, <1>marks DEF HireRider, Fitting, Active, dutyVars
    <3> QED
      BY <1>3, <3>1, <3>3 DEF HireRider, Recorded
  <2>2. CASE u # s
    BY <1>inv, <1>s, <1>3, <2>2, <1>marks
    DEF HireRider, LanesTypeOK, Fitting, Recorded, Active, dutyVars
  <2> QED
    BY <2>1, <2>2
<1>4. ASSUME NEW u \in Accounts, DeleteRider(u) \/ CloseDrawer(u) PROVE Goal
  <2>1. /\ UNCHANGED <<lane, login, stints, stage>>
        /\ drawer'[s] => drawer[s]
        /\ \A r \in Trips : rider'[r] = s => rider[r] = s
    <3>1. CASE DeleteRider(u)
      BY <3>1, LanesAssumption DEF DeleteRider
    <3>2. CASE CloseDrawer(u)
      BY <1>inv, <3>2 DEF CloseDrawer, LanesTypeOK, accountVars
    <3> QED
      BY <1>4, <3>1, <3>2
  <2>2. Fitting(s)'
    BY <1>s, <1>marks, <2>1 DEF Fitting, Active
  <2> QED
    BY <1>s, <2>1, <2>2 DEF Recorded
<1>5. ASSUME NEW r \in Trips, QueueRun(r) \/ RaiseShort(r) \/ AnswerShort(r)
      PROVE  Goal
  <2>1. CASE QueueRun(r)
    <3>1. rider[r] # s
      BY <1>inv, <1>s, <2>1, LanesAssumption DEF QueueRun, Grounded
    <3> QED
      BY <1>inv, <1>s, <2>1, <3>1, <1>marks
      DEF QueueRun, LanesTypeOK, Fitting, Recorded, Active, accountVars
  <2>2. CASE RaiseShort(r) \/ AnswerShort(r)
    BY <1>s, <2>2, <1>marks
    DEF RaiseShort, AnswerShort, Fitting, Recorded, Active, accountVars
  <2> QED
    BY <1>5, <2>1, <2>2
<1>6. ASSUME NEW t \in Desks,
             \/ Switch(t) \/ Toggle(t) \/ RiderToggle(t) \/ OpenDrawer(t) \/ Staging(t)
             \/ Turn(t) \/ \E r \in Trips : NewRunFor(t, r)
      PROVE  Goal
  <2>1. form[t] \in Forms /\ FormKnown(form[t]) /\ FormFits(form[t])
    BY <1>6 DEF LanesInv, LanesTypeOK, Grounded, FormsFit, Switch, Toggle, RiderToggle,
                OpenDrawer, Staging, Turn, NewRunFor, Filling
  <2>f. PICK f \in Forms : f = form[t]
    BY <2>1
  <2>2. /\ f.op # "turn" => f.who \in Accounts
        /\ f.op = "switch" => f.to \in LaneNames
        /\ f.op \in {"save", "dispatch", "turn"} => f.trip \in Trips
    BY FormFields
  <2>3. CASE Switch(t)
    <3>1. /\ f.op = "switch" /\ f.who \in Accounts /\ f.to \in LaneNames
          /\ lane' = [lane EXCEPT ![f.who] = f.to]
          /\ stints' = [stints EXCEPT ![f.who] = Append(stints[f.who], f.to)]
          /\ UNCHANGED <<login, dutyVars>>
      BY <2>f, <2>2, <2>3 DEF Switch, Filling
    <3>2. CASE f.who = s
      <4>1. f.to # lane[s] /\ ~drawer[s] /\ FreeOfRuns(s)
        BY <1>marks, <2>1, <2>f, <3>1, <3>2 DEF FormFits
      <4>2. Fitting(s)'
        BY <1>marks, <3>1, <4>1 DEF Fitting, FreeOfRuns, Active, dutyVars
      <4>3. lane'[s] = f.to /\ stints'[s] = Append(stints[s], f.to)
            /\ stints[s] \in Seq(LaneNames) /\ login' = login
        BY <1>inv, <3>1, <3>2 DEF LanesTypeOK
      <4>4. Recorded(s)'
        <5>1. SUFFICES ASSUME login[s] # "NONE" PROVE Recorded(s)'
          BY <4>3 DEF Recorded
        <5>2. PICK h \in Seq(LaneNames) : h = stints[s]
          BY <4>3
        <5>3. Len(h) > 0 /\ h[Len(h)] # f.to
              /\ \A i \in 2 .. Len(h) : h[i] # h[i - 1]
          BY <1>s, <4>1, <5>1, <5>2 DEF Recorded
        <5>4. PICK g : g = Append(h, f.to)
          OBVIOUS
        <5>5. /\ Len(g) > 0 /\ g[Len(g)] = f.to
              /\ \A i \in 2 .. Len(g) : g[i] # g[i - 1]
          BY <3>1, <5>3, <5>4, StintAdded
        <5>6. stints'[s] = g
          BY <4>3, <5>2, <5>4
        <5> QED
          BY <4>3, <5>5, <5>6 DEF Recorded
      <4> QED
        BY <4>2, <4>4
    <3>3. CASE f.who # s
      BY <1>inv, <1>s, <1>marks, <3>1, <3>3
      DEF LanesTypeOK, Fitting, Recorded, Active, dutyVars
    <3> QED
      BY <3>2, <3>3
  <2>4. CASE Toggle(t)
    <3>1. /\ f.op = "account" /\ f.who \in Accounts /\ login[f.who] # "NONE"
          /\ login' = [login EXCEPT ![f.who] = f.to]
          /\ UNCHANGED <<lane, stints, dutyVars>>
      BY <2>1, <2>f, <2>2, <2>4 DEF Toggle, Filling, FormKnown
    <3>2. login'[s] # "NONE" => login[s] # "NONE"
      BY <1>inv, <1>s, <3>1 DEF LanesTypeOK
    <3> QED
      BY <1>s, <1>marks, <3>1, <3>2 DEF Fitting, Recorded, Active, dutyVars
  <2>5. CASE RiderToggle(t)
    BY <1>s, <1>marks, <2>5 DEF RiderToggle, Fitting, Recorded, Active, dutyVars
  <2>6. CASE OpenDrawer(t)
    <3>1. /\ f.op = "open" /\ f.who \in Accounts
          /\ drawer' = [drawer EXCEPT ![f.who] = TRUE]
          /\ UNCHANGED <<accountVars, stage, rider>>
      BY <2>f, <2>2, <2>6 DEF OpenDrawer, Filling
    <3>2. f.who = s => lane[s] = "CASHIER"
      BY <1>marks, <2>1, <2>f, <3>1 DEF FormFits
    <3> QED
      BY <1>inv, <1>s, <1>marks, <3>1, <3>2
      DEF LanesTypeOK, Fitting, Recorded, Active, accountVars
  <2>7. ASSUME NEW r \in Trips, NewRunFor(t, r) PROVE Goal
    <3>1. /\ f.op = "run" /\ f.who \in Accounts
          /\ rider' = [rider EXCEPT ![r] = f.who]
          /\ stage' = [stage EXCEPT ![r] = "PLANNED"]
          /\ UNCHANGED <<accountVars, drawer>>
      BY <2>f, <2>2, <2>7 DEF NewRunFor, Filling
    <3>2. f.who = s => lane[s] = "RIDER"
      BY <1>marks, <2>1, <2>f, <3>1 DEF FormFits
    <3> QED
      BY <1>inv, <1>s, <1>marks, <3>1, <3>2
      DEF LanesTypeOK, Fitting, Recorded, Active, accountVars
  <2>8. CASE Staging(t)
    <3>1. /\ f.op \in {"save", "dispatch"} /\ f.who \in Accounts /\ f.trip \in Trips
          /\ rider' = [rider EXCEPT ![f.trip] = f.who]
          /\ \A r \in Trips : r # f.trip => stage'[r] = stage[r]
          /\ UNCHANGED <<accountVars, drawer>>
      BY <1>inv, <2>f, <2>2, <2>8 DEF Staging, Filling, LanesTypeOK
    <3>2. f.who = s => lane[s] = "RIDER"
      BY <1>marks, <2>1, <2>f, <3>1 DEF FormFits
    <3> QED
      BY <1>inv, <1>s, <1>marks, <3>1, <3>2
      DEF LanesTypeOK, Fitting, Recorded, Active, accountVars
  <2>9. CASE Turn(t)
    <3>1. /\ f.op = "turn" /\ f.trip \in Trips
          /\ stage' = [stage EXCEPT ![f.trip] = f.to]
          /\ UNCHANGED <<accountVars, drawer, rider>>
      BY <2>f, <2>2, <2>9 DEF Turn, Filling
    <3>2. f.trip \notin touched' => Active(f.trip)
      BY <1>marks, <2>1, <2>f, <3>1 DEF FormFits, Active
    <3> QED
      BY <1>inv, <1>s, <1>marks, <3>1, <3>2
      DEF LanesTypeOK, Fitting, Recorded, Active, accountVars
  <2> QED
    BY <1>6, <2>3, <2>4, <2>5, <2>6, <2>7, <2>8, <2>9
<1>7. ASSUME NEW t \in Desks,
             \/ DropForm(t)
             \/ \E u \in Accounts :
                   SwitchBegin(t, u) \/ ToggleBegin(t, u) \/ RiderToggleBegin(t, u)
                   \/ OpenBegin(t, u) \/ NewRunBegin(t, u)
             \/ \E r \in Trips, u \in Accounts, op \in {"save", "dispatch"} :
                   StagingBegin(t, r, u, op)
             \/ \E r \in Trips, to \in Stages \ {"NEW"}, short \in BOOLEAN :
                   TurnBegin(t, r, to, short)
      PROVE  Goal
  BY <1>1, <1>7 DEF DropForm, SwitchBegin, ToggleBegin, RiderToggleBegin, OpenBegin,
                    NewRunBegin, StagingBegin, TurnBegin, BeginForm
<1> HIDE DEF Goal
<1> QED
  BY <1>core, <1>2, <1>3, <1>4, <1>5, <1>6, <1>7 DEF Core, AccountStep, RunStep

-----------------------------------------------------------------------------
(* Theorems *)

LEMMA LanesInvInit == LanesInit => LanesInv
<1> SUFFICES ASSUME LanesInit PROVE LanesInv
  OBVIOUS
<1>1. \A s \in Accounts : <<>> \in Seq(LaneNames)
  OBVIOUS
<1>2. LanesTypeOK
  BY <1>1, LanesAssumption DEF LanesInit, LanesTypeOK, Stages
<1> QED
  BY <1>2, LanesAssumption
  DEF LanesInit, LanesInv, Grounded, FormsFit, OneLaneAtATime, Active

LEMMA LanesInvStep == LanesInv /\ [LanesNext]_laneVars => LanesInv'
<1>1. ASSUME LanesInv, LanesNext PROVE LanesInv'
  <2>1. Core
    BY <1>1 DEF LanesNext, Core
  <2>2. LanesTypeOK'
    BY <1>1, <2>1, RowsType, FormsType, Marked DEF LanesTypeOK
  <2> QED
    BY <1>1, <2>1, <2>2, GroundedStep, FormsFitStep, OneLaneStep DEF LanesInv
<1>2. ASSUME LanesInv, UNCHANGED laneVars PROVE LanesInv'
  BY <1>2 DEF LanesInv, laneVars, accountVars, dutyVars, LanesTypeOK, Grounded, FormKnown,
              FormsFit, FormFits, FreeOfRuns, OneLaneAtATime, Active
<1> QED
  BY <1>1, <1>2

\* Every reachable state satisfies LanesInv, whatever the number of accounts, runs
\* and requests at the same time.
THEOREM LanesInvariant == LanesSpec => []LanesInv
  BY LanesInvInit, LanesInvStep, PTL DEF LanesSpec

\* Accounts, runs and what requests carry keep their shape.
THEOREM LanesTypeCorrect == LanesSpec => []LanesTypeOK
<1>1. LanesInv => LanesTypeOK
  BY DEF LanesInv
<1> QED
  BY <1>1, LanesInvariant, PTL

\* An account that did not change in the hands of another request has no drawer,
\* no run and no history of a lane it is not in.
THEOREM OneLaneSafe == LanesSpec => []OneLaneAtATime
<1>1. LanesInv => OneLaneAtATime
  BY DEF LanesInv
<1> QED
  BY <1>1, LanesInvariant, PTL

-----------------------------------------------------------------------------
(* Salary rows *)

\* A new row has an id of its own and an edited one is there; the row to close is.
EntriesKnown ==
    \A e \in Entries : entry[e] # Absent =>
        /\ ~entry[e].new => entry[e].id \in Given /\ entry[e].prev = Absent
        /\ entry[e].prev # Absent => entry[e].prev \in Given

AloneInHand ==
    ~sideBySide => \A e, f \in Entries : entry[e] # Absent /\ entry[f] # Absent => e = f

\* Nothing has changed since the form was opened: the row to close is still open,
\* and what was compared still holds.
StillTrue ==
    ~sideBySide => \A e \in Entries : entry[e] # Absent =>
        /\ entry[e].new => entry[e].id \notin Given
        /\ entry[e].prev # Absent =>
              /\ payRow[entry[e].prev].to = Absent
              /\ payRow[entry[e].prev].from < entry[e].row.from
        /\ entry[e].compared => ~MeetsAnother(entry[e])

\* No two rows share a day.
RowsApart ==
    ~sideBySide => \A i, j \in Given : i # j => ~RangesOverlap(payRow[i], payRow[j])

ProfilesInv ==
    /\ ProfilesTypeOK
    /\ EntriesKnown
    /\ AloneInHand
    /\ StillTrue
    /\ RowsApart

-----------------------------------------------------------------------------
(* Shapes *)

LEMMA EntryShape ==
  ASSUME ProfilesTypeOK, NEW e \in Entries, entry[e] # Absent
  PROVE  /\ entry[e] \in EntryRows
         /\ entry[e].id \in RowIds
         /\ entry[e].row \in RowShapes
         /\ entry[e].new \in BOOLEAN
         /\ entry[e].compared \in BOOLEAN
         /\ entry[e].prev \in RowIds \cup {Absent}
  <1>1. entry[e] \in EntryRows
    BY DEF ProfilesTypeOK
  <1> QED
    BY <1>1 DEF EntryRows

LEMMA FormShape ==
  ASSUME NEW row \in RowShapes
  PROVE  /\ row \in Stored
         /\ row.from \in Int
         /\ row.to \in Int \cup {Absent}
  <1>1. row \in [from : PayDays, to : PayDays \cup {Absent}, rate : DayRates]
    BY DEF RowShapes
  <1>2. /\ row = [from |-> row.from, to |-> row.to, rate |-> row.rate]
        /\ row.from \in PayDays /\ row.to \in PayDays \cup {Absent} /\ row.rate \in DayRates
    BY <1>1
  <1>3. row.from \in Int /\ row.to \in Int \cup {Absent}
    BY <1>2, PayProfilesAssumption
  <1>4. row \in Stored
    BY <1>2, <1>3 DEF Stored
  <1> QED
    BY <1>3, <1>4

LEMMA RowShape ==
  ASSUME ProfilesTypeOK, NEW i \in Given
  PROVE  /\ i \in RowIds
         /\ payRow[i] \in Stored
         /\ payRow[i].from \in PayDays
         /\ payRow[i].from \in Int
         /\ payRow[i].to \in Int \cup {Absent}
         /\ payRow[i].rate \in DayRates
  <1>1. i \in RowIds /\ payRow[i] \in Stored
    BY DEF ProfilesTypeOK, Given
  <1> QED
    BY <1>1, PayProfilesAssumption DEF Stored

LEMMA IdsNotAbsent == Absent \notin RowIds
  <1>1. \A n \in Nat : n \in Int
    OBVIOUS
  <1> QED
    BY <1>1, PayProfilesAssumption, AbsentAssumption

\* A row as a form sees it: its end may be another, nothing else.
LEMMA SeenShape ==
  ASSUME ProfilesTypeOK, NEW x \in EntryRows, NEW i \in Given
  PROVE  /\ Seen(x, i) \in Stored
         /\ Seen(x, i).from = payRow[i].from
         /\ Seen(x, i).rate = payRow[i].rate
         /\ Seen(x, i).to = IF Closing(x, i) THEN x.row.from - 1 ELSE payRow[i].to
  <1>1. x.row.from \in Int
    BY FormShape DEF EntryRows
  <1>2. payRow[i] \in Stored
    BY RowShape
  <1>3. CASE Closing(x, i)
    <2>1. Seen(x, i) = [payRow[i] EXCEPT !.to = x.row.from - 1]
      BY <1>3 DEF Seen
    <2> QED
      BY <1>1, <1>2, <1>3, <2>1 DEF Stored
  <1>4. CASE ~Closing(x, i)
    BY <1>2, <1>4 DEF Seen
  <1> QED
    BY <1>3, <1>4

LEMMA PreviousOpen ==
  ASSUME NEW day \in Int, NEW p \in RowIds \cup {Absent}, IsPrevious(p, day)
  PROVE  p # Absent => p \in Given /\ payRow[p].to = Absent /\ payRow[p].from < day
  BY DEF IsPrevious, OpenBefore

-----------------------------------------------------------------------------
(* Steps *)

\* A step of one form, in one shape for all actions.
LEMMA CompareShape ==
  ASSUME ProfilesTypeOK, NEW e \in Entries, CloseAndCompare(e)
  PROVE  /\ entry' \in [Entries -> EntryRows \cup {Absent}]
         /\ entry[e] # Absent
         /\ entry'[e] # Absent
         /\ entry'[e].id = entry[e].id
         /\ entry'[e].row = entry[e].row
         /\ entry'[e].new = entry[e].new
         /\ entry'[e].prev = entry[e].prev
         /\ ~MeetsAnother(entry[e])
         /\ \A f \in Entries \ {e} : entry'[f] = entry[f]
         /\ payRow' = payRow
  <1> DEFINE x == [entry[e] EXCEPT !.compared = TRUE]
  <1>1. entry[e] # Absent /\ entry[e] \in EntryRows
    BY EntryShape DEF CloseAndCompare
  <1>2. /\ x \in EntryRows
        /\ x.id = entry[e].id /\ x.row = entry[e].row
        /\ x.new = entry[e].new /\ x.prev = entry[e].prev
    BY <1>1 DEF EntryRows
  <1>3. x # Absent
    BY <1>2, AbsentAssumption
  <1>4. entry' = [entry EXCEPT ![e] = x]
    BY DEF CloseAndCompare
  <1> HIDE DEF x
  <1>5. /\ entry'[e] = x
        /\ \A f \in Entries \ {e} : entry'[f] = entry[f]
        /\ entry' \in [Entries -> EntryRows \cup {Absent}]
    BY <1>2, <1>4 DEF ProfilesTypeOK
  <1> QED
    BY <1>1, <1>2, <1>3, <1>5 DEF CloseAndCompare

LEMMA CreateShape ==
  ASSUME ProfilesTypeOK, NEW e \in Entries, NEW row \in RowShapes, CreateBegin(e, row)
  PROVE  /\ entry' \in [Entries -> EntryRows \cup {Absent}]
         /\ entry[e] = Absent
         /\ entry'[e] # Absent
         /\ entry'[e].id \in RowIds \ Given
         /\ entry'[e].new = TRUE
         /\ entry'[e].compared = FALSE
         /\ entry'[e].prev # Absent =>
               /\ entry'[e].prev \in Given
               /\ payRow[entry'[e].prev].to = Absent
               /\ payRow[entry'[e].prev].from < entry'[e].row.from
         /\ \A f \in Entries \ {e} : entry'[f] = entry[f]
         /\ payRow' = payRow
  <1>1. PICK id \in RowIds \ Given, p \in RowIds \cup {Absent} :
           /\ IsPrevious(p, row.from)
           /\ entry' = [entry EXCEPT ![e] =
                 [id |-> id, row |-> row, new |-> TRUE, prev |-> p, compared |-> FALSE]]
    BY DEF CreateBegin
  <1> DEFINE x == [id |-> id, row |-> row, new |-> TRUE, prev |-> p, compared |-> FALSE]
  <1>2. /\ x \in EntryRows
        /\ x # Absent
        /\ x.id = id /\ x.row = row /\ x.new = TRUE /\ x.prev = p /\ x.compared = FALSE
    <2>1. x \in EntryRows
      BY DEF EntryRows
    <2> QED
      BY <2>1, AbsentAssumption
  <1>3. p # Absent => p \in Given /\ payRow[p].to = Absent /\ payRow[p].from < row.from
    BY <1>1, FormShape, PreviousOpen
  <1>4. entry' = [entry EXCEPT ![e] = x]
    BY <1>1
  <1> HIDE DEF x
  <1>5. /\ entry'[e] = x
        /\ \A f \in Entries \ {e} : entry'[f] = entry[f]
        /\ entry' \in [Entries -> EntryRows \cup {Absent}]
    BY <1>2, <1>4 DEF ProfilesTypeOK
  <1> QED
    BY <1>2, <1>3, <1>5 DEF CreateBegin

LEMMA EditShape ==
  ASSUME ProfilesTypeOK, NEW e \in Entries, NEW id \in RowIds, NEW row \in RowShapes,
         EditBegin(e, id, row)
  PROVE  /\ entry' \in [Entries -> EntryRows \cup {Absent}]
         /\ entry[e] = Absent
         /\ entry'[e] # Absent
         /\ entry'[e].id \in Given
         /\ entry'[e].new = FALSE
         /\ entry'[e].compared = FALSE
         /\ entry'[e].prev = Absent
         /\ \A f \in Entries \ {e} : entry'[f] = entry[f]
         /\ payRow' = payRow
  <1> DEFINE x == [id |-> id, row |-> row, new |-> FALSE, prev |-> Absent, compared |-> FALSE]
  <1>1. /\ x \in EntryRows
        /\ x # Absent
        /\ x.id = id /\ x.new = FALSE /\ x.prev = Absent /\ x.compared = FALSE
    <2>1. x \in EntryRows
      BY DEF EntryRows
    <2> QED
      BY <2>1, AbsentAssumption
  <1>2. entry' = [entry EXCEPT ![e] = x]
    BY DEF EditBegin
  <1> HIDE DEF x
  <1>3. /\ entry'[e] = x
        /\ \A f \in Entries \ {e} : entry'[f] = entry[f]
        /\ entry' \in [Entries -> EntryRows \cup {Absent}]
    BY <1>1, <1>2 DEF ProfilesTypeOK
  <1> QED
    BY <1>1, <1>3 DEF EditBegin

LEMMA WriteShape ==
  ASSUME ProfilesTypeOK, EntriesKnown, NEW e \in Entries, WriteRow(e)
  PROVE  LET x == entry[e] IN
         /\ x # Absent
         /\ x \in EntryRows
         /\ x.compared
         /\ x.id \in RowIds
         /\ payRow' \in [RowIds -> Stored \cup {Absent}]
         /\ payRow'[x.id] = x.row
         /\ x.row \in Stored
         /\ x.row # Absent
         /\ \A i \in RowIds \ {x.id} : payRow'[i] = Seen(x, i)
         /\ \A i \in RowIds \ Given : i # x.id => payRow'[i] = Absent
         /\ Given' = Given \cup {x.id}
         /\ entry' = [entry EXCEPT ![e] = Absent]
  <1> DEFINE x == entry[e]
  <1>1. x # Absent /\ x.compared
    BY DEF WriteRow
  <1>2. x \in EntryRows /\ x.id \in RowIds /\ x.row \in RowShapes
    BY <1>1, EntryShape
  <1>3. x.row \in Stored /\ x.row # Absent
    BY <1>2, FormShape, AbsentAssumption
  <1>4. \A i \in Given : Seen(x, i) \in Stored
    BY <1>2, SeenShape
  <1>5. \A i \in RowIds \ Given : Seen(x, i) = Absent
    <2>1. \A i \in RowIds \ Given : payRow[i] = Absent /\ i # Absent
      BY IdsNotAbsent DEF Given
    <2>2. \A i \in RowIds \ Given : ~Closing(x, i)
      BY <1>1, <2>1 DEF EntriesKnown, Closing
    <2> QED
      BY <2>1, <2>2 DEF Seen
  <1>6. payRow' = [i \in RowIds |-> IF i = x.id THEN x.row ELSE Seen(x, i)]
    BY DEF WriteRow
  <1>7. \A i \in Given : Seen(x, i) # Absent
    BY <1>4, AbsentAssumption
  <1>8. /\ payRow'[x.id] = x.row
        /\ \A i \in RowIds \ {x.id} : payRow'[i] = Seen(x, i)
    BY <1>2, <1>6
  <1> HIDE DEF x
  <1>9. payRow' \in [RowIds -> Stored \cup {Absent}]
    <2>1. \A i \in RowIds : Seen(x, i) \in Stored \cup {Absent}
      BY <1>4, <1>5
    <2> QED
      BY <1>3, <1>6, <2>1
  <1>10. Given' = Given \cup {x.id}
    BY <1>2, <1>3, <1>5, <1>7, <1>8 DEF Given
  <1>11. entry' = [entry EXCEPT ![e] = Absent]
    BY DEF WriteRow
  <1> QED
    BY <1>1, <1>2, <1>3, <1>5, <1>8, <1>9, <1>10, <1>11 DEF x

\* How a step remembers that two forms were open at once.
Remembered ==
    sideBySide' = (sideBySide \/ \E e, f \in Entries :
                          e # f /\ entry'[e] # Absent /\ entry'[f] # Absent)

LEMMA AloneStep ==
  ASSUME ProfilesTypeOK, Remembered
  PROVE  AloneInHand' /\ sideBySide' \in BOOLEAN /\ (~sideBySide' => ~sideBySide)
  BY DEF AloneInHand, Remembered, ProfilesTypeOK

\* Overlap does not depend on the order, and a row that ends earlier overlaps less.
LEMMA OverlapOrder ==
  ASSUME NEW a, NEW b
  PROVE  RangesOverlap(a, b) <=> RangesOverlap(b, a)
  BY DEF RangesOverlap

LEMMA SeenApart ==
  ASSUME ProfilesTypeOK, NEW x \in EntryRows, NEW i \in Given, NEW j \in Given,
         x.prev # Absent => payRow[x.prev].to = Absent,
         ~RangesOverlap(payRow[i], payRow[j]), i # j
  PROVE  ~RangesOverlap(Seen(x, i), Seen(x, j))
  <1>1. /\ Seen(x, i).from = payRow[i].from
        /\ Seen(x, j).from = payRow[j].from
        /\ Seen(x, i).to = IF Closing(x, i) THEN x.row.from - 1 ELSE payRow[i].to
        /\ Seen(x, j).to = IF Closing(x, j) THEN x.row.from - 1 ELSE payRow[j].to
    BY SeenShape
  <1>2. i # Absent /\ j # Absent
    BY IdsNotAbsent DEF Given
  <1>3. CASE Closing(x, i)
    <2>1. payRow[i].to = Absent /\ ~Closing(x, j)
      BY <1>2, <1>3 DEF Closing
    <2> QED
      BY <1>1, <2>1 DEF RangesOverlap, Ends
  <1>4. CASE Closing(x, j)
    <2>1. payRow[j].to = Absent /\ ~Closing(x, i)
      BY <1>2, <1>4 DEF Closing
    <2> QED
      BY <1>1, <2>1 DEF RangesOverlap, Ends
  <1>5. CASE ~Closing(x, i) /\ ~Closing(x, j)
    BY <1>1, <1>5 DEF RangesOverlap, Ends
  <1> QED
    BY <1>3, <1>4, <1>5

LEMMA WriteApart ==
  ASSUME ProfilesInv, ~sideBySide, NEW e \in Entries, WriteRow(e),
         NEW i \in Given', NEW j \in Given', i # j
  PROVE  ~RangesOverlap(payRow'[i], payRow'[j])
  <1> ProfilesTypeOK /\ EntriesKnown /\ StillTrue /\ RowsApart
    BY DEF ProfilesInv
  <1> DEFINE x == entry[e]
  <1>1. /\ x # Absent /\ x \in EntryRows /\ x.compared
        /\ x.id \in RowIds
        /\ payRow'[x.id] = x.row
        /\ \A k \in RowIds \ {x.id} : payRow'[k] = Seen(x, k)
        /\ Given' = Given \cup {x.id}
    BY WriteShape
  <1>2. \A k \in Given \ {x.id} : ~RangesOverlap(Seen(x, k), x.row)
    BY <1>1 DEF StillTrue, MeetsAnother
  <1>3. x.prev # Absent => payRow[x.prev].to = Absent
    BY <1>1 DEF StillTrue
  <1> HIDE DEF x
  <1>4. Given \subseteq RowIds
    BY DEF Given
  <1>5. CASE i = x.id
    BY <1>1, <1>2, <1>4, <1>5, OverlapOrder
  <1>6. CASE j = x.id
    BY <1>1, <1>2, <1>4, <1>6
  <1>7. CASE i # x.id /\ j # x.id
    <2>1. i \in Given /\ j \in Given
      BY <1>1, <1>7
    <2>2. ~RangesOverlap(payRow[i], payRow[j])
      BY <2>1 DEF RowsApart
    <2>3. ~RangesOverlap(Seen(x, i), Seen(x, j))
      BY <1>1, <1>3, <2>1, <2>2, SeenApart
    <2> QED
      BY <1>1, <1>4, <1>7, <2>1, <2>3
  <1> QED
    BY <1>5, <1>6, <1>7

\* An action that writes no row.
LEMMA QuietStep ==
  ASSUME ProfilesInv, Remembered, payRow' = payRow, NEW e \in Entries,
         entry' \in [Entries -> EntryRows \cup {Absent}],
         \A f \in Entries \ {e} : entry'[f] = entry[f],
         entry'[e] # Absent =>
            /\ ~entry'[e].new => entry'[e].id \in Given /\ entry'[e].prev = Absent
            /\ entry'[e].prev # Absent => entry'[e].prev \in Given
            /\ ~sideBySide =>
                  /\ entry'[e].new => entry'[e].id \notin Given
                  /\ entry'[e].prev # Absent =>
                        /\ payRow[entry'[e].prev].to = Absent
                        /\ payRow[entry'[e].prev].from < entry'[e].row.from
                  /\ entry'[e].compared => ~MeetsAnother(entry'[e])
  PROVE  ProfilesInv'
  <1>1. Given' = Given
    BY DEF Given
  <1>2. AloneInHand' /\ sideBySide' \in BOOLEAN /\ (~sideBySide' => ~sideBySide)
    BY AloneStep DEF ProfilesInv
  <1>3. ProfilesTypeOK'
    BY <1>2 DEF ProfilesInv, ProfilesTypeOK
  <1>4. EntriesKnown'
    BY <1>1 DEF ProfilesInv, EntriesKnown
  <1>6. StillTrue'
    <2> SUFFICES ASSUME ~sideBySide', NEW f \in Entries, entry'[f] # Absent
                 PROVE  /\ entry'[f].new => entry'[f].id \notin Given
                        /\ entry'[f].prev # Absent =>
                              /\ payRow[entry'[f].prev].to = Absent
                              /\ payRow[entry'[f].prev].from < entry'[f].row.from
                        /\ entry'[f].compared => ~MeetsAnother(entry'[f])
      BY <1>1 DEF StillTrue, MeetsAnother, Seen, Closing, RangesOverlap, Ends
    <2>1. CASE f = e
      BY <1>2, <2>1
    <2>2. CASE f # e
      BY <1>2, <2>2 DEF ProfilesInv, StillTrue
    <2> QED
      BY <2>1, <2>2
  <1>7. RowsApart'
    BY <1>1, <1>2 DEF ProfilesInv, RowsApart, RangesOverlap, Ends
  <1> QED
    BY <1>2, <1>3, <1>4, <1>6, <1>7 DEF ProfilesInv

LEMMA WriteStep ==
  ASSUME ProfilesInv, Remembered, NEW e \in Entries, WriteRow(e)
  PROVE  ProfilesInv'
  <1> ProfilesTypeOK /\ EntriesKnown
    BY DEF ProfilesInv
  <1>1. /\ payRow' \in [RowIds -> Stored \cup {Absent}]
        /\ Given' = Given \cup {entry[e].id}
        /\ entry' = [entry EXCEPT ![e] = Absent]
        /\ entry[e] # Absent
    BY WriteShape
  <1>2. AloneInHand' /\ sideBySide' \in BOOLEAN /\ (~sideBySide' => ~sideBySide)
    BY AloneStep
  <1>3. \A f \in Entries : entry'[f] # Absent => f # e /\ entry'[f] = entry[f]
    BY <1>1 DEF ProfilesTypeOK
  <1>4. ProfilesTypeOK'
    BY <1>1, <1>2 DEF ProfilesTypeOK
  <1>5. EntriesKnown'
    BY <1>1, <1>3 DEF EntriesKnown
  <1>6. ASSUME ~sideBySide' PROVE \A f \in Entries : entry'[f] = Absent
    BY <1>1, <1>2, <1>3, <1>6 DEF ProfilesInv, AloneInHand
  <1>7. StillTrue'
    BY <1>6 DEF StillTrue
  <1>8. RowsApart'
    BY <1>2, WriteApart DEF RowsApart, RangesOverlap, Ends
  <1> QED
    BY <1>2, <1>4, <1>5, <1>7, <1>8 DEF ProfilesInv

LEMMA ProfilesStep == ProfilesInv /\ [ProfilesNext]_profileVars => ProfilesInv'
  <1> SUFFICES ASSUME ProfilesInv, [ProfilesNext]_profileVars PROVE ProfilesInv'
    OBVIOUS
  <1> ProfilesTypeOK /\ EntriesKnown
    BY DEF ProfilesInv
  <1>1. ASSUME Remembered, NEW e \in Entries, NEW row \in RowShapes, CreateBegin(e, row)
        PROVE  ProfilesInv'
    BY <1>1, CreateShape, QuietStep
  <1>2. ASSUME Remembered, NEW e \in Entries, NEW id \in RowIds, NEW row \in RowShapes,
               EditBegin(e, id, row)
        PROVE  ProfilesInv'
    BY <1>2, EditShape, QuietStep
  <1>3. ASSUME Remembered, NEW e \in Entries, CloseAndCompare(e) PROVE ProfilesInv'
    <2>1. /\ entry' \in [Entries -> EntryRows \cup {Absent}]
          /\ entry[e] # Absent
          /\ entry'[e].id = entry[e].id
          /\ entry'[e].row = entry[e].row
          /\ entry'[e].new = entry[e].new
          /\ entry'[e].prev = entry[e].prev
          /\ ~MeetsAnother(entry[e])
          /\ \A f \in Entries \ {e} : entry'[f] = entry[f]
          /\ payRow' = payRow
      BY <1>3, CompareShape
    <2>2. ~MeetsAnother(entry'[e])
      BY <2>1 DEF MeetsAnother, Seen, Closing
    <2>3. /\ ~entry'[e].new => entry'[e].id \in Given /\ entry'[e].prev = Absent
          /\ entry'[e].prev # Absent => entry'[e].prev \in Given
      BY <2>1 DEF EntriesKnown
    <2>4. ~sideBySide =>
            /\ entry'[e].new => entry'[e].id \notin Given
            /\ entry'[e].prev # Absent =>
                  /\ payRow[entry'[e].prev].to = Absent
                  /\ payRow[entry'[e].prev].from < entry'[e].row.from
      BY <2>1 DEF ProfilesInv, StillTrue
    <2> QED
      BY <1>3, <2>1, <2>2, <2>3, <2>4, QuietStep
  <1>4. ASSUME Remembered, NEW e \in Entries, WriteRow(e) PROVE ProfilesInv'
    BY <1>4, WriteStep
  <1>5. ASSUME Remembered, NEW e \in Entries, Refuse(e) PROVE ProfilesInv'
    <2>1. /\ entry' \in [Entries -> EntryRows \cup {Absent}]
          /\ entry'[e] = Absent
          /\ \A f \in Entries \ {e} : entry'[f] = entry[f]
          /\ payRow' = payRow
      BY <1>5 DEF Refuse, ProfilesTypeOK
    <2> QED
      BY <1>5, <2>1, QuietStep
  <1>6. CASE UNCHANGED profileVars
    BY <1>6 DEF profileVars, ProfilesInv, ProfilesTypeOK, EntriesKnown, AloneInHand, StillTrue,
                RowsApart, Given, MeetsAnother, Seen, Closing, RangesOverlap, Ends
  <1> QED
    BY <1>1, <1>2, <1>3, <1>4, <1>5, <1>6 DEF ProfilesNext, Remembered

LEMMA ProfilesStart == ProfilesInit => ProfilesInv
  BY DEF ProfilesInit, ProfilesInv, ProfilesTypeOK, EntriesKnown, AloneInHand, StillTrue,
         RowsApart, Given

-----------------------------------------------------------------------------
(* Theorems *)

\* The inductive invariant: what an open form has read still holds when it commits.
THEOREM ProfilesInvariant == ProfilesSpec => []ProfilesInv
  BY ProfilesStart, ProfilesStep, PTL DEF ProfilesSpec

\* Rows and forms keep their shape, however forms overlap.
THEOREM ProfilesTypeCorrect == ProfilesSpec => []ProfilesTypeOK
  <1>1. ProfilesInv => ProfilesTypeOK
    BY DEF ProfilesInv
  <1> QED
    BY <1>1, ProfilesInvariant, PTL

\* A choice among one.
LEMMA ChoiceOfOne ==
  ASSUME NEW rows, NEW k, rows[k].from \in Int
  PROVE  (CHOOSE i \in {k} : \A j \in {k} : rows[j].from <= rows[i].from) = k
  <1>1. \E i \in {k} : \A j \in {k} : rows[j].from <= rows[i].from
    OBVIOUS
  <1> QED
    BY <1>1

LEMMA InForceAlone ==
  ASSUME ProfilesTypeOK, RowsApart, ~sideBySide, NEW d \in Int,
         NEW i \in InForceOn(d), NEW j \in InForceOn(d)
  PROVE  i = j
  <1>1. /\ i \in Given /\ j \in Given
        /\ payRow[i].from <= d /\ ~Ends(payRow[i], d)
        /\ payRow[j].from <= d /\ ~Ends(payRow[j], d)
    BY DEF InForceOn
  <1>2. /\ payRow[i].from \in Int /\ payRow[i].to \in Int \cup {Absent}
        /\ payRow[j].from \in Int /\ payRow[j].to \in Int \cup {Absent}
    BY <1>1, RowShape
  <1>3. RangesOverlap(payRow[i], payRow[j])
    BY <1>1, <1>2 DEF RangesOverlap, Ends
  <1> QED
    BY <1>1, <1>3 DEF RowsApart

\* While one form is open at a time, no day of an employee has two rates: the row
\* that is closed and the rows that are compared leave no overlap.
THEOREM RatesApart == ProfilesSpec => []OneRatePerDay
  <1>1. ProfilesInv => OneRatePerDay
    <2> SUFFICES ASSUME ProfilesInv, ~sideBySide, NEW d \in PayDays,
                        NEW i \in InForceOn(d), NEW j \in InForceOn(d)
                 PROVE  i = j
      BY DEF OneRatePerDay
    <2>1. d \in Int
      BY PayProfilesAssumption
    <2> QED
      BY <2>1, InForceAlone DEF ProfilesInv
  <1> QED
    BY <1>1, ProfilesInvariant, PTL

LEMMA WriteKeepsEarlier ==
  ASSUME ProfilesInv, ~sideBySide, NEW e \in Entries, WriteRow(e),
         NEW i \in RowIds, payRow[i] = Absent, payRow'[i] # Absent,
         NEW d \in PayDays, d < payRow'[i].from
  PROVE  RateOn(d)' = RateOn(d)
  <1> ProfilesTypeOK /\ EntriesKnown /\ StillTrue /\ RowsApart
    BY DEF ProfilesInv
  <1> DEFINE x == entry[e]
  <1>1. /\ x # Absent /\ x \in EntryRows
        /\ x.id \in RowIds
        /\ payRow'[x.id] = x.row
        /\ \A k \in RowIds \ {x.id} : payRow'[k] = Seen(x, k)
        /\ \A k \in RowIds \ Given : k # x.id => payRow'[k] = Absent
        /\ Given' = Given \cup {x.id}
    BY WriteShape
  <1>2. i = x.id /\ x.id \notin Given
    BY <1>1 DEF Given
  <1>3. d \in Int /\ x.row.from \in Int /\ d < x.row.from
    <2>1. x.row \in RowShapes
      BY <1>1 DEF EntryRows
    <2> QED
      BY <1>1, <1>2, <2>1, FormShape, PayProfilesAssumption
  <1> HIDE DEF x
  <1>4. ASSUME NEW k \in Given
        PROVE  /\ payRow'[k].from = payRow[k].from
               /\ payRow'[k].rate = payRow[k].rate
               /\ Ends(payRow'[k], d) <=> Ends(payRow[k], d)
    <2>1. payRow'[k] = Seen(x, k)
      BY <1>1, <1>2 DEF Given
    <2>2. /\ Seen(x, k).from = payRow[k].from
          /\ Seen(x, k).rate = payRow[k].rate
          /\ Seen(x, k).to = IF Closing(x, k) THEN x.row.from - 1 ELSE payRow[k].to
      BY <1>1, SeenShape
    <2>3. Closing(x, k) => payRow[k].to = Absent
      <3>1. k # Absent
        BY IdsNotAbsent DEF Given
      <3> QED
        BY <1>1, <3>1 DEF Closing, StillTrue, x
    <2>4. Ends(Seen(x, k), d) <=> Ends(payRow[k], d)
      BY <1>3, <2>2, <2>3 DEF Ends
    <2> QED
      BY <2>1, <2>2, <2>4
  <1>5. InForceOn(d)' = InForceOn(d)
    <2>1. InForceOn(d)' = {k \in Given' : payRow'[k].from <= d /\ ~Ends(payRow'[k], d)}
      BY DEF InForceOn, Ends
    <2>2. ~(payRow'[x.id].from <= d)
      BY <1>1, <1>3
    <2> QED
      BY <1>1, <1>4, <2>1, <2>2 DEF InForceOn
  <1>6. CASE InForceOn(d) = {}
    BY <1>5, <1>6 DEF RateOn
  <1>7. ASSUME NEW k \in InForceOn(d) PROVE RateOn(d)' = RateOn(d)
    <2>1. InForceOn(d) = {k}
      BY <1>3, <1>7, InForceAlone
    <2>2. k \in Given /\ payRow[k].from \in Int /\ payRow'[k].from \in Int
      BY <1>4, <1>7, RowShape DEF InForceOn
    <2>3. (CHOOSE n \in {k} : \A j \in {k} : payRow[j].from <= payRow[n].from) = k
      BY <2>2, ChoiceOfOne
    <2>4. (CHOOSE n \in {k} : \A j \in {k} : payRow'[j].from <= payRow'[n].from) = k
      BY <2>2, ChoiceOfOne
    <2>5. RateOn(d) = payRow[k].rate
      BY <2>1, <2>3 DEF RateOn
    <2>6. RateOn(d)' = payRow'[k].rate
      <3>1. InForceOn(d)' = {k}
        BY <1>5, <2>1
      <3> QED
        BY <3>1, <2>4 DEF RateOn
    <2> QED
      BY <1>4, <2>2, <2>5, <2>6
  <1> QED
    BY <1>6, <1>7

\* A new row begins a new rate and leaves the rate of every day before it: the row
\* it closes is cut after those days, and no other row changes.
THEOREM EarlierSafe == ProfilesSpec => EarlierDaysKept
  <1> DEFINE Kept == \A i \in RowIds : payRow[i] = Absent /\ payRow'[i] # Absent /\ ~sideBySide' =>
                        \A d \in PayDays : d < payRow'[i].from => RateOn(d)' = RateOn(d)
  <1>1. ProfilesInv /\ [ProfilesNext]_profileVars => [Kept]_profileVars
    <2> SUFFICES ASSUME ProfilesInv, ProfilesNext, NEW i \in RowIds,
                        payRow[i] = Absent, payRow'[i] # Absent, ~sideBySide',
                        NEW d \in PayDays, d < payRow'[i].from
                 PROVE  RateOn(d)' = RateOn(d)
      OBVIOUS
    <2>1. ~sideBySide
      BY DEF ProfilesNext, ProfilesInv, ProfilesTypeOK
    <2>2. PICK e \in Entries : WriteRow(e)
      BY DEF ProfilesNext, CreateBegin, EditBegin, CloseAndCompare, Refuse
    <2> QED
      BY <2>1, <2>2, WriteKeepsEarlier
  <1> QED
    BY <1>1, ProfilesInvariant, PTL DEF ProfilesSpec, EarlierDaysKept

-----------------------------------------------------------------------------
(* Payroll *)

\* What a request has in hand still holds of a run, or of a worker's charges,
\* that no other request has in hand.
Sure(j) ==
    /\ j.op \in {"rebuild", "finalize"} /\ j.run \notin crossed => Draft(j.run)
    /\ j.op = "rebuild" /\ j.run \notin crossed =>
          \A w \in Workers :
              (IF j.lines[w] = None THEN 0 ELSE j.lines[w].deducted) = Carried(j.run, w)
    /\ j.op = "deduct" =>
          \A k \in Charges : j.pay[k] > 0 =>
              /\ Owner[k] = j.worker
              /\ j.worker \notin crossed =>
                    k \notin settled /\ paid[k] + j.pay[k] <= Amount[k]

\* What two requests have in hand is known to be.
HandsApart ==
    \A t \in Tasks, u \in Tasks :
        t # u => Touches(task[t]) \cap Touches(task[u]) \subseteq crossed

PayInv ==
    /\ PayTypeOK
    /\ HandsApart
    /\ \A t \in Tasks, j \in TaskRows : task[t] = j => Sure(j)
    /\ DeductionsCarried
    /\ NeverOvertaken

\* A step that leaves what is outside T as it was, for those who have it in hand.
PayFrame(T) ==
    /\ \A r \in Runs \ T :
          /\ Draft(r) => Draft(r)'
          /\ \A w \in Workers : Carried(r, w)' = Carried(r, w)
    /\ \A k \in Charges : Owner[k] \notin T =>
          paid'[k] = paid[k] /\ (k \in settled' <=> k \in settled)

\* What each request holds.
LEMMA TaskFields ==
    ASSUME NEW j \in TaskRows
    PROVE  /\ j # None /\ j.run \in Runs
           /\ j.op \in {"rebuild", "override", "deduct", "redo", "finalize", "payout"}
           /\ j.op = "rebuild" => j.lines \in [Workers -> Lines \cup {None}]
           /\ j.op = "override" => j.extras \in [Workers -> Extras \cup {0}]
           /\ j.op = "deduct" => /\ j.worker \in Workers /\ j.id \in Nat
                                 /\ j.pay \in [Charges -> Nat]
           /\ Touches(j) = {j.run} \cup (IF j.op = "deduct" THEN {j.worker} ELSE {})
           /\ Touches(j) \subseteq Runs \cup Workers
<1>1. j # None
  BY NoneIsNothing
<1>2. /\ j.run \in Runs
      /\ j.op \in {"rebuild", "override", "deduct", "redo", "finalize", "payout"}
      /\ j.op = "rebuild" => j.lines \in [Workers -> Lines \cup {None}]
      /\ j.op = "override" => j.extras \in [Workers -> Extras \cup {0}]
      /\ j.op = "deduct" => /\ j.worker \in Workers /\ j.id \in Nat
                            /\ j.pay \in [Charges -> Nat]
  BY DEF TaskRows
<1> QED
  BY <1>1, <1>2 DEF Touches

\* A request in hand is one of them.
LEMMA DoingRow ==
    ASSUME PayInv, NEW t \in Tasks, task[t] # None
    PROVE  task[t] \in TaskRows /\ Sure(task[t])
<1>1. task[t] \in TaskRows
  BY DEF PayInv, PayTypeOK
<1> QED
  BY <1>1 DEF PayInv

\* What was sure stays so while the rest of the frame stays.
LEMMA SureStays ==
    ASSUME NEW j \in TaskRows, Sure(j), crossed \subseteq crossed',
           NEW T, T \cap Touches(j) \subseteq crossed', PayFrame(T)
    PROVE  Sure(j)'
<1>1. /\ j.run \in Touches(j) /\ j.run \in Runs
      /\ j.op = "deduct" => j.worker \in Touches(j)
  BY TaskFields
<1>2. ASSUME j.run \notin crossed'
      PROVE  j.run \notin crossed /\ j.run \notin T
  BY <1>1, <1>2
<1>3. ASSUME j.op \in {"rebuild", "finalize"}, j.run \notin crossed'
      PROVE  Draft(j.run)'
  BY <1>1, <1>2, <1>3 DEF Sure, PayFrame
<1>4. ASSUME j.op = "rebuild", j.run \notin crossed', NEW w \in Workers
      PROVE  (IF j.lines[w] = None THEN 0 ELSE j.lines[w].deducted) = Carried(j.run, w)'
  <2>1. (IF j.lines[w] = None THEN 0 ELSE j.lines[w].deducted) = Carried(j.run, w)
    BY <1>2, <1>4 DEF Sure
  <2>2. Carried(j.run, w)' = Carried(j.run, w)
    BY <1>1, <1>2, <1>4 DEF PayFrame
  <2> QED
    BY <2>1, <2>2
<1>5. ASSUME j.op = "deduct", NEW k \in Charges, j.pay[k] > 0
      PROVE  /\ Owner[k] = j.worker
             /\ j.worker \notin crossed' =>
                   k \notin settled' /\ paid'[k] + j.pay[k] <= Amount[k]
  <2>1. Owner[k] = j.worker
    BY <1>5 DEF Sure
  <2>2. ASSUME j.worker \notin crossed'
        PROVE  k \notin settled' /\ paid'[k] + j.pay[k] <= Amount[k]
    <3>1. k \notin settled /\ paid[k] + j.pay[k] <= Amount[k]
      BY <1>5, <2>2 DEF Sure
    <3>2. Owner[k] \notin T
      BY <1>1, <1>5, <2>1, <2>2
    <3> QED
      BY <3>1, <3>2 DEF PayFrame
  <2> QED
    BY <2>1, <2>2
<1> QED
  BY <1>3, <1>4, <1>5 DEF Sure

\* A request goes on, ends, or begins; what the others hold stays sure.
LEMMA TaskMoves ==
    ASSUME PayInv, NEW t \in Tasks, PayFrame(Touches(task[t])),
           crossed' = crossed \cup
               UNION {(Touches(task[t]) \cup Touches(task'[t])) \cap Touches(task'[u]) :
                         u \in Tasks \ {t}},
           \/ task' = [task EXCEPT ![t] = None]
           \/ \E j \in TaskRows : task' = [task EXCEPT ![t] = j] /\ Sure(j)'
    PROVE  /\ task' \in [Tasks -> TaskRows \cup {None}]
           /\ crossed' \in SUBSET (Runs \cup Workers)
           /\ HandsApart'
           /\ \A u \in Tasks, j \in TaskRows : task'[u] = j => Sure(j)'
<1>0. /\ task \in [Tasks -> TaskRows \cup {None}] /\ crossed \subseteq Runs \cup Workers
      /\ None \notin TaskRows
  BY NoneIsNothing DEF PayInv, PayTypeOK
<1>1. PICK e \in TaskRows \cup {None} :
         task' = [task EXCEPT ![t] = e] /\ (e \in TaskRows => Sure(e)')
  BY <1>0
<1>2. /\ task' \in [Tasks -> TaskRows \cup {None}] /\ task'[t] = e
      /\ \A u \in Tasks : u # t => task'[u] = task[u]
  BY <1>0, <1>1
<1>3. \A u \in Tasks : u # t =>
         /\ Touches(task[t]) \cap Touches(task[u]) \subseteq crossed'
         /\ Touches(task'[t]) \cap Touches(task[u]) \subseteq crossed'
  BY <1>2
<1>4. \A u \in Tasks : Touches(task[u]) \subseteq Runs \cup Workers
  <2> SUFFICES ASSUME NEW u \in Tasks
               PROVE  Touches(task[u]) \subseteq Runs \cup Workers
    OBVIOUS
  <2>1. CASE task[u] = None
    BY <2>1 DEF Touches
  <2>2. CASE task[u] # None
    BY <1>0, <2>2, TaskFields
  <2> QED
    BY <2>1, <2>2
<1>5. crossed' \in SUBSET (Runs \cup Workers)
  BY <1>0, <1>2, <1>4
<1>6. HandsApart'
  <2> SUFFICES ASSUME NEW u \in Tasks, NEW v \in Tasks, u # v
               PROVE  Touches(task'[u]) \cap Touches(task'[v]) \subseteq crossed'
    BY DEF HandsApart
  <2>1. CASE u # t /\ v # t
    BY <1>2, <2>1 DEF PayInv, HandsApart
  <2>2. CASE u = t
    BY <1>2, <1>3, <2>2
  <2>3. CASE v = t
    BY <1>2, <1>3, <2>3
  <2> QED
    BY <2>1, <2>2, <2>3
<1>7. ASSUME NEW u \in Tasks, NEW j \in TaskRows, task'[u] = j
      PROVE  Sure(j)'
  <2>1. CASE u = t
    BY <1>1, <1>2, <1>7, <2>1
  <2>2. CASE u # t
    <3>1. task[u] = j /\ Sure(j)
      BY <1>2, <1>7, <2>2 DEF PayInv
    <3>2. Touches(task[t]) \cap Touches(j) \subseteq crossed'
      BY <1>3, <2>2, <3>1
    <3>3. crossed \subseteq crossed'
      OBVIOUS
    <3> QED
      BY <3>1, <3>2, <3>3, SureStays
  <2> QED
    BY <2>1, <2>2
<1> QED
  BY <1>2, <1>5, <1>6, <1>7

\* Where no money moves, the sums stay right.
LEMMA SumsStay ==
    ASSUME PayInv, UNCHANGED <<line, taken, paid, settled>>, crossed \subseteq crossed'
    PROVE  DeductionsCarried' /\ NeverOvertaken'
BY DEF PayInv, DeductionsCarried, NeverOvertaken

\* A request that only reads.
LEMMA BeginKeeps ==
    ASSUME PayInv, NEW t \in Tasks, NEW j \in TaskRows, task' = [task EXCEPT ![t] = j],
           Sure(j),
           UNCHANGED <<fact, payState, extra, line, built, tagged, paid, settled, taken>>,
           crossed' = crossed \cup
               UNION {(Touches(task[t]) \cup Touches(task'[t])) \cap Touches(task'[u]) :
                         u \in Tasks \ {t}}
    PROVE  PayInv'
<1>1. crossed \subseteq crossed'
  OBVIOUS
<1>2. PayFrame(Touches(task[t])) /\ PayFrame({})
  BY DEF PayFrame, Draft, Carried
<1>3. Sure(j)'
  <2>1. {} \cap Touches(j) \subseteq crossed'
    OBVIOUS
  <2> QED
    BY <1>1, <1>2, <2>1, SureStays
<1>4. \E e \in TaskRows : task' = [task EXCEPT ![t] = e] /\ Sure(e)'
  BY <1>3
<1>5. /\ task' \in [Tasks -> TaskRows \cup {None}]
      /\ crossed' \in SUBSET (Runs \cup Workers)
      /\ HandsApart'
      /\ \A u \in Tasks, e \in TaskRows : task'[u] = e => Sure(e)'
  BY <1>2, <1>4, TaskMoves
<1>6. PayTypeOK'
  BY <1>5 DEF PayInv, PayTypeOK
<1> QED
  BY <1>1, <1>5, <1>6, SumsStay DEF PayInv

\* A step that is not a request's.
LEMMA IdleKeeps ==
    ASSUME PayInv, PayTypeOK', PayFrame({}),
           UNCHANGED <<line, taken, paid, settled, task, crossed>>
    PROVE  PayInv'
<1>1. HandsApart'
  BY DEF PayInv, HandsApart
<1>2. ASSUME NEW t \in Tasks, NEW j \in TaskRows, task'[t] = j
      PROVE  Sure(j)'
  <2>1. Sure(j)
    BY <1>2 DEF PayInv
  <2>2. {} \cap Touches(j) \subseteq crossed' /\ crossed \subseteq crossed'
    OBVIOUS
  <2> QED
    BY <2>1, <2>2, SureStays
<1> QED
  BY <1>1, <1>2, SumsStay DEF PayInv

\* Attendance, tags and drafts.
LEMMA FactsKeep ==
    ASSUME PayInv, UNCHANGED crossed,
           \/ \E w \in Workers, d \in Days :
                 (\E v \in Rates \cup {Unpriced} : Record(w, d, v)) \/ Erase(w, d)
           \/ \E k \in Charges : Tag(k)
           \/ \E r \in Runs : CreateDraft(r)
    PROVE  PayInv'
<1>0. PayTypeOK
  BY DEF PayInv
<1>1. ASSUME NEW w \in Workers, NEW d \in Days, NEW v \in Rates \cup {Unpriced, None},
             fact' = [fact EXCEPT ![w][d] = v],
             UNCHANGED <<payState, extra, line, built, tagged, paid, settled, taken, task>>
      PROVE  PayInv'
  <2>1. fact' \in [Workers -> [Days -> Rates \cup {Unpriced, None}]]
    BY <1>0, <1>1 DEF PayTypeOK
  <2>2. PayTypeOK'
    BY <1>0, <1>1, <2>1 DEF PayTypeOK
  <2>3. PayFrame({})
    BY <1>1 DEF PayFrame, Draft, Carried
  <2> QED
    BY <1>1, <2>2, <2>3, IdleKeeps
<1>2. ASSUME NEW w \in Workers, NEW d \in Days,
             (\E v \in Rates \cup {Unpriced} : Record(w, d, v)) \/ Erase(w, d)
      PROVE  PayInv'
  BY <1>1, <1>2 DEF Record, Erase
<1>3. ASSUME NEW k \in Charges, Tag(k)
      PROVE  PayInv'
  <2>1. PayTypeOK'
    BY <1>0, <1>3 DEF PayTypeOK, Tag
  <2>2. PayFrame({})
    BY <1>3 DEF PayFrame, Draft, Carried, Tag
  <2> QED
    BY <1>3, <2>1, <2>2, IdleKeeps DEF Tag
<1>4. ASSUME NEW r \in Runs, CreateDraft(r)
      PROVE  PayInv'
  <2>1. PayTypeOK'
    BY <1>0, <1>4 DEF PayTypeOK, CreateDraft
  <2>2. PayFrame({})
    BY <1>0, <1>4 DEF PayFrame, Draft, Carried, CreateDraft, PayTypeOK
  <2> QED
    BY <1>4, <2>1, <2>2, IdleKeeps DEF CreateDraft
<1> QED
  BY <1>2, <1>3, <1>4

\* What a rebuild computes are lines that carry the deductions on.
LEMMA RebuiltSure ==
    ASSUME PayInv, NEW r \in Runs, MayRebuild(r)
    PROVE  \E j \in TaskRows : /\ j = [op |-> "rebuild", run |-> r, lines |-> Rebuilt(r)]
                               /\ Sure(j)
<1>0. PayTypeOK
  BY DEF PayInv
<1>1. ASSUME NEW w \in Workers
      PROVE  /\ Gross(r, w) \in Nat /\ Worked(r, w) \in SUBSET Days
             /\ Carried(r, w) \in Nat
  <2>1. Worked(r, w) \in SUBSET Cutoff[r] /\ Cutoff[r] \in SUBSET Days
    BY PayrollAssumption DEF Worked
  <2>2. IsFiniteSet(Worked(r, w))
    BY <2>1, PayrollAssumption, FS_Subset
  <2>3. \A d \in Worked(r, w) : fact[w][d] \in Nat
    <3> SUFFICES ASSUME NEW d \in Worked(r, w)
                 PROVE  fact[w][d] \in Nat
      OBVIOUS
    <3>1. d \in Days /\ fact[w][d] # None
      BY <2>1 DEF Worked
    <3>2. fact[w][d] # Unpriced
      BY DEF MayRebuild
    <3>3. fact[w][d] \in Rates \cup {Unpriced, None}
      BY <1>0, <3>1 DEF PayTypeOK
    <3>4. Rates \subseteq Nat
      BY PayrollAssumption
    <3> QED
      BY <3>1, <3>2, <3>3, <3>4
  <2>4. SumFunctionOnSet(fact[w], Worked(r, w)) \in Nat
    BY <2>2, <2>3, SumNat
  <2>5. extra[r][w] \in Nat
    <3>1. extra[r][w] \in Extras \cup {0}
      BY <1>0 DEF PayTypeOK
    <3>2. Extras \cup {0} \subseteq Nat
      BY PayrollAssumption
    <3> QED
      BY <3>1, <3>2, Zenon
  <2>6. Carried(r, w) \in Nat
    BY <1>0 DEF PayTypeOK, Carried, Lines
  <2> QED
    BY <2>1, <2>4, <2>5, <2>6 DEF Gross
<1>2. built + 1 \in Nat
  BY <1>0 DEF PayTypeOK
<1>3. \A w \in Workers :
         /\ Worked(r, w) # {} =>
               /\ Rebuilt(r)[w] \in Lines
               /\ Rebuilt(r)[w].deducted = Carried(r, w)
         /\ Worked(r, w) = {} => Rebuilt(r)[w] = None
  BY <1>1, <1>2 DEF Rebuilt, Lines
<1>4. Rebuilt(r) \in [Workers -> Lines \cup {None}]
  <2>1. \A w \in Workers : Rebuilt(r)[w] \in Lines \cup {None}
    BY <1>3
  <2> QED
    BY <2>1 DEF Rebuilt
<1> PICK L \in [Workers -> Lines \cup {None}] : L = Rebuilt(r)
  BY <1>4
<1> DEFINE j == [op |-> "rebuild", run |-> r, lines |-> L]
<1>5. j \in TaskRows
  BY DEF TaskRows
<1>6. ASSUME NEW w \in Workers
      PROVE  (IF L[w] = None THEN 0 ELSE L[w].deducted) = Carried(r, w)
  <2>1. CASE Worked(r, w) = {}
    BY <1>3, <2>1 DEF MayRebuild
  <2>2. CASE Worked(r, w) # {}
    BY <1>3, <2>2, NoneIsNothing
  <2> QED
    BY <2>1, <2>2
<1>7. Draft(r)
  BY DEF MayRebuild
<1>8. j.op = "rebuild" /\ j.run = r /\ j.lines = L
  OBVIOUS
<1> HIDE DEF j
<1>9. Sure(j)
  BY <1>6, <1>7, <1>8 DEF Sure
<1> QED
  BY <1>5, <1>9 DEF j

\* What a deduction computes is taken from open charges of the worker, and from
\* none more than is left of it.
LEMMA ShareFits ==
    ASSUME PayInv, NEW w \in Workers, NEW a \in Takes, NEW k \in Charges
    PROVE  /\ Share(k, w, a) \in Nat
           /\ Share(k, w, a) > 0 => /\ Owner[k] = w /\ k \notin settled
                                    /\ paid[k] + Share(k, w, a) <= Amount[k]
<1>0. PayTypeOK
  BY DEF PayInv
<1>1. \A i \in Charges : /\ Left(i) \in Nat /\ paid[i] \in Nat /\ Amount[i] \in Nat
                         /\ Left(i) > 0 => Left(i) = Amount[i] - paid[i]
  BY <1>0, PayrollAssumption DEF Left, PayTypeOK
<1>2. LeftBefore(k, w) \in Nat
  <2> DEFINE f == [i \in Charges |-> Left(i)]
             S == {i \in Open(w) : i < k}
  <2>1. S \subseteq Charges
    BY <1>0 DEF Open, PayTypeOK
  <2>2. IsFiniteSet(S) /\ \A i \in S : f[i] \in Nat
    BY <1>1, <2>1, PayrollAssumption, FS_Subset
  <2> HIDE DEF f, S
  <2>3. SumFunctionOnSet(f, S) \in Nat
    BY <2>2, SumNat
  <2> QED
    BY <2>3 DEF LeftBefore, f, S
<1>3. a \in Nat
  BY PayrollAssumption
<1> PICK b \in Nat : b = LeftBefore(k, w)
  BY <1>2
<1>4. Share(k, w, a) = IF k \notin Open(w) \/ a - b <= 0 THEN 0
                       ELSE IF a - b < Left(k) THEN a - b ELSE Left(k)
  BY DEF Share
<1>5. k \in Open(w) => Owner[k] = w /\ k \notin settled /\ Left(k) > 0
  BY DEF Open
<1> PICK n \in Nat : n = Left(k)
  BY <1>1
<1> QED
  BY <1>1, <1>3, <1>4, <1>5

\* The note of a request's step.
PayNote(t) ==
    crossed' = crossed \cup
        UNION {(Touches(task[t]) \cup Touches(task'[t])) \cap Touches(task'[u]) :
                  u \in Tasks \ {t}}

\* Requests that only read, and those that are dropped.
LEMMA ReadsKeep ==
    ASSUME PayInv, NEW t \in Tasks, PayNote(t),
           \/ \E r \in Runs : RebuildBegin(t, r) \/ FinalizeBegin(t, r) \/ PayoutBegin(t, r)
           \/ \E r \in Runs, w \in Workers, x \in Extras : OverrideBegin(t, r, w, x)
           \/ \E r \in Runs, w \in Workers, a \in Takes : DeductBegin(t, r, w, a)
           \/ Redo(t)
    PROVE  PayInv'
<1>0. PayTypeOK
  BY DEF PayInv
<1>1. ASSUME NEW j \in TaskRows, task' = [task EXCEPT ![t] = j], Sure(j),
             UNCHANGED <<fact, payState, extra, line, built, tagged, paid, settled, taken>>
      PROVE  PayInv'
  BY <1>1, BeginKeeps DEF PayNote
<1>2. ASSUME NEW r \in Runs, RebuildBegin(t, r) PROVE PayInv'
  <2>1. /\ MayRebuild(r)
        /\ task' = [task EXCEPT ![t] = [op |-> "rebuild", run |-> r, lines |-> Rebuilt(r)]]
        /\ UNCHANGED <<fact, payState, extra, line, built, tagged, paid, settled, taken>>
    BY <1>2 DEF RebuildBegin, BeginTask
  <2>2. PICK j \in TaskRows :
           j = [op |-> "rebuild", run |-> r, lines |-> Rebuilt(r)] /\ Sure(j)
    BY <2>1, RebuiltSure
  <2> QED
    BY <1>1, <2>1, <2>2
<1>3. ASSUME Redo(t) PROVE PayInv'
  <2>1. task[t] # None /\ task[t].op = "redo"
    BY <1>3 DEF Redo, Doing
  <2>2. PICK r \in Runs : r = task[t].run
    BY <2>1, DoingRow, TaskFields
  <2>3. /\ MayRebuild(r)
        /\ task' = [task EXCEPT ![t] = [op |-> "rebuild", run |-> r, lines |-> Rebuilt(r)]]
        /\ UNCHANGED <<fact, payState, extra, line, built, tagged, paid, settled, taken>>
    BY <1>3, <2>2 DEF Redo
  <2>4. PICK j \in TaskRows :
           j = [op |-> "rebuild", run |-> r, lines |-> Rebuilt(r)] /\ Sure(j)
    BY <2>3, RebuiltSure
  <2> QED
    BY <1>1, <2>3, <2>4
<1>4. ASSUME NEW r \in Runs, FinalizeBegin(t, r) \/ PayoutBegin(t, r) PROVE PayInv'
  <2>1. PICK op \in {"finalize", "payout"} :
           /\ task' = [task EXCEPT ![t] = [op |-> op, run |-> r]]
           /\ op = "finalize" => Draft(r)
           /\ UNCHANGED <<fact, payState, extra, line, built, tagged, paid, settled, taken>>
    BY <1>4 DEF FinalizeBegin, PayoutBegin, BeginTask
  <2> DEFINE j == [op |-> op, run |-> r]
  <2>2. j \in TaskRows /\ j.op = op /\ j.run = r
    BY DEF TaskRows
  <2>3. task' = [task EXCEPT ![t] = j]
    BY <2>1
  <2> HIDE DEF j
  <2>4. Sure(j)
    BY <2>1, <2>2 DEF Sure
  <2> QED
    BY <1>1, <2>1, <2>2, <2>3, <2>4
<1>5. ASSUME NEW r \in Runs, NEW w \in Workers, NEW x \in Extras,
             OverrideBegin(t, r, w, x)
      PROVE  PayInv'
  <2>1. PICK E \in [Workers -> Extras \cup {0}] : E = [extra[r] EXCEPT ![w] = x]
    BY <1>0 DEF PayTypeOK
  <2> DEFINE j == [op |-> "override", run |-> r, extras |-> E]
  <2>2. j \in TaskRows /\ j.op = "override"
    BY DEF TaskRows
  <2>3. /\ task' = [task EXCEPT ![t] = j]
        /\ UNCHANGED <<fact, payState, extra, line, built, tagged, paid, settled, taken>>
    BY <1>5, <2>1 DEF OverrideBegin, BeginTask
  <2> HIDE DEF j
  <2>4. Sure(j)
    BY <2>2 DEF Sure
  <2> QED
    BY <1>1, <2>2, <2>3, <2>4
<1>6. ASSUME NEW r \in Runs, NEW w \in Workers, NEW a \in Takes,
             DeductBegin(t, r, w, a)
      PROVE  PayInv'
  <2>1. PICK p \in [Charges -> Nat] : p = [k \in Charges |-> Share(k, w, a)]
    <3>1. \A k \in Charges : Share(k, w, a) \in Nat
      BY ShareFits
    <3> QED
      BY <3>1
  <2>2. line[r][w] # None
    BY <1>6 DEF DeductBegin
  <2>3. PICK row \in Lines : row = line[r][w]
    BY <1>0, <2>2 DEF PayTypeOK
  <2>4. PICK n \in Nat : n = line[r][w].id
    BY <2>3 DEF Lines
  <2> DEFINE j == [op |-> "deduct", run |-> r, worker |-> w, id |-> n, pay |-> p]
  <2>5. j \in TaskRows /\ j.op = "deduct" /\ j.worker = w /\ j.pay = p
    BY DEF TaskRows
  <2>6. /\ task' = [task EXCEPT ![t] = j]
        /\ UNCHANGED <<fact, payState, extra, line, built, tagged, paid, settled, taken>>
    BY <1>6, <2>1, <2>4 DEF DeductBegin, BeginTask
  <2> HIDE DEF j
  <2>7. \A k \in Charges : p[k] > 0 =>
           Owner[k] = w /\ k \notin settled /\ paid[k] + p[k] <= Amount[k]
    BY <2>1, ShareFits
  <2>8. Sure(j)
    BY <2>5, <2>7 DEF Sure
  <2> QED
    BY <1>1, <2>5, <2>6, <2>8
<1> QED
  BY <1>2, <1>3, <1>4, <1>5, <1>6

\* A request that ends and leaves the other rows to the frame.
LEMMA EndKeeps ==
    ASSUME PayInv, NEW t \in Tasks, PayNote(t), task' = [task EXCEPT ![t] = None],
           PayFrame(Touches(task[t]))
    PROVE  /\ task' \in [Tasks -> TaskRows \cup {None}]
           /\ crossed' \in SUBSET (Runs \cup Workers) /\ crossed \subseteq crossed'
           /\ HandsApart'
           /\ \A u \in Tasks, j \in TaskRows : task'[u] = j => Sure(j)'
<1>1. crossed \subseteq crossed'
  BY DEF PayNote
<1>2. /\ task' \in [Tasks -> TaskRows \cup {None}]
      /\ crossed' \in SUBSET (Runs \cup Workers)
      /\ HandsApart'
      /\ \A u \in Tasks, j \in TaskRows : task'[u] = j => Sure(j)'
  BY TaskMoves DEF PayNote
<1> QED
  BY <1>1, <1>2

\* The statuses of a run, the override of its incentives, and a request dropped.
LEMMA StatusKeeps ==
    ASSUME PayInv, NEW t \in Tasks, PayNote(t),
           FinalizeRun(t) \/ MarkPaid(t) \/ DropTask(t) \/ SaveOverride(t)
    PROVE  PayInv'
<1>0. PayTypeOK
  BY DEF PayInv
<1>1. task[t] # None
  BY DEF FinalizeRun, MarkPaid, DropTask, SaveOverride, Doing
<1> PICK j \in TaskRows : j = task[t]
  BY <1>1, DoingRow
<1> PICK r \in Runs : r = j.run
  BY TaskFields
<1>2. r \in Touches(task[t])
  BY TaskFields
<1>3. crossed \subseteq crossed'
  BY DEF PayNote
<1>4. ASSUME FinalizeRun(t) \/ MarkPaid(t) \/ DropTask(t)
      PROVE  PayInv'
  <2>1. /\ UNCHANGED <<fact, extra, line, built, tagged, paid, settled, taken>>
        /\ task' = [task EXCEPT ![t] = None]
        /\ \/ payState' = payState
           \/ \E s \in {"FINALIZED", "PAID"} : payState' = [payState EXCEPT ![r] = s]
    BY <1>4 DEF FinalizeRun, MarkPaid, DropTask, EndTask
  <2>2. /\ payState' \in [Runs -> {"DRAFT", "FINALIZED", "PAID", None}]
        /\ \A q \in Runs : q # r => payState'[q] = payState[q]
    <3>0. payState \in [Runs -> {"DRAFT", "FINALIZED", "PAID", None}]
      BY <1>0 DEF PayTypeOK
    <3>1. CASE payState' = payState
      BY <3>0, <3>1
    <3>2. ASSUME NEW s \in {"FINALIZED", "PAID"}, payState' = [payState EXCEPT ![r] = s]
          PROVE  /\ payState' \in [Runs -> {"DRAFT", "FINALIZED", "PAID", None}]
                 /\ \A q \in Runs : q # r => payState'[q] = payState[q]
      BY <3>0, <3>2
    <3> QED
      BY <2>1, <3>1, <3>2
  <2>3. PayFrame(Touches(task[t]))
    <3>1. \A q \in Runs \ Touches(task[t]) : Draft(q) => Draft(q)'
      BY <1>2, <2>2 DEF Draft
    <3> QED
      BY <2>1, <3>1 DEF PayFrame, Carried
  <2>4. /\ task' \in [Tasks -> TaskRows \cup {None}]
        /\ crossed' \in SUBSET (Runs \cup Workers)
        /\ HandsApart'
        /\ \A u \in Tasks, i \in TaskRows : task'[u] = i => Sure(i)'
    BY <2>1, <2>3, EndKeeps
  <2>5. PayTypeOK'
    BY <1>0, <2>1, <2>2, <2>4 DEF PayTypeOK
  <2> QED
    BY <1>3, <2>1, <2>4, <2>5, SumsStay DEF PayInv
<1>5. ASSUME SaveOverride(t)
      PROVE  PayInv'
  <2>1. PICK E \in [Workers -> Extras \cup {0}] : E = task[t].extras
    BY <1>5, TaskFields DEF SaveOverride, Doing
  <2> DEFINE i == [op |-> "redo", run |-> r]
  <2>2. i \in TaskRows /\ i.op = "redo"
    BY DEF TaskRows
  <2>3. /\ task' = [task EXCEPT ![t] = i] /\ extra' = [extra EXCEPT ![r] = E]
        /\ UNCHANGED <<fact, payState, line, built, tagged, paid, settled, taken>>
    BY <1>5, <2>1 DEF SaveOverride
  <2> HIDE DEF i
  <2>4. Sure(i)'
    BY <2>2 DEF Sure
  <2>5. PayFrame(Touches(task[t]))
    BY <2>3 DEF PayFrame, Draft, Carried
  <2>6. \E e \in TaskRows : task' = [task EXCEPT ![t] = e] /\ Sure(e)'
    BY <2>2, <2>3, <2>4
  <2>7. /\ task' \in [Tasks -> TaskRows \cup {None}]
        /\ crossed' \in SUBSET (Runs \cup Workers)
        /\ HandsApart'
        /\ \A u \in Tasks, e \in TaskRows : task'[u] = e => Sure(e)'
    BY <2>5, <2>6, TaskMoves DEF PayNote
  <2>8. extra' \in [Runs -> [Workers -> Extras \cup {0}]]
    BY <1>0, <2>3 DEF PayTypeOK
  <2>9. PayTypeOK'
    BY <1>0, <2>3, <2>7, <2>8 DEF PayTypeOK
  <2> QED
    BY <1>3, <2>3, <2>7, <2>9, SumsStay DEF PayInv
<1> QED
  BY <1>4, <1>5

\* The lines of a run are deleted and created again.
LEMMA RebuildKeeps ==
    ASSUME PayInv, NEW t \in Tasks, PayNote(t), Rebuild(t)
    PROVE  PayInv'
<1>0. PayTypeOK
  BY DEF PayInv
<1>1. task[t] # None /\ task[t].op = "rebuild"
  BY DEF Rebuild, Doing
<1> PICK j \in TaskRows : j = task[t]
  BY <1>1, DoingRow
<1>2. Sure(j) /\ j.op = "rebuild"
  BY <1>1, DoingRow
<1> PICK r \in Runs, L \in [Workers -> Lines \cup {None}] : r = j.run /\ L = j.lines
  BY <1>2, TaskFields
<1>3. r \in Touches(task[t])
  BY TaskFields
<1>4. /\ line' = [line EXCEPT ![r] = L] /\ built' = built + 1
      /\ task' = [task EXCEPT ![t] = None]
      /\ UNCHANGED <<fact, payState, extra, tagged, paid, settled, taken>>
  BY DEF Rebuild, EndTask
<1>5. /\ line' \in [Runs -> [Workers -> Lines \cup {None}]] /\ line'[r] = L
      /\ \A q \in Runs : q # r => line'[q] = line[q]
  BY <1>0, <1>4 DEF PayTypeOK
<1>6. PayFrame(Touches(task[t]))
  <2>1. ASSUME NEW q \in Runs \ Touches(task[t]), NEW w \in Workers
        PROVE  Carried(q, w)' = Carried(q, w)
    BY <1>3, <1>5, <2>1 DEF Carried
  <2> QED
    BY <1>4, <2>1 DEF PayFrame, Draft
<1>7. /\ task' \in [Tasks -> TaskRows \cup {None}]
      /\ crossed' \in SUBSET (Runs \cup Workers) /\ crossed \subseteq crossed'
      /\ HandsApart'
      /\ \A u \in Tasks, i \in TaskRows : task'[u] = i => Sure(i)'
  BY <1>4, <1>6, EndKeeps
<1>8. PayTypeOK'
  BY <1>0, <1>4, <1>5, <1>7 DEF PayTypeOK
<1>9. DeductionsCarried'
  <2> SUFFICES ASSUME NEW q \in Runs, q \notin crossed', NEW w \in Workers
               PROVE  taken'[q][w] = IF line'[q][w] = None THEN 0 ELSE line'[q][w].deducted
    BY DEF DeductionsCarried
  <2>1. q \notin crossed
    BY <1>7
  <2>2. taken[q][w] = IF line[q][w] = None THEN 0 ELSE line[q][w].deducted
    BY <2>1 DEF PayInv, DeductionsCarried
  <2>3. CASE q # r
    BY <1>4, <1>5, <2>2, <2>3
  <2>4. CASE q = r
    <3>1. (IF L[w] = None THEN 0 ELSE L[w].deducted) = Carried(r, w)
      BY <1>2, <2>1, <2>4 DEF Sure
    <3>2. taken'[r][w] = Carried(r, w)
      BY <1>4, <2>2, <2>4 DEF Carried
    <3> QED
      BY <1>5, <2>4, <3>1, <3>2
  <2> QED
    BY <2>3, <2>4
<1>10. NeverOvertaken'
  BY <1>4, <1>7 DEF PayInv, NeverOvertaken
<1> QED
  BY <1>7, <1>8, <1>9, <1>10 DEF PayInv

\* One cell of a table is written.
LEMMA OneCellWritten ==
    ASSUME NEW A, NEW B, NEW V, NEW f \in [A -> [B -> V]],
           NEW a \in A, NEW b \in B, NEW v \in V
    PROVE  LET g == [f EXCEPT ![a][b] = v] IN
           /\ g \in [A -> [B -> V]] /\ g[a][b] = v
           /\ \A x \in A, y \in B : x # a \/ y # b => g[x][y] = f[x][y]
OBVIOUS

\* What a deduction does, to which run and worker, with which row of its line.
LEMMA DeductRow ==
    ASSUME PayInv, NEW t \in Tasks, Deduct(t)
    PROVE  /\ task[t] \in TaskRows /\ task[t].op = "deduct" /\ Sure(task[t])
           /\ \E r \in Runs, w \in Workers, sum \in Nat, old \in Lines, row \in Lines :
                 /\ r = task[t].run /\ w = task[t].worker
                 /\ old = line[r][w]
                 /\ row.facts = old.facts /\ row.gross = old.gross
                 /\ row.deducted = old.deducted + sum
                 /\ line' = [line EXCEPT ![r][w] = row]
                 /\ taken' = [taken EXCEPT ![r][w] = taken[r][w] + sum]
<1>0. PayTypeOK
  BY DEF PayInv
<1>1. task[t] # None /\ task[t].op = "deduct"
  BY DEF Deduct, Doing
<1>2. task[t] \in TaskRows /\ Sure(task[t])
  BY <1>1, DoingRow
<1>3. PICK r \in Runs, w \in Workers, p \in [Charges -> Nat] :
         r = task[t].run /\ w = task[t].worker /\ p = task[t].pay
  BY <1>1, <1>2, TaskFields
<1>4. PICK sum \in Nat : sum = SumFunctionOnSet(p, Charges)
  <2>1. SumFunctionOnSet(p, Charges) \in Nat
    BY PayrollAssumption, SumNat
  <2> QED
    BY <2>1
<1>5. /\ line[r][w] # None
      /\ line' = [line EXCEPT ![r][w].deducted = line[r][w].deducted + sum]
      /\ taken' = [taken EXCEPT ![r][w] = taken[r][w] + sum]
  BY <1>3, <1>4 DEF Deduct
<1>6. PICK old \in Lines : old = line[r][w]
  BY <1>0, <1>5 DEF PayTypeOK
<1>7. PICK row \in Lines :
         /\ row = [old EXCEPT !.deducted = old.deducted + sum]
         /\ row.facts = old.facts /\ row.gross = old.gross
         /\ row.deducted = old.deducted + sum
  <2> DEFINE e == [old EXCEPT !.deducted = old.deducted + sum]
  <2>1. e \in Lines
    BY DEF Lines
  <2>2. e.facts = old.facts /\ e.gross = old.gross /\ e.deducted = old.deducted + sum
    BY DEF Lines
  <2> QED
    BY <2>1, <2>2
<1>8. line' = [line EXCEPT ![r][w] = row]
  <2>1. line' = [line EXCEPT ![r][w] = [old EXCEPT !.deducted = old.deducted + sum]]
    BY <1>5, <1>6
  <2> QED
    BY <1>7, <2>1
<1>9. /\ r = task[t].run /\ w = task[t].worker
      /\ old = line[r][w]
      /\ row.facts = old.facts /\ row.gross = old.gross
      /\ row.deducted = old.deducted + sum
      /\ line' = [line EXCEPT ![r][w] = row]
      /\ taken' = [taken EXCEPT ![r][w] = taken[r][w] + sum]
  BY <1>3, <1>5, <1>6, <1>7, <1>8
<1> QED
  BY <1>1, <1>2, <1>9, Zenon

\* The payments of a deduction and the line that names them.
LEMMA DeductKeeps ==
    ASSUME PayInv, NEW t \in Tasks, PayNote(t), Deduct(t)
    PROVE  PayInv'
<1>0. PayTypeOK
  BY DEF PayInv
<1>1. PICK j \in TaskRows : j = task[t] /\ j.op = "deduct" /\ Sure(j)
  BY DeductRow
<1>2. PICK r \in Runs, w \in Workers, sum \in Nat, old \in Lines, row \in Lines :
         /\ r = task[t].run /\ w = task[t].worker
         /\ old = line[r][w]
         /\ row.deducted = old.deducted + sum
         /\ line' = [line EXCEPT ![r][w] = row]
         /\ taken' = [taken EXCEPT ![r][w] = taken[r][w] + sum]
  BY DeductRow
<1>3. PICK p \in [Charges -> Nat] : p = j.pay
  BY <1>1, TaskFields
<1>4. /\ paid' = [k \in Charges |-> paid[k] + p[k]]
      /\ settled' = (settled \ {k \in Charges : p[k] > 0})
                    \cup {k \in Charges : p[k] > 0 /\ paid'[k] >= Amount[k]}
      /\ task' = [task EXCEPT ![t] = None]
      /\ UNCHANGED <<fact, payState, extra, built, tagged>>
  BY <1>1, <1>3 DEF Deduct, EndTask
<1>5. /\ line' \in [Runs -> [Workers -> Lines \cup {None}]] /\ line'[r][w] = row
      /\ \A q \in Runs, v \in Workers : q # r \/ v # w => line'[q][v] = line[q][v]
  <2>1. line \in [Runs -> [Workers -> Lines \cup {None}]] /\ row \in Lines \cup {None}
    BY <1>0 DEF PayTypeOK
  <2>2. line' = [line EXCEPT ![r][w] = row]
    BY <1>2
  <2> QED
    BY <2>1, <2>2, OneCellWritten
<1>6. /\ taken' \in [Runs -> [Workers -> Nat]] /\ taken'[r][w] = taken[r][w] + sum
      /\ \A q \in Runs, v \in Workers : q # r \/ v # w => taken'[q][v] = taken[q][v]
  <2>1. taken \in [Runs -> [Workers -> Nat]]
    BY <1>0 DEF PayTypeOK
  <2>2. PICK n \in Nat : n = taken[r][w] + sum
    BY <2>1
  <2>3. taken' = [taken EXCEPT ![r][w] = n]
    BY <1>2, <2>2
  <2> QED
    BY <2>1, <2>2, <2>3, OneCellWritten
<1>7. /\ paid' \in [Charges -> Nat] /\ settled' \subseteq Charges
      /\ \A k \in Charges :
            /\ p[k] = 0 => paid'[k] = paid[k] /\ (k \in settled' <=> k \in settled)
            /\ p[k] > 0 => /\ paid'[k] = paid[k] + p[k]
                           /\ k \in settled' <=> paid'[k] >= Amount[k]
  <2>1. \A k \in Charges : paid[k] \in Nat /\ p[k] \in Nat
    BY <1>0 DEF PayTypeOK
  <2>2. /\ paid' = [k \in Charges |-> paid[k] + p[k]]
        /\ \A k \in Charges : paid'[k] = paid[k] + p[k]
    BY <1>4
  <2>3. settled \subseteq Charges
    BY <1>0 DEF PayTypeOK
  <2>4. \A k \in Charges : paid[k] + p[k] \in Nat
    BY <2>1
  <2>5. paid' \in [Charges -> Nat]
    BY <2>2, <2>4
  <2>6. settled' = (settled \ {k \in Charges : p[k] > 0})
                   \cup {k \in Charges : p[k] > 0 /\ paid'[k] >= Amount[k]}
    BY <1>4
  <2>7. settled' \subseteq Charges
    BY <2>3, <2>6
  <2>8. ASSUME NEW k \in Charges
        PROVE  /\ p[k] = 0 => paid'[k] = paid[k] /\ (k \in settled' <=> k \in settled)
               /\ p[k] > 0 => /\ paid'[k] = paid[k] + p[k]
                              /\ k \in settled' <=> paid'[k] >= Amount[k]
    <3>1. paid[k] \in Nat /\ p[k] \in Nat /\ paid'[k] = paid[k] + p[k]
      BY <2>1, <2>2
    <3>2. k \in settled' <=> (k \in settled /\ ~(p[k] > 0)) \/ (p[k] > 0 /\ paid'[k] >= Amount[k])
      BY <2>6
    <3> QED
      BY <3>1, <3>2
  <2> QED
    BY <2>5, <2>7, <2>8
<1>8. PayFrame(Touches(task[t]))
  <2>1. ASSUME NEW q \in Runs \ Touches(task[t])
        PROVE  /\ Draft(q) => Draft(q)'
               /\ \A v \in Workers : Carried(q, v)' = Carried(q, v)
    <3>1. q # r
      BY <1>1, <1>2, TaskFields
    <3> QED
      BY <1>4, <1>5, <3>1 DEF Draft, Carried
  <2>2. ASSUME NEW k \in Charges, Owner[k] \notin Touches(task[t])
        PROVE  paid'[k] = paid[k] /\ (k \in settled' <=> k \in settled)
    <3>1. w \in Touches(task[t]) /\ w = j.worker
      BY <1>1, <1>2, TaskFields
    <3>2. ~(p[k] > 0)
      BY <1>1, <1>3, <2>2, <3>1 DEF Sure
    <3>3. p[k] = 0
      BY <3>2
    <3> QED
      BY <1>7, <3>3
  <2> QED
    BY <2>1, <2>2 DEF PayFrame
<1>9. /\ task' \in [Tasks -> TaskRows \cup {None}]
      /\ crossed' \in SUBSET (Runs \cup Workers) /\ crossed \subseteq crossed'
      /\ HandsApart'
      /\ \A u \in Tasks, i \in TaskRows : task'[u] = i => Sure(i)'
  BY <1>4, <1>8, EndKeeps
<1>10. PayTypeOK'
  BY <1>0, <1>4, <1>5, <1>6, <1>7, <1>9 DEF PayTypeOK
<1>11. DeductionsCarried'
  <2> SUFFICES ASSUME NEW q \in Runs, q \notin crossed', NEW v \in Workers
               PROVE  taken'[q][v] = IF line'[q][v] = None THEN 0 ELSE line'[q][v].deducted
    BY DEF DeductionsCarried
  <2>1. taken[q][v] = IF line[q][v] = None THEN 0 ELSE line[q][v].deducted
    BY <1>9 DEF PayInv, DeductionsCarried
  <2>2. CASE q # r \/ v # w
    <3>1. line'[q][v] = line[q][v] /\ taken'[q][v] = taken[q][v]
      BY <1>5, <1>6, <2>2
    <3> QED
      BY <2>1, <3>1
  <2>3. CASE q = r /\ v = w
    <3>1. /\ line'[r][w] = row /\ row # None /\ old # None /\ old = line[r][w]
          /\ row.deducted = old.deducted + sum
      BY <1>2, <1>5, NoneIsNothing
    <3>2. taken[r][w] = old.deducted
      BY <2>1, <2>3, <3>1
    <3>3. taken'[r][w] = old.deducted + sum
      BY <1>6, <3>2
    <3> QED
      BY <2>3, <3>1, <3>3
  <2> QED
    BY <2>2, <2>3
<1>12. NeverOvertaken'
  <2> SUFFICES ASSUME NEW k \in Charges, Owner[k] \notin crossed'
               PROVE  paid'[k] <= Amount[k] /\ (k \in settled' <=> paid'[k] = Amount[k])
    BY DEF NeverOvertaken
  <2>1. /\ Owner[k] \notin crossed /\ p[k] \in Nat /\ paid[k] \in Nat
        /\ paid'[k] \in Nat /\ Amount[k] \in Nat
    BY <1>0, <1>9, <1>10, PayrollAssumption DEF PayTypeOK
  <2>2. CASE p[k] = 0
    BY <1>7, <2>1, <2>2 DEF PayInv, NeverOvertaken
  <2>3. CASE p[k] > 0
    <3>1. paid[k] + p[k] <= Amount[k]
      BY <1>1, <1>3, <2>1, <2>3 DEF Sure
    <3>2. /\ paid'[k] = paid[k] + p[k]
          /\ k \in settled' <=> paid'[k] >= Amount[k]
      BY <1>7, <2>3
    <3> QED
      BY <2>1, <3>1, <3>2
  <2> QED
    BY <2>1, <2>2, <2>3
<1> QED
  BY <1>9, <1>10, <1>11, <1>12 DEF PayInv

\* Payroll as it begins.
LEMMA PayBegins ==
    ASSUME PayInit
    PROVE  PayInv
<1>1. PayTypeOK
  BY DEF PayInit, PayTypeOK
<1>2. HandsApart /\ \A t \in Tasks, j \in TaskRows : task[t] = j => Sure(j)
  BY NoneIsNothing DEF PayInit, HandsApart, Touches
<1>3. DeductionsCarried
  BY DEF PayInit, DeductionsCarried
<1>4. NeverOvertaken
  <2>1. \A k \in Charges : Amount[k] \in Nat /\ Amount[k] # 0
    BY PayrollAssumption
  <2> QED
    BY <2>1 DEF PayInit, NeverOvertaken
<1> QED
  BY <1>1, <1>2, <1>3, <1>4 DEF PayInv

\* The invariant of payroll: charges, lines and what requests have in hand, for any
\* workers, charges, runs and number of overlapping requests.
THEOREM PayInvariant == PaySpec => []PayInv
<1>1. PayInit => PayInv
  BY PayBegins
<1>2. PayInv /\ [PayNext]_payVars => PayInv'
  <2> SUFFICES ASSUME PayInv, [PayNext]_payVars
               PROVE  PayInv'
    OBVIOUS
  <2>1. ASSUME NEW t \in Tasks, PayRequest(t), PayNote(t)
        PROVE  PayInv'
    BY <2>1, ReadsKeep, StatusKeeps, RebuildKeeps, DeductKeeps DEF PayRequest
  <2>2. CASE UNCHANGED payVars
    BY <2>2 DEF payVars, PayInv, PayTypeOK, HandsApart, Sure, Draft, Carried,
                DeductionsCarried, NeverOvertaken, Touches
  <2>3. CASE PayNext
    BY <2>1, <2>3, FactsKeep DEF PayNext, PayNote
  <2> QED
    BY <2>2, <2>3
<1> QED
  BY <1>1, <1>2, PTL DEF PaySpec

\* Payroll rows and what requests carry keep their shape.
THEOREM PayTypeCorrect == PaySpec => []PayTypeOK
<1>1. PayInv => PayTypeOK
  BY DEF PayInv
<1> QED
  BY <1>1, PayInvariant, PTL

\* Rebuilding the lines of a run whose requests do not overlap loses no deduction:
\* rebuildWorkerPayrollRunLines carries what the payments took.
THEOREM DeductionsKept == PaySpec => []DeductionsCarried
<1>1. PayInv => DeductionsCarried
  BY DEF PayInv
<1> QED
  BY <1>1, PayInvariant, PTL

\* No charge of a worker whose deductions do not overlap is paid beyond its amount,
\* and it is SETTLED exactly when all of it is paid.
THEOREM ChargesNotOvertaken == PaySpec => []NeverOvertaken
<1>1. PayInv => NeverOvertaken
  BY DEF PayInv
<1> QED
  BY <1>1, PayInvariant, PTL

\* A step leaves a finalized run as it is.
LEMMA RunFrozen ==
    ASSUME PayInv, PayNext, NEW r \in Runs, payState[r] \in {"FINALIZED", "PAID"},
           r \notin crossed'
    PROVE  /\ payState'[r] \in {payState[r], "PAID"}
           /\ \A w \in Workers :
                 /\ (line'[r][w] = None) = (line[r][w] = None)
                 /\ line[r][w] # None =>
                       /\ line'[r][w].facts = line[r][w].facts
                       /\ line'[r][w].gross = line[r][w].gross
<1>0. PayTypeOK /\ crossed \subseteq crossed'
  BY DEF PayInv, PayNext
<1>1. r \notin crossed /\ ~Draft(r)
  BY <1>0 DEF Draft
<1>2. ASSUME payState'[r] \in {payState[r], "PAID"}, line'[r] = line[r]
      PROVE  /\ payState'[r] \in {payState[r], "PAID"}
             /\ \A w \in Workers :
                   /\ (line'[r][w] = None) = (line[r][w] = None)
                   /\ line[r][w] # None =>
                         /\ line'[r][w].facts = line[r][w].facts
                         /\ line'[r][w].gross = line[r][w].gross
  BY <1>2
<1>3. CASE UNCHANGED <<payState, line>>
  BY <1>2, <1>3
<1>4. ASSUME NEW q \in Runs, CreateDraft(q)
      PROVE  UNCHANGED line /\ payState'[r] = payState[r]
  <2>1. q # r
    BY <1>4, NoneIsNothing DEF CreateDraft
  <2> QED
    BY <1>0, <1>4, <2>1 DEF CreateDraft, PayTypeOK
<1>5. ASSUME NEW t \in Tasks, FinalizeRun(t) \/ MarkPaid(t) \/ Rebuild(t) \/ Deduct(t)
      PROVE  task[t] \in TaskRows /\ Sure(task[t]) /\ task[t].run \in Runs
  <2>1. task[t] # None
    BY <1>5 DEF FinalizeRun, MarkPaid, Rebuild, Deduct, Doing
  <2> QED
    BY <2>1, DoingRow, TaskFields
<1>6. ASSUME NEW t \in Tasks, FinalizeRun(t) \/ Rebuild(t)
      PROVE  payState'[r] = payState[r] /\ line'[r] = line[r]
  <2>1. task[t].op \in {"rebuild", "finalize"}
    BY <1>6 DEF FinalizeRun, Rebuild, Doing
  <2>2. task[t].run # r
    BY <1>1, <1>5, <1>6, <2>1 DEF Sure
  <2> QED
    BY <1>0, <1>6, <2>2 DEF FinalizeRun, Rebuild, PayTypeOK
<1>7. ASSUME NEW t \in Tasks, MarkPaid(t)
      PROVE  payState'[r] \in {payState[r], "PAID"} /\ line'[r] = line[r]
  BY <1>0, <1>7 DEF MarkPaid, PayTypeOK
<1>8. ASSUME NEW t \in Tasks, Deduct(t)
      PROVE  /\ payState' = payState
             /\ \A w \in Workers :
                   /\ (line'[r][w] = None) = (line[r][w] = None)
                   /\ line[r][w] # None =>
                         /\ line'[r][w].facts = line[r][w].facts
                         /\ line'[r][w].gross = line[r][w].gross
  <2>1. payState' = payState
    BY <1>8 DEF Deduct
  <2>2. PICK q \in Runs, v \in Workers, old \in Lines, row \in Lines :
           /\ old = line[q][v] /\ row.facts = old.facts /\ row.gross = old.gross
           /\ line' = [line EXCEPT ![q][v] = row]
    BY <1>8, DeductRow
  <2>3. row # None /\ old # None
    BY NoneIsNothing
  <2>4. \A w \in Workers : line'[r][w] = IF r = q /\ w = v THEN row ELSE line[r][w]
    <3>1. line \in [Runs -> [Workers -> Lines \cup {None}]] /\ row \in Lines \cup {None}
      BY <1>0 DEF PayTypeOK
    <3> QED
      BY <2>2, <3>1, OneCellWritten
  <2> QED
    BY <2>1, <2>2, <2>3, <2>4
<1>9. ASSUME NEW t \in Tasks, PayRequest(t)
      PROVE  \/ UNCHANGED <<payState, line>>
             \/ FinalizeRun(t) \/ Rebuild(t) \/ MarkPaid(t) \/ Deduct(t)
  BY <1>9 DEF PayRequest, RebuildBegin, FinalizeBegin, PayoutBegin, OverrideBegin,
              DeductBegin, SaveOverride, Redo, DropTask
<1> QED
  BY <1>2, <1>3, <1>4, <1>6, <1>7, <1>8, <1>9 DEF PayNext, Record, Erase, Tag

\* A run stays finalized, with the facts and the gross pay of its lines, while its
\* requests do not overlap: rebuilds ask for a draft.
THEOREM RunsFrozen == PaySpec => FinalizedFrozen
<1>1. PayInv /\ [PayNext]_payVars =>
        [\A r \in Runs : payState[r] \in {"FINALIZED", "PAID"} /\ r \notin crossed' =>
          /\ payState'[r] \in {payState[r], "PAID"}
          /\ \A w \in Workers :
                /\ (line'[r][w] = None) = (line[r][w] = None)
                /\ line[r][w] # None =>
                      /\ line'[r][w].facts = line[r][w].facts
                      /\ line'[r][w].gross = line[r][w].gross]_payVars
  BY RunFrozen
<1> QED
  BY <1>1, PayInvariant, PTL DEF PaySpec, FinalizedFrozen

-----------------------------------------------------------------------------
(* The board *)

DayRows == [Slots -> Rows \cup {Blank}]

\* No two rows of a day are in force.
Lone(c) == \A m, n \in Live(c) : m = n

\* The days a suspension marked, and no review since.
Marks(s) == {d \in TaggedBy(s) : ~duty[d].typed}

Hand(q) == q.dates \cup {s \in Suspensions : /\ q.op \in {"suspend", "amend", "lift"}
                                            /\ q.of = s}

\* What a request has read of the rows of a date still is so, if only it had the
\* date in hand; and rows it has seen are not deleted.
CellsRead(q) ==
    /\ q.op \in {"generate", "pattern"} => \A d \in q.dates : Pattern[d] # Blank
    /\ q.op = "generate" => \A d \in q.dates \ mixed : Live(cell[d]) = {}
    /\ q.op = "pattern" =>
          /\ \A d \in q.dates : q.on[d] # 0 => cell[d][q.on[d]] # Blank
          /\ \A d \in q.dates \ mixed :
                /\ q.on[d] = SomeRow(Live(cell[d]))
                /\ Having(cell[d], {"PUBLISHED"}) = {}
    /\ q.op = "tidy" =>
          /\ \A d \in Dates : \A n \in q.drafts[d] : cell[d][n] # Blank
          /\ \A d \in Dates : q.drafts[d] # {} => d \in q.dates
          /\ \A d \in q.dates \ mixed : q.drafts[d] \subseteq Having(cell[d], {"DRAFT"})
    /\ q.op = "cell" =>
          /\ \E d \in Dates : q.dates = {d}
          /\ \A d \in q.dates :
                /\ q.on # 0 => cell[d][q.on] # Blank
                /\ q.match # 0 => cell[d][q.match] # Blank
          /\ q.want = "CLEAR" => q.on # 0
          /\ \A d \in q.dates \ mixed :
                /\ q.on = SomeRow(Live(cell[d]))
                /\ q.on # 0 => cell[d][q.on].status = q.was
                /\ q.match # 0 => cell[d][q.match].status = "CANCELLED"

\* And so of the attendance of a date, and of a suspension.
DutiesRead(q) ==
    /\ q.op = "review" =>
          /\ q.duty.typed
          /\ q.duty.tag # Blank => \A d \in q.dates \ mixed :
                                      duty[d] # Blank /\ duty[d].tag = q.duty.tag
    /\ q.op \in {"suspend", "amend"} =>
          /\ q.over \subseteq q.days /\ q.days \subseteq q.dates
          /\ \A d \in q.over \ mixed :
                Yields(duty[d], q.of) \/ d \in q.drop
    /\ q.op \in {"suspend", "amend", "lift"} =>
          /\ q.drop \subseteq q.dates
          /\ q.drop \ mixed \subseteq TaggedBy(q.of)
    /\ q.op = "suspend" => q.drop = {}
    /\ q.op \in {"amend", "lift"} => sus[q.of] # Blank
    /\ q.op = "amend" /\ q.of \notin mixed =>
          sus[q.of].lifted = 0 /\ Marks(q.of) \ mixed \subseteq q.drop
    /\ q.op = "lift" /\ q.of \notin mixed =>
          \A d \in Marks(q.of) \ mixed : d \in q.drop \/ d < q.at

StillRead(q) == CellsRead(q) /\ DutiesRead(q)

BoardApart ==
    \A t \in Reqs, u \in Reqs : t # u => InHand(t) \cap InHand(u) \subseteq mixed

BoardInv ==
    /\ BoardTypeOK
    /\ BoardApart
    /\ \A t \in Reqs, q \in Requests : req[t] = q => StillRead(q)
    /\ \A d \in Dates \ mixed : Lone(cell[d])
    /\ SuspensionsOwned

-----------------------------------------------------------------------------
(* The rows of a day *)

\* A set counts one at most when no two of its elements differ.
LEMMA OneOrNone ==
    ASSUME NEW S, IsFiniteSet(S)
    PROVE  Cardinality(S) <= 1 <=> \A x, y \in S : x = y
<1>0. Cardinality(S) \in Nat
  BY FS_CardinalityType
<1>1. ASSUME \A x, y \in S : x = y
      PROVE  Cardinality(S) <= 1
  <2>1. CASE S = {}
    BY <2>1, FS_EmptySet
  <2>2. CASE S # {}
    <3> PICK x \in S : TRUE
      BY <2>2
    <3>1. S = {x}
      BY <1>1
    <3> QED
      BY <3>1, FS_Singleton
  <2> QED
    BY <2>1, <2>2
<1>2. ASSUME NEW x \in S, NEW y \in S, x # y
      PROVE  ~(Cardinality(S) <= 1)
  <2>1. IsFiniteSet({x}) /\ Cardinality({x}) = 1
    BY FS_Singleton
  <2>2. {x, y} = {x} \cup {y} /\ y \notin {x}
    BY <1>2
  <2>3. Cardinality({x, y}) = 2
    BY <2>1, <2>2, FS_AddElement
  <2>4. Cardinality({x, y}) <= Cardinality(S)
    BY FS_Subset
  <2> QED
    BY <1>0, <2>3, <2>4
<1> QED
  BY <1>1, <1>2

\* A day has as many slots as there are windows.
LEMMA SlotsFinite ==
    /\ Slots \subseteq Nat \ {0} /\ IsFiniteSet(Slots)
    /\ Maybe = Slots \cup {0} /\ 0 \notin Slots
<1>1. IsFiniteSet(Windows)
  BY ScheduleAssumption, FS_AddElement DEF Windows
<1>2. PICK n \in Nat : n = Cardinality(Windows)
  BY <1>1, FS_CardinalityType
<1>3. Slots = 1 .. n
  BY <1>2 DEF Slots
<1>4. IsFiniteSet(1 .. n)
  BY <1>2, FS_Interval
<1>5. 1 .. n \subseteq Nat \ {0}
  OBVIOUS
<1>6. Slots \subseteq Nat \ {0} /\ IsFiniteSet(Slots)
  BY <1>3, <1>4, <1>5
<1> QED
  BY <1>6 DEF Maybe

\* findFirst returns a row of the set, if there is one.
LEMMA SomeRowIn ==
    ASSUME NEW S \in SUBSET Slots
    PROVE  /\ S = {} => SomeRow(S) = 0
           /\ S # {} => SomeRow(S) \in S /\ SomeRow(S) # 0
           /\ SomeRow(S) \in Maybe
<1>1. ASSUME S # {}
      PROVE  \E n \in S : \A m \in S : n <= m
  <2> DEFINE rank == [n \in S |-> n]
  <2>1. rank \in [S -> Nat]
    BY SlotsFinite
  <2> HIDE DEF rank
  <2>2. \E n \in S : \A m \in S : rank[n] <= rank[m]
    BY <1>1, <2>1, LowestExists
  <2> QED
    BY <2>2 DEF rank
<1>2. S # {} => SomeRow(S) \in S
  BY <1>1 DEF SomeRow
<1>3. S = {} => SomeRow(S) = 0
  BY DEF SomeRow
<1> QED
  BY <1>2, <1>3, SlotsFinite

\* A row of a day is a row, or there is none.
LEMMA RowOf ==
    ASSUME NEW c \in DayRows, NEW n \in Slots, c[n] # Blank
    PROVE  /\ c[n] \in Rows /\ c[n].win \in Windows
           /\ c[n].status \in {"DRAFT", "PUBLISHED", "CANCELLED"}
<1>1. c[n] \in Rows
  BY DEF DayRows
<1> QED
  BY <1>1 DEF Rows

\* A row in another status, or with another window.
LEMMA RowEdited ==
    ASSUME NEW r \in Rows
    PROVE  /\ \A s \in {"DRAFT", "PUBLISHED", "CANCELLED"} :
                 /\ [r EXCEPT !.status = s] \in Rows
                 /\ [r EXCEPT !.status = s].status = s
           /\ \A w \in Windows : /\ [r EXCEPT !.win = w] \in Rows
                                 /\ [r EXCEPT !.win = w].status = r.status
BY DEF Rows

\* A slot that is none changes nothing.
LEMMA NoSlotWritten ==
    ASSUME NEW c \in DayRows, NEW r
    PROVE  [c EXCEPT ![0] = r] = c
BY SlotsFinite DEF DayRows

\* Cancelling a row takes it from those in force.
LEMMA CancelledRow ==
    ASSUME NEW c \in DayRows, NEW n \in Maybe, n # 0 => c[n] # Blank
    PROVE  /\ Cancelled(c, n) \in DayRows
           /\ Live(Cancelled(c, n)) = Live(c) \ {n}
           /\ \A m \in Slots : /\ c[m] # Blank => Cancelled(c, n)[m] # Blank
                               /\ m # n => Cancelled(c, n)[m] = c[m]
<1>1. CASE n = 0
  <2>1. Cancelled(c, n) = c
    BY <1>1 DEF Cancelled
  <2>2. Live(c) \subseteq Slots
    BY DEF Live, Having
  <2> QED
    BY <1>1, <2>1, <2>2, SlotsFinite
<1>2. CASE n # 0
  <2>1. n \in Slots
    BY <1>2 DEF Maybe
  <2>2. PICK r \in Rows : r = c[n]
    BY <1>2, <2>1, RowOf
  <2>3. PICK e \in Rows : e = [r EXCEPT !.status = "CANCELLED"] /\ e.status = "CANCELLED"
    BY RowEdited
  <2>4. Cancelled(c, n) = [c EXCEPT ![n] = e]
    BY <1>2, <2>2, <2>3 DEF Cancelled
  <2>5. /\ Cancelled(c, n) \in DayRows /\ Cancelled(c, n)[n] = e /\ e # Blank
        /\ \A m \in Slots : m # n => Cancelled(c, n)[m] = c[m]
    BY <2>1, <2>4, BlankAssumption DEF DayRows
  <2>6. n \notin Live(Cancelled(c, n))
    BY <2>3, <2>5 DEF Live, Having
  <2>7. \A m \in Slots : m # n => (m \in Live(Cancelled(c, n)) <=> m \in Live(c))
    BY <2>5 DEF Live, Having
  <2>8. Live(c) \subseteq Slots /\ Live(Cancelled(c, n)) \subseteq Slots
    BY DEF Live, Having
  <2>9. Live(Cancelled(c, n)) = Live(c) \ {n}
    BY <2>6, <2>7, <2>8
  <2> QED
    BY <2>5, <2>9
<1> QED
  BY <1>1, <1>2

\* A row is written in a slot, or there is no slot.
LEMMA RevivedRow ==
    ASSUME NEW c \in DayRows, NEW n \in Maybe, NEW w \in Windows,
           NEW s \in {"DRAFT", "PUBLISHED"}
    PROVE  /\ Revived(c, n, w, s) \in DayRows
           /\ Live(Revived(c, n, w, s)) \subseteq Live(c) \cup {n}
           /\ n # 0 => n \in Having(Revived(c, n, w, s), {s})
           /\ \A m \in Slots : c[m] # Blank => Revived(c, n, w, s)[m] # Blank
<1>1. CASE n = 0
  <2>1. Revived(c, n, w, s) = c
    BY <1>1, NoSlotWritten DEF Revived
  <2> QED
    BY <1>1, <2>1
<1>2. CASE n # 0
  <2>1. n \in Slots
    BY <1>2 DEF Maybe
  <2>2. PICK e \in Rows : e = [win |-> w, status |-> s] /\ e.status = s
    <3> DEFINE r == [win |-> w, status |-> s]
    <3>1. r \in Rows /\ r.status = s
      BY DEF Rows
    <3> QED
      BY <3>1
  <2>3. Revived(c, n, w, s) = [c EXCEPT ![n] = e]
    BY <2>2 DEF Revived
  <2>4. /\ Revived(c, n, w, s) \in DayRows /\ Revived(c, n, w, s)[n] = e /\ e # Blank
        /\ \A m \in Slots : m # n => Revived(c, n, w, s)[m] = c[m]
    BY <2>1, <2>3, BlankAssumption DEF DayRows
  <2>5. n \in Having(Revived(c, n, w, s), {s})
    BY <2>1, <2>2, <2>4 DEF Having
  <2>6. Live(Revived(c, n, w, s)) \subseteq Live(c) \cup {n}
    BY <2>4 DEF Live, Having
  <2> QED
    BY <2>4, <2>5, <2>6
<1> QED
  BY <1>1, <1>2

\* A row is created in a free slot.
LEMMA CreatedRow ==
    ASSUME NEW c \in DayRows, NEW w \in Windows
    PROVE  /\ Created(c, w) \in DayRows
           /\ \E n \in Maybe : Live(Created(c, w)) \subseteq Live(c) \cup {n}
           /\ \A m \in Slots : c[m] # Blank => Created(c, w)[m] # Blank
<1>1. PICK n \in Maybe : n = SomeRow({m \in Slots : c[m] = Blank})
  BY SomeRowIn
<1>2. Created(c, w) = Revived(c, n, w, "DRAFT")
  BY <1>1 DEF Created
<1> QED
  BY <1>2, RevivedRow

\* The cancelled row with a window, if there is one.
LEMMA ClearedRow ==
    ASSUME NEW c \in DayRows, NEW w
    PROVE  /\ Cleared(c, w) \in Maybe
           /\ Cleared(c, w) # 0 => /\ Cleared(c, w) \in Slots
                                   /\ c[Cleared(c, w)] # Blank
                                   /\ c[Cleared(c, w)].status = "CANCELLED"
<1> DEFINE S == {n \in Having(c, {"CANCELLED"}) : c[n].win = w}
<1>1. S \in SUBSET Slots
  BY DEF Having
<1>2. Cleared(c, w) = SomeRow(S)
  BY DEF Cleared
<1>3. \A n \in S : c[n] # Blank /\ c[n].status = "CANCELLED"
  BY DEF Having
<1> HIDE DEF S
<1> QED
  BY <1>1, <1>2, <1>3, SomeRowIn

\* The only row in force, if a day has one.
LEMMA OnlyRow ==
    ASSUME NEW c \in DayRows, Lone(c)
    PROVE  /\ SomeRow(Live(c)) = 0 => Live(c) = {}
           /\ SomeRow(Live(c)) # 0 => Live(c) = {SomeRow(Live(c))}
<1>1. Live(c) \in SUBSET Slots
  BY DEF Live, Having
<1> QED
  BY <1>1, SomeRowIn DEF Lone

\* Counting the rows in force.
LEMMA LoneCounts ==
    ASSUME NEW c
    PROVE  Cardinality(Live(c)) <= 1 <=> Lone(c)
<1>1. Live(c) \in SUBSET Slots
  BY DEF Live, Having
<1>2. IsFiniteSet(Live(c))
  BY <1>1, SlotsFinite, FS_Subset
<1> QED
  BY <1>2, OneOrNone DEF Lone

-----------------------------------------------------------------------------
(* Requests *)

\* What each request holds.
LEMMA RequestFields ==
    ASSUME NEW q \in Requests
    PROVE  /\ q # Blank /\ q.dates \in SUBSET Dates
           /\ q.op \in {"generate", "pattern", "tidy", "cell", "review", "suspend", "amend",
                        "lift"}
           /\ q.op = "pattern" => q.on \in [Dates -> Maybe]
           /\ q.op = "cell" =>
                 /\ q.want \in Windows \cup {"CLEAR"} /\ q.on \in Maybe /\ q.match \in Maybe
                 /\ q.was \in {"DRAFT", "PUBLISHED"}
           /\ q.op = "tidy" => q.drafts \in [Dates -> SUBSET Slots]
           /\ q.op = "review" => q.duty \in Duties
           /\ q.op \in {"suspend", "amend"} =>
                 q.days \in SUBSET Dates /\ q.over \in SUBSET Dates
           /\ q.op \in {"suspend", "amend", "lift"} =>
                 q.of \in Suspensions /\ q.drop \in SUBSET Dates
           /\ q.op = "lift" => q.at \in Nat
<1>1. q # Blank
  BY BlankAssumption
<1> QED
  BY <1>1 DEF Requests

\* What a request has in hand are dates and suspensions.
LEMMA HandOf ==
    ASSUME NEW t \in Reqs, req \in [Reqs -> Requests \cup {Blank}]
    PROVE  /\ req[t] = Blank => InHand(t) = {}
           /\ req[t] \in Requests => InHand(t) = Hand(req[t])
           /\ InHand(t) \subseteq Dates \cup Suspensions
<1>1. CASE req[t] = Blank
  BY <1>1, BlankAssumption DEF InHand
<1>2. CASE req[t] \in Requests
  <2>1. req[t] # Blank /\ req[t].dates \in SUBSET Dates
    BY <1>2, RequestFields
  <2> QED
    BY <1>2, <2>1, BlankAssumption DEF InHand, Hand
<1> QED
  BY <1>1, <1>2

\* A step that deletes no row, and marks days for the suspensions of T only.
BoardFrame(T) ==
    /\ \A d \in Dates, n \in Slots : cell[d][n] # Blank => cell'[d][n] # Blank
    /\ \A s \in Suspensions : sus[s] # Blank => sus'[s] # Blank
    /\ \A s \in Suspensions \ T : Marks(s)' \subseteq Marks(s)

\* What X names is left alone.
Steady(X) ==
    \A x \in X : /\ x \in Dates => cell'[x] = cell[x] /\ duty'[x] = duty[x]
                 /\ x \in Suspensions => sus'[x] = sus[x]

\* What was read of the rows stays so.
LEMMA CellsStay ==
    ASSUME NEW q \in Requests, CellsRead(q), mixed \subseteq mixed',
           NEW T, BoardFrame(T), Steady(Hand(q) \ mixed')
    PROVE  CellsRead(q)'
<1>1. /\ q.dates \subseteq Dates
      /\ \A d \in q.dates \ mixed' : d \notin mixed /\ cell'[d] = cell[d]
  BY RequestFields DEF Steady, Hand
<1>2. \A d \in Dates, n \in Maybe : n # 0 /\ cell[d][n] # Blank => cell'[d][n] # Blank
  BY DEF BoardFrame, Maybe
<1>3. CASE q.op = "generate"
  BY <1>1, <1>3 DEF CellsRead
<1>4. CASE q.op = "pattern"
  <2>1. ASSUME NEW d \in q.dates, q.on[d] # 0
        PROVE  cell'[d][q.on[d]] # Blank
    <3>1. q.on[d] \in Maybe /\ d \in Dates
      BY <1>1, <1>4, RequestFields
    <3>2. cell[d][q.on[d]] # Blank
      BY <1>4, <2>1 DEF CellsRead
    <3> QED
      BY <1>2, <2>1, <3>1, <3>2
  <2>2. ASSUME NEW d \in q.dates \ mixed'
        PROVE  q.on[d] = SomeRow(Live(cell'[d])) /\ Having(cell'[d], {"PUBLISHED"}) = {}
    BY <1>1, <1>4 DEF CellsRead
  <2> QED
    BY <1>4, <2>1, <2>2 DEF CellsRead
<1>5. CASE q.op = "tidy"
  <2>1. ASSUME NEW d \in Dates, NEW n \in q.drafts[d]
        PROVE  cell'[d][n] # Blank
    <3>1. n \in Slots
      BY <1>5, RequestFields
    <3>2. cell[d][n] # Blank
      BY <1>5 DEF CellsRead
    <3> QED
      BY <3>1, <3>2 DEF BoardFrame
  <2>2. ASSUME NEW d \in q.dates \ mixed'
        PROVE  q.drafts[d] \subseteq Having(cell'[d], {"DRAFT"})
    BY <1>1, <1>5 DEF CellsRead
  <2>3. \A d \in Dates : q.drafts[d] # {} => d \in q.dates
    BY <1>5 DEF CellsRead
  <2> QED
    BY <1>5, <2>1, <2>2, <2>3 DEF CellsRead
<1>6. CASE q.op = "cell"
  <2>1. q.on \in Maybe /\ q.match \in Maybe
    BY <1>6, RequestFields
  <2>2. (\E d \in Dates : q.dates = {d}) /\ (q.want = "CLEAR" => q.on # 0)
    BY <1>6 DEF CellsRead
  <2>3. ASSUME NEW d \in q.dates
        PROVE  /\ q.on # 0 => cell'[d][q.on] # Blank
               /\ q.match # 0 => cell'[d][q.match] # Blank
    <3>1. /\ q.on # 0 => cell[d][q.on] # Blank
          /\ q.match # 0 => cell[d][q.match] # Blank
      BY <1>6 DEF CellsRead
    <3> QED
      BY <1>1, <1>2, <2>1, <3>1
  <2>4. ASSUME NEW d \in q.dates \ mixed'
        PROVE  /\ q.on = SomeRow(Live(cell'[d]))
               /\ q.on # 0 => cell'[d][q.on].status = q.was
               /\ q.match # 0 => cell'[d][q.match].status = "CANCELLED"
    <3>1. /\ q.on = SomeRow(Live(cell[d]))
          /\ q.on # 0 => cell[d][q.on].status = q.was
          /\ q.match # 0 => cell[d][q.match].status = "CANCELLED"
      BY <1>1, <1>6 DEF CellsRead
    <3> QED
      BY <1>1, <3>1
  <2> QED
    BY <1>6, <2>2, <2>3, <2>4 DEF CellsRead
<1>7. CASE q.op \in {"review", "suspend", "amend", "lift"}
  BY <1>7 DEF CellsRead
<1> QED
  BY <1>3, <1>4, <1>5, <1>6, <1>7, RequestFields

\* What was read of attendance and suspensions stays so.
LEMMA DutiesStay ==
    ASSUME NEW q \in Requests, DutiesRead(q), mixed \subseteq mixed',
           NEW T, BoardFrame(T), Steady(Hand(q) \ mixed'), T \cap Hand(q) \subseteq mixed'
    PROVE  DutiesRead(q)'
<1>1. /\ q.dates \subseteq Dates
      /\ \A d \in q.dates \ mixed' : d \notin mixed /\ duty'[d] = duty[d]
  BY RequestFields DEF Steady, Hand
<1>2. CASE q.op = "review"
  <2>1. q.duty.typed
    BY <1>2 DEF DutiesRead
  <2>2. ASSUME q.duty.tag # Blank, NEW d \in q.dates \ mixed'
        PROVE  duty'[d] # Blank /\ duty'[d].tag = q.duty.tag
    BY <1>1, <1>2, <2>2 DEF DutiesRead
  <2> QED
    BY <1>2, <2>1, <2>2 DEF DutiesRead
<1>3. CASE q.op \in {"suspend", "amend", "lift"}
  <2>1. q.of \in Suspensions /\ q.of \in Hand(q) /\ q.drop \subseteq q.dates
    BY <1>3, RequestFields DEF Hand, DutiesRead
  <2>2. \A s \in Suspensions, d \in q.dates \ mixed' : d \in TaggedBy(s)' <=> d \in TaggedBy(s)
    BY <1>1 DEF TaggedBy
  <2>3. q.drop \ mixed' \subseteq TaggedBy(q.of)'
    <3>1. q.drop \ mixed \subseteq TaggedBy(q.of)
      BY <1>3 DEF DutiesRead
    <3> QED
      BY <1>1, <2>1, <2>2, <3>1
  <2>4. ASSUME q.of \notin mixed'
        PROVE  /\ q.of \notin mixed /\ sus'[q.of] = sus[q.of]
               /\ Marks(q.of)' \subseteq Marks(q.of)
    <3>1. q.of \notin T
      BY <2>1, <2>4
    <3> QED
      BY <2>1, <2>4, <3>1 DEF Steady, BoardFrame
  <2>5. ASSUME q.op \in {"suspend", "amend"}
        PROVE  /\ q.over \subseteq q.days /\ q.days \subseteq q.dates
               /\ \A d \in q.over \ mixed' : Yields(duty'[d], q.of) \/ d \in q.drop
    <3>1. /\ q.over \subseteq q.days /\ q.days \subseteq q.dates
          /\ \A d \in q.over \ mixed : Yields(duty[d], q.of) \/ d \in q.drop
      BY <2>5 DEF DutiesRead
    <3>2. \A d \in q.over \ mixed' : d \in q.dates \ mixed'
      BY <3>1
    <3> QED
      BY <1>1, <3>1, <3>2
  <2>6. ASSUME q.op \in {"amend", "lift"}
        PROVE  sus'[q.of] # Blank
    BY <2>1, <2>6 DEF DutiesRead, BoardFrame
  <2>7. ASSUME q.op = "amend", q.of \notin mixed'
        PROVE  sus'[q.of].lifted = 0 /\ Marks(q.of)' \ mixed' \subseteq q.drop
    <3>1. sus[q.of].lifted = 0 /\ Marks(q.of) \ mixed \subseteq q.drop
      BY <2>4, <2>7 DEF DutiesRead
    <3> QED
      BY <2>4, <2>7, <3>1
  <2>8. ASSUME q.op = "lift", q.of \notin mixed', NEW d \in Marks(q.of)' \ mixed'
        PROVE  d \in q.drop \/ d < q.at
    <3>1. d \in Marks(q.of) \ mixed
      BY <2>4, <2>8
    <3> QED
      BY <2>4, <2>8, <3>1 DEF DutiesRead
  <2>9. q.op = "suspend" => q.drop = {}
    BY DEF DutiesRead
  <2> QED
    BY <1>3, <2>1, <2>3, <2>5, <2>6, <2>7, <2>8, <2>9 DEF DutiesRead
<1>4. CASE q.op \in {"generate", "pattern", "tidy", "cell"}
  BY <1>4 DEF DutiesRead
<1> QED
  BY <1>2, <1>3, <1>4, RequestFields

\* The note of a step tells dates and suspensions that requests meet on.
LEMMA NoteApart ==
    ASSUME BoardNote, mixed \subseteq Dates \cup Suspensions,
           req' \in [Reqs -> Requests \cup {Blank}]
    PROVE  /\ mixed' \subseteq Dates \cup Suspensions /\ mixed \subseteq mixed'
           /\ BoardApart'
           /\ \A t \in Reqs : Steady(InHand(t)' \ mixed')
<1>1. mixed' \subseteq Dates \cup Suspensions /\ mixed \subseteq mixed'
  BY DEF BoardNote
<1>2. \A t \in Reqs : InHand(t)' \subseteq Dates \cup Suspensions
  <2> SUFFICES ASSUME NEW t \in Reqs PROVE InHand(t)' \subseteq Dates \cup Suspensions
    OBVIOUS
  <2>1. CASE req'[t] = Blank
    BY <2>1 DEF InHand
  <2>2. CASE req'[t] # Blank
    <3> PICK q \in Requests : q = req'[t]
      BY <2>2
    <3>1. q.dates \subseteq Dates
      BY RequestFields
    <3> QED
      BY <3>1 DEF InHand
  <2> QED
    BY <2>1, <2>2
<1>3. BoardApart'
  <2> SUFFICES ASSUME NEW t \in Reqs, NEW u \in Reqs, t # u,
                      NEW x \in InHand(t)' \cap InHand(u)'
               PROVE  x \in mixed'
    BY DEF BoardApart
  <2>1. x \in Dates \cup Suspensions
    BY <1>2
  <2> QED
    BY <2>1 DEF BoardNote
<1>4. ASSUME NEW t \in Reqs, NEW x \in InHand(t)' \ mixed'
      PROVE  /\ x \in Dates => cell'[x] = cell[x] /\ duty'[x] = duty[x]
             /\ x \in Suspensions => sus'[x] = sus[x]
  <2>1. x \in Dates \cup Suspensions
    BY <1>2
  <2>2. x \notin Changed
    BY <1>4, <2>1 DEF BoardNote
  <2> QED
    BY <2>2 DEF Changed
<1> QED
  BY <1>1, <1>3, <1>4 DEF Steady

\* A request ends or begins, or none does: what the others have read stays so.
LEMMA BoardMoves ==
    ASSUME BoardInv, BoardNote, NEW T, BoardFrame(T),
           \/ req' = req /\ T = {}
           \/ \E t \in Reqs :
                 /\ T \subseteq InHand(t)
                 /\ \/ req' = [req EXCEPT ![t] = Blank]
                    \/ \E q \in Requests : /\ req' = [req EXCEPT ![t] = q]
                                           /\ StillRead(q) /\ T = {}
    PROVE  /\ req' \in [Reqs -> Requests \cup {Blank}]
           /\ mixed' \subseteq Dates \cup Suspensions /\ mixed \subseteq mixed'
           /\ BoardApart'
           /\ \A t \in Reqs, q \in Requests : req'[t] = q => StillRead(q)'
<1>0. /\ req \in [Reqs -> Requests \cup {Blank}] /\ mixed \subseteq Dates \cup Suspensions
      /\ BoardApart /\ \A t \in Reqs, q \in Requests : req[t] = q => StillRead(q)
  BY DEF BoardInv, BoardTypeOK
<1>1. req' \in [Reqs -> Requests \cup {Blank}]
  BY <1>0
<1>2. /\ mixed' \subseteq Dates \cup Suspensions /\ mixed \subseteq mixed' /\ BoardApart'
      /\ \A t \in Reqs : Steady(InHand(t)' \ mixed')
  BY <1>0, <1>1, NoteApart
<1>3. ASSUME NEW u \in Reqs, NEW q \in Requests, req'[u] = q
      PROVE  StillRead(q)'
  <2>1. InHand(u)' = Hand(q)
    <3>1. q # Blank
      BY RequestFields
    <3> QED
      BY <1>3, <3>1 DEF InHand, Hand
  <2>2. Steady(Hand(q) \ mixed')
    BY <1>2, <2>1
  <2>3. StillRead(q) /\ T \cap Hand(q) \subseteq mixed'
    <3>1. CASE req' = req /\ T = {}
      BY <1>0, <1>3, <3>1
    <3>2. ASSUME NEW t \in Reqs, T \subseteq InHand(t), req' = [req EXCEPT ![t] = Blank]
          PROVE  StillRead(q) /\ T \cap Hand(q) \subseteq mixed'
      <4>1. u # t
        <5>1. q # Blank
          BY RequestFields
        <5> QED
          BY <1>0, <1>3, <3>2, <5>1
      <4>2. req[u] = q
        BY <1>0, <1>3, <3>2, <4>1
      <4>3. InHand(u) = Hand(q)
        BY <1>0, <4>2, HandOf
      <4>4. InHand(t) \cap InHand(u) \subseteq mixed
        BY <1>0, <4>1 DEF BoardApart
      <4> QED
        BY <1>0, <1>2, <3>2, <4>2, <4>3, <4>4
    <3>3. ASSUME NEW t \in Reqs, NEW i \in Requests, req' = [req EXCEPT ![t] = i],
                 StillRead(i), T = {}
          PROVE  StillRead(q) /\ T \cap Hand(q) \subseteq mixed'
      <4>1. CASE u = t
        BY <1>0, <1>3, <3>3, <4>1
      <4>2. CASE u # t
        BY <1>0, <1>3, <3>3, <4>2
      <4> QED
        BY <4>1, <4>2
    <3> QED
      BY <3>1, <3>2, <3>3
  <2>4. CellsRead(q)'
    BY <1>2, <2>2, <2>3, CellsStay DEF StillRead
  <2>5. DutiesRead(q)'
    BY <1>2, <2>2, <2>3, DutiesStay DEF StillRead
  <2> QED
    BY <2>4, <2>5 DEF StillRead
<1> QED
  BY <1>1, <1>2, <1>3

\* Steps that leave attendance and suspensions alone.
LEMMA DutiesAlone ==
    ASSUME BoardInv, BoardNote, UNCHANGED <<duty, sus>>, today' \in Nat,
           cell' \in [Dates -> DayRows],
           \A d \in Dates, n \in Slots : cell[d][n] # Blank => cell'[d][n] # Blank,
           \A d \in Dates \ mixed : Lone(cell'[d]),
           \/ req' = req
           \/ \E t \in Reqs :
                 \/ req' = [req EXCEPT ![t] = Blank]
                 \/ \E q \in Requests : req' = [req EXCEPT ![t] = q] /\ StillRead(q)
    PROVE  BoardInv'
<1>1. BoardFrame({})
  BY DEF BoardFrame, Marks, TaggedBy
<1>2. /\ req' \in [Reqs -> Requests \cup {Blank}]
      /\ mixed' \subseteq Dates \cup Suspensions /\ mixed \subseteq mixed'
      /\ BoardApart'
      /\ \A t \in Reqs, q \in Requests : req'[t] = q => StillRead(q)'
  <2>1. \A t \in Reqs : {} \subseteq InHand(t)
    OBVIOUS
  <2> QED
    BY <1>1, <2>1, BoardMoves
<1>3. BoardTypeOK'
  BY <1>2 DEF BoardInv, BoardTypeOK, DayRows
<1>4. \A d \in Dates \ mixed' : Lone(cell'[d])
  BY <1>2
<1>5. SuspensionsOwned'
  BY <1>2 DEF BoardInv, SuspensionsOwned, TaggedBy
<1> QED
  BY <1>2, <1>3, <1>4, <1>5 DEF BoardInv

\* Steps that leave the rows alone, too.
LEMMA RowsAlone ==
    ASSUME BoardInv, BoardNote, UNCHANGED <<cell, duty, sus>>, today' \in Nat,
           \/ req' = req
           \/ \E t \in Reqs :
                 \/ req' = [req EXCEPT ![t] = Blank]
                 \/ \E q \in Requests : req' = [req EXCEPT ![t] = q] /\ StillRead(q)
    PROVE  BoardInv'
<1>1. /\ cell' \in [Dates -> DayRows]
      /\ \A d \in Dates, n \in Slots : cell[d][n] # Blank => cell'[d][n] # Blank
      /\ \A d \in Dates \ mixed : Lone(cell'[d])
  BY DEF BoardInv, BoardTypeOK, DayRows
<1> QED
  BY <1>1, DutiesAlone

\* A request that ends and changes attendance, or a suspension it had in hand.
LEMMA CellsAlone ==
    ASSUME BoardInv, BoardNote, UNCHANGED <<cell, today>>, NEW t \in Reqs,
           duty' \in [Dates -> Duties \cup {Blank}],
           sus' \in [Suspensions -> SuspensionRows \cup {Blank}],
           NEW T, BoardFrame(T), T \subseteq InHand(t),
           req' = [req EXCEPT ![t] = Blank], mixed \subseteq mixed' => SuspensionsOwned'
    PROVE  BoardInv'
<1>1. /\ req' \in [Reqs -> Requests \cup {Blank}]
      /\ mixed' \subseteq Dates \cup Suspensions /\ mixed \subseteq mixed'
      /\ BoardApart'
      /\ \A u \in Reqs, q \in Requests : req'[u] = q => StillRead(q)'
  BY BoardMoves
<1>2. BoardTypeOK'
  BY <1>1 DEF BoardInv, BoardTypeOK
<1>3. \A d \in Dates \ mixed' : Lone(cell'[d])
  BY <1>1 DEF BoardInv
<1> QED
  BY <1>1, <1>2, <1>3 DEF BoardInv

\* The rows of a day, and the request in hand.
LEMMA BoardTypes ==
    ASSUME BoardInv
    PROVE  /\ \A d \in Dates : cell[d] \in DayRows /\ cell[d] \in [Slots -> Rows \cup {Blank}]
           /\ \A d \in Dates : duty[d] # Blank => duty[d] \in Duties
           /\ \A t \in Reqs : req[t] # Blank => req[t] \in Requests /\ StillRead(req[t])
<1>1. ASSUME NEW t \in Reqs, req[t] # Blank
      PROVE  req[t] \in Requests /\ StillRead(req[t])
  <2>1. req[t] \in Requests
    BY <1>1 DEF BoardInv, BoardTypeOK
  <2> QED
    BY <2>1 DEF BoardInv
<1> QED
  BY <1>1 DEF BoardInv, BoardTypeOK, DayRows

-----------------------------------------------------------------------------
(* Reading the board *)

\* The template.
LEMMA GenerateReads ==
    ASSUME BoardInv, NEW t \in Reqs, GenerateBegin(t)
    PROVE  \E q \in Requests : req' = [req EXCEPT ![t] = q] /\ StillRead(q)
<1> PICK D \in SUBSET Dates : D = {d \in Dates : Pattern[d] # Blank /\ Vacant(d)}
  OBVIOUS
<1> DEFINE q == [op |-> "generate", dates |-> D]
<1>1. q \in Requests /\ q.op = "generate" /\ q.dates = D
  BY DEF Requests
<1>2. req' = [req EXCEPT ![t] = q]
  BY DEF GenerateBegin, BeginReq
<1>3. \A d \in D : Pattern[d] # Blank /\ Live(cell[d]) = {}
  BY DEF Vacant
<1> HIDE DEF q
<1>4. StillRead(q)
  BY <1>1, <1>3 DEF StillRead, CellsRead, DutiesRead
<1> QED
  BY <1>1, <1>2, <1>4

\* A staffing pattern: the draft of each day that is not published.
LEMMA PatternReads ==
    ASSUME BoardInv, NEW t \in Reqs, NEW range \in SUBSET Dates, PatternBegin(t, range)
    PROVE  \E q \in Requests : req' = [req EXCEPT ![t] = q] /\ StillRead(q)
<1> PICK D \in SUBSET Dates : D = {d \in range : Pattern[d] # Blank /\ ~Skipped(d)}
  OBVIOUS
<1>0. \A d \in Dates : SomeRow(Live(cell[d])) \in Maybe
                       /\ (SomeRow(Live(cell[d])) # 0 => cell[d][SomeRow(Live(cell[d]))] # Blank)
  <2> SUFFICES ASSUME NEW d \in Dates
               PROVE  /\ SomeRow(Live(cell[d])) \in Maybe
                      /\ SomeRow(Live(cell[d])) # 0 => cell[d][SomeRow(Live(cell[d]))] # Blank
    OBVIOUS
  <2>1. Live(cell[d]) \in SUBSET Slots /\ \A n \in Live(cell[d]) : cell[d][n] # Blank
    BY DEF Live, Having
  <2> QED
    BY <2>1, SomeRowIn
<1>1. PICK on \in [Dates -> Maybe] :
         on = [d \in Dates |-> IF d \in range THEN SomeRow(Live(cell[d])) ELSE 0]
  BY <1>0 DEF Maybe
<1> DEFINE q == [op |-> "pattern", dates |-> D, on |-> on]
<1>2. q \in Requests /\ q.op = "pattern" /\ q.dates = D /\ q.on = on
  BY DEF Requests
<1>3. req' = [req EXCEPT ![t] = q]
  BY <1>1 DEF PatternBegin, BeginReq
<1>4. \A d \in D : /\ Pattern[d] # Blank /\ Having(cell[d], {"PUBLISHED"}) = {}
                   /\ on[d] = SomeRow(Live(cell[d]))
                   /\ on[d] # 0 => cell[d][on[d]] # Blank
  BY <1>0, <1>1 DEF Skipped
<1> HIDE DEF q
<1>5. StillRead(q)
  BY <1>2, <1>4 DEF StillRead, CellsRead, DutiesRead
<1> QED
  BY <1>2, <1>3, <1>5

\* A cleanup: the drafts of a range.
LEMMA TidyReads ==
    ASSUME BoardInv, NEW t \in Reqs, NEW range \in SUBSET Dates, TidyBegin(t, range)
    PROVE  \E q \in Requests : req' = [req EXCEPT ![t] = q] /\ StillRead(q)
<1>0. \A d \in Dates : /\ Having(cell[d], {"DRAFT"}) \in SUBSET Slots
                       /\ \A n \in Having(cell[d], {"DRAFT"}) : cell[d][n] # Blank
  BY DEF Having
<1>1. PICK drafts \in [Dates -> SUBSET Slots] :
         drafts = [d \in Dates |-> IF d \in range THEN Having(cell[d], {"DRAFT"}) ELSE {}]
  BY <1>0
<1> PICK D \in SUBSET Dates : D = {d \in Dates : drafts[d] # {}}
  OBVIOUS
<1> DEFINE q == [op |-> "tidy", dates |-> D, drafts |-> drafts]
<1>2. q \in Requests /\ q.op = "tidy" /\ q.dates = D /\ q.drafts = drafts
  BY DEF Requests
<1>3. req' = [req EXCEPT ![t] = q]
  BY <1>1 DEF TidyBegin, BeginReq
<1>4. \A d \in Dates : /\ drafts[d] \subseteq Having(cell[d], {"DRAFT"})
                       /\ \A n \in drafts[d] : cell[d][n] # Blank
  BY <1>0, <1>1
<1> HIDE DEF q
<1>5. StillRead(q)
  BY <1>2, <1>4 DEF StillRead, CellsRead, DutiesRead
<1> QED
  BY <1>2, <1>3, <1>5

\* A cell: the row in force, and a cancelled one with the window wanted.
LEMMA CellReads ==
    ASSUME BoardInv, NEW t \in Reqs, NEW d \in Dates, NEW want \in Wanted[d],
           CellBegin(t, d, want)
    PROVE  \E q \in Requests : req' = [req EXCEPT ![t] = q] /\ StillRead(q)
<1>0. cell[d] \in DayRows /\ want \in Windows \cup {"CLEAR"}
  BY BoardTypes, ScheduleAssumption
<1>1. PICK on \in Maybe : /\ on = SomeRow(Live(cell[d]))
                          /\ on # 0 => on \in Live(cell[d])
  <2>1. Live(cell[d]) \in SUBSET Slots
    BY DEF Live, Having
  <2> QED
    BY <2>1, SomeRowIn
<1>2. PICK match \in Maybe :
         /\ match = IF want = "CLEAR" THEN 0 ELSE Cleared(cell[d], want)
         /\ match # 0 => cell[d][match] # Blank /\ cell[d][match].status = "CANCELLED"
  <2>1. 0 \in Maybe
    BY DEF Maybe
  <2> QED
    BY <1>0, <2>1, ClearedRow
<1>3. PICK was \in {"DRAFT", "PUBLISHED"} :
         /\ was = IF on = 0 THEN "DRAFT" ELSE cell[d][on].status
         /\ on # 0 => cell[d][on] # Blank /\ cell[d][on].status = was
  BY <1>1 DEF Live, Having
<1> DEFINE q == [op |-> "cell", dates |-> {d}, want |-> want, on |-> on, match |-> match,
                 was |-> was]
<1>4. /\ q \in Requests /\ q.op = "cell" /\ q.dates = {d} /\ q.want = want /\ q.on = on
      /\ q.match = match /\ q.was = was
  BY <1>0 DEF Requests
<1>5. req' = [req EXCEPT ![t] = q] /\ (want = "CLEAR" => on # 0)
  BY <1>1, <1>2, <1>3 DEF CellBegin, BeginReq
<1> HIDE DEF q
<1>6. StillRead(q)
  BY <1>1, <1>2, <1>3, <1>4, <1>5 DEF StillRead, CellsRead, DutiesRead
<1> QED
  BY <1>4, <1>5, <1>6

\* A review: the tag in the note of the day.
LEMMA ReviewReads ==
    ASSUME BoardInv, NEW t \in Reqs, NEW d \in Dates, NEW result \in Results,
           NEW keep \in BOOLEAN, ReviewBegin(t, d, result, keep)
    PROVE  \E q \in Requests : req' = [req EXCEPT ![t] = q] /\ StillRead(q)
<1>1. PICK tag \in Suspensions \cup {Blank} :
         /\ tag = IF keep /\ duty[d] # Blank THEN duty[d].tag ELSE Blank
         /\ tag # Blank => duty[d] # Blank /\ duty[d].tag = tag
  <2>1. duty[d] # Blank => duty[d].tag \in Suspensions \cup {Blank}
    BY BoardTypes DEF Duties
  <2> QED
    BY <2>1
<1>2. PICK e \in Duties : /\ e = [result |-> result, tag |-> tag, typed |-> TRUE]
                          /\ e.tag = tag /\ e.typed
  <2> DEFINE r == [result |-> result, tag |-> tag, typed |-> TRUE]
  <2>1. r \in Duties /\ r.tag = tag /\ r.typed
    BY ScheduleAssumption DEF Duties
  <2> QED
    BY <2>1
<1> DEFINE q == [op |-> "review", dates |-> {d}, duty |-> e]
<1>3. q \in Requests /\ q.op = "review" /\ q.dates = {d} /\ q.duty = e
  BY DEF Requests
<1>4. req' = [req EXCEPT ![t] = q]
  BY <1>1, <1>2 DEF ReviewBegin, BeginReq
<1> HIDE DEF q
<1>5. StillRead(q)
  BY <1>1, <1>2, <1>3 DEF StillRead, CellsRead, DutiesRead
<1> QED
  BY <1>3, <1>4, <1>5

\* What a suspension marks yields to it.
LEMMA OverlaidYields ==
    ASSUME NEW s, NEW days \in SUBSET Dates, NEW drop
    PROVE  /\ Overlaid(s, days, drop) \in SUBSET Dates
           /\ Overlaid(s, days, drop) \subseteq days
           /\ \A d \in Overlaid(s, days, drop) : Yields(duty[d], s) \/ d \in drop
BY DEF Overlaid

\* A new suspension, or another range for one that is not lifted.
LEMMA SuspendReads ==
    ASSUME BoardInv, NEW t \in Reqs, NEW s \in Suspensions, NEW days \in SUBSET Dates,
           SuspendBegin(t, s, days)
    PROVE  \E q \in Requests : req' = [req EXCEPT ![t] = q] /\ StillRead(q)
<1>1. PICK over \in SUBSET Dates :
         /\ over = Overlaid(s, days, {})
         /\ over \subseteq days /\ \A d \in over : Yields(duty[d], s)
  BY OverlaidYields
<1> DEFINE q == [op |-> "suspend", dates |-> days, of |-> s, days |-> days,
                 drop |-> {}, over |-> over]
<1>2. /\ q \in Requests /\ q.op = "suspend" /\ q.dates = days /\ q.of = s
      /\ q.days = days /\ q.drop = {} /\ q.over = over
  BY DEF Requests
<1>3. req' = [req EXCEPT ![t] = q]
  BY <1>1 DEF SuspendBegin, BeginReq
<1> HIDE DEF q
<1>4. StillRead(q)
  BY <1>1, <1>2 DEF StillRead, CellsRead, DutiesRead
<1> QED
  BY <1>2, <1>3, <1>4

\* An edit gives back every day the suspension has marked, and marks its range.
LEMMA AmendReads ==
    ASSUME BoardInv, NEW t \in Reqs, NEW s \in Suspensions, NEW days \in SUBSET Dates,
           AmendBegin(t, s, days)
    PROVE  \E q \in Requests : req' = [req EXCEPT ![t] = q] /\ StillRead(q)
<1>0. sus[s] # Blank /\ sus[s].lifted = 0 /\ sus[s].days \in SUBSET Dates
  BY DEF AmendBegin, BoardInv, BoardTypeOK, SuspensionRows
<1>1. PICK drop \in SUBSET Dates : drop = TaggedBy(s)
  BY DEF TaggedBy
<1>2. PICK over \in SUBSET Dates :
         /\ over = Overlaid(s, days, drop)
         /\ over \subseteq days /\ \A d \in over : Yields(duty[d], s) \/ d \in drop
  BY OverlaidYields
<1>3. PICK D \in SUBSET Dates : D = days \cup sus[s].days \cup drop
  BY <1>0
<1> DEFINE q == [op |-> "amend", dates |-> D, of |-> s, days |-> days,
                 drop |-> drop, over |-> over]
<1>4. /\ q \in Requests /\ q.op = "amend" /\ q.dates = D /\ q.of = s
      /\ q.days = days /\ q.drop = drop /\ q.over = over
  BY DEF Requests
<1>5. req' = [req EXCEPT ![t] = q]
  BY <1>1, <1>2, <1>3 DEF AmendBegin, BeginReq, Withdrawn
<1>6. Marks(s) \subseteq drop
  BY <1>1 DEF Marks
<1> HIDE DEF q
<1>7. StillRead(q)
  BY <1>0, <1>1, <1>2, <1>3, <1>4, <1>6 DEF StillRead, CellsRead, DutiesRead
<1> QED
  BY <1>4, <1>5, <1>7

\* The end of a suspension: the days it marked that are still ahead.
LEMMA LiftReads ==
    ASSUME BoardInv, NEW t \in Reqs, NEW s \in Suspensions, LiftBegin(t, s)
    PROVE  \E q \in Requests : req' = [req EXCEPT ![t] = q] /\ StillRead(q)
<1>0. /\ sus[s] # Blank /\ sus[s].days \in SUBSET Dates /\ today \in Nat
  BY DEF LiftBegin, BoardInv, BoardTypeOK, SuspensionRows
<1>1. PICK drop \in SUBSET Dates : drop = Ahead(s) /\ drop \subseteq TaggedBy(s)
  BY DEF Ahead, TaggedBy
<1>2. PICK D \in SUBSET Dates : D = sus[s].days \cup drop
  BY <1>0
<1> DEFINE q == [op |-> "lift", dates |-> D, of |-> s, at |-> today, drop |-> drop]
<1>3. /\ q \in Requests /\ q.op = "lift" /\ q.dates = D /\ q.of = s
      /\ q.at = today /\ q.drop = drop
  BY <1>0 DEF Requests
<1>4. req' = [req EXCEPT ![t] = q]
  BY <1>1, <1>2 DEF LiftBegin, BeginReq
<1>5. ASSUME s \notin mixed, NEW d \in Marks(s) \ mixed
      PROVE  d \in drop \/ d < today
  <2>1. d \in Dates /\ d \in TaggedBy(s) /\ ~duty[d].typed
    BY DEF Marks, TaggedBy
  <2>2. d \in sus[s].days
    BY <1>5, <2>1 DEF BoardInv, SuspensionsOwned
  <2>3. d \in Nat
    BY <2>1, ScheduleAssumption
  <2>4. CASE d >= today
    BY <1>1, <2>1, <2>2, <2>3, <2>4 DEF Ahead
  <2>5. CASE ~(d >= today)
    BY <1>0, <2>3, <2>5
  <2> QED
    BY <2>4, <2>5
<1> HIDE DEF q
<1>6. StillRead(q)
  BY <1>0, <1>1, <1>2, <1>3, <1>5 DEF StillRead, CellsRead, DutiesRead
<1> QED
  BY <1>3, <1>4, <1>6

-----------------------------------------------------------------------------
(* Writing the rows *)

\* The rows of S get a status.
Restated(c, S, s) == [n \in Slots |-> IF n \in S THEN [c[n] EXCEPT !.status = s] ELSE c[n]]

\* A cleanup cancels rows, and a publication publishes drafts: no more rows are in
\* force than before.
LEMMA RestatedRows ==
    ASSUME NEW c \in DayRows, NEW S \in SUBSET Slots, \A n \in S : c[n] # Blank,
           NEW s \in {"PUBLISHED", "CANCELLED"}, s = "PUBLISHED" => S \subseteq Live(c)
    PROVE  /\ Restated(c, S, s) \in DayRows
           /\ \A n \in Slots : c[n] # Blank => Restated(c, S, s)[n] # Blank
           /\ Live(Restated(c, S, s)) \subseteq Live(c)
           /\ s = "PUBLISHED" => Having(c, {"PUBLISHED"})
                                    \subseteq Having(Restated(c, S, s), {"PUBLISHED"})
<1> PICK e : e = Restated(c, S, s)
  OBVIOUS
<1>1. ASSUME NEW n \in S
      PROVE  e[n] \in Rows /\ e[n] # Blank /\ e[n].status = s
  <2>1. PICK r \in Rows : r = c[n]
    BY RowOf
  <2>2. e[n] = [r EXCEPT !.status = s]
    BY <2>1 DEF Restated
  <2>3. s \in {"DRAFT", "PUBLISHED", "CANCELLED"}
    OBVIOUS
  <2>4. [r EXCEPT !.status = s] \in Rows /\ [r EXCEPT !.status = s].status = s
    BY <2>3, RowEdited
  <2> QED
    BY <2>2, <2>4, BlankAssumption
<1>2. \A n \in Slots \ S : e[n] = c[n]
  BY DEF Restated
<1>3. e \in DayRows
  <2>1. e = [n \in Slots |-> e[n]]
    BY DEF Restated
  <2>2. \A n \in Slots : e[n] \in Rows \cup {Blank}
    BY <1>1, <1>2 DEF DayRows
  <2> QED
    BY <2>1, <2>2 DEF DayRows
<1>4. \A n \in Slots : c[n] # Blank => e[n] # Blank
  BY <1>1, <1>2
<1>5. Live(e) \subseteq Live(c)
  <2> SUFFICES ASSUME NEW n \in Live(e)
               PROVE  n \in Live(c)
    OBVIOUS
  <2>1. n \in Slots /\ e[n] # Blank /\ e[n].status \in {"DRAFT", "PUBLISHED"}
    BY DEF Live, Having
  <2>2. CASE n \in S
    BY <1>1, <2>1, <2>2
  <2>3. CASE n \notin S
    BY <1>2, <2>1, <2>3 DEF Live, Having
  <2> QED
    BY <2>2, <2>3
<1>6. ASSUME s = "PUBLISHED"
      PROVE  Having(c, {"PUBLISHED"}) \subseteq Having(e, {"PUBLISHED"})
  <2> SUFFICES ASSUME NEW n \in Having(c, {"PUBLISHED"})
               PROVE  n \in Having(e, {"PUBLISHED"})
    OBVIOUS
  <2>1. n \in Slots /\ c[n] # Blank /\ c[n].status = "PUBLISHED"
    BY DEF Having
  <2>2. e[n] # Blank /\ e[n].status = "PUBLISHED"
    BY <1>1, <1>2, <1>6, <2>1
  <2> QED
    BY <2>1, <2>2 DEF Having
<1> QED
  BY <1>3, <1>4, <1>5, <1>6

\* A pattern leaves one row in force where it found one, or none.
LEMMA PatternedRow ==
    ASSUME NEW c \in DayRows, NEW n \in Maybe, n # 0 => c[n] # Blank, NEW w \in Windows
    PROVE  /\ Patterned(c, n, w) \in DayRows
           /\ \A m \in Slots : c[m] # Blank => Patterned(c, n, w)[m] # Blank
           /\ Lone(c) /\ n = SomeRow(Live(c)) => Lone(Patterned(c, n, w))
<1> PICK left \in DayRows :
       /\ left = Cancelled(c, n)
       /\ Live(left) = Live(c) \ {n}
       /\ \A m \in Slots : c[m] # Blank => left[m] # Blank
  BY CancelledRow
<1> PICK match \in Maybe : match = Cleared(left, w)
  BY ClearedRow
<1> PICK e : e = Patterned(c, n, w)
  OBVIOUS
<1>1. e = IF match = 0 THEN Created(left, w) ELSE Revived(left, match, w, "DRAFT")
  BY DEF Patterned
<1>2. /\ e \in DayRows
      /\ \A m \in Slots : left[m] # Blank => e[m] # Blank
      /\ \E m \in Maybe : Live(e) \subseteq Live(left) \cup {m}
  <2>1. CASE match = 0
    <3>1. e = Created(left, w)
      BY <1>1, <2>1
    <3> QED
      BY <3>1, CreatedRow
  <2>2. CASE match # 0
    <3>1. e = Revived(left, match, w, "DRAFT")
      BY <1>1, <2>2
    <3> QED
      BY <3>1, RevivedRow
  <2> QED
    BY <2>1, <2>2
<1>3. ASSUME Lone(c), n = SomeRow(Live(c))
      PROVE  Lone(e)
  <2>1. Live(left) = {}
    BY <1>3, OnlyRow
  <2> QED
    BY <1>2, <2>1 DEF Lone
<1> QED
  BY <1>2, <1>3

\* A cell keeps one row in force where it found one, and publishes it if that one
\* was published.
LEMMA EditedRow ==
    ASSUME NEW c \in DayRows, NEW q \in Requests, q.op = "cell",
           q.on # 0 => c[q.on] # Blank, q.match # 0 => c[q.match] # Blank,
           q.want = "CLEAR" => q.on # 0
    PROVE  /\ Edited(c, q) \in DayRows
           /\ \A m \in Slots : c[m] # Blank => Edited(c, q)[m] # Blank
           /\ Lone(c) /\ q.on = SomeRow(Live(c)) => Lone(Edited(c, q))
           /\ /\ Lone(c) /\ q.on = SomeRow(Live(c)) /\ (q.on # 0 => c[q.on].status = q.was)
              /\ q.want # "CLEAR" /\ Having(c, {"PUBLISHED"}) # {}
              => Having(Edited(c, q), {"PUBLISHED"}) # {}
<1>0. /\ q.want \in Windows \cup {"CLEAR"} /\ q.on \in Maybe /\ q.match \in Maybe
      /\ q.was \in {"DRAFT", "PUBLISHED"}
  BY RequestFields
<1> PICK e : e = Edited(c, q)
  OBVIOUS
<1> PICK left \in DayRows :
       /\ left = Cancelled(c, q.on)
       /\ Live(left) = Live(c) \ {q.on}
       /\ \A m \in Slots : c[m] # Blank => left[m] # Blank
  BY <1>0, CancelledRow
<1>1. ASSUME Lone(c), q.on = SomeRow(Live(c))
      PROVE  /\ Live(left) = {}
             /\ q.on = 0 => Live(c) = {}
             /\ q.on # 0 => Live(c) = {q.on}
  BY <1>1, OnlyRow
<1>2. Having(c, {"PUBLISHED"}) \subseteq Live(c)
  BY DEF Having, Live
<1>3. CASE q.want = "CLEAR"
  <2>1. e = left
    BY <1>3 DEF Edited
  <2>2. Lone(c) /\ q.on = SomeRow(Live(c)) => Lone(e)
    BY <1>1, <2>1 DEF Lone
  <2> QED
    BY <1>3, <2>1, <2>2
<1>4. CASE q.want # "CLEAR" /\ q.match # 0
  <2>1. e = Revived(left, q.match, q.want, q.was)
    BY <1>4 DEF Edited, Restored
  <2>2. /\ e \in DayRows /\ Live(e) \subseteq Live(left) \cup {q.match}
        /\ q.match \in Having(e, {q.was})
        /\ \A m \in Slots : left[m] # Blank => e[m] # Blank
    <3>0. PICK w \in Windows, s \in {"DRAFT", "PUBLISHED"}, n \in Maybe :
             w = q.want /\ s = q.was /\ n = q.match
      BY <1>0, <1>4
    <3>1. e = Revived(left, n, w, s) /\ n # 0
      BY <1>4, <2>1, <3>0
    <3>2. /\ e \in DayRows /\ Live(e) \subseteq Live(left) \cup {n}
          /\ n \in Having(e, {s})
          /\ \A m \in Slots : left[m] # Blank => e[m] # Blank
      <4>1. /\ Revived(left, n, w, s) \in DayRows
            /\ Live(Revived(left, n, w, s)) \subseteq Live(left) \cup {n}
            /\ n # 0 => n \in Having(Revived(left, n, w, s), {s})
            /\ \A m \in Slots : left[m] # Blank => Revived(left, n, w, s)[m] # Blank
        <5>1. Revived(left, n, w, s) \in DayRows
          BY RevivedRow
        <5>2. Live(Revived(left, n, w, s)) \subseteq Live(left) \cup {n}
          BY RevivedRow
        <5>3. n # 0 => n \in Having(Revived(left, n, w, s), {s})
          BY RevivedRow
        <5>4. \A m \in Slots : left[m] # Blank => Revived(left, n, w, s)[m] # Blank
          BY RevivedRow
        <5> QED
          BY <5>1, <5>2, <5>3, <5>4
      <4> QED
        BY <3>1, <4>1
    <3> QED
      BY <3>0, <3>2
  <2>3. ASSUME Lone(c), q.on = SomeRow(Live(c))
        PROVE  Lone(e)
    <3>1. Live(e) \subseteq {q.match}
      BY <1>1, <2>2, <2>3
    <3> QED
      BY <3>1 DEF Lone
  <2>4. ASSUME Lone(c), q.on = SomeRow(Live(c)), q.on # 0 => c[q.on].status = q.was,
               Having(c, {"PUBLISHED"}) # {}
        PROVE  Having(e, {"PUBLISHED"}) # {}
    <3>1. q.on # 0 /\ Live(c) = {q.on}
      BY <1>1, <1>2, <2>4
    <3>2. q.on \in Having(c, {"PUBLISHED"})
      BY <1>2, <2>4, <3>1
    <3>3. q.was = "PUBLISHED"
      BY <2>4, <3>1, <3>2 DEF Having
    <3> QED
      BY <2>2, <3>3
  <2> QED
    BY <2>2, <2>3, <2>4
<1>5. CASE q.want # "CLEAR" /\ q.match = 0 /\ q.on # 0
  <2>1. q.on \in Slots /\ q.want \in Windows
    BY <1>0, <1>5 DEF Maybe
  <2>2. PICK r \in Rows : r = c[q.on]
    BY <1>5, <2>1, RowOf
  <2>3. PICK i \in Rows : i = [r EXCEPT !.win = q.want] /\ i.status = r.status
    <3>1. /\ [r EXCEPT !.win = q.want] \in Rows
          /\ [r EXCEPT !.win = q.want].status = r.status
      BY <2>1, RowEdited
    <3> QED
      BY <3>1
  <2>4. e = [c EXCEPT ![q.on] = i]
    <3>1. Edited(c, q) = [c EXCEPT ![q.on].win = q.want]
      BY <1>5 DEF Edited
    <3> QED
      BY <2>2, <2>3, <3>1
  <2>5. /\ e \in DayRows /\ e[q.on] = i /\ i # Blank
        /\ \A m \in Slots : m # q.on => e[m] = c[m]
    BY <2>1, <2>4, BlankAssumption DEF DayRows
  <2>6. \A s : Having(e, s) = Having(c, s)
    <3> SUFFICES ASSUME NEW s, NEW m \in Slots
                 PROVE  m \in Having(e, s) <=> m \in Having(c, s)
      BY DEF Having
    <3>1. CASE m = q.on
      BY <1>5, <2>2, <2>3, <2>5, <3>1 DEF Having
    <3>2. CASE m # q.on
      BY <2>5, <3>2 DEF Having
    <3> QED
      BY <3>1, <3>2
  <2>7. Lone(c) => Lone(e)
    BY <2>6 DEF Lone, Live
  <2>8. \A m \in Slots : c[m] # Blank => e[m] # Blank
    BY <2>5
  <2> QED
    BY <2>5, <2>6, <2>7, <2>8
<1>6. CASE q.want # "CLEAR" /\ q.match = 0 /\ q.on = 0
  <2>1. e = Created(c, q.want)
    BY <1>6 DEF Edited
  <2>2. /\ e \in DayRows /\ \E n \in Maybe : Live(e) \subseteq Live(c) \cup {n}
        /\ \A m \in Slots : c[m] # Blank => e[m] # Blank
    BY <1>0, <1>6, <2>1, CreatedRow
  <2>3. ASSUME Lone(c), q.on = SomeRow(Live(c))
        PROVE  Live(c) = {}
    BY <1>1, <1>6, <2>3
  <2>4. Lone(c) /\ q.on = SomeRow(Live(c)) => Lone(e)
    BY <2>2, <2>3 DEF Lone
  <2> QED
    BY <1>2, <2>2, <2>3, <2>4
<1> QED
  BY <1>3, <1>4, <1>5, <1>6

\* A template writes rows on the days it found free.
LEMMA GenerateWrites ==
    ASSUME BoardInv, BoardNote, NEW t \in Reqs, Generate(t)
    PROVE  BoardInv'
<1>1. PICK q \in Requests : q = req[t] /\ q.op = "generate" /\ StillRead(q)
  BY BoardTypes DEF Generate, Handling
<1>2. /\ q.dates \subseteq Dates
      /\ \A d \in q.dates : Pattern[d] \in Windows
      /\ \A d \in q.dates \ mixed : Live(cell[d]) = {}
  <2>1. q.dates \subseteq Dates /\ \A d \in q.dates : Pattern[d] # Blank
    BY <1>1, RequestFields DEF StillRead, CellsRead
  <2>2. \A d \in q.dates \ mixed : Live(cell[d]) = {}
    BY <1>1 DEF StillRead, CellsRead
  <2> QED
    BY <2>1, <2>2, ScheduleAssumption DEF Windows
<1>3. /\ cell' = [d \in Dates |-> cell'[d]]
      /\ \A d \in Dates : \/ cell'[d] = cell[d]
                          \/ d \in q.dates /\ cell'[d] = Created(cell[d], Pattern[d])
  BY <1>1 DEF Generate
<1>4. ASSUME NEW d \in Dates
      PROVE  /\ cell'[d] \in DayRows
             /\ \A n \in Slots : cell[d][n] # Blank => cell'[d][n] # Blank
             /\ d \notin mixed => Lone(cell'[d])
  <2>0. cell[d] \in DayRows /\ (d \notin mixed => Lone(cell[d]))
    BY BoardTypes DEF BoardInv
  <2>1. CASE cell'[d] = cell[d]
    BY <2>0, <2>1
  <2>2. CASE d \in q.dates /\ cell'[d] = Created(cell[d], Pattern[d])
    <3>1. Pattern[d] \in Windows
      BY <1>2, <2>2
    <3>2. /\ Created(cell[d], Pattern[d]) \in DayRows
          /\ \A m \in Slots : cell[d][m] # Blank => Created(cell[d], Pattern[d])[m] # Blank
      BY <2>0, <3>1, CreatedRow
    <3>3. PICK n \in Maybe : Live(Created(cell[d], Pattern[d])) \subseteq Live(cell[d]) \cup {n}
      BY <2>0, <3>1, CreatedRow
    <3>4. d \notin mixed => Lone(cell'[d])
      BY <1>2, <2>2, <3>3 DEF Lone
    <3> QED
      BY <2>2, <3>2, <3>4
  <2> QED
    BY <1>3, <2>1, <2>2
<1>5. cell' \in [Dates -> DayRows]
  BY <1>3, <1>4
<1>6. /\ UNCHANGED <<duty, sus>> /\ today' \in Nat
      /\ req' = [req EXCEPT ![t] = Blank]
  BY DEF Generate, EndReq, BoardInv, BoardTypeOK
<1> QED
  BY <1>4, <1>5, <1>6, DutiesAlone

\* A pattern writes the row of each day over the draft it found.
LEMMA PatternWrites ==
    ASSUME BoardInv, BoardNote, NEW t \in Reqs, ApplyPattern(t)
    PROVE  BoardInv'
<1>1. PICK q \in Requests : q = req[t] /\ q.op = "pattern" /\ StillRead(q)
  BY BoardTypes DEF ApplyPattern, Handling
<1>2. /\ q.dates \subseteq Dates /\ q.on \in [Dates -> Maybe]
      /\ \A d \in q.dates : Pattern[d] # Blank /\ (q.on[d] # 0 => cell[d][q.on[d]] # Blank)
      /\ \A d \in q.dates \ mixed : q.on[d] = SomeRow(Live(cell[d]))
  BY <1>1, RequestFields DEF StillRead, CellsRead
<1>3. /\ cell' = [d \in Dates |-> cell'[d]]
      /\ \A d \in Dates :
            \/ cell'[d] = cell[d]
            \/ d \in q.dates /\ cell'[d] = Patterned(cell[d], q.on[d], Pattern[d])
  BY <1>1 DEF ApplyPattern
<1>4. ASSUME NEW d \in Dates
      PROVE  /\ cell'[d] \in DayRows
             /\ \A n \in Slots : cell[d][n] # Blank => cell'[d][n] # Blank
             /\ d \notin mixed => Lone(cell'[d])
  <2>0. cell[d] \in DayRows /\ (d \notin mixed => Lone(cell[d]))
    BY BoardTypes DEF BoardInv
  <2>1. CASE cell'[d] = cell[d]
    BY <2>0, <2>1
  <2>2. CASE d \in q.dates /\ cell'[d] = Patterned(cell[d], q.on[d], Pattern[d])
    <3>1. PICK w \in Windows : w = Pattern[d]
      BY <1>2, <2>2, ScheduleAssumption DEF Windows
    <3>2. PICK n \in Maybe : n = q.on[d]
      BY <1>2
    <3>3. n # 0 => cell[d][n] # Blank
      BY <1>2, <2>2, <3>2
    <3>4. PICK c \in DayRows : c = cell[d]
      BY <2>0
    <3>5. n # 0 => c[n] # Blank
      BY <3>3, <3>4
    <3>6. /\ Patterned(c, n, w) \in DayRows
          /\ \A m \in Slots : c[m] # Blank => Patterned(c, n, w)[m] # Blank
          /\ Lone(c) /\ n = SomeRow(Live(c)) => Lone(Patterned(c, n, w))
      BY <3>1, <3>2, <3>4, <3>5, PatternedRow
    <3>7. cell'[d] = Patterned(c, n, w)
      BY <2>2, <3>1, <3>2, <3>4
    <3>8. d \notin mixed => n = SomeRow(Live(c))
      BY <1>2, <2>2, <3>2, <3>4
    <3> QED
      BY <2>0, <3>4, <3>6, <3>7, <3>8
  <2> QED
    BY <1>3, <2>1, <2>2
<1>5. cell' \in [Dates -> DayRows]
  BY <1>3, <1>4
<1>6. /\ UNCHANGED <<duty, sus>> /\ today' \in Nat
      /\ req' = [req EXCEPT ![t] = Blank]
  BY DEF ApplyPattern, EndReq, BoardInv, BoardTypeOK
<1> QED
  BY <1>4, <1>5, <1>6, DutiesAlone

\* A cleanup cancels rows.
LEMMA TidyWrites ==
    ASSUME BoardInv, BoardNote, NEW t \in Reqs, Tidy(t)
    PROVE  BoardInv'
<1>1. PICK q \in Requests : q = req[t] /\ q.op = "tidy" /\ StillRead(q)
  BY BoardTypes DEF Tidy, Handling
<1>2. /\ q.drafts \in [Dates -> SUBSET Slots]
      /\ \A d \in Dates : \A n \in q.drafts[d] : cell[d][n] # Blank
  BY <1>1, RequestFields DEF StillRead, CellsRead
<1>3. /\ cell' = [d \in Dates |-> cell'[d]]
      /\ \A d \in Dates : cell'[d] = Restated(cell[d], q.drafts[d], "CANCELLED")
  BY <1>1 DEF Tidy, Restated
<1>4. ASSUME NEW d \in Dates
      PROVE  /\ cell'[d] \in DayRows
             /\ \A n \in Slots : cell[d][n] # Blank => cell'[d][n] # Blank
             /\ d \notin mixed => Lone(cell'[d])
  <2>0. cell[d] \in DayRows /\ (d \notin mixed => Lone(cell[d]))
    BY BoardTypes DEF BoardInv
  <2>1. PICK S \in SUBSET Slots : S = q.drafts[d] /\ \A n \in S : cell[d][n] # Blank
    BY <1>2
  <2>2. PICK c \in DayRows : c = cell[d]
    BY <2>0
  <2>3. \A n \in S : c[n] # Blank
    BY <2>1, <2>2
  <2>4. /\ Restated(c, S, "CANCELLED") \in DayRows
        /\ \A n \in Slots : c[n] # Blank => Restated(c, S, "CANCELLED")[n] # Blank
        /\ Live(Restated(c, S, "CANCELLED")) \subseteq Live(c)
    BY <2>1, <2>2, <2>3, RestatedRows
  <2>5. cell'[d] = Restated(c, S, "CANCELLED")
    BY <1>3, <2>1, <2>2
  <2> QED
    BY <2>0, <2>2, <2>4, <2>5 DEF Lone
<1>5. cell' \in [Dates -> DayRows]
  BY <1>3, <1>4
<1>6. /\ UNCHANGED <<duty, sus>> /\ today' \in Nat
      /\ req' = [req EXCEPT ![t] = Blank]
  BY DEF Tidy, EndReq, BoardInv, BoardTypeOK
<1> QED
  BY <1>4, <1>5, <1>6, DutiesAlone

\* What a publication does to a day.
LEMMA PublishedRows ==
    ASSUME BoardInv, NEW range \in SUBSET Dates, Publish(range), NEW d \in Dates
    PROVE  /\ cell'[d] \in DayRows
           /\ \A n \in Slots : cell[d][n] # Blank => cell'[d][n] # Blank
           /\ Live(cell'[d]) \subseteq Live(cell[d])
           /\ Having(cell[d], {"PUBLISHED"}) \subseteq Having(cell'[d], {"PUBLISHED"})
<1>1. PICK c \in DayRows : c = cell[d]
  BY BoardTypes
<1>2. PICK S \in SUBSET Slots : S = IF d \in range THEN Having(c, {"DRAFT"}) ELSE {}
  BY DEF Having
<1>3. S \subseteq Live(c) /\ \A n \in S : c[n] # Blank
  BY <1>2 DEF Having, Live
<1>4. cell'[d] = Restated(c, S, "PUBLISHED")
  BY <1>1, <1>2 DEF Publish, Restated
<1>5. /\ Restated(c, S, "PUBLISHED") \in DayRows
      /\ \A n \in Slots : c[n] # Blank => Restated(c, S, "PUBLISHED")[n] # Blank
      /\ Live(Restated(c, S, "PUBLISHED")) \subseteq Live(c)
      /\ Having(c, {"PUBLISHED"}) \subseteq Having(Restated(c, S, "PUBLISHED"), {"PUBLISHED"})
  BY <1>1, <1>2, <1>3, RestatedRows
<1> QED
  BY <1>1, <1>4, <1>5

\* A publication puts no more rows in force.
LEMMA PublishWrites ==
    ASSUME BoardInv, BoardNote, NEW range \in SUBSET Dates, Publish(range)
    PROVE  BoardInv'
<1>1. \A d \in Dates : /\ cell'[d] \in DayRows
                       /\ \A n \in Slots : cell[d][n] # Blank => cell'[d][n] # Blank
                       /\ d \notin mixed => Lone(cell'[d])
  BY PublishedRows DEF BoardInv, Lone
<1>2. cell' \in [Dates -> DayRows]
  BY <1>1 DEF Publish
<1>3. UNCHANGED <<duty, sus, req>> /\ today' \in Nat
  BY DEF Publish, BoardInv, BoardTypeOK
<1> QED
  BY <1>1, <1>2, <1>3, DutiesAlone

\* What a cell does to its day.
LEMMA CellEdited ==
    ASSUME BoardInv, NEW t \in Reqs, SetCell(t)
    PROVE  \E q \in Requests, e \in Dates :
              /\ q = req[t] /\ q.op = "cell" /\ StillRead(q) /\ q.dates = {e}
              /\ cell' = [cell EXCEPT ![e] = Edited(cell[e], q)]
              /\ Edited(cell[e], q) \in DayRows
              /\ \A n \in Slots : cell[e][n] # Blank => Edited(cell[e], q)[n] # Blank
              /\ e \notin mixed => Lone(Edited(cell[e], q))
              /\ e \notin mixed /\ q.want # "CLEAR" /\ Having(cell[e], {"PUBLISHED"}) # {}
                    => Having(Edited(cell[e], q), {"PUBLISHED"}) # {}
<1>1. PICK q \in Requests : q = req[t] /\ q.op = "cell" /\ StillRead(q)
  BY BoardTypes DEF SetCell, Handling
<1>2. PICK e \in Dates : q.dates = {e}
  BY <1>1 DEF StillRead, CellsRead
<1>3. cell' = [cell EXCEPT ![e] = Edited(cell[e], q)]
  BY <1>1, <1>2 DEF SetCell
<1>4. PICK c \in DayRows : c = cell[e]
  BY BoardTypes
<1>5. /\ q.on # 0 => c[q.on] # Blank
      /\ q.match # 0 => c[q.match] # Blank
      /\ q.want = "CLEAR" => q.on # 0
      /\ e \notin mixed => /\ Lone(c) /\ q.on = SomeRow(Live(c))
                           /\ q.on # 0 => c[q.on].status = q.was
  BY <1>1, <1>2, <1>4 DEF StillRead, CellsRead, BoardInv
<1>6. /\ Edited(c, q) \in DayRows
      /\ \A m \in Slots : c[m] # Blank => Edited(c, q)[m] # Blank
      /\ Lone(c) /\ q.on = SomeRow(Live(c)) => Lone(Edited(c, q))
      /\ /\ Lone(c) /\ q.on = SomeRow(Live(c)) /\ (q.on # 0 => c[q.on].status = q.was)
         /\ q.want # "CLEAR" /\ Having(c, {"PUBLISHED"}) # {}
         => Having(Edited(c, q), {"PUBLISHED"}) # {}
  BY <1>1, <1>4, <1>5, EditedRow
<1> QED
  BY <1>1, <1>2, <1>3, <1>4, <1>5, <1>6

\* A cell changes one day, and leaves one row in force there.
LEMMA CellWrites ==
    ASSUME BoardInv, BoardNote, NEW t \in Reqs, SetCell(t)
    PROVE  BoardInv'
<1>1. PICK q \in Requests, e \in Dates :
         /\ cell' = [cell EXCEPT ![e] = Edited(cell[e], q)]
         /\ Edited(cell[e], q) \in DayRows
         /\ \A n \in Slots : cell[e][n] # Blank => Edited(cell[e], q)[n] # Blank
         /\ e \notin mixed => Lone(Edited(cell[e], q))
  BY CellEdited
<1>2. PICK c \in DayRows : c = Edited(cell[e], q)
  BY <1>1
<1>3. cell \in [Dates -> DayRows] /\ \A d \in Dates \ mixed : Lone(cell[d])
  BY DEF BoardInv, BoardTypeOK, DayRows
<1>4. /\ cell' \in [Dates -> DayRows] /\ cell'[e] = c
      /\ \A d \in Dates : d # e => cell'[d] = cell[d]
  BY <1>1, <1>2, <1>3
<1>5. ASSUME NEW d \in Dates
      PROVE  /\ \A n \in Slots : cell[d][n] # Blank => cell'[d][n] # Blank
             /\ d \notin mixed => Lone(cell'[d])
  BY <1>1, <1>2, <1>3, <1>4
<1>6. /\ UNCHANGED <<duty, sus>> /\ today' \in Nat
      /\ req' = [req EXCEPT ![t] = Blank]
  BY DEF SetCell, EndReq, BoardInv, BoardTypeOK
<1> QED
  BY <1>4, <1>5, <1>6, DutiesAlone

-----------------------------------------------------------------------------
(* Writing attendance and suspensions *)

\* A review marks no day for a suspension.
LEMMA ReviewWrites ==
    ASSUME BoardInv, BoardNote, NEW t \in Reqs, Review(t)
    PROVE  BoardInv'
<1>1. PICK q \in Requests : q = req[t] /\ q.op = "review" /\ StillRead(q)
  BY BoardTypes DEF Review, Handling
<1>2. PICK a \in Duties : a = q.duty /\ a.typed /\ a # Blank
  <2>1. q.duty \in Duties /\ q.duty.typed
    BY <1>1, RequestFields DEF StillRead, DutiesRead
  <2> QED
    BY <2>1, BlankAssumption
<1>3. /\ duty' = [d \in Dates |-> IF d \in q.dates THEN a ELSE duty[d]]
      /\ UNCHANGED <<cell, sus, today>> /\ req' = [req EXCEPT ![t] = Blank]
  BY <1>1, <1>2 DEF Review, EndReq
<1>4. duty' \in [Dates -> Duties \cup {Blank}]
  BY <1>2, <1>3 DEF BoardInv, BoardTypeOK
<1>5. \A d \in Dates : duty'[d] # Blank /\ ~duty'[d].typed => duty'[d] = duty[d]
  BY <1>2, <1>3
<1>6. BoardFrame({})
  <2>1. \A s \in Suspensions : Marks(s)' \subseteq Marks(s)
    BY <1>5 DEF Marks, TaggedBy
  <2> QED
    BY <1>3, <2>1 DEF BoardFrame
<1>7. mixed \subseteq mixed' => SuspensionsOwned'
  <2> SUFFICES ASSUME mixed \subseteq mixed', NEW d \in Dates \ mixed',
                      NEW s \in Suspensions \ mixed',
                      d \in TaggedBy(s)', ~duty'[d].typed
               PROVE  /\ sus'[s] # Blank /\ d \in sus'[s].days
                      /\ sus'[s].lifted = 0 \/ d < sus'[s].lifted
    BY DEF SuspensionsOwned
  <2>1. d \in TaggedBy(s) /\ ~duty[d].typed
    BY <1>5 DEF TaggedBy
  <2> QED
    BY <1>3, <2>1 DEF BoardInv, SuspensionsOwned
<1>8. sus' \in [Suspensions -> SuspensionRows \cup {Blank}]
  BY <1>3 DEF BoardInv, BoardTypeOK
<1> QED
  BY <1>3, <1>4, <1>6, <1>7, <1>8, CellsAlone

\* What the overlay of a suspension writes.
LEMMA OverlayParts ==
    ASSUME BoardInv, NEW t \in Reqs, Overlay(t)
    PROVE  \E q \in Requests, a \in Duties, r \in SuspensionRows :
              /\ q = req[t] /\ q.op \in {"suspend", "amend"} /\ StillRead(q)
              /\ q.of \in Suspensions
              /\ q.op = "suspend" => sus[q.of] = Blank
              /\ a # Blank /\ a.result = "SUSPENDED" /\ a.tag = q.of /\ ~a.typed
              /\ duty' = [d \in Dates |-> IF d \in q.over THEN a
                                          ELSE IF d \in q.drop THEN Blank ELSE duty[d]]
              /\ r # Blank /\ r.days = q.days
              /\ r.lifted = IF sus[q.of] = Blank THEN 0 ELSE sus[q.of].lifted
              /\ sus' = [sus EXCEPT ![q.of] = r]
<1>1. PICK q \in Requests : q = req[t] /\ q.op \in {"suspend", "amend"} /\ StillRead(q)
  BY BoardTypes DEF Overlay, Handling
<1>2. q.of \in Suspensions /\ q.days \in SUBSET Dates /\ (q.op = "suspend" => sus[q.of] = Blank)
  BY <1>1, RequestFields DEF Overlay, Handling
<1>3. PICK a \in Duties :
         /\ a = [result |-> "SUSPENDED", tag |-> q.of, typed |-> FALSE]
         /\ a # Blank /\ a.result = "SUSPENDED" /\ a.tag = q.of /\ ~a.typed
  <2> DEFINE e == [result |-> "SUSPENDED", tag |-> q.of, typed |-> FALSE]
  <2>1. e \in Duties /\ e.result = "SUSPENDED" /\ e.tag = q.of /\ ~e.typed
    BY <1>2 DEF Duties
  <2> QED
    BY <2>1, BlankAssumption
<1>4. PICK n \in Nat : n = IF sus[q.of] = Blank THEN 0 ELSE sus[q.of].lifted
  BY <1>2 DEF BoardInv, BoardTypeOK, SuspensionRows
<1>5. PICK r \in SuspensionRows :
         r = [days |-> q.days, lifted |-> n] /\ r # Blank /\ r.days = q.days /\ r.lifted = n
  <2> DEFINE e == [days |-> q.days, lifted |-> n]
  <2>1. e \in SuspensionRows /\ e.days = q.days /\ e.lifted = n
    BY <1>2 DEF SuspensionRows
  <2> QED
    BY <2>1, BlankAssumption
<1>6. /\ duty' = [d \in Dates |-> IF d \in q.over THEN a
                                  ELSE IF d \in q.drop THEN Blank ELSE duty[d]]
      /\ sus' = [sus EXCEPT ![q.of] = r]
  BY <1>1, <1>3, <1>4, <1>5 DEF Overlay
<1> QED
  BY <1>1, <1>2, <1>3, <1>4, <1>5, <1>6

\* A suspension, or an edit, marks days it covers and leaves none it does not.
LEMMA OverlayWrites ==
    ASSUME BoardInv, BoardNote, NEW t \in Reqs, Overlay(t)
    PROVE  BoardInv'
<1>1. PICK q \in Requests, a \in Duties, r \in SuspensionRows :
         /\ q = req[t] /\ q.op \in {"suspend", "amend"} /\ StillRead(q)
         /\ q.of \in Suspensions
         /\ q.op = "suspend" => sus[q.of] = Blank
         /\ a # Blank /\ a.result = "SUSPENDED" /\ a.tag = q.of /\ ~a.typed
         /\ duty' = [d \in Dates |-> IF d \in q.over THEN a
                                     ELSE IF d \in q.drop THEN Blank ELSE duty[d]]
         /\ r # Blank /\ r.days = q.days
         /\ r.lifted = IF sus[q.of] = Blank THEN 0 ELSE sus[q.of].lifted
         /\ sus' = [sus EXCEPT ![q.of] = r]
  BY OverlayParts
<1>2. /\ UNCHANGED <<cell, today>> /\ req' = [req EXCEPT ![t] = Blank]
      /\ sus \in [Suspensions -> SuspensionRows \cup {Blank}]
      /\ duty \in [Dates -> Duties \cup {Blank}]
  BY DEF Overlay, EndReq, BoardInv, BoardTypeOK
<1>3. duty' \in [Dates -> Duties \cup {Blank}]
  BY <1>1, <1>2
<1>4. /\ sus' \in [Suspensions -> SuspensionRows \cup {Blank}] /\ sus'[q.of] = r
      /\ \A s \in Suspensions : s # q.of => sus'[s] = sus[s]
  BY <1>1, <1>2
<1>5. \A d \in Dates : \/ d \in q.over /\ duty'[d] = a
                       \/ d \notin q.over /\ duty'[d] = Blank
                       \/ d \notin q.over /\ d \notin q.drop /\ duty'[d] = duty[d]
  BY <1>1
<1>6. BoardFrame({q.of})
  <2>1. ASSUME NEW s \in Suspensions \ {q.of}, NEW d \in Marks(s)'
        PROVE  d \in Marks(s)
    <3>1. d \in Dates /\ duty'[d] # Blank /\ duty'[d].tag = s
      BY <2>1 DEF Marks, TaggedBy
    <3>2. duty'[d] = duty[d]
      BY <1>1, <1>5, <3>1
    <3> QED
      BY <2>1, <3>2 DEF Marks, TaggedBy
  <2>2. \A s \in Suspensions : sus[s] # Blank => sus'[s] # Blank
    BY <1>1, <1>4
  <2> QED
    BY <1>2, <2>1, <2>2 DEF BoardFrame
<1>7. {q.of} \subseteq InHand(t)
  <2>1. InHand(t) = Hand(q)
    BY <1>1, HandOf DEF BoardInv, BoardTypeOK
  <2> QED
    BY <1>1, <2>1 DEF Hand
<1>8. mixed \subseteq mixed' => SuspensionsOwned'
  <2> SUFFICES ASSUME mixed \subseteq mixed', NEW d \in Dates \ mixed',
                      NEW s \in Suspensions \ mixed',
                      d \in TaggedBy(s)', ~duty'[d].typed
               PROVE  /\ sus'[s] # Blank /\ d \in sus'[s].days
                      /\ sus'[s].lifted = 0 \/ d < sus'[s].lifted
    BY DEF SuspensionsOwned
  <2>1. duty'[d] # Blank /\ duty'[d].tag = s
    BY DEF TaggedBy
  <2>2. CASE d \in q.over
    <3>1. s = q.of
      BY <1>1, <1>5, <2>1, <2>2
    <3>2. d \in q.days
      BY <1>1, <2>2 DEF StillRead, DutiesRead
    <3>3. r.lifted = 0
      <4>1. CASE q.op = "suspend"
        BY <1>1, <4>1
      <4>2. CASE q.op = "amend"
        BY <1>1, <3>1, <4>2 DEF StillRead, DutiesRead
      <4> QED
        BY <1>1, <4>1, <4>2
    <3> QED
      BY <1>1, <1>4, <3>1, <3>2, <3>3
  <2>3. CASE d \notin q.over
    <3>1. duty'[d] = duty[d] /\ d \notin q.drop
      BY <1>5, <2>1, <2>3
    <3>2. d \in TaggedBy(s) /\ ~duty[d].typed /\ d \in Marks(s)
      BY <3>1 DEF TaggedBy, Marks
    <3>3. /\ sus[s] # Blank /\ d \in sus[s].days
          /\ sus[s].lifted = 0 \/ d < sus[s].lifted
      BY <3>2 DEF BoardInv, SuspensionsOwned
    <3>4. s # q.of
      <4>1. CASE q.op = "suspend"
        BY <1>1, <3>3, <4>1
      <4>2. CASE q.op = "amend"
        BY <1>1, <3>1, <3>2, <4>2 DEF StillRead, DutiesRead
      <4> QED
        BY <1>1, <4>1, <4>2
    <3> QED
      BY <1>4, <3>3, <3>4
  <2> QED
    BY <2>2, <2>3
<1> QED
  BY <1>2, <1>3, <1>4, <1>6, <1>7, <1>8, CellsAlone

\* A lift leaves the days the suspension marked before it.
LEMMA LiftWrites ==
    ASSUME BoardInv, BoardNote, NEW t \in Reqs, Lift(t)
    PROVE  BoardInv'
<1>1. PICK q \in Requests : q = req[t] /\ q.op = "lift" /\ StillRead(q)
  BY BoardTypes DEF Lift, Handling
<1>2. q.of \in Suspensions /\ q.at \in Nat /\ sus[q.of] # Blank
  BY <1>1, RequestFields DEF StillRead, DutiesRead
<1>3. /\ UNCHANGED <<cell, today>> /\ req' = [req EXCEPT ![t] = Blank]
      /\ sus \in [Suspensions -> SuspensionRows \cup {Blank}]
      /\ duty \in [Dates -> Duties \cup {Blank}]
  BY DEF Lift, EndReq, BoardInv, BoardTypeOK
<1>4. PICK r \in SuspensionRows : /\ r = [sus[q.of] EXCEPT !.lifted = q.at]
                                  /\ r # Blank /\ r.lifted = q.at /\ r.days = sus[q.of].days
  <2>1. PICK o \in SuspensionRows : o = sus[q.of]
    BY <1>2, <1>3
  <2> DEFINE e == [o EXCEPT !.lifted = q.at]
  <2>2. e \in SuspensionRows /\ e.lifted = q.at /\ e.days = o.days
    BY <1>2 DEF SuspensionRows
  <2> QED
    BY <2>1, <2>2, BlankAssumption
<1>5. /\ duty' = [d \in Dates |-> IF d \in q.drop THEN Blank ELSE duty[d]]
      /\ sus' = [sus EXCEPT ![q.of] = r]
  BY <1>1, <1>4 DEF Lift
<1>6. /\ sus' \in [Suspensions -> SuspensionRows \cup {Blank}] /\ sus'[q.of] = r
      /\ \A s \in Suspensions : s # q.of => sus'[s] = sus[s]
  BY <1>2, <1>3, <1>5
<1>7. /\ duty' \in [Dates -> Duties \cup {Blank}]
      /\ \A d \in Dates : duty'[d] # Blank => duty'[d] = duty[d] /\ d \notin q.drop
  BY <1>3, <1>5
<1>8. BoardFrame({})
  <2>1. \A s \in Suspensions : Marks(s)' \subseteq Marks(s)
    BY <1>7 DEF Marks, TaggedBy
  <2>2. \A s \in Suspensions : sus[s] # Blank => sus'[s] # Blank
    BY <1>4, <1>6
  <2> QED
    BY <1>3, <2>1, <2>2 DEF BoardFrame
<1>9. mixed \subseteq mixed' => SuspensionsOwned'
  <2> SUFFICES ASSUME mixed \subseteq mixed', NEW d \in Dates \ mixed',
                      NEW s \in Suspensions \ mixed',
                      d \in TaggedBy(s)', ~duty'[d].typed
               PROVE  /\ sus'[s] # Blank /\ d \in sus'[s].days
                      /\ sus'[s].lifted = 0 \/ d < sus'[s].lifted
    BY DEF SuspensionsOwned
  <2>1. duty'[d] = duty[d] /\ d \notin q.drop
    BY <1>7 DEF TaggedBy
  <2>2. d \in TaggedBy(s) /\ ~duty[d].typed /\ d \in Marks(s)
    BY <2>1 DEF TaggedBy, Marks
  <2>3. /\ sus[s] # Blank /\ d \in sus[s].days
        /\ sus[s].lifted = 0 \/ d < sus[s].lifted
    BY <2>2 DEF BoardInv, SuspensionsOwned
  <2>4. CASE s # q.of
    BY <1>6, <2>3, <2>4
  <2>5. CASE s = q.of
    <3>1. d < q.at
      BY <1>1, <2>1, <2>2, <2>5 DEF StillRead, DutiesRead
    <3> QED
      BY <1>4, <1>6, <2>3, <2>5, <3>1
  <2> QED
    BY <2>4, <2>5
<1> QED
  BY <1>3, <1>6, <1>7, <1>8, <1>9, CellsAlone

-----------------------------------------------------------------------------
(* Every step *)

\* Each request reads the board as it is.
LEMMA BeginsKeep ==
    ASSUME BoardInv, BoardNote, NEW t \in Reqs,
           \/ GenerateBegin(t)
           \/ \E range \in SUBSET Dates : PatternBegin(t, range) \/ TidyBegin(t, range)
           \/ \E d \in Dates : \E want \in Wanted[d] : CellBegin(t, d, want)
           \/ \E d \in Dates, result \in Results, keep \in BOOLEAN :
                 ReviewBegin(t, d, result, keep)
           \/ \E s \in Suspensions, days \in SUBSET Dates :
                 SuspendBegin(t, s, days) \/ AmendBegin(t, s, days)
           \/ \E s \in Suspensions : LiftBegin(t, s)
    PROVE  BoardInv'
<1>1. UNCHANGED <<cell, duty, sus, today>>
  BY DEF GenerateBegin, PatternBegin, TidyBegin, CellBegin, ReviewBegin, SuspendBegin,
         AmendBegin, LiftBegin
<1>2. \E q \in Requests : req' = [req EXCEPT ![t] = q] /\ StillRead(q)
  <2>1. CASE GenerateBegin(t)
    BY <2>1, GenerateReads
  <2>2. ASSUME NEW range \in SUBSET Dates, PatternBegin(t, range)
        PROVE  \E q \in Requests : req' = [req EXCEPT ![t] = q] /\ StillRead(q)
    BY <2>2, PatternReads
  <2>3. ASSUME NEW range \in SUBSET Dates, TidyBegin(t, range)
        PROVE  \E q \in Requests : req' = [req EXCEPT ![t] = q] /\ StillRead(q)
    BY <2>3, TidyReads
  <2>4. ASSUME NEW d \in Dates, NEW want \in Wanted[d], CellBegin(t, d, want)
        PROVE  \E q \in Requests : req' = [req EXCEPT ![t] = q] /\ StillRead(q)
    BY <2>4, CellReads
  <2>5. ASSUME NEW d \in Dates, NEW result \in Results, NEW keep \in BOOLEAN,
               ReviewBegin(t, d, result, keep)
        PROVE  \E q \in Requests : req' = [req EXCEPT ![t] = q] /\ StillRead(q)
    BY <2>5, ReviewReads
  <2>6. ASSUME NEW s \in Suspensions, NEW days \in SUBSET Dates, SuspendBegin(t, s, days)
        PROVE  \E q \in Requests : req' = [req EXCEPT ![t] = q] /\ StillRead(q)
    BY <2>6, SuspendReads
  <2>7. ASSUME NEW s \in Suspensions, NEW days \in SUBSET Dates, AmendBegin(t, s, days)
        PROVE  \E q \in Requests : req' = [req EXCEPT ![t] = q] /\ StillRead(q)
    BY <2>7, AmendReads
  <2>8. ASSUME NEW s \in Suspensions, LiftBegin(t, s)
        PROVE  \E q \in Requests : req' = [req EXCEPT ![t] = q] /\ StillRead(q)
    BY <2>8, LiftReads
  <2> QED
    BY <2>1, <2>2, <2>3, <2>4, <2>5, <2>6, <2>7, <2>8
<1>3. today' \in Nat
  BY <1>1 DEF BoardInv, BoardTypeOK
<1> QED
  BY <1>1, <1>2, <1>3, RowsAlone

\* The board at the start, empty.
LEMMA BoardStarts == BoardInit => BoardInv
<1> SUFFICES ASSUME BoardInit PROVE BoardInv
  OBVIOUS
<1>1. BoardTypeOK
  BY DEF BoardInit, BoardTypeOK
<1>2. BoardApart
  BY DEF BoardInit, BoardApart, InHand
<1>3. \A t \in Reqs, q \in Requests : req[t] = q => StillRead(q)
  <2>1. \A t \in Reqs : req[t] = Blank
    BY DEF BoardInit
  <2> QED
    BY <2>1, BlankAssumption
<1>4. \A d \in Dates : Lone(cell[d])
  BY DEF BoardInit, Lone, Live, Having
<1>5. SuspensionsOwned
  BY DEF BoardInit, SuspensionsOwned, TaggedBy
<1> QED
  BY <1>1, <1>2, <1>3, <1>4, <1>5 DEF BoardInv

\* Every step keeps the invariant.
LEMMA BoardKept == BoardInv /\ [BoardNext]_boardVars => BoardInv'
<1> SUFFICES ASSUME BoardInv, [BoardNext]_boardVars
             PROVE  BoardInv'
  OBVIOUS
<1>0. \A range \in Ranges : range \in SUBSET Dates
  BY DEF Ranges
<1>1. CASE UNCHANGED boardVars
  <2>1. UNCHANGED cell /\ UNCHANGED duty /\ UNCHANGED sus /\ UNCHANGED today
        /\ UNCHANGED req /\ UNCHANGED mixed
    BY <1>1 DEF boardVars
  <2>2. BoardTypeOK'
    BY <2>1 DEF BoardInv, BoardTypeOK
  <2>3. BoardApart'
    BY <2>1 DEF BoardInv, BoardApart, InHand
  <2>4. ASSUME NEW t \in Reqs, NEW q \in Requests, req'[t] = q
        PROVE  StillRead(q)'
    <3>1. StillRead(q)
      BY <2>1, <2>4 DEF BoardInv
    <3>2. CellsRead(q)'
      BY <2>1, <3>1 DEF StillRead, CellsRead
    <3>3. DutiesRead(q)'
      BY <2>1, <3>1 DEF StillRead, DutiesRead, TaggedBy, Marks, Yields
    <3> QED
      BY <3>2, <3>3 DEF StillRead
  <2>5. \A d \in Dates \ mixed' : Lone(cell'[d])
    BY <2>1 DEF BoardInv
  <2>6. SuspensionsOwned'
    BY <2>1 DEF BoardInv, SuspensionsOwned, TaggedBy
  <2> QED
    BY <2>2, <2>3, <2>4, <2>5, <2>6 DEF BoardInv
<1>2. CASE BoardNext
  <2>0. BoardStep /\ BoardNote
    BY <1>2 DEF BoardNext
  <2>1. ASSUME NEW range \in Ranges, Publish(range)
        PROVE  BoardInv'
    BY <1>0, <2>0, <2>1, PublishWrites
  <2>2. CASE NextDay
    <3>1. UNCHANGED <<cell, duty, sus>> /\ today' \in Nat /\ req' = req
      BY <2>2 DEF NextDay, BoardInv, BoardTypeOK
    <3> QED
      BY <2>0, <3>1, RowsAlone
  <2>3. ASSUME NEW t \in Reqs,
               \/ GenerateBegin(t)
               \/ \E range \in Ranges : PatternBegin(t, range) \/ TidyBegin(t, range)
               \/ \E d \in Dates : \E want \in Wanted[d] : CellBegin(t, d, want)
               \/ \E d \in Dates, result \in Results, keep \in BOOLEAN :
                     ReviewBegin(t, d, result, keep)
               \/ \E s \in Suspensions, days \in Ranges :
                     SuspendBegin(t, s, days) \/ AmendBegin(t, s, days)
               \/ \E s \in Suspensions : LiftBegin(t, s)
        PROVE  BoardInv'
    <3>1. \/ GenerateBegin(t)
          \/ \E range \in SUBSET Dates : PatternBegin(t, range) \/ TidyBegin(t, range)
          \/ \E d \in Dates : \E want \in Wanted[d] : CellBegin(t, d, want)
          \/ \E d \in Dates, result \in Results, keep \in BOOLEAN :
                ReviewBegin(t, d, result, keep)
          \/ \E s \in Suspensions, days \in SUBSET Dates :
                SuspendBegin(t, s, days) \/ AmendBegin(t, s, days)
          \/ \E s \in Suspensions : LiftBegin(t, s)
      BY <1>0, <2>3
    <3> QED
      BY <2>0, <3>1, BeginsKeep
  <2>4. ASSUME NEW t \in Reqs, Generate(t) \/ ApplyPattern(t) \/ Tidy(t) \/ SetCell(t)
        PROVE  BoardInv'
    BY <2>0, <2>4, GenerateWrites, PatternWrites, TidyWrites, CellWrites
  <2>5. ASSUME NEW t \in Reqs, Review(t) \/ Overlay(t) \/ Lift(t)
        PROVE  BoardInv'
    BY <2>0, <2>5, ReviewWrites, OverlayWrites, LiftWrites
  <2>6. ASSUME NEW t \in Reqs, DropReq(t)
        PROVE  BoardInv'
    <3>1. /\ UNCHANGED <<cell, duty, sus>> /\ today' \in Nat
          /\ req' = [req EXCEPT ![t] = Blank]
      BY <2>6 DEF DropReq, EndReq, BoardInv, BoardTypeOK
    <3> QED
      BY <2>0, <3>1, RowsAlone
  <2> QED
    BY <2>0, <2>1, <2>2, <2>3, <2>4, <2>5, <2>6 DEF BoardStep
<1> QED
  BY <1>1, <1>2

\* What every request has read of a date still is so unless others had the date in
\* hand; on such dates one row at most is in force, and suspensions own their days.
THEOREM BoardInvariant == BoardSpec => []BoardInv
<1>1. BoardInit => BoardInv
  BY BoardStarts
<1>2. BoardInv /\ [BoardNext]_boardVars => BoardInv'
  BY BoardKept
<1> QED
  BY <1>1, <1>2, PTL DEF BoardSpec

\* Rows, attendance, suspensions and requests keep their shape.
THEOREM BoardTypeCorrect == BoardSpec => []BoardTypeOK
<1>1. BoardInv => BoardTypeOK
  BY DEF BoardInv
<1> QED
  BY <1>1, BoardInvariant, PTL

\* A date no two requests met on has one row at most that is not cancelled, whatever
\* the template, the patterns and the cells did to it.
THEOREM OneRowInForce == BoardSpec => []OneActiveRow
<1>1. BoardInv => OneActiveRow
  BY LoneCounts DEF BoardInv, OneActiveRow
<1> QED
  BY <1>1, BoardInvariant, PTL

\* What a suspension marked is covered by it as it is now, and not after its lift.
THEOREM SuspensionsOwn == BoardSpec => []SuspensionsOwned
<1>1. BoardInv => SuspensionsOwned
  BY DEF BoardInv
<1> QED
  BY <1>1, BoardInvariant, PTL

-----------------------------------------------------------------------------
(* What a step never does *)

\* The cell of a published date keeps it published, unless it clears it.
LEMMA CellKeepsPublished ==
    ASSUME BoardInv, NEW t \in Reqs, SetCell(t), NEW d \in Dates \ mixed,
           Having(cell[d], {"PUBLISHED"}) # {}, cell'[d] # cell[d]
    PROVE  /\ Handling(t, "cell") /\ req'[t] = Blank
           /\ req[t].want # "CLEAR" => Having(cell'[d], {"PUBLISHED"}) # {}
<1>1. PICK q \in Requests, e \in Dates :
         /\ q = req[t]
         /\ cell' = [cell EXCEPT ![e] = Edited(cell[e], q)]
         /\ e \notin mixed /\ q.want # "CLEAR" /\ Having(cell[e], {"PUBLISHED"}) # {}
               => Having(Edited(cell[e], q), {"PUBLISHED"}) # {}
  BY CellEdited
<1>2. cell \in [Dates -> DayRows] /\ req \in [Reqs -> Requests \cup {Blank}]
  BY DEF BoardInv, BoardTypeOK, DayRows
<1>3. e = d /\ cell'[d] = Edited(cell[d], q)
  BY <1>1, <1>2
<1>4. Handling(t, "cell") /\ req'[t] = Blank
  BY <1>2 DEF SetCell, EndReq
<1> QED
  BY <1>1, <1>3, <1>4

\* The other requests leave the rows of a published date alone.
LEMMA OthersKeepPublished ==
    ASSUME BoardInv, BoardNote, BoardStep, NEW d \in Dates \ mixed',
           Having(cell[d], {"PUBLISHED"}) # {}, cell'[d] # cell[d]
    PROVE  \E t \in Reqs : SetCell(t)
<1>0. d \in Dates \ mixed
  BY DEF BoardNote
<1>1. PICK n \in Slots : cell[d][n] # Blank /\ cell[d][n].status = "PUBLISHED"
  BY DEF Having
<1>2. n \in Live(cell[d])
  BY <1>1 DEF Live, Having
<1>3. ASSUME NEW t \in Reqs, Generate(t)
      PROVE  FALSE
  <2>1. PICK q \in Requests : q = req[t] /\ q.op = "generate" /\ StillRead(q)
    BY <1>3, BoardTypes DEF Generate, Handling
  <2>2. d \in q.dates
    BY <1>3, <2>1 DEF Generate
  <2> QED
    BY <1>0, <1>2, <2>1, <2>2 DEF StillRead, CellsRead
<1>4. ASSUME NEW t \in Reqs, ApplyPattern(t)
      PROVE  FALSE
  <2>1. PICK q \in Requests : q = req[t] /\ q.op = "pattern" /\ StillRead(q)
    BY <1>4, BoardTypes DEF ApplyPattern, Handling
  <2>2. d \in q.dates
    BY <1>4, <2>1 DEF ApplyPattern
  <2> QED
    BY <1>0, <2>1, <2>2 DEF StillRead, CellsRead
<1>5. ASSUME NEW t \in Reqs, Tidy(t)
      PROVE  FALSE
  <2>1. PICK q \in Requests : q = req[t] /\ q.op = "tidy" /\ StillRead(q)
    BY <1>5, BoardTypes DEF Tidy, Handling
  <2>2. cell[d] \in DayRows
    BY BoardTypes
  <2>3. q.drafts[d] # {}
    BY <1>5, <2>1, <2>2 DEF Tidy, DayRows
  <2>4. d \in q.dates
    BY <2>1, <2>3 DEF StillRead, CellsRead
  <2>5. PICK m \in Having(cell[d], {"DRAFT"}) : m \in q.drafts[d]
    BY <1>0, <2>1, <2>3, <2>4 DEF StillRead, CellsRead
  <2>6. m \in Live(cell[d]) /\ cell[d][m].status = "DRAFT"
    BY DEF Having, Live
  <2>7. m = n
    BY <1>0, <1>2, <2>6 DEF BoardInv, Lone
  <2> QED
    BY <1>1, <2>6, <2>7
<1>6. ASSUME NEW range \in Ranges, Publish(range)
      PROVE  FALSE
  <2>1. cell[d] \in DayRows
    BY BoardTypes
  <2>2. Having(cell[d], {"DRAFT"}) # {}
    BY <1>6, <2>1 DEF Publish, DayRows
  <2>3. PICK m \in Having(cell[d], {"DRAFT"}) : TRUE
    BY <2>2
  <2>4. m \in Live(cell[d]) /\ cell[d][m].status = "DRAFT"
    BY DEF Having, Live
  <2>5. m = n
    BY <1>0, <1>2, <2>4 DEF BoardInv, Lone
  <2> QED
    BY <1>1, <2>4, <2>5
<1>7. (\E t \in Reqs : SetCell(t)) \/ UNCHANGED cell
  BY <1>3, <1>4, <1>5, <1>6 DEF BoardStep, NextDay, GenerateBegin, PatternBegin, TidyBegin,
     CellBegin, ReviewBegin, Review, SuspendBegin, AmendBegin, LiftBegin, Overlay, Lift, DropReq
<1> QED
  BY <1>7

\* Templates, patterns, cleanups and publications leave a published date alone: only
\* its cell changes it, and keeps it published unless it clears it.
THEOREM PublishedStays == BoardSpec => PublishedKept
<1> DEFINE Kept == \A d \in Dates \ mixed' :
                      Having(cell[d], {"PUBLISHED"}) # {} /\ cell'[d] # cell[d] =>
                         \E t \in Reqs :
                            /\ Handling(t, "cell")
                            /\ req'[t] = Blank
                            /\ req[t].want # "CLEAR" => Having(cell'[d], {"PUBLISHED"}) # {}
<1>1. BoardInv /\ [BoardNext]_boardVars => [Kept]_boardVars
  <2> SUFFICES ASSUME BoardInv, BoardNext, NEW d \in Dates \ mixed',
                      Having(cell[d], {"PUBLISHED"}) # {}, cell'[d] # cell[d]
               PROVE  \E t \in Reqs :
                         /\ Handling(t, "cell")
                         /\ req'[t] = Blank
                         /\ req[t].want # "CLEAR" => Having(cell'[d], {"PUBLISHED"}) # {}
    OBVIOUS
  <2>1. BoardStep /\ BoardNote
    BY DEF BoardNext
  <2>2. d \in Dates \ mixed
    BY <2>1 DEF BoardNote
  <2>3. PICK t \in Reqs : SetCell(t)
    BY <2>1, OthersKeepPublished
  <2> QED
    BY <2>2, <2>3, CellKeepsPublished
<1> QED
  BY <1>1, BoardInvariant, PTL DEF BoardSpec, PublishedKept

\* A suspension yields to attendance that was reviewed, and a review that has the
\* note of such a day in hand writes no tag on it: only reviews change it.
THEOREM ReviewStays == BoardSpec => ReviewKept
<1> DEFINE Kept == \A d \in Dates \ mixed' :
                      duty[d] # Blank /\ duty[d].tag = Blank /\ duty[d].result # "SUSPENDED" =>
                         duty'[d] # Blank /\ duty'[d].tag = Blank
<1>1. BoardInv /\ [BoardNext]_boardVars => [Kept]_boardVars
  <2> SUFFICES ASSUME BoardInv, BoardNext, NEW d \in Dates \ mixed',
                      duty[d] # Blank, duty[d].tag = Blank, duty[d].result # "SUSPENDED"
               PROVE  duty'[d] # Blank /\ duty'[d].tag = Blank
    OBVIOUS
  <2>1. BoardStep /\ BoardNote
    BY DEF BoardNext
  <2>2. d \in Dates \ mixed /\ Blank \notin Suspensions
    BY <2>1, ScheduleAssumption DEF BoardNote
  <2>3. ASSUME NEW t \in Reqs, Review(t)
        PROVE  duty'[d] # Blank /\ duty'[d].tag = Blank
    <3>1. PICK q \in Requests : q = req[t] /\ q.op = "review" /\ StillRead(q)
      BY <2>3, BoardTypes DEF Review, Handling
    <3>2. q.duty # Blank
      BY <3>1, RequestFields, BlankAssumption
    <3>3. d \in q.dates => q.duty.tag = Blank
      BY <2>2, <3>1 DEF StillRead, DutiesRead
    <3>4. duty'[d] = IF d \in q.dates THEN q.duty ELSE duty[d]
      BY <2>2, <2>3, <3>1 DEF Review
    <3> QED
      BY <3>2, <3>3, <3>4
  <2>4. ASSUME NEW t \in Reqs, Overlay(t)
        PROVE  duty'[d] # Blank /\ duty'[d].tag = Blank
    <3>1. PICK q \in Requests, a \in Duties :
             /\ q.op \in {"suspend", "amend"} /\ StillRead(q) /\ q.of \in Suspensions
             /\ duty' = [e \in Dates |-> IF e \in q.over THEN a
                                         ELSE IF e \in q.drop THEN Blank ELSE duty[e]]
      BY <2>4, OverlayParts
    <3>2. d \notin q.drop
      BY <2>2, <3>1 DEF StillRead, DutiesRead, TaggedBy
    <3>3. d \notin q.over
      BY <2>2, <3>1, <3>2 DEF StillRead, DutiesRead, Yields
    <3> QED
      BY <2>2, <3>1, <3>2, <3>3
  <2>5. ASSUME NEW t \in Reqs, Lift(t)
        PROVE  duty'[d] # Blank /\ duty'[d].tag = Blank
    <3>1. PICK q \in Requests : q = req[t] /\ q.op = "lift" /\ StillRead(q)
      BY <2>5, BoardTypes DEF Lift, Handling
    <3>2. d \notin q.drop
      BY <2>2, <3>1 DEF StillRead, DutiesRead, TaggedBy
    <3> QED
      BY <2>2, <2>5, <3>1, <3>2 DEF Lift
  <2>6. (\E t \in Reqs : Review(t) \/ Overlay(t) \/ Lift(t)) \/ UNCHANGED duty
    BY <2>1 DEF BoardStep, Publish, NextDay, GenerateBegin, Generate, PatternBegin,
       ApplyPattern, TidyBegin, Tidy, CellBegin, SetCell, ReviewBegin, SuspendBegin,
       AmendBegin, LiftBegin, DropReq
  <2> QED
    BY <2>3, <2>4, <2>5, <2>6
<1> QED
  BY <1>1, BoardInvariant, PTL DEF BoardSpec, ReviewKept

=============================================================================
