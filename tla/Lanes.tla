------------------------------- MODULE Lanes -------------------------------
(***************************************************************************)
(* The accounts of cashiers and riders and what each lane may have in      *)
(* hand: an administrator switches an account between the lanes, toggles   *)
(* and deletes it, while managers open drawers for cashiers and put riders *)
(* on runs.                                                                *)
(*                                                                         *)
(* Source: app/routes/creation.employees.tsx,                              *)
(* app/routes/creation.employees_.new.tsx, app/routes/creation.riders.tsx, *)
(* app/routes/store.cashier-shifts.tsx, app/routes/runs.new.tsx and the    *)
(* routes of a run.                                                        *)
(*                                                                         *)
(* A request reads and checks, and then commits one transaction.  Of a     *)
(* drawer and of a run only what the lanes depend on is kept: CashierShift *)
(* and DeliveryRun have the rest.                                          *)
(***************************************************************************)
EXTENDS Integers, Sequences

CONSTANTS
    Accounts,   \* employees, each with the user linked to it
    Trips,      \* ids of DeliveryRun rows
    Desks,      \* requests the server handles at the same time
    MaxStints,  \* bound: the lanes an account has had
    Nobody      \* no rider, no account, no variance, no request

LaneNames == {"CASHIER", "RIDER"}

Stages == {"NEW", "PLANNED", "OUT", "CLOSED"}

Dues == [who : Accounts, open : BOOLEAN]

Forms == [op : {"open", "run"}, who : Accounts, trip : {Nobody}]
         \cup [op : {"switch"}, who : Accounts, trip : {Nobody}, to : LaneNames]
         \cup [op : {"account"}, who : Accounts, trip : {Nobody}, to : {"ON", "OFF"},
               linked : BOOLEAN]
         \cup [op : {"rider"}, who : Accounts, trip : {Nobody}, to : {"ACTIVE", "INACTIVE"}]
         \cup [op : {"save", "dispatch"}, who : Accounts, trip : Trips]
         \cup [op : {"turn"}, who : Accounts \cup {Nobody}, trip : Trips, to : Stages \ {"NEW"},
               short : BOOLEAN]

ASSUME LanesAssumption ==
    /\ Accounts \cap Trips = {}
    /\ Nobody \notin Accounts \cup Trips \cup LaneNames \cup Dues \cup Forms
    /\ MaxStints \in Nat

VARIABLES
    lane,       \* role of the user and of the employee, or Nobody before the hire
    login,      \* User.active; NONE where a rider has no user
    employee,   \* Employee.active; NONE before the row is created, GONE after
    stints,     \* UserRoleAssignment: the lanes in order, the last one open
    drawer,     \* the user has a shift that is not closed
    stage,      \* status of a run: OUT is DISPATCHED or CHECKED_IN
    rider,      \* riderId of a run
    due,        \* the RiderRunVariance of a run
    form,       \* what a request has read and not yet committed, or Nobody
    touched     \* history: accounts and runs that changed in the hands of a request

accountVars == <<lane, login, employee, stints>>
dutyVars == <<drawer, stage, rider, due>>
laneVars == <<accountVars, dutyVars, form, touched>>

LanesInit ==
    /\ lane = [s \in Accounts |-> Nobody]
    /\ login = [s \in Accounts |-> "NONE"]
    /\ employee = [s \in Accounts |-> "NONE"]
    /\ stints = [s \in Accounts |-> <<>>]
    /\ drawer = [s \in Accounts |-> FALSE]
    /\ stage = [r \in Trips |-> "NEW"]
    /\ rider = [r \in Trips |-> Nobody]
    /\ due = [r \in Trips |-> Nobody]
    /\ form = [t \in Desks |-> Nobody]
    /\ touched = {}

Filling(t, op) == form[t] # Nobody /\ form[t].op = op

BeginForm(t, f) ==
    /\ form[t] = Nobody
    /\ form' = [form EXCEPT ![t] = f]
    /\ UNCHANGED <<accountVars, dutyVars>>

EndForm(t) == form' = [form EXCEPT ![t] = Nobody]

-----------------------------------------------------------------------------
(* Accounts *)

Hire(s, l) ==
    /\ employee[s] = "NONE"
    /\ lane' = [lane EXCEPT ![s] = l]
    /\ login' = [login EXCEPT ![s] = "ON"]
    /\ employee' = [employee EXCEPT ![s] = "ACTIVE"]
    /\ stints' = [stints EXCEPT ![s] = <<l>>]
    /\ UNCHANGED <<dutyVars, form>>

\* The riders page creates an employee without a user.
HireRider(s) ==
    /\ employee[s] = "NONE"
    /\ lane' = [lane EXCEPT ![s] = "RIDER"]
    /\ employee' = [employee EXCEPT ![s] = "ACTIVE"]
    /\ UNCHANGED <<login, stints, dutyVars, form>>

Active(r) == stage[r] \in {"PLANNED", "OUT"}

\* Mutant: a run that is only planned is no obligation.
OnTheRoad(s) ==
    IF lane[s] = "CASHIER" THEN drawer[s]
    ELSE \E r \in Trips : \/ rider[r] = s /\ stage[r] = "OUT"
                          \/ due[r] = [who |-> s, open |-> TRUE]

\* What stops a switch: a drawer, a run, a variance to answer.
Obliged(s) ==
    IF lane[s] = "CASHIER" THEN drawer[s]
    ELSE \E r \in Trips : \/ rider[r] = s /\ Active(r)
                          \/ due[r] = [who |-> s, open |-> TRUE]

SwitchBegin(t, s) ==
    /\ login[s] = "ON"
    /\ employee[s] = "ACTIVE"
    /\ ~Obliged(s)
    /\ Len(stints[s]) < MaxStints
    /\ BeginForm(t, [op |-> "switch", who |-> s, trip |-> Nobody,
                     to |-> IF lane[s] = "CASHIER" THEN "RIDER" ELSE "CASHIER"])

\* The open row of the history is ended and the next one opened, with the role.
Switch(t) ==
    LET s == form[t].who IN
    /\ Filling(t, "switch")
    /\ employee[s] # "GONE"
    /\ lane' = [lane EXCEPT ![s] = form[t].to]
    /\ stints' = [stints EXCEPT ![s] = Append(@, form[t].to)]
    /\ EndForm(t)
    /\ UNCHANGED <<login, employee, dutyVars>>

ToggleBegin(t, s) ==
    /\ login[s] # "NONE"
    /\ BeginForm(t, [op |-> "account", who |-> s, trip |-> Nobody,
                     to |-> IF login[s] = "ON" THEN "OFF" ELSE "ON",
                     linked |-> employee[s] # "GONE"])

Toggle(t) ==
    LET s == form[t].who IN
    /\ Filling(t, "account")
    /\ form[t].linked => employee[s] # "GONE"
    /\ login' = [login EXCEPT ![s] = form[t].to]
    /\ employee' = [employee EXCEPT ![s] =
                      IF ~form[t].linked THEN @
                      ELSE IF form[t].to = "ON" THEN "ACTIVE" ELSE "INACTIVE"]
    /\ EndForm(t)
    /\ UNCHANGED <<lane, stints, dutyVars>>

\* The riders page lists riders, and does not ask again.
OnRidersPage(s) ==
    /\ employee[s] \in {"ACTIVE", "INACTIVE"}
    /\ lane[s] = "RIDER" \/ \E i \in DOMAIN stints[s] : stints[s][i] = "RIDER"

RiderToggleBegin(t, s) ==
    /\ OnRidersPage(s)
    /\ BeginForm(t, [op |-> "rider", who |-> s, trip |-> Nobody,
                     to |-> IF employee[s] = "ACTIVE" THEN "INACTIVE" ELSE "ACTIVE"])

RiderToggle(t) ==
    LET s == form[t].who IN
    /\ Filling(t, "rider")
    /\ employee[s] # "GONE"
    /\ employee' = [employee EXCEPT ![s] = form[t].to]
    /\ EndForm(t)
    /\ UNCHANGED <<lane, login, stints, dutyVars>>

\* Only variances keep an employee: a run it is on is left without a rider.
DeleteRider(s) ==
    /\ OnRidersPage(s)
    /\ \A r \in Trips : due[r] # Nobody => due[r].who # s
    /\ employee' = [employee EXCEPT ![s] = "GONE"]
    /\ rider' = [r \in Trips |-> IF rider[r] = s THEN Nobody ELSE rider[r]]
    /\ UNCHANGED <<lane, login, stints, drawer, stage, due, form>>

-----------------------------------------------------------------------------
(* Drawers *)

OpenBegin(t, s) ==
    /\ login[s] # "NONE"
    /\ lane[s] = "CASHIER"
    /\ ~drawer[s]
    /\ BeginForm(t, [op |-> "open", who |-> s, trip |-> Nobody])

\* Of two openings that overlap the second one is aborted.
OpenDrawer(t) ==
    /\ Filling(t, "open")
    /\ ~drawer[form[t].who]
    /\ drawer' = [drawer EXCEPT ![form[t].who] = TRUE]
    /\ EndForm(t)
    /\ UNCHANGED <<accountVars, stage, rider, due>>

CloseDrawer(s) ==
    /\ drawer[s]
    /\ drawer' = [drawer EXCEPT ![s] = FALSE]
    /\ UNCHANGED <<accountVars, stage, rider, due, form>>

-----------------------------------------------------------------------------
(* Runs *)

ToRide(s) == employee[s] = "ACTIVE" /\ lane[s] = "RIDER"

NewRunBegin(t, s) ==
    /\ ToRide(s)
    /\ BeginForm(t, [op |-> "run", who |-> s, trip |-> Nobody])

NewRunFor(t, r) ==
    /\ Filling(t, "run")
    /\ stage[r] = "NEW"
    /\ employee[form[t].who] # "GONE"
    /\ stage' = [stage EXCEPT ![r] = "PLANNED"]
    /\ rider' = [rider EXCEPT ![r] = form[t].who]
    /\ EndForm(t)
    /\ UNCHANGED <<accountVars, drawer, due>>

\* The dispatch queue creates a run without a rider.
QueueRun(r) ==
    /\ stage[r] = "NEW"
    /\ stage' = [stage EXCEPT ![r] = "PLANNED"]
    /\ UNCHANGED <<accountVars, drawer, rider, due, form>>

StagingBegin(t, r, s, op) ==
    /\ stage[r] = "PLANNED"
    /\ ToRide(s)
    /\ BeginForm(t, [op |-> op, who |-> s, trip |-> r])

\* Saving and dispatching set the rider, and dispatching the status.
Staging(t) ==
    LET r == form[t].trip IN
    /\ Filling(t, "save") \/ Filling(t, "dispatch")
    /\ employee[form[t].who] # "GONE"
    /\ rider' = [rider EXCEPT ![r] = form[t].who]
    /\ stage' = [stage EXCEPT ![r] = IF form[t].op = "dispatch" THEN "OUT" ELSE @]
    /\ EndForm(t)
    /\ UNCHANGED <<accountVars, drawer, due>>

\* A run that is out is reverted, remitted, with or without a shortage, or its
\* check-in writes the status back that it read.
TurnBegin(t, r, to, short) ==
    /\ stage[r] = "OUT"
    /\ short => to = "CLOSED" /\ rider[r] # Nobody
    /\ BeginForm(t, [op |-> "turn", who |-> rider[r], trip |-> r, to |-> to,
                     short |-> short])

Turn(t) ==
    LET f == form[t] IN
    /\ Filling(t, "turn")
    /\ f.short => employee[f.who] # "GONE"
    /\ stage' = [stage EXCEPT ![f.trip] = f.to]
    /\ due' = [due EXCEPT ![f.trip] =
                 IF f.to = "PLANNED" THEN Nobody
                 ELSE IF f.short THEN [who |-> f.who, open |-> TRUE] ELSE @]
    /\ EndForm(t)
    /\ UNCHANGED <<accountVars, drawer, rider>>

\* The cashier finds the cash of a closed run short.
RaiseShort(r) ==
    /\ stage[r] = "CLOSED"
    /\ rider[r] # Nobody
    /\ due' = [due EXCEPT ![r] = [who |-> rider[r], open |-> TRUE]]
    /\ UNCHANGED <<accountVars, drawer, stage, rider, form>>

AnswerShort(r) ==
    /\ due[r] # Nobody
    /\ due[r].open
    /\ due' = [due EXCEPT ![r].open = FALSE]
    /\ UNCHANGED <<accountVars, drawer, stage, rider, form>>

\* A refused request, or one that fails, leaves nothing behind.
DropForm(t) ==
    /\ form[t] # Nobody
    /\ EndForm(t)
    /\ UNCHANGED <<accountVars, dutyVars>>

-----------------------------------------------------------------------------
AccountStep ==
    \/ \E s \in Accounts :
          \/ HireRider(s) \/ DeleteRider(s) \/ CloseDrawer(s)
          \/ \E l \in LaneNames : Hire(s, l)
    \/ \E t \in Desks :
          \/ \E s \in Accounts :
                SwitchBegin(t, s) \/ ToggleBegin(t, s) \/ RiderToggleBegin(t, s)
                \/ OpenBegin(t, s) \/ NewRunBegin(t, s)
          \/ Switch(t) \/ Toggle(t) \/ RiderToggle(t) \/ OpenDrawer(t) \/ DropForm(t)

RunStep ==
    \E r \in Trips :
       \/ QueueRun(r) \/ RaiseShort(r) \/ AnswerShort(r)
       \/ \E t \in Desks :
             \/ NewRunFor(t, r)
             \/ \E s \in Accounts, op \in {"save", "dispatch"} : StagingBegin(t, r, s, op)
             \/ Staging(t)
             \/ \E to \in Stages \ {"NEW"}, short \in BOOLEAN : TurnBegin(t, r, to, short)
             \/ Turn(t)

Duty(s) == <<lane[s], drawer[s], {r \in Trips : rider[r] = s /\ Active(r)}>>

Fate(r) == <<rider[r], stage[r]>>

LanesNext ==
    /\ AccountStep \/ RunStep
    /\ touched' = touched
         \cup {s \in Accounts : Duty(s)' # Duty(s)
                                /\ \E t \in Desks : form'[t] # Nobody /\ form'[t].who = s}
         \cup {r \in Trips : Fate(r)' # Fate(r)
                             /\ \E t \in Desks : form'[t] # Nobody /\ form'[t].trip = r}

LanesSpec == LanesInit /\ [][LanesNext]_laneVars

-----------------------------------------------------------------------------
(* Properties *)

\* Every variable keeps its shape.
LanesTypeOK ==
    /\ lane \in [Accounts -> LaneNames \cup {Nobody}]
    /\ login \in [Accounts -> {"NONE", "ON", "OFF"}]
    /\ employee \in [Accounts -> {"NONE", "ACTIVE", "INACTIVE", "GONE"}]
    /\ stints \in [Accounts -> Seq(LaneNames)]
    /\ drawer \in [Accounts -> BOOLEAN]
    /\ stage \in [Trips -> Stages]
    /\ rider \in [Trips -> Accounts \cup {Nobody}]
    /\ due \in [Trips -> Dues \cup {Nobody}]
    /\ form \in [Desks -> Forms \cup {Nobody}]
    /\ touched \in SUBSET (Accounts \cup Trips)

\* An account works in one lane: no drawer is left open by a switch to the riders,
\* no run by a switch to the cashiers, and the history tells the lane it is in.
OneLaneAtATime ==
    \A s \in Accounts \ touched :
        /\ drawer[s] => lane[s] = "CASHIER"
        /\ \A r \in Trips \ touched : rider[r] = s /\ Active(r) => lane[s] = "RIDER"
        /\ login[s] # "NONE" =>
              LET n == Len(stints[s]) IN
              /\ n > 0 /\ stints[s][n] = lane[s]
              /\ \A i \in 2 .. n : stints[s][i] # stints[s][i - 1]

=============================================================================
