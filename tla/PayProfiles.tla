---------------------------- MODULE PayProfiles ----------------------------
(***************************************************************************)
(* The salary rows of an employee, each in force from a day to a day or    *)
(* with an open end: a new row closes the open one before it, no two rows  *)
(* may share a day, and a duty day is priced by the row in force on it.    *)
(* The government-deduction rows are kept by the same code once more, in a *)
(* table of their own.                                                     *)
(*                                                                         *)
(* Source: app/services/worker-payroll-policy.server.ts,                   *)
(* app/routes/creation.workforce.pay-profiles.new.tsx and                  *)
(* app/routes/creation.workforce.pay-profiles.$profileId.edit.tsx.         *)
(*                                                                         *)
(* A form is one transaction of several statements: the open row is found, *)
(* it is closed and the rows are compared, the row is written.  A row that *)
(* another transaction has closed is locked until that one commits.        *)
(***************************************************************************)
EXTENDS Integers

CONSTANTS
    RowIds,     \* ids of EmployeePayProfile rows, in the order they are given
    PayDays,    \* days a row may begin or end on, and days of duty
    DayRates,   \* daily rates
    Entries,    \* forms the server handles at the same time
    Absent      \* no end, no row, no form

ASSUME PayProfilesAssumption ==
    /\ RowIds \subseteq Nat
    /\ PayDays \subseteq Int

\* effectiveTo is not before effectiveFrom.
RowShapes == {r \in [from : PayDays, to : PayDays \cup {Absent}, rate : DayRates] :
                 r.to # Absent => r.from <= r.to}

\* Closing a row may end it on a day no form names.
Stored == [from : PayDays, to : Int \cup {Absent}, rate : DayRates]

EntryRows == [id : RowIds, row : RowShapes, new : BOOLEAN, prev : RowIds \cup {Absent},
              compared : BOOLEAN]

ASSUME AbsentAssumption ==
    /\ Absent \notin Int
    /\ Absent \notin Stored
    /\ Absent \notin EntryRows

VARIABLES
    payRow,     \* the row of an id, or Absent
    entry,      \* what a form has read and not yet committed, or Absent
    sideBySide       \* history: two forms were open at once

profileVars == <<payRow, entry, sideBySide>>

Given == {i \in RowIds : payRow[i] # Absent}

ProfilesInit ==
    /\ payRow = [i \in RowIds |-> Absent]
    /\ entry = [e \in Entries |-> Absent]
    /\ sideBySide = FALSE

-----------------------------------------------------------------------------

Ends(row, day) == row.to # Absent /\ row.to < day

\* Mutant: rows that meet on a day do not overlap.
MeetingAllowed(a, b) ==
    ~(Ends(a, b.from + 1) \/ Ends(b, a.from + 1))

RangesOverlap(a, b) == ~(Ends(a, b.from) \/ Ends(b, a.from))

\* The row in force on a day, the latest to begin if there are several.
InForceOn(d) == {i \in Given : payRow[i].from <= d /\ ~Ends(payRow[i], d)}

RateOn(d) ==
    IF InForceOn(d) = {} THEN Absent
    ELSE payRow[CHOOSE i \in InForceOn(d) :
                   \A j \in InForceOn(d) : payRow[j].from <= payRow[i].from].rate

OpenBefore(day) == {i \in Given : payRow[i].to = Absent /\ payRow[i].from < day}

\* The last open row that begins before the new one, if there is one.
IsPrevious(p, day) ==
    \/ OpenBefore(day) = {} /\ p = Absent
    \/ p \in OpenBefore(day) /\ \A j \in OpenBefore(day) : payRow[j].from <= payRow[p].from

CreateBegin(e, row) ==
    /\ entry[e] = Absent
    /\ \E id \in RowIds \ Given, p \in RowIds \cup {Absent} :
          /\ \A f \in Entries : entry[f] # Absent => entry[f].id # id
          /\ IsPrevious(p, row.from)
          /\ entry' = [entry EXCEPT ![e] =
                [id |-> id, row |-> row, new |-> TRUE, prev |-> p, compared |-> FALSE]]
    /\ UNCHANGED payRow

EditBegin(e, id, row) ==
    /\ entry[e] = Absent
    /\ id \in Given
    /\ entry' = [entry EXCEPT ![e] =
          [id |-> id, row |-> row, new |-> FALSE, prev |-> Absent, compared |-> FALSE]]
    /\ UNCHANGED payRow

\* Rows an open transaction has closed.
Held(e) == {entry[f].prev : f \in {g \in Entries \ {e} : entry[g] # Absent /\ entry[g].compared}}

\* The rows as the transaction sees them, its own closing included.
Closing(x, i) == x.new /\ i = x.prev

Seen(x, i) ==
    IF Closing(x, i) THEN [payRow[i] EXCEPT !.to = x.row.from - 1] ELSE payRow[i]

MeetsAnother(x) == \E i \in Given \ {x.id} : RangesOverlap(Seen(x, i), x.row)

CloseAndCompare(e) ==
    /\ entry[e] # Absent
    /\ ~entry[e].compared
    /\ entry[e].prev = Absent \/ entry[e].prev \notin Held(e)
    /\ ~MeetsAnother(entry[e])
    /\ entry' = [entry EXCEPT ![e].compared = TRUE]
    /\ UNCHANGED payRow

\* An employee has one row that begins on a day.
Duplicate(x) == \E i \in Given \ {x.id} : payRow[i].from = x.row.from

WriteRow(e) ==
    LET x == entry[e] IN
    /\ x # Absent
    /\ x.compared
    /\ x.id \notin Held(e)
    /\ ~Duplicate(x)
    /\ payRow' = [i \in RowIds |-> IF i = x.id THEN x.row ELSE Seen(x, i)]
    /\ entry' = [entry EXCEPT ![e] = Absent]

\* Rows that overlap, a day that is taken, a failure: nothing is written.
Refuse(e) ==
    /\ entry[e] # Absent
    /\ entry' = [entry EXCEPT ![e] = Absent]
    /\ UNCHANGED payRow

ProfilesNext ==
    /\ \E e \in Entries :
          \/ \E row \in RowShapes :
                CreateBegin(e, row) \/ \E id \in RowIds : EditBegin(e, id, row)
          \/ CloseAndCompare(e)
          \/ WriteRow(e)
          \/ Refuse(e)
    /\ sideBySide' = (sideBySide \/ \E e, f \in Entries :
                             e # f /\ entry'[e] # Absent /\ entry'[f] # Absent)

ProfilesSpec == ProfilesInit /\ [][ProfilesNext]_profileVars

-----------------------------------------------------------------------------
(* Properties *)

\* Every variable keeps its shape.
ProfilesTypeOK ==
    /\ payRow \in [RowIds -> Stored \cup {Absent}]
    /\ entry \in [Entries -> EntryRows \cup {Absent}]
    /\ sideBySide \in BOOLEAN

\* No day has two rates, whatever is added between, closed, moved or reopened, as
\* long as no two forms are open at once.
OneRatePerDay ==
    ~sideBySide => \A d \in PayDays : \A i, j \in InForceOn(d) : i = j

\* A new row leaves the rate of every day before it as it was.
EarlierDaysKept ==
    [][\A i \in RowIds : payRow[i] = Absent /\ payRow'[i] # Absent /\ ~sideBySide' =>
          \A d \in PayDays : d < payRow'[i].from => RateOn(d)' = RateOn(d)]_profileVars

=============================================================================
