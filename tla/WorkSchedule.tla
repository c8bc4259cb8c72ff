---------------------------- MODULE WorkSchedule ----------------------------
(***************************************************************************)
(* The planner board of one worker: rows generated from a template,        *)
(* written by a staffing pattern, set cell by cell, cleaned up and         *)
(* published; the attendance the manager reviews; and the suspensions that *)
(* overlay it.                                                             *)
(*                                                                         *)
(* Source: app/services/worker-schedule-publication.server.ts,             *)
(* app/services/worker-suspension-record.server.ts,                        *)
(* app/services/worker-attendance-duty-result.server.ts,                   *)
(* app/routes/store.workforce.schedule-planner.tsx,                        *)
(* app/routes/store.workforce.attendance-review.tsx and                    *)
(* app/routes/store.workforce.suspension-records.tsx.                      *)
(*                                                                         *)
(* A request reads the rows, and writes what it decided on that reading:   *)
(* other requests may commit in between.  The rows of a date are never     *)
(* deleted, and no two of them have the same window: a date has as many    *)
(* slots for rows as there are windows.                                    *)
(***************************************************************************)
EXTENDS Integers, FiniteSets

CONSTANTS
    Dates,      \* days, numbered from 1
    Shifts,     \* work windows
    OFF,        \* the window of an intentional day off
    Pattern,    \* the template's window of a date, or Blank
    Wanted,     \* what a manager may set the cell of a date to
    Suspensions,
    Covered,    \* dates on which another worker's row names this one as cover
    Results,    \* results a manager may review
    LastDay,    \* bound: the last day of the clock
    Reqs,       \* requests the server handles at the same time
    ReqsAtOnce, \* bound: the requests in flight at once, by the suspensions
    Blank

Windows == Shifts \cup {OFF}

Slots == 1 .. Cardinality(Windows)

ASSUME ScheduleAssumption ==
    /\ Dates \subseteq Nat \ {0}
    /\ OFF \notin Shifts
    /\ IsFiniteSet(Shifts)
    /\ Pattern \in [Dates -> Shifts \cup {Blank}]
    /\ Wanted \in [Dates -> SUBSET (Windows \cup {"CLEAR"})]
    /\ Covered \subseteq Dates
    /\ Results \subseteq {"WORKED", "ABSENT", "SUSPENDED"}
    /\ LastDay \in Nat
    /\ ReqsAtOnce \in [SUBSET Suspensions -> Nat]
    /\ Blank \notin Windows \cup Suspensions

VARIABLES
    cell,       \* per date, its WorkerSchedule rows by slot, or Blank
    duty,       \* per date, its AttendanceDutyResult, or Blank
    sus,        \* SuspensionRecord: its days, and the day it was lifted or 0
    today,
    req,        \* what a request has read and not yet committed, or Blank
    mixed       \* history: dates and suspensions that changed, or another
                \* request came for, while a request had them in hand

boardVars == <<cell, duty, sus, today, req, mixed>>

Rows == [win : Windows, status : {"DRAFT", "PUBLISHED", "CANCELLED"}]

\* "typed" is history: a review wrote it, not a suspension.
Duties == [result : {"WORKED", "ABSENT", "SUSPENDED"}, tag : Suspensions \cup {Blank},
           typed : BOOLEAN]

SuspensionRows == [days : SUBSET Dates, lifted : Nat]

\* Slot 0 stands for no row.
Maybe == Slots \cup {0}

Requests == [op : {"generate"}, dates : SUBSET Dates]
            \cup [op : {"pattern"}, dates : SUBSET Dates, on : [Dates -> Maybe]]
            \cup [op : {"cell"}, dates : SUBSET Dates, want : Windows \cup {"CLEAR"},
                  on : Maybe, match : Maybe, was : {"DRAFT", "PUBLISHED"}]
            \cup [op : {"tidy"}, dates : SUBSET Dates, drafts : [Dates -> SUBSET Slots]]
            \cup [op : {"suspend", "amend"}, dates : SUBSET Dates, of : Suspensions,
                  days : SUBSET Dates, drop : SUBSET Dates, over : SUBSET Dates]
            \cup [op : {"lift"}, dates : SUBSET Dates, of : Suspensions, at : Nat,
                  drop : SUBSET Dates]
            \cup [op : {"review"}, dates : SUBSET Dates, duty : Duties]

ASSUME BlankAssumption ==
    Blank \notin Rows \cup Duties \cup SuspensionRows \cup Requests

Handling(t, op) == req[t] # Blank /\ req[t].op = op

Suspended == {s \in Suspensions : sus[s] # Blank}

BeginReq(t, r) ==
    /\ req[t] = Blank
    /\ Cardinality({u \in Reqs : req[u] # Blank}) < ReqsAtOnce[Suspended]
    /\ req' = [req EXCEPT ![t] = r]

EndReq(t) == req' = [req EXCEPT ![t] = Blank]

BoardInit ==
    /\ cell = [d \in Dates |-> [n \in Slots |-> Blank]]
    /\ duty = [d \in Dates |-> Blank]
    /\ sus = [s \in Suspensions |-> Blank]
    /\ today = 1
    /\ req = [t \in Reqs |-> Blank]
    /\ mixed = {}

-----------------------------------------------------------------------------
(* The rows c of a date *)

Having(c, S) == {n \in Slots : c[n] # Blank /\ c[n].status \in S}

Live(c) == Having(c, {"DRAFT", "PUBLISHED"})

SomeRow(S) == IF S = {} THEN 0 ELSE CHOOSE n \in S : \A m \in S : n <= m

Cleared(c, w) == SomeRow({n \in Having(c, {"CANCELLED"}) : c[n].win = w})

\* The exact window is unique on a date, cancelled rows included.
Clashes(c, w, n) == \E m \in Slots \ {n} : c[m] # Blank /\ c[m].win = w

Cancelled(c, n) == IF n = 0 THEN c ELSE [c EXCEPT ![n].status = "CANCELLED"]

Revived(c, n, w, s) == [c EXCEPT ![n] = [win |-> w, status |-> s]]

Created(c, w) == Revived(c, SomeRow({n \in Slots : c[n] = Blank}), w, "DRAFT")

-----------------------------------------------------------------------------
(* Template, pattern, cleanup, publication *)

\* Mutant: a date counts as free until its row is published.
VacantUnpublished(d) == Having(cell[d], {"PUBLISHED"}) = {}

Vacant(d) == Live(cell[d]) = {}

GenerateBegin(t) ==
    LET dates == {d \in Dates : Pattern[d] # Blank /\ Vacant(d)} IN
    /\ dates # {}
    /\ BeginReq(t, [op |-> "generate", dates |-> dates])
    /\ UNCHANGED <<cell, duty, sus, today>>

\* A row with the same window stays as it is, even when it was cancelled.
Generate(t) ==
    /\ Handling(t, "generate")
    /\ cell' = [d \in Dates |->
                  IF d \in req[t].dates /\ ~Clashes(cell[d], Pattern[d], 0)
                  THEN Created(cell[d], Pattern[d]) ELSE cell[d]]
    /\ EndReq(t)
    /\ UNCHANGED <<duty, sus, today>>

Skipped(d) == Having(cell[d], {"PUBLISHED"}) # {}

PatternBegin(t, range) ==
    LET dates == {d \in range : Pattern[d] # Blank /\ ~Skipped(d)} IN
    /\ \A d \in range : Cardinality(Live(cell[d])) <= 1
    /\ dates # {}
    /\ BeginReq(t, [op |-> "pattern", dates |-> dates,
                    on |-> [d \in Dates |-> IF d \in range THEN SomeRow(Live(cell[d]))
                                            ELSE 0]])
    /\ UNCHANGED <<cell, duty, sus, today>>

\* The draft makes room, and a cancelled row with the window comes back.
Patterned(c, n, w) ==
    LET left == Cancelled(c, n)
        match == Cleared(left, w) IN
    IF match = 0 THEN Created(left, w) ELSE Revived(left, match, w, "DRAFT")

ApplyPattern(t) ==
    LET on == req[t].on IN
    /\ Handling(t, "pattern")
    /\ \A d \in req[t].dates :
          Cleared(Cancelled(cell[d], on[d]), Pattern[d]) = 0
             => ~Clashes(cell[d], Pattern[d], 0)
    /\ cell' = [d \in Dates |-> IF d \in req[t].dates
                                THEN Patterned(cell[d], on[d], Pattern[d]) ELSE cell[d]]
    /\ EndReq(t)
    /\ UNCHANGED <<duty, sus, today>>

TidyBegin(t, range) ==
    LET drafts == [d \in Dates |-> IF d \in range THEN Having(cell[d], {"DRAFT"}) ELSE {}]
        dates == {d \in Dates : drafts[d] # {}} IN
    /\ dates # {}
    /\ BeginReq(t, [op |-> "tidy", dates |-> dates, drafts |-> drafts])
    /\ UNCHANGED <<cell, duty, sus, today>>

\* What was a draft is cancelled, whatever it is by now.
Tidy(t) ==
    /\ Handling(t, "tidy")
    /\ cell' = [d \in Dates |-> [n \in Slots |->
                  IF n \in req[t].drafts[d]
                  THEN [cell[d][n] EXCEPT !.status = "CANCELLED"] ELSE cell[d][n]]]
    /\ EndReq(t)
    /\ UNCHANGED <<duty, sus, today>>

\* One statement publishes the drafts of the range.
Publish(range) ==
    /\ \E d \in range : Having(cell[d], {"DRAFT"}) # {}
    /\ cell' = [d \in Dates |-> [n \in Slots |->
                  IF d \in range /\ n \in Having(cell[d], {"DRAFT"})
                  THEN [cell[d][n] EXCEPT !.status = "PUBLISHED"] ELSE cell[d][n]]]
    /\ UNCHANGED <<duty, sus, today, req>>

-----------------------------------------------------------------------------
(* One cell of the board *)

CellBegin(t, d, want) ==
    LET on == SomeRow(Live(cell[d]))
        clear == want = "CLEAR" IN
    /\ Cardinality(Live(cell[d])) <= 1
    /\ clear => on # 0
    /\ on # 0 => clear \/ cell[d][on].win # want
    /\ BeginReq(t, [op |-> "cell", dates |-> {d}, want |-> want, on |-> on,
                    match |-> IF clear THEN 0 ELSE Cleared(cell[d], want),
                    was |-> IF on = 0 THEN "DRAFT" ELSE cell[d][on].status])
    /\ UNCHANGED <<cell, duty, sus, today>>

\* Mutant: a row brought back in place of a published one is a draft.
RestoredDraft(was) == "DRAFT"

Restored(was) == was

\* A row that exists is edited in place and keeps its status, unless a cancelled
\* one has the window: then that one takes over the status.
Edited(c, q) ==
    CASE q.want = "CLEAR" -> Cancelled(c, q.on)
      [] q.want # "CLEAR" /\ q.match # 0 ->
            Revived(Cancelled(c, q.on), q.match, q.want, Restored(q.was))
      [] q.want # "CLEAR" /\ q.match = 0 /\ q.on # 0 -> [c EXCEPT ![q.on].win = q.want]
      [] OTHER -> Created(c, q.want)

SetCell(t) ==
    LET q == req[t] IN
    /\ Handling(t, "cell")
    /\ \A d \in q.dates :
          /\ q.want # "CLEAR" =>
                ~Clashes(cell[d], q.want, IF q.match # 0 THEN q.match ELSE q.on)
          /\ cell' = [cell EXCEPT ![d] = Edited(cell[d], q)]
    /\ EndReq(t)
    /\ UNCHANGED <<duty, sus, today>>

-----------------------------------------------------------------------------
(* Attendance *)

ToWork(d) == \E n \in Live(cell[d]) : cell[d][n].win # OFF

\* The form shows the note the day has, and the note carries the tag of a
\* suspension: the manager may leave it or write another.
ReviewBegin(t, d, result, keep) ==
    /\ result = "WORKED" => ToWork(d) \/ d \in Covered
    /\ BeginReq(t, [op |-> "review", dates |-> {d},
                    duty |-> [result |-> result,
                              tag |-> IF keep /\ duty[d] # Blank THEN duty[d].tag
                                      ELSE Blank,
                              typed |-> TRUE]])
    /\ UNCHANGED <<cell, duty, sus, today>>

Review(t) ==
    /\ Handling(t, "review")
    /\ duty' = [d \in Dates |-> IF d \in req[t].dates THEN req[t].duty ELSE duty[d]]
    /\ EndReq(t)
    /\ UNCHANGED <<cell, sus, today>>

-----------------------------------------------------------------------------
(* Suspensions *)

\* Mutant: a suspension overlays whatever the day has.
YieldsAlways(a, s) == TRUE

\* Attendance that was reviewed stays, unless its note has the tag.
Yields(a, s) == a = Blank \/ a.result = "SUSPENDED" \/ a.tag = s

Overlaid(s, days, drop) ==
    {d \in days : ToWork(d) /\ (d \in drop \/ Yields(duty[d], s))}

TaggedBy(s) ==
    {d \in Dates : duty[d] # Blank /\ duty[d].result = "SUSPENDED" /\ duty[d].tag = s}

SuspendBegin(t, s, days) ==
    /\ sus[s] = Blank
    /\ BeginReq(t, [op |-> "suspend", dates |-> days, of |-> s, days |-> days,
                    drop |-> {}, over |-> Overlaid(s, days, {})])
    /\ UNCHANGED <<cell, duty, sus, today>>

\* Mutant: the days an edit takes away keep what the suspension wrote.
WithdrawnNone(s) == {}

Withdrawn(s) == TaggedBy(s)

AmendBegin(t, s, days) ==
    /\ sus[s] # Blank
    /\ sus[s].lifted = 0
    /\ BeginReq(t, [op |-> "amend", dates |-> days \cup sus[s].days \cup Withdrawn(s),
                    of |-> s, days |-> days, drop |-> Withdrawn(s),
                    over |-> Overlaid(s, days, Withdrawn(s))])
    /\ UNCHANGED <<cell, duty, sus, today>>

Overlay(t) ==
    LET q == req[t] IN
    /\ Handling(t, "suspend") \/ Handling(t, "amend")
    /\ Handling(t, "suspend") => sus[q.of] = Blank
    /\ sus' = [sus EXCEPT ![q.of] =
                 [days |-> q.days,
                  lifted |-> IF sus[q.of] = Blank THEN 0 ELSE sus[q.of].lifted]]
    /\ duty' = [d \in Dates |->
                  IF d \in q.over
                  THEN [result |-> "SUSPENDED", tag |-> q.of, typed |-> FALSE]
                  ELSE IF d \in q.drop THEN Blank ELSE duty[d]]
    /\ EndReq(t)
    /\ UNCHANGED <<cell, today>>

\* Tagged days from today to the end of the suspension.
Ahead(s) == {d \in TaggedBy(s) : d >= today /\ \E last \in sus[s].days : d <= last}

\* A suspension that was lifted may be lifted again.
LiftBegin(t, s) ==
    /\ sus[s] # Blank
    /\ BeginReq(t, [op |-> "lift", dates |-> sus[s].days \cup Ahead(s), of |-> s,
                    at |-> today, drop |-> Ahead(s)])
    /\ UNCHANGED <<cell, duty, sus, today>>

Lift(t) ==
    /\ Handling(t, "lift")
    /\ sus' = [sus EXCEPT ![req[t].of].lifted = req[t].at]
    /\ duty' = [d \in Dates |-> IF d \in req[t].drop THEN Blank ELSE duty[d]]
    /\ EndReq(t)
    /\ UNCHANGED <<cell, today>>

-----------------------------------------------------------------------------
NextDay ==
    /\ today < LastDay
    /\ today' = today + 1
    /\ UNCHANGED <<cell, duty, sus, req>>

\* A refused request, or one that fails, leaves nothing behind.
DropReq(t) ==
    /\ req[t] # Blank
    /\ EndReq(t)
    /\ UNCHANGED <<cell, duty, sus, today>>

Ranges == {{d \in Dates : a <= d /\ d <= b} : a, b \in Dates} \ {{}}

BoardStep ==
    \/ \E range \in Ranges : Publish(range)
    \/ NextDay
    \/ \E t \in Reqs :
          \/ GenerateBegin(t) \/ Generate(t) \/ ApplyPattern(t) \/ Tidy(t)
          \/ \E range \in Ranges : PatternBegin(t, range) \/ TidyBegin(t, range)
          \/ \E d \in Dates : \E want \in Wanted[d] : CellBegin(t, d, want)
          \/ SetCell(t)
          \/ \E d \in Dates, result \in Results, keep \in BOOLEAN :
                ReviewBegin(t, d, result, keep)
          \/ Review(t)
          \/ \E s \in Suspensions, days \in Ranges :
                SuspendBegin(t, s, days) \/ AmendBegin(t, s, days)
          \/ \E s \in Suspensions : LiftBegin(t, s)
          \/ Overlay(t) \/ Lift(t) \/ DropReq(t)

\* The dates a request is about, and its suspension.
InHand(t) ==
    IF req[t] = Blank THEN {}
    ELSE req[t].dates
         \cup {s \in Suspensions : /\ req[t].op \in {"suspend", "amend", "lift"}
                                   /\ req[t].of = s}

Changed ==
    {d \in Dates : cell'[d] # cell[d] \/ duty'[d] # duty[d]}
    \cup {s \in Suspensions : sus'[s] # sus[s]}

\* Two requests have the date or suspension, or it changes in the hands of one.
BoardNote ==
    mixed' = mixed \cup
        {x \in Dates \cup Suspensions :
            \/ \E t, u \in Reqs : t # u /\ x \in InHand(t)' \cap InHand(u)'
            \/ x \in Changed /\ \E t \in Reqs : x \in InHand(t)'}

BoardNext == BoardStep /\ BoardNote

BoardSpec == BoardInit /\ [][BoardNext]_boardVars

-----------------------------------------------------------------------------
(* Properties *)

\* Every variable keeps its shape.
BoardTypeOK ==
    /\ cell \in [Dates -> [Slots -> Rows \cup {Blank}]]
    /\ duty \in [Dates -> Duties \cup {Blank}]
    /\ sus \in [Suspensions -> SuspensionRows \cup {Blank}]
    /\ today \in Nat
    /\ req \in [Reqs -> Requests \cup {Blank}]
    /\ mixed \in SUBSET (Dates \cup Suspensions)

\* Whatever the template, the patterns and the cells do one after the other, a
\* date has one row at most that is not cancelled.
OneActiveRow ==
    \A d \in Dates \ mixed : Cardinality(Live(cell[d])) <= 1

\* Patterns, templates and cleanups leave a published date alone: only its cell
\* changes it, and it stays published unless the cell is cleared.
PublishedKept ==
    [][\A d \in Dates \ mixed' :
          Having(cell[d], {"PUBLISHED"}) # {} /\ cell'[d] # cell[d] =>
             \E t \in Reqs :
                /\ Handling(t, "cell")
                /\ req'[t] = Blank
                /\ req[t].want # "CLEAR" => Having(cell'[d], {"PUBLISHED"}) # {}
      ]_boardVars

\* Attendance a manager reviewed, with a note without the tag of a suspension, is
\* changed by reviews only.
ReviewKept ==
    [][\A d \in Dates \ mixed' :
          duty[d] # Blank /\ duty[d].tag = Blank /\ duty[d].result # "SUSPENDED" =>
             duty'[d] # Blank /\ duty'[d].tag = Blank]_boardVars

\* A day that a suspension marked is covered by it, as it is now, and it was not
\* lifted before the day.
SuspensionsOwned ==
    \A d \in Dates \ mixed, s \in Suspensions \ mixed :
        d \in TaggedBy(s) /\ ~duty[d].typed =>
            /\ sus[s] # Blank
            /\ d \in sus[s].days
            /\ sus[s].lifted = 0 \/ d < sus[s].lifted

=============================================================================
