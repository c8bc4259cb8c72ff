------------------------------ MODULE Payroll ------------------------------
(***************************************************************************)
(* A payroll run: the draft over a cutoff, the lines rebuilt from the      *)
(* attendance facts, the manager's override, the deduction of the charges  *)
(* tagged for payroll, the finalization and the payout.                    *)
(*                                                                         *)
(* Source: app/services/worker-payroll-run.server.ts,                      *)
(* app/services/worker-payroll-identity.server.ts,                         *)
(* app/services/worker-attendance-duty-result.server.ts,                   *)
(* app/routes/store.payroll.tsx and app/routes/store.cashier-ar.tsx.       *)
(*                                                                         *)
(* A request reads, computes and then writes; another one may commit in    *)
(* between.  The charges are numbered in the order they were created.      *)
(***************************************************************************)
EXTENDS Integers, FiniteSets, Functions

CONSTANTS
    Workers,
    Days,
    Rates,      \* what a day may be worth
    Runs,       \* payroll runs a manager may create
    Cutoff,     \* the days of a run
    Charges,    \* charges of riders and cashiers, oldest first
    Owner,      \* the employee a charge resolves to, or None
    Amount,     \* amount of a charge
    Extras,     \* incentives: the policy's, or forced or blocked by an override
    Takes,      \* deductions a manager may enter
    Tasks,      \* requests the server handles at the same time
    TasksAtOnce,\* bound: the requests in flight at once
    MaxBuilds,  \* bound: the times lines are rebuilt
    Unpriced,   \* a fact recorded before the worker had a pay profile
    None

ASSUME PayrollAssumption ==
    /\ Rates \subseteq Nat
    /\ Cutoff \in [Runs -> SUBSET Days]
    /\ \A r \in Runs : IsFiniteSet(Cutoff[r])
    /\ Charges \subseteq Nat
    /\ IsFiniteSet(Charges)
    /\ Owner \in [Charges -> Workers \cup {None}]
    /\ Amount \in [Charges -> Nat \ {0}]
    /\ Extras \subseteq Nat
    /\ Takes \subseteq Nat \ {0}
    /\ Workers \cap Runs = {}
    /\ None \notin Workers \cup Rates
    /\ Unpriced \notin Rates \cup {None}

VARIABLES
    fact,       \* the AttendanceDutyResult of a worker on a day, or None
    payState,   \* status of a PayrollRun, or None before it is created
    extra,      \* per run, the incentive each worker gets, overrides included
    line,       \* per run, the PayrollRunLine of each worker, or None
    built,      \* how often lines were rebuilt: the new ones have new ids
    tagged,     \* the charges planned for payroll deduction
    paid,       \* per charge, the payments it has
    settled,    \* the charges with status SETTLED
    taken,      \* per run and worker, the payments that name the run's line
    task,       \* what a request has read and not yet committed, or None
    crossed     \* history: runs and workers overlapping requests had in hand

payVars == <<fact, payState, extra, line, built, tagged, paid, settled, taken,
             task, crossed>>

Lines == [id : Nat, facts : SUBSET Days, gross : Nat, deducted : Nat]

TaskRows == [op : {"rebuild"}, run : Runs, lines : [Workers -> Lines \cup {None}]]
            \cup [op : {"override"}, run : Runs, extras : [Workers -> Extras \cup {0}]]
            \cup [op : {"deduct"}, run : Runs, worker : Workers, id : Nat,
                  pay : [Charges -> Nat]]
            \cup [op : {"redo", "finalize", "payout"}, run : Runs]

ASSUME NoneIsNothing == None \notin {"DRAFT", "FINALIZED", "PAID"} \cup Lines \cup TaskRows

Doing(t, op) == task[t] # None /\ task[t].op = op

BeginTask(t, j) ==
    /\ task[t] = None
    /\ Cardinality({u \in Tasks : task[u] # None}) < TasksAtOnce
    /\ task' = [task EXCEPT ![t] = j]

EndTask(t) == task' = [task EXCEPT ![t] = None]

\* The run a request is about, and the worker whose charges it pays.
Touches(j) ==
    IF j = None THEN {}
    ELSE {j.run} \cup (IF j.op = "deduct" THEN {j.worker} ELSE {})

PayInit ==
    /\ fact = [w \in Workers |-> [d \in Days |-> None]]
    /\ payState = [r \in Runs |-> None]
    /\ extra \in [Runs -> [Workers -> {0}]]
    /\ line = [r \in Runs |-> [w \in Workers |-> None]]
    /\ built = 0
    /\ tagged = {}
    /\ paid = [k \in Charges |-> 0]
    /\ settled = {}
    /\ taken = [r \in Runs |-> [w \in Workers |-> 0]]
    /\ task = [t \in Tasks |-> None]
    /\ crossed = {}

-----------------------------------------------------------------------------
(* What payroll works from *)

\* One fact a worker and day: a second review of the day replaces the first.
Record(w, d, v) ==
    /\ fact' = [fact EXCEPT ![w][d] = v]
    /\ UNCHANGED <<payState, extra, line, built, tagged, paid, settled, taken, task>>

\* A suspension that is lifted takes the facts it wrote with it.
Erase(w, d) ==
    /\ fact[w][d] = 0
    /\ fact' = [fact EXCEPT ![w][d] = None]
    /\ UNCHANGED <<payState, extra, line, built, tagged, paid, settled, taken, task>>

Tag(k) ==
    /\ k \notin tagged \cup settled
    /\ tagged' = tagged \cup {k}
    /\ UNCHANGED <<fact, payState, extra, line, built, paid, settled, taken, task>>

Left(k) == IF paid[k] < Amount[k] THEN Amount[k] - paid[k] ELSE 0

Open(w) == {k \in tagged \ settled : Owner[k] = w /\ Left(k) > 0}

-----------------------------------------------------------------------------
(* The draft *)

CreateDraft(r) ==
    /\ payState[r] = None
    /\ payState' = [payState EXCEPT ![r] = "DRAFT"]
    /\ UNCHANGED <<fact, extra, line, built, tagged, paid, settled, taken, task>>

\* Mutant: a run that was finalized, and not paid out, is rebuilt all the same.
DraftOrUnpaid(r) == payState[r] \in {"DRAFT", "FINALIZED"}

Draft(r) == payState[r] = "DRAFT"

Worked(r, w) == {d \in Cutoff[r] : fact[w][d] # None}

Gross(r, w) == SumFunctionOnSet(fact[w], Worked(r, w)) + extra[r][w]

\* Mutant: the new line starts without deductions.
CarriedNone(r, w) == 0

Carried(r, w) == IF line[r][w] = None THEN 0 ELSE line[r][w].deducted

Rebuilt(r) ==
    [w \in Workers |->
        IF Worked(r, w) = {} THEN None
        ELSE [id |-> built + 1, facts |-> Worked(r, w), gross |-> Gross(r, w),
              deducted |-> Carried(r, w)]]

\* A line with deductions must not disappear, a fact must have its rate.
MayRebuild(r) ==
    /\ Draft(r)
    /\ \A w \in Workers :
          /\ \A d \in Worked(r, w) : fact[w][d] # Unpriced
          /\ Worked(r, w) = {} => Carried(r, w) = 0

RebuildBegin(t, r) ==
    /\ built < MaxBuilds
    /\ MayRebuild(r)
    /\ BeginTask(t, [op |-> "rebuild", run |-> r, lines |-> Rebuilt(r)])
    /\ UNCHANGED <<fact, payState, extra, line, built, tagged, paid, settled, taken>>

\* All lines of the run are deleted and created again.
Rebuild(t) ==
    LET r == task[t].run IN
    /\ Doing(t, "rebuild")
    /\ line' = [line EXCEPT ![r] = task[t].lines]
    /\ built' = built + 1
    /\ EndTask(t)
    /\ UNCHANGED <<fact, payState, extra, tagged, paid, settled, taken>>

\* The overrides of a run are one document, read and written as a whole.
OverrideBegin(t, r, w, x) ==
    /\ Draft(r)
    /\ BeginTask(t, [op |-> "override", run |-> r,
                     extras |-> [extra[r] EXCEPT ![w] = x]])
    /\ UNCHANGED <<fact, payState, extra, line, built, tagged, paid, settled, taken>>

\* The rebuild that follows is a transaction of its own: it may be refused.
SaveOverride(t) ==
    /\ Doing(t, "override")
    /\ extra' = [extra EXCEPT ![task[t].run] = task[t].extras]
    /\ task' = [task EXCEPT ![t] = [op |-> "redo", run |-> task[t].run]]
    /\ UNCHANGED <<fact, payState, line, built, tagged, paid, settled, taken>>

Redo(t) ==
    LET r == task[t].run IN
    /\ Doing(t, "redo")
    /\ built < MaxBuilds
    /\ MayRebuild(r)
    /\ task' = [task EXCEPT ![t] = [op |-> "rebuild", run |-> r, lines |-> Rebuilt(r)]]
    /\ UNCHANGED <<fact, payState, extra, line, built, tagged, paid, settled, taken>>

-----------------------------------------------------------------------------
(* The deduction *)

LeftBefore(k, w) ==
    SumFunctionOnSet([j \in Charges |-> Left(j)], {j \in Open(w) : j < k})

\* Mutant: every open charge is paid the amount entered.
ShareOfEach(k, w, amount) == IF k \in Open(w) THEN amount ELSE 0

\* First in, first out, and no charge beyond what remains of it.
Share(k, w, amount) ==
    LET rest == amount - LeftBefore(k, w) IN
    IF k \notin Open(w) \/ rest <= 0 THEN 0
    ELSE IF rest < Left(k) THEN rest ELSE Left(k)

\* The form is shown for a draft only; the request does not ask for the status.
DeductBegin(t, r, w, amount) ==
    /\ line[r][w] # None
    /\ Open(w) # {}
    /\ BeginTask(t, [op |-> "deduct", run |-> r, worker |-> w, id |-> line[r][w].id,
                     pay |-> [k \in Charges |-> Share(k, w, amount)]])
    /\ UNCHANGED <<fact, payState, extra, line, built, tagged, paid, settled, taken>>

\* A line that was rebuilt meanwhile has another id, and the request fails.
Deduct(t) ==
    LET r == task[t].run
        w == task[t].worker
        pay == task[t].pay
        total == SumFunctionOnSet(pay, Charges) IN
    /\ Doing(t, "deduct")
    /\ line[r][w] # None
    /\ line[r][w].id = task[t].id
    /\ paid' = [k \in Charges |-> paid[k] + pay[k]]
    /\ settled' = (settled \ {k \in Charges : pay[k] > 0})
                  \cup {k \in Charges : pay[k] > 0 /\ paid'[k] >= Amount[k]}
    /\ taken' = [taken EXCEPT ![r][w] = @ + total]
    /\ line' = [line EXCEPT ![r][w].deducted = @ + total]
    /\ EndTask(t)
    /\ UNCHANGED <<fact, payState, extra, built, tagged>>

-----------------------------------------------------------------------------
(* Finalization and payout *)

Backed(r) ==
    /\ \E w \in Workers : line[r][w] # None
    /\ \A w \in Workers : line[r][w] # None => line[r][w].facts # {}

\* A tagged charge no employee answers for blocks every finalization.
Unresolved == {k \in tagged \ settled : Owner[k] = None /\ Left(k) > 0}

FinalizeBegin(t, r) ==
    /\ Draft(r)
    /\ Unresolved = {}
    /\ Backed(r)
    /\ BeginTask(t, [op |-> "finalize", run |-> r])
    /\ UNCHANGED <<fact, payState, extra, line, built, tagged, paid, settled, taken>>

FinalizeRun(t) ==
    /\ Doing(t, "finalize")
    /\ payState' = [payState EXCEPT ![task[t].run] = "FINALIZED"]
    /\ EndTask(t)
    /\ UNCHANGED <<fact, extra, line, built, tagged, paid, settled, taken>>

PayoutBegin(t, r) ==
    /\ payState[r] = "FINALIZED"
    /\ Backed(r)
    /\ BeginTask(t, [op |-> "payout", run |-> r])
    /\ UNCHANGED <<fact, payState, extra, line, built, tagged, paid, settled, taken>>

MarkPaid(t) ==
    /\ Doing(t, "payout")
    /\ payState' = [payState EXCEPT ![task[t].run] = "PAID"]
    /\ EndTask(t)
    /\ UNCHANGED <<fact, extra, line, built, tagged, paid, settled, taken>>

\* A refused request, or one that fails, leaves nothing behind.
DropTask(t) ==
    /\ task[t] # None
    /\ EndTask(t)
    /\ UNCHANGED <<fact, payState, extra, line, built, tagged, paid, settled, taken>>

PayRequest(t) ==
    \/ \E r \in Runs : RebuildBegin(t, r) \/ FinalizeBegin(t, r) \/ PayoutBegin(t, r)
    \/ \E r \in Runs, w \in Workers, x \in Extras : OverrideBegin(t, r, w, x)
    \/ \E r \in Runs, w \in Workers, a \in Takes : DeductBegin(t, r, w, a)
    \/ Rebuild(t) \/ SaveOverride(t) \/ Redo(t) \/ Deduct(t)
    \/ FinalizeRun(t) \/ MarkPaid(t) \/ DropTask(t)

PayNext ==
    \/ \E w \in Workers, d \in Days :
          /\ \/ \E v \in Rates \cup {Unpriced} : Record(w, d, v)
             \/ Erase(w, d)
          /\ UNCHANGED crossed
    \/ \E k \in Charges : Tag(k) /\ UNCHANGED crossed
    \/ \E r \in Runs : CreateDraft(r) /\ UNCHANGED crossed
    \/ \E t \in Tasks :
          /\ PayRequest(t)
          /\ crossed' = crossed \cup
                UNION {(Touches(task[t]) \cup Touches(task'[t])) \cap Touches(task'[u]) :
                          u \in Tasks \ {t}}

PaySpec == PayInit /\ [][PayNext]_payVars

-----------------------------------------------------------------------------
(* Properties *)

\* Every variable keeps its shape.
PayTypeOK ==
    /\ fact \in [Workers -> [Days -> Rates \cup {Unpriced, None}]]
    /\ payState \in [Runs -> {"DRAFT", "FINALIZED", "PAID", None}]
    /\ extra \in [Runs -> [Workers -> Extras \cup {0}]]
    /\ line \in [Runs -> [Workers -> Lines \cup {None}]]
    /\ built \in Nat
    /\ tagged \in SUBSET Charges
    /\ paid \in [Charges -> Nat]
    /\ settled \in SUBSET Charges
    /\ taken \in [Runs -> [Workers -> Nat]]
    /\ task \in [Tasks -> TaskRows \cup {None}]
    /\ crossed \in SUBSET (Runs \cup Workers)

\* What a line takes off a worker's pay is what its payments credited to the
\* worker's charges, however often the lines are rebuilt.
DeductionsCarried ==
    \A r \in Runs \ crossed, w \in Workers :
        taken[r][w] = IF line[r][w] = None THEN 0 ELSE line[r][w].deducted

\* Payroll never takes more than a charge, over all runs, and the charge is
\* settled when nothing is left of it.
NeverOvertaken ==
    \A k \in Charges : Owner[k] \notin crossed =>
        /\ paid[k] <= Amount[k]
        /\ k \in settled <=> paid[k] = Amount[k]

\* A run stays finalized, and its lines keep the facts and the gross pay they
\* were finalized with, whatever is reviewed, overridden or deducted later, as
\* long as the worker's employee row stands.
FinalizedFrozen ==
    [][\A r \in Runs : payState[r] \in {"FINALIZED", "PAID"} /\ r \notin crossed' =>
          /\ payState'[r] \in {payState[r], "PAID"}
          /\ \A w \in Workers :
                /\ (line'[r][w] = None) = (line[r][w] = None)
                /\ line[r][w] # None =>
                      /\ line'[r][w].facts = line[r][w].facts
                      /\ line'[r][w].gross = line[r][w].gross]_payVars

=============================================================================
