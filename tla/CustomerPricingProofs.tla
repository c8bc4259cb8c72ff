----------------------- MODULE CustomerPricingProofs -----------------------
(***************************************************************************)
(* What holds of price rules and the prices they make, for any customer,   *)
(* any rules and any number of requests: requests that do not overlap keep *)
(* one rule at a time, and the quote on the road is what the pad charges.  *)
(***************************************************************************)
EXTENDS CustomerPricing, SumProofs

-----------------------------------------------------------------------------
(* Price rules.  What a request has found free when it read stays free as   *)
(* long as no other request changes rules: rules then only end, or go, and  *)
(* time only passes.                                                        *)

Rule(t) == tab[t] # Unset /\ tab[t].op # "order"

\* Two rows that share an instant from now on, were both active.
Overlap(a, b) ==
    /\ a.on = b.on
    /\ NoLater(Now, a.to) /\ NoLater(Now, b.to)
    /\ NoLater(a.from, b.to) /\ NoLater(b.from, a.to)

\* The row a finds no active rule with an end in its way but those of G.
FreeBut(a, G) ==
    \A i \in RuleIds \ G :
        Known(i) /\ rules[i].to # Unset /\ rules[i].active => ~Overlap(a, rules[i])

\* What a request that changes rules has found, with nobody else at it.
Free(t) ==
    /\ tab[t].op = "create" /\ tab[t].row.to # Unset /\ tab[t].row.active =>
          FreeBut(tab[t].row, {})
    /\ tab[t].op = "save" /\ tab[t].row.to # Unset /\ tab[t].row.active =>
          FreeBut(tab[t].row, {tab[t].id})
    /\ tab[t].op = "turn on" /\ Known(tab[t].id) /\ rules[tab[t].id].to # Unset =>
          FreeBut(rules[tab[t].id], {tab[t].id})

RulesType ==
    /\ shelf \in [Products -> Shelves]
    /\ rules \in [RuleIds -> RuleRows \cup {Unset}]
    /\ today \in Nat
    /\ tab \in [Tabs -> TabRows \cup {Unset}]

RulesInv ==
    /\ RulesType
    /\ \A t \in Tabs : Rule(t) /\ tab[t].alone =>
          Free(t) /\ \A u \in Tabs : Rule(u) => u = t
    /\ OneRuleAtATime

\* A request that changes rules has one of three forms.
LEMMA RuleJob ==
    ASSUME RulesType, NEW t \in Tabs, Rule(t)
    PROVE  /\ tab[t] # Unset /\ tab[t].op \in {"create", "save", "turn on"}
           /\ tab[t].alone \in BOOLEAN
           /\ tab[t].op # "turn on" => tab[t].row \in RuleRows
           /\ tab[t].op # "create" => tab[t].id \in RuleIds
<1> PICK x \in TabRows : x = tab[t] /\ x.op # "order"
  BY DEF RulesType, Rule
<1> QED
  BY DEF TabRows, Rule

\* A row in words of its parts.
LEMMA RuleRow ==
    ASSUME RulesType, NEW i \in RuleIds, Known(i)
    PROVE  /\ rules[i] \in RuleRows
           /\ rules[i].from \in Nat \cup {Unset} /\ rules[i].to \in Nat \cup {Unset}
           /\ rules[i].active \in BOOLEAN
BY DEF RulesType, Known, RuleRows

\* No two rules collide that are not rushed and have an end.
LEMMA OneRuleAsOverlap ==
    OneRuleAtATime <=>
      \A i, j \in RuleIds \ rushed :
        /\ i # j /\ Known(i) /\ Known(j) /\ rules[i].to # Unset /\ rules[j].to # Unset
        /\ rules[i].active /\ rules[j].active
        => ~Overlap(rules[i], rules[j])
BY DEF OneRuleAtATime, Collide, Overlap

\* Rows that overlap do so from either side.
LEMMA OverlapSame ==
    ASSUME NEW a, NEW b
    PROVE  Overlap(a, b) <=> Overlap(b, a)
BY DEF Overlap

\* Rules that stay, end, go or are turned off, while time passes.
Thins ==
    /\ today' \in Nat /\ today <= today'
    /\ \A i \in RuleIds :
          rules'[i] # Unset =>
             /\ Known(i)
             /\ rules'[i].on = rules[i].on /\ rules'[i].from = rules[i].from
             /\ rules'[i].to = rules[i].to
             /\ rules'[i].active => rules[i].active

\* What is not over later was not over before.
LEMMA NotOverBefore ==
    ASSUME NEW m \in Nat, NEW n \in Nat, m <= n, NEW x \in Nat \cup {Unset}, NoLater(n, x)
    PROVE  NoLater(m, x)
BY UnsetAssumption DEF NoLater

\* Noon comes later as days pass.
LEMMA NoonLater ==
    ASSUME NEW m \in Nat, NEW n \in Nat, m <= n
    PROVE  2 * m + 1 \in Nat /\ 2 * n + 1 \in Nat /\ 2 * m + 1 <= 2 * n + 1
OBVIOUS

\* Then what did not overlap does not.
LEMMA OverlapThins ==
    ASSUME RulesType, Thins, NEW a \in RuleRows, NEW i \in RuleIds, rules'[i] # Unset,
           Overlap(a, rules[i])'
    PROVE  Overlap(a, rules[i])
<1>1. Known(i)
  BY DEF Thins
<1>2. a.to \in Nat \cup {Unset} /\ rules[i].to \in Nat \cup {Unset}
  BY <1>1, RuleRow DEF RuleRows
<1>3. /\ rules'[i].on = rules[i].on /\ rules'[i].from = rules[i].from
      /\ rules'[i].to = rules[i].to
  BY DEF Thins
<1>4. 2 * today + 1 \in Nat /\ 2 * today' + 1 \in Nat /\ 2 * today + 1 <= 2 * today' + 1
  <2>1. today \in Nat /\ today' \in Nat /\ today <= today'
    BY DEF Thins, RulesType
  <2> QED
    BY <2>1, NoonLater
<1>5. NoLater(2 * today' + 1, a.to) /\ NoLater(2 * today' + 1, rules[i].to)
  BY <1>3 DEF Overlap, NoLater, Now
<1>6. NoLater(2 * today + 1, a.to)
  BY <1>2, <1>4, <1>5, NotOverBefore
<1>7. NoLater(2 * today + 1, rules[i].to)
  BY <1>2, <1>4, <1>5, NotOverBefore
<1>8. /\ a.on = rules[i].on
      /\ NoLater(a.from, rules[i].to) /\ NoLater(rules[i].from, a.to)
  BY <1>3 DEF Overlap, NoLater
<1> QED
  BY <1>6, <1>7, <1>8 DEF Overlap, Now


\* Rows of which only the flag differs overlap the same rows.
LEMMA OverlapFields ==
    ASSUME NEW a, NEW b, NEW c, a.on = b.on, a.from = b.from, a.to = b.to
    PROVE  Overlap(a, c) <=> Overlap(b, c)
BY DEF Overlap

\* A row that was free stays free while rules only thin out.
LEMMA FreeThins ==
    ASSUME RulesType, Thins, NEW a \in RuleRows, NEW G, FreeBut(a, G)
    PROVE  FreeBut(a, G)'
<1> SUFFICES ASSUME NEW i \in RuleIds \ G, rules'[i] # Unset, rules'[i].to # Unset,
                    rules'[i].active, Overlap(a, rules[i])'
             PROVE  FALSE
  BY DEF FreeBut, Known
<1>1. Overlap(a, rules[i])
  BY OverlapThins
<1>2. Known(i) /\ rules[i].to # Unset /\ rules[i].active
  BY DEF Thins
<1> QED
  BY <1>1, <1>2 DEF FreeBut

\* Rules that did not collide do not when they thin out.
LEMMA OneRuleThins ==
    ASSUME RulesType, RulesType', Thins, OneRuleAtATime, rushed' = rushed
    PROVE  OneRuleAtATime'
<1> SUFFICES ASSUME NEW i \in RuleIds \ rushed, NEW j \in RuleIds \ rushed, i # j,
                    rules'[i] # Unset, rules'[j] # Unset,
                    rules'[i].to # Unset, rules'[j].to # Unset,
                    Collide(i, j)'
             PROVE  FALSE
  BY DEF OneRuleAtATime, Known
<1>1. /\ Known(i) /\ rules[i].on = rules'[i].on /\ rules[i].from = rules'[i].from
      /\ rules[i].to = rules'[i].to /\ (rules'[i].active => rules[i].active)
  BY DEF Thins
<1>2. /\ Known(j) /\ rules[j].on = rules'[j].on /\ rules[j].from = rules'[j].from
      /\ rules[j].to = rules'[j].to /\ (rules'[j].active => rules[j].active)
  BY DEF Thins
<1>3. rules[i] \in RuleRows
  BY <1>1, RuleRow
<1> PICK a \in RuleRows : a = rules[i]
  BY <1>3
<1>4. Overlap(a, rules[j])'
  BY <1>1 DEF Collide, Overlap
<1>5. Overlap(rules[i], rules[j])
  BY <1>4, OverlapThins
<1>6. rules[i].active /\ rules[j].active
  BY <1>1, <1>2 DEF Collide
<1> QED
  BY <1>1, <1>2, <1>5, <1>6, OneRuleAsOverlap

\* A step that thins rules out, and at which requests only end, keeps it all.
LEMMA ThinsKeep ==
    ASSUME RulesInv, RulesType', Thins, rushed' = rushed,
           \A t \in Tabs : Rule(t)' => tab'[t] = tab[t]
    PROVE  RulesInv'
<1>1. RulesType /\ OneRuleAtATime
  BY DEF RulesInv
<1>2. OneRuleAtATime'
  BY <1>1, OneRuleThins
<1>3. ASSUME NEW t \in Tabs, Rule(t)', tab'[t].alone
      PROVE  Free(t)' /\ \A u \in Tabs : Rule(u)' => u = t
  <2>1. Rule(t) /\ tab'[t] = tab[t]
    BY <1>3 DEF Rule
  <2>2. Free(t) /\ \A u \in Tabs : Rule(u) => u = t
    BY <1>3, <2>1 DEF RulesInv
  <2>3. \A u \in Tabs : Rule(u)' => u = t
    BY <2>2 DEF Rule
  <2>4. /\ tab[t].op # "turn on" => tab[t].row \in RuleRows
        /\ tab[t].op # "create" => tab[t].id \in RuleIds
    BY <1>1, <2>1, RuleJob
  <2>5. CASE tab[t].op = "create"
    <3> PICK a \in RuleRows : a = tab[t].row
      BY <2>4, <2>5
    <3> SUFFICES ASSUME a.to # Unset, a.active
                 PROVE  FreeBut(a, {})'
      BY <2>1, <2>3, <2>5 DEF Free
    <3>1. FreeBut(a, {})
      BY <2>2, <2>5 DEF Free
    <3> QED
      BY <1>1, <3>1, FreeThins
  <2>6. CASE tab[t].op = "save"
    <3> PICK a \in RuleRows, k \in RuleIds : a = tab[t].row /\ k = tab[t].id
      BY <2>4, <2>6
    <3> SUFFICES ASSUME a.to # Unset, a.active
                 PROVE  FreeBut(a, {k})'
      BY <2>1, <2>3, <2>6 DEF Free
    <3>1. FreeBut(a, {k})
      BY <2>2, <2>6 DEF Free
    <3> QED
      BY <1>1, <3>1, FreeThins
  <2>7. CASE tab[t].op = "turn on"
    <3> PICK k \in RuleIds : k = tab[t].id
      BY <2>4, <2>7
    <3> SUFFICES ASSUME rules'[k] # Unset, rules'[k].to # Unset
                 PROVE  FreeBut(rules[k], {k})'
      BY <2>1, <2>3, <2>7 DEF Free, Known
    <3>1. /\ Known(k) /\ rules[k].on = rules'[k].on /\ rules[k].from = rules'[k].from
          /\ rules[k].to = rules'[k].to
      BY DEF Thins
    <3> PICK a \in RuleRows : a = rules[k]
      BY <1>1, <3>1, RuleRow
    <3>2. FreeBut(a, {k})
      BY <2>2, <2>7, <3>1 DEF Free
    <3>3. FreeBut(a, {k})'
      BY <1>1, <3>2, FreeThins
    <3> QED
      BY <3>1, <3>3 DEF FreeBut, Overlap
  <2> QED
    BY <1>1, <2>1, <2>5, <2>6, <2>7, RuleJob
<1> QED
  BY <1>2, <1>3 DEF RulesInv


\* What the guards ask of a row with an end leaves it free: the list page's.
LEMMA ListGuardFrees ==
    ASSUME RulesType, NEW a \in RuleRows, a.to # Unset, NEW G,
           \A i \in RuleIds \ G : Known(i) => ~ListGuardSees(a, i)
    PROVE  FreeBut(a, G)
<1> SUFFICES ASSUME NEW i \in RuleIds \ G, Known(i), rules[i].to # Unset,
                    rules[i].active, Overlap(a, rules[i])
             PROVE  ListGuardSees(a, i)
  BY DEF FreeBut
<1> QED
  BY DEF Overlap, ListGuardSees

\* And the edit page's.
LEMMA EditGuardFrees ==
    ASSUME RulesType, NEW a \in RuleRows, a.to # Unset, NEW G,
           \A i \in RuleIds \ G : Known(i) => ~EditGuardSees(a, i)
    PROVE  FreeBut(a, G)
<1> SUFFICES ASSUME NEW i \in RuleIds \ G, Known(i), rules[i].to # Unset,
                    rules[i].active, Overlap(a, rules[i])
             PROVE  EditGuardSees(a, i)
  BY DEF FreeBut
<1> QED
  BY DEF Overlap, EditGuardSees

\* The pages write a row of the table.
LEMMA RowRow ==
    ASSUME NEW f \in Forms, NEW n \in Nat
    PROVE  Row(f, n) \in RuleRows
<1>1. /\ f.on \in Goods /\ f.term \in Terms /\ f.active \in BOOLEAN
      /\ f.first \in Nat \cup {Unset} /\ f.last \in Nat \cup {Unset}
  BY PricingAssumption
<1>2. (IF f.first = Unset THEN Unset ELSE 2 * f.first) \in Nat \cup {Unset}
  BY <1>1
<1>3. (IF f.last = Unset THEN Unset ELSE 2 * f.last + n) \in Nat \cup {Unset}
  BY <1>1
<1> QED
  BY <1>1, <1>2, <1>3 DEF Row, RuleRows

\* A request that begins after finding its row free keeps the invariant.
LEMMA BeginKeeps ==
    ASSUME RulesInv, RulesType', NEW t \in Tabs, NEW job \in TabRows,
           job.op # "order", BeginRule(t, job), job.alone = (Others(t) = {}),
           /\ job.op = "create" /\ job.row.to # Unset /\ job.row.active =>
                 FreeBut(job.row, {})
           /\ job.op = "save" /\ job.row.to # Unset /\ job.row.active =>
                 FreeBut(job.row, {job.id})
           /\ job.op = "turn on" /\ Known(job.id) /\ rules[job.id].to # Unset =>
                 FreeBut(rules[job.id], {job.id})
    PROVE  RulesInv'
<1>1. RulesType /\ OneRuleAtATime
  BY DEF RulesInv
<1>2. rules' = rules /\ today' = today /\ rushed' = rushed
  BY DEF BeginRule
<1>3. OneRuleAtATime'
  BY <1>1, <1>2 DEF OneRuleAtATime, Collide, Known, Now
<1>4. tab'[t] = job /\ job # Unset
  BY UnsetAssumption DEF BeginRule
<1>5. ASSUME NEW u \in Tabs, u # t, Rule(u)' PROVE u \in Others(t) /\ tab'[u].alone = FALSE
  <2>1. u \in Others(t)
    BY <1>5 DEF Rule, BeginRule, Others
  <2>2. tab'[u] = [tab[u] EXCEPT !.alone = FALSE]
    BY <1>5, <2>1 DEF BeginRule
  <2>3. Rule(u)
    BY <2>1 DEF Others, Rule
  <2> PICK x \in TabRows : x = tab[u] /\ x.op # "order"
    BY <1>1, <2>3 DEF Rule, RulesType
  <2>4. [x EXCEPT !.alone = FALSE].alone = FALSE
    BY DEF TabRows
  <2> QED
    BY <2>1, <2>2, <2>4
<1>6. ASSUME NEW u \in Tabs, Rule(u)', tab'[u].alone
      PROVE  Free(u)' /\ \A v \in Tabs : Rule(v)' => v = u
  <2>1. u = t
    BY <1>5, <1>6
  <2>2. Others(t) = {}
    BY <1>4, <1>6, <2>1
  <2>3. \A v \in Tabs : Rule(v)' => v = u
    BY <1>5, <2>1, <2>2
  <2>4. Free(t)'
    BY <1>2, <1>4 DEF Free, FreeBut, Overlap, Known, Now
  <2> QED
    BY <2>1, <2>3, <2>4
<1> QED
  BY <1>3, <1>6 DEF RulesInv


\* A rule that is written was free, or is marked as rushed.
LEMMA WriteKeeps ==
    ASSUME RulesInv, RulesType', NEW t \in Tabs, Rule(t), NEW id \in RuleIds,
           NEW row \in RuleRows, WriteRule(t, id, row),
           tab[t].alone /\ row.to # Unset /\ row.active => FreeBut(row, {id})
    PROVE  RulesInv'
<1>1. RulesType /\ OneRuleAtATime
  BY DEF RulesInv
<1>2. /\ rules' = [rules EXCEPT ![id] = row] /\ today' = today
      /\ rushed' = (IF tab[t].alone THEN rushed ELSE rushed \cup {id})
      /\ tab' = [tab EXCEPT ![t] = Unset]
  BY DEF WriteRule, EndTab
<1>3. rules'[id] = row /\ \A i \in RuleIds \ {id} : rules'[i] = rules[i]
  BY <1>1, <1>2 DEF RulesType
<1>4. tab'[t] = Unset /\ \A u \in Tabs \ {t} : tab'[u] = tab[u]
  BY <1>1, <1>2 DEF RulesType
<1>5. Now' = Now
  BY <1>2 DEF Now
<1>6. ASSUME NEW u \in Tabs, Rule(u)', tab'[u].alone PROVE FALSE
  <2>1. u # t /\ Rule(u) /\ tab[u].alone
    BY <1>4, <1>6 DEF Rule
  <2> QED
    BY <2>1 DEF RulesInv
<1>7. ASSUME NEW i \in RuleIds \ rushed', NEW j \in RuleIds \ rushed', i # j,
             rules'[i] # Unset, rules'[j] # Unset,
             rules'[i].to # Unset, rules'[j].to # Unset,
             Collide(i, j)'
      PROVE  FALSE
  <2>1. i \notin rushed /\ j \notin rushed
    BY <1>2, <1>7
  <2>2. i # id /\ j # id => ~Collide(i, j)
    BY <1>1, <1>3, <1>7, <2>1 DEF OneRuleAtATime, Known
  <2>3. i # id /\ j # id => Collide(i, j)
    BY <1>3, <1>5, <1>7 DEF Collide
  <2>4. i = id \/ j = id
    BY <2>2, <2>3
  <2>5. tab[t].alone
    BY <1>2, <1>7, <2>4
  <2>6. /\ rules'[i].active /\ rules'[j].active /\ rules'[i].on = rules'[j].on
        /\ NoLater(Now, rules'[i].to) /\ NoLater(Now, rules'[j].to)
        /\ NoLater(rules'[i].from, rules'[j].to) /\ NoLater(rules'[j].from, rules'[i].to)
    BY <1>5, <1>7 DEF Collide
  <2>7. CASE i = id
    <3>1. row.to # Unset /\ row.active /\ Overlap(row, rules[j]) /\ Known(j)
          /\ rules[j].to # Unset /\ rules[j].active
      BY <1>3, <1>7, <2>6, <2>7 DEF Overlap, Known
    <3> QED
      BY <1>7, <2>5, <2>7, <3>1 DEF FreeBut
  <2>8. CASE j = id
    <3>1. row.to # Unset /\ row.active /\ Overlap(row, rules[i]) /\ Known(i)
          /\ rules[i].to # Unset /\ rules[i].active
      BY <1>3, <1>7, <2>6, <2>8 DEF Overlap, Known
    <3> QED
      BY <1>7, <2>5, <2>8, <3>1 DEF FreeBut
  <2> QED
    BY <2>4, <2>7, <2>8
<1>8. OneRuleAtATime'
  BY <1>7 DEF OneRuleAtATime, Known
<1> QED
  BY <1>6, <1>8 DEF RulesInv

\* The price off the shelf is in cents.
LEMMA BaseType ==
    ASSUME RulesType, NEW p \in Products, NEW kind
    PROVE  Base(p, kind) \in Nat
<1> PICK s \in Shelves : s = shelf[p]
  BY DEF RulesType
<1>1. s.srp \in Nat /\ s.price \in Nat
  BY PricingAssumption
<1> QED
  BY <1>1 DEF Base

\* The types at the start.
LEMMA RulesTypeInit == PricingInit => RulesType
BY DEF PricingInit, RulesType

\* A request that begins enters a row of the table of requests.
LEMMA BeginType ==
    ASSUME RulesType, NEW t \in Tabs, NEW job \in TabRows, BeginRule(t, job)
    PROVE  RulesType'
<1>1. UNCHANGED <<shelf, rules, today>>
  BY DEF BeginRule
<1>2. ASSUME NEW u \in Tabs, u \in Others(t) PROVE [tab[u] EXCEPT !.alone = FALSE] \in TabRows
  <2> PICK x \in TabRows : x = tab[u] /\ x.op # "order"
    BY <1>2 DEF RulesType, Others
  <2>1. [x EXCEPT !.alone = FALSE] \in TabRows
    BY DEF TabRows
  <2> QED
    BY <2>1
<1>3. tab' \in [Tabs -> TabRows \cup {Unset}]
  BY <1>2 DEF BeginRule, RulesType
<1> QED
  BY <1>1, <1>3 DEF RulesType

\* A rule that is written is a row.
LEMMA WriteType ==
    ASSUME RulesType, NEW t \in Tabs, NEW id \in RuleIds, NEW row \in RuleRows,
           WriteRule(t, id, row)
    PROVE  RulesType'
BY DEF WriteRule, EndTab, RulesType


\* The requests that begin are rows of the table of requests: a new row,
LEMMA CreateJob ==
    ASSUME NEW row \in RuleRows, NEW b \in BOOLEAN
    PROVE  [op |-> "create", row |-> row, alone |-> b] \in TabRows
BY DEF TabRows

\* an edited one,
LEMMA SaveJob ==
    ASSUME NEW row \in RuleRows, NEW id \in RuleIds, NEW b \in BOOLEAN
    PROVE  [op |-> "save", id |-> id, row |-> row, alone |-> b] \in TabRows
BY DEF TabRows

\* or one that is turned on.
LEMMA TurnOnJob ==
    ASSUME NEW id \in RuleIds, NEW b \in BOOLEAN
    PROVE  [op |-> "turn on", id |-> id, alone |-> b] \in TabRows
BY DEF TabRows

\* The beginnings of the three forms: the new row.
LEMMA CreateBeginKeeps ==
    ASSUME RulesInv, NEW t \in Tabs, NEW row \in RuleRows, CreateBegin(t, row)
    PROVE  RulesInv'
<1> PICK b \in BOOLEAN : b = (Others(t) = {})
  OBVIOUS
<1> PICK job \in TabRows : job = [op |-> "create", row |-> row, alone |-> b]
  BY CreateJob
<1>1. BeginRule(t, job)
  BY DEF CreateBegin
<1>2. RulesType
  BY DEF RulesInv
<1>3. RulesType'
  BY <1>1, <1>2, BeginType
<1>4. row.to # Unset /\ row.active => FreeBut(row, {})
  BY <1>2, ListGuardFrees DEF CreateBegin
<1> QED
  BY <1>1, <1>3, <1>4, BeginKeeps

\* The edit page.
LEMMA SaveBeginKeeps ==
    ASSUME RulesInv, NEW t \in Tabs, NEW id \in RuleIds, NEW row \in RuleRows,
           SaveBegin(t, id, row)
    PROVE  RulesInv'
<1> PICK b \in BOOLEAN : b = (Others(t) = {})
  OBVIOUS
<1> PICK job \in TabRows : job = [op |-> "save", id |-> id, row |-> row, alone |-> b]
  BY SaveJob
<1>1. BeginRule(t, job)
  BY DEF SaveBegin
<1>2. RulesType
  BY DEF RulesInv
<1>3. RulesType'
  BY <1>1, <1>2, BeginType
<1>4. row.to # Unset /\ row.active => FreeBut(row, {id})
  BY <1>2, EditGuardFrees DEF SaveBegin
<1> QED
  BY <1>1, <1>3, <1>4, BeginKeeps

\* The button of the list page.
LEMMA TurnOnBeginKeeps ==
    ASSUME RulesInv, NEW t \in Tabs, NEW id \in RuleIds, TurnOnBegin(t, id)
    PROVE  RulesInv'
<1> PICK b \in BOOLEAN : b = (Others(t) = {})
  OBVIOUS
<1> PICK job \in TabRows : job = [op |-> "turn on", id |-> id, alone |-> b]
  BY TurnOnJob
<1>1. BeginRule(t, job)
  BY DEF TurnOnBegin
<1>2. RulesType
  BY DEF RulesInv
<1>3. RulesType'
  BY <1>1, <1>2, BeginType
<1>4. Known(id) /\ rules[id] \in RuleRows
  BY <1>2, RuleRow DEF TurnOnBegin
<1>5. rules[id].to # Unset => FreeBut(rules[id], {id})
  BY <1>2, <1>4, ListGuardFrees DEF TurnOnBegin
<1> QED
  BY <1>1, <1>3, <1>5, BeginKeeps

\* The writes of the three forms: the new row.
LEMMA CreateKeeps ==
    ASSUME RulesInv, NEW t \in Tabs, NEW id \in RuleIds, CreateRule(t, id)
    PROVE  RulesInv'
<1>1. RulesType /\ Rule(t) /\ tab[t].op = "create"
  BY DEF RulesInv, CreateRule, Doing, Rule
<1> PICK row \in RuleRows : row = tab[t].row
  BY <1>1, RuleJob
<1>2. WriteRule(t, id, row)
  BY DEF CreateRule
<1>3. RulesType'
  BY <1>1, <1>2, WriteType
<1>4. tab[t].alone /\ row.to # Unset /\ row.active => FreeBut(row, {id})
  BY <1>1 DEF RulesInv, Free, FreeBut
<1> QED
  BY <1>1, <1>2, <1>3, <1>4, WriteKeeps

\* The edit page.
LEMMA SaveKeeps ==
    ASSUME RulesInv, NEW t \in Tabs, SaveRule(t)
    PROVE  RulesInv'
<1>1. RulesType /\ Rule(t) /\ tab[t].op = "save"
  BY DEF RulesInv, SaveRule, Doing, Rule
<1> PICK row \in RuleRows, id \in RuleIds : row = tab[t].row /\ id = tab[t].id
  BY <1>1, RuleJob
<1>2. WriteRule(t, id, row)
  BY DEF SaveRule
<1>3. RulesType'
  BY <1>1, <1>2, WriteType
<1>4. tab[t].alone /\ row.to # Unset /\ row.active => FreeBut(row, {id})
  BY <1>1 DEF RulesInv, Free
<1> QED
  BY <1>1, <1>2, <1>3, <1>4, WriteKeeps

\* The button of the list page.
LEMMA TurnOnKeeps ==
    ASSUME RulesInv, NEW t \in Tabs, TurnOn(t)
    PROVE  RulesInv'
<1>1. RulesType /\ Rule(t) /\ tab[t].op = "turn on" /\ Known(tab[t].id)
  BY DEF RulesInv, TurnOn, Doing, Rule
<1> PICK id \in RuleIds : id = tab[t].id
  BY <1>1, RuleJob
<1> PICK q \in RuleRows : q = rules[id]
  BY <1>1, RuleRow
<1> PICK row \in RuleRows : row = [q EXCEPT !.active = TRUE]
  BY DEF RuleRows
<1>2. row.on = q.on /\ row.from = q.from /\ row.to = q.to
  BY DEF RuleRows
<1>3. WriteRule(t, id, row)
  BY DEF TurnOn
<1>4. RulesType'
  BY <1>1, <1>3, WriteType
<1>5. tab[t].alone /\ rules[id].to # Unset => FreeBut(rules[id], {id})
  BY <1>1 DEF RulesInv, Free
<1>6. tab[t].alone /\ row.to # Unset => FreeBut(row, {id})
  BY <1>2, <1>5 DEF FreeBut, Overlap
<1> QED
  BY <1>1, <1>3, <1>4, <1>6, WriteKeeps


\* Steps at which no request begins: orders and restocking change neither the rules
\* nor the requests that change them.
LEMMA OrdersKeep ==
    ASSUME RulesInv, RulesType', rules' = rules, today' = today, rushed' = rushed,
           \A t \in Tabs : Rule(t)' => tab'[t] = tab[t]
    PROVE  RulesInv'
<1>1. Thins
  BY DEF Thins, RulesInv, RulesType, Known
<1> QED
  BY <1>1, ThinsKeep

\* A tab that ends leaves the others.
LEMMA EndTabKeeps ==
    ASSUME RulesType, NEW t \in Tabs, EndTab(t)
    PROVE  /\ tab' \in [Tabs -> TabRows \cup {Unset}]
           /\ \A u \in Tabs : Rule(u)' => tab'[u] = tab[u]
BY DEF RulesType, EndTab, Rule

\* An order that begins changes no rule.
LEMMA OrderBeginKeeps ==
    ASSUME RulesInv, NEW t \in Tabs, NEW qty \in Carts, OrderBegin(t, qty)
    PROVE  RulesInv'
<1>1. RulesType
  BY DEF RulesInv
<1> PICK base \in [Goods -> Nat] : base = [g \in Goods |-> Base(g[1], g[2])]
  <2>1. \A g \in Goods : Base(g[1], g[2]) \in Nat
    BY <1>1, BaseType DEF Goods
  <2> QED
    BY <2>1
<1> PICK job \in TabRows : job = [op |-> "order", qty |-> qty, base |-> base]
  BY PricingAssumption DEF TabRows
<1>2. tab' = [tab EXCEPT ![t] = job] /\ job.op = "order"
  BY DEF OrderBegin
<1>3. UNCHANGED <<shelf, rules, today, rushed>>
  BY DEF OrderBegin
<1>4. RulesType'
  BY <1>1, <1>2, <1>3 DEF RulesType
<1>5. \A u \in Tabs : Rule(u)' => tab'[u] = tab[u]
  BY <1>1, <1>2 DEF RulesType, Rule
<1> QED
  BY <1>3, <1>4, <1>5, OrdersKeep

\* Every step keeps the rules apart.
LEMMA RulesStep ==
    ASSUME RulesInv, [PricingNext]_pricingVars
    PROVE  RulesInv'
<1>1. RulesType
  BY DEF RulesInv
<1>2. ASSUME NEW t \in Tabs, NEW f \in Forms, CreateBegin(t, Row(f, 0)) PROVE RulesInv'
  BY <1>2, RowRow, CreateBeginKeeps
<1>3. ASSUME NEW t \in Tabs, NEW f \in Forms, NEW id \in RuleIds,
             SaveBegin(t, id, Row(f, 1))
      PROVE  RulesInv'
  BY <1>3, RowRow, SaveBeginKeeps
<1>4. ASSUME NEW t \in Tabs, NEW id \in RuleIds, TurnOnBegin(t, id) PROVE RulesInv'
  BY <1>4, TurnOnBeginKeeps
<1>5. ASSUME NEW t \in Tabs, NEW id \in RuleIds, CreateRule(t, id) PROVE RulesInv'
  BY <1>5, CreateKeeps
<1>6. ASSUME NEW t \in Tabs, TurnOn(t) PROVE RulesInv'
  BY <1>6, TurnOnKeeps
<1>7. ASSUME NEW t \in Tabs, SaveRule(t) PROVE RulesInv'
  BY <1>7, SaveKeeps
<1>8. ASSUME NEW t \in Tabs, NEW qty \in Carts, OrderBegin(t, qty) PROVE RulesInv'
  BY <1>8, OrderBeginKeeps
<1>9. ASSUME NEW t \in Tabs, CreateOrder(t) PROVE RulesInv'
  <2>1. EndTab(t) /\ UNCHANGED <<shelf, rules, today, rushed>>
    BY <1>9 DEF CreateOrder
  <2>2. RulesType'
    BY <1>1, <2>1, EndTabKeeps DEF RulesType
  <2> QED
    BY <1>1, <2>1, <2>2, EndTabKeeps, OrdersKeep
<1>10. ASSUME NEW t \in Tabs, DropTab(t) PROVE RulesInv'
  <2>1. EndTab(t) /\ UNCHANGED <<shelf, rules, today, rushed>>
    BY <1>10 DEF DropTab
  <2>2. RulesType'
    BY <1>1, <2>1, EndTabKeeps DEF RulesType
  <2> QED
    BY <1>1, <2>1, <2>2, EndTabKeeps, OrdersKeep
<1>11. ASSUME NEW id \in RuleIds, TurnOff(id) PROVE RulesInv'
  <2>1. Known(id) /\ rules' = [rules EXCEPT ![id].active = FALSE]
        /\ UNCHANGED <<shelf, today, tab, rushed>>
    BY <1>11 DEF TurnOff
  <2> PICK q \in RuleRows : q = rules[id]
    BY <1>1, <2>1, RuleRow
  <2> PICK row \in RuleRows : row = [q EXCEPT !.active = FALSE]
    BY DEF RuleRows
  <2>2. row.on = q.on /\ row.from = q.from /\ row.to = q.to /\ row.active = FALSE
    BY DEF RuleRows
  <2>3. rules' = [rules EXCEPT ![id] = [rules[id] EXCEPT !.active = FALSE]]
    BY <2>1
  <2>4. rules' = [rules EXCEPT ![id] = row]
    BY <2>3
  <2>5. RulesType'
    BY <1>1, <2>1, <2>4 DEF RulesType
  <2>6. rules'[id] = row /\ \A i \in RuleIds \ {id} : rules'[i] = rules[i]
    BY <1>1, <2>4 DEF RulesType
  <2>7. today' \in Nat /\ today <= today'
    BY <1>1, <2>1 DEF RulesType
  <2>8. Thins
    BY <2>1, <2>2, <2>6, <2>7 DEF Thins, Known
  <2> QED
    BY <2>1, <2>5, <2>8, ThinsKeep
<1>12. ASSUME NEW id \in RuleIds, DeleteRule(id) PROVE RulesInv'
  <2>1. rules' = [rules EXCEPT ![id] = Unset] /\ UNCHANGED <<shelf, today, tab, rushed>>
    BY <1>12 DEF DeleteRule
  <2>2. RulesType'
    BY <1>1, <2>1 DEF RulesType
  <2>3. rules'[id] = Unset /\ \A i \in RuleIds \ {id} : rules'[i] = rules[i]
    BY <1>1, <2>1 DEF RulesType
  <2>4. today' \in Nat /\ today <= today'
    BY <1>1, <2>1 DEF RulesType
  <2>5. Thins
    BY <2>3, <2>4 DEF Thins, Known
  <2> QED
    BY <2>1, <2>2, <2>5, ThinsKeep
<1>13. ASSUME NEW p \in Products, NEW s \in Shelves, Restock(p, s) PROVE RulesInv'
  <2>1. shelf' = [shelf EXCEPT ![p] = s] /\ UNCHANGED <<rules, today, tab, rushed>>
    BY <1>13 DEF Restock
  <2>2. RulesType'
    BY <1>1, <2>1 DEF RulesType
  <2> QED
    BY <2>1, <2>2, OrdersKeep
<1>14. CASE NextMorning
  <2>1. today' = today + 1 /\ UNCHANGED <<shelf, rules, tab, rushed>>
    BY <1>14 DEF NextMorning
  <2>2. today' \in Nat /\ today <= today'
    BY <1>1, <2>1 DEF RulesType
  <2>3. RulesType'
    BY <1>1, <2>1, <2>2 DEF RulesType
  <2>4. Thins
    BY <2>1, <2>2 DEF Thins, Known
  <2> QED
    BY <2>1, <2>3, <2>4, ThinsKeep
<1>15. CASE UNCHANGED pricingVars
  <2>1. UNCHANGED <<shelf, rules, today, tab, rushed>>
    BY <1>15 DEF pricingVars
  <2>2. RulesType'
    BY <1>1, <2>1 DEF RulesType
  <2> QED
    BY <2>1, <2>2, OrdersKeep
<1> QED
  BY <1>2, <1>3, <1>4, <1>5, <1>6, <1>7, <1>8, <1>9, <1>10, <1>11, <1>12, <1>13, <1>14,
     <1>15 DEF PricingNext

\* However requests of an admin come, the rules they write are typed, and a request
\* with nobody else at it still finds its row free when it writes.
THEOREM RulesInvariant == PricingSpec => []RulesInv
<1>1. PricingInit => RulesInv
  <2> SUFFICES ASSUME PricingInit PROVE RulesInv
    OBVIOUS
  <2>1. RulesType
    BY RulesTypeInit
  <2>2. (\A i \in RuleIds : ~Known(i)) /\ \A t \in Tabs : ~Rule(t)
    BY DEF PricingInit, Known, Rule
  <2> QED
    BY <2>1, <2>2 DEF RulesInv, OneRuleAtATime
<1>2. RulesInv /\ [PricingNext]_pricingVars => RulesInv'
  BY RulesStep
<1> QED
  BY <1>1, <1>2, PTL DEF PricingSpec

\* No two rules with an end hold for the same goods at one instant, unless requests
\* overlapped: three different guards on three forms agree
\* (customers.$id_.pricing.tsx, customers.$id_.pricing_.$ruleId.tsx).
THEOREM OneRuleStands == PricingSpec => []OneRuleAtATime
<1>1. RulesInv => OneRuleAtATime
  BY DEF RulesInv
<1> QED
  BY <1>1, RulesInvariant, PTL


\* Whatever the rules and the products, the quote for a sale on the road is the price
\* the pad would charge (api.quote-pricing.tsx and orders.new.tsx), as the handlers of
\* both start from the same price.
THEOREM QuotesHonoured == PricingSpec => []QuoteHonoured
<1>1. RulesInv => QuoteHonoured
  <2> SUFFICES ASSUME RulesInv, NEW g \in Goods,
                      Base(g[1], g[2]) > 0, g[2] = "RETAIL" => shelf[g[1]].retail,
                      Quote(g[1], g[2]) \in 1 .. Base(g[1], g[2])
               PROVE  Quote(g[1], g[2]) = Unit(g, Base(g[1], g[2]))
    BY DEF QuoteHonoured
  <2> PICK p \in Products, kind \in {"PACK", "RETAIL"} : g = <<p, kind>>
    BY DEF Goods
  <2> PICK base \in Nat : base = Base(p, kind)
    BY BaseType DEF RulesInv
  <2>1. base > 0 /\ (kind = "RETAIL" => shelf[p].retail) /\ Quote(p, kind) \in 1 .. base
    OBVIOUS
  <2>2. kind = "RETAIL" => base = shelf[p].price
    BY DEF Base
  <2>3. Quote(p, kind) = Effective(<<p, kind>>, base, base)
    <3>1. CASE kind = "RETAIL"
      BY <2>1, <2>2, <3>1 DEF Quote
    <3>2. CASE kind = "PACK"
      <4>1. base = Base(p, "PACK")
        BY <3>2
      <4> QED
        BY <2>1, <3>2, <4>1 DEF Quote
    <3> QED
      BY <3>1, <3>2
  <2> PICK e \in 1 .. base : e = Quote(p, kind)
    BY <2>1
  <2>4. Unit(g, base) = (IF e > 0 THEN Lesser(base, e) ELSE base)
    BY <2>3 DEF Unit
  <2>5. e > 0 /\ Lesser(base, e) = e
    BY DEF Lesser
  <2> QED
    BY <2>4, <2>5
<1> QED
  BY <1>1, RulesInvariant, PTL

=============================================================================
