--------------------------- MODULE MCDeliveryRun ---------------------------
(* Instances of DeliveryRun for TLC. *)
EXTENDS DeliveryRun, TLC

CONSTANTS r1, r2, o1, o2, t1, t2

\* Either two runs have the cells to themselves, or one run shares them.
VARIABLE scene

\* Orders are sold loose, one unit each; what is loaded beside them is packs.
MCUnitKind == [o \in Orders |-> "RETAIL"]

MCQty == [o \in Orders |-> 1]

Shelf(packs, loose) == ("PACK" :> packs) @@ ("RETAIL" :> loose)

\* One pack: a second run has to leave without, unless two dispatches overlap.
MCInitialStock == Shelf(1, 2)

\* A slip of one pack or of one loose unit.
MCCounterSales == {Shelf(1, 0), Shelf(0, 1)}

\* The form of a page opened in the morning, or after a delivery.
MCFigures == {Shelf(1, 0), Shelf(0, 2)}

\* No price has moved: revert infers the stored unit kind.
MCInferred == [o \in Orders |-> {"RETAIL"}]

\* A discount or a new price took the frozen price away from the retail price.
MCInferredStale == [o \in Orders |-> {"RETAIL", "PACK"}]

\* Runs, orders and requests are interchangeable.
Symmetry == Permutations({r1, r2}) \cup Permutations({o1, o2})
            \cup Permutations({t1, t2})

\* No step of the other writers: a run's own steps end a request when they move goods.
Inside ==
    /\ job' = job => stock' = stock
    /\ \A t \in Requests : job'[t] # None => job'[t].op # "open"

\* Bound: a run that two requests have handled at once takes no new request, and
\* once that is so of both orders too requests come one at a time.  Next to the
\* other writers of the cells there is one run, with one order, whose loadout is
\* saved by dispatch and whose check-in has no draft.
Bounded ==
    /\ \A t \in Requests :
          job[t] = None /\ job'[t] # None =>
              /\ job'[t].run \notin contended
              /\ contended \cap Runs # {} /\ Orders \subseteq contended =>
                    \A u \in Requests : job[u] = None
    /\ scene = "runs" => Inside
    /\ scene = "shelf" =>
          /\ \A r, q \in Runs : run'[r] # None /\ run'[q] # None => r = q
          /\ \A t \in Requests : job'[t] # None =>
                /\ Cardinality(job'[t].orders) <= 1
                /\ job'[t].op # "save"
                /\ job'[t].op = "checkin" => job'[t].submit
          /\ \A r \in Runs : Cardinality(Linked(r)') <= 1

BoundedInit == Init /\ scene \in {"runs", "shelf"}

BoundedSpec == BoundedInit /\ [][Next /\ Bounded /\ UNCHANGED scene]_<<scene, vars>>

=============================================================================
