-------------------------- MODULE HrInflation_proofs --------------------------
(***************************************************************************)
(* Proofs about build hr and diff hr, for every pair of trees, every set   *)
(* of releases and every failure and cancellation.                         *)
(***************************************************************************)
EXTENDS HrInflation, TLAPS

-----------------------------------------------------------------------------
(* Types.                                                                  *)
LEMMA TreeType ==
  ASSUME TypeOK
  PROVE  /\ world \in World
         /\ \A s \in Sides : world.tree[s] \in Tree
         /\ Here \in Tree
         /\ \A s \in Sides, r \in Releases :
              world.tree[s].hrs[r] # None => world.tree[s].hrs[r] \in Decl
BY ConstantsAssumption DEF TypeOK, World, Tree, Here

LEMMA ResourceType ==
  ASSUME TypeOK, NEW s \in Sides, NEW r \in Releases, world.tree[s].hrs[r] # None
  PROVE  Resource(s, r) \in Resources
<1> DEFINE d == world.tree[s].hrs[r]
<1>1. d \in Decl BY TreeType
<1>2. TargetOf(d) \in Namespaces /\ d.content \in Contents
  BY <1>1 DEF Decl, TargetOf
<1> QED BY <1>2 DEF Resource, Resources

LEMMA DifferenceType ==
  ASSUME NEW orig \in SUBSET Resources, NEW mod \in SUBSET Resources
  PROVE  Difference(orig, mod) \in SUBSET (Status \X (Releases \X Namespaces))
<1> DEFINE keys(S) == {<<x[1], x[2]>> : x \in S}
<1>1. keys(orig) \subseteq Releases \X Namespaces /\ keys(mod) \subseteq Releases \X Namespaces
  BY DEF Resources
<1> QED BY <1>1 DEF Difference, Status

LEMMA ExitType ==
  ASSUME TypeOK, NEW code \in {"ok", "changed", "error"},
         NEW what \in SUBSET (Status \X (Releases \X Namespaces)),
         Exit(code, what)
  PROVE  TypeOK'
BY DEF TypeOK, Exit, local

(* What is being inflated has a declaration.                               *)
Declared ==
  /\ pc \in {"inflate", "index", "chart"} => \A r \in todo : Here.hrs[r] # None
  /\ pc \in {"index", "chart"} => Here.hrs[hr] # None

TypeInv == TypeOK /\ Declared

LEMMA TypeInit == Init => TypeInv
BY DEF Init, TypeInv, TypeOK, Declared, Sides

LEMMA TypeStep == TypeInv /\ [Next]_vars => TypeInv'
<1> SUFFICES ASSUME TypeInv, [Next]_vars PROVE TypeInv'
  OBVIOUS
<1> USE DEF TypeInv
<1>0. /\ world \in World /\ Here \in Tree
      /\ \A r \in Releases : Here.hrs[r] # None => Here.hrs[r] \in Decl
  BY TreeType DEF Here, TypeOK
<1>e. ASSUME NEW code, NEW what, Exit(code, what) PROVE Declared'
  BY <1>e DEF Exit, Declared
<1>f. ASSUME NEW r \in Releases, Fail(r)
      PROVE  /\ pc' = "inflate" /\ hr' = None /\ failures' \in SUBSET Releases
  BY <1>f DEF Fail, TypeOK
<1>1. CASE Cancel
  BY <1>1 DEF Cancel, TypeOK, Declared, Here, local, disk, ended
<1>2. CASE Start
  BY <1>2, <1>e, ExitType DEF Start, TypeOK, Declared, Here, local, disk, ended
<1>3. CASE Scan
  BY <1>3, <1>0 DEF Scan, TypeOK, Declared, Here, disk, ended, Tree
<1>4. ASSUME NEW k \in Kustomizations, BuildKs(k) PROVE TypeInv'
  BY <1>4 DEF BuildKs, TypeOK, Declared, Here, disk, ended
<1>5. CASE BuildInterrupted
  BY <1>5, <1>e, ExitType DEF BuildInterrupted
<1>6. CASE Select
  <2> DEFINE fleet == IF world.name = None THEN Fleet ELSE Fleet \cap {world.name}
             hrs   == {r \in fleet : Selected(r)}
  <2>1. hrs \subseteq Releases /\ \A r \in hrs : Here.hrs[r] # None
    BY DEF Fleet
  <2>2. CASE Exit("error", {})
    BY <2>2, <1>e, ExitType
  <2>3. CASE pc' = "return" /\ UNCHANGED <<world, cancelled, side, local, disk, ended>>
    BY <2>3 DEF TypeOK, Declared, Here, local, disk, ended
  <2>4. CASE /\ pc' = "inflate" /\ todo' = hrs /\ known' = {} /\ failures' = {}
             /\ outputs' = {} /\ temp' = world.disabled
             /\ UNCHANGED <<world, cancelled, side, kss, lost, hr, result,
                            worktree, straggler, ended>>
    BY <2>4, <2>1, <1>0 DEF TypeOK, Declared, Here, ended, World
  <2> HIDE DEF fleet, hrs
  <2> QED BY <1>6, <2>2, <2>3, <2>4 DEF Select, fleet, hrs
<1>7. ASSUME NEW r \in Releases, Take(r) PROVE TypeInv'
  <2>1. CASE Skipped(Here.hrs[r]) /\ UNCHANGED <<pc, hr, failures>>
    BY <1>7, <2>1 DEF Take, TypeOK, Declared, Here, disk, ended
  <2>2. CASE Fail(r)
    BY <1>7, <2>2, <1>f DEF Take, TypeOK, Declared, Here, disk, ended
  <2>3. CASE hr' = r /\ pc' \in {"index", "chart"} /\ UNCHANGED failures
    BY <1>7, <2>3, ConstantsAssumption DEF Take, TypeOK, Declared, Here, disk, ended
  <2> QED BY <1>7, <2>1, <2>2, <2>3 DEF Take
<1>8. CASE Index
  <2>1. hr \in Releases /\ Here.hrs[hr].source \in Source
    BY <1>8, <1>0 DEF Index, TypeOK, Declared, Decl
  <2>2. CASE Fail(hr)
    BY <1>8, <2>1, <2>2, <1>f DEF Index, TypeOK, Declared, Here, disk, ended
  <2>3. CASE pc' = "chart" /\ UNCHANGED <<hr, failures>>
    BY <1>8, <2>1, <2>3 DEF Index, TypeOK, Declared, Here, disk, ended
  <2> QED BY <1>8, <2>2, <2>3 DEF Index
<1>9. CASE IndexFails \/ InflateFails
  <2>1. hr \in Releases
    BY <1>9 DEF IndexFails, InflateFails, TypeOK
  <2> QED BY <1>9, <2>1, <1>f DEF IndexFails, InflateFails, TypeOK, Declared, Here, disk, ended
<1>10. CASE Inflate
  <2>1. hr \in Releases /\ Resource(side, hr) \in Resources
    BY <1>10, ResourceType DEF Inflate, TypeOK, Declared, Here
  <2> QED BY <1>10, <2>1 DEF Inflate, TypeOK, Declared, Here, disk, ended
<1>11. CASE GiveUp
  <2>1. hr \in Releases
    BY <1>11 DEF GiveUp, TypeOK
  <2> QED BY <1>11, <2>1, <1>f DEF GiveUp, TypeOK, Declared, Here, ended
<1>12. CASE Straggle
  BY <1>12 DEF Straggle, TypeOK, Declared, Here, local, ended
<1>13. CASE EndSide
  BY <1>13 DEF EndSide, TypeOK, Declared, Here, ended
<1>14. CASE Abort
  BY <1>14, <1>e, ExitType DEF Abort
<1>15. CASE Return
  BY <1>15 DEF Return, TypeOK, Declared, Here, local, disk, ended
<1>16. CASE Checkout
  BY <1>16 DEF Checkout, TypeOK, Declared, Sides, local, ended
<1>17. CASE CheckoutFails
  BY <1>17, <1>e, ExitType DEF CheckoutFails
<1>18. CASE Report
  <2> DEFINE d == Difference(Mapped(result["compare"]), Mapped(result["current"]))
             b == Difference({}, result["current"])
  <2>1. \A s \in Sides : result[s] \in SUBSET Resources /\ Mapped(result[s]) \in SUBSET Resources
    BY DEF TypeOK, Mapped
  <2>2. /\ d \in SUBSET (Status \X (Releases \X Namespaces))
        /\ b \in SUBSET (Status \X (Releases \X Namespaces))
    BY <2>1, DifferenceType DEF Sides
  <2> HIDE DEF d, b
  <2>3. PICK code \in {"ok", "changed", "error"}, what \in {{}, d, b} : Exit(code, what)
    BY <1>18 DEF Report, d, b
  <2> QED BY <2>2, <2>3, <1>e, ExitType
<1>19. CASE UNCHANGED vars
  BY <1>19 DEF vars, TypeOK, Declared, Here, local, disk, ended
<1> QED
  BY <1>1, <1>2, <1>3, <1>4, <1>5, <1>6, <1>7, <1>8, <1>9, <1>10, <1>11, <1>12, <1>13,
     <1>14, <1>15, <1>16, <1>17, <1>18, <1>19 DEF Next, Step, Answer

(* Every variable keeps its type.                                          *)
THEOREM TypeCorrect == Spec => []TypeOK
<1>1. TypeInv => TypeOK BY DEF TypeInv
<1> QED BY <1>1, TypeInit, TypeStep, PTL DEF Spec

-----------------------------------------------------------------------------
(* Cleaning up: the temporary cache exists while releases are inflated, or *)
(* again because of a straggler; the checkout goes with the command.       *)
CleanInv ==
  /\ pc = "done" <=> ~Running
  /\ pc = "done" => ~worktree
  /\ temp => pc \in {"inflate", "index", "chart"} \/ straggler = "wrote"

LEMMA CleanStep == TypeOK /\ CleanInv /\ [Next]_vars => CleanInv'
<1> SUFFICES ASSUME TypeOK, CleanInv, [Next]_vars PROVE CleanInv'
  OBVIOUS
<1> USE DEF Running
<1>e. ASSUME pc \notin {"inflate", "index", "chart", "done"},
             NEW code \in {"ok", "changed", "error"}, NEW what, Exit(code, what)
      PROVE  CleanInv'
  BY <1>e DEF Exit, CleanInv
<1>f. ASSUME NEW r, Fail(r) PROVE pc' = "inflate"
  BY <1>f DEF Fail
<1>1. CASE Cancel
  BY <1>1 DEF Cancel, CleanInv, disk, ended
<1>2. CASE Start
  BY <1>2, <1>e DEF Start, CleanInv, disk, ended
<1>3. CASE Scan
  BY <1>3 DEF Scan, CleanInv, disk, ended
<1>4. ASSUME NEW k \in Kustomizations, BuildKs(k) PROVE CleanInv'
  BY <1>4 DEF BuildKs, CleanInv, disk, ended
<1>5. CASE BuildInterrupted
  BY <1>5, <1>e DEF BuildInterrupted
<1>6. CASE Select
  BY <1>6, <1>e DEF Select, CleanInv, disk, ended
<1>7. ASSUME NEW r \in Releases, Take(r) PROVE CleanInv'
  <2>1. pc' \in {"inflate", "index", "chart"}
    BY <1>7, <1>f DEF Take
  <2> QED BY <1>7, <2>1 DEF Take, CleanInv, disk, ended
<1>8. CASE Index
  BY <1>8, <1>f DEF Index, CleanInv, disk, ended
<1>9. CASE IndexFails \/ InflateFails
  BY <1>9, <1>f DEF IndexFails, InflateFails, CleanInv, disk, ended
<1>10. CASE Inflate
  BY <1>10 DEF Inflate, CleanInv, disk, ended
<1>11. CASE GiveUp
  BY <1>11, <1>f DEF GiveUp, CleanInv, ended
<1>12. CASE Straggle
  BY <1>12 DEF Straggle, CleanInv, ended
<1>13. CASE EndSide
  BY <1>13 DEF EndSide, CleanInv, ended
<1>14. CASE Abort
  BY <1>14, <1>e DEF Abort
<1>15. CASE Return
  BY <1>15 DEF Return, CleanInv, disk, ended
<1>16. CASE Checkout
  BY <1>16 DEF Checkout, CleanInv, ended
<1>17. CASE CheckoutFails
  BY <1>17, <1>e DEF CheckoutFails
<1>18. CASE Report
  <2>1. \E code, what : Exit(code, what)
    BY <1>18 DEF Report
  <2> QED BY <1>18, <2>1, <1>e DEF Report
<1>19. CASE UNCHANGED vars
  BY <1>19 DEF vars, CleanInv, disk, ended
<1> QED
  BY <1>1, <1>2, <1>3, <1>4, <1>5, <1>6, <1>7, <1>8, <1>9, <1>10, <1>11, <1>12, <1>13,
     <1>14, <1>15, <1>16, <1>17, <1>18, <1>19 DEF Next, Step, Answer

(* What the run created is gone when the command returns, on every path.   *)
THEOREM NothingLeftBehind == Spec => []CleanedUp
<1>1. Init => CleanInv BY DEF Init, CleanInv, Running
<1>2. CleanInv => CleanedUp BY DEF CleanInv, CleanedUp
<1>3. TypeInv => TypeOK BY DEF TypeInv
<1> QED BY <1>1, <1>2, <1>3, TypeInit, TypeStep, CleanStep, PTL DEF Spec

-----------------------------------------------------------------------------
(***************************************************************************)
(* The report.  Wanted(s) are the releases side s should render, Due those *)
(* of them the command inflates; a side with nothing lost and no failure   *)
(* returns exactly what is due.                                            *)
(***************************************************************************)
Wanted(s) ==
  {r \in Releases : /\ world.tree[s].exists
                    /\ world.tree[s].hrs[r] # None
                    /\ world.tree[s].hrs[r].ks \in world.tree[s].kss
                    /\ world.name \in {None, r}}

Chosen(s, r) ==
  \/ world.filter = None
  \/ world.filter \in {world.tree[s].hrs[r].ns, TargetOf(world.tree[s].hrs[r])}

Due(s) == {r \in Wanted(s) : Chosen(s, r)}

Of(s, R) == {Resource(s, r) : r \in {q \in R : ~Skipped(world.tree[s].hrs[q])}}

Lossless(s) == \A k \in Kustomizations : <<s, k>> \notin lost

(* What the loop still has to render, is rendering, or could not.          *)
Pending == todo \cup failures \cup (IF hr = None THEN {} ELSE {hr})

LoopInv ==
  /\ hr # None => pc \in {"index", "chart"}
  /\ pc \in {"inflate", "index", "chart"} =>
       /\ world.tree[side].exists
       /\ hr # None <=> pc # "inflate"
       /\ Pending \subseteq Releases
       /\ pc # "inflate" => hr \notin todo /\ ~Skipped(Here.hrs[hr])
       /\ Lossless(side) => Pending \subseteq Due(side)
       /\ Lossless(side) /\ failures = {} => outputs = Of(side, Due(side) \ Pending)

Finished(s) == Lossless(s) => result[s] = Of(s, Due(s))

SideInv ==
  /\ side = "compare" => Strict
  /\ pc \in {"start", "scan", "build", "select"} =>
       /\ result[side] = {}
       /\ Strict \/ failures = {}
       /\ pc # "start" => world.tree[side].exists
  /\ pc \notin {"start", "done"} /\ side = "current" => result["compare"] = {}
  /\ pc = "start" => side = "current" /\ result["compare"] = {}
  /\ pc = "checkout" => Strict /\ side = "current"
  /\ pc = "report" /\ Strict => side = "compare"
  /\ pc \in {"return", "checkout", "report"} =>
       (Strict \/ failures = {} => Finished(side))
  /\ side = "compare" /\ pc # "done" => Finished("current")

TruthInv == LoopInv /\ SideInv /\ ReportIsTruthful

(* What depends on the trees alone does not change.                        *)
LEMMA FixedWorld ==
  ASSUME world' = world, NEW CONSTANT s
  PROVE  /\ Due(s)' = Due(s)
         /\ Of(s, Due(s))' = Of(s, Due(s))
         /\ Strict' = Strict
BY DEF Due, Wanted, Chosen, Of, Resource, Strict

LEMMA FixedSide ==
  ASSUME world' = world, side' = side
  PROVE  /\ Here' = Here
         /\ Due(side)' = Due(side)
         /\ Of(side, Due(side) \ Pending)' = Of(side, Due(side) \ Pending')
BY DEF Due, Wanted, Chosen, Of, Resource, Here

(* What is lost stays lost, so a finished side stays finished.             *)
LEMMA StaysFinished ==
  ASSUME world' = world, lost \subseteq lost', NEW CONSTANT s,
         result'[s] = result[s], Finished(s)
  PROVE  Finished(s)'
BY FixedWorld DEF Finished, Lossless

(* The selection before the map of resources, or in it, is the same.       *)
LEMMA MappedDue ==
  ASSUME NEW s
  PROVE  Mapped(Of(s, Due(s))) = Mapped(Rendered(s))
<1>1. Rendered(s) = Of(s, Wanted(s))
  BY DEF Rendered, Of, Wanted
<1>2. ASSUME NEW r \in Wanted(s), world.filter \in {None, Resource(s, r)[2]}
      PROVE  r \in Due(s)
  BY <1>2 DEF Due, Chosen, Resource
<1>3. Due(s) \subseteq Wanted(s)
  BY DEF Due
<1> QED BY <1>1, <1>2, <1>3 DEF Mapped, Of

LEMMA BuildDue ==
  Of("current", Due("current")) =
    {x \in Rendered("current") :
       world.filter \in {None, x[2], world.tree["current"].hrs[x[1]].ns}}
<1>1. Rendered("current") = Of("current", Wanted("current"))
  BY DEF Rendered, Of, Wanted
<1>2. ASSUME NEW r \in Wanted("current")
      PROVE  LET x == Resource("current", r) IN
             Chosen("current", r) <=>
               world.filter \in {None, x[2], world.tree["current"].hrs[x[1]].ns}
  BY DEF Chosen, Resource
<1> QED BY <1>1, <1>2 DEF Of, Due

LEMMA TruthInit == Init => TruthInv
BY DEF Init, TruthInv, LoopInv, SideInv, ReportIsTruthful, Sides

(* A step that ends the command with an error reports nothing.             *)
LEMMA TruthError ==
  ASSUME TruthInv, Exit("error", {}), pc \notin {"index", "chart"}
  PROVE  TruthInv'
BY DEF TruthInv, LoopInv, SideInv, ReportIsTruthful, Exit, Strict, local

(* A step inside a loop leaves the sides as they are.                      *)
LEMMA LoopSteps ==
  ASSUME TruthInv, LoopInv', TypeOK, CleanInv,
         pc \in {"inflate", "index", "chart"}, pc' \in {"inflate", "index", "chart"},
         UNCHANGED <<world, side, lost, result, ended>>
  PROVE  TruthInv'
<1>1. exit' = "none" BY DEF CleanInv, Running, ended
<1>2. side = "compare" => Finished("current")' /\ Strict'
  BY StaysFinished, FixedWorld DEF TruthInv, SideInv
<1> QED BY <1>1, <1>2, FixedWorld DEF TruthInv, SideInv, ReportIsTruthful

(* Recording a failure moves the release to the failures.                  *)
LEMMA FailStep ==
  ASSUME TypeOK, LoopInv, NEW r \in Releases, r \in Pending, Fail(r),
         pc \in {"inflate", "index", "chart"}, hr \in {None, r},
         todo' = todo \ {r} \/ (todo' = todo /\ hr = r),
         UNCHANGED <<world, side, lost, outputs>>
  PROVE  LoopInv'
<1>1. Pending' = Pending
  BY DEF Fail, Pending
<1>2. failures' # {} /\ pc' = "inflate" /\ hr' = None
  BY DEF Fail
<1>3. Lossless(side)' <=> Lossless(side)
  BY DEF Lossless
<1>4. Due(side)' = Due(side) BY FixedSide
<1> QED BY <1>1, <1>2, <1>3, <1>4 DEF LoopInv

LEMMA TakeTruth ==
  ASSUME TypeOK, TruthInv, CleanInv, NEW r \in Releases, Take(r)
  PROVE  TruthInv'
<1> USE DEF TruthInv
<1>1. /\ pc = "inflate" /\ hr = None /\ r \in todo /\ r \in Pending
      /\ todo' = todo \ {r}
      /\ UNCHANGED <<world, side, lost, outputs, result, ended>>
  BY DEF Take, Pending, LoopInv
<1>2. Lossless(side)' <=> Lossless(side)
  BY <1>1 DEF Lossless
<1>3. /\ Due(side)' = Due(side) /\ Here' = Here
      /\ Of(side, Due(side) \ Pending)' = Of(side, Due(side) \ Pending')
  BY <1>1, FixedSide
<1>4. CASE Skipped(Here.hrs[r]) /\ UNCHANGED <<pc, hr, failures>>
  <2>1. Pending' \subseteq Pending /\ Pending \subseteq Pending' \cup {r}
    BY <1>1, <1>4 DEF Pending
  <2>2. Of(side, Due(side) \ Pending') = Of(side, Due(side) \ Pending)
    BY <2>1, <1>4 DEF Of, Here
  <2>3. LoopInv'
    BY <1>1, <1>2, <1>3, <1>4, <2>1, <2>2 DEF LoopInv
  <2> QED BY <1>1, <1>4, <2>3, LoopSteps
<1>5. CASE Fail(r)
  <2>1. LoopInv' BY <1>1, <1>5, FailStep
  <2> QED BY <1>1, <1>5, <2>1, LoopSteps DEF Fail
<1>6. CASE ~Skipped(Here.hrs[r]) /\ hr' = r /\ pc' \in {"index", "chart"} /\ UNCHANGED failures
  <2>1. Pending' = Pending /\ r # None
    BY <1>1, <1>6, ConstantsAssumption DEF Pending
  <2>2. ~Skipped(Here.hrs[hr])' /\ hr' \notin todo'
    BY <1>1, <1>3, <1>6 DEF Skipped
  <2>3. LoopInv'
    BY <1>1, <1>2, <1>3, <1>6, <2>1, <2>2 DEF LoopInv
  <2> QED BY <1>1, <1>6, <2>3, LoopSteps
<1> QED BY <1>4, <1>5, <1>6 DEF Take

(* The chart is looked up and rendered.                                    *)
LEMMA ChartTruth ==
  ASSUME TypeOK, TruthInv, CleanInv,
         Index \/ IndexFails \/ Inflate \/ InflateFails \/ GiveUp
  PROVE  TruthInv'
<1> USE DEF TruthInv
<1>1. /\ pc \in {"index", "chart"} /\ hr \in Releases /\ hr \in Pending /\ hr # None
      /\ todo' = todo
      /\ UNCHANGED <<world, side, lost, result, ended>>
  BY ConstantsAssumption DEF Index, IndexFails, Inflate, InflateFails, GiveUp, TypeOK, Pending
<1>2. Lossless(side)' <=> Lossless(side)
  BY <1>1 DEF Lossless
<1>3. /\ Due(side)' = Due(side) /\ Here' = Here
      /\ Of(side, Due(side) \ Pending)' = Of(side, Due(side) \ Pending')
  BY <1>1, FixedSide
<1>4. CASE Fail(hr) /\ outputs' = outputs
  <2>1. LoopInv' BY <1>1, <1>4, FailStep
  <2> QED BY <1>1, <1>4, <2>1, LoopSteps DEF Fail
<1>5. CASE pc' = "chart" /\ UNCHANGED <<hr, failures, outputs>>
  <2>1. Pending' = Pending BY <1>1, <1>5 DEF Pending
  <2>2. LoopInv'
    BY <1>1, <1>2, <1>3, <1>5, <2>1 DEF LoopInv, Skipped
  <2> QED BY <1>1, <1>5, <2>2, LoopSteps
<1>6. CASE Inflate
  <2>1. /\ outputs' = outputs \cup {Resource(side, hr)}
        /\ pc' = "inflate" /\ hr' = None /\ failures' = failures
    BY <1>6 DEF Inflate
  <2>2. /\ Pending' \subseteq Pending
        /\ failures = {} => Pending' = Pending \ {hr}
    BY <1>1, <2>1 DEF Pending, LoopInv
  <2>3. ASSUME Lossless(side), failures = {}
        PROVE  outputs' = Of(side, Due(side) \ Pending')
    <3>1. outputs = Of(side, Due(side) \ Pending) /\ hr \in Due(side)
      BY <1>1, <2>3 DEF LoopInv
    <3>2. Due(side) \ Pending' = (Due(side) \ Pending) \cup {hr}
      BY <1>1, <2>2, <2>3, <3>1
    <3>3. ~Skipped(world.tree[side].hrs[hr])
      BY <1>1 DEF LoopInv, Here
    <3> QED BY <2>1, <3>1, <3>2, <3>3 DEF Of
  <2>4. LoopInv'
    BY <1>1, <1>2, <1>3, <2>1, <2>2, <2>3 DEF LoopInv
  <2> QED BY <1>1, <2>1, <2>4, LoopSteps
<1> QED BY <1>4, <1>5, <1>6 DEF Index, IndexFails, InflateFails, GiveUp

(* A side starts, or there is nothing to inflate on it.                    *)
LEMMA SelectTruth ==
  ASSUME TypeOK, TruthInv, CleanInv, Select
  PROVE  TruthInv'
<1> USE DEF TruthInv
<1> DEFINE fleet == IF world.name = None THEN Fleet ELSE Fleet \cap {world.name}
           hrs   == {r \in fleet : Selected(r)}
<1>1. /\ pc = "select" /\ hr = None /\ exit = "none"
      /\ result[side] = {} /\ world.tree[side].exists
  BY DEF Select, CleanInv, Running, LoopInv, SideInv
<1>2. ASSUME Lossless(side) PROVE hrs = Due(side)
  <2>1. \A r \in Releases : Here.hrs[r] # None => Here.hrs[r].ks \in Kustomizations
    BY TreeType DEF Here, TypeOK, Decl
  <2>2. Fleet = {r \in Releases : Here.hrs[r] # None /\ Here.hrs[r].ks \in Here.kss}
    BY <1>2, <2>1 DEF Fleet, Lossless
  <2>3. fleet = Wanted(side)
    BY <1>1, <2>2 DEF Wanted, Here
  <2>4. \A r \in Releases : Selected(r) <=> Chosen(side, r)
    BY DEF Selected, Chosen, Here
  <2> QED BY <2>3, <2>4 DEF Due, Wanted
<1>3. hrs \subseteq Releases BY DEF Fleet
<1> HIDE DEF fleet, hrs
<1>4. CASE hrs = {} /\ pc' = "return" /\ UNCHANGED <<world, cancelled, side, local, disk, ended>>
  <2>1. UNCHANGED <<world, side, hr, lost, result, failures, exit, shown>>
    BY <1>4 DEF local, ended
  <2>2. Finished(side)
    BY <1>1, <1>2, <1>4 DEF Finished, Of
  <2>3. Finished(side)' /\ (side = "compare" => Finished("current")')
    BY <1>1, <2>1, <2>2, StaysFinished DEF SideInv
  <2> QED BY <1>1, <1>4, <2>1, <2>3, FixedWorld DEF LoopInv, SideInv, ReportIsTruthful
<1>5. CASE /\ pc' = "inflate" /\ todo' = hrs /\ known' = {} /\ failures' = {}
           /\ outputs' = {} /\ temp' = world.disabled
           /\ UNCHANGED <<world, cancelled, side, kss, lost, hr, result,
                          worktree, straggler, ended>>
  <2>1. Pending' = hrs
    BY <1>1, <1>5 DEF Pending
  <2>2. Lossless(side)' <=> Lossless(side)
    BY <1>5 DEF Lossless
  <2>3. Of(side, Due(side) \ Pending)' = Of(side, Due(side) \ hrs) /\ Due(side)' = Due(side)
    BY <1>5, <2>1, FixedSide
  <2>4. Lossless(side) => Of(side, Due(side) \ hrs) = {}
    BY <1>2 DEF Of
  <2>5. LoopInv'
    BY <1>1, <1>2, <1>3, <1>5, <2>1, <2>2, <2>3, <2>4 DEF LoopInv
  <2>6. side = "compare" => Finished("current")'
    BY <1>1, <1>5, StaysFinished DEF SideInv
  <2> QED BY <1>1, <1>5, <2>5, <2>6, FixedWorld DEF SideInv, ReportIsTruthful, ended
<1> QED BY <1>1, <1>4, <1>5, TruthError DEF Select, fleet, hrs

LEMMA EndSideTruth ==
  ASSUME TypeOK, TruthInv, CleanInv, EndSide
  PROVE  TruthInv'
<1> USE DEF TruthInv
<1>1. /\ pc = "inflate" /\ hr = None /\ exit' = "none"
      /\ UNCHANGED <<world, side, lost, failures, hr>>
      /\ Strict' = Strict
  BY FixedWorld DEF EndSide, CleanInv, Running, LoopInv, ended
<1>2. pc' \in {"abort", "return"} BY DEF EndSide
<1>3. /\ result'["current"] = result["current"] \/ side = "current"
      /\ side = "current" => result'["compare"] = result["compare"]
  BY DEF EndSide, TypeOK, Sides
<1>4. side = "compare" => Finished("current")'
  BY <1>1, <1>3, StaysFinished DEF SideInv
<1>5. ASSUME pc' = "return", Strict \/ failures = {}
      PROVE  Finished(side)'
  <2>1. ~Incomplete /\ result'[side] = outputs
    BY <1>5 DEF EndSide, TypeOK
  <2>2. failures = {} BY <1>5, <2>1 DEF Incomplete
  <2>3. ASSUME Lossless(side) PROVE outputs = Of(side, Due(side))
    <3>1. todo = {} BY <2>1, <1>1 DEF EndSide, Incomplete
    <3>2. Pending = {} BY <1>1, <2>2, <3>1 DEF Pending
    <3> QED BY <1>1, <2>2, <2>3, <3>2 DEF LoopInv
  <2>4. Of(side, Due(side))' = Of(side, Due(side))
    BY <1>1, FixedSide DEF Of, Due, Wanted, Chosen, Resource
  <2>5. Lossless(side)' <=> Lossless(side)
    BY <1>1 DEF Lossless
  <2> QED BY <1>1, <2>1, <2>3, <2>4, <2>5 DEF Finished
<1>6. LoopInv'
  BY <1>1, <1>2 DEF LoopInv
<1> QED BY <1>1, <1>2, <1>3, <1>4, <1>5, <1>6 DEF SideInv, ReportIsTruthful

(* What the discovery loses is recorded: such a side promises nothing.     *)
LEMMA ScanTruth ==
  ASSUME TypeOK, TruthInv, CleanInv, Scan
  PROVE  TruthInv'
<1> USE DEF TruthInv
<1>1. /\ pc = "scan" /\ pc' \in {"build", "return"} /\ exit' = "none" /\ hr = None
      /\ result[side] = {} /\ world.tree[side].exists
      /\ lost \subseteq lost'
      /\ UNCHANGED <<world, side, hr, result, failures>>
      /\ Strict' = Strict
  BY FixedWorld DEF Scan, CleanInv, Running, LoopInv, SideInv, ended
<1>2. side = "compare" => Finished("current")'
  BY <1>1, StaysFinished DEF SideInv
<1>3. ASSUME pc' = "return" PROVE Finished(side)'
  <2>1. /\ lost' = lost \cup ({side} \X Here.kss)
        /\ Here.kss \subseteq Kustomizations
    BY <1>1, <1>3, TreeType DEF Scan, Tree
  <2>2. Lossless(side)' => Here.kss = {}
    BY <1>1, <2>1 DEF Lossless
  <2>3. Here.kss = {} => Of(side, Due(side)) = {}
    BY DEF Of, Due, Wanted, Here
  <2>4. Of(side, Due(side))' = Of(side, Due(side))
    BY <1>1 DEF Of, Due, Wanted, Chosen, Resource
  <2> QED BY <1>1, <2>2, <2>3, <2>4 DEF Finished
<1> QED BY <1>1, <1>2, <1>3 DEF LoopInv, SideInv, ReportIsTruthful

LEMMA BuildKsTruth ==
  ASSUME TypeOK, TruthInv, CleanInv, NEW k \in Kustomizations, BuildKs(k)
  PROVE  TruthInv'
<1> USE DEF TruthInv
<1>1. /\ pc = "build" /\ pc' \in {"build", "select"} /\ exit' = "none" /\ hr = None
      /\ lost \subseteq lost'
      /\ UNCHANGED <<world, side, hr, result, failures>>
      /\ Strict' = Strict
  BY FixedWorld DEF BuildKs, CleanInv, Running, LoopInv, ended
<1>2. side = "compare" => Finished("current")'
  BY <1>1, StaysFinished DEF SideInv
<1> QED BY <1>1, <1>2 DEF LoopInv, SideInv, ReportIsTruthful

LEMMA BetweenSides ==
  ASSUME TypeOK, TruthInv, CleanInv,
         Return \/ Checkout \/ (Start /\ pc' = "scan")
  PROVE  TruthInv'
<1> USE DEF TruthInv
<1>1. /\ pc \in {"start", "return", "checkout"} /\ hr = None /\ exit' = "none"
      /\ UNCHANGED <<world, hr, lost, failures, result>>
      /\ Strict' = Strict
  BY FixedWorld
  DEF Return, Checkout, Start, Exit, CleanInv, Running, LoopInv, local, ended
<1>2. Finished("current") => Finished("current")'
  BY <1>1, StaysFinished
<1>3. CASE Return
  <2>1. side' = side /\ pc' = IF Strict /\ side = "current" THEN "checkout" ELSE "report"
    BY <1>3 DEF Return
  <2>2. Finished("compare") => Finished("compare")'
    BY <1>1, StaysFinished
  <2> QED BY <1>1, <1>2, <1>3, <2>1, <2>2
          DEF Return, LoopInv, SideInv, ReportIsTruthful, TypeOK, Sides
<1>4. CASE Start /\ pc' = "scan"
  BY <1>1, <1>4 DEF Start, Exit, LoopInv, SideInv, ReportIsTruthful, Here
<1>5. CASE Checkout
  <2>1. /\ side' = "compare" /\ Strict /\ result["compare"] = {}
        /\ pc' = IF world.tree["compare"].exists THEN "scan" ELSE "report"
    BY <1>5 DEF Checkout, SideInv
  <2>2. Finished("current")'
    BY <1>1, <1>2, <1>5 DEF Checkout, SideInv
  <2>3. ~world.tree["compare"].exists => Of("compare", Due("compare")) = {}
    BY DEF Of, Due, Wanted
  <2>4. pc' = "report" => Finished("compare")'
    BY <1>1, <2>1, <2>3, FixedWorld DEF Finished
  <2> QED BY <1>1, <2>1, <2>2, <2>4 DEF LoopInv, SideInv, ReportIsTruthful
<1> QED BY <1>3, <1>4, <1>5

(* Both sides are finished, so what is compared is what the trees declare. *)
LEMMA ReportTruth ==
  ASSUME TypeOK, TruthInv, Report
  PROVE  TruthInv'
<1> USE DEF TruthInv
<1>1. pc = "report" /\ hr = None
  BY DEF Report, LoopInv
<1>2. ASSUME NEW code, NEW what, Exit(code, what)
      PROVE  /\ LoopInv' /\ SideInv'
             /\ Truth' = Truth /\ Strict' = Strict
             /\ UNCHANGED <<lost, failures>>
             /\ exit' = code /\ shown' = what
  <2>1. UNCHANGED <<world, side, hr, lost, failures>> /\ pc' = "done"
    BY <1>2 DEF Exit, local
  <2>2. Truth' = Truth /\ Strict' = Strict
    BY <2>1 DEF Truth, Strict, Mapped, Rendered, Resource, Skipped
  <2> QED BY <1>1, <1>2, <2>1, <2>2 DEF Exit, LoopInv, SideInv
<1>3. CASE Exit("error", {})
  BY <1>1, <1>3, TruthError
<1>4. CASE ~Strict /\ Exit("ok", Difference({}, result["current"]))
  <2>1. side = "current" BY <1>4 DEF SideInv, TypeOK, Sides
  <2>2. lost = {} /\ failures = {} => result["current"] = Of("current", Due("current"))
    BY <1>1, <2>1 DEF SideInv, Finished, Lossless
  <2>3. lost = {} /\ failures = {} => Difference({}, result["current"]) = Truth
    BY <1>4, <2>2, BuildDue DEF Truth
  <2> HIDE DEF Truth
  <2> QED BY <1>2, <1>4, <2>3 DEF ReportIsTruthful
<1>5. ASSUME Strict
      PROVE  LET d == Difference(Mapped(result["compare"]), Mapped(result["current"])) IN
             Exit(IF d = {} THEN "ok" ELSE "changed", d) => TruthInv'
  <2> DEFINE d == Difference(Mapped(result["compare"]), Mapped(result["current"]))
  <2>1. side = "compare" BY <1>1, <1>5 DEF SideInv
  <2>2. lost = {} => \A s \in Sides : result[s] = Of(s, Due(s))
    BY <1>1, <1>5, <2>1 DEF SideInv, Finished, Lossless, Sides
  <2>3. lost = {} => d = Truth
    BY <1>5, <2>2, MappedDue DEF Truth, Sides
  <2> HIDE DEF d, Truth
  <2>4. SUFFICES ASSUME Exit(IF d = {} THEN "ok" ELSE "changed", d)
                 PROVE  TruthInv'
    BY DEF d
  <2> QED BY <1>2, <2>3, <2>4 DEF ReportIsTruthful
<1> QED BY <1>3, <1>4, <1>5 DEF Report

LEMMA TruthStep == TypeInv /\ CleanInv /\ TruthInv /\ [Next]_vars => TruthInv'
<1> SUFFICES ASSUME TypeInv, CleanInv, TruthInv, [Next]_vars PROVE TruthInv'
  OBVIOUS
<1>0. TypeOK BY DEF TypeInv
<1>1. CASE Cancel \/ Straggle \/ UNCHANGED vars
  <2>1. UNCHANGED <<world, pc, side, local, ended>>
    BY <1>1 DEF Cancel, Straggle, vars
  <2>2. UNCHANGED <<kss, lost, todo, hr, known, failures, outputs, result, exit, shown>>
    BY <2>1 DEF local, ended
  <2>3. Truth' = Truth /\ Strict' = Strict
    BY <2>1 DEF Truth, Strict, Mapped, Rendered, Resource, Skipped
  <2>4. /\ Here' = Here /\ Pending' = Pending
        /\ Due(side)' = Due(side)
        /\ Of(side, Due(side) \ Pending)' = Of(side, Due(side) \ Pending)
    BY <2>1, <2>2, FixedSide DEF Pending
  <2>5. LoopInv'
    BY <2>1, <2>2, <2>4 DEF TruthInv, LoopInv, Lossless, Skipped
  <2>6. SideInv'
    <3>1. \A s : Finished(s) => Finished(s)'
      BY <2>1, <2>2, StaysFinished
    <3>2. Strict' = Strict /\ world.tree[side]' = world.tree[side]
      BY <2>1 DEF Strict
    <3> HIDE DEF Strict
    <3> QED BY <2>1, <2>2, <3>1, <3>2 DEF TruthInv, SideInv
  <2>7. ReportIsTruthful'
    <3> HIDE DEF Truth, Strict
    <3> QED BY <2>2, <2>3 DEF TruthInv, ReportIsTruthful
  <2> QED BY <2>5, <2>6, <2>7 DEF TruthInv
<1>2. CASE Start \/ Return \/ Checkout
  BY <1>0, <1>2, BetweenSides, TruthError DEF Start, Exit
<1>3. CASE Scan \/ \E k \in Kustomizations : BuildKs(k)
  BY <1>0, <1>3, ScanTruth, BuildKsTruth
<1>4. CASE BuildInterrupted \/ Abort \/ CheckoutFails
  BY <1>4, TruthError DEF BuildInterrupted, Abort, CheckoutFails
<1>5. CASE Select \/ EndSide \/ Report
  BY <1>0, <1>5, SelectTruth, EndSideTruth, ReportTruth
<1>6. CASE \E r \in Releases : Take(r)
  BY <1>0, <1>6, TakeTruth
<1>7. CASE GiveUp \/ Answer
  BY <1>0, <1>7, ChartTruth DEF Answer
<1> QED BY <1>1, <1>2, <1>3, <1>4, <1>5, <1>6, <1>7 DEF Next, Step

(* When nothing was lost to discovery, and for build nothing failed, the   *)
(* report is what the two trees declare, whatever was cancelled or failed. *)
THEOREM ReportsTheTruth == Spec => []ReportIsTruthful
<1>1. Init => CleanInv BY DEF Init, CleanInv, Running
<1>2. TypeInv => TypeOK BY DEF TypeInv
<1>3. TruthInv => ReportIsTruthful BY DEF TruthInv
<1> QED
  BY <1>1, <1>2, <1>3, TypeInit, TypeStep, CleanStep, TruthInit, TruthStep, PTL DEF Spec
=============================================================================
