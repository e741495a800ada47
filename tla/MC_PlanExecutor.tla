-------------------------- MODULE MC_PlanExecutor --------------------------
(* PlanExecutor on two operations and the shapes of plan the services     *)
(* build: reversible steps, a step without Undo, a Commit boundary with    *)
(* steps after it, an empty plan (reconcile without drift).  The second    *)
(* operation is there to contend for the lock, so its plans are short.     *)
EXTENDS PlanExecutor, TLC

CONSTANTS o1, o2

Command == [undo |-> TRUE, commit |-> FALSE, ctx |-> TRUE]
File == [undo |-> TRUE, commit |-> FALSE, ctx |-> FALSE]
OneWay == [undo |-> FALSE, commit |-> FALSE, ctx |-> TRUE]
Boundary == [undo |-> TRUE, commit |-> TRUE, ctx |-> TRUE]

MCOps == {o1, o2}
MCPlansOf == (o1 :> {<<File, Command>>, <<Boundary, OneWay>>}) @@ (o2 :> {<<>>, <<File>>})

OneOp == {o1}
OnePlanOf == o1 :> {<<File, Command>>}
=============================================================================
