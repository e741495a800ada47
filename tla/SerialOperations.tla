-------------------------- MODULE SerialOperations --------------------------
(***************************************************************************)
(* What the operation core of provctl promises to its callers and to the   *)
(* operator who reads the `operations' table: operations change the system *)
(* one at a time, only between taking and leaving the lock and only while  *)
(* their row says "running"; a final verdict is written once and tells the *)
(* truth about what the operation left behind.  PlanExecutor implements    *)
(* it.                                                                     *)
(***************************************************************************)
EXTENDS Naturals

CONSTANTS Ops,   \* the operations submitted to the machine
          NoOp   \* "nobody holds the lock"

VARIABLES size,     \* size[o]: the number of steps of o's plan
          holder,   \* the operation that holds the lock, or NoOp
          verdict,  \* verdict[o]: the status in o's row, "none" without a row
          residue   \* residue[o]: the steps of o whose effect is in the system

vars == <<size, holder, verdict, residue>>

Final == {"done", "rolled_back", "inconsistent"}

Init ==
  /\ size \in [Ops -> Nat]
  /\ holder = NoOp
  /\ verdict = [o \in Ops |-> "none"]
  /\ residue = [o \in Ops |-> {}]

(***************************************************************************)
(* A "done" operation is in the system as a whole; a "rolled_back" one has *)
(* left at most the remains of the single step that failed.  Nothing is    *)
(* promised of an "inconsistent" one: the operator is told to look.        *)
(***************************************************************************)
Truthful(o, v) ==
  /\ v = "done" => residue[o] = 1..size[o]
  /\ v = "rolled_back" => \E failed \in 0..size[o] : residue[o] \subseteq {failed}

Enter(o) ==
  /\ holder = NoOp
  /\ verdict[o] = "none"
  /\ holder' = o
  /\ UNCHANGED <<size, verdict, residue>>

Open(o) ==
  /\ holder = o
  /\ verdict[o] = "none"
  /\ verdict' = [verdict EXCEPT ![o] = "running"]
  /\ UNCHANGED <<size, holder, residue>>

Work(o) ==
  /\ holder = o
  /\ verdict[o] = "running"
  /\ \E left \in SUBSET (1..size[o]) : residue' = [residue EXCEPT ![o] = left]
  /\ UNCHANGED <<size, holder, verdict>>

Settle(o) ==
  /\ holder = o
  /\ verdict[o] = "running"
  /\ \E v \in Final : Truthful(o, v) /\ verdict' = [verdict EXCEPT ![o] = v]
  /\ UNCHANGED <<size, holder, residue>>

(***************************************************************************)
(* The lock is left by a return or by the death of the process; only in    *)
(* the second case may the call in flight have changed the system again,   *)
(* and then the row still says "running".                                  *)
(***************************************************************************)
Leave(o) ==
  /\ holder = o
  /\ holder' = NoOp
  /\ \/ UNCHANGED residue
     \/ /\ verdict[o] = "running"
        /\ \E left \in SUBSET (1..size[o]) : residue' = [residue EXCEPT ![o] = left]
  /\ UNCHANGED <<size, verdict>>

Next == \E o \in Ops : Enter(o) \/ Open(o) \/ Work(o) \/ Settle(o) \/ Leave(o)

Spec == Init /\ [][Next]_vars
=============================================================================
