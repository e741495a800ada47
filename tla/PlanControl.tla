---------------------------- MODULE PlanControl ----------------------------
(***************************************************************************)
(* How a plan is prepared and run, as the services see it: the control     *)
(* state that plan.Executor keeps for the steps of a service.  Module      *)
(* PlanExecutor has the executor itself with its journal and deadline;     *)
(* the modules of the services extend this one and say what their steps    *)
(* and undos do.                                                           *)
(***************************************************************************)
EXTENDS Naturals, Sequences

CONSTANTS Requests,  \* operations users ask for, at any time
          NoRequest

ASSUME RequestsAssumption == NoRequest \notin Requests

VARIABLES
  lock,   \* the request whose plan is running
  pc,     \* pc[r]: how far it is, or its verdict
  at,     \* at[r]: the next step to do, or to undo
  dirty   \* dirty[r]: an undo failed or a step had none

control == <<lock, pc, at, dirty>>

(* The status of its row in operations; "running" is what a crash leaves,  *)
(* or a last write that was refused.                                       *)
Verdicts == {"done", "rolled_back", "inconsistent", "running"}
PCs == {"new", "ready", "do", "undo", "refused"} \cup Verdicts

ControlTyped(most) ==
  /\ lock \in Requests \cup {NoRequest}
  /\ pc \in [Requests -> PCs]
  /\ at \in [Requests -> 0..most]
  /\ dirty \in [Requests -> BOOLEAN]

ControlInit ==
  /\ lock = NoRequest
  /\ pc = [r \in Requests |-> "new"]
  /\ at = [r \in Requests |-> 1]
  /\ dirty = [r \in Requests |-> FALSE]

Goto(r, label) == pc' = [pc EXCEPT ![r] = label]

(* Prepare... has read what it needs, without the lock.                    *)
Prepared(r) ==
  /\ pc[r] = "new"
  /\ Goto(r, "ready")
  /\ UNCHANGED <<lock, at, dirty>>

(* A check of the preparation fails, or the user declines, or the lock is  *)
(* not free in time.                                                       *)
Refused(r) ==
  /\ pc[r] \in {"new", "ready"}
  /\ Goto(r, "refused")
  /\ UNCHANGED <<lock, at, dirty>>

Started(r) ==
  /\ pc[r] = "ready"
  /\ lock = NoRequest
  /\ lock' = r
  /\ Goto(r, "do")
  /\ UNCHANGED <<at, dirty>>

(* The step at[r] of n succeeds.                                           *)
Advanced(r, n) ==
  /\ pc[r] = "do"
  /\ at[r] <= n
  /\ at' = [at EXCEPT ![r] = @ + 1]
  /\ UNCHANGED <<lock, pc, dirty>>

(* The step at[r] fails, or the journal refuses to record the one before.  *)
Failed(r) ==
  /\ pc[r] = "do"
  /\ at' = [at EXCEPT ![r] = @ - 1]
  /\ Goto(r, "undo")
  /\ UNCHANGED <<lock, dirty>>

Undid(r) ==
  /\ pc[r] = "undo"
  /\ at[r] > 0
  /\ at' = [at EXCEPT ![r] = @ - 1]
  /\ UNCHANGED <<lock, pc, dirty>>

(* Mutant: the loop over the completed steps goes one step too far.        *)
DidNotUndoOverruns(r) ==
  /\ pc[r] = "undo"
  /\ at' = [at EXCEPT ![r] = @ - 1]
  /\ dirty' = [dirty EXCEPT ![r] = TRUE]
  /\ UNCHANGED <<lock, pc>>

(* The undo of the step at[r] fails, or it has none.                       *)
DidNotUndo(r) ==
  /\ pc[r] = "undo"
  /\ at[r] > 0
  /\ at' = [at EXCEPT ![r] = @ - 1]
  /\ dirty' = [dirty EXCEPT ![r] = TRUE]
  /\ UNCHANGED <<lock, pc>>

Verdict(r, n) ==
  CASE pc[r] = "do" /\ at[r] > n -> "done"
    [] pc[r] = "undo" /\ at[r] = 0 -> IF dirty[r] THEN "inconsistent" ELSE "rolled_back"
    [] OTHER -> "running"

(***************************************************************************)
(* The call ends: with its verdict, or anywhere with the process, or with  *)
(* a last write that is refused; the lock is free in each case.            *)
(***************************************************************************)
Ended(r, n) ==
  /\ lock = r
  /\ Goto(r, Verdict(r, n)) \/ Goto(r, "running")
  /\ lock' = NoRequest
  /\ at' = [at EXCEPT ![r] = 1]
  /\ dirty' = [dirty EXCEPT ![r] = FALSE]
=============================================================================
