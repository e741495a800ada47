---------------------------- MODULE PlanExecutor ----------------------------
(***************************************************************************)
(* The operation core of provctl: plan.Executor.Run over one operation     *)
(* lock (system.FileLocker) and one journal (sqlite.OperationJournal).     *)
(* Several provctl processes (CLI commands, the TUI) each run one plan.    *)
(*                                                                         *)
(* A step is reduced to what the executor can tell of it: whether it has   *)
(* an Undo, whether it is a Commit boundary, and whether its Do and Undo   *)
(* honour the context (commands and SQL do, plain file calls do not).      *)
(* Its change to the system is `effect': "none", "partial" or "full".      *)
(*                                                                         *)
(* `completed' of the code is the interval boundary+1 .. position: steps   *)
(* are appended in order and the list is cleared at a Commit step.         *)
(***************************************************************************)
EXTENDS Naturals, Sequences, FiniteSets

CONSTANTS Ops,             \* the operations, one provctl process each
          NoOp,            \* no operation: the lock is free
          PlansOf,         \* PlansOf[o]: the plans o may have been prepared with
          JournalMayFail   \* TRUE: the database may refuse any write;
                           \* FALSE: only after the context is done

Step == [undo : BOOLEAN, commit : BOOLEAN, ctx : BOOLEAN]

ASSUME NoOpAssumption == NoOp \notin Ops
ASSUME PlansAssumption == PlansOf \in [Ops -> SUBSET Seq(Step)]
ASSUME JournalAssumption == JournalMayFail \in BOOLEAN

VARIABLES
  plan,      \* plan[o]: the steps of o, fixed when Run is called
  pc,        \* pc[o]: where Run of o is
  lock,      \* the flock on the operation lock file
  expired,   \* expired[o]: the context of o is cancelled or past its deadline
  position,  \* position[o]: index of the loop over the steps, or of the rollback
  boundary,  \* boundary[o]: the last Commit step recorded, 0 if none
  dirty,     \* dirty[o]: rollback has an undo error or an irreversible step
  mark,      \* mark[o]: the step states of the in-memory snapshot
  row,       \* row[o]: o's row of the operations table
  effect,    \* effect[o]: what each step of o has left in the system
  failed,    \* failed[o]: Run returns an error
  refused,   \* refused[o]: history: a write of o's row was refused
  audit      \* audit[o]: the status of o's audit entry, "none" if not written

vars == <<plan, pc, lock, expired, position, boundary, dirty, mark, row,
          effect, failed, refused, audit>>

Held == {"journal", "step", "record", "failure", "undo", "recordUndo",
         "finish", "release"}
PCs == Held \cup {"idle", "wait", "audit", "ended", "crashed"}
Marks == {"pending", "done", "failed", "rolled_back"}
Effects == {"none", "partial", "full"}
Statuses == {"none", "running", "done", "rolled_back", "inconsistent"}

StepsOf(o) == 1..Len(plan[o])
Alive(o) == pc[o] \notin {"idle", "ended", "crashed"}

ControlOK ==
  /\ plan \in [Ops -> Seq(Step)]
  /\ pc \in [Ops -> PCs]
  /\ lock \in Ops \cup {NoOp}
  /\ position \in [Ops -> Nat]
  /\ boundary \in [Ops -> Nat]
  /\ audit \in [Ops -> {"none", "ok", "failed"}]

FlagsOK ==
  /\ expired \in [Ops -> BOOLEAN]
  /\ dirty \in [Ops -> BOOLEAN]
  /\ failed \in [Ops -> BOOLEAN]
  /\ refused \in [Ops -> BOOLEAN]

SnapshotsOK ==
  /\ DOMAIN mark = Ops /\ DOMAIN effect = Ops /\ DOMAIN row = Ops
  /\ \A o \in Ops : /\ mark[o] \in [StepsOf(o) -> Marks]
                    /\ effect[o] \in [StepsOf(o) -> Effects]
                    /\ row[o] \in [status : Statuses, mark : [StepsOf(o) -> Marks]]

TypeOK == ControlOK /\ FlagsOK /\ SnapshotsOK

Init ==
  /\ plan \in {p \in [Ops -> UNION {PlansOf[o] : o \in Ops}] : \A o \in Ops : p[o] \in PlansOf[o]}
  /\ pc = [o \in Ops |-> "idle"]
  /\ lock = NoOp
  /\ expired = [o \in Ops |-> FALSE]
  /\ position = [o \in Ops |-> 0]
  /\ boundary = [o \in Ops |-> 0]
  /\ dirty = [o \in Ops |-> FALSE]
  /\ failed = [o \in Ops |-> FALSE]
  /\ refused = [o \in Ops |-> FALSE]
  /\ audit = [o \in Ops |-> "none"]
  /\ mark = [o \in Ops |-> [i \in StepsOf(o) |-> "pending"]]
  /\ effect = [o \in Ops |-> [i \in StepsOf(o) |-> "none"]]
  /\ row = [o \in Ops |-> [status |-> "none", mark |-> [i \in StepsOf(o) |-> "pending"]]]

-----------------------------------------------------------------------------
(***************************************************************************)
(* One write of the journal: the row takes the status and the in-memory    *)
(* snapshot, or the write is refused and the row stays.  SQLite refuses    *)
(* every statement once the context is done.                               *)
(***************************************************************************)
WritesStatusOnly(o, status, snapshot) ==  \* mutant: the states of the steps are not stored
  /\ ~expired[o]
  /\ row' = [row EXCEPT ![o].status = status]
  /\ UNCHANGED refused

Writes(o, status, snapshot) ==
  /\ ~expired[o]
  /\ row' = [row EXCEPT ![o] = [status |-> status, mark |-> snapshot]]
  /\ UNCHANGED refused

Refused(o) ==
  /\ expired[o] \/ JournalMayFail
  /\ refused' = [refused EXCEPT ![o] = TRUE]
  /\ UNCHANGED row

Goto(o, label) == pc' = [pc EXCEPT ![o] = label]

(***************************************************************************)
(* Run begins.  A plan without action or target, and an executor without a *)
(* journal or a locker, return before the lock is tried: LockFails has the *)
(* same outcome.                                                           *)
(***************************************************************************)
Submit(o) ==
  /\ pc[o] = "idle"
  /\ Goto(o, "wait")
  /\ UNCHANGED <<plan, lock, expired, position, boundary, dirty, mark, row, effect, failed, refused, audit>>

LockIgnoresHolder(o) ==  \* mutant: the flock does not exclude
  /\ pc[o] = "wait"
  /\ lock' = o
  /\ Goto(o, "journal")
  /\ UNCHANGED <<plan, expired, position, boundary, dirty, mark, row, effect, failed, refused, audit>>

(* The flock is tried before the context is looked at, every 100 ms.       *)
Lock(o) ==
  /\ pc[o] = "wait"
  /\ lock = NoOp
  /\ lock' = o
  /\ Goto(o, "journal")
  /\ UNCHANGED <<plan, expired, position, boundary, dirty, mark, row, effect, failed, refused, audit>>

(* The context ends while another process holds the flock.                 *)
LockTimesOut(o) ==
  /\ pc[o] = "wait"
  /\ lock # NoOp
  /\ expired[o]
  /\ failed' = [failed EXCEPT ![o] = TRUE]
  /\ Goto(o, "audit")
  /\ UNCHANGED <<plan, lock, expired, position, boundary, dirty, mark, row, effect, refused, audit>>

(* The lock file cannot be opened, truncated, written or synced.           *)
LockFails(o) ==
  /\ pc[o] = "wait"
  /\ failed' = [failed EXCEPT ![o] = TRUE]
  /\ Goto(o, "audit")
  /\ UNCHANGED <<plan, lock, expired, position, boundary, dirty, mark, row, effect, refused, audit>>

(* Start inserts the row; without it nothing is executed.                  *)
JournalStart(o) ==
  /\ pc[o] = "journal"
  /\ Writes(o, "running", mark[o])
  /\ Goto(o, IF Len(plan[o]) = 0 THEN "finish" ELSE "step")
  /\ position' = [position EXCEPT ![o] = IF Len(plan[o]) = 0 THEN 0 ELSE 1]
  /\ UNCHANGED <<plan, lock, expired, boundary, dirty, mark, effect, failed, audit>>

JournalStartRefusedKeepsLock(o) ==  \* mutant: an early return without the unlock
  /\ pc[o] = "journal"
  /\ Refused(o)
  /\ failed' = [failed EXCEPT ![o] = TRUE]
  /\ Goto(o, "audit")
  /\ UNCHANGED <<plan, lock, expired, position, boundary, dirty, mark, effect, audit>>

JournalStartRefused(o) ==
  /\ pc[o] = "journal"
  /\ Refused(o)
  /\ failed' = [failed EXCEPT ![o] = TRUE]
  /\ Goto(o, "release")
  /\ UNCHANGED <<plan, lock, expired, position, boundary, dirty, mark, effect, audit>>

StepSucceeds(o) ==
  LET i == position[o] IN
  /\ pc[o] = "step"
  /\ ~(expired[o] /\ plan[o][i].ctx)
  /\ effect' = [effect EXCEPT ![o][i] = "full"]
  /\ mark' = [mark EXCEPT ![o][i] = "done"]
  /\ Goto(o, "record")
  /\ UNCHANGED <<plan, lock, expired, position, boundary, dirty, row, failed, refused, audit>>

(* A Do that returns an error may have changed part of the system; a step  *)
(* without a Do fails with nothing changed.                                *)
StepFails(o) ==
  LET i == position[o] IN
  /\ pc[o] = "step"
  /\ \E left \in {"none", "partial"} : effect' = [effect EXCEPT ![o][i] = left]
  /\ mark' = [mark EXCEPT ![o][i] = "failed"]
  /\ Goto(o, "failure")
  /\ UNCHANGED <<plan, lock, expired, position, boundary, dirty, row, failed, refused, audit>>

(***************************************************************************)
(* The progress of a completed step is journalled; only then is a Commit   *)
(* step a boundary.  A refused write rolls the step back like an error.    *)
(***************************************************************************)
RecordStep(o) ==
  LET i == position[o] IN
  /\ pc[o] = "record"
  /\ Writes(o, "running", mark[o])
  /\ boundary' = [boundary EXCEPT ![o] = IF plan[o][i].commit THEN i ELSE @]
  /\ Goto(o, IF i = Len(plan[o]) THEN "finish" ELSE "step")
  /\ position' = [position EXCEPT ![o] = IF i = Len(plan[o]) THEN i ELSE i + 1]
  /\ UNCHANGED <<plan, lock, expired, dirty, mark, effect, failed, audit>>

RecordStepRefused(o) ==
  /\ pc[o] = "record"
  /\ Refused(o)
  /\ dirty' = [dirty EXCEPT ![o] = boundary[o] > 0]
  /\ Goto(o, "undo")
  /\ UNCHANGED <<plan, lock, expired, position, boundary, mark, effect, failed, audit>>

(* The failed step is journalled (the result is ignored) and rollback      *)
(* starts below it: its own Undo is never called.                          *)
RecordFailure(o) ==
  /\ pc[o] = "failure"
  /\ Writes(o, "running", mark[o]) \/ Refused(o)
  /\ dirty' = [dirty EXCEPT ![o] = boundary[o] > 0]
  /\ position' = [position EXCEPT ![o] = @ - 1]
  /\ Goto(o, "undo")
  /\ UNCHANGED <<plan, lock, expired, boundary, mark, effect, failed, audit>>

(* A completed step without Undo is irreversible and is passed over.       *)
SkipIrreversible(o) ==
  LET i == position[o] IN
  /\ pc[o] = "undo"
  /\ i > boundary[o]
  /\ ~plan[o][i].undo
  /\ dirty' = [dirty EXCEPT ![o] = TRUE]
  /\ position' = [position EXCEPT ![o] = i - 1]
  /\ UNCHANGED <<plan, pc, lock, expired, boundary, mark, row, effect, failed, refused, audit>>

UndoPastCommit(o) ==  \* mutant: rollback does not stop at the Commit step
  LET i == position[o] IN
  /\ pc[o] = "undo"
  /\ i > 0
  /\ plan[o][i].undo
  /\ ~(expired[o] /\ plan[o][i].ctx)
  /\ effect' = [effect EXCEPT ![o][i] = "none"]
  /\ mark' = [mark EXCEPT ![o][i] = "rolled_back"]
  /\ Goto(o, "recordUndo")
  /\ UNCHANGED <<plan, lock, expired, position, boundary, dirty, row, failed, refused, audit>>

UndoSucceeds(o) ==
  LET i == position[o] IN
  /\ pc[o] = "undo"
  /\ i > boundary[o]
  /\ plan[o][i].undo
  /\ ~(expired[o] /\ plan[o][i].ctx)
  /\ effect' = [effect EXCEPT ![o][i] = "none"]
  /\ mark' = [mark EXCEPT ![o][i] = "rolled_back"]
  /\ Goto(o, "recordUndo")
  /\ UNCHANGED <<plan, lock, expired, position, boundary, dirty, row, failed, refused, audit>>

UndoFailsUnseen(o) ==  \* mutant: the undo error is dropped
  LET i == position[o] IN
  /\ pc[o] = "undo"
  /\ i > boundary[o]
  /\ plan[o][i].undo
  /\ \E left \in {"partial", "full"} : effect' = [effect EXCEPT ![o][i] = left]
  /\ position' = [position EXCEPT ![o] = i - 1]
  /\ UNCHANGED <<plan, pc, lock, expired, boundary, dirty, mark, row, failed, refused, audit>>

(* An undo error is remembered and rollback goes on with the step below.   *)
UndoFails(o) ==
  LET i == position[o] IN
  /\ pc[o] = "undo"
  /\ i > boundary[o]
  /\ plan[o][i].undo
  /\ \E left \in {"partial", "full"} : effect' = [effect EXCEPT ![o][i] = left]
  /\ dirty' = [dirty EXCEPT ![o] = TRUE]
  /\ position' = [position EXCEPT ![o] = i - 1]
  /\ UNCHANGED <<plan, pc, lock, expired, boundary, mark, row, failed, refused, audit>>

RecordUndoSkips(o) ==  \* mutant: the rollback index moves two steps at a time
  /\ pc[o] = "recordUndo"
  /\ Writes(o, "running", mark[o]) \/ Refused(o)
  /\ position' = [position EXCEPT ![o] = @ - 2]
  /\ Goto(o, "undo")
  /\ UNCHANGED <<plan, lock, expired, boundary, dirty, mark, effect, failed, audit>>

RecordUndo(o) ==
  /\ pc[o] = "recordUndo"
  /\ Writes(o, "running", mark[o]) \/ Refused(o)
  /\ position' = [position EXCEPT ![o] = @ - 1]
  /\ Goto(o, "undo")
  /\ UNCHANGED <<plan, lock, expired, boundary, dirty, mark, effect, failed, audit>>

(***************************************************************************)
(* The verdict of a rollback.  A refused write is only joined to the error *)
(* that Run returns: the row keeps saying "running".                       *)
(***************************************************************************)
Settle(o) ==
  /\ pc[o] = "undo"
  /\ position[o] <= boundary[o]
  /\ \/ Writes(o, IF dirty[o] THEN "inconsistent" ELSE "rolled_back", mark[o])
     \/ Refused(o)
  /\ failed' = [failed EXCEPT ![o] = TRUE]
  /\ Goto(o, "release")
  /\ UNCHANGED <<plan, lock, expired, position, boundary, dirty, mark, effect, audit>>

(* Every step is done.  If this last write is refused Run returns an error *)
(* but rolls nothing back.                                                 *)
Finish(o) ==
  /\ pc[o] = "finish"
  /\ Writes(o, "done", mark[o])
  /\ Goto(o, "release")
  /\ UNCHANGED <<plan, lock, expired, position, boundary, dirty, mark, effect, failed, audit>>

FinishRefusedUnseen(o) ==  \* mutant: the error of the last journal write is dropped
  /\ pc[o] = "finish"
  /\ Refused(o)
  /\ Goto(o, "release")
  /\ UNCHANGED <<plan, lock, expired, position, boundary, dirty, mark, effect, failed, audit>>

FinishRefused(o) ==
  /\ pc[o] = "finish"
  /\ Refused(o)
  /\ failed' = [failed EXCEPT ![o] = TRUE]
  /\ Goto(o, "release")
  /\ UNCHANGED <<plan, lock, expired, position, boundary, dirty, mark, effect, audit>>

(* The deferred calls, last in first out: unlock, then the audit entry,    *)
(* whose own error is ignored.                                             *)
Release(o) ==
  /\ pc[o] = "release"
  /\ lock' = NoOp
  /\ Goto(o, "audit")
  /\ UNCHANGED <<plan, expired, position, boundary, dirty, mark, row, effect, failed, refused, audit>>

Audit(o) ==
  /\ pc[o] = "audit"
  /\ \E entry \in {"none", IF failed[o] THEN "failed" ELSE "ok"} :
       audit' = [audit EXCEPT ![o] = entry]
  /\ Goto(o, "ended")
  /\ UNCHANGED <<plan, lock, expired, position, boundary, dirty, mark, row, effect, failed, refused>>

(***************************************************************************)
(* The environment.  The deadline of the command passes, or the operator   *)
(* cancels.  The process may die anywhere: the kernel drops its flock, and *)
(* a Do or an Undo that was running leaves what it had reached.  Nothing   *)
(* ever resumes a row: RunningOperations has no caller.                    *)
(***************************************************************************)
Expire(o) ==
  /\ Alive(o)
  /\ ~expired[o]
  /\ expired' = [expired EXCEPT ![o] = TRUE]
  /\ UNCHANGED <<plan, pc, lock, position, boundary, dirty, mark, row, effect, failed, refused, audit>>

Calling(o) ==
  \/ pc[o] = "step"
  \/ pc[o] = "undo" /\ position[o] > boundary[o] /\ plan[o][position[o]].undo

Crash(o) ==
  /\ Alive(o)
  /\ lock' = IF lock = o THEN NoOp ELSE lock
  /\ \/ UNCHANGED effect
     \/ /\ Calling(o)
        /\ \E left \in Effects : effect' = [effect EXCEPT ![o][position[o]] = left]
  /\ Goto(o, "crashed")
  /\ UNCHANGED <<plan, expired, position, boundary, dirty, mark, row, failed, refused, audit>>

Run(o) ==
  \/ Submit(o) \/ Lock(o) \/ LockTimesOut(o) \/ LockFails(o)
  \/ JournalStart(o) \/ JournalStartRefused(o)
  \/ StepSucceeds(o) \/ StepFails(o) \/ RecordStep(o) \/ RecordStepRefused(o)
  \/ RecordFailure(o) \/ SkipIrreversible(o) \/ UndoSucceeds(o) \/ UndoFails(o)
  \/ RecordUndo(o) \/ Settle(o) \/ Finish(o) \/ FinishRefused(o)
  \/ Release(o) \/ Audit(o)

Terminated ==
  /\ \A o \in Ops : pc[o] \in {"ended", "crashed"}
  /\ UNCHANGED vars

Next ==
  \/ \E o \in Ops : Run(o) \/ Expire(o) \/ Crash(o)
  \/ Terminated

Spec == Init /\ [][Next]_vars

(***************************************************************************)
(* A process that has not died keeps running, and every Do, Undo and write *)
(* returns.  Nothing is assumed of the deadline, of the lock file and of   *)
(* the outcome of any call.                                                *)
(***************************************************************************)
Progress(o) == Run(o) /\ ~(pc[o] = "wait" /\ ~expired[o] /\ lock # NoOp)

FairSpec == Spec /\ \A o \in Ops : WF_vars(Progress(o) /\ pc[o] # "idle")

-----------------------------------------------------------------------------
(***************************************************************************)
(* No two operations are between taking and dropping the lock at once,     *)
(* whatever fails, expires or crashes (Executor.Run, FileLocker.Lock).     *)
(***************************************************************************)
MutualExclusion ==
  \A o, p \in Ops : pc[o] \in Held /\ pc[p] \in Held => o = p

(***************************************************************************)
(* What an operator reads in a settled row is what is in the system: every *)
(* step that left something is marked done or failed, "done" means all of  *)
(* the plan, "rolled_back" means no completed step remains, and an         *)
(* "inconsistent" row names at least one that does (Executor.rollback).    *)
(***************************************************************************)
SettledTruth(o) ==
  LET Marked(m) == {i \in StepsOf(o) : row[o].mark[i] = m} IN
  /\ row[o].status \in {"done", "rolled_back", "inconsistent"} =>
       \A i \in StepsOf(o) :
         effect[o][i] # "none" => i \in Marked("done") \cup Marked("failed")
  /\ row[o].status = "done" => \A i \in StepsOf(o) : effect[o][i] = "full"
  /\ row[o].status = "rolled_back" => Marked("done") = {}
  /\ row[o].status = "inconsistent" => Marked("done") # {}

SettledRowTellsRemains == \A o \in Ops : SettledTruth(o)

(***************************************************************************)
(* As long as no write was refused, a row that a crash leaves at "running" *)
(* is exact except for the one step in flight (the Update after each step, *)
(* failure and undo).                                                      *)
(***************************************************************************)
JournalLag ==
  \A o \in Ops : row[o].status = "running" /\ ~refused[o] =>
    \A i \in StepsOf(o) \ {position[o]} :
      /\ row[o].mark[i] \in {"pending", "rolled_back"} => effect[o][i] = "none"
      /\ row[o].mark[i] = "done" => effect[o][i] # "none"

(***************************************************************************)
(* The audit log and the journal do not contradict each other: "ok" is     *)
(* written only for a row that says "done" and "failed" never for one.     *)
(***************************************************************************)
AuditAgrees ==
  \A o \in Ops : /\ audit[o] = "ok" => row[o].status = "done"
                 /\ audit[o] = "failed" => row[o].status # "done"

(***************************************************************************)
(* Undo runs from the newest completed step down: a step is taken back     *)
(* under a later one that is still there only in an operation that will    *)
(* be reported as inconsistent (the loop of Executor.rollback).            *)
(***************************************************************************)
UndoInReverse ==
  [][\A o \in Ops : \A i, j \in StepsOf(o) :
       /\ mark[o][i] = "done" /\ mark'[o][i] = "rolled_back"
       /\ j > i /\ mark[o][j] = "done"
       => dirty[o]]_vars

(***************************************************************************)
(* Nothing up to a recorded Commit step is ever taken back, and such an    *)
(* operation is never reported as rolled back (Step.Commit in plan.go).    *)
(***************************************************************************)
CommittedStays ==
  [][\A o \in Ops : \A i \in 1..boundary[o] :
       /\ effect'[o][i] = effect[o][i]
       /\ row'[o].status # "rolled_back"]_vars

(***************************************************************************)
(* The executor implements the contract of SerialOperations.               *)
(***************************************************************************)
Residue == [o \in Ops |-> {i \in StepsOf(o) : effect[o][i] # "none"}]

Contract == INSTANCE SerialOperations WITH
  size <- [o \in Ops |-> Len(plan[o])],
  holder <- lock,
  verdict <- [o \in Ops |-> row[o].status],
  residue <- Residue

ImplementsContract == Contract!Spec

(***************************************************************************)
(* No operation waits or works for ever: every Run returns or its process  *)
(* dies, so the lock is always dropped again.                              *)
(***************************************************************************)
EveryRunReturns == \A o \in Ops : (pc[o] = "wait") ~> ~Alive(o)

(***************************************************************************)
(* Every Run that returns has settled its row (docs/project-specification  *)
(* section 7.1: an error ends in rolled_back or inconsistent, success in   *)
(* done).  The code breaks it: the deadline meant for the wait for the     *)
(* lock bounds the writes of the journal too.                              *)
(***************************************************************************)
EveryReturnIsSettled == \A o \in Ops : pc[o] = "ended" => row[o].status # "running"
=============================================================================
