------------------------ MODULE PlanExecutor_proofs ------------------------
(***************************************************************************)
(* Machine-checked proofs about PlanExecutor, for any set of operations    *)
(* and any plans.                                                          *)
(***************************************************************************)
EXTENDS PlanExecutor, TLAPS

(***************************************************************************)
(* The two cursors of Run: the loop and the rollback stay inside the plan, *)
(* and rollback never passes below the last recorded Commit step.          *)
(***************************************************************************)
Cursors ==
  \A o \in Ops :
    /\ boundary[o] <= position[o]
    /\ position[o] <= Len(plan[o])
    /\ pc[o] \in {"idle", "wait", "journal"} => position[o] = 0
    /\ pc[o] \in {"step", "record", "failure", "recordUndo"} => boundary[o] < position[o]

Typed == TypeOK /\ Cursors

LEMMA TypedInit == Init => Typed
  BY PlansAssumption, SMTT(30)
  DEF Init, Typed, TypeOK, ControlOK, FlagsOK, SnapshotsOK, Cursors, PCs, Held, Marks, Effects, Statuses, StepsOf

(***************************************************************************)
(* One writable piece of state at a time: what the helpers Writes and      *)
(* Refused, and an update of one step's mark or effect, do to the types.   *)
(***************************************************************************)
LEMMA RowTyped ==
  ASSUME TypeOK, NEW o \in Ops, UNCHANGED plan,
         UNCHANGED row \/ \E s \in Statuses : row' = [row EXCEPT ![o] = [status |-> s, mark |-> mark[o]]]
  PROVE  /\ DOMAIN row' = Ops
         /\ \A p \in Ops : row'[p] \in [status : Statuses, mark : [StepsOf(p)' -> Marks]]
<1>1. /\ DOMAIN row = Ops /\ mark[o] \in [StepsOf(o) -> Marks]
      /\ \A p \in Ops : row[p] \in [status : Statuses, mark : [StepsOf(p) -> Marks]]
  BY SMT DEF TypeOK, SnapshotsOK
<1>2. \A p \in Ops : StepsOf(p)' = StepsOf(p)
  BY DEF StepsOf
<1>3. CASE UNCHANGED row
  BY <1>1, <1>2, <1>3, SMT
<1>4. ASSUME NEW s \in Statuses, row' = [row EXCEPT ![o] = [status |-> s, mark |-> mark[o]]]
      PROVE  DOMAIN row' = Ops /\ \A p \in Ops : row'[p] = IF p = o THEN [status |-> s, mark |-> mark[o]] ELSE row[p]
  BY <1>1, <1>4, SMT
<1>5. \A s \in Statuses : [status |-> s, mark |-> mark[o]] \in [status : Statuses, mark : [StepsOf(o) -> Marks]]
  BY <1>1, SMT
<1> QED
  BY <1>1, <1>2, <1>3, <1>4, <1>5, SMT

LEMMA MarkTyped ==
  ASSUME TypeOK, NEW o \in Ops, NEW i \in Nat, NEW m \in Marks, UNCHANGED plan,
         mark' = [mark EXCEPT ![o][i] = m]
  PROVE  DOMAIN mark' = Ops /\ \A p \in Ops : mark'[p] \in [StepsOf(p)' -> Marks]
<1>1. DOMAIN mark = Ops /\ \A p \in Ops : mark[p] \in [StepsOf(p) -> Marks]
  BY DEF TypeOK, SnapshotsOK
<1>2. \A p \in Ops : StepsOf(p)' = StepsOf(p)
  BY DEF StepsOf
<1>3. [mark[o] EXCEPT ![i] = m] \in [StepsOf(o) -> Marks]
  BY <1>1
<1>4. DOMAIN mark' = Ops /\ mark'[o] = [mark[o] EXCEPT ![i] = m]
  BY <1>1
<1>5. \A p \in Ops \ {o} : mark'[p] = mark[p]
  BY <1>1
<1> QED BY <1>1, <1>2, <1>3, <1>4, <1>5

LEMMA EffectTyped ==
  ASSUME TypeOK, NEW o \in Ops, NEW i \in Nat, NEW e \in Effects, UNCHANGED plan,
         effect' = [effect EXCEPT ![o][i] = e]
  PROVE  DOMAIN effect' = Ops /\ \A p \in Ops : effect'[p] \in [StepsOf(p)' -> Effects]
<1>1. DOMAIN effect = Ops /\ \A p \in Ops : effect[p] \in [StepsOf(p) -> Effects]
  BY DEF TypeOK, SnapshotsOK
<1>2. \A p \in Ops : StepsOf(p)' = StepsOf(p)
  BY DEF StepsOf
<1>3. [effect[o] EXCEPT ![i] = e] \in [StepsOf(o) -> Effects]
  BY <1>1
<1>4. DOMAIN effect' = Ops /\ effect'[o] = [effect[o] EXCEPT ![i] = e]
  BY <1>1
<1>5. \A p \in Ops \ {o} : effect'[p] = effect[p]
  BY <1>1
<1> QED BY <1>1, <1>2, <1>3, <1>4, <1>5

LEMMA RefusedTyped ==
  ASSUME FlagsOK, NEW o \in Ops,
         UNCHANGED refused \/ refused' = [refused EXCEPT ![o] = TRUE]
  PROVE  refused' \in [Ops -> BOOLEAN]
  BY DEF FlagsOK

(***************************************************************************)
(* Each action of Run, and of the environment, keeps the types and the     *)
(* cursors.                                                                *)
(***************************************************************************)
LEMMA TypedStep == Typed /\ [Next]_vars => Typed'
<1> SUFFICES ASSUME Typed, [Next]_vars PROVE Typed'
  OBVIOUS
<1> USE DEF Typed, TypeOK
<1>1. ASSUME NEW o \in Ops, Submit(o) PROVE Typed'
  <2>1. ControlOK'
    BY <1>1, SMTT(30) DEF Submit, Goto, ControlOK, Cursors, PCs, Held
  <2>2. FlagsOK'
    BY <1>1, SMTT(30) DEF Submit, Goto, FlagsOK, ControlOK
  <2>3. SnapshotsOK'
    BY <1>1 DEF Submit, SnapshotsOK, StepsOf
  <2>4. Cursors'
    BY <1>1, SMTT(30) DEF Submit, Goto, Cursors, ControlOK
  <2> QED BY <2>1, <2>2, <2>3, <2>4
<1>2. ASSUME NEW o \in Ops, Lock(o) PROVE Typed'
  <2>1. ControlOK'
    BY <1>2, SMTT(30) DEF Lock, Goto, ControlOK, Cursors, PCs, Held
  <2>2. FlagsOK'
    BY <1>2, SMTT(30) DEF Lock, Goto, FlagsOK, ControlOK
  <2>3. SnapshotsOK'
    BY <1>2 DEF Lock, SnapshotsOK, StepsOf
  <2>4. Cursors'
    BY <1>2, SMTT(30) DEF Lock, Goto, Cursors, ControlOK
  <2> QED BY <2>1, <2>2, <2>3, <2>4
<1>3. ASSUME NEW o \in Ops, LockTimesOut(o) PROVE Typed'
  <2>1. ControlOK'
    BY <1>3, SMTT(30) DEF LockTimesOut, Goto, ControlOK, Cursors, PCs, Held
  <2>2. FlagsOK'
    BY <1>3, SMTT(30) DEF LockTimesOut, Goto, FlagsOK, ControlOK
  <2>3. SnapshotsOK'
    BY <1>3 DEF LockTimesOut, SnapshotsOK, StepsOf
  <2>4. Cursors'
    BY <1>3, SMTT(30) DEF LockTimesOut, Goto, Cursors, ControlOK
  <2> QED BY <2>1, <2>2, <2>3, <2>4
<1>4. ASSUME NEW o \in Ops, LockFails(o) PROVE Typed'
  <2>1. ControlOK'
    BY <1>4, SMTT(30) DEF LockFails, Goto, ControlOK, Cursors, PCs, Held
  <2>2. FlagsOK'
    BY <1>4, SMTT(30) DEF LockFails, Goto, FlagsOK, ControlOK
  <2>3. SnapshotsOK'
    BY <1>4 DEF LockFails, SnapshotsOK, StepsOf
  <2>4. Cursors'
    BY <1>4, SMTT(30) DEF LockFails, Goto, Cursors, ControlOK
  <2> QED BY <2>1, <2>2, <2>3, <2>4
<1>5. ASSUME NEW o \in Ops, JournalStart(o) PROVE Typed'
  <2>1. ControlOK'
    BY <1>5, SMTT(30) DEF JournalStart, Goto, Writes, ControlOK, Cursors, PCs, Held
  <2>2. FlagsOK'
    <3>1. refused' \in [Ops -> BOOLEAN]
      BY <1>5, RefusedTyped DEF JournalStart, Writes
    <3> QED BY <1>5, <3>1 DEF JournalStart, FlagsOK
  <2>3. SnapshotsOK'
    BY <1>5, RowTyped, SMTT(30) DEF JournalStart, Goto, Writes, SnapshotsOK, StepsOf, Statuses
  <2>4. Cursors'
    BY <1>5, SMTT(30) DEF JournalStart, Goto, Writes, Cursors, ControlOK
  <2> QED BY <2>1, <2>2, <2>3, <2>4
<1>6. ASSUME NEW o \in Ops, JournalStartRefused(o) PROVE Typed'
  <2>1. ControlOK'
    BY <1>6, SMTT(30) DEF JournalStartRefused, Goto, Refused, ControlOK, Cursors, PCs, Held
  <2>2. FlagsOK'
    <3>1. refused' \in [Ops -> BOOLEAN]
      BY <1>6, RefusedTyped DEF JournalStartRefused, Refused
    <3>2. failed' \in [Ops -> BOOLEAN]
      BY <1>6, SMTT(30) DEF JournalStartRefused, FlagsOK, ControlOK
    <3> QED BY <1>6, <3>1, <3>2 DEF JournalStartRefused, FlagsOK
  <2>3. SnapshotsOK'
    BY <1>6, RowTyped, SMTT(30) DEF JournalStartRefused, Goto, Refused, SnapshotsOK, StepsOf, Statuses
  <2>4. Cursors'
    BY <1>6, SMTT(30) DEF JournalStartRefused, Goto, Refused, Cursors, ControlOK
  <2> QED BY <2>1, <2>2, <2>3, <2>4
<1>7. ASSUME NEW o \in Ops, StepSucceeds(o) PROVE Typed'
  <2>1. ControlOK'
    BY <1>7, SMTT(30) DEF StepSucceeds, Goto, ControlOK, Cursors, PCs, Held
  <2>2. FlagsOK'
    BY <1>7, SMTT(30) DEF StepSucceeds, Goto, FlagsOK, ControlOK
  <2>3. SnapshotsOK'
    <3>1. DOMAIN mark' = Ops /\ \A p \in Ops : mark'[p] \in [StepsOf(p)' -> Marks]
      <4> DEFINE i == position[o]
      <4>1. i \in Nat /\ "done" \in Marks /\ UNCHANGED plan
        BY <1>7 DEF StepSucceeds, ControlOK, Marks
      <4>2. mark' = [mark EXCEPT ![o][i] = "done"]
        BY <1>7 DEF StepSucceeds
      <4> QED BY <4>1, <4>2, MarkTyped
    <3>2. DOMAIN effect' = Ops /\ \A p \in Ops : effect'[p] \in [StepsOf(p)' -> Effects]
      <4> DEFINE i == position[o]
      <4>1. i \in Nat /\ "full" \in Effects /\ UNCHANGED plan
        BY <1>7 DEF StepSucceeds, ControlOK, Effects
      <4>2. effect' = [effect EXCEPT ![o][i] = "full"]
        BY <1>7 DEF StepSucceeds
      <4> QED BY <4>1, <4>2, EffectTyped
    <3> QED BY <1>7, <3>1, <3>2 DEF StepSucceeds, SnapshotsOK, StepsOf
  <2>4. Cursors'
    BY <1>7, SMTT(30) DEF StepSucceeds, Goto, Cursors, ControlOK
  <2> QED BY <2>1, <2>2, <2>3, <2>4
<1>8. ASSUME NEW o \in Ops, StepFails(o) PROVE Typed'
  <2>1. ControlOK'
    BY <1>8, SMTT(30) DEF StepFails, Goto, ControlOK, Cursors, PCs, Held
  <2>2. FlagsOK'
    BY <1>8, SMTT(30) DEF StepFails, Goto, FlagsOK, ControlOK
  <2>3. SnapshotsOK'
    <3>1. DOMAIN mark' = Ops /\ \A p \in Ops : mark'[p] \in [StepsOf(p)' -> Marks]
      <4> DEFINE i == position[o]
      <4>1. i \in Nat /\ "failed" \in Marks /\ UNCHANGED plan
        BY <1>8 DEF StepFails, ControlOK, Marks
      <4>2. mark' = [mark EXCEPT ![o][i] = "failed"]
        BY <1>8 DEF StepFails
      <4> QED BY <4>1, <4>2, MarkTyped
    <3>2. DOMAIN effect' = Ops /\ \A p \in Ops : effect'[p] \in [StepsOf(p)' -> Effects]
      <4> DEFINE i == position[o]
      <4>1. PICK left \in Effects : effect' = [effect EXCEPT ![o][i] = left]
        BY <1>8 DEF StepFails, Effects
      <4>2. i \in Nat /\ UNCHANGED plan
        BY <1>8 DEF StepFails, ControlOK
      <4> QED BY <4>1, <4>2, EffectTyped
    <3> QED BY <1>8, <3>1, <3>2 DEF StepFails, SnapshotsOK, StepsOf
  <2>4. Cursors'
    BY <1>8, SMTT(30) DEF StepFails, Goto, Cursors, ControlOK
  <2> QED BY <2>1, <2>2, <2>3, <2>4
<1>9. ASSUME NEW o \in Ops, RecordStep(o) PROVE Typed'
  <2>1. ControlOK'
    BY <1>9, SMTT(30) DEF RecordStep, Goto, Writes, ControlOK, Cursors, PCs, Held
  <2>2. FlagsOK'
    <3>1. refused' \in [Ops -> BOOLEAN]
      BY <1>9, RefusedTyped DEF RecordStep, Writes
    <3> QED BY <1>9, <3>1 DEF RecordStep, FlagsOK
  <2>3. SnapshotsOK'
    BY <1>9, RowTyped, SMTT(30) DEF RecordStep, Goto, Writes, SnapshotsOK, StepsOf, Statuses
  <2>4. Cursors'
    BY <1>9, SMTT(30) DEF RecordStep, Goto, Writes, Cursors, ControlOK
  <2> QED BY <2>1, <2>2, <2>3, <2>4
<1>10. ASSUME NEW o \in Ops, RecordStepRefused(o) PROVE Typed'
  <2>1. ControlOK'
    BY <1>10, SMTT(30) DEF RecordStepRefused, Goto, Refused, ControlOK, Cursors, PCs, Held
  <2>2. FlagsOK'
    <3>1. refused' \in [Ops -> BOOLEAN]
      BY <1>10, RefusedTyped DEF RecordStepRefused, Refused
    <3>2. dirty' \in [Ops -> BOOLEAN]
      BY <1>10, SMTT(30) DEF RecordStepRefused, FlagsOK, ControlOK
    <3> QED BY <1>10, <3>1, <3>2 DEF RecordStepRefused, FlagsOK
  <2>3. SnapshotsOK'
    BY <1>10, RowTyped, SMTT(30) DEF RecordStepRefused, Goto, Refused, SnapshotsOK, StepsOf, Statuses
  <2>4. Cursors'
    BY <1>10, SMTT(30) DEF RecordStepRefused, Goto, Refused, Cursors, ControlOK
  <2> QED BY <2>1, <2>2, <2>3, <2>4
<1>11. ASSUME NEW o \in Ops, RecordFailure(o) PROVE Typed'
  <2>1. ControlOK'
    BY <1>11, SMTT(30) DEF RecordFailure, Goto, Writes, Refused, ControlOK, Cursors, PCs, Held
  <2>2. FlagsOK'
    <3>1. refused' \in [Ops -> BOOLEAN]
      BY <1>11, RefusedTyped DEF RecordFailure, Writes, Refused
    <3>2. dirty' \in [Ops -> BOOLEAN]
      BY <1>11, SMTT(30) DEF RecordFailure, FlagsOK, ControlOK
    <3> QED BY <1>11, <3>1, <3>2 DEF RecordFailure, FlagsOK
  <2>3. SnapshotsOK'
    BY <1>11, RowTyped, SMTT(30) DEF RecordFailure, Goto, Writes, Refused, SnapshotsOK, StepsOf, Statuses
  <2>4. Cursors'
    BY <1>11, SMTT(30) DEF RecordFailure, Goto, Writes, Refused, Cursors, ControlOK
  <2> QED BY <2>1, <2>2, <2>3, <2>4
<1>12. ASSUME NEW o \in Ops, SkipIrreversible(o) PROVE Typed'
  <2>1. ControlOK'
    BY <1>12, SMTT(30) DEF SkipIrreversible, ControlOK, Cursors, PCs, Held
  <2>2. FlagsOK'
    BY <1>12, SMTT(30) DEF SkipIrreversible, FlagsOK, ControlOK
  <2>3. SnapshotsOK'
    BY <1>12 DEF SkipIrreversible, SnapshotsOK, StepsOf
  <2>4. Cursors'
    BY <1>12, SMTT(30) DEF SkipIrreversible, Cursors, ControlOK
  <2> QED BY <2>1, <2>2, <2>3, <2>4
<1>13. ASSUME NEW o \in Ops, UndoSucceeds(o) PROVE Typed'
  <2>1. ControlOK'
    BY <1>13, SMTT(30) DEF UndoSucceeds, Goto, ControlOK, Cursors, PCs, Held
  <2>2. FlagsOK'
    BY <1>13, SMTT(30) DEF UndoSucceeds, Goto, FlagsOK, ControlOK
  <2>3. SnapshotsOK'
    <3>1. DOMAIN mark' = Ops /\ \A p \in Ops : mark'[p] \in [StepsOf(p)' -> Marks]
      <4> DEFINE i == position[o]
      <4>1. i \in Nat /\ "rolled_back" \in Marks /\ UNCHANGED plan
        BY <1>13 DEF UndoSucceeds, ControlOK, Marks
      <4>2. mark' = [mark EXCEPT ![o][i] = "rolled_back"]
        BY <1>13 DEF UndoSucceeds
      <4> QED BY <4>1, <4>2, MarkTyped
    <3>2. DOMAIN effect' = Ops /\ \A p \in Ops : effect'[p] \in [StepsOf(p)' -> Effects]
      <4> DEFINE i == position[o]
      <4>1. i \in Nat /\ "none" \in Effects /\ UNCHANGED plan
        BY <1>13 DEF UndoSucceeds, ControlOK, Effects
      <4>2. effect' = [effect EXCEPT ![o][i] = "none"]
        BY <1>13 DEF UndoSucceeds
      <4> QED BY <4>1, <4>2, EffectTyped
    <3> QED BY <1>13, <3>1, <3>2 DEF UndoSucceeds, SnapshotsOK, StepsOf
  <2>4. Cursors'
    BY <1>13, SMTT(30) DEF UndoSucceeds, Goto, Cursors, ControlOK
  <2> QED BY <2>1, <2>2, <2>3, <2>4
<1>14. ASSUME NEW o \in Ops, UndoFails(o) PROVE Typed'
  <2>1. ControlOK'
    BY <1>14, SMTT(30) DEF UndoFails, ControlOK, Cursors, PCs, Held
  <2>2. FlagsOK'
    BY <1>14, SMTT(30) DEF UndoFails, FlagsOK, ControlOK
  <2>3. SnapshotsOK'
    <3>1. DOMAIN effect' = Ops /\ \A p \in Ops : effect'[p] \in [StepsOf(p)' -> Effects]
      <4> DEFINE i == position[o]
      <4>1. PICK left \in Effects : effect' = [effect EXCEPT ![o][i] = left]
        BY <1>14 DEF UndoFails, Effects
      <4>2. i \in Nat /\ UNCHANGED plan
        BY <1>14 DEF UndoFails, ControlOK
      <4> QED BY <4>1, <4>2, EffectTyped
    <3> QED BY <1>14, <3>1 DEF UndoFails, SnapshotsOK, StepsOf
  <2>4. Cursors'
    BY <1>14, SMTT(30) DEF UndoFails, Cursors, ControlOK
  <2> QED BY <2>1, <2>2, <2>3, <2>4
<1>15. ASSUME NEW o \in Ops, RecordUndo(o) PROVE Typed'
  <2>1. ControlOK'
    BY <1>15, SMTT(30) DEF RecordUndo, Goto, Writes, Refused, ControlOK, Cursors, PCs, Held
  <2>2. FlagsOK'
    <3>1. refused' \in [Ops -> BOOLEAN]
      BY <1>15, RefusedTyped DEF RecordUndo, Writes, Refused
    <3> QED BY <1>15, <3>1 DEF RecordUndo, FlagsOK
  <2>3. SnapshotsOK'
    BY <1>15, RowTyped, SMTT(30) DEF RecordUndo, Goto, Writes, Refused, SnapshotsOK, StepsOf, Statuses
  <2>4. Cursors'
    BY <1>15, SMTT(30) DEF RecordUndo, Goto, Writes, Refused, Cursors, ControlOK
  <2> QED BY <2>1, <2>2, <2>3, <2>4
<1>16. ASSUME NEW o \in Ops, Settle(o) PROVE Typed'
  <2>1. ControlOK'
    BY <1>16, SMTT(30) DEF Settle, Goto, Writes, Refused, ControlOK, Cursors, PCs, Held
  <2>2. FlagsOK'
    <3>1. refused' \in [Ops -> BOOLEAN]
      BY <1>16, RefusedTyped DEF Settle, Writes, Refused
    <3>2. failed' \in [Ops -> BOOLEAN]
      BY <1>16, SMTT(30) DEF Settle, FlagsOK, ControlOK
    <3> QED BY <1>16, <3>1, <3>2 DEF Settle, FlagsOK
  <2>3. SnapshotsOK'
    BY <1>16, RowTyped, SMTT(30) DEF Settle, Goto, Writes, Refused, SnapshotsOK, StepsOf, Statuses
  <2>4. Cursors'
    BY <1>16, SMTT(30) DEF Settle, Goto, Writes, Refused, Cursors, ControlOK
  <2> QED BY <2>1, <2>2, <2>3, <2>4
<1>17. ASSUME NEW o \in Ops, Finish(o) PROVE Typed'
  <2>1. ControlOK'
    BY <1>17, SMTT(30) DEF Finish, Goto, Writes, ControlOK, Cursors, PCs, Held
  <2>2. FlagsOK'
    <3>1. refused' \in [Ops -> BOOLEAN]
      BY <1>17, RefusedTyped DEF Finish, Writes
    <3> QED BY <1>17, <3>1 DEF Finish, FlagsOK
  <2>3. SnapshotsOK'
    BY <1>17, RowTyped, SMTT(30) DEF Finish, Goto, Writes, SnapshotsOK, StepsOf, Statuses
  <2>4. Cursors'
    BY <1>17, SMTT(30) DEF Finish, Goto, Writes, Cursors, ControlOK
  <2> QED BY <2>1, <2>2, <2>3, <2>4
<1>18. ASSUME NEW o \in Ops, FinishRefused(o) PROVE Typed'
  <2>1. ControlOK'
    BY <1>18, SMTT(30) DEF FinishRefused, Goto, Refused, ControlOK, Cursors, PCs, Held
  <2>2. FlagsOK'
    <3>1. refused' \in [Ops -> BOOLEAN]
      BY <1>18, RefusedTyped DEF FinishRefused, Refused
    <3>2. failed' \in [Ops -> BOOLEAN]
      BY <1>18, SMTT(30) DEF FinishRefused, FlagsOK, ControlOK
    <3> QED BY <1>18, <3>1, <3>2 DEF FinishRefused, FlagsOK
  <2>3. SnapshotsOK'
    BY <1>18, RowTyped, SMTT(30) DEF FinishRefused, Goto, Refused, SnapshotsOK, StepsOf, Statuses
  <2>4. Cursors'
    BY <1>18, SMTT(30) DEF FinishRefused, Goto, Refused, Cursors, ControlOK
  <2> QED BY <2>1, <2>2, <2>3, <2>4
<1>19. ASSUME NEW o \in Ops, Release(o) PROVE Typed'
  <2>1. ControlOK'
    BY <1>19, SMTT(30) DEF Release, Goto, ControlOK, Cursors, PCs, Held
  <2>2. FlagsOK'
    BY <1>19, SMTT(30) DEF Release, Goto, FlagsOK, ControlOK
  <2>3. SnapshotsOK'
    BY <1>19 DEF Release, SnapshotsOK, StepsOf
  <2>4. Cursors'
    BY <1>19, SMTT(30) DEF Release, Goto, Cursors, ControlOK
  <2> QED BY <2>1, <2>2, <2>3, <2>4
<1>20. ASSUME NEW o \in Ops, Audit(o) PROVE Typed'
  <2>1. ControlOK'
    <3>1. pc' \in [Ops -> PCs]
      BY <1>20, SMTT(30) DEF Audit, Goto, ControlOK, PCs
    <3>2. audit' \in [Ops -> {"none", "ok", "failed"}]
      <4>1. PICK entry \in {"none", "ok", "failed"} : audit' = [audit EXCEPT ![o] = entry]
        BY <1>20 DEF Audit
      <4> QED BY <4>1 DEF ControlOK
    <3> QED BY <1>20, <3>1, <3>2 DEF Audit, ControlOK
  <2>2. FlagsOK'
    BY <1>20, SMTT(30) DEF Audit, Goto, FlagsOK, ControlOK
  <2>3. SnapshotsOK'
    BY <1>20 DEF Audit, SnapshotsOK, StepsOf
  <2>4. Cursors'
    BY <1>20, SMTT(30) DEF Audit, Goto, Cursors, ControlOK
  <2> QED BY <2>1, <2>2, <2>3, <2>4
<1>21. ASSUME NEW o \in Ops, Expire(o) PROVE Typed'
  <2>1. ControlOK'
    BY <1>21, SMTT(30) DEF Expire, ControlOK, Cursors, PCs, Held
  <2>2. FlagsOK'
    BY <1>21, SMTT(30) DEF Expire, FlagsOK, ControlOK
  <2>3. SnapshotsOK'
    BY <1>21 DEF Expire, SnapshotsOK, StepsOf
  <2>4. Cursors'
    BY <1>21, SMTT(30) DEF Expire, Cursors, ControlOK
  <2> QED BY <2>1, <2>2, <2>3, <2>4
<1>22. ASSUME NEW o \in Ops, Crash(o) PROVE Typed'
  <2>1. ControlOK'
    BY <1>22, SMTT(30) DEF Crash, Goto, ControlOK, Cursors, PCs, Held
  <2>2. FlagsOK'
    BY <1>22, SMTT(30) DEF Crash, Goto, FlagsOK, ControlOK
  <2>3. SnapshotsOK'
    <3>1. DOMAIN effect' = Ops /\ \A p \in Ops : effect'[p] \in [StepsOf(p)' -> Effects]
      <4> DEFINE i == position[o]
      <4>1. i \in Nat /\ UNCHANGED plan
        BY <1>22 DEF Crash, ControlOK
      <4>2. CASE UNCHANGED effect
        BY <4>1, <4>2 DEF SnapshotsOK, StepsOf
      <4>3. CASE \E left \in Effects : effect' = [effect EXCEPT ![o][i] = left]
        BY <4>1, <4>3, EffectTyped
      <4> QED BY <1>22, <4>2, <4>3 DEF Crash
    <3> QED BY <1>22, <3>1 DEF Crash, SnapshotsOK, StepsOf
  <2>4. Cursors'
    BY <1>22, SMTT(30) DEF Crash, Goto, Cursors, ControlOK
  <2> QED BY <2>1, <2>2, <2>3, <2>4
<1>23. CASE UNCHANGED vars
  BY <1>23 DEF vars, ControlOK, FlagsOK, SnapshotsOK, Cursors, StepsOf
<1> QED
  BY <1>1, <1>2, <1>3, <1>4, <1>5, <1>6, <1>7, <1>8, <1>9, <1>10, <1>11, <1>12, <1>13, <1>14, <1>15, <1>16, <1>17, <1>18, <1>19, <1>20, <1>21, <1>22, <1>23
  DEF Next, Run, Terminated

(***************************************************************************)
(* Every variable of the executor keeps its type: in particular the        *)
(* snapshot and the row of an operation always have exactly the steps of   *)
(* its plan, so no access of Run or rollback is out of range.              *)
(***************************************************************************)
THEOREM TypeCorrect == Spec => []TypeOK
<1>1. Spec => []Typed
  BY TypedInit, TypedStep, PTL DEF Spec
<1> QED
  BY <1>1, PTL DEF Typed

-----------------------------------------------------------------------------
(***************************************************************************)
(* The inductive invariant.  A step is Applied (done and in the system),   *)
(* Untouched (the loop has not reached it), or Unwound (the rollback has   *)
(* passed it): then either nothing of it is left, or its mark says so and, *)
(* unless it is the step that failed, the operation is dirty.              *)
(***************************************************************************)
Applied(o, i) == effect[o][i] = "full" /\ mark[o][i] = "done"
Untouched(o, i) == effect[o][i] = "none" /\ mark[o][i] = "pending"
Unwound(o, i) ==
  /\ effect[o][i] # "none" => mark[o][i] \in {"done", "failed"}
  /\ mark[o][i] = "done" => dirty[o]

LockOwned == \A o \in Ops : pc[o] \in Held => lock = o

RowState(o) ==
  /\ pc[o] \in {"idle", "wait", "journal"} => row[o].status = "none"
  /\ pc[o] \in {"step", "record", "failure", "undo", "recordUndo", "finish"} =>
       row[o].status = "running"

Forward(o) ==
  LET n == position[o] IN
  /\ pc[o] \in {"idle", "wait", "journal"} => \A i \in StepsOf(o) : Untouched(o, i)
  /\ pc[o] = "step" => \A i \in StepsOf(o) : IF i < n THEN Applied(o, i) ELSE Untouched(o, i)
  /\ pc[o] = "record" => \A i \in StepsOf(o) : IF i <= n THEN Applied(o, i) ELSE Untouched(o, i)
  /\ pc[o] = "finish" => \A i \in StepsOf(o) : Applied(o, i)

Backward(o) ==
  LET n == position[o] IN
  /\ pc[o] = "failure" =>
       /\ mark[o][n] = "failed"
       /\ \A i \in StepsOf(o) : (i < n => Applied(o, i)) /\ (i > n => Untouched(o, i))
  /\ pc[o] = "undo" => \A i \in StepsOf(o) : IF i <= n THEN Applied(o, i) ELSE Unwound(o, i)
  /\ pc[o] = "recordUndo" => \A i \in StepsOf(o) : IF i < n THEN Applied(o, i) ELSE Unwound(o, i)
  /\ pc[o] \in {"undo", "recordUndo"} =>
       /\ boundary[o] > 0 => dirty[o]
       /\ dirty[o] => \E i \in StepsOf(o) : mark[o][i] = "done" /\ (i > n \/ i <= boundary[o])

Sound(o) == RowState(o) /\ Forward(o) /\ Backward(o) /\ SettledTruth(o)

IInv == Typed /\ LockOwned /\ \A o \in Ops : Sound(o)

(***************************************************************************)
(* An operation touches only its own part of the state, apart from the     *)
(* lock.                                                                   *)
(***************************************************************************)
Same(p) ==
  /\ plan'[p] = plan[p] /\ pc'[p] = pc[p] /\ position'[p] = position[p]
  /\ boundary'[p] = boundary[p] /\ dirty'[p] = dirty[p] /\ mark'[p] = mark[p]
  /\ row'[p] = row[p] /\ effect'[p] = effect[p]

LEMMA Frame ==
  ASSUME Typed, NEW o \in Ops, Run(o) \/ Expire(o) \/ Crash(o), NEW p \in Ops \ {o}
  PROVE  Same(p)
<1> USE DEF Typed, TypeOK, ControlOK, FlagsOK, SnapshotsOK, Same
<1>1. CASE Submit(o)
  BY <1>1, SMTT(30) DEF Submit, Goto
<1>2. CASE Lock(o)
  BY <1>2, SMTT(30) DEF Lock, Goto
<1>3. CASE LockTimesOut(o)
  BY <1>3, SMTT(30) DEF LockTimesOut, Goto
<1>4. CASE LockFails(o)
  BY <1>4, SMTT(30) DEF LockFails, Goto
<1>5. CASE JournalStart(o)
  BY <1>5, SMTT(30) DEF JournalStart, Goto, Writes
<1>6. CASE JournalStartRefused(o)
  BY <1>6, SMTT(30) DEF JournalStartRefused, Goto, Refused
<1>7. CASE StepSucceeds(o)
  BY <1>7, SMTT(30) DEF StepSucceeds, Goto
<1>8. CASE StepFails(o)
  BY <1>8, SMTT(30) DEF StepFails, Goto
<1>9. CASE RecordStep(o)
  BY <1>9, SMTT(30) DEF RecordStep, Goto, Writes
<1>10. CASE RecordStepRefused(o)
  BY <1>10, SMTT(30) DEF RecordStepRefused, Goto, Refused
<1>11. CASE RecordFailure(o)
  BY <1>11, SMTT(30) DEF RecordFailure, Goto, Writes, Refused
<1>12. CASE SkipIrreversible(o)
  BY <1>12, SMTT(30) DEF SkipIrreversible
<1>13. CASE UndoSucceeds(o)
  BY <1>13, SMTT(30) DEF UndoSucceeds, Goto
<1>14. CASE UndoFails(o)
  BY <1>14, SMTT(30) DEF UndoFails
<1>15. CASE RecordUndo(o)
  BY <1>15, SMTT(30) DEF RecordUndo, Goto, Writes, Refused
<1>16. CASE Settle(o)
  BY <1>16, SMTT(30) DEF Settle, Goto, Writes, Refused
<1>17. CASE Finish(o)
  BY <1>17, SMTT(30) DEF Finish, Goto, Writes
<1>18. CASE FinishRefused(o)
  BY <1>18, SMTT(30) DEF FinishRefused, Goto, Refused
<1>19. CASE Release(o)
  BY <1>19, SMTT(30) DEF Release, Goto
<1>20. CASE Audit(o)
  BY <1>20, SMTT(30) DEF Audit, Goto
<1>21. CASE Expire(o)
  BY <1>21, SMTT(30) DEF Expire
<1>22. CASE Crash(o)
  BY <1>22, SMTT(30) DEF Crash, Goto
<1> QED
  BY <1>1, <1>2, <1>3, <1>4, <1>5, <1>6, <1>7, <1>8, <1>9, <1>10, <1>11, <1>12, <1>13, <1>14, <1>15, <1>16, <1>17, <1>18, <1>19, <1>20, <1>21, <1>22 DEF Run

LEMMA SoundFrame ==
  ASSUME NEW p \in Ops, Sound(p), Same(p)
  PROVE  Sound(p)'
  BY DEF Sound, Same, RowState, Forward, Backward, SettledTruth, Applied, Untouched, Unwound, StepsOf

LEMMA LockStep == Typed /\ LockOwned /\ [Next]_vars => LockOwned'
<1> SUFFICES ASSUME Typed, LockOwned, [Next]_vars PROVE LockOwned'
  OBVIOUS
<1> USE NoOpAssumption DEF Typed, TypeOK, ControlOK, LockOwned
<1>1. ASSUME NEW o \in Ops, Submit(o) PROVE LockOwned'
  BY <1>1, SMTT(30) DEF Submit, Goto, Held
<1>2. ASSUME NEW o \in Ops, Lock(o) PROVE LockOwned'
  BY <1>2, SMTT(30) DEF Lock, Goto, Held
<1>3. ASSUME NEW o \in Ops, LockTimesOut(o) PROVE LockOwned'
  BY <1>3, SMTT(30) DEF LockTimesOut, Goto, Held
<1>4. ASSUME NEW o \in Ops, LockFails(o) PROVE LockOwned'
  BY <1>4, SMTT(30) DEF LockFails, Goto, Held
<1>5. ASSUME NEW o \in Ops, JournalStart(o) PROVE LockOwned'
  BY <1>5, SMTT(30) DEF JournalStart, Goto, Held
<1>6. ASSUME NEW o \in Ops, JournalStartRefused(o) PROVE LockOwned'
  BY <1>6, SMTT(30) DEF JournalStartRefused, Goto, Held
<1>7. ASSUME NEW o \in Ops, StepSucceeds(o) PROVE LockOwned'
  BY <1>7, SMTT(30) DEF StepSucceeds, Goto, Held
<1>8. ASSUME NEW o \in Ops, StepFails(o) PROVE LockOwned'
  BY <1>8, SMTT(30) DEF StepFails, Goto, Held
<1>9. ASSUME NEW o \in Ops, RecordStep(o) PROVE LockOwned'
  BY <1>9, SMTT(30) DEF RecordStep, Goto, Held
<1>10. ASSUME NEW o \in Ops, RecordStepRefused(o) PROVE LockOwned'
  BY <1>10, SMTT(30) DEF RecordStepRefused, Goto, Held
<1>11. ASSUME NEW o \in Ops, RecordFailure(o) PROVE LockOwned'
  BY <1>11, SMTT(30) DEF RecordFailure, Goto, Held
<1>12. ASSUME NEW o \in Ops, SkipIrreversible(o) PROVE LockOwned'
  BY <1>12, SMTT(30) DEF SkipIrreversible, Held
<1>13. ASSUME NEW o \in Ops, UndoSucceeds(o) PROVE LockOwned'
  BY <1>13, SMTT(30) DEF UndoSucceeds, Goto, Held
<1>14. ASSUME NEW o \in Ops, UndoFails(o) PROVE LockOwned'
  BY <1>14, SMTT(30) DEF UndoFails, Held
<1>15. ASSUME NEW o \in Ops, RecordUndo(o) PROVE LockOwned'
  BY <1>15, SMTT(30) DEF RecordUndo, Goto, Held
<1>16. ASSUME NEW o \in Ops, Settle(o) PROVE LockOwned'
  BY <1>16, SMTT(30) DEF Settle, Goto, Held
<1>17. ASSUME NEW o \in Ops, Finish(o) PROVE LockOwned'
  BY <1>17, SMTT(30) DEF Finish, Goto, Held
<1>18. ASSUME NEW o \in Ops, FinishRefused(o) PROVE LockOwned'
  BY <1>18, SMTT(30) DEF FinishRefused, Goto, Held
<1>19. ASSUME NEW o \in Ops, Release(o) PROVE LockOwned'
  BY <1>19, SMTT(30) DEF Release, Goto, Held
<1>20. ASSUME NEW o \in Ops, Audit(o) PROVE LockOwned'
  BY <1>20, SMTT(30) DEF Audit, Goto, Held
<1>21. ASSUME NEW o \in Ops, Expire(o) PROVE LockOwned'
  BY <1>21, SMTT(30) DEF Expire, Held
<1>22. ASSUME NEW o \in Ops, Crash(o) PROVE LockOwned'
  BY <1>22, SMTT(30) DEF Crash, Goto, Held
<1>23. CASE UNCHANGED vars
  BY <1>23 DEF vars
<1> QED
  BY <1>1, <1>2, <1>3, <1>4, <1>5, <1>6, <1>7, <1>8, <1>9, <1>10, <1>11, <1>12, <1>13, <1>14, <1>15, <1>16, <1>17, <1>18, <1>19, <1>20, <1>21, <1>22, <1>23 DEF Next, Run, Terminated

(***************************************************************************)
(* Every action keeps the operation that takes it sound.                   *)
(***************************************************************************)
LEMMA SoundStep ==
  ASSUME Typed, NEW o \in Ops, Sound(o), Run(o) \/ Expire(o) \/ Crash(o)
  PROVE  Sound(o)'
<1> USE DEF Typed, TypeOK, ControlOK, FlagsOK, SnapshotsOK
<1>1. CASE Submit(o)
  <2>1. RowState(o)'
    BY <1>1, SMTT(30) DEF Sound, RowState, Submit, Goto
  <2>2. Forward(o)'
    <3>1. pc[o] = "idle" /\ pc'[o] = "wait"
      BY <1>1 DEF Submit, Goto
    <3>2. UNCHANGED <<plan, position, mark, effect>>
      BY <1>1 DEF Submit
    <3> QED BY <3>1, <3>2 DEF Sound, Forward, Untouched, StepsOf
  <2>3. Backward(o)'
    BY <1>1, SMTT(30) DEF Sound, Backward, Submit, Goto, Forward, RowState, Applied, Untouched, Unwound, Cursors, StepsOf
  <2>4. SettledTruth(o)'
    BY <1>1, SMTT(30) DEF Sound, SettledTruth, Submit, Goto, RowState, Forward, Backward, Applied, Unwound, Cursors, StepsOf
  <2> QED BY <2>1, <2>2, <2>3, <2>4 DEF Sound
<1>2. CASE Lock(o)
  <2>1. RowState(o)'
    BY <1>2, SMTT(30) DEF Sound, RowState, Lock, Goto
  <2>2. Forward(o)'
    <3>1. pc[o] = "wait" /\ pc'[o] = "journal"
      BY <1>2 DEF Lock, Goto
    <3>2. UNCHANGED <<plan, position, mark, effect>>
      BY <1>2 DEF Lock
    <3> QED BY <3>1, <3>2 DEF Sound, Forward, Untouched, StepsOf
  <2>3. Backward(o)'
    BY <1>2, SMTT(30) DEF Sound, Backward, Lock, Goto, Forward, RowState, Applied, Untouched, Unwound, Cursors, StepsOf
  <2>4. SettledTruth(o)'
    BY <1>2, SMTT(30) DEF Sound, SettledTruth, Lock, Goto, RowState, Forward, Backward, Applied, Unwound, Cursors, StepsOf
  <2> QED BY <2>1, <2>2, <2>3, <2>4 DEF Sound
<1>3. CASE LockTimesOut(o)
  <2>1. RowState(o)'
    BY <1>3, SMTT(30) DEF Sound, RowState, LockTimesOut, Goto
  <2>2. Forward(o)'
    BY <1>3, SMTT(30) DEF Sound, Forward, LockTimesOut, Goto, Applied, Untouched, Cursors, StepsOf
  <2>3. Backward(o)'
    BY <1>3, SMTT(30) DEF Sound, Backward, LockTimesOut, Goto, Forward, RowState, Applied, Untouched, Unwound, Cursors, StepsOf
  <2>4. SettledTruth(o)'
    BY <1>3, SMTT(30) DEF Sound, SettledTruth, LockTimesOut, Goto, RowState, Forward, Backward, Applied, Unwound, Cursors, StepsOf
  <2> QED BY <2>1, <2>2, <2>3, <2>4 DEF Sound
<1>4. CASE LockFails(o)
  <2>1. RowState(o)'
    BY <1>4, SMTT(30) DEF Sound, RowState, LockFails, Goto
  <2>2. Forward(o)'
    BY <1>4, SMTT(30) DEF Sound, Forward, LockFails, Goto, Applied, Untouched, Cursors, StepsOf
  <2>3. Backward(o)'
    BY <1>4, SMTT(30) DEF Sound, Backward, LockFails, Goto, Forward, RowState, Applied, Untouched, Unwound, Cursors, StepsOf
  <2>4. SettledTruth(o)'
    BY <1>4, SMTT(30) DEF Sound, SettledTruth, LockFails, Goto, RowState, Forward, Backward, Applied, Unwound, Cursors, StepsOf
  <2> QED BY <2>1, <2>2, <2>3, <2>4 DEF Sound
<1>5. CASE JournalStart(o)
  <2>1. RowState(o)'
    BY <1>5, SMTT(30) DEF Sound, RowState, JournalStart, Goto, Writes
  <2>2. Forward(o)'
    BY <1>5, SMTT(30) DEF Sound, Forward, JournalStart, Goto, Writes, Applied, Untouched, Cursors, StepsOf
  <2>3. Backward(o)'
    BY <1>5, SMTT(30) DEF Sound, Backward, JournalStart, Goto, Writes, Forward, RowState, Applied, Untouched, Unwound, Cursors, StepsOf
  <2>4. SettledTruth(o)'
    BY <1>5, SMTT(30) DEF Sound, SettledTruth, JournalStart, Goto, Writes, RowState, Forward, Backward, Applied, Unwound, Cursors, StepsOf
  <2> QED BY <2>1, <2>2, <2>3, <2>4 DEF Sound
<1>6. CASE JournalStartRefused(o)
  <2>1. RowState(o)'
    BY <1>6, SMTT(30) DEF Sound, RowState, JournalStartRefused, Goto, Refused
  <2>2. Forward(o)'
    BY <1>6, SMTT(30) DEF Sound, Forward, JournalStartRefused, Goto, Refused, Applied, Untouched, Cursors, StepsOf
  <2>3. Backward(o)'
    BY <1>6, SMTT(30) DEF Sound, Backward, JournalStartRefused, Goto, Refused, Forward, RowState, Applied, Untouched, Unwound, Cursors, StepsOf
  <2>4. SettledTruth(o)'
    BY <1>6, SMTT(30) DEF Sound, SettledTruth, JournalStartRefused, Goto, Refused, RowState, Forward, Backward, Applied, Unwound, Cursors, StepsOf
  <2> QED BY <2>1, <2>2, <2>3, <2>4 DEF Sound
<1>7. CASE StepSucceeds(o)
  <2>1. RowState(o)'
    BY <1>7, SMTT(30) DEF Sound, RowState, StepSucceeds, Goto
  <2>2. Forward(o)'
    BY <1>7, SMTT(30) DEF Sound, Forward, StepSucceeds, Goto, Applied, Untouched, Cursors, StepsOf
  <2>3. Backward(o)'
    BY <1>7, SMTT(30) DEF Sound, Backward, StepSucceeds, Goto, Forward, RowState, Applied, Untouched, Unwound, Cursors, StepsOf
  <2>4. SettledTruth(o)'
    BY <1>7, SMTT(30) DEF Sound, SettledTruth, StepSucceeds, Goto, RowState, Forward, Backward, Applied, Unwound, Cursors, StepsOf
  <2> QED BY <2>1, <2>2, <2>3, <2>4 DEF Sound
<1>8. CASE StepFails(o)
  <2>1. RowState(o)'
    BY <1>8, SMTT(30) DEF Sound, RowState, StepFails, Goto
  <2>2. Forward(o)'
    BY <1>8, SMTT(30) DEF Sound, Forward, StepFails, Goto, Applied, Untouched, Cursors, StepsOf
  <2>3. Backward(o)'
    BY <1>8, SMTT(30) DEF Sound, Backward, StepFails, Goto, Forward, RowState, Applied, Untouched, Unwound, Cursors, StepsOf
  <2>4. SettledTruth(o)'
    BY <1>8, SMTT(30) DEF Sound, SettledTruth, StepFails, Goto, RowState, Forward, Backward, Applied, Unwound, Cursors, StepsOf
  <2> QED BY <2>1, <2>2, <2>3, <2>4 DEF Sound
<1>9. CASE RecordStep(o)
  <2>1. RowState(o)'
    BY <1>9, SMTT(30) DEF Sound, RowState, RecordStep, Goto, Writes
  <2>2. Forward(o)'
    BY <1>9, SMTT(30) DEF Sound, Forward, RecordStep, Goto, Writes, Applied, Untouched, Cursors, StepsOf
  <2>3. Backward(o)'
    BY <1>9, SMTT(30) DEF Sound, Backward, RecordStep, Goto, Writes, Forward, RowState, Applied, Untouched, Unwound, Cursors, StepsOf
  <2>4. SettledTruth(o)'
    BY <1>9, SMTT(30) DEF Sound, SettledTruth, RecordStep, Goto, Writes, RowState, Forward, Backward, Applied, Unwound, Cursors, StepsOf
  <2> QED BY <2>1, <2>2, <2>3, <2>4 DEF Sound
<1>10. CASE RecordStepRefused(o)
  <2>1. RowState(o)'
    BY <1>10, SMTT(30) DEF Sound, RowState, RecordStepRefused, Goto, Refused
  <2>2. Forward(o)'
    BY <1>10, SMTT(30) DEF Sound, Forward, RecordStepRefused, Goto, Refused, Applied, Untouched, Cursors, StepsOf
  <2>3. Backward(o)'
    <3>1. /\ pc[o] = "record" /\ pc'[o] = "undo"
          /\ UNCHANGED <<plan, position, boundary, mark, effect>>
      BY <1>10, SMTT(30) DEF RecordStepRefused, Goto
    <3>0. dirty'[o] = (boundary[o] > 0)
      BY <1>10 DEF RecordStepRefused
    <3>2. \A i \in StepsOf(o) : IF i <= position[o] THEN Applied(o, i) ELSE Untouched(o, i)
      BY <3>1 DEF Sound, Forward
    <3>3. \A i \in StepsOf(o)' : IF i <= position'[o] THEN Applied(o, i)' ELSE Unwound(o, i)'
      BY <3>1, <3>2, SMTT(30) DEF Applied, Untouched, Unwound, StepsOf
    <3>4. boundary[o] > 0 => boundary[o] \in StepsOf(o) /\ mark[o][boundary[o]] = "done"
      BY <3>1, <3>2, SMTT(30) DEF Applied, StepsOf, Cursors
    <3>5. dirty'[o] => \E i \in StepsOf(o)' : mark'[o][i] = "done" /\ (i > position'[o] \/ i <= boundary'[o])
      <4>1. CASE boundary[o] > 0
        <5>1. /\ boundary[o] \in StepsOf(o)' /\ mark'[o][boundary[o]] = "done"
              /\ boundary'[o] = boundary[o] /\ boundary[o] \in Nat
          BY <3>1, <3>4, <4>1 DEF StepsOf
        <5>2. boundary[o] <= boundary'[o]
          BY <5>1
        <5> QED BY <5>1, <5>2, Zenon
      <4>2. CASE ~(boundary[o] > 0)
        BY <3>0, <4>2, Zenon
      <4> QED BY <4>1, <4>2
    <3> QED BY <3>1, <3>0, <3>3, <3>5, <3>4 DEF Backward
  <2>4. SettledTruth(o)'
    BY <1>10, SMTT(30) DEF Sound, SettledTruth, RecordStepRefused, Goto, Refused, RowState, Forward, Backward, Applied, Unwound, Cursors, StepsOf
  <2> QED BY <2>1, <2>2, <2>3, <2>4 DEF Sound
<1>11. CASE RecordFailure(o)
  <2>1. RowState(o)'
    BY <1>11, SMTT(30) DEF Sound, RowState, RecordFailure, Goto, Writes, Refused
  <2>2. Forward(o)'
    BY <1>11, SMTT(30) DEF Sound, Forward, RecordFailure, Goto, Writes, Refused, Applied, Untouched, Cursors, StepsOf
  <2>3. Backward(o)'
    <3>1. /\ pc[o] = "failure" /\ pc'[o] = "undo"
          /\ UNCHANGED <<plan, boundary, mark, effect>>
          /\ position'[o] = position[o] - 1
      BY <1>11, SMTT(30) DEF RecordFailure, Goto
    <3>0. dirty'[o] = (boundary[o] > 0)
      BY <1>11 DEF RecordFailure
    <3>2. /\ mark[o][position[o]] = "failed"
          /\ \A i \in StepsOf(o) : /\ i < position[o] => Applied(o, i)
                                   /\ i > position[o] => Untouched(o, i)
      BY <3>1 DEF Sound, Backward
    <3>6. boundary[o] \in Nat /\ boundary[o] < position[o] /\ position[o] \in StepsOf(o)
      BY <3>1, SMTT(30) DEF Cursors, StepsOf
    <3>3. \A i \in StepsOf(o)' : IF i <= position'[o] THEN Applied(o, i)' ELSE Unwound(o, i)'
      <4> SUFFICES ASSUME NEW i \in StepsOf(o)
                   PROVE  IF i <= position[o] - 1 THEN Applied(o, i)' ELSE Unwound(o, i)'
        BY <3>1 DEF StepsOf
      <4>1. i \in Nat /\ position[o] \in Nat
        BY <3>6 DEF StepsOf
      <4>2. CASE i < position[o]
        <5>0. Applied(o, i)
          BY <3>2, <4>2, Zenon
        <5>1. Applied(o, i)'
          BY <3>1, <5>0, Zenon DEF Applied
        <5> QED BY <4>1, <4>2, <5>1
      <4>3. CASE i = position[o]
        <5>0. mark'[o][i] = "failed"
          BY <3>1, <3>2, <4>3, Zenon
        <5>1. Unwound(o, i)'
          BY <5>0 DEF Unwound
        <5> QED BY <4>1, <4>3, <5>1
      <4>4. CASE i > position[o]
        <5>0. Untouched(o, i)
          BY <3>2, <4>4, Zenon
        <5>1. effect'[o][i] = "none" /\ mark'[o][i] = "pending"
          BY <3>1, <5>0, Zenon DEF Untouched
        <5>2. Unwound(o, i)'
          BY <5>1 DEF Unwound
        <5> QED BY <4>1, <4>4, <5>2
      <4> QED BY <4>1, <4>2, <4>3, <4>4
    <3>4. boundary[o] > 0 => boundary[o] \in StepsOf(o) /\ mark[o][boundary[o]] = "done"
      <4> SUFFICES ASSUME boundary[o] > 0
                   PROVE  boundary[o] \in StepsOf(o) /\ mark[o][boundary[o]] = "done"
        OBVIOUS
      <4>1. boundary[o] \in StepsOf(o)
        BY <3>6 DEF StepsOf
      <4>2. Applied(o, boundary[o])
        BY <3>2, <3>6, <4>1, Zenon
      <4> QED BY <4>1, <4>2 DEF Applied
    <3>5. dirty'[o] => \E i \in StepsOf(o)' : mark'[o][i] = "done" /\ (i > position'[o] \/ i <= boundary'[o])
      <4>1. CASE boundary[o] > 0
        <5>1. /\ boundary[o] \in StepsOf(o)' /\ mark'[o][boundary[o]] = "done"
              /\ boundary'[o] = boundary[o] /\ boundary[o] \in Nat
          BY <3>1, <3>4, <4>1 DEF StepsOf
        <5>2. boundary[o] <= boundary'[o]
          BY <5>1
        <5> QED BY <5>1, <5>2, Zenon
      <4>2. CASE ~(boundary[o] > 0)
        BY <3>0, <4>2, Zenon
      <4> QED BY <4>1, <4>2
    <3> QED BY <3>1, <3>0, <3>3, <3>5, <3>4 DEF Backward
  <2>4. SettledTruth(o)'
    BY <1>11, SMTT(30) DEF Sound, SettledTruth, RecordFailure, Goto, Writes, Refused, RowState, Forward, Backward, Applied, Unwound, Cursors, StepsOf
  <2> QED BY <2>1, <2>2, <2>3, <2>4 DEF Sound
<1>12. CASE SkipIrreversible(o)
  <2>1. RowState(o)'
    BY <1>12, SMTT(30) DEF Sound, RowState, SkipIrreversible
  <2>2. Forward(o)'
    BY <1>12, SMTT(30) DEF Sound, Forward, SkipIrreversible, Applied, Untouched, Cursors, StepsOf
  <2>3. Backward(o)'
    <3>1. /\ pc[o] = "undo" /\ position[o] > boundary[o] /\ dirty'[o]
          /\ UNCHANGED <<plan, pc, boundary, mark, effect>>
          /\ position'[o] = position[o] - 1
      BY <1>12, SMTT(30) DEF SkipIrreversible
    <3>2. \A i \in StepsOf(o) : IF i <= position[o] THEN Applied(o, i) ELSE Unwound(o, i)
      BY <3>1 DEF Sound, Backward
    <3>6. boundary[o] \in Nat /\ boundary[o] < position[o] /\ position[o] \in StepsOf(o)
      BY <3>1, SMTT(30) DEF Cursors, StepsOf
    <3>3. \A i \in StepsOf(o)' : IF i <= position'[o] THEN Applied(o, i)' ELSE Unwound(o, i)'
      BY <3>1, <3>2, <3>6, SMTT(30) DEF Applied, Unwound, StepsOf
    <3>4. position[o] \in StepsOf(o) /\ mark[o][position[o]] = "done"
      BY <3>1, <3>2, SMTT(30) DEF Applied, StepsOf, Cursors
    <3>5. dirty'[o] => \E i \in StepsOf(o)' : mark'[o][i] = "done" /\ (i > position'[o] \/ i <= boundary'[o])
      BY <3>1, <3>4, SMTT(30) DEF StepsOf
    <3> QED BY <3>1, <3>3, <3>5 DEF Backward
  <2>4. SettledTruth(o)'
    BY <1>12, SMTT(30) DEF Sound, SettledTruth, SkipIrreversible, RowState, Forward, Backward, Applied, Unwound, Cursors, StepsOf
  <2> QED BY <2>1, <2>2, <2>3, <2>4 DEF Sound
<1>13. CASE UndoSucceeds(o)
  <2>1. RowState(o)'
    BY <1>13, SMTT(30) DEF Sound, RowState, UndoSucceeds, Goto
  <2>2. Forward(o)'
    BY <1>13, SMTT(30) DEF Sound, Forward, UndoSucceeds, Goto, Applied, Untouched, Cursors, StepsOf
  <2>3. Backward(o)'
    BY <1>13, SMTT(30) DEF Sound, Backward, UndoSucceeds, Goto, Forward, RowState, Applied, Untouched, Unwound, Cursors, StepsOf
  <2>4. SettledTruth(o)'
    BY <1>13, SMTT(30) DEF Sound, SettledTruth, UndoSucceeds, Goto, RowState, Forward, Backward, Applied, Unwound, Cursors, StepsOf
  <2> QED BY <2>1, <2>2, <2>3, <2>4 DEF Sound
<1>14. CASE UndoFails(o)
  <2>1. RowState(o)'
    BY <1>14, SMTT(30) DEF Sound, RowState, UndoFails
  <2>2. Forward(o)'
    BY <1>14, SMTT(30) DEF Sound, Forward, UndoFails, Applied, Untouched, Cursors, StepsOf
  <2>3. Backward(o)'
    <3>1. /\ pc[o] = "undo" /\ position[o] > boundary[o] /\ dirty'[o]
          /\ UNCHANGED <<plan, pc, boundary, mark>>
          /\ position'[o] = position[o] - 1
          /\ \A i \in StepsOf(o) : i # position[o] => effect'[o][i] = effect[o][i]
      BY <1>14, SMTT(30) DEF UndoFails
    <3>2. \A i \in StepsOf(o) : IF i <= position[o] THEN Applied(o, i) ELSE Unwound(o, i)
      BY <3>1 DEF Sound, Backward
    <3>6. boundary[o] \in Nat /\ boundary[o] < position[o] /\ position[o] \in StepsOf(o)
      BY <3>1, SMTT(30) DEF Cursors, StepsOf
    <3>3. \A i \in StepsOf(o)' : IF i <= position'[o] THEN Applied(o, i)' ELSE Unwound(o, i)'
      <4> SUFFICES ASSUME NEW i \in StepsOf(o)
                   PROVE  IF i <= position[o] - 1 THEN Applied(o, i)' ELSE Unwound(o, i)'
        BY <3>1 DEF StepsOf
      <4>1. i \in Nat /\ position[o] \in Nat
        BY <3>6 DEF StepsOf
      <4>2. CASE i < position[o]
        <5>0. Applied(o, i) /\ i # position[o]
          BY <3>2, <4>1, <4>2
        <5>1. Applied(o, i)'
          BY <3>1, <5>0, Zenon DEF Applied
        <5> QED BY <4>1, <4>2, <5>1
      <4>3. CASE i = position[o]
        <5>1. mark'[o][i] = "done"
          BY <3>1, <3>2, <4>1, <4>3 DEF Applied
        <5>2. Unwound(o, i)'
          BY <3>1, <5>1, Zenon DEF Unwound
        <5> QED BY <4>1, <4>3, <5>2
      <4>4. CASE i > position[o]
        <5>1. Unwound(o, i)
          BY <3>2, <4>1, <4>4
        <5>2. effect'[o][i] = effect[o][i] /\ mark'[o][i] = mark[o][i]
          BY <3>1, <4>1, <4>4
        <5>3. Unwound(o, i)'
          BY <3>1, <5>1, <5>2, Zenon DEF Unwound
        <5> QED BY <4>1, <4>4, <5>3
      <4> QED BY <4>1, <4>2, <4>3, <4>4
    <3>4. position[o] \in StepsOf(o) /\ mark[o][position[o]] = "done"
      BY <3>1, <3>2, SMTT(30) DEF Applied, StepsOf, Cursors
    <3>5. dirty'[o] => \E i \in StepsOf(o)' : mark'[o][i] = "done" /\ (i > position'[o] \/ i <= boundary'[o])
      BY <3>1, <3>4, SMTT(30) DEF StepsOf
    <3> QED BY <3>1, <3>3, <3>5 DEF Backward
  <2>4. SettledTruth(o)'
    BY <1>14, SMTT(30) DEF Sound, SettledTruth, UndoFails, RowState, Forward, Backward, Applied, Unwound, Cursors, StepsOf
  <2> QED BY <2>1, <2>2, <2>3, <2>4 DEF Sound
<1>15. CASE RecordUndo(o)
  <2>1. RowState(o)'
    BY <1>15, SMTT(30) DEF Sound, RowState, RecordUndo, Goto, Writes, Refused
  <2>2. Forward(o)'
    BY <1>15, SMTT(30) DEF Sound, Forward, RecordUndo, Goto, Writes, Refused, Applied, Untouched, Cursors, StepsOf
  <2>3. Backward(o)'
    <3>1. /\ pc[o] = "recordUndo" /\ pc'[o] = "undo"
          /\ UNCHANGED <<plan, boundary, dirty, mark, effect>>
          /\ position'[o] = position[o] - 1
      BY <1>15, SMTT(30) DEF RecordUndo, Goto
    <3>2. /\ \A i \in StepsOf(o) : IF i < position[o] THEN Applied(o, i) ELSE Unwound(o, i)
          /\ boundary[o] > 0 => dirty[o]
          /\ dirty[o] => \E i \in StepsOf(o) : mark[o][i] = "done" /\ (i > position[o] \/ i <= boundary[o])
      BY <3>1 DEF Sound, Backward
    <3>3. \A i \in StepsOf(o)' : IF i <= position'[o] THEN Applied(o, i)' ELSE Unwound(o, i)'
      BY <3>1, <3>2, SMTT(30) DEF Applied, Unwound, StepsOf
    <3> QED BY <3>1, <3>2, <3>3, SMTT(30) DEF Backward, StepsOf
  <2>4. SettledTruth(o)'
    BY <1>15, SMTT(30) DEF Sound, SettledTruth, RecordUndo, Goto, Writes, Refused, RowState, Forward, Backward, Applied, Unwound, Cursors, StepsOf
  <2> QED BY <2>1, <2>2, <2>3, <2>4 DEF Sound
<1>16. CASE Settle(o)
  <2>1. RowState(o)'
    BY <1>16, SMTT(30) DEF Sound, RowState, Settle, Goto, Writes, Refused
  <2>2. Forward(o)'
    BY <1>16, SMTT(30) DEF Sound, Forward, Settle, Goto, Writes, Refused, Applied, Untouched, Cursors, StepsOf
  <2>3. Backward(o)'
    BY <1>16, SMTT(30) DEF Sound, Backward, Settle, Goto, Writes, Refused, Forward, RowState, Applied, Untouched, Unwound, Cursors, StepsOf
  <2>4. SettledTruth(o)'
    BY <1>16, SMTT(30) DEF Sound, SettledTruth, Settle, Goto, Writes, Refused, RowState, Forward, Backward, Applied, Unwound, Cursors, StepsOf
  <2> QED BY <2>1, <2>2, <2>3, <2>4 DEF Sound
<1>17. CASE Finish(o)
  <2>1. RowState(o)'
    BY <1>17, SMTT(30) DEF Sound, RowState, Finish, Goto, Writes
  <2>2. Forward(o)'
    BY <1>17, SMTT(30) DEF Sound, Forward, Finish, Goto, Writes, Applied, Untouched, Cursors, StepsOf
  <2>3. Backward(o)'
    BY <1>17, SMTT(30) DEF Sound, Backward, Finish, Goto, Writes, Forward, RowState, Applied, Untouched, Unwound, Cursors, StepsOf
  <2>4. SettledTruth(o)'
    BY <1>17, SMTT(30) DEF Sound, SettledTruth, Finish, Goto, Writes, RowState, Forward, Backward, Applied, Unwound, Cursors, StepsOf
  <2> QED BY <2>1, <2>2, <2>3, <2>4 DEF Sound
<1>18. CASE FinishRefused(o)
  <2>1. RowState(o)'
    BY <1>18, SMTT(30) DEF Sound, RowState, FinishRefused, Goto, Refused
  <2>2. Forward(o)'
    BY <1>18, SMTT(30) DEF Sound, Forward, FinishRefused, Goto, Refused, Applied, Untouched, Cursors, StepsOf
  <2>3. Backward(o)'
    BY <1>18, SMTT(30) DEF Sound, Backward, FinishRefused, Goto, Refused, Forward, RowState, Applied, Untouched, Unwound, Cursors, StepsOf
  <2>4. SettledTruth(o)'
    BY <1>18, SMTT(30) DEF Sound, SettledTruth, FinishRefused, Goto, Refused, RowState, Forward, Backward, Applied, Unwound, Cursors, StepsOf
  <2> QED BY <2>1, <2>2, <2>3, <2>4 DEF Sound
<1>19. CASE Release(o)
  <2>1. RowState(o)'
    BY <1>19, SMTT(30) DEF Sound, RowState, Release, Goto
  <2>2. Forward(o)'
    BY <1>19, SMTT(30) DEF Sound, Forward, Release, Goto, Applied, Untouched, Cursors, StepsOf
  <2>3. Backward(o)'
    BY <1>19, SMTT(30) DEF Sound, Backward, Release, Goto, Forward, RowState, Applied, Untouched, Unwound, Cursors, StepsOf
  <2>4. SettledTruth(o)'
    BY <1>19, SMTT(30) DEF Sound, SettledTruth, Release, Goto, RowState, Forward, Backward, Applied, Unwound, Cursors, StepsOf
  <2> QED BY <2>1, <2>2, <2>3, <2>4 DEF Sound
<1>20. CASE Audit(o)
  <2>1. RowState(o)'
    BY <1>20, SMTT(30) DEF Sound, RowState, Audit, Goto
  <2>2. Forward(o)'
    BY <1>20, SMTT(30) DEF Sound, Forward, Audit, Goto, Applied, Untouched, Cursors, StepsOf
  <2>3. Backward(o)'
    BY <1>20, SMTT(30) DEF Sound, Backward, Audit, Goto, Forward, RowState, Applied, Untouched, Unwound, Cursors, StepsOf
  <2>4. SettledTruth(o)'
    BY <1>20, SMTT(30) DEF Sound, SettledTruth, Audit, Goto, RowState, Forward, Backward, Applied, Unwound, Cursors, StepsOf
  <2> QED BY <2>1, <2>2, <2>3, <2>4 DEF Sound
<1>21. CASE Expire(o)
  <2>1. Same(o)
    BY <1>21 DEF Expire, Same
  <2> QED BY <2>1, SoundFrame
<1>22. CASE Crash(o)
  <2>1. RowState(o)'
    BY <1>22, SMTT(30) DEF Sound, RowState, Crash, Goto
  <2>2. Forward(o)'
    BY <1>22, SMTT(30) DEF Sound, Forward, Crash, Goto, Applied, Untouched, Cursors, StepsOf
  <2>3. Backward(o)'
    BY <1>22, SMTT(30) DEF Sound, Backward, Crash, Goto, Forward, RowState, Applied, Untouched, Unwound, Cursors, StepsOf
  <2>4. SettledTruth(o)'
    <3>1. UNCHANGED <<plan, row>>
      BY <1>22 DEF Crash
    <3>2. CASE row[o].status = "running"
      BY <3>1, <3>2 DEF SettledTruth, StepsOf
    <3>3. CASE row[o].status # "running"
      <4>1. UNCHANGED effect
        BY <1>22, <3>3 DEF Crash, Calling, Sound, RowState
      <4> QED BY <3>1, <4>1 DEF Sound, SettledTruth, StepsOf
    <3> QED BY <3>2, <3>3
  <2> QED BY <2>1, <2>2, <2>3, <2>4 DEF Sound
<1> QED
  BY <1>1, <1>2, <1>3, <1>4, <1>5, <1>6, <1>7, <1>8, <1>9, <1>10, <1>11, <1>12, <1>13, <1>14, <1>15, <1>16, <1>17, <1>18, <1>19, <1>20, <1>21, <1>22 DEF Run

LEMMA SoundInit == Init => IInv
<1> SUFFICES ASSUME Init PROVE IInv
  OBVIOUS
<1>1. Typed
  BY TypedInit
<1>2. LockOwned
  BY DEF Init, LockOwned, Held
<1>3. ASSUME NEW o \in Ops PROVE Sound(o)
  <2>1. /\ pc[o] = "idle" /\ row[o].status = "none"
        /\ \A i \in StepsOf(o) : Untouched(o, i)
    BY SMTT(30) DEF Init, Untouched
  <2>2. RowState(o) /\ Forward(o) /\ Backward(o) /\ SettledTruth(o)
    BY <2>1 DEF RowState, Forward, Backward, SettledTruth
  <2> QED BY <2>2 DEF Sound
<1> QED BY <1>1, <1>2, <1>3 DEF IInv

LEMMA SoundNext == IInv /\ [Next]_vars => IInv'
<1> SUFFICES ASSUME IInv, [Next]_vars PROVE IInv'
  OBVIOUS
<1>1. Typed /\ LockOwned /\ \A p \in Ops : Sound(p)
  BY DEF IInv
<1>2. Typed' /\ LockOwned'
  BY <1>1, TypedStep, LockStep
<1>3. ASSUME NEW o \in Ops, Run(o) \/ Expire(o) \/ Crash(o), NEW p \in Ops
      PROVE  Sound(p)'
  <2>1. CASE p = o
    BY <1>1, <1>3, <2>1, SoundStep
  <2>2. CASE p # o
    <3>1. Same(p)
      BY <1>1, <1>3, <2>2, Frame
    <3> QED BY <1>1, <3>1, SoundFrame
  <2> QED BY <2>1, <2>2
<1>4. ASSUME UNCHANGED vars, NEW p \in Ops
      PROVE  Sound(p)'
  <2>1. Same(p)
    BY <1>4 DEF vars, Same
  <2> QED BY <1>1, <2>1, SoundFrame
<1>5. \A p \in Ops : Sound(p)'
  BY <1>3, <1>4 DEF Next, Terminated
<1> QED BY <1>2, <1>5 DEF IInv

LEMMA Invariance == Spec => []IInv
  BY SoundInit, SoundNext, PTL DEF Spec

(***************************************************************************)
(* Mutual exclusion of the operation lock: however many processes there    *)
(* are, and whatever fails, expires or crashes, two of them are never both *)
(* between FileLocker.Lock and the deferred Unlock of Run.                 *)
(***************************************************************************)
THEOREM OneOperationAtATime == Spec => []MutualExclusion
<1>1. IInv => MutualExclusion
  BY DEF IInv, LockOwned, MutualExclusion
<1> QED
  BY <1>1, Invariance, PTL

(***************************************************************************)
(* What a settled row of the journal says is what the operation has left   *)
(* in the system, for plans of any length and shape, with any steps        *)
(* failing to run or to undo and with any writes of the journal refused    *)
(* (Executor.Run, fail and rollback).                                      *)
(***************************************************************************)
THEOREM SettledRowsAreTrue == Spec => []SettledRowTellsRemains
<1>1. IInv => SettledRowTellsRemains
  BY DEF IInv, Sound, SettledRowTellsRemains
<1> QED
  BY <1>1, Invariance, PTL

-----------------------------------------------------------------------------
(***************************************************************************)
(* What rollback, Commit steps, the journal and the audit log of the       *)
(* executor promise, for any set of operations and any plans.              *)
(***************************************************************************)

(***************************************************************************)
(* Four invariants beside IInv.  A row that says rolled_back belongs to an *)
(* operation without a recorded Commit step; marks and effects agree but   *)
(* for a call that a crash has cut short; the row is the snapshot but for  *)
(* the step that is to be recorded; Run knows whether its row says done.   *)
(***************************************************************************)
NoneCommitted(o) == row[o].status = "rolled_back" => boundary[o] = 0

MarkTrue(o) ==
  \A i \in StepsOf(o) : ~(pc[o] = "crashed" /\ i = position[o]) =>
    /\ mark[o][i] \in {"pending", "rolled_back"} => effect[o][i] = "none"
    /\ mark[o][i] = "done" => effect[o][i] # "none"

Unrecorded(o, i) ==
  pc[o] \in {"record", "failure", "recordUndo", "crashed"} /\ i = position[o]

RowCurrent(o) ==
  row[o].status = "running" /\ ~refused[o] =>
    \A i \in StepsOf(o) : Unrecorded(o, i) \/ row[o].mark[i] = mark[o][i]

ErrorTrue(o) ==
  /\ pc[o] \in {"release", "audit", "ended"} => (failed[o] <=> row[o].status # "done")
  /\ pc[o] \notin {"release", "audit", "ended", "crashed"} => ~failed[o]
  /\ pc[o] # "ended" => audit[o] = "none"
  /\ audit[o] = "ok" => row[o].status = "done"
  /\ audit[o] = "failed" => row[o].status # "done"

Honest(o) == NoneCommitted(o) /\ MarkTrue(o) /\ RowCurrent(o) /\ ErrorTrue(o)

JInv == IInv /\ \A o \in Ops : Honest(o)

(***************************************************************************)
(* Each of the four is kept by every action of the operation.              *)
(***************************************************************************)
LEMMA NoneCommittedStep ==
  ASSUME Typed, NEW o \in Ops, Sound(o), Run(o) \/ Expire(o) \/ Crash(o), NoneCommitted(o)
  PROVE  NoneCommitted(o)'
<1> USE DEF Typed, TypeOK, ControlOK, FlagsOK, SnapshotsOK, StepsOf, NoneCommitted, Sound, RowState, Backward, Cursors
<1>1. CASE Submit(o)
  BY <1>1, SMTT(30) DEF Submit, Goto
<1>2. CASE Lock(o)
  BY <1>2, SMTT(30) DEF Lock, Goto
<1>3. CASE LockTimesOut(o)
  BY <1>3, SMTT(30) DEF LockTimesOut, Goto
<1>4. CASE LockFails(o)
  BY <1>4, SMTT(30) DEF LockFails, Goto
<1>5. CASE JournalStart(o)
  BY <1>5, SMTT(30) DEF JournalStart, Goto, Writes
<1>6. CASE JournalStartRefused(o)
  BY <1>6, SMTT(30) DEF JournalStartRefused, Goto, Refused
<1>7. CASE StepSucceeds(o)
  BY <1>7, SMTT(30) DEF StepSucceeds, Goto
<1>8. CASE StepFails(o)
  BY <1>8, SMTT(30) DEF StepFails, Goto
<1>9. CASE RecordStep(o)
  BY <1>9, SMTT(30) DEF RecordStep, Goto, Writes
<1>10. CASE RecordStepRefused(o)
  BY <1>10, SMTT(30) DEF RecordStepRefused, Goto, Refused
<1>11. CASE RecordFailure(o)
  BY <1>11, SMTT(30) DEF RecordFailure, Goto, Writes, Refused
<1>12. CASE SkipIrreversible(o)
  BY <1>12, SMTT(30) DEF SkipIrreversible
<1>13. CASE UndoSucceeds(o)
  BY <1>13, SMTT(30) DEF UndoSucceeds, Goto
<1>14. CASE UndoFails(o)
  BY <1>14, SMTT(30) DEF UndoFails
<1>15. CASE RecordUndo(o)
  BY <1>15, SMTT(30) DEF RecordUndo, Goto, Writes, Refused
<1>16. CASE Settle(o)
  BY <1>16, SMTT(30) DEF Settle, Goto, Writes, Refused
<1>17. CASE Finish(o)
  BY <1>17, SMTT(30) DEF Finish, Goto, Writes
<1>18. CASE FinishRefused(o)
  BY <1>18, SMTT(30) DEF FinishRefused, Goto, Refused
<1>19. CASE Release(o)
  BY <1>19, SMTT(30) DEF Release, Goto
<1>20. CASE Audit(o)
  BY <1>20, SMTT(30) DEF Audit, Goto
<1>21. CASE Expire(o)
  BY <1>21, SMTT(30) DEF Expire
<1>22. CASE Crash(o)
  BY <1>22, SMTT(30) DEF Crash, Goto, Calling
<1> QED
  BY <1>1, <1>2, <1>3, <1>4, <1>5, <1>6, <1>7, <1>8, <1>9, <1>10, <1>11, <1>12, <1>13, <1>14, <1>15, <1>16, <1>17, <1>18, <1>19, <1>20, <1>21, <1>22 DEF Run

LEMMA MarkTrueStep ==
  ASSUME Typed, NEW o \in Ops, Sound(o), Run(o) \/ Expire(o) \/ Crash(o), MarkTrue(o)
  PROVE  MarkTrue(o)'
<1> USE DEF Typed, TypeOK, ControlOK, FlagsOK, SnapshotsOK, StepsOf, MarkTrue, Sound, RowState, Backward, Applied, Cursors
<1>1. CASE Submit(o)
  BY <1>1, SMTT(30) DEF Submit, Goto
<1>2. CASE Lock(o)
  BY <1>2, SMTT(30) DEF Lock, Goto
<1>3. CASE LockTimesOut(o)
  BY <1>3, SMTT(30) DEF LockTimesOut, Goto
<1>4. CASE LockFails(o)
  BY <1>4, SMTT(30) DEF LockFails, Goto
<1>5. CASE JournalStart(o)
  BY <1>5, SMTT(30) DEF JournalStart, Goto, Writes
<1>6. CASE JournalStartRefused(o)
  BY <1>6, SMTT(30) DEF JournalStartRefused, Goto, Refused
<1>7. CASE StepSucceeds(o)
  BY <1>7, SMTT(30) DEF StepSucceeds, Goto
<1>8. CASE StepFails(o)
  BY <1>8, SMTT(30) DEF StepFails, Goto
<1>9. CASE RecordStep(o)
  BY <1>9, SMTT(30) DEF RecordStep, Goto, Writes
<1>10. CASE RecordStepRefused(o)
  BY <1>10, SMTT(30) DEF RecordStepRefused, Goto, Refused
<1>11. CASE RecordFailure(o)
  BY <1>11, SMTT(30) DEF RecordFailure, Goto, Writes, Refused
<1>12. CASE SkipIrreversible(o)
  BY <1>12, SMTT(30) DEF SkipIrreversible
<1>13. CASE UndoSucceeds(o)
  BY <1>13, SMTT(30) DEF UndoSucceeds, Goto
<1>14. CASE UndoFails(o)
  BY <1>14, SMTT(30) DEF UndoFails
<1>15. CASE RecordUndo(o)
  BY <1>15, SMTT(30) DEF RecordUndo, Goto, Writes, Refused
<1>16. CASE Settle(o)
  BY <1>16, SMTT(30) DEF Settle, Goto, Writes, Refused
<1>17. CASE Finish(o)
  BY <1>17, SMTT(30) DEF Finish, Goto, Writes
<1>18. CASE FinishRefused(o)
  BY <1>18, SMTT(30) DEF FinishRefused, Goto, Refused
<1>19. CASE Release(o)
  BY <1>19, SMTT(30) DEF Release, Goto
<1>20. CASE Audit(o)
  BY <1>20, SMTT(30) DEF Audit, Goto
<1>21. CASE Expire(o)
  BY <1>21, SMTT(30) DEF Expire
<1>22. CASE Crash(o)
  BY <1>22, SMTT(30) DEF Crash, Goto, Calling
<1> QED
  BY <1>1, <1>2, <1>3, <1>4, <1>5, <1>6, <1>7, <1>8, <1>9, <1>10, <1>11, <1>12, <1>13, <1>14, <1>15, <1>16, <1>17, <1>18, <1>19, <1>20, <1>21, <1>22 DEF Run

LEMMA RowCurrentStep ==
  ASSUME Typed, NEW o \in Ops, Sound(o), Run(o) \/ Expire(o) \/ Crash(o), RowCurrent(o)
  PROVE  RowCurrent(o)'
<1> USE DEF Typed, TypeOK, ControlOK, FlagsOK, SnapshotsOK, StepsOf, RowCurrent, Unrecorded, Sound, RowState, Cursors
<1>1. CASE Submit(o)
  BY <1>1, SMTT(30) DEF Submit, Goto
<1>2. CASE Lock(o)
  BY <1>2, SMTT(30) DEF Lock, Goto
<1>3. CASE LockTimesOut(o)
  BY <1>3, SMTT(30) DEF LockTimesOut, Goto
<1>4. CASE LockFails(o)
  BY <1>4, SMTT(30) DEF LockFails, Goto
<1>5. CASE JournalStart(o)
  BY <1>5, SMTT(30) DEF JournalStart, Goto, Writes
<1>6. CASE JournalStartRefused(o)
  BY <1>6, SMTT(30) DEF JournalStartRefused, Goto, Refused
<1>7. CASE StepSucceeds(o)
  BY <1>7, SMTT(30) DEF StepSucceeds, Goto
<1>8. CASE StepFails(o)
  BY <1>8, SMTT(30) DEF StepFails, Goto
<1>9. CASE RecordStep(o)
  BY <1>9, SMTT(30) DEF RecordStep, Goto, Writes
<1>10. CASE RecordStepRefused(o)
  BY <1>10, SMTT(30) DEF RecordStepRefused, Goto, Refused
<1>11. CASE RecordFailure(o)
  BY <1>11, SMTT(30) DEF RecordFailure, Goto, Writes, Refused
<1>12. CASE SkipIrreversible(o)
  BY <1>12, SMTT(30) DEF SkipIrreversible
<1>13. CASE UndoSucceeds(o)
  BY <1>13, SMTT(30) DEF UndoSucceeds, Goto
<1>14. CASE UndoFails(o)
  BY <1>14, SMTT(30) DEF UndoFails
<1>15. CASE RecordUndo(o)
  BY <1>15, SMTT(30) DEF RecordUndo, Goto, Writes, Refused
<1>16. CASE Settle(o)
  BY <1>16, SMTT(30) DEF Settle, Goto, Writes, Refused
<1>17. CASE Finish(o)
  BY <1>17, SMTT(30) DEF Finish, Goto, Writes
<1>18. CASE FinishRefused(o)
  BY <1>18, SMTT(30) DEF FinishRefused, Goto, Refused
<1>19. CASE Release(o)
  BY <1>19, SMTT(30) DEF Release, Goto
<1>20. CASE Audit(o)
  BY <1>20, SMTT(30) DEF Audit, Goto
<1>21. CASE Expire(o)
  BY <1>21, SMTT(30) DEF Expire
<1>22. CASE Crash(o)
  BY <1>22, SMTT(30) DEF Crash, Goto, Calling
<1> QED
  BY <1>1, <1>2, <1>3, <1>4, <1>5, <1>6, <1>7, <1>8, <1>9, <1>10, <1>11, <1>12, <1>13, <1>14, <1>15, <1>16, <1>17, <1>18, <1>19, <1>20, <1>21, <1>22 DEF Run

LEMMA ErrorTrueStep ==
  ASSUME Typed, NEW o \in Ops, Sound(o), Run(o) \/ Expire(o) \/ Crash(o), ErrorTrue(o)
  PROVE  ErrorTrue(o)'
<1> USE DEF Typed, TypeOK, ControlOK, FlagsOK, SnapshotsOK, StepsOf, ErrorTrue, Sound, RowState
<1>1. CASE Submit(o)
  BY <1>1, SMTT(30) DEF Submit, Goto
<1>2. CASE Lock(o)
  BY <1>2, SMTT(30) DEF Lock, Goto
<1>3. CASE LockTimesOut(o)
  BY <1>3, SMTT(30) DEF LockTimesOut, Goto
<1>4. CASE LockFails(o)
  BY <1>4, SMTT(30) DEF LockFails, Goto
<1>5. CASE JournalStart(o)
  BY <1>5, SMTT(30) DEF JournalStart, Goto, Writes
<1>6. CASE JournalStartRefused(o)
  BY <1>6, SMTT(30) DEF JournalStartRefused, Goto, Refused
<1>7. CASE StepSucceeds(o)
  BY <1>7, SMTT(30) DEF StepSucceeds, Goto
<1>8. CASE StepFails(o)
  BY <1>8, SMTT(30) DEF StepFails, Goto
<1>9. CASE RecordStep(o)
  BY <1>9, SMTT(30) DEF RecordStep, Goto, Writes
<1>10. CASE RecordStepRefused(o)
  BY <1>10, SMTT(30) DEF RecordStepRefused, Goto, Refused
<1>11. CASE RecordFailure(o)
  BY <1>11, SMTT(30) DEF RecordFailure, Goto, Writes, Refused
<1>12. CASE SkipIrreversible(o)
  BY <1>12, SMTT(30) DEF SkipIrreversible
<1>13. CASE UndoSucceeds(o)
  BY <1>13, SMTT(30) DEF UndoSucceeds, Goto
<1>14. CASE UndoFails(o)
  BY <1>14, SMTT(30) DEF UndoFails
<1>15. CASE RecordUndo(o)
  BY <1>15, SMTT(30) DEF RecordUndo, Goto, Writes, Refused
<1>16. CASE Settle(o)
  BY <1>16, SMTT(30) DEF Settle, Goto, Writes, Refused
<1>17. CASE Finish(o)
  BY <1>17, SMTT(30) DEF Finish, Goto, Writes
<1>18. CASE FinishRefused(o)
  BY <1>18, SMTT(30) DEF FinishRefused, Goto, Refused
<1>19. CASE Release(o)
  BY <1>19, SMTT(30) DEF Release, Goto
<1>20. CASE Audit(o)
  BY <1>20, SMTT(30) DEF Audit, Goto
<1>21. CASE Expire(o)
  BY <1>21, SMTT(30) DEF Expire
<1>22. CASE Crash(o)
  <2>1. pc'[o] = "crashed" /\ UNCHANGED <<row, failed, audit>>
    BY <1>22, SMTT(30) DEF Crash, Goto
  <2> QED BY <1>22, <2>1 DEF Crash, Alive
<1> QED
  BY <1>1, <1>2, <1>3, <1>4, <1>5, <1>6, <1>7, <1>8, <1>9, <1>10, <1>11, <1>12, <1>13, <1>14, <1>15, <1>16, <1>17, <1>18, <1>19, <1>20, <1>21, <1>22 DEF Run

LEMMA HonestFrame ==
  ASSUME Typed, NEW o \in Ops, Run(o) \/ Expire(o) \/ Crash(o), NEW p \in Ops \ {o}, Honest(p)
  PROVE  Honest(p)'
<1>1. Same(p)
  BY Frame
<1>2. refused'[p] = refused[p] /\ failed'[p] = failed[p] /\ audit'[p] = audit[p]
  BY SMTT(60) DEF Typed, TypeOK, ControlOK, FlagsOK, Run, Submit, Lock, LockTimesOut, LockFails, JournalStart,
    JournalStartRefused, StepSucceeds, StepFails, RecordStep, RecordStepRefused, RecordFailure, SkipIrreversible,
    UndoSucceeds, UndoFails, RecordUndo, Settle, Finish, FinishRefused, Release, Audit, Expire, Crash, Writes, Refused
<1>3. StepsOf(p)' = StepsOf(p)
  BY <1>1 DEF Same, StepsOf
<1>4. NoneCommitted(p)' /\ MarkTrue(p)'
  BY <1>1, <1>3 DEF Honest, NoneCommitted, MarkTrue, Same
<1>5. RowCurrent(p)' /\ ErrorTrue(p)'
  BY <1>1, <1>2, <1>3 DEF Honest, RowCurrent, ErrorTrue, Unrecorded, Same
<1> QED BY <1>4, <1>5 DEF Honest

LEMMA JInvInit == Init => JInv
<1> SUFFICES ASSUME Init, NEW o \in Ops PROVE Honest(o)
  BY SoundInit DEF JInv
<1>1. /\ pc[o] = "idle" /\ row[o].status = "none" /\ failed[o] = FALSE /\ audit[o] = "none"
      /\ \A i \in StepsOf(o) : mark[o][i] = "pending" /\ effect[o][i] = "none"
  BY SMTT(30) DEF Init
<1> QED BY <1>1 DEF Honest, NoneCommitted, MarkTrue, RowCurrent, ErrorTrue

LEMMA JInvNext == JInv /\ [Next]_vars => JInv'
<1> SUFFICES ASSUME JInv, [Next]_vars PROVE JInv'
  OBVIOUS
<1>1. Typed /\ (\A p \in Ops : Sound(p)) /\ \A p \in Ops : Honest(p)
  BY DEF JInv, IInv
<1>2. IInv'
  BY SoundNext DEF JInv
<1>3. ASSUME NEW o \in Ops, Run(o) \/ Expire(o) \/ Crash(o), NEW p \in Ops
      PROVE  Honest(p)'
  <2>1. CASE p = o
    BY <1>1, <1>3, <2>1, NoneCommittedStep, MarkTrueStep, RowCurrentStep, ErrorTrueStep DEF Honest
  <2>2. CASE p # o
    BY <1>1, <1>3, <2>2, HonestFrame
  <2> QED BY <2>1, <2>2
<1>4. ASSUME UNCHANGED vars, NEW p \in Ops
      PROVE  Honest(p)'
  <2>1. StepsOf(p)' = StepsOf(p)
    BY <1>4 DEF vars, StepsOf
  <2> QED
    BY <1>1, <1>4, <2>1 DEF vars, Honest, NoneCommitted, MarkTrue, RowCurrent, Unrecorded, ErrorTrue
<1>5. \A p \in Ops : Honest(p)'
  BY <1>3, <1>4 DEF Next, Terminated
<1> QED BY <1>2, <1>5 DEF JInv

LEMMA JInvariance == Spec => []JInv
  BY JInvInit, JInvNext, PTL DEF Spec

-----------------------------------------------------------------------------
(***************************************************************************)
(* A row left at "running" by a crash is exact but for the step in flight, *)
(* unless a write was refused (the Update calls of Run, fail, rollback).   *)
(***************************************************************************)
THEOREM RunningRowsAreExact == Spec => []JournalLag
<1>1. ASSUME JInv, NEW o \in Ops, row[o].status = "running", ~refused[o], NEW i \in StepsOf(o) \ {position[o]}
      PROVE  /\ row[o].mark[i] \in {"pending", "rolled_back"} => effect[o][i] = "none"
             /\ row[o].mark[i] = "done" => effect[o][i] # "none"
  <2>1. row[o].mark[i] = mark[o][i]
    BY <1>1 DEF JInv, Honest, RowCurrent, Unrecorded
  <2> QED BY <1>1, <2>1 DEF JInv, Honest, MarkTrue
<1>2. JInv => JournalLag
  BY <1>1 DEF JournalLag
<1> QED BY <1>2, JInvariance, PTL

(***************************************************************************)
(* The audit log never contradicts the journal: "ok" stands beside a row   *)
(* that says done, "failed" never does (the deferred audit of Run).        *)
(***************************************************************************)
THEOREM AuditLogIsTrue == Spec => []AuditAgrees
<1>1. JInv => AuditAgrees
  BY DEF JInv, Honest, ErrorTrue, AuditAgrees
<1> QED BY <1>1, JInvariance, PTL

(* What UndoInReverse says of one operation.                               *)
Reversed(o) ==
  \A i, j \in StepsOf(o) :
    mark[o][i] = "done" /\ mark'[o][i] = "rolled_back" /\ j > i /\ mark[o][j] = "done" => dirty[o]

LEMMA ReversedFrame ==
  ASSUME NEW o \in Ops, mark'[o] = mark[o]
  PROVE  Reversed(o)
  BY DEF Reversed

(***************************************************************************)
(* Rollback goes from the newest completed step down; it takes a step back *)
(* under one that stays only after noting it (the loop of rollback).       *)
(***************************************************************************)
THEOREM RollbackIsInReverse == Spec => UndoInReverse
<1>1. ASSUME IInv, Next, NEW o \in Ops PROVE Reversed(o)
  <2>1. Typed /\ Sound(o)
    BY <1>1 DEF IInv
  <2>2. CASE UndoSucceeds(o)
    <3>1. /\ pc[o] = "undo" /\ position[o] \in Nat /\ StepsOf(o) \subseteq Nat
          /\ \A i \in StepsOf(o) : i # position[o] => mark'[o][i] = mark[o][i]
      BY <2>1, <2>2, SMTT(30) DEF UndoSucceeds, Typed, TypeOK, ControlOK, SnapshotsOK, StepsOf
    <3>2. \A j \in StepsOf(o) : j > position[o] => Unwound(o, j)
      BY <2>1, <3>1 DEF Sound, Backward
    <3> QED BY <3>1, <3>2, SMTT(30) DEF Unwound, Reversed
  <2>3. CASE StepSucceeds(o)
    BY <2>1, <2>3, SMTT(30) DEF StepSucceeds, Reversed, Typed, TypeOK, ControlOK, SnapshotsOK, StepsOf
  <2>4. CASE StepFails(o)
    BY <2>1, <2>4, SMTT(30) DEF StepFails, Reversed, Typed, TypeOK, ControlOK, SnapshotsOK, StepsOf
  <2>5. CASE UNCHANGED mark
    BY <2>5, ReversedFrame
  <2>6. ASSUME NEW p \in Ops \ {o}, Run(p) \/ Expire(p) \/ Crash(p) PROVE Reversed(o)
    BY <2>1, <2>6, Frame, ReversedFrame DEF Same
  <2>7. ASSUME Run(o) \/ Expire(o) \/ Crash(o)
        PROVE  UNCHANGED mark \/ UndoSucceeds(o) \/ StepSucceeds(o) \/ StepFails(o)
    BY <2>7, Zenon DEF Run, Submit, Lock, LockTimesOut, LockFails, JournalStart, JournalStartRefused, RecordStep,
      RecordStepRefused, RecordFailure, SkipIrreversible, UndoFails, RecordUndo, Settle, Finish, FinishRefused,
      Release, Audit, Expire, Crash
  <2> QED BY <1>1, <2>2, <2>3, <2>4, <2>5, <2>6, <2>7 DEF Next, Terminated, vars
<1>2. ASSUME IInv, [Next]_vars
      PROVE  [\A o \in Ops : \A i, j \in StepsOf(o) :
                /\ mark[o][i] = "done" /\ mark'[o][i] = "rolled_back"
                /\ j > i /\ mark[o][j] = "done"
                => dirty[o]]_vars
  <2>1. CASE Next
    BY <1>1, <1>2, <2>1 DEF Reversed
  <2>2. CASE UNCHANGED vars
    BY <2>2
  <2> QED BY <1>2, <2>1, <2>2
<1> QED BY <1>2, Invariance, PTL DEF Spec, UndoInReverse

(* What CommittedStays says of one operation.                              *)
Kept(o) == \A i \in 1..boundary[o] : effect'[o][i] = effect[o][i] /\ row'[o].status # "rolled_back"

LEMMA KeptFrame ==
  ASSUME JInv, JInv', NEW o \in Ops, effect'[o] = effect[o], boundary'[o] = boundary[o]
  PROVE  Kept(o)
<1>1. boundary[o] \in Nat /\ (row'[o].status = "rolled_back" => boundary[o] = 0)
  BY DEF JInv, IInv, Typed, TypeOK, ControlOK, Honest, NoneCommitted
<1> QED BY <1>1 DEF Kept

(***************************************************************************)
(* What a recorded Commit step closes off is never touched again, and the  *)
(* row of such an operation never says rolled_back (Run, Step.Commit).     *)
(***************************************************************************)
THEOREM CommittedStepsStay == Spec => CommittedStays
<1>1. ASSUME JInv, JInv', Next, NEW o \in Ops PROVE Kept(o)
  <2> USE DEF Typed, TypeOK, ControlOK, SnapshotsOK, Cursors
  <2>1. Typed /\ RowState(o) /\ boundary[o] \in Nat /\ (row'[o].status = "rolled_back" => boundary'[o] = 0)
    BY <1>1 DEF JInv, IInv, Sound, Honest, NoneCommitted
  <2>2. CASE StepSucceeds(o)
    BY <2>1, <2>2, SMTT(30) DEF StepSucceeds, Kept, RowState
  <2>3. CASE StepFails(o)
    BY <2>1, <2>3, SMTT(30) DEF StepFails, Kept, RowState
  <2>4. CASE UndoSucceeds(o)
    BY <2>1, <2>4, SMTT(30) DEF UndoSucceeds, Kept, RowState
  <2>5. CASE UndoFails(o)
    BY <2>1, <2>5, SMTT(30) DEF UndoFails, Kept, RowState
  <2>6. CASE RecordStep(o)
    <3>1. row'[o].status = "running" /\ UNCHANGED effect
      BY <2>1, <2>6, SMTT(30) DEF RecordStep, Writes
    <3> QED BY <3>1 DEF Kept
  <2>7. CASE Crash(o)
    <3>1. UNCHANGED <<boundary, row>>
      BY <2>7 DEF Crash
    <3>2. \A i \in 1..boundary[o] : effect'[o][i] = effect[o][i]
      <4>1. CASE UNCHANGED effect
        BY <4>1
      <4>2. ASSUME Calling(o), NEW left, effect' = [effect EXCEPT ![o][position[o]] = left]
            PROVE  \A i \in 1..boundary[o] : effect'[o][i] = effect[o][i]
        <5>1. boundary[o] < position[o] /\ position[o] \in Nat
          BY <2>1, <4>2 DEF Calling
        <5>2. \A i \in Nat : i # position[o] => effect'[o][i] = effect[o][i]
          BY <2>1, <4>2
        <5> QED BY <2>1, <5>1, <5>2
      <4> QED BY <2>7, <4>1, <4>2 DEF Crash
    <3> QED BY <2>1, <3>1, <3>2 DEF Kept
  <2>8. CASE UNCHANGED <<effect, boundary>>
    BY <1>1, <2>8, KeptFrame
  <2>9. ASSUME NEW p \in Ops \ {o}, Run(p) \/ Expire(p) \/ Crash(p) PROVE Kept(o)
    BY <1>1, <2>1, <2>9, Frame, KeptFrame DEF Same
  <2>10. ASSUME Run(o) \/ Expire(o)
         PROVE  \/ UNCHANGED <<effect, boundary>>
                \/ StepSucceeds(o) \/ StepFails(o) \/ UndoSucceeds(o) \/ UndoFails(o) \/ RecordStep(o)
    BY <2>10, Zenon DEF Run, Submit, Lock, LockTimesOut, LockFails, JournalStart, JournalStartRefused,
      RecordStepRefused, RecordFailure, SkipIrreversible, RecordUndo, Settle, Finish, FinishRefused,
      Release, Audit, Expire
  <2> QED BY <1>1, <2>2, <2>3, <2>4, <2>5, <2>6, <2>7, <2>8, <2>9, <2>10 DEF Next, Terminated, vars
<1>2. ASSUME JInv, JInv', [Next]_vars
      PROVE  [\A o \in Ops : \A i \in 1..boundary[o] :
                /\ effect'[o][i] = effect[o][i]
                /\ row'[o].status # "rolled_back"]_vars
  <2>1. CASE Next
    BY <1>1, <1>2, <2>1 DEF Kept
  <2>2. CASE UNCHANGED vars
    BY <2>2
  <2> QED BY <1>2, <2>1, <2>2
<1> QED BY <1>2, JInvariance, PTL DEF Spec, CommittedStays

-----------------------------------------------------------------------------
(***************************************************************************)
(* The executor implements the contract that module SerialOperations       *)
(* states: every step of it is a step of the contract, or none.            *)
(***************************************************************************)

(***************************************************************************)
(* At most one step of a plan is marked failed: nothing is tried after it. *)
(***************************************************************************)
OneFailed(o) == \A i, j \in StepsOf(o) : mark[o][i] = "failed" /\ mark[o][j] = "failed" => i = j

RInv == IInv /\ \A o \in Ops : OneFailed(o)

LEMMA OneFailedStep ==
  ASSUME Typed, NEW o \in Ops, Sound(o), Run(o) \/ Expire(o) \/ Crash(o), OneFailed(o)
  PROVE  OneFailed(o)'
<1> USE DEF Typed, TypeOK, ControlOK, FlagsOK, SnapshotsOK, StepsOf, OneFailed, Sound, Forward, Applied, Untouched, Cursors
<1>1. CASE Submit(o)
  BY <1>1, SMTT(30) DEF Submit, Goto
<1>2. CASE Lock(o)
  BY <1>2, SMTT(30) DEF Lock, Goto
<1>3. CASE LockTimesOut(o)
  BY <1>3, SMTT(30) DEF LockTimesOut, Goto
<1>4. CASE LockFails(o)
  BY <1>4, SMTT(30) DEF LockFails, Goto
<1>5. CASE JournalStart(o)
  BY <1>5, SMTT(30) DEF JournalStart, Goto, Writes
<1>6. CASE JournalStartRefused(o)
  BY <1>6, SMTT(30) DEF JournalStartRefused, Goto, Refused
<1>7. CASE StepSucceeds(o)
  BY <1>7, SMTT(30) DEF StepSucceeds, Goto
<1>8. CASE StepFails(o)
  BY <1>8, SMTT(30) DEF StepFails, Goto
<1>9. CASE RecordStep(o)
  BY <1>9, SMTT(30) DEF RecordStep, Goto, Writes
<1>10. CASE RecordStepRefused(o)
  BY <1>10, SMTT(30) DEF RecordStepRefused, Goto, Refused
<1>11. CASE RecordFailure(o)
  BY <1>11, SMTT(30) DEF RecordFailure, Goto, Writes, Refused
<1>12. CASE SkipIrreversible(o)
  BY <1>12, SMTT(30) DEF SkipIrreversible
<1>13. CASE UndoSucceeds(o)
  BY <1>13, SMTT(30) DEF UndoSucceeds, Goto
<1>14. CASE UndoFails(o)
  BY <1>14, SMTT(30) DEF UndoFails
<1>15. CASE RecordUndo(o)
  BY <1>15, SMTT(30) DEF RecordUndo, Goto, Writes, Refused
<1>16. CASE Settle(o)
  BY <1>16, SMTT(30) DEF Settle, Goto, Writes, Refused
<1>17. CASE Finish(o)
  BY <1>17, SMTT(30) DEF Finish, Goto, Writes
<1>18. CASE FinishRefused(o)
  BY <1>18, SMTT(30) DEF FinishRefused, Goto, Refused
<1>19. CASE Release(o)
  BY <1>19, SMTT(30) DEF Release, Goto
<1>20. CASE Audit(o)
  BY <1>20, SMTT(30) DEF Audit, Goto
<1>21. CASE Expire(o)
  BY <1>21, SMTT(30) DEF Expire
<1>22. CASE Crash(o)
  BY <1>22, SMTT(30) DEF Crash, Goto, Calling
<1> QED
  BY <1>1, <1>2, <1>3, <1>4, <1>5, <1>6, <1>7, <1>8, <1>9, <1>10, <1>11, <1>12, <1>13, <1>14, <1>15, <1>16, <1>17, <1>18, <1>19, <1>20, <1>21, <1>22 DEF Run

LEMMA RInvInit == Init => RInv
<1> SUFFICES ASSUME Init, NEW o \in Ops PROVE OneFailed(o)
  BY SoundInit DEF RInv
<1>1. \A i \in StepsOf(o) : mark[o][i] = "pending"
  BY SMTT(30) DEF Init
<1> QED BY <1>1 DEF OneFailed

LEMMA RInvNext == RInv /\ [Next]_vars => RInv'
<1> SUFFICES ASSUME RInv, [Next]_vars PROVE RInv'
  OBVIOUS
<1>1. Typed /\ \A p \in Ops : Sound(p) /\ OneFailed(p)
  BY DEF RInv, IInv
<1>2. IInv'
  BY SoundNext DEF RInv
<1>3. ASSUME NEW o \in Ops, Run(o) \/ Expire(o) \/ Crash(o), NEW p \in Ops
      PROVE  OneFailed(p)'
  <2>1. CASE p = o
    BY <1>1, <1>3, <2>1, OneFailedStep
  <2>2. CASE p # o
    <3>1. Same(p)
      BY <1>1, <1>3, <2>2, Frame
    <3> QED BY <1>1, <3>1 DEF Same, OneFailed, StepsOf
  <2> QED BY <2>1, <2>2
<1>4. ASSUME UNCHANGED vars, NEW p \in Ops
      PROVE  OneFailed(p)'
  BY <1>1, <1>4 DEF vars, OneFailed, StepsOf
<1>5. \A p \in Ops : OneFailed(p)'
  BY <1>3, <1>4 DEF Next, Terminated
<1> QED BY <1>2, <1>5 DEF RInv

LEMMA RInvariance == Spec => []RInv
  BY RInvInit, RInvNext, PTL DEF Spec

-----------------------------------------------------------------------------
(***************************************************************************)
(* The pieces of the refinement mapping, as functions of the operations.   *)
(***************************************************************************)
Size == [o \in Ops |-> Len(plan[o])]
Verdict == [o \in Ops |-> row[o].status]

LEMMA StatusKept ==
  ASSUME Typed, Typed', NEW o \in Ops, \A p \in Ops \ {o} : Same(p), row'[o].status = row[o].status
  PROVE  UNCHANGED Verdict
  BY DEF Verdict, Same

LEMMA StatusSet ==
  ASSUME Typed, NEW o \in Ops, NEW s, \A p \in Ops \ {o} : Same(p), row'[o].status = s
  PROVE  Verdict' = [Verdict EXCEPT ![o] = s]
  BY DEF Verdict, Same

LEMMA ResidueKept == ASSUME UNCHANGED <<plan, effect>> PROVE UNCHANGED Residue
  BY DEF Residue, StepsOf

LEMMA ResidueSet ==
  ASSUME Typed, NEW o \in Ops, UNCHANGED plan, \A p \in Ops \ {o} : Same(p)
  PROVE  \E left \in SUBSET (1..Size[o]) : Residue' = [Residue EXCEPT ![o] = left]
<1> DEFINE left == {i \in StepsOf(o) : effect'[o][i] # "none"}
<1>1. left \in SUBSET (1..Size[o])
  BY DEF Size, StepsOf
<1>2. Residue' = [Residue EXCEPT ![o] = left]
  BY DEF Residue, Same, StepsOf
<1> QED BY <1>1, <1>2

LEMMA SizeKept == ASSUME UNCHANGED plan PROVE UNCHANGED Size
  BY DEF Size

LEMMA ContractInit == Init => Contract!Init
<1> SUFFICES ASSUME Init PROVE Contract!Init
  OBVIOUS
<1>1. Size \in [Ops -> Nat]
  BY TypedInit DEF Typed, TypeOK, ControlOK, Size
<1>2. Verdict = [o \in Ops |-> "none"]
  BY SMTT(30) DEF Init, Verdict
<1>3. Residue = [o \in Ops |-> {}]
  BY SMTT(30) DEF Init, Residue
<1> QED BY <1>1, <1>2, <1>3 DEF Init, Contract!Init, Size, Verdict

LEMMA Stutter ==
  ASSUME Typed, Typed', NEW o \in Ops, UNCHANGED <<plan, lock, effect>>,
         \A p \in Ops \ {o} : Same(p), row'[o].status = row[o].status
  PROVE  UNCHANGED Contract!vars
BY StatusKept, ResidueKept, SizeKept DEF Contract!vars, Size, Verdict

(***************************************************************************)
(* A Do or an Undo, of an operation whose row says "running".              *)
(***************************************************************************)
LEMMA Works ==
  ASSUME Typed, Typed', LockOwned, NEW o \in Ops, Sound(o), pc[o] \in {"step", "undo"},
         UNCHANGED <<plan, lock, row>>, \A p \in Ops \ {o} : Same(p)
  PROVE  Contract!Work(o)
<1>1. lock = o /\ Verdict[o] = "running" /\ UNCHANGED <<lock, Verdict, Size>>
  BY DEF LockOwned, Held, Sound, RowState, Verdict, Size
<1>2. \E left \in SUBSET (1..Size[o]) : Residue' = [Residue EXCEPT ![o] = left]
  BY ResidueSet
<1> QED BY <1>1, <1>2 DEF Contract!Work, Size, Verdict

(***************************************************************************)
(* The last write of a row: what the row then says is true, by the         *)
(* invariant in the state after it.                                        *)
(***************************************************************************)
LEMMA Settles ==
  ASSUME Typed, Typed', LockOwned, NEW o \in Ops, Sound(o), Sound(o)', OneFailed(o)',
         pc[o] \in {"undo", "finish"}, UNCHANGED <<plan, lock, effect>>, \A p \in Ops \ {o} : Same(p),
         row'[o].status \in {"done", "rolled_back", "inconsistent"}, row'[o].mark = mark'[o]
  PROVE  Contract!Settle(o)
<1> DEFINE v == row'[o].status
           Steps == 1..Len(plan[o])
           Left == {i \in Steps : effect[o][i] # "none"}
<1>1. lock = o /\ Verdict[o] = "running" /\ UNCHANGED <<lock, Size, Residue>>
  BY ResidueKept, SizeKept DEF LockOwned, Held, Sound, RowState, Verdict
<1>2. Verdict' = [Verdict EXCEPT ![o] = v]
  BY StatusSet
<1>3. Residue[o] = Left /\ Size[o] = Len(plan[o]) /\ Len(plan[o]) \in Nat
  BY DEF Residue, Size, StepsOf, Typed, TypeOK, ControlOK
<1>4. ASSUME v = "done" PROVE Residue[o] = 1..Size[o]
  <2>1. \A i \in Steps : effect[o][i] = "full"
    BY <1>4 DEF Sound, SettledTruth, StepsOf
  <2> QED BY <1>3, <2>1
<1>5. ASSUME v = "rolled_back" PROVE \E failing \in 0..Size[o] : Residue[o] \subseteq {failing}
  <2>1. \A i \in Left : row'[o].mark[i] = "failed"
    BY <1>5 DEF Sound, SettledTruth, StepsOf
  <2>2. \A i, j \in Left : i = j
    BY <2>1 DEF OneFailed, StepsOf
  <2> QED BY <1>3, <2>2
<1>6. Contract!Truthful(o, v)
  BY <1>4, <1>5 DEF Contract!Truthful, Size
<1> QED BY <1>1, <1>2, <1>6 DEF Contract!Settle, Contract!Final, Size, Verdict

(***************************************************************************)
(* Every step of an operation is a step of the contract, or none.          *)
(***************************************************************************)
LEMMA ContractStep ==
  ASSUME RInv, RInv', NEW o \in Ops, Run(o) \/ Expire(o) \/ Crash(o)
  PROVE  Contract!Next \/ UNCHANGED Contract!vars
<1>0. /\ Typed /\ Typed' /\ LockOwned /\ Sound(o) /\ Sound(o)' /\ OneFailed(o)'
      /\ \A p \in Ops \ {o} : Same(p)
  BY Frame DEF RInv, IInv
<1> USE DEF Typed, TypeOK, ControlOK, SnapshotsOK
<1>1. CASE Submit(o)
  <2>1. UNCHANGED <<plan, lock, effect>>
    BY <1>1 DEF Submit
  <2>2. row'[o].status = row[o].status
    BY <1>0, <1>1, SMTT(30) DEF Submit, Sound, RowState
  <2> QED BY <1>0, <2>1, <2>2, Stutter
<1>2. CASE Lock(o)
  <2>1. /\ lock = NoOp /\ lock' = o /\ UNCHANGED <<plan, effect, row>> /\ row[o].status = "none"
    BY <1>0, <1>2 DEF Lock, Sound, RowState
  <2>2. UNCHANGED <<Size, Verdict, Residue>>
    BY <1>0, <2>1, SizeKept, ResidueKept, StatusKept
  <2> QED BY <2>1, <2>2 DEF Contract!Next, Contract!Enter, Size, Verdict
<1>3. CASE LockTimesOut(o)
  <2>1. UNCHANGED <<plan, lock, effect>>
    BY <1>3 DEF LockTimesOut
  <2>2. row'[o].status = row[o].status
    BY <1>0, <1>3, SMTT(30) DEF LockTimesOut, Sound, RowState
  <2> QED BY <1>0, <2>1, <2>2, Stutter
<1>4. CASE LockFails(o)
  <2>1. UNCHANGED <<plan, lock, effect>>
    BY <1>4 DEF LockFails
  <2>2. row'[o].status = row[o].status
    BY <1>0, <1>4, SMTT(30) DEF LockFails, Sound, RowState
  <2> QED BY <1>0, <2>1, <2>2, Stutter
<1>5. CASE JournalStart(o)
  <2>1. /\ lock = o /\ UNCHANGED <<plan, lock, effect>> /\ row[o].status = "none"
        /\ row'[o].status = "running"
    BY <1>0, <1>5, SMTT(30) DEF JournalStart, Writes, LockOwned, Held, Sound, RowState
  <2>2. UNCHANGED <<Size, Residue>> /\ Verdict' = [Verdict EXCEPT ![o] = "running"]
    BY <1>0, <2>1, SizeKept, ResidueKept, StatusSet
  <2> QED BY <2>1, <2>2 DEF Contract!Next, Contract!Open, Size, Verdict
<1>6. CASE JournalStartRefused(o)
  <2>1. UNCHANGED <<plan, lock, effect>>
    BY <1>6 DEF JournalStartRefused
  <2>2. row'[o].status = row[o].status
    BY <1>0, <1>6, SMTT(30) DEF JournalStartRefused, Refused, Sound, RowState
  <2> QED BY <1>0, <2>1, <2>2, Stutter
<1>7. CASE StepSucceeds(o)
  <2>1. UNCHANGED <<plan, lock, row>> /\ pc[o] \in {"step", "undo"}
    BY <1>7 DEF StepSucceeds
  <2> QED BY <1>0, <2>1, Works DEF Contract!Next
<1>8. CASE StepFails(o)
  <2>1. UNCHANGED <<plan, lock, row>> /\ pc[o] \in {"step", "undo"}
    BY <1>8 DEF StepFails
  <2> QED BY <1>0, <2>1, Works DEF Contract!Next
<1>9. CASE RecordStep(o)
  <2>1. UNCHANGED <<plan, lock, effect>>
    BY <1>9 DEF RecordStep
  <2>2. row'[o].status = row[o].status
    BY <1>0, <1>9, SMTT(30) DEF RecordStep, Writes, Sound, RowState
  <2> QED BY <1>0, <2>1, <2>2, Stutter
<1>10. CASE RecordStepRefused(o)
  <2>1. UNCHANGED <<plan, lock, effect>>
    BY <1>10 DEF RecordStepRefused
  <2>2. row'[o].status = row[o].status
    BY <1>0, <1>10, SMTT(30) DEF RecordStepRefused, Refused, Sound, RowState
  <2> QED BY <1>0, <2>1, <2>2, Stutter
<1>11. CASE RecordFailure(o)
  <2>1. UNCHANGED <<plan, lock, effect>>
    BY <1>11 DEF RecordFailure
  <2>2. row'[o].status = row[o].status
    BY <1>0, <1>11, SMTT(30) DEF RecordFailure, Writes, Refused, Sound, RowState
  <2> QED BY <1>0, <2>1, <2>2, Stutter
<1>12. CASE SkipIrreversible(o)
  <2>1. UNCHANGED <<plan, lock, effect>>
    BY <1>12 DEF SkipIrreversible
  <2>2. row'[o].status = row[o].status
    BY <1>0, <1>12, SMTT(30) DEF SkipIrreversible, Sound, RowState
  <2> QED BY <1>0, <2>1, <2>2, Stutter
<1>13. CASE UndoSucceeds(o)
  <2>1. UNCHANGED <<plan, lock, row>> /\ pc[o] \in {"step", "undo"}
    BY <1>13 DEF UndoSucceeds
  <2> QED BY <1>0, <2>1, Works DEF Contract!Next
<1>14. CASE UndoFails(o)
  <2>1. UNCHANGED <<plan, lock, row>> /\ pc[o] \in {"step", "undo"}
    BY <1>14 DEF UndoFails
  <2> QED BY <1>0, <2>1, Works DEF Contract!Next
<1>15. CASE RecordUndo(o)
  <2>1. UNCHANGED <<plan, lock, effect>>
    BY <1>15 DEF RecordUndo
  <2>2. row'[o].status = row[o].status
    BY <1>0, <1>15, SMTT(30) DEF RecordUndo, Writes, Refused, Sound, RowState
  <2> QED BY <1>0, <2>1, <2>2, Stutter
<1>16. CASE Settle(o)
  <2>1. UNCHANGED <<plan, lock, effect, mark>> /\ pc[o] \in {"undo", "finish"}
    BY <1>16 DEF Settle
  <2>2. CASE UNCHANGED row
    BY <1>0, <2>1, <2>2, Stutter
  <2>3. CASE \E s \in {"inconsistent", "rolled_back"} : row' = [row EXCEPT ![o] = [status |-> s, mark |-> mark[o]]]
    <3>1. row'[o].status \in {"done", "rolled_back", "inconsistent"} /\ row'[o].mark = mark'[o]
      BY <1>0, <2>1, <2>3
    <3> QED BY <1>0, <2>1, <3>1, Settles DEF Contract!Next
  <2> QED BY <1>16, <2>2, <2>3 DEF Settle, Writes, Refused
<1>17. CASE Finish(o)
  <2>1. UNCHANGED <<plan, lock, effect, mark>> /\ pc[o] \in {"undo", "finish"}
    BY <1>17 DEF Finish
  <2>2. row'[o].status \in {"done", "rolled_back", "inconsistent"} /\ row'[o].mark = mark'[o]
    BY <1>0, <1>17, SMTT(30) DEF Finish, Writes
  <2> QED BY <1>0, <2>1, <2>2, Settles DEF Contract!Next
<1>18. CASE FinishRefused(o)
  <2>1. UNCHANGED <<plan, lock, effect>>
    BY <1>18 DEF FinishRefused
  <2>2. row'[o].status = row[o].status
    BY <1>0, <1>18, SMTT(30) DEF FinishRefused, Refused, Sound, RowState
  <2> QED BY <1>0, <2>1, <2>2, Stutter
<1>19. CASE Release(o)
  <2>1. lock = o /\ lock' = NoOp /\ UNCHANGED <<plan, effect, row>>
    BY <1>0, <1>19 DEF Release, LockOwned, Held
  <2>2. UNCHANGED <<Size, Verdict, Residue>>
    BY <1>0, <2>1, SizeKept, ResidueKept, StatusKept
  <2> QED BY <2>1, <2>2 DEF Contract!Next, Contract!Leave, Size, Verdict
<1>20. CASE Audit(o)
  <2>1. UNCHANGED <<plan, lock, effect>>
    BY <1>20 DEF Audit
  <2>2. row'[o].status = row[o].status
    BY <1>0, <1>20, SMTT(30) DEF Audit, Sound, RowState
  <2> QED BY <1>0, <2>1, <2>2, Stutter
<1>21. CASE Expire(o)
  <2>1. UNCHANGED <<plan, lock, effect>>
    BY <1>21 DEF Expire
  <2>2. row'[o].status = row[o].status
    BY <1>0, <1>21, SMTT(30) DEF Expire, Sound, RowState
  <2> QED BY <1>0, <2>1, <2>2, Stutter
<1>22. CASE Crash(o)
  <2>1. UNCHANGED <<plan, row>> /\ lock' = IF lock = o THEN NoOp ELSE lock
    BY <1>22 DEF Crash
  <2>2. UNCHANGED <<Size, Verdict>>
    BY <1>0, <2>1, SizeKept, StatusKept
  <2>3. CASE ~Calling(o)
    <3>1. UNCHANGED effect
      BY <1>22, <2>3 DEF Crash
    <3>2. CASE lock = o
      BY <2>1, <2>2, <3>1, <3>2, ResidueKept DEF Contract!Next, Contract!Leave, Size, Verdict
    <3>3. CASE lock # o
      BY <1>0, <2>1, <3>1, <3>3, Stutter
    <3> QED BY <3>2, <3>3
  <2>4. CASE Calling(o)
    <3>1. lock = o /\ Verdict[o] = "running"
      BY <1>0, <2>4 DEF Calling, LockOwned, Held, Sound, RowState, Verdict
    <3>2. \E left \in SUBSET (1..Size[o]) : Residue' = [Residue EXCEPT ![o] = left]
      BY <1>0, <2>1, ResidueSet
    <3> QED BY <2>1, <2>2, <3>1, <3>2 DEF Contract!Next, Contract!Leave, Size, Verdict
  <2> QED BY <2>3, <2>4
<1> QED
  BY <1>0, <1>1, <1>2, <1>3, <1>4, <1>5, <1>6, <1>7, <1>8, <1>9, <1>10, <1>11, <1>12, <1>13, <1>14, <1>15, <1>16, <1>17, <1>18, <1>19, <1>20, <1>21, <1>22 DEF Run

(***************************************************************************)
(* The executor implements its contract: operations enter one at a time,   *)
(* change the system only while their row says "running", and are settled  *)
(* at most once, truthfully (Executor.Run as its callers see it).          *)
(***************************************************************************)
THEOREM ExecutorImplementsContract == Spec => ImplementsContract
<1>1. RInv /\ RInv' /\ [Next]_vars => [Contract!Next]_Contract!vars
  <2> SUFFICES ASSUME RInv, RInv', [Next]_vars PROVE Contract!Next \/ UNCHANGED Contract!vars
    OBVIOUS
  <2>1. CASE UNCHANGED vars
    BY <2>1, SizeKept, ResidueKept DEF vars, Contract!vars, Size
  <2>2. ASSUME NEW o \in Ops, Run(o) \/ Expire(o) \/ Crash(o)
        PROVE  Contract!Next \/ UNCHANGED Contract!vars
    BY <2>2, ContractStep
  <2> QED BY <2>1, <2>2 DEF Next, Terminated
<1> QED BY <1>1, ContractInit, RInvariance, PTL DEF Spec, ImplementsContract, Contract!Spec
=============================================================================
