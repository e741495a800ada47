--------------------------- MODULE Apache_proofs ---------------------------
(***************************************************************************)
(* The properties of module Apache, for any set of sites, callers and      *)
(* jobs.  TypeOK needs no hypothesis; the others hold while a caller that  *)
(* does not take the operation lock (SSLService) has its sites to itself:  *)
(* run apache_unlocked shows what happens otherwise.                       *)
(***************************************************************************)
EXTENDS Apache, TLAPS

Apart ==
  \A c, d \in Callers : c # d /\ ~(c \in Locked /\ d \in Locked) =>
    \A j \in JobsOf[c], k \in JobsOf[d] : j.site # k.site

-----------------------------------------------------------------------------
(* The two ways a call has two file operations, and which one is next.     *)
Writing(c) == OpIn(c, {"Apply", "ApplyVHost"})
Long(c) == OpIn(c, {"ApplyVHost"}) \/ (OpIn(c, {"RemoveVHost"}) /\ seen[c].link)

ChangedPart(c) ==
  IF at[c] = 1
  THEN IF OpIn(c, {"Enable", "Disable"}) \/ (OpIn(c, {"RemoveVHost"}) /\ seen[c].link)
       THEN "link" ELSE "file"
  ELSE IF OpIn(c, {"RemoveVHost"}) THEN "file" ELSE "link"

RestoredPart(c) ==
  IF at[c] = 1
  THEN IF OpIn(c, {"Enable", "Disable", "ApplyVHost"}) THEN "link" ELSE "file"
  ELSE IF OpIn(c, {"RemoveVHost"}) THEN "link" ELSE "file"

(* The index of the file operations stays within them.                     *)
Placed(c) ==
  /\ job[c] \in JobsOf[c]
  /\ at[c] = 2 => pc[c] \in {"change", "restore", "crashed", "broken"} /\ Long(c)

Typed == TypeOK /\ \A c \in Callers : Placed(c)

(***************************************************************************)
(* Who may write: a call under way, and one that has returned nil and may  *)
(* be undone; inside a plan only while the plan has the lock.              *)
(***************************************************************************)
Busy == PCs \ Quiet
Holding == \A c \in Locked : pc[c] \in Busy => lock = c
Owns(c) == pc[c] \in Busy \cup {"applied"} /\ (c \in Locked => lock = c)

(***************************************************************************)
(* What is on disk at each point of a call, in terms of what it found when *)
(* it began: as before, between its two file operations, or as wanted.     *)
(***************************************************************************)
Here(c, file, link) == disk[Site(c)].file = file /\ disk[Site(c)].link = link

Untouched(c) == Here(c, origin[c].file, origin[c].link)

HalfChanged(c) ==
  Here(c, IF Writing(c) THEN job[c].body ELSE origin[c].file,
          ~OpIn(c, {"RemoveVHost"}) /\ origin[c].link)

Changed(c) ==
  Here(c, IF Writing(c) THEN job[c].body
          ELSE IF OpIn(c, {"RemoveVHost"}) THEN Nothing ELSE origin[c].file,
          IF OpIn(c, {"Apply"}) THEN origin[c].link ELSE OpIn(c, {"ApplyVHost", "Enable"}))

(* The checks have established what the restore function will put back.    *)
Known(c) ==
  /\ seen[c].file = origin[c].file /\ seen[c].link = origin[c].link
  /\ OpIn(c, {"ApplyVHost", "Enable"}) => ~origin[c].link
  /\ OpIn(c, {"Disable"}) => origin[c].link
  /\ OpIn(c, {"Enable", "RemoveVHost"}) => origin[c].file # Nothing

Track(c) ==
  /\ origin[c].link => origin[c].file # Nothing
  /\ pc[c] # "inspect" => Known(c)
  /\ pc[c] \in {"inspect", "baseline", "read", "retest", "rereload", "reactive"} => Untouched(c)
  /\ pc[c] = "change" => IF at[c] = 1 THEN Untouched(c) ELSE HalfChanged(c)
  /\ pc[c] \in {"test", "reload", "active", "applied"} => Changed(c)
  /\ pc[c] = "restore" =>
       IF at[c] = 1 THEN Changed(c) \/ (OpIn(c, {"ApplyVHost"}) /\ HalfChanged(c))
                    ELSE HalfChanged(c)

DiskInv ==
  /\ Typed
  /\ Holding
  /\ NoDanglingLink
  /\ \A c \in Callers : Owns(c) => Track(c)

(***************************************************************************)
(* Unless a call has crashed or ended broken, which nothing repairs: a     *)
(* site the server could not live with has a call at work that will put it *)
(* back; what a call would put back is sound, and so is what it has loaded *)
(* with success; a server that is down has a call that will notice.        *)
(***************************************************************************)
Sound(d) == d.link => d.file \in Valid \ Fatal
Trying(c) == pc[c] \in {"test", "reload", "active", "restore"}
Repairing(c) == pc[c] \in {"retest", "rereload", "reactive"}
Spoiled == \E c \in Callers : pc[c] \in {"broken", "crashed"}

SitesSound == \A s \in Sites : Sound(disk[s]) \/ \E c \in Callers : Site(c) = s /\ Trying(c)
OriginsSound == \A c \in Callers : Owns(c) => Sound(origin[c])
ActiveSound == \A c \in Callers : pc[c] = "active" /\ up => Sound(disk[Site(c)])
DownIsNoticed == up \/ \E c \in Callers : Trying(c) \/ Repairing(c)

SoundInv == Spoiled \/ (SitesSound /\ OriginsSound /\ ActiveSound /\ DownIsNoticed)

(* What a call has reloaded is on disk while it checks the server.         *)
LiveInv == \A c \in Callers : pc[c] \in {"active", "reactive"} =>
  running[Site(c)] = Effective(disk)[Site(c)]

(***************************************************************************)
(* Where the contents of a write that has returned nil are: on disk, or in *)
(* what another call of the site would put back; or another call has ended *)
(* for good after it.                                                      *)
(***************************************************************************)
Final(d) == pc[d] \in {"applied", "broken", "crashed", "abandoned"} /\ ~Owns(d)

Kept(c) ==
  \/ \E d \in Callers \ {c} : Site(d) = Site(c) /\ Final(d)
  \/ \E d \in Callers \ {c} : Site(d) = Site(c) /\ Owns(d) /\ origin[d].file = job[c].body
  \/ /\ \A d \in Callers \ {c} : Site(d) = Site(c) => ~Owns(d)
     /\ disk[Site(c)].file = job[c].body

LostInv == \A c \in Callers : pc[c] = "applied" /\ Writing(c) => Kept(c)

-----------------------------------------------------------------------------
(* The program starts typed, with the index at the first file operation.   *)
LEMMA TypedInit == Init => Typed
<1> SUFFICES ASSUME Init PROVE Typed
  OBVIOUS
<1>1. \A c \in Callers : job[c] \in JobsOf[c]
  BY DEF Init
<1>2. TypeOK
  BY BodiesAssumption, SMTT(30)
     DEF Init, TypeOK, DiskState, NoVHost, Effective, PCs, Quiet, Verdicts
<1>3. \A c \in Callers : at[c] # 2
  BY DEF Init
<1> QED
  BY <1>1, <1>2, <1>3 DEF Typed, Placed

(* A reload leaves the server's state in its type.                         *)
LEMMA LoadTyped ==
  ASSUME TypeOK, Load
  PROVE  running' \in [Sites -> Bodies \cup {Nothing}] /\ up' \in BOOLEAN
<1>1. running' \in [Sites -> Bodies \cup {Nothing}]
  BY DEF TypeOK, Load, Effective, DiskState
<1>2. up' \in BOOLEAN
  BY DEF Load
<1> QED
  BY <1>1, <1>2

(* A file operation leaves the disk in its type.                           *)
LEMMA PutTyped ==
  ASSUME TypeOK, NEW c \in Callers, NEW part,
         Put(c, part, Wanted(c)) \/ Put(c, part, seen[c])
  PROVE  disk' \in [Sites -> DiskState]
<1>1. Site(c) \in Sites
  BY DEF TypeOK, Site, Job
<1>2. Wanted(c) \in DiskState /\ seen[c] \in DiskState
  BY DEF TypeOK, Wanted, DiskState, Job, OpIn
<1>3. ASSUME NEW state \in DiskState, Put(c, part, state)
      PROVE  disk' \in [Sites -> DiskState]
  BY <1>1, <1>3 DEF TypeOK, Put, DiskState
<1> QED
  BY <1>2, <1>3

(***************************************************************************)
(* Changes written as a choice of one file operation by its index: in this *)
(* form the prover can use it.                                             *)
(***************************************************************************)
LEMMA ChangeOrder ==
  ASSUME Typed, NEW c \in Callers, pc[c] \in {"change", "restore"}
  PROVE  /\ Len(Changes(c)) = IF Long(c) THEN 2 ELSE 1
         /\ Changes(c)[at[c]] = ChangedPart(c)
<1> USE DEF Typed, TypeOK, Placed, Long, ChangedPart, OpIn
<1>1. /\ seen[c].link \in BOOLEAN
      /\ at[c] \in 1..2
      /\ at[c] = 2 => Long(c)
  BY SMT DEF DiskState
<1>2. job[c].op \in {"Apply", "ApplyVHost", "Enable", "Disable", "RemoveVHost"}
  BY DEF Job, OpNames
<1>3. CASE job[c].op = "Apply"
  <2>1. Changes(c) = <<"file">>
    BY <1>3, SMT DEF Changes
  <2> QED
    BY <2>1, <1>1, <1>3, SMT
<1>4. CASE job[c].op = "ApplyVHost"
  <2>1. Changes(c) = <<"file", "link">>
    BY <1>4, SMT DEF Changes
  <2> QED
    BY <2>1, <1>1, <1>4, SMT
<1>5. CASE job[c].op \in {"Enable", "Disable"}
  <2>1. Changes(c) = <<"link">>
    BY <1>5, SMT DEF Changes
  <2> QED
    BY <2>1, <1>1, <1>5, SMT
<1>6. CASE job[c].op = "RemoveVHost" /\ seen[c].link
  <2>1. Changes(c) = <<"link", "file">>
    BY <1>6, SMT DEF Changes
  <2> QED
    BY <2>1, <1>1, <1>6, SMT
<1>7. CASE job[c].op = "RemoveVHost" /\ ~seen[c].link
  <2>1. Changes(c) = <<"file">>
    BY <1>7, SMT DEF Changes
  <2> QED
    BY <2>1, <1>1, <1>7, SMT
<1> QED
  BY <1>2, <1>3, <1>4, <1>5, <1>6, <1>7

(* The same of Restores.                                                   *)
LEMMA RestoreOrder ==
  ASSUME Typed, NEW c \in Callers, pc[c] \in {"change", "restore"}
  PROVE  /\ Len(Restores(c)) = IF Long(c) THEN 2 ELSE 1
         /\ Restores(c)[at[c]] = RestoredPart(c)
<1> USE DEF Typed, TypeOK, Placed, Long, RestoredPart, OpIn
<1>1. /\ seen[c].link \in BOOLEAN
      /\ at[c] \in 1..2
      /\ at[c] = 2 => Long(c)
  BY SMT DEF DiskState
<1>2. job[c].op \in {"Apply", "ApplyVHost", "Enable", "Disable", "RemoveVHost"}
  BY DEF Job, OpNames
<1>3. CASE job[c].op = "Apply"
  <2>1. Restores(c) = <<"file">>
    BY <1>3, SMT DEF Restores
  <2> QED
    BY <2>1, <1>1, <1>3, SMT
<1>4. CASE job[c].op = "ApplyVHost"
  <2>1. Restores(c) = <<"link", "file">>
    BY <1>4, SMT DEF Restores
  <2> QED
    BY <2>1, <1>1, <1>4, SMT
<1>5. CASE job[c].op \in {"Enable", "Disable"}
  <2>1. Restores(c) = <<"link">>
    BY <1>5, SMT DEF Restores
  <2> QED
    BY <2>1, <1>1, <1>5, SMT
<1>6. CASE job[c].op = "RemoveVHost" /\ seen[c].link
  <2>1. Restores(c) = <<"file", "link">>
    BY <1>6, SMT DEF Restores
  <2> QED
    BY <2>1, <1>1, <1>6, SMT
<1>7. CASE job[c].op = "RemoveVHost" /\ ~seen[c].link
  <2>1. Restores(c) = <<"file">>
    BY <1>7, SMT DEF Restores
  <2> QED
    BY <2>1, <1>1, <1>7, SMT
<1> QED
  BY <1>2, <1>3, <1>4, <1>5, <1>6, <1>7

(* The step Change with its sequence expanded.                             *)
LEMMA ChangeEffect ==
  ASSUME Typed, NEW c \in Callers, Change(c)
  PROVE  /\ pc[c] = "change"
         /\ Possible(c, ChangedPart(c), Wanted(c))
         /\ Put(c, ChangedPart(c), Wanted(c))
         /\ at' = [at EXCEPT ![c] = IF Long(c) /\ at[c] = 1 THEN 2 ELSE 1]
         /\ Goto(c, IF Long(c) /\ at[c] = 1 THEN "change" ELSE "test")
         /\ UNCHANGED <<running, up, lock, job, seen, origin>>
<1>1. /\ pc[c] = "change"
      /\ UNCHANGED <<running, up, lock, job, seen, origin>>
  BY DEF Change
<1>2. /\ Len(Changes(c)) = IF Long(c) THEN 2 ELSE 1
      /\ Changes(c)[at[c]] = ChangedPart(c)
  BY <1>1, ChangeOrder
<1>3. /\ Possible(c, ChangedPart(c), Wanted(c))
      /\ Put(c, ChangedPart(c), Wanted(c))
  BY <1>2 DEF Change
<1>4. at[c] \in 1..2 /\ (at[c] = 2 => Long(c))
  BY DEF Typed, TypeOK, Placed
<1>5. at[c] = Len(Changes(c)) <=> ~(Long(c) /\ at[c] = 1)
  BY <1>2, <1>4, SMT
<1>6. Goto(c, IF Long(c) /\ at[c] = 1 THEN "change" ELSE "test")
  BY <1>5 DEF Change, Goto
<1>7. at' = [at EXCEPT ![c] = IF at[c] = Len(Changes(c)) THEN 1 ELSE @ + 1]
  BY DEF Change
<1>8. at' = [at EXCEPT ![c] = IF Long(c) /\ at[c] = 1 THEN 2 ELSE 1]
  <2>1. CASE Long(c) /\ at[c] = 1
    <3>1. at[c] # Len(Changes(c)) /\ at[c] + 1 = 2
      BY <2>1, <1>5
    <3>2. at' = [at EXCEPT ![c] = 2]
      BY <1>7, <3>1
    <3> QED
      BY <2>1, <3>2
  <2>2. CASE ~(Long(c) /\ at[c] = 1)
    <3>1. at' = [at EXCEPT ![c] = 1]
      BY <1>5, <1>7, <2>2
    <3> QED
      BY <2>2, <3>1
  <2> QED
    BY <2>1, <2>2
<1> QED
  BY <1>1, <1>3, <1>6, <1>8

(* The step Restore with its sequence expanded.                            *)
LEMMA RestoreEffect ==
  ASSUME Typed, NEW c \in Callers, Restore(c)
  PROVE  /\ pc[c] = "restore"
         /\ Possible(c, RestoredPart(c), seen[c]) \/ Tolerated(c, RestoredPart(c))
         /\ Put(c, RestoredPart(c), seen[c])
         /\ at' = [at EXCEPT ![c] = IF Long(c) /\ at[c] = 1 THEN 2 ELSE 1]
         /\ Goto(c, IF Long(c) /\ at[c] = 1 THEN "restore" ELSE "retest")
         /\ UNCHANGED <<running, up, lock, job, seen, origin>>
<1>1. /\ pc[c] = "restore"
      /\ UNCHANGED <<running, up, lock, job, seen, origin>>
  BY DEF Restore
<1>2. /\ Len(Restores(c)) = IF Long(c) THEN 2 ELSE 1
      /\ Restores(c)[at[c]] = RestoredPart(c)
  BY <1>1, RestoreOrder
<1>3. /\ Possible(c, RestoredPart(c), seen[c]) \/ Tolerated(c, RestoredPart(c))
      /\ Put(c, RestoredPart(c), seen[c])
  BY <1>2 DEF Restore
<1>4. at[c] \in 1..2 /\ (at[c] = 2 => Long(c))
  BY DEF Typed, TypeOK, Placed
<1>5. at[c] = Len(Restores(c)) <=> ~(Long(c) /\ at[c] = 1)
  BY <1>2, <1>4, SMT
<1>6. Goto(c, IF Long(c) /\ at[c] = 1 THEN "restore" ELSE "retest")
  BY <1>5 DEF Restore, Goto
<1>7. at' = [at EXCEPT ![c] = IF at[c] = Len(Restores(c)) THEN 1 ELSE @ + 1]
  BY DEF Restore
<1>8. at' = [at EXCEPT ![c] = IF Long(c) /\ at[c] = 1 THEN 2 ELSE 1]
  <2>1. CASE Long(c) /\ at[c] = 1
    <3>1. at[c] # Len(Restores(c)) /\ at[c] + 1 = 2
      BY <2>1, <1>5
    <3>2. at' = [at EXCEPT ![c] = 2]
      BY <1>7, <3>1
    <3> QED
      BY <2>1, <3>2
  <2>2. CASE ~(Long(c) /\ at[c] = 1)
    <3>1. at' = [at EXCEPT ![c] = 1]
      BY <1>5, <1>7, <2>2
    <3> QED
      BY <2>2, <3>1
  <2> QED
    BY <2>1, <2>2
<1> QED
  BY <1>1, <1>3, <1>6, <1>8

(***************************************************************************)
(* A step of one caller changes neither the local state of another nor any *)
(* site but its own.                                                       *)
(***************************************************************************)
LEMMA Frame ==
  ASSUME Typed, NEW c \in Callers, Call(c) \/ Crash(c)
  PROVE  /\ job' = job
         /\ \A d \in Callers \ {c} :
              pc'[d] = pc[d] /\ at'[d] = at[d] /\ seen'[d] = seen[d] /\ origin'[d] = origin[d]
         /\ \A s \in Sites \ {job[c].site} : disk'[s] = disk[s]
<1> USE DEF Typed, TypeOK
<1>1. CASE Begin(c)
  BY <1>1, SMTT(30) DEF Begin, Goto, Site
<1>2. CASE Inspect(c)
  BY <1>2, SMTT(30) DEF Inspect, Goto, Site, Exists
<1>3. CASE Baseline(c)
  BY <1>3, SMTT(30) DEF Baseline, Goto
<1>4. CASE ReadPrevious(c)
  BY <1>4, SMTT(30) DEF ReadPrevious, Goto, Site
<1>5. CASE Refuse(c)
  BY <1>5, SMTT(30) DEF Refuse, Goto
<1>6. CASE Change(c)
  BY <1>6, SMTT(30) DEF Change, Goto, Site, Put, Possible, Changes, Wanted
<1>7. CASE ChangeFails(c)
  BY <1>7, SMTT(30) DEF ChangeFails, Goto
<1>8. CASE Test(c)
  BY <1>8, SMTT(30) DEF Test, Goto
<1>9. CASE Reload(c)
  BY <1>9, SMTT(30) DEF Reload, Goto, Load
<1>10. CASE Active(c)
  BY <1>10, SMTT(30) DEF Active, Goto
<1>11. CASE CheckFails(c)
  BY <1>11, SMTT(30) DEF CheckFails, Goto, Load
<1>12. CASE Undo(c)
  BY <1>12, SMTT(30) DEF Undo, Goto
<1>13. CASE Restore(c)
  BY <1>13, SMTT(30) DEF Restore, Goto, Site, Put, Possible, Tolerated, Restores
<1>14. CASE Retest(c)
  BY <1>14, SMTT(30) DEF Retest, Goto
<1>15. CASE Rereload(c)
  BY <1>15, SMTT(30) DEF Rereload, Goto, Load
<1>16. CASE Reactive(c)
  BY <1>16, SMTT(30) DEF Reactive, Goto
<1>17. CASE RestoreFails(c)
  BY <1>17, SMTT(30) DEF RestoreFails, Goto, Load
<1>18. CASE Leave(c)
  BY <1>18, SMTT(30) DEF Leave
<1>19. CASE Crash(c)
  BY <1>19, SMTT(30) DEF Crash, Goto
<1> QED
  BY <1>1, <1>2, <1>3, <1>4, <1>5, <1>6, <1>7, <1>8, <1>9, <1>10, <1>11, <1>12, <1>13, <1>14, <1>15, <1>16, <1>17, <1>18, <1>19
     DEF Call

(* Every step keeps the types and the index within bounds.                 *)
LEMMA TypedStep ==
  ASSUME Typed, NEW c \in Callers, Call(c) \/ Crash(c)
  PROVE  Typed'
<1>1. TypeOK'
  <2> USE BodiesAssumption, CallersAssumption DEF Typed, TypeOK, Placed, PCs, Quiet, Verdicts
  <2>1. CASE Begin(c)
    BY <2>1, SMTT(30) DEF Begin, Goto, Site, Job
  <2>2. CASE Inspect(c)
    BY <2>2, SMTT(30) DEF Inspect, Goto, Site, Exists, DiskState, Job
  <2>3. CASE Baseline(c)
    BY <2>3, SMTT(30) DEF Baseline, Goto
  <2>4. CASE ReadPrevious(c)
    <3>1. /\ seen' = [seen EXCEPT ![c] = [seen[c] EXCEPT !.file = disk[Site(c)].file]]
          /\ Goto(c, "change") /\ UNCHANGED <<disk, running, up, lock, at, job, origin>>
      BY <2>4, Zenon DEF ReadPrevious
    <3>2. Site(c) \in Sites
      BY SMT DEF Site, Job
    <3>3. disk[Site(c)].file \in Bodies \cup {Nothing} /\ seen[c] \in DiskState
      BY <3>2, SMT DEF DiskState
    <3>4. [seen[c] EXCEPT !.file = disk[Site(c)].file] \in DiskState
      BY <3>3, Zenon DEF DiskState
    <3>5. seen' \in [Callers -> DiskState]
      BY <3>1, <3>4, Zenon
    <3>6. pc' \in [Callers -> PCs]
      BY <3>1, SMT DEF Goto
    <3> QED
      BY <3>1, <3>5, <3>6, Zenon
  <2>5. CASE Refuse(c)
    BY <2>5, SMTT(30) DEF Refuse, Goto
  <2>6. CASE Change(c)
    BY <2>6, PutTyped, ChangeEffect, SMTT(30) DEF Goto
  <2>7. CASE ChangeFails(c)
    BY <2>7, SMTT(30) DEF ChangeFails, Goto, Long, OpIn
  <2>8. CASE Test(c)
    BY <2>8, SMTT(30) DEF Test, Goto
  <2>9. CASE Reload(c)
    BY <2>9, LoadTyped, SMTT(30) DEF Reload, Goto
  <2>10. CASE Active(c)
    BY <2>10, SMTT(30) DEF Active, Goto
  <2>11. CASE CheckFails(c)
    BY <2>11, LoadTyped, SMTT(30) DEF CheckFails, Goto
  <2>12. CASE Undo(c)
    BY <2>12, SMTT(30) DEF Undo, Goto
  <2>13. CASE Restore(c)
    BY <2>13, PutTyped, RestoreEffect, SMTT(30) DEF Goto
  <2>14. CASE Retest(c)
    BY <2>14, SMTT(30) DEF Retest, Goto
  <2>15. CASE Rereload(c)
    BY <2>15, LoadTyped, SMTT(30) DEF Rereload, Goto
  <2>16. CASE Reactive(c)
    BY <2>16, SMTT(30) DEF Reactive, Goto
  <2>17. CASE RestoreFails(c)
    BY <2>17, LoadTyped, SMTT(30) DEF RestoreFails, Goto
  <2>18. CASE Leave(c)
    BY <2>18, SMTT(30) DEF Leave
  <2>19. CASE Crash(c)
    BY <2>19, SMTT(30) DEF Crash, Goto
  <2> QED
    BY <2>1, <2>2, <2>3, <2>4, <2>5, <2>6, <2>7, <2>8, <2>9, <2>10, <2>11, <2>12, <2>13, <2>14, <2>15, <2>16, <2>17, <2>18, <2>19
       DEF Call
<1>2. Placed(c)'
  <2> USE DEF Typed, TypeOK, Placed, Long, Job, OpNames, OpIn
  <2>1. CASE Begin(c)
    BY <2>1, SMTT(30) DEF Begin, Goto, Site
  <2>2. CASE Inspect(c)
    BY <2>2, SMTT(30) DEF Inspect, Goto, Site, Exists
  <2>3. CASE Baseline(c)
    BY <2>3, SMTT(30) DEF Baseline, Goto
  <2>4. CASE ReadPrevious(c)
    BY <2>4, SMTT(30) DEF ReadPrevious, Goto, Site
  <2>5. CASE Refuse(c)
    BY <2>5, SMTT(30) DEF Refuse, Goto
  <2>6. CASE Change(c)
    BY <2>6, ChangeEffect, SMTT(30) DEF Goto
  <2>7. CASE ChangeFails(c)
    BY <2>7, SMTT(30) DEF ChangeFails, Goto
  <2>8. CASE Test(c)
    BY <2>8, SMTT(30) DEF Test, Goto
  <2>9. CASE Reload(c)
    BY <2>9, SMTT(30) DEF Reload, Goto, Load
  <2>10. CASE Active(c)
    BY <2>10, SMTT(30) DEF Active, Goto
  <2>11. CASE CheckFails(c)
    BY <2>11, SMTT(30) DEF CheckFails, Goto, Load
  <2>12. CASE Undo(c)
    BY <2>12, SMTT(30) DEF Undo, Goto
  <2>13. CASE Restore(c)
    BY <2>13, RestoreEffect, SMTT(30) DEF Goto
  <2>14. CASE Retest(c)
    BY <2>14, SMTT(30) DEF Retest, Goto
  <2>15. CASE Rereload(c)
    BY <2>15, SMTT(30) DEF Rereload, Goto, Load
  <2>16. CASE Reactive(c)
    BY <2>16, SMTT(30) DEF Reactive, Goto
  <2>17. CASE RestoreFails(c)
    BY <2>17, SMTT(30) DEF RestoreFails, Goto, Load
  <2>18. CASE Leave(c)
    BY <2>18, SMTT(30) DEF Leave
  <2>19. CASE Crash(c)
    BY <2>19, SMTT(30) DEF Crash, Goto
  <2> QED
    BY <2>1, <2>2, <2>3, <2>4, <2>5, <2>6, <2>7, <2>8, <2>9, <2>10, <2>11, <2>12, <2>13, <2>14, <2>15, <2>16, <2>17, <2>18, <2>19
       DEF Call
<1>3. ASSUME NEW d \in Callers \ {c} PROVE Placed(d)'
  BY <1>3, Frame DEF Typed, Placed, Long, OpIn
<1> QED
  BY <1>1, <1>2, <1>3 DEF Typed

-----------------------------------------------------------------------------
(* A call under way may write its site.                                    *)
LEMMA Holds ==
  ASSUME Typed, Holding, NEW c \in Callers, pc[c] \in Busy
  PROVE  Owns(c)
BY DEF Holding, Owns

(* A caller inside a plan has the lock as long as its call is under way.   *)
LEMMA HoldingStep ==
  ASSUME Typed, Holding, NEW c \in Callers, Call(c) \/ Crash(c)
  PROVE  Holding'
<1> SUFFICES ASSUME NEW d \in Locked, pc'[d] \in Busy PROVE lock' = d
  BY DEF Holding, Busy, PCs, Quiet, Verdicts
<1> USE CallersAssumption DEF Typed, TypeOK, Holding, Busy, PCs, Quiet, Verdicts
<1>1. CASE Begin(c)
  BY <1>1, SMTT(30) DEF Begin, Goto, Site
<1>2. CASE Inspect(c)
  BY <1>2, SMTT(30) DEF Inspect, Goto, Site, Exists
<1>3. CASE Baseline(c)
  BY <1>3, SMTT(30) DEF Baseline, Goto
<1>4. CASE ReadPrevious(c)
  BY <1>4, SMTT(30) DEF ReadPrevious, Goto, Site
<1>5. CASE Refuse(c)
  BY <1>5, SMTT(30) DEF Refuse, Goto
<1>6. CASE Change(c)
  BY <1>6, ChangeEffect, SMTT(30) DEF Goto
<1>7. CASE ChangeFails(c)
  BY <1>7, SMTT(30) DEF ChangeFails, Goto
<1>8. CASE Test(c)
  BY <1>8, SMTT(30) DEF Test, Goto
<1>9. CASE Reload(c)
  BY <1>9, SMTT(30) DEF Reload, Goto, Load
<1>10. CASE Active(c)
  BY <1>10, SMTT(30) DEF Active, Goto
<1>11. CASE CheckFails(c)
  BY <1>11, SMTT(30) DEF CheckFails, Goto, Load
<1>12. CASE Undo(c)
  BY <1>12, SMTT(30) DEF Undo, Goto
<1>13. CASE Restore(c)
  BY <1>13, RestoreEffect, SMTT(30) DEF Goto
<1>14. CASE Retest(c)
  BY <1>14, SMTT(30) DEF Retest, Goto
<1>15. CASE Rereload(c)
  BY <1>15, SMTT(30) DEF Rereload, Goto, Load
<1>16. CASE Reactive(c)
  BY <1>16, SMTT(30) DEF Reactive, Goto
<1>17. CASE RestoreFails(c)
  BY <1>17, SMTT(30) DEF RestoreFails, Goto, Load
<1>18. CASE Leave(c)
  BY <1>18, SMTT(30) DEF Leave
<1>19. CASE Crash(c)
  BY <1>19, SMTT(30) DEF Crash, Goto
<1> QED
  BY <1>1, <1>2, <1>3, <1>4, <1>5, <1>6, <1>7, <1>8, <1>9, <1>10, <1>11, <1>12, <1>13, <1>14, <1>15, <1>16, <1>17, <1>18, <1>19
     DEF Call

(***************************************************************************)
(* From where a step starts and what it may change: only Change and        *)
(* Restore write the disk, only Begin reads the origin, only Begin, Leave  *)
(* and Crash move the lock.                                                *)
(***************************************************************************)
LEMMA Moves ==
  ASSUME Typed, NEW c \in Callers, Call(c) \/ Crash(c)
  PROVE  /\ pc[c] \in Busy \/ Begin(c) \/ Undo(c) \/ Leave(c)
         /\ disk' = disk \/ (pc[c] \in Busy /\ (Change(c) \/ Restore(c)))
         /\ origin' = origin \/ Begin(c)
         /\ lock' \in {lock, c, NoCaller}
         /\ lock' = lock \/ Begin(c) \/ Leave(c) \/ Crash(c)
         /\ pc[c] = "applied" => Undo(c) \/ Leave(c)
         /\ pc'[c] # "idle"
<1> USE DEF Typed, TypeOK, Busy, PCs, Quiet, Verdicts
<1>1. CASE Begin(c)
  BY <1>1, SMTT(30) DEF Begin, Goto, Site
<1>2. CASE Inspect(c)
  BY <1>2, SMTT(30) DEF Inspect, Goto, Site, Exists
<1>3. CASE Baseline(c)
  BY <1>3, SMTT(30) DEF Baseline, Goto
<1>4. CASE ReadPrevious(c)
  BY <1>4, SMTT(30) DEF ReadPrevious, Goto, Site
<1>5. CASE Refuse(c)
  BY <1>5, SMTT(30) DEF Refuse, Goto
<1>6. CASE Change(c)
  BY <1>6, ChangeEffect, SMTT(30) DEF Goto
<1>7. CASE ChangeFails(c)
  BY <1>7, SMTT(30) DEF ChangeFails, Goto, Placed, Long, OpIn
<1>8. CASE Test(c)
  BY <1>8, SMTT(30) DEF Test, Goto
<1>9. CASE Reload(c)
  BY <1>9, SMTT(30) DEF Reload, Goto, Load
<1>10. CASE Active(c)
  BY <1>10, SMTT(30) DEF Active, Goto
<1>11. CASE CheckFails(c)
  BY <1>11, SMTT(30) DEF CheckFails, Goto, Load
<1>12. CASE Undo(c)
  BY <1>12, SMTT(30) DEF Undo, Goto
<1>13. CASE Restore(c)
  BY <1>13, RestoreEffect, SMTT(30) DEF Goto
<1>14. CASE Retest(c)
  BY <1>14, SMTT(30) DEF Retest, Goto
<1>15. CASE Rereload(c)
  BY <1>15, SMTT(30) DEF Rereload, Goto, Load
<1>16. CASE Reactive(c)
  BY <1>16, SMTT(30) DEF Reactive, Goto
<1>17. CASE RestoreFails(c)
  BY <1>17, SMTT(30) DEF RestoreFails, Goto, Load
<1>18. CASE Leave(c)
  BY <1>18, SMTT(30) DEF Leave
<1>19. CASE Crash(c)
  BY <1>19, SMTT(30) DEF Crash, Goto
<1> QED
  BY <1>1, <1>2, <1>3, <1>4, <1>5, <1>6, <1>7, <1>8, <1>9, <1>10, <1>11, <1>12, <1>13, <1>14, <1>15, <1>16, <1>17, <1>18, <1>19
     DEF Call

(* No two callers may write the same site.                                 *)
LEMMA Exclusive ==
  ASSUME Typed, Apart, NEW c \in Callers, NEW d \in Callers, c # d,
         Owns(c), Owns(d) \/ ~(c \in Locked /\ d \in Locked)
  PROVE  Site(c) # Site(d)
<1>1. job[c] \in JobsOf[c] /\ job[d] \in JobsOf[d]
  BY DEF Typed, Placed
<1>2. CASE c \in Locked /\ d \in Locked
  BY <1>2 DEF Owns
<1>3. CASE ~(c \in Locked /\ d \in Locked)
  BY <1>1, <1>3 DEF Apart, Site
<1> QED
  BY <1>2, <1>3

(***************************************************************************)
(* While a caller may write its site, a step of another does not touch     *)
(* that site.                                                              *)
(***************************************************************************)
LEMMA Bystander ==
  ASSUME DiskInv, Apart, NEW c \in Callers, Call(c) \/ Crash(c),
         NEW d \in Callers \ {c}, Owns(d)'
  PROVE  /\ Owns(d)
         /\ disk'[Site(d)] = disk[Site(d)]
<1>1. Owns(d)
  BY Moves, Frame, CallersAssumption DEF Owns, DiskInv
<1>2. disk'[Site(d)] = disk[Site(d)]
  <2>1. CASE pc[c] \in Busy
    <3>1. Site(c) # Site(d)
      BY <2>1, <1>1, Holds, Exclusive DEF DiskInv
    <3>2. Site(d) \in Sites
      BY DEF DiskInv, Typed, TypeOK, Site, Job
    <3> QED
      BY <3>1, <3>2, Frame DEF DiskInv, Site
  <2>2. CASE pc[c] \notin Busy /\ ~Begin(c)
    BY <2>2, Moves DEF DiskInv
  <2>3. CASE Begin(c)
    BY <2>3 DEF Begin
  <2> QED
    BY <2>1, <2>2, <2>3
<1> QED
  BY <1>1, <1>2

(* A file operation changes the file or the link, never both.              *)
LEMMA PutFields ==
  ASSUME TypeOK, NEW c \in Callers, NEW part \in {"file", "link"}, NEW state, Put(c, part, state)
  PROVE  /\ disk'[Site(c)].file = IF part = "file" THEN state.file ELSE disk[Site(c)].file
         /\ disk'[Site(c)].link = IF part = "link" THEN state.link ELSE disk[Site(c)].link
<1>1. Site(c) \in Sites
  BY DEF TypeOK, Site, Job
<1> QED
  BY <1>1 DEF TypeOK, Put, DiskState

(* A step of another caller leaves a call where it is.                     *)
LEMMA TrackOther ==
  ASSUME DiskInv, Apart, NEW c \in Callers, Call(c) \/ Crash(c),
         NEW d \in Callers \ {c}, Owns(d)'
  PROVE  Track(d)'
<1>1. /\ Track(d)
      /\ disk'[Site(d)] = disk[Site(d)]
  BY Bystander DEF DiskInv
<1>2. /\ job' = job /\ pc'[d] = pc[d] /\ at'[d] = at[d]
      /\ seen'[d] = seen[d] /\ origin'[d] = origin[d]
  BY Frame DEF DiskInv
<1> QED
  BY <1>1, <1>2 DEF Track, Known, Here, Untouched, HalfChanged, Changed, Writing, OpIn, Site

(***************************************************************************)
(* Every step of a call, forward or backward, leaves the disk as Track     *)
(* says for the point it reaches.                                          *)
(***************************************************************************)
LEMMA TrackSelf ==
  ASSUME DiskInv, NEW c \in Callers, Call(c) \/ Crash(c), Owns(c)'
  PROVE  Track(c)'
<1>tracked. pc[c] \in Busy \/ Undo(c) => Track(c)
  BY Holds DEF DiskInv, Undo, Owns
<1>typed. /\ Site(c) \in Sites /\ job[c].op \in OpNames
       /\ disk[Site(c)].link \in BOOLEAN /\ origin[c].link \in BOOLEAN /\ seen[c].link \in BOOLEAN
  BY DEF DiskInv, Typed, TypeOK, Site, Job, DiskState
<1>placed. at[c] \in 1..2 /\ Placed(c)
  BY DEF DiskInv, Typed, TypeOK
<1> USE DEF DiskInv, Typed, TypeOK
<1>1. CASE Begin(c)
  <2>1. disk[Site(c)].link => disk[Site(c)].file # Nothing
    BY <1>typed DEF NoDanglingLink
  <2>2. pc'[c] = "inspect" /\ origin'[c] = disk[Site(c)] /\ disk' = disk /\ job' = job
    BY <1>1, SMT DEF Begin, Goto
  <2> QED
    BY <2>1, <2>2 DEF Track, Known, Here, Untouched, Site
<1>2. CASE Inspect(c)
  <2>1. Exists(Site(c)) <=> disk[Site(c)].link
    BY <1>typed DEF NoDanglingLink, Exists
  <2>2. /\ pc'[c] = "baseline" /\ origin' = origin /\ disk' = disk /\ job' = job
        /\ seen'[c].file = disk[Site(c)].file /\ seen'[c].link = Exists(Site(c))
    BY <1>2, SMT DEF Inspect, Goto
  <2>3. Track(c) /\ pc[c] = "inspect"
    BY <1>2, <1>tracked DEF Inspect, Busy, PCs, Quiet, Verdicts
  <2>4. Exists(Site(c)) \in BOOLEAN /\ disk[Site(c)].link \in BOOLEAN
    BY <1>typed DEF Exists
  <2>5. seen'[c].link = disk[Site(c)].link
    BY <2>1, <2>2, <2>4
  <2> QED
    BY <2>1, <2>2, <2>3, <2>5, <1>2
       DEF Track, Known, Here, Untouched, Site, Inspect, Admitted, OpIn
<1>3. CASE Baseline(c)
  <2>1. Track(c) /\ pc[c] = "baseline"
    BY <1>3, <1>tracked DEF Baseline, Busy, PCs, Quiet, Verdicts
  <2>2. /\ pc'[c] \in {"read", "change"} /\ disk' = disk /\ origin' = origin
        /\ at' = at /\ job' = job /\ seen' = seen
    BY <1>3, SMT DEF Baseline, Goto
  <2>3. at[c] = 1 \/ pc[c] = "change"
    BY <1>placed, <2>1, SMT DEF Placed
  <2> QED
    BY <2>1, <2>2, <2>3, SMT
       DEF Track, Known, Here, Untouched, HalfChanged, Changed, Writing, OpIn, Site
<1>4. CASE ReadPrevious(c)
  <2>1. Track(c) /\ pc[c] = "read"
    BY <1>4, <1>tracked DEF ReadPrevious, Busy, PCs, Quiet, Verdicts
  <2>2. /\ pc'[c] \in {"change"} /\ disk' = disk /\ origin' = origin
        /\ at' = at /\ job' = job /\ seen'[c].file = disk[Site(c)].file /\ seen'[c].link = seen[c].link
    BY <1>4, SMT DEF ReadPrevious, Goto
  <2>3. at[c] = 1 \/ pc[c] = "change"
    BY <1>placed, <2>1, SMT DEF Placed
  <2> QED
    BY <2>1, <2>2, <2>3, SMT
       DEF Track, Known, Here, Untouched, HalfChanged, Changed, Writing, OpIn, Site
<1>5. CASE Refuse(c)
  BY <1>5, <1>tracked, SMTT(30)
     DEF Refuse, Goto, Track, Known, Here, Untouched, HalfChanged, Changed, Writing, OpIn,
         Site, Busy, PCs, Quiet, Verdicts, Owns
<1>6. CASE Change(c)
  <2>1. Track(c) /\ pc[c] = "change"
    BY <1>6, <1>tracked DEF Change, Busy, PCs, Quiet, Verdicts
  <2>2. ChangedPart(c) \in {"file", "link"}
    BY DEF ChangedPart
  <2>3. /\ disk'[Site(c)].file = IF ChangedPart(c) = "file" THEN Wanted(c).file ELSE disk[Site(c)].file
        /\ disk'[Site(c)].link = IF ChangedPart(c) = "link" THEN Wanted(c).link ELSE disk[Site(c)].link
    BY <1>6, <2>2, ChangeEffect, PutFields
  <2>4. /\ pc'[c] = IF Long(c) /\ at[c] = 1 THEN "change" ELSE "test"
        /\ at'[c] = IF Long(c) /\ at[c] = 1 THEN 2 ELSE 1
        /\ job' = job /\ seen' = seen /\ origin' = origin
    BY <1>6, ChangeEffect DEF Goto
  <2>5. at[c] \in 1..2 /\ (at[c] = 2 => Long(c))
    BY <1>placed DEF Placed
  <2>6. job[c].op \in OpNames
    BY <1>typed
  <2> QED
    BY <2>1, <2>3, <2>4, <2>5, <2>6, <1>typed, SMTT(60)
       DEF ChangedPart, Wanted, Long, OpNames, Track, Known, Here, Untouched, HalfChanged, Changed, Writing, OpIn, Site
<1>7. CASE ChangeFails(c)
  BY <1>7, <1>tracked, SMTT(30)
     DEF ChangeFails, Goto, Track, Known, Here, Untouched, HalfChanged, Changed, Writing,
         OpIn, Site, Busy, PCs, Quiet, Verdicts, Owns, Placed, Long
<1>8. CASE Test(c)
  <2>1. Track(c) /\ pc[c] = "test"
    BY <1>8, <1>tracked DEF Test, Busy, PCs, Quiet, Verdicts
  <2>2. /\ pc'[c] \in {"reload"} /\ disk' = disk /\ origin' = origin
        /\ at' = at /\ job' = job /\ seen' = seen
    BY <1>8, SMT DEF Test, Goto
  <2>3. at[c] = 1 \/ pc[c] = "change"
    BY <1>placed, <2>1, SMT DEF Placed
  <2> QED
    BY <2>1, <2>2, <2>3, SMT
       DEF Track, Known, Here, Untouched, HalfChanged, Changed, Writing, OpIn, Site
<1>9. CASE Reload(c)
  <2>1. Track(c) /\ pc[c] = "reload"
    BY <1>9, <1>tracked DEF Reload, Busy, PCs, Quiet, Verdicts
  <2>2. /\ pc'[c] \in {"active"} /\ disk' = disk /\ origin' = origin
        /\ at' = at /\ job' = job /\ seen' = seen
    BY <1>9, SMT DEF Reload, Goto
  <2>3. at[c] = 1 \/ pc[c] = "change"
    BY <1>placed, <2>1, SMT DEF Placed
  <2> QED
    BY <2>1, <2>2, <2>3, SMT
       DEF Track, Known, Here, Untouched, HalfChanged, Changed, Writing, OpIn, Site
<1>10. CASE Active(c)
  <2>1. Track(c) /\ pc[c] = "active"
    BY <1>10, <1>tracked DEF Active, Busy, PCs, Quiet, Verdicts
  <2>2. /\ pc'[c] \in {"applied"} /\ disk' = disk /\ origin' = origin
        /\ at' = at /\ job' = job /\ seen' = seen
    BY <1>10, SMT DEF Active, Goto
  <2>3. at[c] = 1 \/ pc[c] = "change"
    BY <1>placed, <2>1, SMT DEF Placed
  <2> QED
    BY <2>1, <2>2, <2>3, SMT
       DEF Track, Known, Here, Untouched, HalfChanged, Changed, Writing, OpIn, Site
<1>11. CASE CheckFails(c)
  <2>1. Track(c) /\ pc[c] \in {"test", "reload", "active"}
    BY <1>11, <1>tracked DEF CheckFails, Busy, PCs, Quiet, Verdicts
  <2>2. /\ pc'[c] \in {"restore"} /\ disk' = disk /\ origin' = origin
        /\ at' = at /\ job' = job /\ seen' = seen
    BY <1>11, SMT DEF CheckFails, Goto
  <2>3. at[c] = 1 \/ pc[c] = "change"
    BY <1>placed, <2>1, SMT DEF Placed
  <2> QED
    BY <2>1, <2>2, <2>3, SMT
       DEF Track, Known, Here, Untouched, HalfChanged, Changed, Writing, OpIn, Site
<1>12. CASE Undo(c)
  <2>1. Track(c) /\ pc[c] = "applied"
    BY <1>12, <1>tracked DEF Undo, Busy, PCs, Quiet, Verdicts
  <2>2. /\ pc'[c] \in {"restore"} /\ disk' = disk /\ origin' = origin
        /\ at' = at /\ job' = job /\ seen' = seen
    BY <1>12, SMT DEF Undo, Goto
  <2>3. at[c] = 1 \/ pc[c] = "change"
    BY <1>placed, <2>1, SMT DEF Placed
  <2> QED
    BY <2>1, <2>2, <2>3, SMT
       DEF Track, Known, Here, Untouched, HalfChanged, Changed, Writing, OpIn, Site
<1>13. CASE Restore(c)
  <2>1. Track(c) /\ pc[c] = "restore"
    BY <1>13, <1>tracked DEF Restore, Busy, PCs, Quiet, Verdicts
  <2>2. RestoredPart(c) \in {"file", "link"}
    BY DEF RestoredPart
  <2>3. /\ disk'[Site(c)].file = IF RestoredPart(c) = "file" THEN seen[c].file ELSE disk[Site(c)].file
        /\ disk'[Site(c)].link = IF RestoredPart(c) = "link" THEN seen[c].link ELSE disk[Site(c)].link
    BY <1>13, <2>2, RestoreEffect, PutFields
  <2>4. /\ pc'[c] = IF Long(c) /\ at[c] = 1 THEN "restore" ELSE "retest"
        /\ at'[c] = IF Long(c) /\ at[c] = 1 THEN 2 ELSE 1
        /\ job' = job /\ seen' = seen /\ origin' = origin
    BY <1>13, RestoreEffect DEF Goto
  <2>5. at[c] \in 1..2 /\ (at[c] = 2 => Long(c))
    BY <1>placed DEF Placed
  <2>6. job[c].op \in OpNames
    BY <1>typed
  <2>7. seen[c].link \in BOOLEAN /\ origin[c].link \in BOOLEAN
    BY <1>typed
  <2> QED
    BY <2>1, <2>3, <2>4, <2>5, <2>6, <2>7, SMTT(60)
       DEF RestoredPart, Long, OpNames, Track, Known, Here, Untouched, HalfChanged, Changed, Writing, OpIn, Site
<1>14. CASE Retest(c)
  <2>1. Track(c) /\ pc[c] = "retest"
    BY <1>14, <1>tracked DEF Retest, Busy, PCs, Quiet, Verdicts
  <2>2. /\ pc'[c] \in {"rereload"} /\ disk' = disk /\ origin' = origin
        /\ at' = at /\ job' = job /\ seen' = seen
    BY <1>14, SMT DEF Retest, Goto
  <2>3. at[c] = 1 \/ pc[c] = "change"
    BY <1>placed, <2>1, SMT DEF Placed
  <2> QED
    BY <2>1, <2>2, <2>3, SMT
       DEF Track, Known, Here, Untouched, HalfChanged, Changed, Writing, OpIn, Site
<1>15. CASE Rereload(c)
  <2>1. Track(c) /\ pc[c] = "rereload"
    BY <1>15, <1>tracked DEF Rereload, Busy, PCs, Quiet, Verdicts
  <2>2. /\ pc'[c] \in {"reactive", "restored"} /\ disk' = disk /\ origin' = origin
        /\ at' = at /\ job' = job /\ seen' = seen
    BY <1>15, SMT DEF Rereload, Goto
  <2>3. at[c] = 1 \/ pc[c] = "change"
    BY <1>placed, <2>1, SMT DEF Placed
  <2> QED
    BY <2>1, <2>2, <2>3, SMT
       DEF Track, Known, Here, Untouched, HalfChanged, Changed, Writing, OpIn, Site
<1>16. CASE Reactive(c)
  BY <1>16, <1>tracked, SMTT(30)
     DEF Reactive, Goto, Track, Known, Here, Untouched, HalfChanged, Changed, Writing, OpIn,
         Site, Busy, PCs, Quiet, Verdicts, Owns
<1>17. CASE RestoreFails(c)
  BY <1>17, <1>tracked, SMTT(30)
     DEF RestoreFails, Goto, Load, Track, Known, Here, Untouched, HalfChanged, Changed,
         Writing, OpIn, Site, Busy, PCs, Quiet, Verdicts, Owns
<1>18. CASE Leave(c)
  BY <1>18, <1>tracked, SMTT(30)
     DEF Leave, Track, Known, Here, Untouched, HalfChanged, Changed, Writing, OpIn, Site,
         Busy, PCs, Quiet, Verdicts, Owns
<1>19. CASE Crash(c)
  BY <1>19, <1>tracked, SMTT(30)
     DEF Crash, Goto, Track, Known, Here, Untouched, HalfChanged, Changed, Writing, OpIn,
         Site, Busy, PCs, Quiet, Verdicts, Owns
<1> QED
  BY <1>1, <1>2, <1>3, <1>4, <1>5, <1>6, <1>7, <1>8, <1>9, <1>10, <1>11, <1>12, <1>13, <1>14, <1>15, <1>16, <1>17, <1>18, <1>19
     DEF Call

(***************************************************************************)
(* No file operation of a call or of its restore makes a link dangle: each *)
(* point of Track is free of one.                                          *)
(***************************************************************************)
LEMMA NoDanglingStep ==
  ASSUME DiskInv, NEW c \in Callers, Call(c) \/ Crash(c), Typed', Owns(c)' => Track(c)'
  PROVE  NoDanglingLink'
<1> SUFFICES ASSUME NEW s \in Sites, disk'[s].link PROVE disk'[s].file # Nothing
  BY DEF NoDanglingLink
<1>1. CASE disk'[s] = disk[s]
  BY <1>1 DEF DiskInv, NoDanglingLink
<1>2. CASE disk'[s] # disk[s]
  <2>1. s = Site(c)
    BY <1>2, Frame DEF DiskInv, Site
  <2>2. Change(c) \/ Restore(c)
    BY <1>2, Moves DEF DiskInv
  <2>3. /\ Owns(c)
        /\ job' = job /\ lock' = lock
        /\ pc'[c] \in {"change", "test", "restore", "retest"}
    <3>1. pc[c] \in Busy
      BY <2>2 DEF Change, Restore, Busy, PCs, Quiet, Verdicts
    <3>2. Owns(c)
      BY <3>1, Holds DEF DiskInv
    <3> QED
      BY <2>2, <3>2, ChangeEffect, RestoreEffect DEF DiskInv, Typed, TypeOK, Goto
  <2>4. Track(c)'
    BY <2>3 DEF Owns, Busy, PCs, Quiet, Verdicts
  <2>5. job[c].body # Nothing /\ job[c].op \in OpNames
    BY BodiesAssumption DEF DiskInv, Typed, TypeOK, Job
  <2> QED
    BY <2>1, <2>3, <2>4, <2>5
       DEF OpNames, Track, Known, Here, Untouched, HalfChanged, Changed, Writing, OpIn, Site
<1> QED
  BY <1>1, <1>2

(* Every step keeps the invariant of the disk.                             *)
LEMMA DiskStep ==
  ASSUME DiskInv, Apart, NEW c \in Callers, Call(c) \/ Crash(c)
  PROVE  DiskInv'
<1>1. Typed'
  BY TypedStep DEF DiskInv
<1>2. Holding'
  BY HoldingStep DEF DiskInv
<1>3. Owns(c)' => Track(c)'
  BY TrackSelf
<1>4. NoDanglingLink'
  BY <1>1, <1>3, NoDanglingStep
<1>5. ASSUME NEW d \in Callers, Owns(d)'
      PROVE  Track(d)'
  BY <1>3, <1>5, TrackOther
<1> QED
  BY <1>1, <1>2, <1>4, <1>5 DEF DiskInv

(* So does a step that changes nothing.                                    *)
LEMMA DiskStutter ==
  ASSUME DiskInv, UNCHANGED vars
  PROVE  DiskInv'
BY
   DEF vars, DiskInv, Typed, TypeOK, Placed, Long, OpIn, Holding, Owns, NoDanglingLink,
       Track, Known, Here, Untouched, HalfChanged, Changed, Writing, Site

(* The invariant holds at the start.                                       *)
LEMMA DiskInit == Init => DiskInv
<1> SUFFICES ASSUME Init PROVE DiskInv
  OBVIOUS
<1>1. Typed
  BY TypedInit
<1>2. \A c \in Callers : pc[c] = "idle"
  BY DEF Init
<1>3. Holding /\ \A c \in Callers : ~Owns(c)
  BY <1>2, CallersAssumption DEF Holding, Owns, Busy, Quiet, Verdicts, PCs
<1>4. NoDanglingLink
  BY BodiesAssumption DEF Init, NoDanglingLink, NoVHost
<1> QED
  BY <1>1, <1>3, <1>4 DEF DiskInv

(***************************************************************************)
(* Every reachable state is in its type, whoever overlaps with whom; in    *)
(* particular the index of the changes and of the restores of apply,       *)
(* ApplyVHost and RemoveVHost (apache.go) never passes their end.          *)
(***************************************************************************)
THEOREM TypeCorrect == Spec => []TypeOK
<1>1. Init => Typed
  BY TypedInit
<1>2. Typed /\ [Next]_vars => Typed'
  <2> SUFFICES ASSUME Typed, [Next]_vars PROVE Typed'
    OBVIOUS
  <2>1. CASE Next
    BY <2>1, TypedStep DEF Next
  <2>2. CASE UNCHANGED vars
    BY <2>2 DEF vars, Typed, TypeOK, Placed, Long, OpIn
  <2> QED
    BY <2>1, <2>2
<1>3. Typed => TypeOK
  BY DEF Typed
<1> QED
  BY <1>1, <1>2, <1>3, PTL DEF Spec

(* The invariant of the disk, which the theorems below share.              *)
THEOREM DiskInductive == ASSUME Apart PROVE Spec => []DiskInv
<1>1. Init => DiskInv
  BY DiskInit
<1>2. DiskInv /\ [Next]_vars => DiskInv'
  <2> SUFFICES ASSUME DiskInv, [Next]_vars PROVE DiskInv'
    OBVIOUS
  <2>1. CASE Next
    BY <2>1, DiskStep DEF Next
  <2>2. CASE UNCHANGED vars
    BY <2>2, DiskStutter
  <2> QED
    BY <2>1, <2>2
<1> QED
  BY <1>1, <1>2, PTL DEF Spec

(***************************************************************************)
(* sites-enabled never holds a link to a missing file, between any two     *)
(* file operations of apply, RemoveVHost and their restores, and after any *)
(* crash.                                                                  *)
(***************************************************************************)
THEOREM LinksNeverDangle == ASSUME Apart PROVE Spec => []NoDanglingLink
<1>1. DiskInv => NoDanglingLink
  BY DEF DiskInv
<1> QED
  BY <1>1, DiskInductive, PTL

(***************************************************************************)
(* A call returns a refusal or a finished restore only from these points,  *)
(* without touching the disk.                                              *)
(***************************************************************************)
LEMMA ReturnsFrom ==
  ASSUME Typed, NEW c \in Callers, Call(c) \/ Crash(c),
         pc[c] \notin Quiet, pc'[c] \in {"refused", "restored"}
  PROVE  /\ \/ pc[c] \in {"inspect", "baseline", "read", "rereload", "reactive"}
            \/ pc[c] = "change" /\ at[c] = 1
         /\ disk' = disk
<1> USE DEF Typed, TypeOK, Quiet, Verdicts
<1>1. CASE Begin(c)
  BY <1>1, SMTT(30) DEF Begin, Goto, Site
<1>2. CASE Inspect(c)
  BY <1>2, SMTT(30) DEF Inspect, Goto, Site, Exists
<1>3. CASE Baseline(c)
  BY <1>3, SMTT(30) DEF Baseline, Goto
<1>4. CASE ReadPrevious(c)
  BY <1>4, SMTT(30) DEF ReadPrevious, Goto, Site
<1>5. CASE Refuse(c)
  BY <1>5, SMTT(30) DEF Refuse, Goto
<1>6. CASE Change(c)
  BY <1>6, ChangeEffect, SMTT(30) DEF Goto
<1>7. CASE ChangeFails(c)
  BY <1>7, SMTT(30) DEF ChangeFails, Goto, Placed, Long, OpIn
<1>8. CASE Test(c)
  BY <1>8, SMTT(30) DEF Test, Goto
<1>9. CASE Reload(c)
  BY <1>9, SMTT(30) DEF Reload, Goto, Load
<1>10. CASE Active(c)
  BY <1>10, SMTT(30) DEF Active, Goto
<1>11. CASE CheckFails(c)
  BY <1>11, SMTT(30) DEF CheckFails, Goto, Load
<1>12. CASE Undo(c)
  BY <1>12, SMTT(30) DEF Undo, Goto
<1>13. CASE Restore(c)
  BY <1>13, RestoreEffect, SMTT(30) DEF Goto
<1>14. CASE Retest(c)
  BY <1>14, SMTT(30) DEF Retest, Goto
<1>15. CASE Rereload(c)
  BY <1>15, SMTT(30) DEF Rereload, Goto, Load
<1>16. CASE Reactive(c)
  BY <1>16, SMTT(30) DEF Reactive, Goto
<1>17. CASE RestoreFails(c)
  BY <1>17, SMTT(30) DEF RestoreFails, Goto, Load
<1>18. CASE Leave(c)
  BY <1>18, SMTT(30) DEF Leave
<1>19. CASE Crash(c)
  BY <1>19, SMTT(30) DEF Crash, Goto
<1> QED
  BY <1>1, <1>2, <1>3, <1>4, <1>5, <1>6, <1>7, <1>8, <1>9, <1>10, <1>11, <1>12, <1>13, <1>14, <1>15, <1>16, <1>17, <1>18, <1>19
     DEF Call

(* At those points the disk is as the call found it.                       *)
LEMMA ReturnRestores ==
  ASSUME DiskInv, NEW c \in Callers, Call(c) \/ Crash(c),
         pc[c] \notin Quiet, pc'[c] \in {"refused", "restored"}
  PROVE  disk'[Site(c)] = origin[c]
<1>1. /\ pc[c] \in {"inspect", "baseline", "read", "rereload", "reactive"} \/ (pc[c] = "change" /\ at[c] = 1)
      /\ disk' = disk
  BY ReturnsFrom DEF DiskInv
<1>2. Untouched(c)
  <2>1. pc[c] \in Busy
    BY DEF DiskInv, Typed, TypeOK, Busy
  <2>2. Track(c)
    BY <2>1, Holds DEF DiskInv
  <2> QED
    BY <2>2, <1>1 DEF Track
<1>3. Site(c) \in Sites /\ origin[c] \in DiskState /\ disk[Site(c)] \in DiskState
  BY DEF DiskInv, Typed, TypeOK, Site, Job
<1> QED
  BY <1>1, <1>2, <1>3 DEF Untouched, Here, DiskState

(***************************************************************************)
(* A call that returns an error without one of its restore, an Undo that   *)
(* returns nil, and a refused call leave file and link exactly as the call *)
(* found them.                                                             *)
(***************************************************************************)
THEOREM FailuresRestore == ASSUME Apart PROVE Spec => FailureRestoresDisk
<1>1. DiskInv /\ [Next]_vars =>
        [\A c \in Callers : pc[c] \notin Quiet /\ pc'[c] \in {"refused", "restored"}
           => disk'[Site(c)] = origin[c]]_vars
  <2> SUFFICES ASSUME DiskInv, Next, NEW c \in Callers,
                      pc[c] \notin Quiet, pc'[c] \in {"refused", "restored"}
               PROVE  disk'[Site(c)] = origin[c]
    OBVIOUS
  <2>1. PICK d \in Callers : Call(d) \/ Crash(d)
    BY DEF Next
  <2>2. d = c
    BY <2>1, Frame DEF DiskInv, Quiet, Verdicts
  <2> QED
    BY <2>1, <2>2, ReturnRestores
<1> QED
  BY <1>1, DiskInductive, PTL DEF Spec, FailureRestoresDisk

-----------------------------------------------------------------------------
(***************************************************************************)
(* How a call that has written goes on, and what a step does to the        *)
(* server.                                                                 *)
(***************************************************************************)
LEMMA Course ==
  ASSUME Typed, NEW c \in Callers, Call(c) \/ Crash(c)
  PROVE  /\ pc[c] \in {"broken", "crashed"} => pc'[c] = pc[c]
         /\ Trying(c) =>
              \/ pc'[c] \in {"test", "reload", "active", "restore", "broken", "crashed"}
              \/ Active(c)
              \/ pc[c] = "restore" /\ Restore(c)
         /\ Trying(c) \/ Repairing(c) =>
              Trying(c)' \/ Repairing(c)' \/ pc'[c] \in {"broken", "crashed"} \/ up
         /\ UNCHANGED <<running, up>> \/ (Load /\ disk' = disk)
         /\ pc'[c] \in {"active", "reactive"} => Reload(c) \/ Rereload(c)
         /\ pc'[c] # pc[c] /\ pc'[c] \in {"applied", "restored"} => Active(c) \/ Reactive(c) \/ Rereload(c)
<1> USE DEF Typed, TypeOK, Trying, Repairing
<1>1. CASE Begin(c)
  BY <1>1, SMTT(30) DEF Begin, Goto, Site
<1>2. CASE Inspect(c)
  BY <1>2, SMTT(30) DEF Inspect, Goto, Site, Exists
<1>3. CASE Baseline(c)
  BY <1>3, SMTT(30) DEF Baseline, Goto
<1>4. CASE ReadPrevious(c)
  BY <1>4, SMTT(30) DEF ReadPrevious, Goto, Site
<1>5. CASE Refuse(c)
  BY <1>5, SMTT(30) DEF Refuse, Goto
<1>6. CASE Change(c)
  BY <1>6, ChangeEffect, SMTT(30) DEF Goto
<1>7. CASE ChangeFails(c)
  BY <1>7, SMTT(30) DEF ChangeFails, Goto, Placed, Long, OpIn
<1>8. CASE Test(c)
  BY <1>8, SMTT(30) DEF Test, Goto
<1>9. CASE Reload(c)
  BY <1>9, SMTT(30) DEF Reload, Goto
<1>10. CASE Active(c)
  BY <1>10, SMTT(30) DEF Active, Goto
<1>11. CASE CheckFails(c)
  BY <1>11, SMTT(30) DEF CheckFails, Goto
<1>12. CASE Undo(c)
  BY <1>12, SMTT(30) DEF Undo, Goto
<1>13. CASE Restore(c)
  BY <1>13, RestoreEffect, SMTT(30) DEF Goto
<1>14. CASE Retest(c)
  BY <1>14, SMTT(30) DEF Retest, Goto
<1>15. CASE Rereload(c)
  <2>1. up
    BY <1>15 DEF Rereload, Load
  <2> QED
    BY <1>15, <2>1 DEF Rereload, Goto
<1>16. CASE Reactive(c)
  BY <1>16, SMTT(30) DEF Reactive, Goto
<1>17. CASE RestoreFails(c)
  BY <1>17, SMTT(30) DEF RestoreFails, Goto
<1>18. CASE Leave(c)
  BY <1>18, SMTT(30) DEF Leave, Verdicts
<1>19. CASE Crash(c)
  BY <1>19, SMTT(30) DEF Crash, Goto, Quiet, Verdicts
<1> QED
  BY <1>1, <1>2, <1>3, <1>4, <1>5, <1>6, <1>7, <1>8, <1>9, <1>10, <1>11, <1>12, <1>13, <1>14, <1>15, <1>16, <1>17, <1>18, <1>19
     DEF Call

(* A reload leaves the server up exactly if every enabled site is sound.   *)
LEMMA LoadedSound ==
  ASSUME Typed, Load
  PROVE  /\ up' => \A s \in Sites : Sound(disk[s])
         /\ ~up' => \E s \in Sites : ~Sound(disk[s])
<1>1. up' <=> \A s \in Sites : running'[s] \notin Fatal
  BY DEF Load
<1>2. \A s \in Sites : running'[s] = IF disk[s].link THEN disk[s].file ELSE Nothing
  BY DEF Load, Effective
<1>3. \A s \in Sites : disk[s].link => disk[s].file \in Valid
  BY DEF Load, ConfigOK
<1>4. Nothing \notin Fatal
  BY BodiesAssumption
<1> QED
  BY <1>1, <1>2, <1>3, <1>4, Zenon DEF Sound

(* Nothing repairs what a crash or a failed restore has left.              *)
LEMMA SpoiledStep ==
  ASSUME Typed, NEW c \in Callers, Call(c) \/ Crash(c), Spoiled
  PROVE  Spoiled'
BY Frame, Course DEF Spoiled

(***************************************************************************)
(* A call begins on a sound site: a caller that could have left it unsound *)
(* would still own it.                                                     *)
(***************************************************************************)
LEMMA OriginsSoundStep ==
  ASSUME DiskInv, Apart, SitesSound, OriginsSound, NEW c \in Callers, Call(c) \/ Crash(c)
  PROVE  OriginsSound'
<1> SUFFICES ASSUME NEW d \in Callers, Owns(d)' PROVE Sound(origin'[d])
  BY DEF OriginsSound, Sound
<1>1. CASE d # c
  BY <1>1, Bystander, Frame DEF DiskInv, OriginsSound
<1>2. CASE d = c /\ ~Begin(c)
  <2>1. Owns(c)
    BY <1>2, Moves, Holds DEF DiskInv, Undo, Leave, Owns, Busy
  <2> QED
    BY <2>1, <1>2, Moves DEF DiskInv, OriginsSound
<1>3. CASE d = c /\ Begin(c)
  <2>1. origin'[c] = disk[Site(c)] /\ Site(c) \in Sites
    BY <1>3 DEF Begin, DiskInv, Typed, TypeOK, Site, Job
  <2>2. SUFFICES ASSUME NEW e \in Callers, Site(e) = Site(c), Trying(e)
                 PROVE  FALSE
    BY <2>1, <1>3 DEF SitesSound
  <2>3. pc[e] \in Busy
    BY <2>2 DEF Trying, Busy, PCs, Quiet, Verdicts
  <2>4. Owns(e) /\ e # c
    BY <2>3, <1>3, Holds DEF DiskInv, Begin, Busy, Quiet
  <2>5. CASE c \in Locked /\ e \in Locked
    BY <2>4, <2>5, <1>3, CallersAssumption DEF Begin, Owns
  <2>6. CASE ~(c \in Locked /\ e \in Locked)
    BY <2>2, <2>4, <2>6, Exclusive DEF DiskInv
  <2> QED
    BY <2>5, <2>6
<1> QED
  BY <1>1, <1>2, <1>3

(* A call that has reloaded with success has a sound site.                 *)
LEMMA ActiveSoundStep ==
  ASSUME DiskInv, DiskInv', Apart, ActiveSound, NEW c \in Callers, Call(c) \/ Crash(c)
  PROVE  ActiveSound'
<1> SUFFICES ASSUME NEW d \in Callers, pc'[d] = "active", up'
             PROVE  Sound(disk'[Site(d)'])
  BY DEF ActiveSound
<1>1. Site(d)' = Site(d) /\ Site(d) \in Sites
  BY Frame DEF Site, DiskInv, Typed, TypeOK, Job
<1>2. CASE d # c
  <2>1. pc[d] = "active" /\ up
    BY <1>2, Frame, Course DEF DiskInv, Load
  <2>2. Owns(d)'
    <3>1. pc'[d] \in Busy
      BY DEF Busy, PCs, Quiet, Verdicts
    <3> QED
      BY <3>1 DEF DiskInv, Holding, Owns
  <2>3. disk'[Site(d)] = disk[Site(d)]
    BY <1>2, <2>2, Bystander
  <2> QED
    BY <1>1, <2>1, <2>3 DEF ActiveSound
<1>3. CASE d = c
  <2>1. Load /\ disk' = disk
    BY <1>3, Course DEF DiskInv, Reload, Rereload
  <2> QED
    BY <1>1, <1>3, <2>1, LoadedSound DEF DiskInv
<1> QED
  BY <1>2, <1>3

(***************************************************************************)
(* A site becomes unsound only under a call that then tests it, and that   *)
(* call leaves only after putting it back.                                 *)
(***************************************************************************)
LEMMA SitesSoundStep ==
  ASSUME DiskInv, DiskInv', SitesSound, OriginsSound, OriginsSound', ActiveSound,
         NEW c \in Callers, Call(c) \/ Crash(c), ~Spoiled'
  PROVE  SitesSound'
<1> SUFFICES ASSUME NEW s \in Sites, ~Sound(disk'[s])
             PROVE  \E d \in Callers : Site(d)' = s /\ Trying(d)'
  BY DEF SitesSound, Sound
<1>1. \A d \in Callers : Site(d)' = Site(d)
  BY Frame DEF Site, DiskInv
<1>2. Change(c) \/ Restore(c) => Trying(c)' \/ (Track(c)' /\ pc'[c] \in {"change", "retest"} /\ Owns(c)')
  <2> SUFFICES ASSUME Change(c) \/ Restore(c)
               PROVE  Trying(c)' \/ (Track(c)' /\ pc'[c] \in {"change", "retest"} /\ Owns(c)')
    OBVIOUS
  <2>1. pc'[c] \in {"change", "test", "restore", "retest"}
    BY ChangeEffect, RestoreEffect DEF DiskInv, Typed, TypeOK, Goto
  <2>2. pc'[c] \in Busy
    BY <2>1 DEF Busy, PCs, Quiet, Verdicts
  <2> QED
    BY <2>1, <2>2 DEF DiskInv, Holding, Owns, Trying
<1>3. Track(c)' /\ Owns(c)' /\ (pc'[c] = "retest" \/ (Change(c) /\ pc'[c] = "change")) => Sound(disk'[Site(c)])
  <2> SUFFICES ASSUME Track(c)', Owns(c)', pc'[c] = "retest" \/ (Change(c) /\ pc'[c] = "change")
               PROVE  Sound(disk'[Site(c)])
    OBVIOUS
  <2>1. Sound(origin'[c])
    BY DEF OriginsSound
  <2>2. CASE pc'[c] = "retest"
    BY <2>1, <2>2, <1>1 DEF Track, Untouched, Here, Sound
  <2>3. CASE Change(c) /\ pc'[c] = "change"
    <3>1. Long(c) /\ at'[c] = 2 /\ job' = job
      BY <2>3, ChangeEffect DEF DiskInv, Typed, TypeOK, Goto
    <3>2. HalfChanged(c)' /\ Known(c)'
      BY <2>3, <3>1 DEF Track
    <3> QED
      BY <3>1, <3>2, <1>1 DEF HalfChanged, Known, Here, Long, OpIn, Sound
  <2> QED
    BY <2>2, <2>3
<1>4. CASE Change(c) \/ Restore(c)
  <2>1. CASE s = Site(c)
    BY <2>1, <1>1, <1>2, <1>3, <1>4, RestoreEffect DEF DiskInv, Typed, TypeOK, Goto
  <2>2. CASE s # Site(c)
    <3>1. disk'[s] = disk[s]
      BY <2>2, Frame DEF DiskInv, Site
    <3>2. PICK d \in Callers : Site(d) = s /\ Trying(d)
      BY <3>1 DEF SitesSound
    <3> QED
      BY <3>2, <2>2, <1>1, Frame DEF DiskInv, Trying
  <2> QED
    BY <2>1, <2>2
<1>5. CASE ~(Change(c) \/ Restore(c))
  <2>1. disk' = disk
    BY <1>5, Moves DEF DiskInv
  <2>2. PICK d \in Callers : Site(d) = s /\ Trying(d)
    BY <2>1 DEF SitesSound
  <2>3. CASE d # c
    BY <2>2, <2>3, <1>1, Frame DEF DiskInv, Trying
  <2>4. CASE d = c
    <3>1. ~Active(c)
      BY <2>1, <2>2, <2>4 DEF Active, ActiveSound
    <3>2. pc'[c] \notin {"broken", "crashed"}
      BY DEF Spoiled
    <3> QED
      BY <2>2, <2>4, <3>1, <3>2, <1>1, <1>5, Course DEF DiskInv, Trying
  <2> QED
    BY <2>3, <2>4
<1> QED
  BY <1>4, <1>5

(***************************************************************************)
(* The server goes down only while a call is at work, and no call returns  *)
(* nil from a server that is down.                                         *)
(***************************************************************************)
LEMMA DownIsNoticedStep ==
  ASSUME DiskInv, SitesSound, SitesSound', DownIsNoticed, NEW c \in Callers, Call(c) \/ Crash(c), ~Spoiled'
  PROVE  DownIsNoticed'
<1> SUFFICES ASSUME ~up' PROVE \E d \in Callers : Trying(d)' \/ Repairing(d)'
  BY DEF DownIsNoticed
<1>1. CASE up
  <2>1. Load /\ disk' = disk
    BY <1>1, Course DEF DiskInv
  <2>2. PICK s \in Sites : ~Sound(disk[s])
    BY <2>1, LoadedSound DEF DiskInv
  <2> QED
    BY <2>1, <2>2 DEF SitesSound
<1>2. CASE ~up
  <2>1. PICK d \in Callers : Trying(d) \/ Repairing(d)
    BY <1>2 DEF DownIsNoticed
  <2>2. CASE d # c
    BY <2>1, <2>2, Frame DEF DiskInv, Trying, Repairing
  <2>3. CASE d = c
    BY <2>1, <2>3, <1>2, Course DEF DiskInv, Spoiled
  <2> QED
    BY <2>2, <2>3
<1> QED
  BY <1>1, <1>2

(* The parts together.                                                     *)
LEMMA SoundStep ==
  ASSUME DiskInv, DiskInv', Apart, SoundInv, NEW c \in Callers, Call(c) \/ Crash(c)
  PROVE  SoundInv'
<1>1. CASE Spoiled \/ Spoiled'
  BY <1>1, SpoiledStep DEF SoundInv, DiskInv
<1>2. CASE ~Spoiled /\ ~Spoiled'
  <2>1. SitesSound /\ OriginsSound /\ ActiveSound /\ DownIsNoticed
    BY <1>2 DEF SoundInv
  <2>2. OriginsSound'
    BY <2>1, OriginsSoundStep
  <2>3. ActiveSound'
    BY <2>1, ActiveSoundStep
  <2>4. SitesSound'
    BY <1>2, <2>1, <2>2, SitesSoundStep
  <2>5. DownIsNoticed'
    BY <1>2, <2>1, <2>4, DownIsNoticedStep
  <2> QED
    BY <2>2, <2>3, <2>4, <2>5 DEF SoundInv
<1> QED
  BY <1>1, <1>2

(* The server starts up, with sound sites.                                 *)
LEMMA SoundInit == Init => SoundInv
<1> SUFFICES ASSUME Init PROVE SoundInv
  OBVIOUS
<1>1. \A s \in Sites : Sound(disk[s])
  BY BodiesAssumption DEF Init, Sound, NoVHost
<1>2. \A c \in Callers : pc[c] = "idle" /\ ~Owns(c)
  BY DEF Init, Owns, Busy, PCs, Quiet
<1>3. up
  BY DEF Init
<1> QED
  BY <1>1, <1>2, <1>3 DEF SoundInv, SitesSound, OriginsSound, ActiveSound, DownIsNoticed

(***************************************************************************)
(* When every call has returned and none has crashed or failed to restore, *)
(* the configuration on disk passes configtest and the server is up,       *)
(* whatever was written.                                                   *)
(***************************************************************************)
THEOREM SettledServers == ASSUME Apart PROVE Spec => []SettledServerIsSound
<1>1. Init => DiskInv /\ SoundInv
  BY DiskInit, SoundInit
<1>2. DiskInv /\ SoundInv /\ [Next]_vars => (DiskInv /\ SoundInv)'
  <2> SUFFICES ASSUME DiskInv, SoundInv, [Next]_vars PROVE DiskInv' /\ SoundInv'
    OBVIOUS
  <2>1. CASE Next
    BY <2>1, DiskStep, SoundStep DEF Next
  <2>2. CASE UNCHANGED vars
    <3>1. DiskInv'
      BY <2>2, DiskStutter
    <3>2. SoundInv'
      BY <2>2
         DEF vars, SoundInv, Spoiled, SitesSound, OriginsSound, ActiveSound, DownIsNoticed,
             Trying, Repairing, Owns, Sound, Site
    <3> QED
      BY <3>1, <3>2
  <2> QED
    BY <2>1, <2>2
<1>3. DiskInv /\ SoundInv => SettledServerIsSound
  <2> SUFFICES ASSUME DiskInv, SoundInv, \A c \in Callers : pc[c] \in (Verdicts \ {"broken"}) \cup {"idle"}
               PROVE  ConfigOK /\ up
    BY DEF SettledServerIsSound
  <2>1. \A c \in Callers : ~Trying(c) /\ ~Repairing(c) /\ pc[c] \notin {"broken", "crashed"}
    BY DEF Verdicts, Trying, Repairing
  <2>2. SitesSound /\ DownIsNoticed
    BY <2>1 DEF SoundInv, Spoiled
  <2> QED
    BY <2>1, <2>2 DEF SitesSound, DownIsNoticed, Sound, ConfigOK
<1> QED
  BY <1>1, <1>2, <1>3, PTL DEF Spec

-----------------------------------------------------------------------------
(* After a reload the server runs what is on disk.                         *)
LEMMA Loaded ==
  ASSUME Typed, Load, disk' = disk, NEW s \in Sites
  PROVE  running'[s] = Effective(disk')[s]
BY DEF Load

(***************************************************************************)
(* What a call has reloaded stays live while it checks the server: no      *)
(* other caller writes the site, and a reload by another loads the same.   *)
(***************************************************************************)
LEMMA LiveStep ==
  ASSUME DiskInv, DiskInv', Apart, LiveInv, NEW c \in Callers, Call(c) \/ Crash(c)
  PROVE  LiveInv'
<1> SUFFICES ASSUME NEW d \in Callers, pc'[d] \in {"active", "reactive"}
             PROVE  running'[Site(d)'] = Effective(disk')[Site(d)']
  BY DEF LiveInv
<1>1. Site(d)' = Site(d) /\ Site(d) \in Sites
  BY Frame DEF Site, DiskInv, Typed, TypeOK, Job
<1>2. CASE Load /\ disk' = disk
  BY <1>1, <1>2, Loaded DEF DiskInv
<1>3. CASE UNCHANGED <<running, up>> /\ d # c
  <2>1. pc[d] = pc'[d]
    BY <1>3, Frame DEF DiskInv
  <2>2. Owns(d)'
    BY DEF DiskInv, Holding, Owns, Busy, PCs, Quiet, Verdicts
  <2>3. disk'[Site(d)] = disk[Site(d)]
    BY <1>3, <2>2, Bystander
  <2> QED
    BY <1>1, <1>3, <2>1, <2>3 DEF LiveInv, Effective
<1>4. CASE d = c
  <2>1. Load /\ disk' = disk
    BY <1>4, Course DEF DiskInv, Reload, Rereload
  <2> QED
    BY <2>1, <1>2
<1> QED
  BY <1>2, <1>3, <1>4, Course DEF DiskInv

(***************************************************************************)
(* A call that returns nil, and a restore that returns nil, has its site   *)
(* live: the server runs what is on disk.                                  *)
(***************************************************************************)
THEOREM ReturnedSitesAreLive == ASSUME Apart PROVE Spec => ReturnedSiteIsLive
<1>1. Init => DiskInv /\ LiveInv
  BY DiskInit DEF Init, LiveInv
<1>2. DiskInv /\ LiveInv /\ [Next]_vars => (DiskInv /\ LiveInv)'
  <2> SUFFICES ASSUME DiskInv, LiveInv, [Next]_vars PROVE DiskInv' /\ LiveInv'
    OBVIOUS
  <2>1. CASE Next
    BY <2>1, DiskStep, LiveStep DEF Next
  <2>2. CASE UNCHANGED vars
    BY <2>2, DiskStutter DEF vars, LiveInv, Effective, Site
  <2> QED
    BY <2>1, <2>2
<1>3. DiskInv /\ LiveInv /\ [Next]_vars =>
        [\A c \in Callers : pc[c] # pc'[c] /\ pc'[c] \in {"applied", "restored"}
           => running'[Site(c)] = Effective(disk')[Site(c)]]_vars
  <2> SUFFICES ASSUME DiskInv, LiveInv, Next, NEW c \in Callers,
                      pc[c] # pc'[c], pc'[c] \in {"applied", "restored"}
               PROVE  running'[Site(c)] = Effective(disk')[Site(c)]
    OBVIOUS
  <2>1. Call(c) \/ Crash(c)
    BY Frame DEF Next, DiskInv
  <2>2. Site(c) \in Sites
    BY DEF DiskInv, Typed, TypeOK, Site, Job
  <2>3. CASE Active(c) \/ Reactive(c)
    BY <2>3 DEF Active, Reactive, LiveInv
  <2>4. CASE Rereload(c)
    BY <2>2, <2>4, Loaded DEF Rereload, DiskInv
  <2> QED
    BY <2>1, <2>3, <2>4, Course DEF DiskInv
<1> QED
  BY <1>1, <1>2, <1>3, PTL DEF Spec, ReturnedSiteIsLive

-----------------------------------------------------------------------------
(***************************************************************************)
(* A step of one caller neither gives nor takes from another the right to  *)
(* write.                                                                  *)
(***************************************************************************)
LEMMA OwnersStay ==
  ASSUME DiskInv, NEW c \in Callers, Call(c) \/ Crash(c), NEW d \in Callers \ {c}
  PROVE  Owns(d)' <=> Owns(d)
<1>1. ASSUME Owns(d), d \in Locked PROVE lock' = d
  <2> USE DEF DiskInv, Typed, TypeOK, Owns
  <2>1. CASE Begin(c)
    BY <2>1, <1>1, CallersAssumption, SMTT(30) DEF Begin, Goto, Site
  <2>2. CASE Inspect(c)
    BY <2>2, <1>1, CallersAssumption, SMTT(30) DEF Inspect, Goto, Site, Exists
  <2>3. CASE Baseline(c)
    BY <2>3, <1>1, CallersAssumption, SMTT(30) DEF Baseline, Goto
  <2>4. CASE ReadPrevious(c)
    BY <2>4, <1>1, CallersAssumption, SMTT(30) DEF ReadPrevious, Goto, Site
  <2>5. CASE Refuse(c)
    BY <2>5, <1>1, CallersAssumption, SMTT(30) DEF Refuse, Goto
  <2>6. CASE Change(c)
    BY <2>6, <1>1, ChangeEffect
  <2>7. CASE ChangeFails(c)
    BY <2>7, <1>1, CallersAssumption, SMTT(30) DEF ChangeFails, Goto
  <2>8. CASE Test(c)
    BY <2>8, <1>1, CallersAssumption, SMTT(30) DEF Test, Goto
  <2>9. CASE Reload(c)
    BY <2>9, <1>1, CallersAssumption, SMTT(30) DEF Reload, Goto, Load
  <2>10. CASE Active(c)
    BY <2>10, <1>1, CallersAssumption, SMTT(30) DEF Active, Goto
  <2>11. CASE CheckFails(c)
    BY <2>11, <1>1, CallersAssumption, SMTT(30) DEF CheckFails, Goto, Load
  <2>12. CASE Undo(c)
    BY <2>12, <1>1, CallersAssumption, SMTT(30) DEF Undo, Goto
  <2>13. CASE Restore(c)
    BY <2>13, <1>1, RestoreEffect
  <2>14. CASE Retest(c)
    BY <2>14, <1>1, CallersAssumption, SMTT(30) DEF Retest, Goto
  <2>15. CASE Rereload(c)
    BY <2>15, <1>1, CallersAssumption, SMTT(30) DEF Rereload, Goto, Load
  <2>16. CASE Reactive(c)
    BY <2>16, <1>1, CallersAssumption, SMTT(30) DEF Reactive, Goto
  <2>17. CASE RestoreFails(c)
    BY <2>17, <1>1, CallersAssumption, SMTT(30) DEF RestoreFails, Goto, Load
  <2>18. CASE Leave(c)
    BY <2>18, <1>1, CallersAssumption, SMTT(30) DEF Leave
  <2>19. CASE Crash(c)
    BY <2>19, <1>1, CallersAssumption, SMTT(30) DEF Crash, Goto
  <2> QED
    BY <2>1, <2>2, <2>3, <2>4, <2>5, <2>6, <2>7, <2>8, <2>9, <2>10, <2>11, <2>12, <2>13, <2>14, <2>15, <2>16, <2>17, <2>18, <2>19
       DEF Call
<1>2. Owns(d)' => Owns(d)
  BY Moves, Frame, CallersAssumption DEF Owns, DiskInv
<1>3. Owns(d) => Owns(d)'
  BY <1>1, Frame DEF Owns, DiskInv, Busy, PCs, Quiet, Verdicts
<1> QED
  BY <1>2, <1>3

(***************************************************************************)
(* A call that gives up its site has put back what it found, or has ended  *)
(* for good.                                                               *)
(***************************************************************************)
LEMMA OwnerEnds ==
  ASSUME DiskInv, NEW c \in Callers, Call(c) \/ Crash(c), Owns(c), ~Owns(c)'
  PROVE  \/ Final(c)'
         \/ pc'[c] \in {"refused", "restored"} /\ disk'[Site(c)] = origin[c]
<1>1. pc[c] \in Busy \cup {"applied"}
  BY DEF Owns
<1>2. CASE Leave(c)
  BY <1>1, <1>2 DEF Leave, Final, Busy, Quiet, Verdicts
<1>3. CASE ~Leave(c)
  <2>1. lock' = lock \/ Crash(c)
    BY <1>1, <1>3, Moves DEF DiskInv, Begin, Busy, Quiet
  <2>2. CASE Crash(c)
    BY <2>2 DEF Crash, Goto, DiskInv, Typed, TypeOK, Final
  <2>3. CASE lock' = lock
    <3>1. pc'[c] \notin Busy \cup {"applied"} /\ pc'[c] \in PCs
      BY <2>3, TypedStep DEF Owns, DiskInv, Typed, TypeOK, Busy, Verdicts, Quiet
    <3>2. pc'[c] \in {"refused", "restored", "broken", "abandoned", "crashed", "idle"}
      BY <3>1 DEF Busy, PCs, Quiet, Verdicts
    <3>3. pc'[c] # "idle"
      BY <1>1, Moves DEF DiskInv, Busy, Quiet
    <3>4. CASE pc'[c] \in {"refused", "restored"}
      <4>1. pc[c] # "applied"
        BY <3>4, <1>3, Moves DEF DiskInv, Undo, Goto, Typed, TypeOK
      <4>2. pc[c] \notin Quiet
        BY <4>1, <1>1 DEF Busy
      <4> QED
        BY <3>4, <4>2, ReturnRestores
    <3> QED
      BY <3>2, <3>3, <3>4 DEF Final
  <2> QED
    BY <2>1, <2>2, <2>3
<1> QED
  BY <1>2, <1>3

(* A step of another caller does not lose a write that has returned nil.   *)
LEMMA KeptByOther ==
  ASSUME DiskInv, DiskInv', Apart, NEW c \in Callers, Call(c) \/ Crash(c),
         NEW e \in Callers \ {c}, Kept(e)
  PROVE  Kept(e)'
<1>1. job' = job /\ (\A d \in Callers : Site(d)' = Site(d)) /\ Site(e) \in Sites
  BY Frame DEF DiskInv, Site, Typed, TypeOK, Job
<1>2. CASE \E d \in Callers \ {e} : Site(d) = Site(e) /\ Final(d)
  <2>1. PICK d \in Callers \ {e} : Site(d) = Site(e) /\ Final(d)
    BY <1>2
  <2>2. CASE d # c
    BY <2>1, <2>2, <1>1, OwnersStay, Frame DEF Final, DiskInv, Kept
  <2>3. CASE d = c
    <3>1. Leave(c)
      BY <2>1, <2>3, Moves DEF Final, DiskInv, Owns, Undo, Begin, Busy, Quiet, Verdicts
    <3>2. pc' = pc /\ ~Owns(c)'
      BY <2>1, <2>3, <3>1, CallersAssumption DEF Leave, Final, Owns, DiskInv, Typed, TypeOK
    <3> QED
      BY <2>1, <2>3, <3>2, <1>1 DEF Final, Kept
  <2> QED
    BY <2>2, <2>3
<1>3. CASE \E d \in Callers \ {e} : Site(d) = Site(e) /\ Owns(d) /\ origin[d].file = job[e].body
  <2>1. PICK d \in Callers \ {e} : Site(d) = Site(e) /\ Owns(d) /\ origin[d].file = job[e].body
    BY <1>3
  <2>2. CASE d # c
    BY <2>1, <2>2, <1>1, OwnersStay, Frame DEF DiskInv, Kept
  <2>3. CASE d = c /\ Owns(c)'
    <3>1. origin' = origin
      BY <2>1, <2>3, Moves DEF DiskInv, Begin, Owns, Busy, Quiet
    <3> QED
      BY <2>1, <2>3, <3>1, <1>1 DEF Kept
  <2>4. CASE d = c /\ Final(c)'
    BY <2>1, <2>4, <1>1 DEF Kept
  <2>5. CASE d = c /\ ~Owns(c)' /\ disk'[Site(c)] = origin[c]
    <3>1. ASSUME NEW o \in Callers \ {e}, Site(o) = Site(e)
          PROVE  ~Owns(o)'
      BY <2>1, <2>5, <3>1, OwnersStay, Exclusive DEF DiskInv
    <3> QED
      BY <2>1, <2>5, <3>1, <1>1 DEF Kept
  <2> QED
    BY <2>1, <2>2, <2>3, <2>4, <2>5, OwnerEnds
<1>4. CASE /\ \A d \in Callers \ {e} : Site(d) = Site(e) => ~Owns(d)
           /\ disk[Site(e)].file = job[e].body
  <2>1. CASE Site(c) # Site(e)
    <3>1. disk'[Site(e)] = disk[Site(e)]
      BY <2>1, <1>1, Frame DEF DiskInv, Site
    <3> QED
      BY <2>1, <3>1, <1>1, <1>4, OwnersStay DEF Kept
  <2>2. CASE Site(c) = Site(e) /\ Begin(c)
    <3>1. origin'[c] = disk[Site(c)] /\ Owns(c)'
      BY <2>2 DEF Begin, Goto, Owns, Busy, PCs, Quiet, Verdicts, DiskInv, Typed, TypeOK
    <3> QED
      BY <2>2, <3>1, <1>1, <1>4 DEF Kept
  <2>3. CASE Site(c) = Site(e) /\ ~Begin(c)
    <3>1. ~Owns(c)
      BY <2>3, <1>4
    <3>2. pc[c] \notin Busy /\ ~Undo(c)
      BY <3>1, Holds DEF DiskInv, Undo, Owns
    <3>3. Leave(c)
      BY <2>3, <3>2, Moves DEF DiskInv
    <3>4. disk' = disk /\ ~Owns(c)'
      BY <3>1, <3>3, CallersAssumption DEF Leave, Owns, DiskInv, Typed, TypeOK
    <3> QED
      BY <2>3, <3>4, <1>1, <1>4, OwnersStay DEF Kept
  <2> QED
    BY <2>1, <2>2, <2>3
<1> QED
  BY <1>2, <1>3, <1>4 DEF Kept

(* No step loses such a write.                                             *)
LEMMA LostStep ==
  ASSUME DiskInv, DiskInv', Apart, LostInv, NEW c \in Callers, Call(c) \/ Crash(c)
  PROVE  LostInv'
<1> SUFFICES ASSUME NEW e \in Callers, pc'[e] = "applied", Writing(e)' PROVE Kept(e)'
  BY DEF LostInv
<1>1. Writing(e) /\ job' = job /\ \A d \in Callers : Site(d)' = Site(d)
  BY Frame DEF DiskInv, Writing, OpIn, Site
<1>2. CASE e # c
  BY <1>1, <1>2, Frame, KeptByOther DEF DiskInv, LostInv
<1>3. CASE e = c /\ pc[c] # "applied"
  <2>1. Active(c)
    BY <1>3, Course DEF DiskInv, Typed, TypeOK, Reactive, Rereload, Goto
  <2>2. Owns(c) /\ Owns(c)'
    <3>1. pc[c] = "active" /\ lock' = lock
      BY <2>1 DEF Active
    <3>2. Owns(c)
      BY <3>1, Holds DEF DiskInv, Busy, PCs, Quiet, Verdicts
    <3> QED
      BY <1>3, <3>1, <3>2 DEF Owns
  <2>3. disk'[Site(c)].file = job[c].body
    BY <1>1, <1>3, <2>2 DEF DiskInv, Track, Changed, Here
  <2>4. ASSUME NEW d \in Callers \ {c}, Site(d) = Site(c) PROVE ~Owns(d)'
    BY <2>2, <2>4, OwnersStay, Exclusive DEF DiskInv
  <2> QED
    BY <1>1, <1>3, <2>3, <2>4 DEF Kept
<1>4. CASE e = c /\ pc[c] = "applied"
  <2>1. Kept(c)
    BY <1>1, <1>4 DEF LostInv
  <2>2. Leave(c)
    BY <1>4, Moves DEF DiskInv, Begin, Undo, Goto, Typed, TypeOK, Busy, Quiet, Verdicts
  <2>3. UNCHANGED <<disk, pc, at, job, seen, origin>>
    BY <2>2 DEF Leave
  <2> QED
    BY <1>4, <2>1, <2>3, OwnersStay DEF Kept, Final, Site
<1> QED
  BY <1>2, <1>3, <1>4

(***************************************************************************)
(* A write of a vhost that has returned nil stays on disk while no other   *)
(* call on the site is under way, has succeeded or is broken: calls that   *)
(* fail on the same site restore it.                                       *)
(***************************************************************************)
THEOREM NoUpdateIsLost == ASSUME Apart PROVE Spec => []NoLostUpdate
<1>1. Init => DiskInv /\ LostInv
  BY DiskInit DEF Init, LostInv
<1>2. DiskInv /\ LostInv /\ [Next]_vars => (DiskInv /\ LostInv)'
  <2> SUFFICES ASSUME DiskInv, LostInv, [Next]_vars PROVE DiskInv' /\ LostInv'
    OBVIOUS
  <2>1. CASE Next
    BY <2>1, DiskStep, LostStep DEF Next
  <2>2. CASE UNCHANGED vars
    BY <2>2, DiskStutter DEF vars, LostInv, Kept, Final, Owns, Writing, OpIn, Site
  <2> QED
    BY <2>1, <2>2
<1>3. DiskInv /\ LostInv => NoLostUpdate
  <2> SUFFICES ASSUME DiskInv, LostInv, NEW c \in Callers,
                      pc[c] = "applied", OpIn(c, {"Apply", "ApplyVHost"}),
                      \A d \in Callers \ {c} : Site(d) = Site(c) => pc[d] \in {"idle", "refused", "restored"}
               PROVE  disk[Site(c)].file = job[c].body
    BY DEF NoLostUpdate
  <2>1. Kept(c)
    BY DEF LostInv, Writing
  <2>2. ASSUME NEW d \in Callers \ {c}, Site(d) = Site(c)
        PROVE  ~Final(d) /\ ~Owns(d)
    BY <2>2 DEF Final, Owns, Busy, Quiet, Verdicts
  <2> QED
    BY <2>1, <2>2 DEF Kept
<1> QED
  BY <1>1, <1>2, <1>3, PTL DEF Spec
=============================================================================
