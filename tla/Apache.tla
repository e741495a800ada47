------------------------------- MODULE Apache -------------------------------
(***************************************************************************)
(* Changes of the Apache configuration: service.Apache Apply, ApplyVHost,  *)
(* SetVHostEnabled and RemoveVHost, each call of which reaches the machine *)
(* one file operation or command at a time, and the restore function each  *)
(* of them returns, which the executor calls as the Undo of the step.      *)
(*                                                                         *)
(* A site is a vhost file in sites-available and its symlink in            *)
(* sites-enabled.  Callers that run inside a plan hold the operation lock  *)
(* until their plan ends; SSLService calls Apply without it.               *)
(***************************************************************************)
EXTENDS Naturals, Sequences

CONSTANTS Sites,
          Bodies,    \* contents of vhost files
          Valid,     \* the contents `apachectl configtest' accepts
          Fatal,     \* valid contents with which the server does not stay up
          Nothing,   \* no file
          Callers,
          Locked,    \* the callers that hold the operation lock
          JobsOf,    \* JobsOf[c]: the calls c may make
          NoCaller

OpNames == {"Apply", "ApplyVHost", "Enable", "Disable", "RemoveVHost"}
Job == [op : OpNames, site : Sites, body : Bodies]
DiskState == [file : Bodies \cup {Nothing}, link : BOOLEAN]

ASSUME BodiesAssumption == Fatal \subseteq Valid /\ Valid \subseteq Bodies /\ Nothing \notin Bodies
ASSUME CallersAssumption == Locked \subseteq Callers /\ NoCaller \notin Callers
ASSUME JobsAssumption == JobsOf \in [Callers -> SUBSET Job]

VARIABLES
  disk,     \* disk[s]: the vhost file of s and whether it is linked
  running,  \* running[s]: the contents of s the server has loaded
  up,       \* the server is active
  lock,     \* the holder of the operation lock
  pc,       \* pc[c]: where the call of c is, or how it returned
  at,       \* at[c]: the next of the changes of the call, or of its restore
  job,      \* job[c]: the call, with its arguments
  seen,     \* seen[c]: the state of the site the call has read
  origin    \* origin[c]: history: the state of the site when the call began

vars == <<disk, running, up, lock, pc, at, job, seen, origin>>

(* How a call returns: refused before any change, applied, failed with the *)
(* previous state restored, failed with an error of the restore too, or    *)
(* failed halfway with no attempt to restore.                              *)
Verdicts == {"refused", "applied", "restored", "broken", "abandoned"}
Quiet == Verdicts \cup {"idle", "crashed"}
PCs == Quiet \cup {"inspect", "baseline", "read", "change", "test", "reload", "active",
                   "restore", "retest", "rereload", "reactive"}

TypeOK ==
  /\ disk \in [Sites -> DiskState]
  /\ running \in [Sites -> Bodies \cup {Nothing}]
  /\ up \in BOOLEAN
  /\ lock \in Callers \cup {NoCaller}
  /\ pc \in [Callers -> PCs]
  /\ at \in [Callers -> 1..2]
  /\ job \in [Callers -> Job]
  /\ seen \in [Callers -> DiskState]
  /\ origin \in [Callers -> DiskState]

-----------------------------------------------------------------------------
(* Stat follows the symlink: a dangling link does not exist.               *)
Exists(s) == disk[s].link /\ disk[s].file # Nothing
Effective(d) == [s \in Sites |-> IF d[s].link THEN d[s].file ELSE Nothing]

(* An enabled file that is missing or malformed fails the whole test.      *)
ConfigOK == \A s \in Sites : disk[s].link => disk[s].file \in Valid

NoVHost == [file |-> Nothing, link |-> FALSE]

Init ==
  /\ disk \in [Sites -> {d \in DiskState : d.file \in Valid \ Fatal \/ d = NoVHost}]
  /\ running = Effective(disk)
  /\ up = TRUE
  /\ lock = NoCaller
  /\ pc = [c \in Callers |-> "idle"]
  /\ at = [c \in Callers |-> 1]
  /\ job \in {j \in [Callers -> Job] : \A c \in Callers : j[c] \in JobsOf[c]}
  /\ seen = [c \in Callers |-> NoVHost]
  /\ origin = [c \in Callers |-> NoVHost]

Goto(c, label) == pc' = [pc EXCEPT ![c] = label]
OpIn(c, names) == job[c].op \in names
Site(c) == job[c].site

ChangesFileFirst(c) ==  \* mutant: RemoveVHost deletes the file before the link
  CASE OpIn(c, {"Apply"}) -> <<"file">>
    [] OpIn(c, {"ApplyVHost", "RemoveVHost"}) -> <<"file", "link">>
    [] OpIn(c, {"Enable", "Disable"}) -> <<"link">>

RestoresFileOnly(c) ==  \* mutant: the link is not put back
  <<"file">>

(***************************************************************************)
(* The file operations of a call, in the order the code makes them, and of *)
(* its restore function: RemoveVHost takes the link first and puts it back *)
(* last, ApplyVHost the other way round.                                   *)
(***************************************************************************)
Changes(c) ==
  CASE OpIn(c, {"Apply"}) -> <<"file">>
    [] OpIn(c, {"ApplyVHost"}) -> <<"file", "link">>
    [] OpIn(c, {"Enable", "Disable"}) -> <<"link">>
    [] OpIn(c, {"RemoveVHost"}) -> IF seen[c].link THEN <<"link", "file">> ELSE <<"file">>

Restores(c) ==
  CASE OpIn(c, {"Apply"}) -> <<"file">>
    [] OpIn(c, {"ApplyVHost"}) -> <<"link", "file">>
    [] OpIn(c, {"Enable", "Disable"}) -> <<"link">>
    [] OpIn(c, {"RemoveVHost"}) -> IF seen[c].link THEN <<"file", "link">> ELSE <<"file">>

Wanted(c) ==
  [file |-> IF OpIn(c, {"RemoveVHost"}) THEN Nothing ELSE job[c].body,
   link |-> OpIn(c, {"ApplyVHost", "Enable"})]

(* Symlink fails on a path that is there, Remove on one that is not.       *)
Possible(c, part, state) ==
  /\ part = "link" => state.link # disk[Site(c)].link
  /\ part = "file" /\ state.file = Nothing => disk[Site(c)].file # Nothing

Put(c, part, state) ==
  disk' = [disk EXCEPT ![Site(c)] =
             IF part = "link" THEN [@ EXCEPT !.link = state.link]
                              ELSE [@ EXCEPT !.file = state.file]]

-----------------------------------------------------------------------------
BeginUnlocked(c) ==  \* mutant: a plan that does not wait for the lock
  /\ pc[c] = "idle"
  /\ lock' = IF c \in Locked THEN c ELSE lock
  /\ origin' = [origin EXCEPT ![c] = disk[Site(c)]]
  /\ Goto(c, "inspect")
  /\ UNCHANGED <<disk, running, up, at, job, seen>>

(* A caller inside a plan starts when its plan has the lock.               *)
Begin(c) ==
  /\ pc[c] = "idle"
  /\ c \in Locked => lock = NoCaller
  /\ lock' = IF c \in Locked THEN c ELSE lock
  /\ origin' = [origin EXCEPT ![c] = disk[Site(c)]]
  /\ Goto(c, "inspect")
  /\ UNCHANGED <<disk, running, up, at, job, seen>>

(***************************************************************************)
(* The checks before anything else.  For a link the code restores what the *)
(* check has established; RemoveVHost reads the file and the link here.    *)
(***************************************************************************)
Admitted(c) ==
  LET s == Site(c) IN
  /\ OpIn(c, {"ApplyVHost", "Enable"}) => ~Exists(s)
  /\ OpIn(c, {"Disable"}) => Exists(s)
  /\ OpIn(c, {"Enable", "RemoveVHost"}) => disk[s].file # Nothing

Inspect(c) ==
  /\ pc[c] = "inspect"
  /\ Admitted(c)
  /\ seen' = [seen EXCEPT ![c] = [file |-> disk[Site(c)].file, link |-> Exists(Site(c))]]
  /\ Goto(c, "baseline")
  /\ UNCHANGED <<disk, running, up, lock, at, job, origin>>

(* A configuration that is already broken is not touched.                  *)
Baseline(c) ==
  /\ pc[c] = "baseline"
  /\ ConfigOK
  /\ Goto(c, IF OpIn(c, {"Apply", "ApplyVHost"}) THEN "read" ELSE "change")
  /\ UNCHANGED <<disk, running, up, lock, at, job, seen, origin>>

(* apply reads the previous file only after the baseline test.             *)
ReadPrevious(c) ==
  /\ pc[c] = "read"
  /\ seen' = [seen EXCEPT ![c].file = disk[Site(c)].file]
  /\ Goto(c, "change")
  /\ UNCHANGED <<disk, running, up, lock, at, job, origin>>

(* A check fails, or one of these calls returns an error.                  *)
Refuse(c) ==
  /\ pc[c] \in {"inspect", "baseline", "read"}
  /\ Goto(c, "refused")
  /\ UNCHANGED <<disk, running, up, lock, at, job, seen, origin>>

Change(c) ==
  LET part == Changes(c)[at[c]]
      last == at[c] = Len(Changes(c)) IN
  /\ pc[c] = "change"
  /\ Possible(c, part, Wanted(c))
  /\ Put(c, part, Wanted(c))
  /\ at' = [at EXCEPT ![c] = IF last THEN 1 ELSE @ + 1]
  /\ Goto(c, IF last THEN "test" ELSE "change")
  /\ UNCHANGED <<running, up, lock, job, seen, origin>>

(***************************************************************************)
(* An error of the first change leaves everything as it was.  After it     *)
(* ApplyVHost restores, and drops an error of the restore; RemoveVHost     *)
(* returns with the link gone and the file there.                          *)
(***************************************************************************)
ChangeFails(c) ==
  /\ pc[c] = "change"
  /\ Goto(c, CASE at[c] = 1 -> "refused"
               [] at[c] > 1 /\ OpIn(c, {"ApplyVHost"}) -> "restore"
               [] at[c] > 1 /\ OpIn(c, {"RemoveVHost"}) -> "abandoned")
  /\ at' = [at EXCEPT ![c] = 1]
  /\ UNCHANGED <<disk, running, up, lock, job, seen, origin>>

Test(c) ==
  /\ pc[c] = "test"
  /\ ConfigOK
  /\ Goto(c, "reload")
  /\ UNCHANGED <<disk, running, up, lock, at, job, seen, origin>>

(* The server loads everything on disk, also what other callers wrote.     *)
Load ==
  /\ up /\ ConfigOK
  /\ running' = Effective(disk)
  /\ up' = \A s \in Sites : running'[s] \notin Fatal

Reload(c) ==
  /\ pc[c] = "reload"
  /\ Load
  /\ Goto(c, "active")
  /\ UNCHANGED <<disk, lock, at, job, seen, origin>>

Active(c) ==
  /\ pc[c] = "active"
  /\ up
  /\ Goto(c, "applied")
  /\ UNCHANGED <<disk, running, up, lock, at, job, seen, origin>>

CheckFailsReturns(c) ==  \* mutant: the error is returned without a restore
  /\ pc[c] \in {"test", "reload", "active"}
  /\ Goto(c, "abandoned")
  /\ UNCHANGED <<disk, running, up, lock, at, job, seen, origin>>

(* The test, the reload or the check returns an error; a reload that does  *)
(* may have loaded the configuration.                                      *)
CheckFails(c) ==
  /\ pc[c] \in {"test", "reload", "active"}
  /\ \/ UNCHANGED <<running, up>>
     \/ pc[c] = "reload" /\ Load
  /\ Goto(c, "restore")
  /\ UNCHANGED <<disk, lock, at, job, seen, origin>>

(* The executor undoes the step because a later step of the plan failed;   *)
(* SSLService calls the same function when the challenge fails.            *)
Undo(c) ==
  /\ pc[c] = "applied"
  /\ c \in Locked => lock = c
  /\ Goto(c, "restore")
  /\ UNCHANGED <<disk, running, up, lock, at, job, seen, origin>>

(* A removal in the restore of an apply or of an enable tolerates a path   *)
(* that is not there.                                                      *)
Tolerated(c, part) ==
  \/ part = "link" /\ OpIn(c, {"ApplyVHost", "Enable"}) /\ ~disk[Site(c)].link
  \/ part = "file" /\ OpIn(c, {"Apply", "ApplyVHost"}) /\ seen[c].file = Nothing

RestoreOverruns(c) ==  \* mutant: the index of the restore is not reset
  LET part == Restores(c)[at[c]] IN
  /\ pc[c] = "restore"
  /\ Possible(c, part, seen[c]) \/ Tolerated(c, part)
  /\ Put(c, part, seen[c])
  /\ at' = [at EXCEPT ![c] = @ + 1]
  /\ Goto(c, IF at[c] = Len(Restores(c)) THEN "retest" ELSE "restore")
  /\ UNCHANGED <<running, up, lock, job, seen, origin>>

RetestOnly(c) ==  \* mutant: the restored configuration is not reloaded
  /\ pc[c] = "retest"
  /\ ConfigOK
  /\ Goto(c, "restored")
  /\ UNCHANGED <<disk, running, up, lock, at, job, seen, origin>>

Restore(c) ==
  LET part == Restores(c)[at[c]]
      last == at[c] = Len(Restores(c)) IN
  /\ pc[c] = "restore"
  /\ Possible(c, part, seen[c]) \/ Tolerated(c, part)
  /\ Put(c, part, seen[c])
  /\ at' = [at EXCEPT ![c] = IF last THEN 1 ELSE @ + 1]
  /\ Goto(c, IF last THEN "retest" ELSE "restore")
  /\ UNCHANGED <<running, up, lock, job, seen, origin>>

Retest(c) ==
  /\ pc[c] = "retest"
  /\ ConfigOK
  /\ Goto(c, "rereload")
  /\ UNCHANGED <<disk, running, up, lock, at, job, seen, origin>>

(* The restore of apply ends with the reload, the others check the server. *)
Rereload(c) ==
  /\ pc[c] = "rereload"
  /\ Load
  /\ Goto(c, IF OpIn(c, {"Apply", "ApplyVHost"}) THEN "restored" ELSE "reactive")
  /\ UNCHANGED <<disk, lock, at, job, seen, origin>>

Reactive(c) ==
  /\ pc[c] = "reactive"
  /\ up
  /\ Goto(c, "restored")
  /\ UNCHANGED <<disk, running, up, lock, at, job, seen, origin>>

RestoreFails(c) ==
  /\ pc[c] \in {"restore", "retest", "rereload", "reactive"}
  /\ \/ UNCHANGED <<running, up>>
     \/ pc[c] = "rereload" /\ Load
  /\ Goto(c, "broken")
  /\ UNCHANGED <<disk, lock, at, job, seen, origin>>

(* The plan of the caller ends; or its process dies.                       *)
Leave(c) ==
  /\ lock = c
  /\ pc[c] \in Verdicts
  /\ lock' = NoCaller
  /\ UNCHANGED <<disk, running, up, pc, at, job, seen, origin>>

Crash(c) ==
  /\ pc[c] \notin Quiet
  /\ lock' = IF lock = c THEN NoCaller ELSE lock
  /\ Goto(c, "crashed")
  /\ UNCHANGED <<disk, running, up, at, job, seen, origin>>

Call(c) ==
  \/ Begin(c) \/ Inspect(c) \/ Baseline(c) \/ ReadPrevious(c) \/ Refuse(c)
  \/ Change(c) \/ ChangeFails(c) \/ Test(c) \/ Reload(c) \/ Active(c) \/ CheckFails(c)
  \/ Undo(c) \/ Restore(c) \/ Retest(c) \/ Rereload(c) \/ Reactive(c) \/ RestoreFails(c)
  \/ Leave(c)

Next == \E c \in Callers : Call(c) \/ Crash(c)

Spec == Init /\ [][Next]_vars

-----------------------------------------------------------------------------
(***************************************************************************)
(* At no moment, not even between two file operations or after a crash,    *)
(* does sites-enabled hold a link to a missing file, which would keep      *)
(* Apache from starting (the order of the operations in apply, RemoveVHost *)
(* and their restore functions).                                           *)
(***************************************************************************)
NoDanglingLink == \A s \in Sites : disk[s].link => disk[s].file # Nothing

(***************************************************************************)
(* A call that fails without an error of its restore, and an Undo that     *)
(* returns nil, leave file and link exactly as the call found them, and    *)
(* so does a call that is refused.                                         *)
(***************************************************************************)
FailureRestoresDisk ==
  [][\A c \in Callers : pc[c] \notin Quiet /\ pc'[c] \in {"refused", "restored"}
       => disk'[Site(c)] = origin[c]]_vars

(***************************************************************************)
(* When no call is under way and none has ended broken, a restart of       *)
(* Apache would succeed: the configuration on disk is valid and the server *)
(* is up, whatever contents were tried and whoever else was writing.       *)
(***************************************************************************)
SettledServerIsSound ==
  (\A c \in Callers : pc[c] \in (Verdicts \ {"broken"}) \cup {"idle"}) => ConfigOK /\ up

(***************************************************************************)
(* A call that returns nil, or whose restore returns nil, has its site     *)
(* live: the server runs what is on disk.                                  *)
(***************************************************************************)
ReturnedSiteIsLive ==
  [][\A c \in Callers : pc[c] # pc'[c] /\ pc'[c] \in {"applied", "restored"}
       => running'[Site(c)] = Effective(disk')[Site(c)]]_vars

(***************************************************************************)
(* A successful write of a vhost is not lost: while no other call on the   *)
(* site is under way, has succeeded or is broken, its contents are the     *)
(* file (docs/project-specification.md section 7.2: every mutating         *)
(* operation holds the operation lock all the time).                       *)
(***************************************************************************)
NoLostUpdate ==
  \A c \in Callers :
    /\ pc[c] = "applied" /\ OpIn(c, {"Apply", "ApplyVHost"})
    /\ \A d \in Callers \ {c} : Site(d) = Site(c) => pc[d] \in {"idle", "refused", "restored"}
    => disk[Site(c)].file = job[c].body
=============================================================================
