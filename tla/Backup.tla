------------------------------- MODULE Backup -------------------------------
(***************************************************************************)
(* service.BackupService together with the plans of module Subscription.   *)
(* A backup reads the host step by step under a lock of its own, which no  *)
(* plan takes.  A restore starts from an archive; with --force it is three *)
(* calls in a row: a backup of what is there, its deletion, the restore.   *)
(***************************************************************************)
EXTENDS Subscription

CONSTANT Kept  \* the backups that were made before

VARIABLES
  job,      \* job[b]: how far the call of Create is
  book,     \* book[b]: the status of its row in the table backups
  attached, \* attached[b]: the subscription_id of the row, 0 for NULL
  read,     \* read[b]: the row of the subscription, as read at first
  archive,  \* archive[b]: the files, dumps and metadata that are written
  sealed,   \* the backups with a file SHA256SUMS
  shot,     \* shot[b]: history: the host when b has got its lock
  mixed     \* history: backups during which a plan worked on the subscription

shelf == <<job, book, attached, read, archive, sealed, shot, mixed>>
vars == <<plans, shelf>>

Working == {"files", "dumps", "lists", "sums", "finish"}
Jobs == Working \cup {"idle", "looked", "complete", "failed"}

(* The backups that will be used, and of which subscription.               *)
Uses(r, b) ==
  \/ Kind(r) = "restore" /\ want[r].from = b
  \/ Kind(r) = "delete" /\ want[r].after = b
Wanted == {b \in Backups : \E r \in Requests : Uses(r, b)}
Subject(b) == Name(CHOOSE r \in Requests : Uses(r, b))

TypeOK ==
  /\ SubscriptionTyped
  /\ job \in [Backups -> Jobs]
  /\ book \in [Backups -> {"none", "running", "complete", "failed"}]
  /\ attached \in [Backups -> Nat]
  /\ read \in [Backups -> Row \cup {NoRow}]
  /\ archive \in [Backups -> Host \cup {Nothing}]
  /\ shot \in [Backups -> Host \cup {Nothing}]
  /\ sealed \subseteq Backups /\ mixed \subseteq Backups
  /\ \A b, c \in Wanted : job[b] \in Working /\ job[c] \in Working /\ b # c => Subject(b) # Subject(c)

(* The directory of a backup before anything is in it.                     *)
Blank ==
  [row |-> NoRow, web |-> 0, db |-> 0, cert |-> 0, jobs |-> 0, user |-> 0, home |-> NoHome,
   logs |-> "none", vhost |-> FALSE, pool |-> FALSE, schema |-> "none", crontab |-> FALSE,
   lineage |-> "none", source |-> "none"]

BackupInit ==
  /\ Init
  /\ sealed = {b \in Kept \cap Wanted : host[Subject(b)].row # NoRow}
  /\ job = [b \in Backups |-> IF b \in sealed THEN "complete" ELSE "idle"]
  /\ book = [b \in Backups |-> IF b \in sealed THEN "complete" ELSE "none"]
  /\ attached = [b \in Backups |-> IF b \in sealed THEN host[Subject(b)].row.id ELSE 0]
  /\ read = [b \in Backups |-> NoRow]
  /\ archive = [b \in Backups |-> IF b \in sealed THEN host[Subject(b)] ELSE Nothing]
  /\ shot = archive
  /\ mixed = {}

-----------------------------------------------------------------------------
At(b, label) == job[b] = label
Now(b) == host[Subject(b)]
Reached(b, label) == job' = [job EXCEPT ![b] = label]
Writes(b, contents) == archive' = [archive EXCEPT ![b] = contents]

(* ListBackups counts the failed and the running rows too.                 *)
Shelved(id) == {b \in Backups : book[b] # "none" /\ attached[b] = id}

(* The row and the quota, before the lock.                                 *)
Look(b) ==
  /\ b \in Wanted /\ At(b, "idle")
  /\ Now(b).row # NoRow
  /\ LET row == Now(b).row IN row.quota > 0 => Cardinality(Shelved(row.id)) < row.quota
  /\ Reached(b, "looked")
  /\ read' = [read EXCEPT ![b] = Now(b).row]
  /\ UNCHANGED <<plans, book, attached, archive, sealed, shot, mixed>>

Touches(b) == lock # NoRequest /\ Name(lock) = Subject(b)

(* The lock of this subscription, the directory and the row 'running',     *)
(* whose foreign key wants the subscription that was read.                 *)
Begin(b) ==
  /\ At(b, "looked")
  /\ \A c \in Wanted : Subject(c) = Subject(b) => job[c] \notin Working
  /\ Now(b).row # NoRow /\ Now(b).row.id = read[b].id
  /\ Reached(b, "files")
  /\ book' = [book EXCEPT ![b] = "running"]
  /\ attached' = [attached EXCEPT ![b] = read[b].id]
  /\ Writes(b, Blank)
  /\ shot' = [shot EXCEPT ![b] = Now(b)]
  /\ mixed' = IF Touches(b) \/ Now(b).row # read[b] THEN mixed \cup {b} ELSE mixed
  /\ UNCHANGED <<plans, read, sealed>>

Files(b) ==
  /\ At(b, "files")
  /\ Now(b).home # NoHome
  /\ Reached(b, "dumps")
  /\ Writes(b, [archive[b] EXCEPT !.home = Now(b).home])
  /\ UNCHANGED <<plans, book, attached, read, sealed, shot, mixed>>

(* Mutant: a dump that fails is passed over.                               *)
DumpsSkip(b) ==
  /\ At(b, "dumps")
  /\ Reached(b, "lists")
  /\ UNCHANGED <<plans, book, attached, read, archive, sealed, shot, mixed>>

(* Every database that is listed for the row is dumped.                    *)
Dumps(b) ==
  LET listed == Now(b).db = read[b].id IN
  /\ At(b, "dumps")
  /\ listed => Now(b).schema # "none"
  /\ Reached(b, "lists")
  /\ Writes(b, IF listed THEN [archive[b] EXCEPT !.db = read[b].id, !.schema = Now(b).schema] ELSE archive[b])
  /\ UNCHANGED <<plans, book, attached, read, sealed, shot, mixed>>

(* metadata.json has the row as it was read and the lists as they are now. *)
Lists(b) ==
  LET Listed(owner) == IF owner = read[b].id THEN owner ELSE 0 IN
  /\ At(b, "lists")
  /\ Reached(b, "sums")
  /\ Writes(b, [archive[b] EXCEPT !.row = read[b], !.web = Listed(Now(b).web), !.jobs = Listed(Now(b).jobs)])
  /\ UNCHANGED <<plans, book, attached, read, sealed, shot, mixed>>

(* writeChecksums, of what has been written.                               *)
Seal(b) ==
  /\ At(b, "sums")
  /\ Reached(b, "finish")
  /\ sealed' = sealed \cup {b}
  /\ UNCHANGED <<plans, book, attached, read, archive, shot, mixed>>

Finish(b) ==
  /\ At(b, "finish")
  /\ Reached(b, "complete")
  /\ book' = [book EXCEPT ![b] = "complete"]
  /\ read' = [read EXCEPT ![b] = NoRow]
  /\ UNCHANGED <<plans, attached, archive, sealed, shot, mixed>>

(***************************************************************************)
(* Create returns an error and its deferred FinishBackup marks the row, or *)
(* is refused; or the process dies, which frees the flock and leaves the   *)
(* row 'running'.  Nobody reads a directory without its checksums: what is *)
(* in it is forgotten here.                                                *)
(***************************************************************************)
GiveUp(b) ==
  /\ job[b] \in Working \cup {"looked"}
  /\ Reached(b, "failed")
  /\ book' = book \/ (job[b] \in Working /\ book' = [book EXCEPT ![b] = "failed"])
  /\ read' = [read EXCEPT ![b] = NoRow]
  /\ IF b \in sealed
     THEN UNCHANGED <<archive, shot, mixed>>
     ELSE /\ Writes(b, Nothing)
          /\ shot' = [shot EXCEPT ![b] = Nothing]
          /\ mixed' = mixed \ {b}
  /\ UNCHANGED <<plans, attached, sealed>>

BackupStep(b) ==
  \/ Look(b) \/ Begin(b) \/ Files(b) \/ Dumps(b) \/ Lists(b) \/ Seal(b) \/ Finish(b)
  \/ GiveUp(b)

-----------------------------------------------------------------------------
(* Inspect looks at the directory and its checksums, not at the status.    *)
Inspectable(b) == b \in sealed

(***************************************************************************)
(* restore --force: the deletion waits for the backup of what is there and *)
(* the restore for the deletion, each call on its own; the archive to be   *)
(* restored has been inspected before.                                     *)
(***************************************************************************)
InTurn(r) ==
  CASE Kind(r) = "delete" ->
         /\ want[r].after \in Backups => job[want[r].after] = "complete"
         /\ \A q \in Requests : Kind(q) = "restore" /\ want[q].after = r => Inspectable(want[q].from)
    [] Kind(r) = "restore" -> want[r].after \in Requests => pc[want[r].after] = "done"
    [] OTHER -> TRUE

PrepareAny(r) ==
  /\ InTurn(r)
  /\ IF Kind(r) = "restore"
     THEN Inspectable(want[r].from) /\ Prepare(r, archive[want[r].from])
     ELSE Prepare(r, host[Name(r)])
  /\ UNCHANGED shelf

(***************************************************************************)
(* A plan moves on.  The rows of the backups lose the subscription that is *)
(* deleted (ON DELETE SET NULL), and a restored one gets those of its name *)
(* that have none (ReassignOrphanedBackups).                               *)
(***************************************************************************)
Lost(id) == \A n \in Names : host'[n].row = NoRow \/ host'[n].row.id # id

Attachment(r, b) ==
  LET restored == Kind(r) = "restore" /\ b \in Wanted /\ Subject(b) = Name(r)
                  /\ host[Name(r)].row = NoRow /\ host'[Name(r)].row # NoRow /\ torn' = torn IN
  CASE book[b] = "none" -> 0
    [] attached[b] = 0 /\ restored -> host'[Name(r)].row.id
    [] attached[b] # 0 /\ Lost(attached[b]) -> 0
    [] OTHER -> attached[b]

PlanStep(r) ==
  /\ Runs(r)
  /\ attached' = [b \in Backups |-> Attachment(r, b)]
  /\ mixed' = mixed \cup {b \in Backups : job[b] \in Working /\ Subject(b) = Name(r)}
  /\ UNCHANGED <<job, book, read, archive, sealed, shot>>

Next ==
  \/ \E r \in Requests : PrepareAny(r) \/ (Refuse(r) /\ UNCHANGED shelf) \/ PlanStep(r)
  \/ \E b \in Backups : BackupStep(b)

Spec == BackupInit /\ [][Next]_vars

-----------------------------------------------------------------------------
(* What an archive is to keep of a subscription.                           *)
Contents(h) ==
  [docs |-> h.home # NoHome /\ h.home.docs # "none", site |-> h.web # 0,
   database |-> IF h.db = 0 THEN "none" ELSE h.schema, jobs |-> h.jobs # 0, quota |-> h.row.quota]

(***************************************************************************)
(* Whatever fails or crashes, an archive that Inspect accepts has all that *)
(* the subscription had, unless a plan worked on it meanwhile; restore     *)
(* --force deletes nothing before such an archive is there; and a restore  *)
(* that returns done has brought all of it back, under a new row, its user *)
(* and its UID (BackupService.Create, replaceCurrentState, restoreFiles).  *)
(***************************************************************************)
RestoreBringsBack ==
  [][\A r \in Requests :
       /\ Kind(r) = "delete" /\ want[r].after \in Backups /\ pc[r] = "ready" /\ pc'[r] = "do" =>
            LET b == want[r].after IN
            Inspectable(b) /\ (b \notin mixed => Contents(archive[b]) = Contents(shot[b]))
       /\ Kind(r) = "restore" /\ pc[r] = "do" /\ pc'[r] = "done" =>
            LET b == want[r].from h == host[Name(r)] IN
            /\ b \notin mixed => Contents(h) = Contents(shot[b])
            /\ h.row # NoRow /\ h.user = h.row.uid /\ h.home.owner = h.user
            /\ h.jobs # 0 => h.crontab]_vars
=============================================================================
