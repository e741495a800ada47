---------------------------- MODULE Subscription ----------------------------
(***************************************************************************)
(* service.SubscriptionService and the operation of a restore: the plans   *)
(* that make a subscription, take one over from a legacy directory, take   *)
(* it back from an archive, change its row and delete it.  A plan is       *)
(* prepared from what it reads without the lock.  Module Backup makes the  *)
(* archives and composes the two.                                          *)
(***************************************************************************)
EXTENDS PlanControl, FiniteSets, FiniteSetsExt

CONSTANTS Names,    \* of subscriptions, which are those of their Unix users
          MaxUid,   \* the UIDs are 1..MaxUid (users.uid_min .. uid_max)
          Backups,  \* archives
          NoBackup,
          NoRow, NoHome, Nothing,
          Scenarios \* what may be there at first, and what users may then ask for

Uids == 1..MaxUid
Statuses == {"active", "suspended", "archived"}
Row == [id : Nat \ {0}, uid : Uids, status : Statuses, quota : Nat]
Home == [owner : Nat, docs : {"none", "legacy", "own"}]

(***************************************************************************)
(* All that one name stands for: the row and those of one PHP site, one    *)
(* database, its certificate and the cron jobs, each with the id of the    *)
(* subscription it belongs to or 0, and what the system has: user, home    *)
(* with the documents, log directory, vhost, pool, schema, crontab, the    *)
(* lineage of certbot with the one who renews it, and the legacy directory *)
(* that could be taken over, which keeps its owner or has been given away. *)
(***************************************************************************)
Host ==
  [row : Row \cup {NoRow}, web : Nat, db : Nat, cert : Nat, jobs : Nat,
   user : Nat, home : Home \cup {NoHome}, logs : {"none", "empty", "full"},
   vhost : BOOLEAN, pool : BOOLEAN, schema : {"none", "empty", "data"}, crontab : BOOLEAN,
   lineage : {"none", "managed", "legacy", "webroot"}, source : {"none", "legacy", "given"}]

Request ==
  [kind : {"create", "database"}, name : Names]
  \cup [kind : {"status"}, name : Names, to : Statuses]
  \cup [kind : {"quota"}, name : Names, to : Nat]
  \cup [kind : {"adopt"}, name : Names, copy : BOOLEAN]
  \cup [kind : {"delete"}, name : Names, force : BOOLEAN, after : Backups \cup {NoBackup}]
  \cup [kind : {"restore"}, name : Names, from : Backups, after : Requests \cup {NoRequest}]

(* A subscription with all its parts, or nothing but what is not its own.  *)
Whole(h) ==
  /\ h.row # NoRow =>
       /\ h.user = h.row.uid /\ h.home # NoHome /\ h.home.owner = h.row.uid
       /\ {h.web, h.db, h.cert, h.jobs} \subseteq {0, h.row.id}
  /\ h.row = NoRow => h.user = 0 /\ h.home = NoHome /\ {h.web, h.db, h.cert, h.jobs} = {0}
  /\ h.vhost = (h.web # 0) /\ h.pool = (h.web # 0)
  /\ (h.schema # "none") = (h.db # 0)
  /\ h.cert # 0 => h.lineage # "none"

ASSUME SubscriptionAssumption ==
  /\ IsFiniteSet(Names) /\ MaxUid \in Nat
  /\ NoRow \notin Row /\ NoHome \notin Home /\ Nothing \notin Host
  /\ NoBackup \notin Backups
  /\ Scenarios \subseteq [host : [Names -> Host], foreign : SUBSET Uids, want : [Requests -> Request]]
  /\ \A s \in Scenarios, n \in Names :
       /\ Whole(s.host[n])
       /\ \A m \in Names \ {n} : s.host[n].user = 0 \/ s.host[m].user # s.host[n].user

VARIABLES
  host,     \* host[n]: what the name n stands for
  nextId,   \* AUTOINCREMENT of subscriptions
  foreign,  \* the UIDs of users that provctl does not manage
  want,     \* want[r]: the operation asked for
  snap,     \* snap[r]: what its preparation has read, of the host or of the archive
  uid,      \* uid[r]: the UID it has chosen
  found,    \* found[r]: what the plan found when it started
  torn,     \* history: requests whose failed step has changed something
  damaged   \* history: names that an operation has left in a state nobody vouches for

data == <<host, nextId, foreign, want, snap, uid, found, torn, damaged>>
plans == <<control, data>>

SubscriptionTyped ==
  /\ ControlTyped(18)
  /\ host \in [Names -> Host] /\ nextId \in Nat /\ foreign \subseteq Uids
  /\ want \in [Requests -> Request]
  /\ snap \in [Requests -> Host \cup {Nothing}] /\ found \in [Requests -> Host \cup {Nothing}]
  /\ uid \in [Requests -> Uids \cup {0}]
  /\ torn \subseteq Requests /\ damaged \subseteq Names

Kind(r) == want[r].kind
Name(r) == want[r].name
If(condition, steps) == IF condition THEN steps ELSE <<>>

-----------------------------------------------------------------------------
(***************************************************************************)
(* The plans.  Those of a deletion, an adoption and a restore depend on    *)
(* what was read.                                                          *)
(***************************************************************************)
DeleteSteps(h) ==
  If(h.web # 0, <<"dropVHost", "dropWebsite">>)
  \o If(h.db # 0, <<"dropSchema", "dropDatabase">>)
  \o If(h.cert # 0 /\ h.lineage = "managed", <<"dropLineage">>)
  \o <<"dropCertificates">>
  \o If(h.web # 0, <<"dropPool">>)
  \o <<"dropHome", "dropUser", "dropRow">>

(* The renewal configuration of certbot that has the domain.               *)
HasRenewal(h) == h.lineage # "none"

CertificateSteps(h) == If(HasRenewal(h), <<"commit", "certificate", "renewal", "verify">>)

AdoptSteps(h) ==
  <<"archive", "user", "logs", "home", "webLogs", "pool", "transfer", "chown",
    "vhost", "record", "website">> \o CertificateSteps(h)

DatabaseSteps(h) == If(h.db # 0, <<"schema", "import", "database">>)
WebsiteSteps(h) == If(h.web # 0, <<"pool", "vhost", "website">>)
CronSteps(h) == If(h.jobs # 0, <<"crontab", "jobs">>)

RestoreSteps(h) ==
  <<"staging", "user", "promote", "chown", "runtime", "record">>
  \o DatabaseSteps(h) \o WebsiteSteps(h) \o CronSteps(h)

Steps(r) ==
  CASE Kind(r) = "create" -> <<"user", "logs", "home", "record", "lock">>
    [] Kind(r) = "database" -> <<"schema", "database">>
    [] Kind(r) \in {"status", "quota"} -> <<Kind(r)>>
    [] Kind(r) = "delete" -> DeleteSteps(snap[r])
    [] Kind(r) = "adopt" -> AdoptSteps(snap[r])
    [] Kind(r) = "restore" -> RestoreSteps(snap[r])

Drops == {"dropSchema", "dropWebsite", "dropDatabase", "dropLineage", "dropCertificates",
          "dropPool", "dropHome", "dropUser", "dropRow"}
Irreversible == Drops \cup {"lock", "chown", "runtime", "import", "commit", "verify"}

-----------------------------------------------------------------------------
Init ==
  /\ ControlInit
  /\ \E s \in Scenarios : host = s.host /\ foreign = s.foreign /\ want = s.want
  /\ nextId = Cardinality(Names) + 1
  /\ snap = [r \in Requests |-> Nothing] /\ found = [r \in Requests |-> Nothing]
  /\ uid = [r \in Requests |-> 0]
  /\ torn = {} /\ damaged = {}

(* Mutant: one more than the range has.                                    *)
FreeBeyond ==
  {u \in (1..MaxUid + 1) \ foreign : \A n \in Names : host[n].user # u /\ (host[n].row # NoRow => host[n].row.uid # u)}

(***************************************************************************)
(* nextUID: neither a row nor a user has it.                               *)
(***************************************************************************)
Free == {u \in Uids \ foreign : \A n \in Names : host[n].user # u /\ (host[n].row # NoRow => host[n].row.uid # u)}

(* Where a subscription can be made, taken over, deleted, restored.        *)
Vacant(h) == h.row = NoRow /\ h.home = NoHome /\ h.user = 0
Adoptable(h) == Vacant(h) /\ h.source # "none" /\ h.web = 0 /\ ~h.vhost
Deletable(h, force) ==
  /\ h.row # NoRow
  /\ force \/ h.row.status = "archived"
  /\ h.home # NoHome /\ h.user = h.row.uid
Restorable(h, after) == h.home = NoHome /\ h.user = 0 /\ (after = NoRequest => h.row = NoRow)

(* Whose status and limits can be changed.                                 *)
Movable(h, to) == h.row # NoRow /\ h.row.status \notin {to, "archived"}
Limitable(h) == h.row # NoRow

Acceptable(w, h) ==
  CASE w.kind = "create" -> Vacant(h)
    [] w.kind = "adopt" -> Adoptable(h)
    [] w.kind = "database" -> h.row # NoRow /\ h.db = 0
    [] w.kind = "status" -> Movable(h, w.to)
    [] w.kind = "quota" -> Limitable(h)
    [] w.kind = "delete" -> Deletable(h, w.force)
    [] w.kind = "restore" -> Restorable(h, w.after)

(* Prepare...: what it has read, of the archive for a restore.             *)
Prepare(r, read) ==
  LET chooses == Kind(r) \in {"create", "adopt", "restore"} IN
  /\ Prepared(r)
  /\ Acceptable(want[r], host[Name(r)])
  /\ chooses => Free # {}
  /\ uid' = IF chooses THEN [uid EXCEPT ![r] = Min(Free)] ELSE uid
  /\ snap' = [snap EXCEPT ![r] = read]
  /\ UNCHANGED <<host, nextId, foreign, want, found, torn, damaged>>

Refuse(r) == Refused(r) /\ UNCHANGED data

Start(r) ==
  /\ Started(r)
  /\ found' = [found EXCEPT ![r] = host[Name(r)]]
  /\ UNCHANGED <<host, nextId, foreign, want, snap, uid, torn, damaged>>

-----------------------------------------------------------------------------
(***************************************************************************)
(* What a step needs: useradd refuses a name and a UID that is there;      *)
(* MkdirAll accepts a directory, Rename only an empty one; rows are unique *)
(* by name, go by the id that was read and hold back the row they belong   *)
(* to; a vhost that is not there cannot be removed; certbot deletes a      *)
(* lineage it has.                                                         *)
(***************************************************************************)
Possible(r, step) ==
  LET h == host[Name(r)] read == snap[r] IN
  CASE step = "user" -> h.user = 0 /\ \A n \in Names : host[n].user # uid[r]
    [] step = "record" -> h.row = NoRow
    [] step \in {"status", "quota"} -> h.row # NoRow /\ h.row.id = read.row.id
    [] step = "schema" -> h.schema = "none"
    [] step = "database" -> /\ h.db = 0 /\ h.row # NoRow
                            /\ Kind(r) = "database" => h.row.id = read.row.id
    [] step = "website" -> h.web = 0 /\ h.row # NoRow
    [] step = "certificate" -> h.cert = 0
    [] step = "jobs" -> h.row # NoRow
    [] step = "transfer" -> h.source # "none" /\ (want[r].copy \/ h.home.docs = "none")
    [] step = "promote" -> h.home = NoHome
    [] step = "dropVHost" -> h.vhost
    [] step = "dropWebsite" -> h.web = read.web
    [] step = "dropDatabase" -> h.db = read.row.id
    [] step = "dropLineage" -> h.lineage = "managed"
    [] step = "dropPool" -> h.pool
    [] step = "dropUser" -> h.user # 0
    [] step = "dropRow" -> h.row # NoRow /\ h.row.id \notin {h.web, h.db, h.cert}
    [] OTHER -> TRUE

(* The legacy documents are copied, or moved; the archived home is renamed *)
(* into place; certbot is told to renew under the managed webroot.         *)
Transferred(h, copy) == [h EXCEPT !.home.docs = "legacy", !.source = IF copy THEN @ ELSE "none"]
Promoted(h, read) == [h EXCEPT !.home = read.home]
Reconfigured(h) == [h EXCEPT !.lineage = "webroot"]

(***************************************************************************)
(* What a step of r makes of h.  The files of an archive have the owner    *)
(* they had; a restored row is active.  A row takes the jobs with it.      *)
(***************************************************************************)
Done(r, step) ==
  LET h == host[Name(r)] read == snap[r] w == want[r] IN
  CASE step = "user" -> [h EXCEPT !.user = uid[r]]
    [] step = "logs" -> IF h.logs = "none" THEN [h EXCEPT !.logs = "empty"] ELSE h
    [] step = "webLogs" -> [h EXCEPT !.logs = "full"]
    [] step = "home" -> [h EXCEPT !.home = [owner |-> uid[r], docs |-> IF @ = NoHome THEN "none" ELSE @.docs]]
    [] step = "promote" -> Promoted(h, read)
    [] step = "transfer" -> Transferred(h, w.copy)
    [] step = "chown" -> [h EXCEPT !.home = [owner |-> uid[r], docs |-> IF @.docs = "none" THEN "none" ELSE "own"]]
    [] step = "record" -> [h EXCEPT !.row = [id |-> nextId, uid |-> uid[r], status |-> "active",
                                            quota |-> IF w.kind = "restore" THEN read.row.quota ELSE 0]]
    [] step = "status" -> [h EXCEPT !.row.status = w.to]
    [] step = "quota" -> [h EXCEPT !.row.quota = w.to]
    [] step = "schema" -> [h EXCEPT !.schema = "empty"]
    [] step = "import" -> [h EXCEPT !.schema = read.schema]
    [] step = "database" -> [h EXCEPT !.db = h.row.id]
    [] step = "pool" -> [h EXCEPT !.pool = TRUE]
    [] step = "vhost" -> [h EXCEPT !.vhost = TRUE]
    [] step = "website" -> [h EXCEPT !.web = h.row.id]
    [] step = "crontab" -> [h EXCEPT !.crontab = TRUE]
    [] step = "jobs" -> [h EXCEPT !.jobs = h.row.id]
    [] step = "certificate" -> [h EXCEPT !.cert = h.row.id]
    [] step = "renewal" -> Reconfigured(h)
    [] step = "dropVHost" -> [h EXCEPT !.vhost = FALSE]
    [] step = "dropWebsite" -> [h EXCEPT !.web = 0]
    [] step = "dropSchema" -> [h EXCEPT !.schema = "none"]
    [] step = "dropDatabase" -> [h EXCEPT !.db = 0]
    [] step = "dropLineage" -> [h EXCEPT !.lineage = "none"]
    [] step = "dropCertificates" -> IF h.cert = read.row.id THEN [h EXCEPT !.cert = 0] ELSE h
    [] step = "dropPool" -> [h EXCEPT !.pool = FALSE]
    [] step = "dropHome" -> [h EXCEPT !.home = NoHome]
    [] step = "dropUser" -> [h EXCEPT !.user = 0]
    [] step = "dropRow" -> [h EXCEPT !.row = NoRow, !.jobs = 0]
    [] OTHER -> h

Becomes(r, h) == host' = [host EXCEPT ![Name(r)] = h]

Do(r) ==
  LET step == Steps(r)[at[r]] IN
  /\ Advanced(r, Len(Steps(r)))
  /\ Possible(r, step)
  /\ Becomes(r, Done(r, step))
  /\ nextId' = IF step = "record" THEN nextId + 1 ELSE nextId
  /\ UNCHANGED <<foreign, want, snap, uid, found, torn, damaged>>

(***************************************************************************)
(* A step fails.  A command may have done its work when the deadline kills *)
(* it; adopt and create leave the user when its password cannot be locked; *)
(* a restore keeps its row if the archives cannot be attached to it.  A    *)
(* log directory whose owner cannot be set stays, which nobody notes: it   *)
(* is the undo of the step before that does.                               *)
(***************************************************************************)
Tearable(r) ==
  {"user", "chown", "import", "schema", "dropSchema", "dropLineage", "dropHome", "dropUser", "crontab", "webLogs"}
  \cup (IF Kind(r) = "restore" THEN {"record"} ELSE {})

Fail(r) ==
  /\ Failed(r)
  /\ \/ UNCHANGED <<host, nextId, torn>>
     \/ LET step == Steps(r)[at[r]] IN
        /\ at[r] <= Len(Steps(r))
        /\ step \in Tearable(r) /\ Possible(r, step)
        /\ Becomes(r, Done(r, step))
        /\ nextId' = IF step = "record" THEN nextId + 1 ELSE nextId
        /\ torn' = IF step = "webLogs" THEN torn ELSE torn \cup {r}
  /\ UNCHANGED <<foreign, want, snap, uid, found, damaged>>

-----------------------------------------------------------------------------
(* Remove takes empty directories only; a row goes by its name.            *)
Undoable(r, step) ==
  LET h == host[Name(r)] IN
  CASE step = "user" -> h.user # 0
    [] step = "logs" -> h.logs = "empty"
    [] step = "home" -> h.home # NoHome /\ h.home.docs = "none"
    [] step = "record" -> h.row # NoRow /\ h.row.id \notin {h.web, h.db, h.cert}
    [] OTHER -> step \notin Irreversible

(* A moved directory returns as it is, with the owner it has by now; the   *)
(* renewal configuration returns from its snapshot.                        *)
TransferUndone(h, was, copy) ==
  [h EXCEPT !.home.docs = "none",
            !.source = IF copy THEN @ ELSE IF h.home.docs = "own" THEN "given" ELSE was.source]
RenewalUndone(h, was) == [h EXCEPT !.lineage = was.lineage]

(* Mutant: the legacy directory is deleted like a copy of it.              *)
UndoneLoses(r, step) ==
  LET h == host[Name(r)] was == found[r] IN
  CASE step = "user" -> [h EXCEPT !.user = 0]
    [] step \in {"logs", "webLogs"} -> [h EXCEPT !.logs = IF step = "logs" THEN "none" ELSE "empty"]
    [] step \in {"home", "promote"} -> [h EXCEPT !.home = NoHome]
    [] step = "transfer" -> [h EXCEPT !.home.docs = "none"]
    [] OTHER -> h

(* Mutant: the Unix user of an operation that is rolled back stays.        *)
UndoneKeepsUser(r, step) ==
  LET h == host[Name(r)] was == found[r] IN
  CASE step \in {"logs", "webLogs"} -> [h EXCEPT !.logs = IF step = "logs" THEN "none" ELSE "empty"]
    [] step \in {"home", "promote"} -> [h EXCEPT !.home = NoHome]
    [] step = "record" -> [h EXCEPT !.row = NoRow, !.jobs = 0]
    [] OTHER -> h

(* RemoveVHost, ApplyVHost, ApplyPool and writeCrontab give back what they *)
(* found.                                                                  *)
Undone(r, step) ==
  LET h == host[Name(r)] was == found[r] read == snap[r] IN
  CASE step = "user" -> [h EXCEPT !.user = 0]
    [] step = "logs" -> [h EXCEPT !.logs = "none"]
    [] step = "webLogs" -> [h EXCEPT !.logs = "empty"]
    [] step \in {"home", "promote"} -> [h EXCEPT !.home = NoHome]
    [] step = "transfer" -> TransferUndone(h, was, want[r].copy)
    [] step = "record" -> [h EXCEPT !.row = NoRow, !.jobs = 0]
    [] step = "status" -> [h EXCEPT !.row.status = read.row.status]
    [] step = "quota" -> [h EXCEPT !.row.quota = read.row.quota]
    [] step = "schema" -> [h EXCEPT !.schema = "none"]
    [] step = "database" -> [h EXCEPT !.db = 0]
    [] step = "pool" -> [h EXCEPT !.pool = was.pool]
    [] step \in {"vhost", "dropVHost"} -> [h EXCEPT !.vhost = was.vhost]
    [] step = "website" -> [h EXCEPT !.web = 0]
    [] step = "crontab" -> [h EXCEPT !.crontab = was.crontab]
    [] step = "jobs" -> [h EXCEPT !.jobs = 0]
    [] step = "certificate" -> [h EXCEPT !.cert = 0]
    [] step = "renewal" -> RenewalUndone(h, was)
    [] OTHER -> h

Undo(r) ==
  LET step == Steps(r)[at[r]] IN
  /\ Undid(r)
  /\ Undoable(r, step)
  /\ Becomes(r, Undone(r, step))
  /\ UNCHANGED <<nextId, foreign, want, snap, uid, found, torn, damaged>>

(* An undo that fails may have done its work all the same.                 *)
UndoFails(r) ==
  LET step == Steps(r)[at[r]] IN
  /\ DidNotUndo(r) /\ step # "commit"
  /\ host' = host \/ (Undoable(r, step) /\ step \in Tearable(r) /\ Becomes(r, Undone(r, step)))
  /\ UNCHANGED <<nextId, foreign, want, snap, uid, found, torn, damaged>>

(* Nothing is undone that a Commit step has confirmed.                     *)
StopAtCommit(r) ==
  /\ pc[r] = "undo" /\ at[r] > 0 /\ Steps(r)[at[r]] = "commit"
  /\ at' = [at EXCEPT ![r] = 0]
  /\ dirty' = [dirty EXCEPT ![r] = TRUE]
  /\ UNCHANGED <<lock, pc, data>>

Return(r) ==
  /\ Ended(r, Len(Steps(r)))
  /\ damaged' = IF r \in torn \/ pc'[r] \in {"inconsistent", "running"} THEN damaged \cup {Name(r)} ELSE damaged
  /\ snap' = [snap EXCEPT ![r] = Nothing]
  /\ found' = [found EXCEPT ![r] = Nothing]
  /\ uid' = [uid EXCEPT ![r] = 0]
  /\ UNCHANGED <<host, nextId, foreign, want, torn>>

(* The plan of r runs.                                                     *)
Runs(r) == Start(r) \/ Do(r) \/ Fail(r) \/ Undo(r) \/ UndoFails(r) \/ StopAtCommit(r) \/ Return(r)

-----------------------------------------------------------------------------
(* No plan is running on n, and none has left it damaged.                  *)
Settled(n) == n \notin damaged /\ (lock # NoRequest => Name(lock) # n)

(***************************************************************************)
(* Whatever plans overlap, a name that no plan has left damaged is either  *)
(* a subscription with all its parts - the user it records, the home that  *)
(* this user owns, the vhost and pool of its site, the schema of its       *)
(* database, a lineage for its certificate - or nothing but logs; no two   *)
(* subscriptions have one UID (prepareSubscription, nextUID, deletePlan).  *)
(***************************************************************************)
SubscriptionIsWhole ==
  \A n \in Names : Settled(n) =>
    /\ Whole(host[n])
    /\ host[n].row # NoRow =>
         \A m \in Names \ {n} : Settled(m) => host[m].row = NoRow \/ host[m].row.uid # host[n].row.uid

(***************************************************************************)
(* An empty log directory, which Delete leaves, goes with a rollback; and  *)
(* an adoption truncates the logs of a name that had some before, which no *)
(* undo of it can bring back.                                              *)
(***************************************************************************)
Tidied(h) == [h EXCEPT !.logs = IF @ = "full" THEN @ ELSE "none"]
Truncated(r) == Kind(r) = "adopt" /\ found[r].logs = "full"
Left(r) == IF Truncated(r) THEN [host[Name(r)] EXCEPT !.logs = "full"] ELSE host[Name(r)]

(***************************************************************************)
(* An operation that is reported rolled_back has left all it found as it   *)
(* was: in particular an adoption has given the legacy directory back, to  *)
(* its place and its owner (undoTransfer, and chown which has no Undo).    *)
(* A change of the row puts back what its preparation had read.            *)
(***************************************************************************)
RolledBackRestores ==
  [][\A r \in Requests :
       pc[r] = "undo" /\ pc'[r] = "rolled_back" /\ r \notin torn /\ Name(r) \notin damaged
       /\ (Kind(r) \in {"status", "quota"} => snap[r].row = found[r].row) =>
         Tidied(Left(r)) = Tidied(found[r])]_plans
=============================================================================
