----------------------------- MODULE MC_Backup -----------------------------
(* Backup with two names, three operations and two backups.                *)
EXTENDS Backup, TLC

CONSTANTS acme, shop, b1, b2, old

Create(n) == [kind |-> "create", name |-> n]
Database(n) == [kind |-> "database", name |-> n]
Status(n, s) == [kind |-> "status", name |-> n, to |-> s]
Limit(n, q) == [kind |-> "quota", name |-> n, to |-> q]
Adopt(n, copy) == [kind |-> "adopt", name |-> n, copy |-> copy]
Delete(n) == [kind |-> "delete", name |-> n, force |-> TRUE, after |-> NoBackup]
DeleteArchived(n) == [Delete(n) EXCEPT !.force = FALSE]
Restore(n, from) == [kind |-> "restore", name |-> n, from |-> from, after |-> NoRequest]
Replaced(n, after) == [Delete(n) EXCEPT !.after = after]
Replacing(n, from, after) == [Restore(n, from) EXCEPT !.after = after]

Empty == Blank
Legacy == [Empty EXCEPT !.source = "legacy", !.lineage = "legacy", !.logs = "empty"]
Plain ==
  [Empty EXCEPT !.row = [id |-> 1, uid |-> 1, status |-> "active", quota |-> 0],
                !.user = 1, !.home = [owner |-> 1, docs |-> "none"], !.logs = "empty"]
Used ==
  [Plain EXCEPT !.home.docs = "own", !.logs = "full", !.web = 1, !.vhost = TRUE, !.pool = TRUE,
                !.db = 1, !.schema = "data", !.cert = 1, !.lineage = "managed", !.jobs = 1, !.crontab = TRUE]

Given(h, taken, wishes) ==
  {[host |-> (acme :> h) @@ (shop :> Empty), foreign |-> taken, want |-> w] : w \in wishes}

(* An operation that is always refused.                                    *)
None == Limit(shop, 0)

(* New names, with two UIDs that are free or one; a name taken over; rows  *)
(* that change; deletions that overlap; a loss and a restore, also twice;  *)
(* restore --force, undisturbed or not.                                    *)
MCScenarios ==
  Given(Empty, {}, {<<Create(acme), Create(shop), Delete(acme)>>})
  \cup Given(Empty, {2}, {<<Create(acme), Create(shop), Delete(acme)>>})
  \cup Given(Legacy, {}, {<<Adopt(acme, FALSE), Create(acme), None>>, <<Adopt(acme, TRUE), Delete(acme), None>>})
  \cup Given([Legacy EXCEPT !.logs = "full"], {}, {<<Adopt(acme, FALSE), None, None>>})
  \cup Given(Plain, {}, {<<Status(acme, "archived"), DeleteArchived(acme), Status(acme, "suspended")>>,
                         <<Delete(acme), Database(acme), Create(acme)>>,
                         <<Limit(acme, 1), Replaced(acme, b2), Replacing(acme, old, 2)>>,
                         <<Delete(acme), Restore(acme, old), Restore(acme, old)>>})
  \cup Given(Used, {}, {<<Delete(acme), Delete(acme), Create(acme)>>,
                        <<Delete(acme), Restore(acme, b1), None>>,
                        <<Replaced(acme, b2), Replacing(acme, old, 1), Create(acme)>>})
  \cup Given([Used EXCEPT !.db = 0, !.schema = "none"], {}, {<<Replaced(acme, b2), Replacing(acme, old, 1), Database(acme)>>})
=============================================================================
