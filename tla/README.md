# provctl in TLA+

`provctl` administers one web server: it keeps subscriptions (a Unix user with
a home), their websites, PHP-FPM pools, certificates, cron jobs, SSH keys,
databases and backups in a SQLite database, and makes the machine (Apache,
PHP-FPM, certbot, MariaDB, crontabs, `authorized_keys`) agree with it. Every
change is a *plan*: a list of steps, each with a `Do` and perhaps an `Undo`,
that `plan.Executor` runs under one file lock with a journal row.

This directory models that program, checks it with TLC and proves with TLAPS what
is claimed of the executor, Apache, certificates, accounts, PHP-FPM and the interface, for
any number of operations. All paths below are relative to the repository.

## 1. Inventory

| component | state it keeps | operations | talks to |
|---|---|---|---|
| **Executor, journal, lock, audit** `plan/`, `repository/sqlite/operations.go`, `system/flock.go`, `audit/` | the flock on `/run/provctl.lock`, a row of `operations` per plan, the audit file | `Executor.Run`, `rollback`, `FileLocker.Lock`, `OperationJournal.Start/Update` | called by every service through the CLI, the TUI |
| **Apache vhosts** `service/apache.go` | `sites-available`, `sites-enabled`, what the server has loaded | `Apply`, `ApplyVHost`, `SetVHostEnabled`, `RemoveVHost`, the restore each returns | called inside website plans, and outside any plan by the certificate service |
| **Websites** `service/website.go`, `repository/sqlite/websites.go` | rows of `websites`, `domains`; document root, logs, vhost | create (static, PHP, proxy, redirect), delete, alias add/remove, enable/disable, document root, target, log directory | Apache, PHP-FPM, certificates |
| **Certificates** `service/certificate.go` | rows of `certificates`, certbot lineages, the TLS vhost | enable, disable, reconcile aliases, deploy hook, delete | Apache, certbot; takes no lock and keeps no journal |
| **PHP-FPM** `service/phpfpm*.go`, `service/php_set.go` | pool files, sockets | `ApplyPool`, `RemovePool`, switch of the PHP version | systemd, Apache |
| **Cron, SSH, databases** `service/{cron,ssh,database,mariadb}.go` | crontab, `authorized_keys`, shell, password, MariaDB databases, their rows | add/remove/update, access mode, create/delete/passwd | executor |
| **Subscriptions, adoption** `service/{subscription,adopt}.go` | Unix user, home, row; everything above that belongs to it | create, delete, set quota, adopt an existing site | all the others |
| **Backup, restore** `service/backup.go` | archives, rows of `backups` | create (under a lock of its own), restore (delete, then create and copy) | subscriptions, MariaDB |
| **Reconcile** `service/reconcile.go` | none (drift is computed) | prepare, a plan that rewrites vhosts | Apache, pools |
| **Bootstrap, doctor, health, migrate** | none | one-shot installation, inspection | packages, systemd |
| **Repository** `repository/sqlite/` | the schema | queries, constraints, migrations | all services |
| **Terminal UI** `ui/` | screen model, `opSlot` generations, progress channel | asynchronous reads, one running operation | services |
| **CLI, configuration, rendering, domain** | none | flags, TOML, templates, validation | services |

### How they interact

1. A command (or the UI) calls `Prepare…` of a service. It reads rows and files
   **without the lock**, validates, and closes over what it has read in a plan.
2. The plan may wait for a confirmation, then for the lock.
3. `Executor.Run` takes the flock, inserts the row, runs the steps; after each
   one it stores the snapshot; a failure undoes the completed steps from the
   newest down; a last write settles the row; the lock is dropped and an audit
   entry is appended.
4. `SSLService` skips 2 and 3: it changes the vhost and the rows directly, beside
   whatever plan is running.

### What is hard here

* **Failure at every point**: a step, its undo, each journal write, the audit
  write; the deadline of the command cancels *all* of them from one moment on.
* **Crashes** between a change and its record, between the two file operations
  of one change.
* **Stale plans**: everything between `Prepare` and the lock.
* **Callers outside the lock**: TLS operations write the same vhosts.
* **Order**: of file and link, of vhost and row, of undo, of unlock and audit.

`PROJECT.json` lists the forty places where these bite, each at its line, with
the properties that cover it.

### What makes each component correct

* *Executor*: one operation at a time; the row, once settled, says what is in
  the system; a rollback goes from the newest step down and stops at a commit
  boundary; every call returns.
* *Apache*: a failed or undone change leaves file and link as they were; no link
  to a missing file at any moment; a restart would always succeed; what a
  successful call wrote stays.
* *Websites*: a row has its vhost and a vhost its row after any failure; contents,
  aliases and quota agree unless a plan was stale; a rollback restores.
* *Certificates*: a row that says TLS has a lineage and a vhost that names it; a
  failed call leaves the site as it found it until certbot has answered.
* *PHP-FPM*: no two pools on one socket; a failed switch brings the old pool back;
  no master gives up because another version has a socket it wants.
* *Cron, SSH, databases*: the generated file holds exactly the recorded entries;
  a database has a row and a row a database.
* *Subscriptions*: a name is a subscription with all its parts or nothing; no two
  have one UID; a failed adoption gives the legacy directory back.
* *Backup*: an archive that is accepted has all of its subscription; nothing is
  deleted for a restore before there is one.
* *UI*: an answer to a replaced question is dropped; the operation never blocks
  on a reader that left.

## 2. Modules

| module | models | state |
|---|---|---|
| `SerialOperations` | the contract of the executor: enter, open a row, work, settle truthfully, leave | lock holder, verdict and residue of each operation |
| `PlanExecutor` | `Executor.Run`, `fail`, `rollback`; `FileLocker.Lock`; `OperationJournal`; the deferred unlock and audit | program counter, snapshot, row, effect of each step, lock, deadline |
| `PlanExecutor_proofs` | types, mutual exclusion, the truth of settled and running rows, audit, order of rollback, Commit steps, and that `PlanExecutor` implements `SerialOperations`, proved | |
| `Apache` | the four vhost operations and their restores, one action per file operation or command | disk, loaded configuration, server state, each call |
| `Apache_proofs` | its five properties, proved for callers of which the unlocked ones keep to sites of their own | |
| `Website` | the plans of `WebsiteService` as steps of the executor over rows and machine | per domain: row, vhost file, link, directories, logs, pool, certificate; each request |
| `Website_proofs` | its five properties, proved | |
| `Certificate` | `SSLService`, the renewal with its deploy hook, and the plans that write the same vhost (aliases without TLS, reconcile) | one site: row, vhost, link, certbot's lineage, certificate row; each call |
| `Certificate_proofs` | its five properties, proved | |
| `PlanControl` | the control part of a plan as a service sees it: prepared, refused, started, a step, a failure, an undo, a verdict | lock, position and verdict of each request |
| `Accounts` (extends `PlanControl`) | the plans of `CronService`, `SSHService` and `DatabaseService` | rows, crontab, `authorized_keys`, shell, password, MariaDB |
| `Accounts_proofs` | its four properties, proved | |
| `PhpFpm` (extends `PlanControl`) | `ApplyPool`, `RemovePool` and their restore, the masters that read their pools late, the plans that switch, create and delete a pool | rows, pool directories, which master runs, listens where and has to read again |
| `PhpFpm_proofs` | its three properties, proved | |
| `Subscription` (extends `PlanControl`) | the plans of `SubscriptionService` (create, adopt, status, limits, delete) and the operation of a restore | per name: rows, user, home, logs, vhost, pool, schema, crontab, lineage, legacy directory |
| `Backup` (extends `Subscription`) | `BackupService.Create`, `Inspect`, restore and restore --force, composed with the plans | per backup: how far it is, its row, archive, checksums |
| `Backup_proofs` | the four properties of `Subscription` and `Backup`, proved | |
| `Ui` | the Update loop of the terminal interface: selection, replaceable reads, popup, confirmed changes and their channels | `m` (appModel), reads in flight, the changes, their channels, the goroutines that wait for a message |
| `Ui_proofs` | its five properties, proved | |
| `MC_…` | instances for TLC | |

### PlanExecutor and the code

One process per operation. `pc` names the place in `Run`: `wait` (the poll of
`Lock`), `journal` (`Start`), `step` (`Do` of `position`), `record` (the
`Update` after it), `failure` (the `Update` in `fail`), `undo`, `recordUndo`
(the loop of `rollback`), `finish` (the last `Update`), `release`, `audit` (the
two deferred calls in the order Go runs them). `completed` is the interval
`boundary+1 .. position`, because steps are appended in order and cleared at a
commit step. `mark` is the snapshot in memory, `row` the row in the database:
they differ exactly while a write is missing. A `Do` that fails may have left a
part of its effect; one that succeeds left all of it. A step is described only by
what the executor can see of it (`undo`, `commit`) and by whether its calls
honour the context (`ctx`: commands and SQL do, file operations do not).
`Expire` is the deadline of the command: from then on all writes of the journal
are refused and steps that honour the context fail. `Crash` stops the process
anywhere and the kernel drops its flock.

### Apache and the code

One caller per operation in flight. `Locked` callers run inside a plan; the
others are `SSLService`. `Changes` and `Restores` are the sequences of file
operations; `Possible` is the condition under which each succeeds (`Symlink`
on a free name, `Remove` on one that exists). `seen` is what the call has read
and will restore, `origin` (history) what was there when it began. `Valid` is
what `apachectl configtest` accepts, `Fatal` contents it accepts and the server
does not survive, so that the activity check matters.

### Website and the code

A request is prepared (`snap` is the row it has read), waits, runs the steps of
its plan (`Steps`), each possible under `Possible` and undone by `Undone` when
`Undoable`. The Apache calls are atomic here (module `Apache` has their inside),
with one exception: a step that fails may leave what `TornBy` names. A vhost is
the rendering of a row (`Rendered`: aliases, configuration, type), so "the vhost
matches the row" can be said. `stale` and `torn` are history: which requests were
prepared before another one changed something, and which failed inside a step.
The certificate of an `Adopted` site is not provctl's, so a deletion leaves its
lineage. A change to one of `LogConfs` has a step more, the directory for the
logs, whose Undo leaves it there.

### Certificate and the code

A call is a sequence of named steps (`Steps`): `http` and `https` install a
vhost, `issue` is certbot, `inspect` reads the expiry, `flag`, `name`, `record`
and `refresh` write the database; `check` is the check of the renewal at the end of an
Enable, a dry run or, if the configuration names a server, a renewal (`Renews`). `snap` is what the call has read before its first
step and everything it renders follows from that (`Names`, `VHost`). TLS calls
start at once; plans wait for `lock`. `UndoneFrom` says how much of a call that
fails is taken back: by `undoHTTP`, by the deferred undo of `ReconcileAliases`, by
the executor, or nothing (`Disable`, the hook). A certificate has the names it
was issued for and a serial number that stands for its expiry. certbot may have
replaced the lineage before it fails, because the deadline of the command stops it.
A site where TLS is enabled again meets its old certificate row (`Recorded`), and certbot
may answer with the lineage it has (`Keeps`). `issued`, `kept`, `renewed`, `torn` and
`overlapped` are history.

### Accounts and the code

The steps of a request are named in `Steps` in the order of the plan; `Done` and
`Undone` say what a step and its undo make of the account. crontab and
`authorized_keys` are rewritten as a whole from what the preparation has read
(`snap`), and put back from what the step has found (`saved`). `TornBy` is what a
step that fails may have done all the same: a command whose deadline has passed, a
file that was written and not given to its owner, and `CREATE DATABASE`, whose
clean-up drops whatever has the name. The undo of a new key deletes by fingerprint, so with
two rows of one key it deletes both and then fails (`UndoFails`). `Before` has a new subscription and one in
use, with cron jobs, keys and databases.

### PhpFpm and the code

A master is `up` or has given up, `listens` on the sockets of some sites and, after a
reload, is in `reloading` until it has read its pool directory again (`Reread`, which is
external: php-fpm answers SIGUSR2 when it likes, and no operation waits for it, so the next
one may start before). The path of a socket has no version in
it, so a master that finds another one on a socket it wants gives up with all its sites.
`ApplyPool` and `RemovePool` write, test, reload and look at the service; `FailClean`,
`ApplyFails` and `RemoveFails` are their error paths, with and without the restore;
`Release` is the wait for the old master, `Verify` the look at the socket. `waits` is what
the preparation has seen of the old pool, `had` what a step has found and its undo puts
back. `contested`, `torn` and `undone` are history; a creation is `contested` when another
version has the pool of its site or still listens on its socket (`Elsewhere`) as it writes
its own.

### Subscription and the code

All that a name stands for is one record: the rows of its subscription, of one PHP site,
one database, its certificate and its cron jobs, each with the id of the subscription it
refers to (so RESTRICT, CASCADE and SET NULL can be said), and what the machine has. The
steps of a plan follow from what its preparation has read (`snap`, for a restore the
archive). Steps of one kind are one step: the base directories are `home`, the log files
of an adopted site `webLogs`; `lock` is the locking of the password. `Possible` is what
each needs (useradd wants a free name and UID; rows go by name or by the id that was
read), `Done` and `Undone` what it does, `Tearable` the steps that may fail with their
work done. `Free` is `nextUID`. `StopAtCommit` ends the rollback of an adoption at its
commit step. After a failure nobody vouches for (`inconsistent`, a crash, a torn step)
the name is `damaged`, history that the invariant excepts. `Whole` is what a name is
while it is not damaged, and what the scenarios start from.

### Backup and the code

`Create` is a process of its own: it reads the row and the quota (`Look`), takes the lock
of the subscription and inserts the row (`Begin`), then files, dumps, lists, checksums and
the last update, while plans run. `Inspectable` is what `Inspect` accepts: the checksums,
not the status. `restore --force` is three requests, each of which waits for the one
before (`InTurn`) and for nothing else. `Attachment` is the foreign key of `backups` and
`ReassignOrphanedBackups`. `shot` (the host when the backup got its lock) and `mixed` (a
plan worked on the subscription meanwhile) are history.

### Ui and the code

`m` keeps of `appModel` what decides where a key and a message go: the selected
subscription and domain, whose domains are listed, the workspace, the popup and the
checklist. A read in flight remembers its slot, what it asked for and whether its
generation is the slot's (`current`). A confirmed change runs in a worker
(`Report`, `Apply`, `Finish`) that sends on a channel of `ChanCap` places, and
`waiting[o]` counts the goroutines that will carry the next message of that channel
to Update; `ProgressStart`, `ProgressStep` and `Result` are Update's cases, `Dismiss`
the key that ends a failed checklist. A command keeps a copy of the model of the
confirming key, so `Target` is taken there. Lists are reduced to the entry under the
cursor, which a load, a filter or another process may change. Four kinds of change
stand for all: one whose target is whatever is selected, the deletions of a domain
and of a subscription, the SSH change. History are `raced` (two changes were confirmed
before the checklist of the first was up), `steady` (the deletions of a domain since whose
confirming key the selection has not moved) and `strayed` (the selection was moved under
the list that is shown, or before the list of a deletion came, and is not back). Left out are quitting, forms and
editor, and the other reads (usage, databases, keys, cron jobs, backups, health,
logs, PHP), which have a slot of the same type. A subscription's state change reads the
subscriptions again where `toggle` reads the domains.

## 3. Runs

| run | question | instance |
|---|---|---|
| `executor` | Is the executor right, does it implement `SerialOperations`, does every call return? | two operations; plans: two undoable steps, a commit boundary followed by a step without undo, one step, none; all failures, deadline, crash. 413,868 states |
| `executor_deadline` | Is the row settled when `Run` returns? (**no**) | one operation, a database that never fails of itself |
| `apache` | Do failure, undo and crash leave Apache sound? | two plans on one site and a TLS call on another; four contents. 1,785,144 states |
| `apache_unlocked` | Does a successful write stay? (**not with a TLS call on the same site**) | one plan, one TLS call, one site |
| `website` | Do rows and machine agree, are rollbacks complete, is the quota kept? | three requests of eight kinds on two domains, one of which may be an adopted one, and one alias. 3,690,607 states up to symmetry of the requests |
| `website_overlap` | Is everything a row stands for there? (**not after overlapping creations**) | as `website` |
| `certificate` | What may overlapping, failing and crashing TLS calls, renewals, alias plans and reconciliations leave? | each pair of calls of eight kinds, one alias, nine states of the site. 1,229,106 states up to symmetry of the calls |
| `accounts` | Do generated files, shell, password and MariaDB agree with the rows, and do rollbacks restore? | three requests of one service at a time on a new and a used subscription. 3,965,046 states up to symmetry |
| `phpfpm` | Has every recorded site its pool and its socket, does every master survive? | three versions, two sites, three requests from five menus, a new site or one of the default version. 3,229,174 states |
| `phpfpm_recreated` | Is every domain served by the version it is recorded under? (**not after a deletion and a creation that follow each other too fast**) | a site of another version: deletion, creation, switch |
| `backup` | Is a name a whole subscription or nothing, do rollbacks restore, does an accepted archive bring everything back? | two names, two UIDs (or one), three requests from thirteen scenarios, up to two backups and one made before. 1,282,793 states |
| `ui` | Do late answers, moving lists and slow workers do what the user sees and confirmed? | two subscriptions (two domains, none), two changes of four kinds, a channel of one place. 2,860,022 states up to symmetry of the domains |

**Bounds.** Two operations are enough for the lock: every property of more than
one operation speaks of pairs. Plans of two steps show each kind of step above
and below each other kind that rollback tells apart (the theorems hold for any
length). Two callers on a site and one on another give every overlap of a plan
with a plan and of a plan with an unlocked call. Three requests let one be
prepared, a second one change what it read and a third one run between;
`Quota = 1` makes the quota bite at the second creation. `MaxId` bounds the row
ids in the type invariant only: each request inserts one row at most (a removal that is
undone inserts, one that is done does not), and an assumption asks for that room
(`BoundsAssumption` of `Website`, `BeforeAssumption` of `Accounts`).
`certificate` has two calls because its properties speak of one call after
another or of one that nothing overlaps; what a longer history leaves is in
the states it starts from: plain, TLS turned off again, TLS, link or vhost
removed by hand, the three that a crash in the middle of a TLS call leaves, and a vhost
that has lost a name of its row. The theorems hold for any number of calls and any site
in order (`BeforeAssumption`).
`phpfpm`: two masters meet on a socket, the third is the second target of a site that
moves twice; the second site shows what a master that gives up takes with it. The first menu
also switches a site, deletes it under its new version and creates it again, while the masters
may not have read anything yet; `phpfpm_recreated` starts at the deletion.
`backup`: the scenarios are menus of three requests, because all triples of seven kinds are out of reach;
each names a hazard: two creations with two free UIDs and with one, an adoption against a
creation or a deletion, the status against a deletion, a row that appears under a deletion,
overlapping deletions and restores, a restore during its backup, restore --force
undisturbed, against a creation and a new database, and under a quota. The second name
is there for the UIDs, a third would repeat it.
`ui`: a channel of 256 places blocks as one of one place does, only later; one
message between start and result shows every place where a message may be lost;
the user starts a read when no fresh one is in flight (`MaxReads`), results of
changes start theirs at any time, so a stale and a fresh read of one slot meet.

**Deadlock.** Checked for the executor (its `Terminated` is the intended end) and for `ui`, where
a key is always left to the user or a message on its way.
`apache`, `website`, `certificate`, `accounts`, `phpfpm` and `backup` end when all calls have returned, so
`CHECK_DEADLOCK FALSE`.

**Symmetry.** In `website`, `certificate` and `accounts` over the requests and calls: they
take their task from the same menu and no property distinguishes them; in `ui` over the
domains of one subscription. These runs have no liveness property.

**Fairness.** Only `FairSpec` of `PlanExecutor` has any: weak fairness of each
process that has been started, without the poll of a lock somebody else holds. It
says that the scheduler runs a live process and that steps, undos and writes
return; commands and SQL end with the context, file operations are local. No
outcome is assumed, nor that the deadline passes: `EveryRunReturns` holds
because the holder itself must return or die, which frees the lock, and with two
operations a waiter cannot be overtaken for ever.

## 4. What the checks show

*Executor.* `SettledRowTellsRemains` (a settled row names
every step that left something; `done` is all of the plan, `rolled_back` no
completed step, `inconsistent` at least one); `JournalLag` (a row left at
`running` is exact up to the step in flight, if no write was refused);
`AuditAgrees`; `UndoInReverse`; `CommittedStays`; `ImplementsContract` (which
includes mutual exclusion, also a theorem of its own); `EveryRunReturns`.

*Apache.* `NoDanglingLink` at every state, crashes included;
`SettledServerIsSound`; `NoLostUpdate` as long as the unlocked call is on another
site; `FailureRestoresDisk`; `ReturnedSiteIsLive`.

*Websites.* `RowHasVHost` under any overlap; `FreshVHostMatchesRow` and
`FreshQuotaKept` for requests that were not stale; `RolledBackRestores`.

*Certificates.* `NothingWithoutLineage` (neither vhost nor rows ever refer to a
certificate that was not issued, under any overlap); `ServedNamesAreCovered` between
calls, after failures and crashes too, but for a call that failed after certbot had taken
away a name of its vhost or row (`Shrunk`); `SuccessAgrees`; `FailureRestores`: a change of the names, a plan and an Enable
that fail leave the site as found, a Disable leaves it so or with the plain vhost. It
excepts calls that overlapped, calls whose restore failed too, and every call certbot had
answered, be it with a new certificate or with the lineage it kept: after that Enable undoes
nothing, so an enable on a site with TLS that fails at the inspection or at the TLS vhost leaves
plain HTTP although the certificate is the same (finding 30).

*Accounts.* `RowIsDatabase` (a database and its user are there exactly when the row
is); `DoneAgrees` (success makes the files agree with the rows whatever was there
before); `RolledBackRestores`.

*PhpFpm.* `RowHasItsPool` (one pool, under the recorded version, and the socket with that
master once it has read its pools); `MastersSurvive` (no operation takes a master down).
Operations follow each other without waiting for the masters. What then does go wrong is
excepted by name: pool steps that were undone (`undone`), and creations that came while
another version had the pool or the socket of their site (`contested`); which pool files
there are is asserted for those, too. Run `phpfpm_recreated` has the counterexample without
the second exception.

*Subscription and Backup.* `SubscriptionIsWhole` (user, home, vhost, pool, schema and
lineage agree with the rows and no two subscriptions have one UID; of a deleted name
nothing is left but logs); `RolledBackRestores` (an adoption gives the legacy directory
back); `RestoreBringsBack` (restore --force deletes nothing before a complete archive is
there, and a restore that succeeds brings back what the archive's subscription had).

*Ui.* `ReadsFollowSelection` (an answer that would still be taken is for the selected
subscription); `ListFollowsSelection` (the domains listed are those of the selected
subscription, although lists come late and without the selected entry and a deletion brings
one with its result; not if the selection was moved by a filter or an SSH change, which
keep the list, or between a deletion's confirming key and its result: finding 31);
`FailureIsShown` until it is
dismissed; `SomebodyListens` (the worker of a change is never left with a channel
nobody reads). The last two except two changes that race, the first two what keeps the
details.

### Where code and documents disagree

1. **The deadline settles nothing** (`executor_deadline`). The `lock_timeout`
   context bounds the whole `Run`; after it passes even the final write is refused
   and the row says `running` after the command has returned.
2. **TLS outside the lock** (`apache_unlocked`). `SSLService` writes vhosts without
   the operation lock; its undo can take back a plan's successful write.
3. **Two creations of one domain** (`website_overlap`). The uniqueness of the name
   is checked at preparation and again only by the last step; the rollback of
   the second creation removes the log files and directory of the first.
4. `RunningOperations` has no caller: nothing reports interrupted operations at
   start (modelled as: no action reads a `running` row).
5. A step in flight is not journalled as running (modelled by `JournalLag`, which
   excepts it).
6. A rolled-back delete re-creates the row without its aliases (`Reinserted`;
   `FreshVHostMatchesRow` excepts it).
7. The rollback of a delete that fails after `certbot delete` puts a TLS vhost back
   whose certificate is gone (`Loads` in `Website`); Apache's configuration test fails
   from then on.
8. `Enable` installs the TLS vhost before it writes the row, the specification
   orders it after; a failure between leaves TLS without the row
   (`SuccessAgrees` speaks of calls that succeed only).
9. A certificate row that exists is not updated when TLS is enabled again (`Recorded`).
10. A removal of a name that fails after certbot restores a vhost the new certificate
    does not cover. So does a call on a site whose vhost has lost a name: it issues for
    the names of the vhost, and a reconciliation writes those of the row (`Shrunk`, the
    exception of `ServedNamesAreCovered`).
11. A key is written whatever the access mode is: `authorized_keys` is not empty in a mode
    without keys (`Listed`, which asks for no mode).
12. The clean-up of a failed `CREATE DATABASE` drops the database another
    operation has created and recorded (`TornBy`; `RowIsDatabase` excepts it).
13. The undo of an access change that was prepared before another one puts back the
    shell of the older mode (`RolledBackRestores` excepts stale operations).
14. Enabling, TLS, PHP and the state of a subscription act on the selection of the
    confirming key, not on what the popup named; a list that loads under the popup moves it
    (`Confirmed`, a guard of the model; no property restates it).
15. A filter key moves the selection and keeps the reads of the former one
    (`FilterKey`; `ReadsFollowSelection` excepts it).
16. Two changes confirmed before the first checklist is up share it: a failure can
    be erased, a channel abandoned (`raced`).

17. The undo of a version switch does not wait for the socket: the old master can meet
    the new one and give up (`MastersSurvive` excepts `undone`).
18. A switch prepared while another one is rolling back does not see the old pool
    and leaves two (`Blind`, excepted).
19. `RemovePool` can fail with the pool removed (`torn`).
20. The specification installs the new pool before it removes the old one; the code does the
    opposite, and has to (mutant `StepsInstallFirst`).
21. A deletion that waits while its name is deleted and created again destroys the
    new subscription: its last steps go by name (`Possible`).
22. A deletion that has removed the home cannot be run again (`Deletable`).
23. Archiving and suspending change the row only; no backup is made (`Steps`).
24. A deletion leaves the crontab (`DeleteSteps`).
25. The lock of a backup excludes no plan: an archive may miss what a deletion took
    meanwhile and be complete (`mixed`; `RestoreBringsBack` excepts it).
26. A move that fails in `chown` is given back with other owners (`TransferUndone`).
27. A backup that died counts against the quota for ever (`GiveUp`, `Shelved`).
28. **A site created again too soon is not served** (`phpfpm_recreated`). A reload only
    signals the master. After a deletion under another version than the default one the
    former master may still have the socket when the site is created again: the check of
    the socket passes on it, the default master gives up with all its sites when it reads,
    and the recorded site has no socket. A creation prepared before another one of its
    site, which has moved to another version since, does the same (`contested`, excepted in
    `RowHasItsPool` and `MastersSurvive`).
29. An adoption writes the logs that a former deletion has left empty, and its undo
    removes them (`Truncated`, excepted in `RolledBackRestores`). No scenario of the run
    had a legacy site and such logs before the proof asked for one.
30. Once certbot has answered, Enable returns its errors without undoing: a site with TLS
    stays on plain HTTP under a TLS row, or a plain one on TLS without the row; Disable
    never undoes (`issued`, `kept`, excepted in `FailureRestores`).
31. The list a deletion of a domain brings with its result is shown under whatever
    subscription is selected by then; no generation guards it (`strayed`, excepted in
    `ListFollowsSelection`).
32. `RemoveVHost` that has removed the link and cannot remove the file restores nothing: the
    deletion is rolled back and the site disabled (`abandoned` in `Apache`, `torn` in
    `Website`; excepted in `FailureRestoresDisk` and `RolledBackRestores`).

## 5. What is proved

Every invariant and action property of the runs `executor`, `apache`, `website`,
`certificate`, `accounts`, `phpfpm`, `backup` and `ui` is a theorem. TLC checks them for
two or three operations on one or two sites; the theorems hold for any number of them.
Only liveness is left to TLC.

### The executor

Any set of operations, every plan of every length, every outcome and any number of
crashes, from the three assumptions of `PlanExecutor` (`NoOp` is not an operation; plans
are sequences of steps; `JournalMayFail` is a Boolean).

`PlanExecutor_proofs`:

* `TypeCorrect`: `Spec => []TypeOK`;
* `OneOperationAtATime`: `Spec => []MutualExclusion`;
* `SettledRowsAreTrue`: `Spec => []SettledRowTellsRemains`.

Neither of the last two is inductive by itself. The inductive invariant is

    IInv == Typed /\ LockOwned /\ \A o \in Ops : Sound(o)

`LockOwned` says that an operation is in a held section exactly when it is the
one named by `lock`, which gives mutual exclusion. `Sound(o)` relates, for each
place in `Run`, the position, the marks, the effects and the row: steps up to the
position are done and in the system, those above are untouched or the failed one,
the stored row agrees with the snapshot where it was written last. The truth of a
settled row follows from its last conjunct. Each action has one step in the proof
that the invariant is preserved, and one below for each part it can disturb; an
action of one operation leaves the parts of all others alone by a lemma of its
own (`Frame`).

Its second part, from `JInv == IInv /\ \A o \in Ops : Honest(o)`:

* `RunningRowsAreExact`: `Spec => []JournalLag`. `IInv` says nothing of the marks in a
  running row, so `MarkTrue` (marks and effects agree but for a call that a crash cut
  short) and `RowCurrent` (the row is the snapshot but for the step about to be
  recorded) are added;
* `AuditLogIsTrue`: `Spec => []AuditAgrees`, by `ErrorTrue`: `Run` returns an error
  exactly when its row does not say done;
* `RollbackIsInReverse`: `Spec => UndoInReverse`: above the position of a rollback
  only steps remain that it has noted;
* `CommittedStepsStay`: `Spec => CommittedStays`: calls happen above the boundary only,
  and `NoneCommitted`: a rolled_back row has none.

Its third part:

* `ExecutorImplementsContract`: `Spec => ImplementsContract`. The mapping is `Contract`:
  lock to `holder`, status of the row to `verdict`, steps with an effect to `residue`. Each
  action is a step of the contract or none (`ContractStep`). A last write is `Settle` of
  the contract because `SettledTruth` holds after it and at most one step is marked
  failed (`OneFailed`), which is the remains a rolled_back operation may have.

### Apache

`Apache_proofs`, for any sites, bodies, callers and jobs. `TypeCorrect` (`TypeOK`) needs no
hypothesis. The other five assume `Apart`: a caller that does not take the operation lock
has its sites to itself. Run `apache_unlocked` shows that they fail without it, and run
`apache` has such callers.

The invariant `DiskInv` says who may write (`Holding`: a call inside a plan works only
while its plan has the lock; `Owns`: one that has returned nil may still be undone) and,
for whoever may, where the site stands between what the call found and what it wants
(`Track`: untouched, between the two file operations, changed). From it follow

* `LinksNeverDangle`: `Spec => []NoDanglingLink`, at every moment and after every crash;
* `FailuresRestore`: `Spec => FailureRestoresDisk`.

The rest adds one invariant each. `SoundInv`: a site the server could not live with has a
call at work that will put it back, what a call would put back is sound, a server that is
down has a call that will notice; hence `SettledServers`: `Spec => []SettledServerIsSound`.
`LiveInv`: what a call has reloaded is on disk while it looks at the server; hence
`ReturnedSitesAreLive`: `Spec => ReturnedSiteIsLive`. `LostInv` says where the contents of
a successful write are (on disk, or in what another call would restore, unless another
call has ended for good since); hence `NoUpdateIsLost`: `Spec => []NoLostUpdate`.

### Websites

`Website_proofs`, for any domains, aliases, settings and quota, any number of requests and
whatever overlaps, fails, is torn or is undone. Assumed: the names are distinct
(`NamesAssumption`); the ids suffice for the rows there are and one per request
(`BoundsAssumption`; the code's ids have no bound); at first there is what plans leave, a
vhost for each row, linked if the row is enabled, and no more rows than the quota
(`BeforeAssumption`, with `InOrder`). Four invariants, each on top of `Typed`:

* `Typed` adds to the types where each plan stands (`Placed`; `Pos` gives each step its
  place in the plans that have it), what its preparation has checked (`Read`) and the ids
  left for `Inserters`, the requests that may still insert a row. Hence `TypeCorrect`;
* `TraceInv`: the plan that runs has made of its site what the steps that stand make of the
  site it has found (`Trace`, a part for each kind of plan), on the way forward and back.
  Nothing else can change the site, since a plan that runs has the lock. `Trace` also names
  what an undo does not give back: a row of a new id without aliases after a deletion, and
  the settings as read at preparation after an update. Hence `RollbackRestores`:
  `Spec => RolledBackRestores`, stale plans included;
* `VHostInv`: a site no plan works on is `Tidy`, a vhost for each row and a row for each
  vhost, and so was the site the running plan has found. When a plan ends, `Trace` with all
  its steps standing (`TidyEnd`) or none turns the second into the first. Hence
  `VHostOfRow`: `Spec => []RowHasVHost`. While nothing is stale, `Tidy` has the contents too
  (`Matched`), for which a plan needs that it works on the row it has read (`FreshRead`):
  hence `FreshVHostOfRow`: `Spec => []FreshVHostMatchesRow`;
* `QuotaInv`: a creation that is ready or runs without its row yet, and a deletion
  that may put its row back, have room for it (`HasRoom`). That the quota is looked at only
  once does no harm while every plan is fresh, because who changes the number of rows
  outdates those that wait. Hence `QuotaOfFreshPlans`: `Spec => []FreshQuotaKept`.

### Certificates

`Certificate_proofs`, for any names, any number of overlapping calls and any sites to
start from that are in order (`BeforeAssumption`), in three layers:

* `BackedInv`: for whatever a call may still install, refer to or put back, there is a
  lineage, because there was one when it read the site or it has issued one. Hence
  `TypeCorrect` (the serials stay in their type because each call issues twice at most, with its order and
  its check of the renewal) and
  `NothingDangles`: `Spec => []NothingWithoutLineage`, under any overlap;
* `TrackInv`: a call that overlaps with no other is `Alone`, and the site is what it has
  found changed by the steps done (`Forward`), or by those not yet taken back (`TLSBack`,
  `PlanBack`). Hence `SuccessIsAgreement`: `Spec => SuccessAgrees`, and
  `FailureIsRestored`: `Spec => FailureRestores`, for the calls section 4 names: an Enable
  that certbot has answered is one of those the theorem does not speak of;
* `CoverInv`: between calls, and in what a call has read, the names of vhost and row are
  covered. Hence `ServedIsCovered`: `Spec => []ServedNamesAreCovered`.

The last one was false when the proof began: `Shrunk` spoke of the names of the vhost
only, and no start state of the run had a vhost with fewer names than its row. Such a
site, a failed removal and a reconciliation make Apache serve a name without
certificate (finding 10); the state is in the run now.

### Accounts

`Accounts_proofs`, for any commands, keys and databases, any requests and any accounts to
start from that a plan could have left (`BeforeAssumption`), under any overlap.

* `TypeCorrect`: ids and row counts stay in bounds because a request inserts one row at
  most; `Room` counts those that still may;
* `RecordedDatabasesAreThere`: `Spec => []RowIsDatabase`. The invariant `DatabaseInv` says
  which database a running plan has between two steps (`Building`: made and not yet
  recorded, or no longer recorded and not yet dropped), all others being whole. That a
  prepared plan may be stale does not matter: `CREATE` and the row refuse a name that is
  taken, the deletion of a row one that is gone;
* `DoneLeavesTheRecorded`: `Spec => DoneAgrees`, and `RolledBackIsBefore`:
  `Spec => RolledBackRestores`. `TrackInv` says that the account of a plan that is not stale
  is what it has read changed by the steps that stand (`Progress`, a part for each kind of
  plan), on the way forward and back; others cannot interfere, because what they change
  makes those that are prepared stale, and what runs has the lock. `ModeInv` (the shell is
  that of the recorded mode as long as nothing was stale) is what the undo of an access
  change needs, which computes the shell from the mode.

### PHP-FPM

`PhpFpm_proofs`, for any versions, sites and requests, from `PhpFpmAssumption`, in two layers:

* `FilesInv` for the pool directories and rows, while nothing is damaged: a site nothing
  works on has one pool, under the recorded version; under a running plan it has the pools
  its steps up to `Height` have made (`Files`), what each step has found (`had`) being what
  its undo puts back. `TypeCorrect` is below it (`Typed` adds where each plan stands);
* `SocketInv` for the masters, while `Calm` (nothing undone, no contested creation): no site
  has two pools (`OnePool`), who is down has none (`MastersRun`), who has read serves what it
  has (`PoolsAreServed`), nobody else listens on a socket that a pool is for
  (`SocketsAreFree`), and who listens without a pool will read soon, or is what a failed
  creation or switch leaves (`NoLeftovers`). `SocketIsFree` carries the wait of
  `waitForSocketRelease` to the step that installs the new pool; a creation has no such
  step, and what it would need is what `contested` records the absence of. That masters
  read late, also while the next operations run, is part of the invariant.

`RowsHaveTheirPools` (`Spec => []RowHasItsPool`) takes its first half from `FilesInv`, its
second from `SocketInv`; `MastersDoSurvive` (`Spec => []MastersSurvive`) follows from
`MastersRun`. `MastersSurvive` was false when the proof began (finding 28). Neither theorem
assumes that an operation waits for the masters, and both say nothing of a site that was
created while another version had its socket.

### Subscriptions and backups

`Backup_proofs` is about the composition, plans of `Subscription` with the backups of
`Backup`: any names, UIDs, requests and archives, whatever overlaps, fails, is torn, crashes
or is undone. `SubscriptionAssumption` says: finitely many names; the values for nothing
(`NoRow`, `NoHome`, `NoBackup`, `Nothing`) are none of the things they stand beside; each
scenario starts from names that are `Whole` and have users of their own, which is what the
invariant shows the plans to leave. One inductive invariant, `IInv`, in five parts:

* `Placed`: who has the lock runs, and stands at a place of its plan. A plan follows from
  what its preparation has read; `Pos` gives the place of a step in it, `Stands` says that a
  step is done and not undone. That `Steps` and `Pos` agree for every kind of plan and every
  host (`StepPlaces`) is most of the work on data;
* `Read` and `Grounded`: what a preparation has checked still holds of what it has kept,
  and the steps that stand have made what the next ones rest on, even after a tear;
* `Trace`, a conjunct for each part of a host: the name is what the plan has found, changed
  by the steps that stand, on the way forward and, while the rollback is clean, back. A
  plan may have been prepared long before it starts, so the invariant compares with what
  the start has found, and each step is shown to be refused when its reading is outdated
  (`Possible`) or to do the same to what is there;
* `Before(n)` is `Whole` for every undamaged name, and users differ: for the name under
  work it is the host its plan has found, for others the host itself. The plan that runs
  may be half done; it turns one whole name into another when it ends (`MadeWhole`: all its
  steps stand) or into the one it had found (`NothingLeft`: none does);
* `Archived` and `Faithful`: an archive has the parts its backup has already written, and
  these are those of the host when it took its lock, unless a plan has worked on the
  subscription (`mixed`); sealed archives never change.

Hence

* `TypeCorrect`: `Spec => []TypeOK`, with the exclusion of two backups of one subscription;
* `SubscriptionsAreWhole`: `Spec => []SubscriptionIsWhole`;
* `RollbackRestores`: `Spec => RolledBackRestores`: the clean rollback with no step left
  standing is the host found (`RollsBack`);
* `RestoresBringBack`: `Spec => RestoreBringsBack`: a restore with all its steps done has
  what its archive has (`BringsBack`), and the archive has what the host had (`Faithful`).

The proof changed the model in four places. The invariant was false where a `home` step
emptied a home that was there (`MkdirAll` keeps it) and where a move went onto documents
(`Rename` refuses); `Contents` compared the origin of documents, which an archive does
not keep; and logs an adoption truncates are gone (finding 29).

### The interface

`Ui_proofs`, for any subscriptions and domains, any number of changes and messages and any
capacity of the channels, from one invariant `IInv`. It has the types, what is shown
(`ShownOK`), at most one fresh read for each slot (`OneRead`), and for each change the
messages its phase allows in the channel (`Counted`), what its command has captured
(`Captured`), that the list of a `steady` deletion is that of the selection (`SteadyOK`), and
that the checklist and a listener are its own while no other change races with it (`Alone`,
`Attended`). Hence `TypeCorrect`, `AnswersFollowSelection` (`ReadsFollowSelection`),
`ListedIsSelected` (`ListFollowsSelection`), `FailuresAreShown` (`FailureIsShown`) and
`WorkersAreHeard` (`SomebodyListens`).

### Only model-checked

Liveness (`EveryRunReturns`) is out of the prover's reach: it needs fairness and ENABLED.
The runs that expect a violation (`executor_deadline`, `apache_unlocked`,
`website_overlap`, `phpfpm_recreated`) are counterexamples and prove nothing.

## 6. Not modelled

In `Subscription` and `Backup`: SSH keys, passwords, disk usage and sizes; sites other than
PHP (their plans are the same without some steps); the mode written by a restore. That the
version of PHP is installed is a precondition of `PhpFpm`.

Rendering and escaping, validation of names, TOML and flags, layout and keys of
the UI: text processing without state. Bootstrap, doctor, health, migrate: linear
installation and inspection. The text of the lock holder. The progress events of the
executor are messages without content in `Ui`.

## 7. Plan

In this order; each module with its instance, properties and mutants, then proofs.

1. `PlanExecutor`, `SerialOperations`, proofs (done)
2. `Apache` (done)
3. `Website` (done)
4. `Certificate` (done)
5. `PhpFpm` (done)
6. `PlanControl`, `Accounts` (done)
7. `Subscription` (done)
8. `Backup` (done)
9. `Ui` (done)
10. Proofs: the executor, `Apache`, `Ui`, `Certificate`, `Accounts`, `PhpFpm`, `Website`,
    `Subscription` and `Backup` (done)
