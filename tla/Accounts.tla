------------------------------ MODULE Accounts ------------------------------
(***************************************************************************)
(* What a subscription has besides websites: cron jobs (service.Cron-      *)
(* Service), SSH keys and access (SSHService) and MariaDB databases        *)
(* (DatabaseService).  crontab and authorized_keys are rewritten as a      *)
(* whole from the rows a plan has read when it was prepared.               *)
(***************************************************************************)
EXTENDS PlanControl, FiniteSets

CONSTANTS Commands,    \* cron commands with their schedule and comment
          Keys,        \* public keys
          Databases,   \* names of databases
          Quota,       \* the database quota of the subscription, 0 if none
          MaxId,       \* bound on the ids of cron jobs
          Wishes,      \* what users may ask for, request by request
          Before,      \* what may be there at first
          Missing,     \* no such file
          Nothing      \* what a plan that is not running remembers

Modes == {"none", "key", "password", "key+password"}
CronKinds == {"cronAdd", "cronUpdate", "cronRemove"}
KeyKinds == {"keyAdd", "keyRemove"}
DatabaseKinds == {"dbCreate", "dbPassword", "dbDelete"}
Request ==
  [kind : CronKinds, id : 1..MaxId, command : Commands] \cup [kind : KeyKinds, key : Keys]
  \cup [kind : {"setAccess"}, mode : Modes]
  \cup [kind : DatabaseKinds, name : Databases, credentials : BOOLEAN]

Job == [id : 1..MaxId, command : Commands]
Database == [row : BOOLEAN, schema : BOOLEAN, login : {"none", "old", "new"}, credentials : BOOLEAN]
Account ==
  [jobs : SUBSET Job, crontab : (SUBSET Commands) \cup {Missing},
   keys : [Keys -> 0..Cardinality(Requests) + 1], authorized : (SUBSET Keys) \cup {Missing},
   access : Modes, shell : {"login", "nologin"}, password : {"locked", "old", "new"},
   databases : [Databases -> Database]]

ASSUME AccountsAssumption ==
  IsFiniteSet(Requests) /\ Quota \in Nat /\ MaxId \in Nat /\ Wishes \subseteq [Requests -> Request] /\ Before \subseteq Account

(* What may be there at first is what a plan may leave: ids are a primary  *)
(* key and leave room for one more of each request, no key is listed       *)
(* twice, the shell is that of the mode, databases and rows are the same.  *)
Unique(jobs) == \A i, j \in jobs : i.id = j.id => i = j
ShellOf(mode) == IF mode = "none" THEN "nologin" ELSE "login"
Whole(x) == x.row = x.schema /\ x.schema = (x.login # "none")

ASSUME BeforeAssumption ==
  \A x \in Before :
    /\ IsFiniteSet(x.jobs) /\ Unique(x.jobs) /\ \A j \in x.jobs : j.id <= Cardinality(x.jobs)
    /\ Cardinality(x.jobs) + Cardinality(Requests) <= MaxId
    /\ \A k \in Keys : x.keys[k] <= 1
    /\ x.shell = ShellOf(x.access)
    /\ \A d \in Databases : Whole(x.databases[d])

VARIABLES
  acct,    \* rows, files, shell and password, MariaDB
  nextId,  \* AUTOINCREMENT of cron_jobs
  want,    \* want[r]: the operation asked for
  snap,    \* snap[r]: what the preparation of r has read
  saved,   \* saved[r]: crontab and authorized_keys as the first step found them
  newJob,  \* newJob[r]: the id of the row r has inserted, 0 if none
  stale,   \* history: requests prepared before another one changed something
  torn,    \* history: requests whose failed step has changed something
  origin   \* origin[r]: history: acct when the plan of r started

data == <<acct, nextId, want, snap, saved, newJob, stale, torn, origin>>
vars == <<control, data>>

TypeOK ==
  /\ ControlTyped(5)
  /\ acct \in Account
  /\ nextId \in 1..MaxId + 1
  /\ want \in [Requests -> Request]
  /\ snap \in [Requests -> Account \cup {Nothing}]
  /\ origin \in [Requests -> Account \cup {Nothing}]
  /\ saved \in [Requests -> [crontab : (SUBSET Commands) \cup {Missing},
                             authorized : (SUBSET Keys) \cup {Missing}]]
  /\ newJob \in [Requests -> 0..MaxId]
  /\ stale \subseteq Requests /\ torn \subseteq Requests

-----------------------------------------------------------------------------
Crontab(jobs) == {j.command : j \in jobs}
Listed(x) == {k \in Keys : x.keys[k] > 0}
UsesKeys(mode) == mode \in {"key", "key+password"}
UsesPassword(mode) == mode \in {"password", "key+password"}
(* Mutant: the user is not dropped with its database.                      *)
DroppedKeepsLogin(x) == [x EXCEPT !.schema = FALSE]
Dropped(x) == [x EXCEPT !.schema = FALSE, !.login = "none"]
Rows(x) == {d \in Databases : x.databases[d].row}
Kind(r) == want[r].kind

Steps(r) ==
  CASE Kind(r) \in CronKinds -> <<"crontab", "job">>
    [] Kind(r) \in KeyKinds -> <<"authorized", "key">>
    [] Kind(r) = "setAccess" -> <<"authorized", "shell", "access", "password">>
    [] Kind(r) = "dbCreate" -> <<"create", "row">>
                               \o (IF want[r].credentials THEN <<"credentials">> ELSE <<>>)
    [] Kind(r) = "dbPassword" -> <<"alter">>
    [] Kind(r) = "dbDelete" -> <<"row", "drop">>

Irreversible == {"password", "alter", "drop"}

(* The checks of Prepare... on what it reads.                              *)
Acceptable(w) ==
  CASE w.kind = "cronAdd" -> TRUE
    [] w.kind \in {"cronUpdate", "cronRemove"} -> \E j \in acct.jobs : j.id = w.id
    [] w.kind = "keyAdd" -> w.key \notin Listed(acct)
    [] w.kind = "keyRemove" -> w.key \in Listed(acct)
    [] w.kind = "setAccess" -> UsesKeys(w.mode) => Listed(acct) # {}
    [] w.kind = "dbCreate" -> /\ w.name \notin Rows(acct)
                              /\ Quota > 0 => Cardinality(Rows(acct)) < Quota
                              /\ w.credentials => ~acct.databases[w.name].credentials
    [] w.kind \in {"dbPassword", "dbDelete"} -> w.name \in Rows(acct)

(* Mutant: the job that is added is the only one written.                  *)
DesiredJobsForgets(r) ==
  LET w == want[r] jobs == snap[r].jobs IN
  CASE w.kind = "cronAdd" -> {w.command}
    [] w.kind = "cronUpdate" -> Crontab({j \in jobs : j.id # w.id}) \cup {w.command}
    [] w.kind = "cronRemove" -> Crontab({j \in jobs : j.id # w.id})

(* What the plan of r writes into crontab, and into authorized_keys.       *)
DesiredJobs(r) ==
  LET w == want[r] jobs == snap[r].jobs IN
  CASE w.kind = "cronAdd" -> Crontab(jobs) \cup {w.command}
    [] w.kind = "cronUpdate" -> Crontab({j \in jobs : j.id # w.id}) \cup {w.command}
    [] w.kind = "cronRemove" -> Crontab({j \in jobs : j.id # w.id})

DesiredKeys(r) ==
  LET w == want[r] keys == Listed(snap[r]) IN
  CASE w.kind = "keyAdd" -> keys \cup {w.key}
    [] w.kind = "keyRemove" -> keys \ {w.key}
    [] w.kind = "setAccess" -> IF UsesKeys(w.mode) THEN keys ELSE {}

Init ==
  /\ ControlInit
  /\ acct \in Before
  /\ nextId = Cardinality(acct.jobs) + 1
  /\ want \in Wishes
  /\ snap = [r \in Requests |-> Nothing] /\ origin = [r \in Requests |-> Nothing]
  /\ saved = [r \in Requests |-> [crontab |-> Missing, authorized |-> Missing]]
  /\ newJob = [r \in Requests |-> 0]
  /\ stale = {} /\ torn = {}

-----------------------------------------------------------------------------
Prepare(r) ==
  /\ Prepared(r)
  /\ Acceptable(want[r])
  /\ snap' = [snap EXCEPT ![r] = acct]
  /\ UNCHANGED <<acct, nextId, want, saved, newJob, stale, torn, origin>>

Refuse(r) == Refused(r) /\ UNCHANGED data

Start(r) ==
  /\ Started(r)
  /\ origin' = [origin EXCEPT ![r] = acct]
  /\ UNCHANGED <<acct, nextId, want, snap, saved, newJob, stale, torn>>

(***************************************************************************)
(* What each step needs to succeed: rows go by id or by name, a key is     *)
(* removed if exactly one row has its fingerprint; CREATE DATABASE and     *)
(* CREATE USER refuse what is there, the DROPs say IF EXISTS.              *)
(***************************************************************************)
Possible(r, step) ==
  LET w == want[r] IN
  CASE step = "job" /\ Kind(r) # "cronAdd" -> \E j \in acct.jobs : j.id = w.id
    [] step = "key" /\ Kind(r) = "keyRemove" -> acct.keys[w.key] = 1
    [] step = "create" -> ~acct.databases[w.name].schema /\ acct.databases[w.name].login = "none"
    [] step = "row" -> acct.databases[w.name].row = (Kind(r) = "dbDelete")
    [] step = "alter" -> acct.databases[w.name].login # "none"
    [] OTHER -> TRUE

Done(r, step) ==
  LET w == want[r] IN
  CASE step = "crontab" -> [acct EXCEPT !.crontab = DesiredJobs(r)]
    [] step = "job" ->
         [acct EXCEPT !.jobs =
           CASE w.kind = "cronAdd" -> @ \cup {[id |-> nextId, command |-> w.command]}
             [] w.kind = "cronUpdate" -> {j \in @ : j.id # w.id} \cup {[id |-> w.id, command |-> w.command]}
             [] w.kind = "cronRemove" -> {j \in @ : j.id # w.id}]
    [] step = "authorized" -> [acct EXCEPT !.authorized = DesiredKeys(r)]
    [] step = "key" -> [acct EXCEPT !.keys[w.key] = IF w.kind = "keyAdd" THEN @ + 1 ELSE 0]
    [] step = "shell" -> [acct EXCEPT !.shell = ShellOf(w.mode)]
    [] step = "access" -> [acct EXCEPT !.access = w.mode]
    [] step = "password" -> [acct EXCEPT !.password = IF UsesPassword(w.mode) THEN "new" ELSE "locked"]
    [] step = "create" -> [acct EXCEPT !.databases[w.name].schema = TRUE,
                                       !.databases[w.name].login = "new"]
    [] step = "row" -> [acct EXCEPT !.databases[w.name].row = (w.kind = "dbCreate")]
    [] step = "credentials" -> [acct EXCEPT !.databases[w.name].credentials = TRUE]
    [] step = "alter" -> [acct EXCEPT !.databases[w.name].login = "new"]
    [] step = "drop" -> [acct EXCEPT !.databases[w.name] = Dropped(@)]

Outdate(r) == stale' = stale \cup {q \in Requests \ {r} : pc[q] = "ready"}

Do(r) ==
  LET step == Steps(r)[at[r]] adds == step = "job" /\ Kind(r) = "cronAdd" IN
  /\ Advanced(r, Len(Steps(r)))
  /\ Possible(r, step)
  /\ acct' = Done(r, step)
  /\ saved' = IF step \in {"crontab", "authorized"}
              THEN [saved EXCEPT ![r] = [crontab |-> acct.crontab, authorized |-> acct.authorized]]
              ELSE saved
  /\ newJob' = IF adds THEN [newJob EXCEPT ![r] = nextId] ELSE newJob
  /\ nextId' = IF adds THEN nextId + 1 ELSE nextId
  /\ Outdate(r)
  /\ UNCHANGED <<want, snap, torn, origin>>

(***************************************************************************)
(* A step fails.  A command may have done its work when the deadline kills *)
(* it, a file may be written and not be given to its owner.  CREATE        *)
(* DATABASE that fails is followed by the DROPs, which may fail too, and   *)
(* which drop what was there before; a DROP may go half-way.  Two rows     *)
(* with one fingerprint are both deleted and reported as not found.        *)
(***************************************************************************)
Transactional == {"job", "access", "row"}

TornBy(r, step) ==
  LET d == want[r].name
      Left(schema, login) == [acct EXCEPT !.databases[d].schema = schema, !.databases[d].login = login] IN
  CASE step \in Transactional -> {}
    [] step = "key" -> IF Kind(r) = "keyRemove" /\ acct.keys[want[r].key] > 1 THEN {Done(r, step)} ELSE {}
    [] step = "create" -> {Left(FALSE, "none"), Left(FALSE, acct.databases[d].login)}
                          \cup (IF acct.databases[d].schema THEN {} ELSE {Left(TRUE, acct.databases[d].login)})
                          \cup (IF Possible(r, step) THEN {Done(r, step)} ELSE {})
    [] step = "drop" -> {Left(FALSE, acct.databases[d].login), Left(FALSE, "none")}
    [] OTHER -> IF Possible(r, step) THEN {Done(r, step)} ELSE {}

Fail(r) ==
  /\ Failed(r)
  /\ \/ UNCHANGED <<acct, stale, torn>>
     \/ /\ at[r] <= Len(Steps(r))
        /\ \E x \in TornBy(r, Steps(r)[at[r]]) \ {acct} : acct' = x
        /\ torn' = torn \cup {r}
        /\ Outdate(r)
  /\ UNCHANGED <<nextId, want, snap, saved, newJob, origin>>

-----------------------------------------------------------------------------
Undoable(r, step) ==
  LET w == want[r] IN
  CASE step = "job" -> (w.kind \in {"cronAdd", "cronUpdate"} =>
                         \E j \in acct.jobs : j.id = IF w.kind = "cronAdd" THEN newJob[r] ELSE w.id)
    [] step = "key" -> w.kind = "keyAdd" => acct.keys[w.key] = 1
    [] step = "row" -> acct.databases[w.name].row = (w.kind = "dbCreate")
    [] OTHER -> step \notin Irreversible

(* Mutant: a file that was not there is written empty.                     *)
RestoredEmpty(contents) == IF contents = Missing THEN {} ELSE contents
Restored(contents) == contents

Mine(r) == CHOOSE j \in snap[r].jobs : j.id = want[r].id

(* A job that was removed is inserted under a new id.                      *)
Undone(r, step) ==
  LET w == want[r] IN
  CASE step = "crontab" -> [acct EXCEPT !.crontab = Restored(saved[r].crontab)]
    [] step = "job" ->
         [acct EXCEPT !.jobs =
           CASE w.kind = "cronAdd" -> {j \in @ : j.id # newJob[r]}
             [] w.kind = "cronUpdate" -> {j \in @ : j.id # w.id} \cup {Mine(r)}
             [] w.kind = "cronRemove" -> @ \cup {[Mine(r) EXCEPT !.id = nextId]}]
    [] step = "authorized" -> [acct EXCEPT !.authorized = Restored(saved[r].authorized)]
    [] step = "key" -> [acct EXCEPT !.keys[w.key] = IF w.kind = "keyAdd" THEN 0 ELSE @ + 1]
    [] step = "shell" -> [acct EXCEPT !.shell = ShellOf(snap[r].access)]
    [] step = "access" -> [acct EXCEPT !.access = snap[r].access]
    [] step = "create" -> [acct EXCEPT !.databases[w.name] = Dropped(@)]
    [] step = "row" -> [acct EXCEPT !.databases[w.name].row = (w.kind = "dbDelete")]
    [] step = "credentials" -> [acct EXCEPT !.databases[w.name].credentials = FALSE]

Undo(r) ==
  LET step == Steps(r)[at[r]] IN
  /\ Undid(r)
  /\ Undoable(r, step)
  /\ acct' = Undone(r, step)
  /\ nextId' = IF step = "job" /\ Kind(r) = "cronRemove" THEN nextId + 1 ELSE nextId
  /\ Outdate(r)
  /\ UNCHANGED <<want, snap, saved, newJob, torn, origin>>

(* An undo that fails may have done its work all the same; that of a new   *)
(* key deletes every row of its fingerprint, and complains of more than one. *)
UndoFails(r) ==
  LET step == Steps(r)[at[r]] IN
  /\ DidNotUndo(r)
  /\ \/ UNCHANGED <<acct, stale>>
     \/ /\ step \notin Transactional \cup Irreversible
        /\ step = "key" => Kind(r) = "keyAdd" /\ acct.keys[want[r].key] > 1
        /\ acct' = Undone(r, step)
        /\ Outdate(r)
  /\ UNCHANGED <<nextId, want, snap, saved, newJob, torn, origin>>

(* What the plan has closed over is gone.                                  *)
Return(r) ==
  /\ Ended(r, Len(Steps(r)))
  /\ snap' = [snap EXCEPT ![r] = Nothing]
  /\ origin' = [origin EXCEPT ![r] = Nothing]
  /\ saved' = [saved EXCEPT ![r] = [crontab |-> Missing, authorized |-> Missing]]
  /\ newJob' = [newJob EXCEPT ![r] = 0]
  /\ UNCHANGED <<acct, nextId, want, stale, torn>>

Operation(r) ==
  \/ Prepare(r) \/ Refuse(r) \/ Start(r) \/ Do(r) \/ Fail(r)
  \/ Undo(r) \/ UndoFails(r) \/ Return(r)

Next == \E r \in Requests : Operation(r)

Spec == Init /\ [][Next]_vars

-----------------------------------------------------------------------------
(* No plan has ended in a state nobody vouches for.                        *)
Undamaged == torn = {} /\ \A r \in Requests : pc[r] \notin {"inconsistent", "running"}
Settled == lock = NoRequest /\ Undamaged

(***************************************************************************)
(* Whatever operations overlap, a recorded database is there with its      *)
(* user, and no other is: each plan makes or removes both, in an order     *)
(* that its undo can take back (PrepareCreateWithCredentials, Delete).     *)
(***************************************************************************)
RowIsDatabase ==
  Settled => \A d \in Databases : Whole(acct.databases[d])

(***************************************************************************)
(* An operation that returns done, and was not stale, leaves the account   *)
(* as the rows say, whatever failed, half-done or crashed operations had   *)
(* left: the crontab has exactly the jobs, a key operation leaves          *)
(* authorized_keys with exactly the keys, an access mode its keys, shell   *)
(* and password (the files are rewritten as a whole from the rows).        *)
(***************************************************************************)
DoneAgrees ==
  [][\A r \in Requests \ stale : pc[r] = "do" /\ pc'[r] = "done" =>
       /\ Kind(r) \in CronKinds => acct.crontab = Crontab(acct.jobs)
       /\ Kind(r) \in KeyKinds => acct.authorized = Listed(acct)
       /\ Kind(r) = "setAccess" =>
            /\ acct.access = want[r].mode /\ acct.shell = ShellOf(want[r].mode)
            /\ acct.authorized = IF UsesKeys(want[r].mode) THEN Listed(acct) ELSE {}
            /\ (acct.password = "locked") = ~UsesPassword(want[r].mode)]_vars

(***************************************************************************)
(* As long as no operation was stale, one that is reported rolled_back has *)
(* left everything as it was when it started, up to the ids of cron jobs;  *)
(* no password it has generated is in use.  (The undo of a stale access    *)
(* change puts the shell of an older mode under the recorded one.)         *)
(***************************************************************************)
RolledBackRestores ==
  [][\A r \in Requests : pc[r] = "undo" /\ pc'[r] = "rolled_back" /\ Undamaged /\ stale = {} =>
       /\ [acct EXCEPT !.jobs = {}] = [origin[r] EXCEPT !.jobs = {}]
       /\ {j.command : j \in acct.jobs} = {j.command : j \in origin[r].jobs}]_vars
=============================================================================
