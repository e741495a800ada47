------------------------------ MODULE Website ------------------------------
(***************************************************************************)
(* The life of websites: service.WebsiteService and the tables websites,   *)
(* domains and certificates.  Every operation is prepared first, by        *)
(* reading the database without a lock, and later run by plan.Executor     *)
(* under the operation lock, its steps closing over what was read.         *)
(*                                                                         *)
(* A step is one action here: the calls inside Apache are in module        *)
(* Apache, the journal and the deadline in PlanExecutor.  A journal write  *)
(* that is refused shows as a step that fails after the change of the step *)
(* before it.                                                              *)
(***************************************************************************)
EXTENDS Naturals, Sequences, FiniteSets

CONSTANTS Sites,     \* primary domains, of one subscription
          Aliases,   \* further names
          Confs,     \* settings: document root, target, log directory
          Default,   \* the settings a site is created with
          LogConfs,  \* the settings that name another log directory
          Adopted,   \* the sites whose certificate came with their adoption
          NoRow, NoFile,
          Requests,  \* operations users ask for, at any time
          NoRequest,
          Menu,      \* what they may ask for
          Before,    \* what may be there at first
          Quota,     \* the website quota of the subscription, 0 if none
          MaxId      \* bound on the ids of rows

Kinds == {"create", "delete", "addAlias", "removeAlias", "enable", "disable", "configure"}
Types == {"static", "php", "proxy"}
Request == [kind : Kinds, site : Sites, alias : Aliases, conf : Confs, type : Types]
Row == [id : 1..MaxId, type : Types, aliases : SUBSET Aliases, conf : Confs, tls : BOOLEAN,
        enabled : BOOLEAN]
File == [aliases : SUBSET Aliases, conf : Confs, tls : BOOLEAN]
SiteState == [row : Row \cup {NoRow}, file : File \cup {NoFile}, link : BOOLEAN,
              tree : {"none", "empty", "content"}, logs : {"none", "fresh", "entries"},
              pool : BOOLEAN, lineage : BOOLEAN, certificate : BOOLEAN]

ASSUME NamesAssumption ==
  /\ Sites \cap Aliases = {} /\ Default \in Confs
  /\ LogConfs \subseteq Confs /\ Adopted \subseteq Sites /\ NoRequest \notin Requests
  /\ NoRow \notin Row /\ NoFile \notin File

(* An operation inserts one row at most: a creation its own, a deletion    *)
(* that is undone the one it has deleted.                                  *)
ASSUME BoundsAssumption ==
  /\ Quota \in Nat /\ MaxId \in Nat /\ Menu \subseteq Request
  /\ IsFiniteSet(Sites) /\ IsFiniteSet(Requests)
  /\ Cardinality(Sites) + Cardinality(Requests) <= MaxId

VARIABLES
  site,     \* site[s]: rows, files and links of the domain s
  nextId,   \* AUTOINCREMENT of websites
  lock,     \* the request whose plan is running
  want,     \* want[r]: the operation asked for
  pc,       \* pc[r]: how far it is, or its verdict
  snap,     \* snap[r]: the row read when the plan was prepared
  cert,     \* cert[r]: the certificate row was there then
  at,       \* at[r]: the next step to do, or to undo
  saved,    \* saved[r]: what the Apache or pool step has found
  dirty,    \* dirty[r]: an undo failed or a step was irreversible
  stale,    \* history: requests prepared before another one changed something
  torn,     \* history: requests whose failed step left part of its change
  origin    \* origin[r]: history: the site when the plan started

vars == <<site, nextId, lock, want, pc, snap, cert, at, saved, dirty, stale, torn, origin>>

Verdicts == {"done", "rolled_back", "inconsistent", "refused"}
PCs == {"new", "ready", "do", "undo"} \cup Verdicts

TypeOK ==
  /\ site \in [Sites -> SiteState]
  /\ nextId \in 1..MaxId + 1
  /\ lock \in Requests \cup {NoRequest}
  /\ want \in [Requests -> Request]
  /\ pc \in [Requests -> PCs]
  /\ snap \in [Requests -> Row \cup {NoRow}]
  /\ cert \in [Requests -> BOOLEAN]
  /\ at \in [Requests -> 0..7]
  /\ saved \in [Requests -> SiteState]
  /\ dirty \in [Requests -> BOOLEAN]
  /\ stale \subseteq Requests /\ torn \subseteq Requests
  /\ origin \in [Requests -> SiteState]

-----------------------------------------------------------------------------
Rows == {s \in Sites : site[s].row # NoRow}

(* The names in the domains table; name is UNIQUE there.                   *)
Assigned == Rows \cup UNION {site[s].row.aliases : s \in Rows}

Rendered(row) == [aliases |-> row.aliases, conf |-> row.conf, tls |-> row.tls]
RootOf(type) == type # "proxy"

(***************************************************************************)
(* What may be there at first is what plans have left: a vhost for each    *)
(* row, linked if the row is enabled, and no more rows than the quota.     *)
(***************************************************************************)
InOrder(x) ==
  /\ x.row = NoRow => x.file = NoFile /\ ~x.link
  /\ x.row # NoRow => x.file = Rendered(x.row) /\ x.link = x.row.enabled
ASSUME BeforeAssumption ==
  \A sites \in Before :
    /\ sites \in [Sites -> SiteState] /\ \A s \in Sites : InOrder(sites[s])
    /\ Quota > 0 => Cardinality({s \in Sites : sites[s].row # NoRow}) <= Quota

(***************************************************************************)
(* apachectl configtest: a linked vhost needs its file, the directory of   *)
(* its logs and, with TLS, the files of its certificate.                   *)
(***************************************************************************)
Loads(sites) ==
  \A s \in Sites : sites[s].link =>
    /\ sites[s].file # NoFile /\ sites[s].logs # "none"
    /\ sites[s].file.tls => sites[s].lineage
ConfigOK == Loads(site)

NoSite == [row |-> NoRow, file |-> NoFile, link |-> FALSE, tree |-> "none", logs |-> "none",
           pool |-> FALSE, lineage |-> FALSE, certificate |-> FALSE]

(***************************************************************************)
(* The steps of the plan of r, from what its preparation has read.  The    *)
(* steps that create the directories of a site are one here, and so are    *)
(* those that create the log directory and the log files.  Only the        *)
(* lineage of a certificate that provctl manages is deleted.               *)
(***************************************************************************)
Steps(r) ==
  LET w == want[r] IN
  CASE w.kind = "create" ->
         (IF RootOf(w.type) THEN <<"tree">> ELSE <<>>) \o <<"logs">>
         \o (IF w.type = "php" THEN <<"pool">> ELSE <<>>) \o <<"install", "insert">>
    [] w.kind = "delete" ->
         <<"remove">> \o (IF snap[r].type = "php" THEN <<"removePool">> ELSE <<>>)
         \o (IF cert[r] /\ w.site \notin Adopted THEN <<"deleteLineage">> ELSE <<>>)
         \o (IF cert[r] THEN <<"deleteCertificate">> ELSE <<>>) \o <<"deleteRow">>
    [] w.kind \in {"addAlias", "removeAlias"} -> <<"write", "update">>
    [] w.kind = "configure" ->
         (IF w.conf \in LogConfs THEN <<"logDirectory">> ELSE <<>>) \o <<"write", "update">>
    [] w.kind \in {"enable", "disable"} -> <<"switch", "update">>

Irreversible == {"removePool", "deleteLineage", "deleteCertificate"}
ApacheSteps == {"install", "remove", "write", "switch"}

(* Mutant: the vhost is rendered from the row as it was read.              *)
IntendsWhatWasRead(r) == snap[r]

(* The row the plan intends: that is what its vhost is rendered from.      *)
Intended(r) ==
  LET w == want[r] row == snap[r] IN
  CASE w.kind = "addAlias" -> [row EXCEPT !.aliases = @ \cup {w.alias}]
    [] w.kind = "removeAlias" -> [row EXCEPT !.aliases = @ \ {w.alias}]
    [] w.kind = "configure" -> [row EXCEPT !.conf = w.conf]
    [] w.kind \in {"enable", "disable"} -> [row EXCEPT !.enabled = (w.kind = "enable")]
    [] OTHER -> row

(* Mutant: the quota admits one website too many.                          *)
AcceptsAtQuota(w, row) ==
  CASE w.kind = "create" -> /\ w.site \notin Assigned
                            /\ Quota > 0 => Cardinality(Rows) <= Quota
    [] w.kind = "delete" -> row # NoRow
    [] w.kind = "addAlias" -> row # NoRow /\ w.alias \notin Assigned
    [] w.kind = "removeAlias" -> row # NoRow /\ w.alias \in row.aliases
    [] w.kind = "configure" -> row # NoRow /\ w.conf # row.conf
    [] w.kind \in {"enable", "disable"} -> row # NoRow /\ row.enabled # (w.kind = "enable")

(* The checks of Prepare..., and the errors that end it.                   *)
Acceptable(w, row) ==
  CASE w.kind = "create" -> /\ w.site \notin Assigned
                            /\ Quota > 0 => Cardinality(Rows) < Quota
    [] w.kind = "delete" -> row # NoRow
    [] w.kind = "addAlias" -> row # NoRow /\ w.alias \notin Assigned
    [] w.kind = "removeAlias" -> row # NoRow /\ w.alias \in row.aliases
    [] w.kind = "configure" -> row # NoRow /\ w.conf # row.conf
    [] w.kind \in {"enable", "disable"} -> row # NoRow /\ row.enabled # (w.kind = "enable")

Init ==
  /\ site \in Before
  /\ nextId = Cardinality(Sites) + 1
  /\ lock = NoRequest
  /\ want \in [Requests -> Menu]
  /\ pc = [r \in Requests |-> "new"]
  /\ snap = [r \in Requests |-> NoRow]
  /\ cert = [r \in Requests |-> FALSE]
  /\ at = [r \in Requests |-> 1]
  /\ saved = [r \in Requests |-> NoSite]
  /\ dirty = [r \in Requests |-> FALSE]
  /\ stale = {} /\ torn = {}
  /\ origin = [r \in Requests |-> NoSite]

-----------------------------------------------------------------------------
Goto(r, label) == pc' = [pc EXCEPT ![r] = label]
Here(r) == site[want[r].site]

(* Prepare reads without the lock; the plan may wait for a confirmation.   *)
Prepare(r) ==
  /\ pc[r] = "new"
  /\ Acceptable(want[r], Here(r).row)
  /\ snap' = [snap EXCEPT ![r] = Here(r).row]
  /\ cert' = [cert EXCEPT ![r] = Here(r).certificate]
  /\ Goto(r, "ready")
  /\ UNCHANGED <<site, nextId, lock, want, at, saved, dirty, stale, torn, origin>>

PrepareRefused(r) ==
  /\ pc[r] = "new"
  /\ Goto(r, "refused")
  /\ UNCHANGED <<site, nextId, lock, want, snap, cert, at, saved, dirty, stale, torn, origin>>

Start(r) ==
  /\ pc[r] = "ready"
  /\ lock = NoRequest
  /\ lock' = r
  /\ origin' = [origin EXCEPT ![r] = Here(r)]
  /\ Goto(r, "do")
  /\ UNCHANGED <<site, nextId, want, snap, cert, at, saved, dirty, stale, torn>>

-----------------------------------------------------------------------------
(***************************************************************************)
(* What each step needs to succeed, and what it changes.  The updates of   *)
(* the database go by the id that was read, and fail on a row of another   *)
(* id; a name that is taken violates the UNIQUE constraint.                *)
(***************************************************************************)
Exists(x) == x.link /\ x.file # NoFile
SameRow(r, x) == x.row # NoRow /\ x.row.id = snap[r].id

Possible(r, step, x) ==
  LET w == want[r] IN
  CASE step \in {"tree", "logs", "pool", "logDirectory"} -> TRUE
    [] step = "install" -> ConfigOK /\ ~Exists(x)
    [] step = "insert" -> w.site \notin Assigned
    [] step = "remove" -> ConfigOK /\ x.file # NoFile
    [] step = "removePool" -> x.pool
    [] step = "deleteLineage" -> x.lineage
    [] step = "deleteCertificate" -> x.certificate
    [] step = "deleteRow" -> SameRow(r, x)
    [] step = "write" -> ConfigOK
    [] step = "switch" -> ConfigOK /\ x.file # NoFile /\ Exists(x) = (w.kind = "disable")
    [] step = "update" -> /\ SameRow(r, x)
                          /\ w.kind = "addAlias" => w.alias \notin Assigned
                          /\ w.kind = "removeAlias" => w.alias \in x.row.aliases

NewRow(r) == [id |-> nextId, type |-> want[r].type, aliases |-> {}, conf |-> Default,
              tls |-> FALSE, enabled |-> TRUE]

(* The single column or alias the UPDATE, INSERT or DELETE of r changes.   *)
Updated(r, row, target) ==
  LET w == want[r] IN
  CASE w.kind = "addAlias" -> [row EXCEPT !.aliases = @ \cup {w.alias}]
    [] w.kind = "removeAlias" -> [row EXCEPT !.aliases = @ \ {w.alias}]
    [] w.kind = "configure" -> [row EXCEPT !.conf = target.conf]
    [] w.kind \in {"enable", "disable"} -> [row EXCEPT !.enabled = target.enabled]

Done(r, step, x) ==
  CASE step = "tree" -> [x EXCEPT !.tree = IF @ = "none" THEN "empty" ELSE @]
    [] step = "logs" -> [x EXCEPT !.logs = "fresh"]
    [] step = "pool" -> [x EXCEPT !.pool = TRUE]
    [] step = "install" -> [x EXCEPT !.file = Rendered(NewRow(r)), !.link = TRUE]
    [] step = "insert" -> [x EXCEPT !.row = NewRow(r)]
    [] step = "remove" -> [x EXCEPT !.file = NoFile, !.link = FALSE]
    [] step = "removePool" -> [x EXCEPT !.pool = FALSE]
    [] step = "deleteLineage" -> [x EXCEPT !.lineage = FALSE]
    [] step = "deleteCertificate" -> [x EXCEPT !.certificate = FALSE]
    [] step = "deleteRow" -> [x EXCEPT !.row = NoRow]
    [] step = "logDirectory" -> x
    [] step = "write" -> [x EXCEPT !.file = Rendered(Intended(r))]
    [] step = "switch" -> [x EXCEPT !.link = ~@]
    [] step = "update" -> [x EXCEPT !.row = Updated(r, @, Intended(r))]

Put(r, x) == site' = [site EXCEPT ![want[r].site] = x]

(* Plans that are prepared and wait are stale once something has changed.  *)
Outdate(r) == stale' = stale \cup {q \in Requests \ {r} : pc[q] = "ready"}

Do(r) ==
  LET step == Steps(r)[at[r]] IN
  /\ pc[r] = "do"
  /\ at[r] <= Len(Steps(r))
  /\ Possible(r, step, Here(r))
  /\ Put(r, Done(r, step, Here(r)))
  /\ step \in ApacheSteps => Loads(site')
  /\ saved' = IF step \in ApacheSteps \cup {"pool"}
              THEN [saved EXCEPT ![r].pool = IF step = "pool" THEN Here(r).pool ELSE @,
                                 ![r].file = Here(r).file, ![r].link = Here(r).link]
              ELSE saved
  /\ IF step = "insert"
     THEN nextId' = nextId + 1 /\ snap' = [snap EXCEPT ![r] = NewRow(r)]
     ELSE UNCHANGED <<nextId, snap>>
  /\ at' = [at EXCEPT ![r] = @ + 1]
  /\ Outdate(r)
  /\ UNCHANGED <<lock, want, pc, cert, dirty, torn, origin>>

(***************************************************************************)
(* The step returns an error, or the journal refuses to record the one     *)
(* before it.  The step may have changed the system and not have restored  *)
(* it: a directory not yet given to its owner, a pool removed under a      *)
(* service that then is inactive, a restore that failed itself; RemoveVHost*)
(* may have taken the link only.  A change of the database is all or none. *)
(***************************************************************************)
Transactional == {"insert", "update", "deleteRow", "deleteCertificate"}

TornBy(r, step, x) ==
  (IF step \in Transactional THEN {} ELSE {Done(r, step, x)})
  \cup (IF step = "remove" THEN {[x EXCEPT !.link = FALSE]} ELSE {})

Fail(r) ==
  /\ pc[r] = "do"
  /\ \/ UNCHANGED <<site, torn, stale>>
     \/ /\ at[r] <= Len(Steps(r))
        /\ Possible(r, Steps(r)[at[r]], Here(r))
        /\ \E x \in TornBy(r, Steps(r)[at[r]], Here(r)) \ {Here(r)} : Put(r, x)
        /\ torn' = torn \cup {r}
        /\ Outdate(r)
  /\ at' = [at EXCEPT ![r] = @ - 1]
  /\ Goto(r, "undo")
  /\ UNCHANGED <<nextId, lock, want, snap, cert, saved, dirty, origin>>

(***************************************************************************)
(* The Undo of each step.  Directories are removed only when empty; the    *)
(* removal of a row is undone by inserting what was read at preparation,   *)
(* which CreateWebsite stores under a new id and without its aliases.  A   *)
(* directory for the logs of a site stays where it is.                     *)
(***************************************************************************)
Undoable(r, step, x) ==
  LET w == want[r] IN
  CASE step = "tree" -> x.tree = "empty"
    [] step = "logs" -> x.logs # "none"
    [] step = "insert" -> SameRow(r, x)
    [] step = "deleteRow" -> w.site \notin Assigned
    [] step = "switch" -> (w.kind = "disable" => ~x.link)
    [] step = "update" -> /\ SameRow(r, x)
                          /\ w.kind = "addAlias" => w.alias \in x.row.aliases
                          /\ w.kind = "removeAlias" => w.alias \notin Assigned
    [] OTHER -> TRUE

Reinserted(r) == [snap[r] EXCEPT !.id = nextId, !.aliases = {}]

Reverted(r, row) ==
  CASE want[r].kind = "addAlias" -> [row EXCEPT !.aliases = @ \ {want[r].alias}]
    [] want[r].kind = "removeAlias" -> [row EXCEPT !.aliases = @ \cup {want[r].alias}]
    [] OTHER -> Updated(r, row, snap[r])

(* Mutant: undoing an installation leaves the vhost and its link.          *)
UndoneLeavesVHost(r, step, x) ==
  LET old == saved[r] row == snap[r] IN
  CASE step \in {"install", "logDirectory"} -> x
    [] step = "tree" -> [x EXCEPT !.tree = "none"]
    [] step = "logs" -> [x EXCEPT !.logs = "none"]
    [] step = "pool" -> [x EXCEPT !.pool = old.pool]
    [] step \in {"remove", "switch"} -> [x EXCEPT !.file = old.file, !.link = old.link]
    [] step = "write" -> [x EXCEPT !.file = old.file]
    [] step = "insert" -> [x EXCEPT !.row = NoRow]
    [] step = "deleteRow" -> [x EXCEPT !.row = Reinserted(r)]
    [] step = "update" -> [x EXCEPT !.row = row]

(* Mutant: undoing an edit of the vhost removes the file it replaced.      *)
UndoneForgetsPrevious(r, step, x) ==
  LET row == snap[r] IN
  CASE step \in {"install", "write"} -> [x EXCEPT !.file = NoFile, !.link = FALSE]
    [] step = "logDirectory" -> x
    [] step = "tree" -> [x EXCEPT !.tree = "none"]
    [] step = "logs" -> [x EXCEPT !.logs = "none"]
    [] step = "pool" -> [x EXCEPT !.pool = FALSE]
    [] step = "remove" -> [x EXCEPT !.file = saved[r].file, !.link = saved[r].link]
    [] step = "switch" -> [x EXCEPT !.link = ~@]
    [] step = "insert" -> [x EXCEPT !.row = NoRow]
    [] step = "deleteRow" -> [x EXCEPT !.row = Reinserted(r)]
    [] step = "update" -> [x EXCEPT !.row = row]

Undone(r, step, x) ==
  LET old == saved[r] IN
  CASE step = "tree" -> [x EXCEPT !.tree = "none"]
    [] step = "logs" -> [x EXCEPT !.logs = "none"]
    [] step = "pool" -> [x EXCEPT !.pool = old.pool]
    [] step \in {"install", "remove", "switch"} -> [x EXCEPT !.file = old.file, !.link = old.link]
    [] step = "logDirectory" -> x
    [] step = "write" -> [x EXCEPT !.file = old.file]
    [] step = "insert" -> [x EXCEPT !.row = NoRow]
    [] step = "deleteRow" -> [x EXCEPT !.row = Reinserted(r)]
    [] step = "update" -> [x EXCEPT !.row = Reverted(r, @)]

Undo(r) ==
  LET step == Steps(r)[at[r]] IN
  /\ pc[r] = "undo"
  /\ at[r] > 0
  /\ step \notin Irreversible
  /\ Undoable(r, step, Here(r))
  /\ Put(r, Undone(r, step, Here(r)))
  /\ step \in ApacheSteps => Loads(site')
  /\ nextId' = IF step = "deleteRow" THEN nextId + 1 ELSE nextId
  /\ at' = [at EXCEPT ![r] = @ - 1]
  /\ Outdate(r)
  /\ UNCHANGED <<lock, want, pc, snap, cert, saved, dirty, torn, origin>>

(* Mutant: the loop over the completed steps goes one step too far.        *)
UndoFailsOverruns(r) ==
  /\ pc[r] = "undo"
  /\ at[r] >= 0
  /\ dirty' = [dirty EXCEPT ![r] = TRUE]
  /\ at' = [at EXCEPT ![r] = @ - 1]
  /\ UNCHANGED <<site, nextId, lock, want, pc, snap, cert, saved, stale, torn, origin>>

(***************************************************************************)
(* There is no Undo, or it fails; that of an Apache step may have restored *)
(* the files before the configuration test or the reload failed.           *)
(***************************************************************************)
UndoFails(r) ==
  /\ pc[r] = "undo"
  /\ at[r] > 0 /\ Steps(r)[at[r]] # "logDirectory"
  /\ \/ UNCHANGED <<site, stale>>
     \/ /\ Steps(r)[at[r]] \in ApacheSteps
        /\ Put(r, Undone(r, Steps(r)[at[r]], Here(r)))
        /\ Outdate(r)
  /\ dirty' = [dirty EXCEPT ![r] = TRUE]
  /\ at' = [at EXCEPT ![r] = @ - 1]
  /\ UNCHANGED <<nextId, lock, want, pc, snap, cert, saved, torn, origin>>

(* The verdict; the lock is released and what the plan closed over is gone. *)
Return(r) ==
  /\ \/ pc[r] = "do" /\ at[r] > Len(Steps(r)) /\ Goto(r, "done")
     \/ pc[r] = "undo" /\ at[r] = 0 /\ Goto(r, IF dirty[r] THEN "inconsistent" ELSE "rolled_back")
  /\ lock' = NoRequest
  /\ snap' = [snap EXCEPT ![r] = NoRow]
  /\ cert' = [cert EXCEPT ![r] = FALSE]
  /\ at' = [at EXCEPT ![r] = 1]
  /\ saved' = [saved EXCEPT ![r] = NoSite]
  /\ dirty' = [dirty EXCEPT ![r] = FALSE]
  /\ origin' = [origin EXCEPT ![r] = NoSite]
  /\ UNCHANGED <<site, nextId, want, stale, torn>>

Operation(r) ==
  \/ Prepare(r) \/ PrepareRefused(r) \/ Start(r) \/ Do(r) \/ Fail(r)
  \/ Undo(r) \/ UndoFails(r) \/ Return(r)

Next == \E r \in Requests : Operation(r)

Spec == Init /\ [][Next]_vars

-----------------------------------------------------------------------------
(* No plan is running, and none has ended in a state nobody vouches for.   *)
Settled ==
  /\ lock = NoRequest
  /\ torn = {}
  /\ \A r \in Requests : pc[r] # "inconsistent"

(* A delete of s was rolled back: its row is the one read at preparation.  *)
Relisted(s) == \E r \in Requests : want[r].site = s /\ want[r].kind = "delete" /\ pc[r] = "rolled_back"

(***************************************************************************)
(* Whatever plans overlap, a domain has a vhost file exactly when it has a *)
(* row, and, unless a delete of it was rolled back, a link exactly when    *)
(* its row says enabled: Apache serves nothing the database does not know  *)
(* (the order of the steps of the website plans, and their checks again    *)
(* inside the steps).                                                      *)
(***************************************************************************)
RowHasVHost ==
  Settled => \A s \in Sites :
    /\ (site[s].row # NoRow) = (site[s].file # NoFile)
    /\ site[s].link => site[s].row # NoRow
    /\ site[s].row # NoRow /\ ~Relisted(s) => site[s].link = site[s].row.enabled

(***************************************************************************)
(* While no plan was prepared from a state another one has changed since,  *)
(* every vhost is the rendering of its row; only a delete that was rolled  *)
(* back has lost the aliases of the row.                                   *)
(***************************************************************************)
FreshVHostMatchesRow ==
  Settled /\ stale = {} => \A s \in Rows :
    \/ site[s].file = Rendered(site[s].row)
    \/ /\ site[s].file.conf = site[s].row.conf /\ site[s].row.aliases = {}
       /\ Relisted(s)

(***************************************************************************)
(* An operation that is reported as rolled back has left the service as it *)
(* found it: the row, the file, the link, the pool and the certificate.    *)
(* (The data and the logs are not covered: see the finding on create.)     *)
(***************************************************************************)
Service(x) == <<x.row # NoRow, x.file, x.link, x.pool, x.lineage, x.certificate>>
RolledBackRestores ==
  [][\A r \in Requests \ torn : pc[r] = "undo" /\ pc'[r] = "rolled_back"
       => Service(Here(r)) = Service(origin[r])]_vars

(***************************************************************************)
(* While every plan is fresh, the quota of websites is kept (the check of  *)
(* ensureWebsiteQuota is made at preparation only).                        *)
(***************************************************************************)
FreshQuotaKept == Quota > 0 /\ stale = {} => Cardinality(Rows) <= Quota

(***************************************************************************)
(* Everything a row stands for exists: its log directory, its document     *)
(* root, its pool (docs/project-specification.md section 7.1: the database *)
(* must not hold a record of something that does not exist in the system). *)
(***************************************************************************)
RowIsBacked ==
  Settled => \A s \in Rows :
    /\ site[s].logs # "none"
    /\ RootOf(site[s].row.type) => site[s].tree # "none"
    /\ site[s].row.type = "php" => site[s].pool
=============================================================================
