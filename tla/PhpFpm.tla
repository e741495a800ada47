------------------------------- MODULE PhpFpm -------------------------------
(***************************************************************************)
(* PHP-FPM: the pools that service.PHPFPM writes and removes, for a site   *)
(* that is created, deleted or moved to another version of PHP             *)
(* (PHPService).  Each version has a master process of its own; the socket *)
(* of a site has the same path under every version.  A reload only signals *)
(* the master, which reads its pools again later: this is what the code    *)
(* waits for, and what module Website leaves out of its pool steps.        *)
(***************************************************************************)
EXTENDS PlanControl, FiniteSets

CONSTANTS Versions,  \* of PHP, with /etc/php/<version>/fpm/pool.d
          Default,   \* the one new sites get
          Spare,     \* versions with a pool provctl does not manage
          Sites,     \* PHP sites, each with its socket
          NoRow,
          Wishes,    \* what users may ask for, request by request
          Before     \* the versions of the sites that are there at first

Request == [kind : {"create", "delete"}, site : Sites]
           \cup [kind : {"set"}, site : Sites, version : Versions]
Row == [id : Nat, version : Versions]

ASSUME PhpFpmAssumption ==
  /\ NoRow \notin Row \cup Versions
  /\ Default \in Versions /\ Spare \subseteq Versions
  /\ Wishes \subseteq [Requests -> Request] /\ Before \subseteq [Sites -> Versions \cup {NoRow}]

VARIABLES
  row,        \* row[s]: the site in the table websites
  nextId,     \* AUTOINCREMENT of websites
  pool,       \* pool[v]: the sites with a file in pool.d
  up,         \* the versions whose master runs
  listens,    \* listens[v]: the sockets it has
  left,       \* sockets without a listener
  reloading,  \* the masters that have been signalled
  want,       \* want[r]: the operation asked for
  snap,       \* snap[r]: the row its preparation has read
  waits,      \* waits[r]: the old pool was there then
  had,        \* had[r]: the new pool file was there before the plan wrote it
  verifying,  \* the requests that wait for the socket of their new pool
  contested,  \* history: creations that came while another version had the socket
  torn,       \* history: requests that failed to take back their own step
  undone      \* history: requests that have undone a pool step

servers == <<pool, up, listens, left, reloading>>
data == <<row, nextId, servers, want, snap, waits, had, verifying, contested, torn, undone>>
vars == <<control, data>>

TypeOK ==
  /\ ControlTyped(6)
  /\ row \in [Sites -> Row \cup {NoRow}] /\ nextId \in Nat
  /\ pool \in [Versions -> SUBSET Sites] /\ listens \in [Versions -> SUBSET Sites]
  /\ up \subseteq Versions /\ reloading \subseteq up /\ left \subseteq Sites
  /\ \A v \in Versions \ up : listens[v] = {}
  /\ \A v, u \in Versions : v # u => listens[v] \cap listens[u] = {}
  /\ want \in [Requests -> Request]
  /\ snap \in [Requests -> Row \cup {NoRow}]
  /\ waits \in [Requests -> BOOLEAN] /\ had \in [Requests -> BOOLEAN]
  /\ verifying \subseteq {r \in Requests : pc[r] = "do"}
  /\ contested \subseteq Requests /\ torn \subseteq Requests /\ undone \subseteq Requests

-----------------------------------------------------------------------------
Kind(r) == want[r].kind
Site(r) == want[r].site
New(r) == IF Kind(r) = "set" THEN want[r].version ELSE Default
Old(r) == snap[r].version

(* php-fpm -t refuses a configuration without a pool.                      *)
ConfigTest(v, pools) == pools # {} \/ v \in Spare

(* The path of the socket of s.                                            *)
Socket(s) == s \in left \/ \E v \in Versions : s \in listens[v]

(* Mutant: the socket of the old version is not waited for.                *)
StepsHurried(r) ==
  CASE Kind(r) = "create" -> <<"apply", "vhost", "insert">>
    [] Kind(r) = "delete" -> <<"vhost", "drop", "deleteRow">>
    [] Kind(r) = "set" -> (IF waits[r] THEN <<"remove">> ELSE <<>>)
                          \o <<"apply", "vhost", "record">>

(* Mutant: the order of docs/project-specification.md, section 9.3.        *)
StepsInstallFirst(r) ==
  CASE Kind(r) = "create" -> <<"apply", "vhost", "insert">>
    [] Kind(r) = "delete" -> <<"vhost", "drop", "deleteRow">>
    [] Kind(r) = "set" -> <<"apply", "vhost">> \o (IF waits[r] THEN <<"remove">> ELSE <<>>)
                          \o <<"record">>

Steps(r) ==
  CASE Kind(r) = "create" -> <<"apply", "vhost", "insert">>
    [] Kind(r) = "delete" -> <<"vhost", "drop", "deleteRow">>
    [] Kind(r) = "set" -> (IF waits[r] THEN <<"remove", "release">> ELSE <<>>)
                          \o <<"apply", "vhost", "record">>

Step(r) == Steps(r)[at[r]]

Init ==
  /\ ControlInit
  /\ \E first \in Before :
       /\ row = [s \in Sites |-> IF first[s] = NoRow THEN NoRow ELSE [id |-> 1, version |-> first[s]]]
       /\ pool = [v \in Versions |-> {s \in Sites : first[s] = v}]
  /\ nextId = 2
  /\ up = {v \in Versions : ConfigTest(v, pool[v])}
  /\ listens = pool /\ left = {} /\ reloading = {}
  /\ want \in Wishes
  /\ snap = [r \in Requests |-> NoRow]
  /\ waits = [r \in Requests |-> FALSE] /\ had = [r \in Requests |-> FALSE]
  /\ verifying = {} /\ contested = {} /\ torn = {} /\ undone = {}

-----------------------------------------------------------------------------
Prepare(r) ==
  LET s == Site(r) IN
  /\ Prepared(r)
  /\ IF Kind(r) = "create" THEN row[s] = NoRow ELSE row[s] # NoRow
  /\ Kind(r) = "set" => row[s].version # want[r].version
  /\ snap' = [snap EXCEPT ![r] = row[s]]
  /\ waits' = [waits EXCEPT ![r] = row[s] # NoRow /\ s \in pool[row[s].version]]
  /\ UNCHANGED <<row, nextId, servers, want, had, verifying, contested, torn, undone>>

Refuse(r) == Refused(r) /\ UNCHANGED data

(* Nobody waits for the masters that have been signalled.                  *)
Start(r) == Started(r) /\ UNCHANGED data

(***************************************************************************)
(* systemctl reload: SIGUSR2 to the master of v, refused if there is none. *)
(***************************************************************************)
Reloaded(v) == v \in up /\ reloading' = reloading \cup {v} /\ UNCHANGED <<up, listens, left>>

(***************************************************************************)
(* The master of v starts itself anew.  It keeps the sockets of the pools  *)
(* that are still there, and gives up with all of them if another process  *)
(* listens on one that is new; of the pools that are gone it closes and    *)
(* removes the sockets.                                                    *)
(***************************************************************************)
Reread(v) ==
  LET taken == \E u \in Versions \ {v} : pool[v] \cap listens[u] # {}
      fails == taken \/ ~ConfigTest(v, pool[v]) IN
  /\ v \in reloading
  /\ reloading' = reloading \ {v}
  /\ IF fails
     THEN /\ up' = up \ {v}
          /\ listens' = [listens EXCEPT ![v] = {}]
          /\ left' = left \cup listens[v]
     ELSE /\ listens' = [listens EXCEPT ![v] = pool[v]]
          /\ left' = left \ pool[v]
          /\ UNCHANGED up
  /\ UNCHANGED <<control, row, nextId, pool, want, snap, waits, had, verifying, contested, torn, undone>>

-----------------------------------------------------------------------------
Without(v, s) == [pool EXCEPT ![v] = @ \ {s}]
With(v, s) == [pool EXCEPT ![v] = @ \cup {s}]

(* RemovePool, all of it.                                                  *)
RemovePool(r, step) ==
  /\ Step(r) = step
  /\ Advanced(r, Len(Steps(r)))
  /\ Site(r) \in pool[Old(r)]
  /\ pool' = Without(Old(r), Site(r))
  /\ ConfigTest(Old(r), pool'[Old(r)])
  /\ Reloaded(Old(r))
  /\ UNCHANGED <<row, nextId, want, snap, waits, had, verifying, contested, torn, undone>>

(* waitForSocketRelease sees no socket any more.                           *)
Release(r) ==
  /\ Step(r) = "release"
  /\ Advanced(r, Len(Steps(r)))
  /\ ~Socket(Site(r))
  /\ UNCHANGED data

(* Another version has the pool of the site, or its master still listens.  *)
Elsewhere(r) == \E v \in Versions \ {New(r)} : Site(r) \in pool[v] \cup listens[v]

(* ApplyPool up to the check that the service is active ...                *)
ApplyPool(r) ==
  /\ pc[r] = "do" /\ at[r] <= Len(Steps(r)) /\ Step(r) = "apply" /\ r \notin verifying
  /\ had' = [had EXCEPT ![r] = Site(r) \in pool[New(r)]]
  /\ pool' = With(New(r), Site(r))
  /\ Reloaded(New(r))
  /\ verifying' = verifying \cup {r}
  /\ contested' = IF Kind(r) = "create" /\ Elsewhere(r) THEN contested \cup {r} ELSE contested
  /\ UNCHANGED <<control, row, nextId, want, snap, waits, torn, undone>>

(* ... and when there is a socket.                                         *)
Verify(r) ==
  /\ r \in verifying
  /\ Advanced(r, Len(Steps(r)))
  /\ Socket(Site(r))
  /\ verifying' = verifying \ {r}
  /\ UNCHANGED <<row, nextId, servers, want, snap, waits, had, contested, torn, undone>>

(* The vhost has the path of the socket, which does not change.            *)
VHost(r) == Step(r) = "vhost" /\ Advanced(r, Len(Steps(r))) /\ UNCHANGED data

(* websites: inserted if the domain has none, updated and deleted by id.   *)
IsRow(r) == row[Site(r)] # NoRow /\ row[Site(r)].id = snap[r].id
Record(r) ==
  LET s == Site(r) IN
  /\ Advanced(r, Len(Steps(r)))
  /\ \/ /\ Step(r) = "insert" /\ row[s] = NoRow
        /\ row' = [row EXCEPT ![s] = [id |-> nextId, version |-> Default]]
        /\ nextId' = nextId + 1
     \/ /\ Step(r) = "record" /\ IsRow(r)
        /\ row' = [row EXCEPT ![s].version = New(r)]
        /\ UNCHANGED nextId
     \/ /\ Step(r) = "deleteRow" /\ IsRow(r)
        /\ row' = [row EXCEPT ![s] = NoRow]
        /\ UNCHANGED nextId
  /\ UNCHANGED <<servers, want, snap, waits, had, verifying, contested, torn, undone>>

Do(r) ==
  /\ at[r] <= Len(Steps(r)) /\ pc[r] = "do"
  /\ \/ RemovePool(r, "remove") \/ RemovePool(r, "drop") \/ Release(r) \/ Verify(r) \/ VHost(r) \/ Record(r)

-----------------------------------------------------------------------------
(* A step fails before it changes anything, or the journal refuses.        *)
FailClean(r) ==
  /\ Failed(r) /\ r \notin verifying
  /\ UNCHANGED data

(* The signals that a call has sent before it gave up.                     *)
PerhapsReloaded(v) ==
  /\ reloading' \in {reloading, reloading \cup ({v} \cap up)}
  /\ UNCHANGED <<up, listens, left>>

(***************************************************************************)
(* ApplyPool gives up: the service does not reload or the socket does not  *)
(* come within 5 s, or the deadline kills a command.  It puts the file     *)
(* back as it was; the last choice is that the file system refuses.        *)
(***************************************************************************)
ApplyFails(r) ==
  LET v == New(r) s == Site(r) existed == IF r \in verifying THEN had[r] ELSE s \in pool[v] IN
  /\ Failed(r)
  /\ at[r] <= Len(Steps(r)) /\ Step(r) = "apply"
  /\ verifying' = verifying \ {r}
  /\ PerhapsReloaded(v)
  /\ \/ pool' = (IF existed THEN With(v, s) ELSE Without(v, s)) /\ UNCHANGED torn
     \/ ~existed /\ pool' = With(v, s) /\ torn' = torn \cup {r}
  /\ UNCHANGED <<row, nextId, want, snap, waits, had, contested, undone>>

(***************************************************************************)
(* RemovePool gives up: it puts the file back if the test or the reload    *)
(* fails, but not if it cannot see the service active after that.          *)
(***************************************************************************)
RemoveFails(r) ==
  LET v == Old(r) s == Site(r) IN
  /\ Failed(r)
  /\ at[r] <= Len(Steps(r)) /\ Step(r) \in {"remove", "drop"}
  /\ s \in pool[v]
  /\ PerhapsReloaded(v)
  /\ \/ UNCHANGED <<pool, torn>>
     \/ pool' = Without(v, s) /\ torn' = torn \cup {r}
  /\ UNCHANGED <<row, nextId, want, snap, waits, had, verifying, contested, undone>>

Fail(r) == FailClean(r) \/ ApplyFails(r) \/ RemoveFails(r)

-----------------------------------------------------------------------------
(* Mutant: the pool that was there is not put back.                        *)
RestoredForgets(r) ==
  IF Step(r) = "apply" THEN Without(New(r), Site(r)) ELSE pool

(* What restore makes of the files, for the step of r.                     *)
Restored(r) ==
  CASE Step(r) = "apply" -> IF had[r] THEN With(New(r), Site(r)) ELSE Without(New(r), Site(r))
    [] Step(r) = "remove" -> With(Old(r), Site(r))
Touched(r) == IF Step(r) = "apply" THEN New(r) ELSE Old(r)

(* Mutant: the loop over the completed steps goes one step too far.        *)
UndoFailsOverruns(r) ==
  /\ DidNotUndoOverruns(r)
  /\ UNCHANGED data

UndoPool(r) ==
  /\ Step(r) \in {"apply", "remove"}
  /\ Undid(r)
  /\ pool' = Restored(r)
  /\ ConfigTest(Touched(r), pool'[Touched(r)])
  /\ Reloaded(Touched(r))
  /\ undone' = undone \cup {r}
  /\ UNCHANGED <<row, nextId, want, snap, waits, had, verifying, contested, torn>>

(* A row that was deleted comes back under another id.                     *)
UndoRow(r) ==
  LET s == Site(r) IN
  /\ Undid(r)
  /\ \/ Step(r) = "insert" /\ row' = [row EXCEPT ![s] = NoRow] /\ UNCHANGED nextId
     \/ /\ Step(r) = "record" /\ IsRow(r)
        /\ row' = [row EXCEPT ![s].version = Old(r)]
        /\ UNCHANGED nextId
     \/ /\ Step(r) = "deleteRow" /\ row[s] = NoRow
        /\ row' = [row EXCEPT ![s] = [id |-> nextId, version |-> Old(r)]]
        /\ nextId' = nextId + 1
  /\ UNCHANGED <<servers, want, snap, waits, had, verifying, contested, torn, undone>>

UndoNothing(r) == Step(r) \in {"release", "vhost"} /\ Undid(r) /\ UNCHANGED data

Undo(r) == at[r] > 0 /\ pc[r] = "undo" /\ (UndoPool(r) \/ UndoRow(r) \/ UndoNothing(r))

(* The file is written and then the test or the reload fails; or nothing   *)
(* is written.                                                             *)
UndoFails(r) ==
  /\ at[r] > 0 /\ DidNotUndo(r) /\ Step(r) # "release"
  /\ IF Step(r) \in {"apply", "remove"}
     THEN pool' \in {pool, Restored(r)} /\ undone' = undone \cup {r}
     ELSE UNCHANGED <<pool, undone>>
  /\ UNCHANGED <<row, nextId, up, listens, left, reloading, want, snap, waits, had, verifying, contested, torn>>

(* What the plan has closed over is gone.                                  *)
Return(r) ==
  /\ Ended(r, Len(Steps(r)))
  /\ snap' = [snap EXCEPT ![r] = NoRow]
  /\ had' = [had EXCEPT ![r] = FALSE]
  /\ verifying' = verifying \ {r}
  /\ UNCHANGED <<row, nextId, servers, want, waits, contested, torn, undone>>

Operation(r) ==
  \/ Prepare(r) \/ Refuse(r) \/ Start(r) \/ ApplyPool(r) \/ Do(r) \/ Fail(r)
  \/ Undo(r) \/ UndoFails(r) \/ Return(r)

Next == (\E r \in Requests : Operation(r)) \/ (\E v \in Versions : Reread(v))

Spec == Init /\ [][Next]_vars

-----------------------------------------------------------------------------
(***************************************************************************)
(* Plans that change the version without taking the old pool away: they    *)
(* were prepared while another plan had removed it, and did not see it.    *)
(***************************************************************************)
Blind == {r \in Requests : Kind(r) = "set" /\ ~waits[r] /\ pc[r] \notin {"new", "ready", "refused"}}

(* No plan has ended in a state nobody vouches for.                        *)
Undamaged == torn = {} /\ Blind = {} /\ \A r \in Requests : pc[r] \notin {"inconsistent", "running"}

(* The versions in whose pool.d the site is.                               *)
PoolsOf(s) == {v \in Versions : s \in pool[v]}

(* The masters have read their pools; until then no undo has moved one and *)
(* no creation has come too early.                                         *)
Settled == undone = {} /\ contested = {} /\ reloading = {}

(***************************************************************************)
(* Whatever operations overlap, fail and are undone, a recorded PHP site   *)
(* has its pool, under the recorded version and under no other, and a      *)
(* site that is not recorded has none (docs/project-specification.md,      *)
(* section 9.3: changing the version is one atomic operation).  Once the   *)
(* masters have read their pools, the recorded version and no other has    *)
(* the socket of the site - unless a pool step was undone, or a creation   *)
(* installed its pool while another version had the socket: nothing in the *)
(* code keeps it from that (ServedByItsVersion).  verify itself only sees  *)
(* that the path is a socket, whoever listens.                             *)
(***************************************************************************)
RowHasItsPool ==
  lock = NoRequest /\ Undamaged =>
    \A s \in Sites :
      /\ PoolsOf(s) = IF row[s] = NoRow THEN {} ELSE {row[s].version}
      /\ Settled /\ row[s] # NoRow => {v \in Versions : s \in listens[v]} = {row[s].version}

(***************************************************************************)
(* The master of a valid configuration does not give up because another    *)
(* version still listens on a socket it wants: that is what                *)
(* waitForSocketRelease is for, however late the masters read.  Two things *)
(* take a master down all the same: an undo does not wait, and neither     *)
(* does a creation of a site that another version still serves.            *)
(***************************************************************************)
MastersSurvive ==
  Undamaged /\ undone = {} /\ contested = {} =>
    \A v \in Versions : ConfigTest(v, pool[v]) => v \in up

(***************************************************************************)
(* What docs/testing-cookbook.md:608 expects of every domain: a pool and a *)
(* socket of the chosen version, once the masters have read their pools.   *)
(* The code does not keep this: a site that is deleted and created again   *)
(* before its former master has read anew passes the check of the socket.  *)
(***************************************************************************)
ServedByItsVersion ==
  lock = NoRequest /\ Undamaged /\ undone = {} /\ reloading = {} =>
    \A s \in Sites : row[s] # NoRow => {v \in Versions : s \in listens[v]} = {row[s].version}
=============================================================================
