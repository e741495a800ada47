-------------------------- MODULE Accounts_proofs --------------------------
(***************************************************************************)
(* The properties of module Accounts, for any commands, keys and           *)
(* databases, any number of requests and any accounts to start from that   *)
(* BeforeAssumption admits.                                                *)
(***************************************************************************)
EXTENDS Accounts, FiniteSetTheorems, TLAPS

StepNames == {"crontab", "job", "authorized", "key", "shell", "access", "password",
              "create", "row", "credentials", "alter", "drop"}

(* The place of each step in the plans that have it, 0 in the others.      *)
Pos(r, s) ==
  CASE s = "crontab" -> IF Kind(r) \in CronKinds THEN 1 ELSE 0
    [] s = "job" -> IF Kind(r) \in CronKinds THEN 2 ELSE 0
    [] s = "authorized" -> IF Kind(r) \in KeyKinds \cup {"setAccess"} THEN 1 ELSE 0
    [] s = "key" -> IF Kind(r) \in KeyKinds THEN 2 ELSE 0
    [] s = "shell" -> IF Kind(r) = "setAccess" THEN 2 ELSE 0
    [] s = "access" -> IF Kind(r) = "setAccess" THEN 3 ELSE 0
    [] s = "password" -> IF Kind(r) = "setAccess" THEN 4 ELSE 0
    [] s = "create" -> IF Kind(r) = "dbCreate" THEN 1 ELSE 0
    [] s = "row" -> IF Kind(r) = "dbCreate" THEN 2 ELSE IF Kind(r) = "dbDelete" THEN 1 ELSE 0
    [] s = "credentials" -> IF Kind(r) = "dbCreate" /\ want[r].credentials THEN 3 ELSE 0
    [] s = "alter" -> IF Kind(r) = "dbPassword" THEN 1 ELSE 0
    [] s = "drop" -> IF Kind(r) = "dbDelete" THEN 2 ELSE 0

Last(r) ==
  CASE Kind(r) = "setAccess" -> 4
    [] Kind(r) = "dbCreate" -> IF want[r].credentials THEN 3 ELSE 2
    [] Kind(r) = "dbPassword" -> 1
    [] Kind(r) \in CronKinds \cup KeyKinds \cup {"dbDelete"} -> 2

(* A step that has been done, and not been undone.                         *)
Running(r) == pc[r] \in {"do", "undo"}
Stands(r, s) == 0 < Pos(r, s) /\ Pos(r, s) <= IF pc[r] = "do" THEN at[r] - 1 ELSE at[r]

Placed(r) ==
  /\ lock = r <=> Running(r)
  /\ pc[r] \in {"new", "ready"} => at[r] = 1 /\ ~dirty[r]
  /\ pc[r] = "do" => at[r] \in 1..Last(r) + 1 /\ ~dirty[r]
  /\ pc[r] = "undo" => at[r] \in 0..Last(r)

(* What the checks of a preparation have established.                      *)
Admitted(r) ==
  LET x == snap[r] w == want[r] IN
  /\ x \in Account /\ Unique(x.jobs)
  /\ Kind(r) \in {"cronUpdate", "cronRemove"} => \E j \in x.jobs : j.id = w.id
  /\ Kind(r) = "keyAdd" => x.keys[w.key] = 0
  /\ Kind(r) = "dbCreate" => ~x.databases[w.name].row
  /\ Kind(r) = "dbCreate" /\ w.credentials => ~x.databases[w.name].credentials
  /\ Kind(r) = "dbDelete" => x.databases[w.name].row
Read(r) ==
  /\ pc[r] \in {"ready", "do", "undo"} => Admitted(r)
  /\ Running(r) => origin[r] \in Account

(* A request inserts one row at most: these may still do so.               *)
MayInsert(r) ==
  \/ pc[r] \in {"new", "ready"}
  \/ pc[r] = "do" /\ (Kind(r) \in {"cronAdd", "keyAdd"} => at[r] <= 2)
  \/ pc[r] = "undo" /\ Kind(r) = "cronRemove" /\ at[r] = 2
Inserters == {r \in Requests : MayInsert(r)}
KeyGone(r) == Kind(r) = "keyRemove" /\ Running(r) /\ Stands(r, "key") => acct.keys[want[r].key] = 0

Room ==
  /\ \A j \in acct.jobs : j.id < nextId
  /\ nextId + Cardinality(Inserters) <= MaxId + 1
  /\ \A k \in Keys : acct.keys[k] + Cardinality(Inserters) <= Cardinality(Requests) + 1

Typed == TypeOK /\ Room /\ Unique(acct.jobs) /\ \A r \in Requests : Placed(r) /\ Read(r) /\ KeyGone(r)

(***************************************************************************)
(* While a plan runs that no undo of has failed, each database is whole,   *)
(* but for the one the plan is building or taking away, which has no row   *)
(* yet, or no longer.                                                      *)
(***************************************************************************)
Half(x) == ~x.row /\ x.schema /\ x.login # "none"
Between(r, d) ==
  \/ Kind(r) = "dbCreate" /\ d = want[r].name /\ Stands(r, "create") /\ ~Stands(r, "row")
  \/ Kind(r) = "dbDelete" /\ d = want[r].name /\ Stands(r, "row") /\ ~Stands(r, "drop")
Building(r) == \A d \in Databases : IF Between(r, d) THEN Half(acct.databases[d]) ELSE Whole(acct.databases[d])

DatabaseInv ==
  /\ Typed
  /\ Undamaged => IF lock = NoRequest THEN \A d \in Databases : Whole(acct.databases[d])
                  ELSE ~dirty[lock] => Building(lock)

(***************************************************************************)
(* What a plan that is not stale makes of the account it has read, by the  *)
(* steps that stand.  A job whose removal is undone has a new id.          *)
(***************************************************************************)
JobsAfter(r) ==
  LET x == snap[r].jobs w == want[r] IN
  CASE Kind(r) = "cronAdd" -> x \cup {[id |-> newJob[r], command |-> w.command]}
    [] Kind(r) = "cronUpdate" -> {j \in x : j.id # w.id} \cup {[id |-> w.id, command |-> w.command]}
    [] Kind(r) = "cronRemove" -> {j \in x : j.id # w.id}

CronProgress(r) ==
  LET x == snap[r] IN
  /\ acct.crontab = IF Stands(r, "crontab") THEN DesiredJobs(r) ELSE x.crontab
  /\ Stands(r, "crontab") => saved[r].crontab = x.crontab
  /\ Stands(r, "job") => /\ acct.jobs = JobsAfter(r)
                         /\ Kind(r) = "cronAdd" => \A j \in x.jobs : j.id # newJob[r]
  /\ ~Stands(r, "job") => IF pc[r] = "do" THEN acct.jobs = x.jobs
                          ELSE Crontab(acct.jobs) = Crontab(x.jobs)

KeyProgress(r) ==
  LET x == snap[r] IN
  /\ acct.authorized = IF Stands(r, "authorized") THEN DesiredKeys(r) ELSE x.authorized
  /\ Stands(r, "authorized") => saved[r].authorized = x.authorized
  /\ Stands(r, "key") /\ Kind(r) = "keyRemove" => x.keys[want[r].key] = 1
  /\ \A k \in Keys : acct.keys[k] = IF Stands(r, "key") /\ k = want[r].key
                                    THEN IF Kind(r) = "keyAdd" THEN 1 ELSE 0
                                    ELSE x.keys[k]

AccessProgress(r) ==
  LET x == snap[r] w == want[r] IN
  /\ acct.shell \in IF Stands(r, "shell") THEN {ShellOf(w.mode)}
                   ELSE IF pc[r] = "do" THEN {x.shell} ELSE {x.shell, ShellOf(x.access)}
  /\ acct.access = IF Stands(r, "access") THEN w.mode ELSE x.access
  /\ acct.password = IF Stands(r, "password") THEN IF UsesPassword(w.mode) THEN "new" ELSE "locked"
                     ELSE x.password

DatabaseProgress(r) ==
  \A d \in Databases :
    LET x == snap[r].databases[d] y == acct.databases[d] IN
    /\ y.row <=> IF Stands(r, "row") /\ d = want[r].name THEN Kind(r) = "dbCreate" ELSE x.row
    /\ Stands(r, "create") /\ d = want[r].name => ~x.schema /\ x.login = "none"
    /\ Stands(r, "create") /\ d = want[r].name => y.schema /\ y.login = "new"
    /\ ~((Stands(r, "create") \/ Stands(r, "alter") \/ Stands(r, "drop")) /\ d = want[r].name) =>
         y.schema = x.schema /\ y.login = x.login
    /\ y.credentials <=> IF Stands(r, "credentials") /\ d = want[r].name THEN TRUE ELSE x.credentials

Progress(r) == CronProgress(r) /\ KeyProgress(r) /\ AccessProgress(r) /\ DatabaseProgress(r)

Tracked(r) ==
  r \notin stale =>
    /\ pc[r] = "ready" => snap[r] = acct
    /\ Running(r) => origin[r] = snap[r]
    /\ pc[r] = "do" => Progress(r)
    /\ pc[r] = "undo" /\ r \notin torn /\ ~dirty[r] => Progress(r)

(* As long as nothing was stale the shell is that of the recorded mode.    *)
ModeInv ==
  Undamaged /\ stale = {} =>
    /\ lock = NoRequest => acct.shell = ShellOf(acct.access)
    /\ \A r \in Requests : Running(r) => snap[r].shell = ShellOf(snap[r].access)

TrackInv == Typed /\ ModeInv /\ \A r \in Requests : Tracked(r)

-----------------------------------------------------------------------------
(* What a step leaves of the account.                                      *)
SameBut(written) ==
  /\ "jobs" \notin written => acct'.jobs = acct.jobs
  /\ "crontab" \notin written => acct'.crontab = acct.crontab
  /\ "keys" \notin written => acct'.keys = acct.keys
  /\ "authorized" \notin written => acct'.authorized = acct.authorized
  /\ "access" \notin written => acct'.access = acct.access
  /\ "shell" \notin written => acct'.shell = acct.shell
  /\ "password" \notin written => acct'.password = acct.password
  /\ "databases" \notin written => acct'.databases = acct.databases

(* One database is written, the others stay.                               *)
Becomes(d, row, schema, login, credentials) ==
  /\ SameBut({"databases"})
  /\ \A e \in Databases \ {d} : acct'.databases[e] = acct.databases[e]
  /\ LET x == acct'.databases[d] IN
       /\ x.row <=> row
       /\ x.schema <=> schema
       /\ x.login = login
       /\ x.credentials <=> credentials

(* The number of rows of one key is written.                               *)
KeyIs(k, n) ==
  SameBut({"keys"}) /\ acct'.keys[k] = n /\ \A q \in Keys \ {k} : acct'.keys[q] = acct.keys[q]

(* What the step s of r makes of the account, in the way forward ...       *)
JobsDone(r) ==
  CASE Kind(r) = "cronAdd" -> acct.jobs \cup {[id |-> nextId, command |-> want[r].command]}
    [] Kind(r) = "cronUpdate" -> {j \in acct.jobs : j.id # want[r].id}
                                 \cup {[id |-> want[r].id, command |-> want[r].command]}
    [] Kind(r) = "cronRemove" -> {j \in acct.jobs : j.id # want[r].id}

StepDone(r, s) ==
  LET w == want[r] x == acct.databases[w.name] IN
  /\ s = "crontab" => SameBut({"crontab"}) /\ acct'.crontab = DesiredJobs(r)
  /\ s = "job" => SameBut({"jobs"}) /\ acct'.jobs = JobsDone(r)
  /\ s = "authorized" => SameBut({"authorized"}) /\ acct'.authorized = DesiredKeys(r)
  /\ s = "key" => KeyIs(w.key, IF Kind(r) = "keyAdd" THEN acct.keys[w.key] + 1 ELSE 0)
  /\ s = "shell" => SameBut({"shell"}) /\ acct'.shell = ShellOf(w.mode)
  /\ s = "access" => SameBut({"access"}) /\ acct'.access = w.mode
  /\ s = "password" => /\ SameBut({"password"})
                       /\ acct'.password = IF UsesPassword(w.mode) THEN "new" ELSE "locked"
  /\ s = "create" => Becomes(w.name, x.row, TRUE, "new", x.credentials)
  /\ s = "row" => Becomes(w.name, Kind(r) = "dbCreate", x.schema, x.login, x.credentials)
  /\ s = "credentials" => Becomes(w.name, x.row, x.schema, x.login, TRUE)
  /\ s = "alter" => Becomes(w.name, x.row, x.schema, "new", x.credentials)
  /\ s = "drop" => Becomes(w.name, x.row, FALSE, "none", x.credentials)

(* ... and what its undo does.                                             *)
JobsUndone(r) ==
  CASE Kind(r) = "cronAdd" -> {j \in acct.jobs : j.id # newJob[r]}
    [] Kind(r) = "cronUpdate" -> {j \in acct.jobs : j.id # want[r].id} \cup {Mine(r)}
    [] Kind(r) = "cronRemove" -> acct.jobs \cup {[Mine(r) EXCEPT !.id = nextId]}

StepUndone(r, s) ==
  LET w == want[r] x == acct.databases[w.name] IN
  /\ s = "crontab" => SameBut({"crontab"}) /\ acct'.crontab = saved[r].crontab
  /\ s = "job" => SameBut({"jobs"}) /\ acct'.jobs = JobsUndone(r)
  /\ s = "authorized" => SameBut({"authorized"}) /\ acct'.authorized = saved[r].authorized
  /\ s = "key" => KeyIs(w.key, IF Kind(r) = "keyAdd" THEN 0 ELSE acct.keys[w.key] + 1)
  /\ s = "shell" => SameBut({"shell"}) /\ acct'.shell = ShellOf(snap[r].access)
  /\ s = "access" => SameBut({"access"}) /\ acct'.access = snap[r].access
  /\ s = "create" => Becomes(w.name, x.row, FALSE, "none", x.credentials)
  /\ s = "row" => Becomes(w.name, Kind(r) = "dbDelete", x.schema, x.login, x.credentials)
  /\ s = "credentials" => Becomes(w.name, x.row, x.schema, x.login, FALSE)

-----------------------------------------------------------------------------
(* What a request asks for, by its kind.                                   *)
LEMMA Wanted ==
  ASSUME TypeOK, NEW r \in Requests
  PROVE  /\ Kind(r) \in CronKinds \cup KeyKinds \cup {"setAccess"} \cup DatabaseKinds
         /\ Kind(r) \in CronKinds => want[r].command \in Commands /\ want[r].id \in 1..MaxId
         /\ Kind(r) \in KeyKinds => want[r].key \in Keys
         /\ Kind(r) = "setAccess" => want[r].mode \in Modes
         /\ Kind(r) \in DatabaseKinds => want[r].name \in Databases /\ want[r].credentials \in BOOLEAN
<1>1. want[r] \in Request
  BY SMT DEF TypeOK
<1>2. CASE want[r] \in [kind : CronKinds, id : 1..MaxId, command : Commands]
  BY <1>2, SMT DEF Kind, CronKinds, KeyKinds, DatabaseKinds
<1>3. CASE want[r] \in [kind : KeyKinds, key : Keys]
  BY <1>3, SMT DEF Kind, CronKinds, KeyKinds, DatabaseKinds
<1>4. CASE want[r] \in [kind : {"setAccess"}, mode : Modes]
  BY <1>4, SMT DEF Kind, CronKinds, KeyKinds, DatabaseKinds
<1>5. CASE want[r] \in [kind : DatabaseKinds, name : Databases, credentials : BOOLEAN]
  BY <1>5, SMT DEF Kind, CronKinds, KeyKinds, DatabaseKinds
<1> QED
  BY <1>1, <1>2, <1>3, <1>4, <1>5, Zenon DEF Request

(* A plan of two steps and a third.                                        *)
LEMMA Joined ==
  ASSUME NEW s, NEW a, NEW b, NEW d, s = <<a, b>> \o <<d>>
  PROVE  Len(s) = 3 /\ s[1] = a /\ s[2] = b /\ s[3] = d
<1> QED
  BY SMT

(***************************************************************************)
(* Where each step of a plan stands: Pos is the inverse of Steps, for each *)
(* kind of request.                                                        *)
(***************************************************************************)
LEMMA StepPlaces ==
  ASSUME TypeOK, NEW r \in Requests
  PROVE  /\ Len(Steps(r)) = Last(r) /\ Last(r) \in 1..4
         /\ \A k \in 1..Last(r) : Steps(r)[k] \in StepNames /\ Pos(r, Steps(r)[k]) = k
         /\ \A s \in StepNames : Pos(r, s) \in 0..Last(r)
<1> USE DEF StepNames, Pos, Last, CronKinds, KeyKinds, DatabaseKinds
<1>1. CASE Kind(r) \in CronKinds
  <2>1. Steps(r) = <<"crontab", "job">>
    BY <1>1, Zenon DEF Steps
  <2> QED
    BY <1>1, <2>1, SMT
<1>2. CASE Kind(r) \in KeyKinds
  <2>1. Steps(r) = <<"authorized", "key">>
    BY <1>2, Zenon DEF Steps
  <2> QED
    BY <1>2, <2>1, SMT
<1>3. CASE Kind(r) = "setAccess"
  <2>1. Steps(r) = <<"authorized", "shell", "access", "password">>
    BY <1>3, Zenon DEF Steps
  <2> QED
    BY <1>3, <2>1, SMT
<1>4. CASE Kind(r) = "dbCreate"
  <2>1. Steps(r) = <<"create", "row">> \o (IF want[r].credentials THEN <<"credentials">> ELSE <<>>)
    BY <1>4, Zenon DEF Steps
  <2>2. CASE want[r].credentials
    <3>1. Steps(r) = <<"create", "row">> \o <<"credentials">>
      BY <2>1, <2>2, Zenon
    <3>2. /\ Len(Steps(r)) = 3
          /\ Steps(r)[1] = "create" /\ Steps(r)[2] = "row" /\ Steps(r)[3] = "credentials"
      BY <3>1, Joined, SMT
    <3> QED
      BY <1>4, <2>2, <3>2, SMT
  <2>3. CASE ~want[r].credentials
    <3>1. Steps(r) = <<"create", "row">>
      BY <2>1, <2>3, SMT
    <3> QED
      BY <1>4, <2>3, <3>1, SMT
  <2> QED
    BY <2>2, <2>3
<1>5. CASE Kind(r) = "dbPassword"
  <2>1. Steps(r) = <<"alter">>
    BY <1>5, Zenon DEF Steps
  <2> QED
    BY <1>5, <2>1, SMT
<1>6. CASE Kind(r) = "dbDelete"
  <2>1. Steps(r) = <<"row", "drop">>
    BY <1>6, Zenon DEF Steps
  <2> QED
    BY <1>6, <2>1, SMT
<1> HIDE DEF Pos, Last, StepNames
<1> QED
  BY <1>1, <1>2, <1>3, <1>4, <1>5, <1>6, Wanted, SMT

(* Two steps of a plan do not share a place.                               *)
LEMMA Apart ==
  ASSUME NEW r, NEW s \in StepNames, NEW t \in StepNames, Pos(r, s) > 0, Pos(r, s) = Pos(r, t)
  PROVE  s = t
<1> QED
  BY SMT DEF StepNames, Pos, CronKinds, KeyKinds

(* Nothing changes what is asked for, so nothing changes the plan.         *)
LEMMA SameWant ==
  ASSUME want' = want, NEW r
  PROVE  /\ Kind(r)' = Kind(r) /\ Last(r)' = Last(r) /\ Steps(r)' = Steps(r)
         /\ \A s : Pos(r, s)' = Pos(r, s)
<1>1. Kind(r)' = Kind(r)
  BY DEF Kind
<1> QED
  BY <1>1, Zenon DEF Last, Steps, Pos

(***************************************************************************)
(* The control of a plan: the moves of module PlanControl stay within the  *)
(* plan, with the lock, and leave the other requests where they are.       *)
(***************************************************************************)
Moves(r) ==
  \/ Prepared(r) \/ Refused(r) \/ Started(r) \/ Advanced(r, Len(Steps(r))) \/ Failed(r)
  \/ Undid(r) \/ DidNotUndo(r) \/ Ended(r, Len(Steps(r)))
OthersStay(r) ==
  \A q \in Requests \ {r} :
    pc'[q] = pc[q] /\ at'[q] = at[q] /\ dirty'[q] = dirty[q] /\ (Running(q)' <=> Running(q))

LEMMA ControlMoves ==
  ASSUME Typed, NEW r \in Requests, want' = want, Moves(r)
  PROVE  ControlTyped(5)' /\ OthersStay(r) /\ \A q \in Requests : Placed(q)'
<1>1. /\ lock \in Requests \cup {NoRequest} /\ pc \in [Requests -> PCs]
      /\ at \in [Requests -> 0..5] /\ dirty \in [Requests -> BOOLEAN]
      /\ \A q \in Requests : Placed(q) /\ Last(q) \in 1..4 /\ Len(Steps(q)) = Last(q)
      /\ NoRequest \notin Requests
  BY StepPlaces, RequestsAssumption, Zenon DEF Typed, TypeOK, ControlTyped
<1>2. /\ pc' = [pc EXCEPT ![r] = pc'[r]] /\ at' = [at EXCEPT ![r] = at'[r]]
      /\ dirty' = [dirty EXCEPT ![r] = dirty'[r]]
      /\ pc'[r] \in PCs /\ at'[r] \in 0..5 /\ dirty'[r] \in BOOLEAN
      /\ Placed(r)' /\ lock' \in {lock, r, NoRequest} /\ (lock' = r => lock \in {r, NoRequest})
      /\ (lock' = NoRequest => lock \in {r, NoRequest})
  <2> USE <1>1, SameWant DEF Placed, Running, Goto
  <2>1. CASE Prepared(r)
    BY <2>1, SMT DEF Prepared, PCs, Verdicts
  <2>2. CASE Refused(r)
    BY <2>2, SMT DEF Refused, PCs, Verdicts
  <2>3. CASE Started(r)
    BY <2>3, SMT DEF Started, PCs, Verdicts
  <2>4. CASE Advanced(r, Len(Steps(r)))
    BY <2>4, SMT DEF Advanced, PCs, Verdicts
  <2>5. CASE Failed(r)
    BY <2>5, SMT DEF Failed, PCs, Verdicts
  <2>6. CASE Undid(r)
    BY <2>6, SMT DEF Undid, PCs, Verdicts
  <2>7. CASE DidNotUndo(r)
    BY <2>7, SMT DEF DidNotUndo, PCs, Verdicts
  <2>8. CASE Ended(r, Len(Steps(r)))
    BY <2>8, SMT DEF Ended, Verdict, PCs, Verdicts
  <2> QED
    BY <2>1, <2>2, <2>3, <2>4, <2>5, <2>6, <2>7, <2>8, Zenon DEF Moves
<1>3. ControlTyped(5)'
  <2>1. pc' \in [Requests -> PCs] /\ at' \in [Requests -> 0..5] /\ dirty' \in [Requests -> BOOLEAN]
    BY <1>1, <1>2, Zenon
  <2>2. lock' \in Requests \cup {NoRequest}
    BY <1>1, <1>2, SMT
  <2> QED
    BY <2>1, <2>2, Zenon DEF ControlTyped
<1>4. OthersStay(r)
  BY <1>1, <1>2, SMT DEF OthersStay, Running
<1>5. ASSUME NEW q \in Requests \ {r} PROVE Placed(q)'
  <2>1. lock' = q <=> lock = q
    BY <1>1, <1>2, SMT
  <2> QED
    BY <1>1, <1>4, <2>1, SameWant, SMT DEF OthersStay, Placed
<1> QED
  BY <1>2, <1>3, <1>4, <1>5

-----------------------------------------------------------------------------
KeyCounts == [Keys -> 0..Cardinality(Requests) + 1]

(* One field of the account written, the others stay.                      *)
LEMMA Written ==
  ASSUME acct \in Account, NEW v
  PROVE  /\ v \in SUBSET Job /\ acct' = [acct EXCEPT !.jobs = v] =>
              acct' \in Account /\ SameBut({"jobs"}) /\ acct'.jobs = v
         /\ v \in (SUBSET Commands) \cup {Missing} /\ acct' = [acct EXCEPT !.crontab = v] =>
              acct' \in Account /\ SameBut({"crontab"}) /\ acct'.crontab = v
         /\ v \in KeyCounts /\ acct' = [acct EXCEPT !.keys = v] =>
              acct' \in Account /\ SameBut({"keys"}) /\ acct'.keys = v
         /\ v \in (SUBSET Keys) \cup {Missing} /\ acct' = [acct EXCEPT !.authorized = v] =>
              acct' \in Account /\ SameBut({"authorized"}) /\ acct'.authorized = v
         /\ v \in Modes /\ acct' = [acct EXCEPT !.access = v] =>
              acct' \in Account /\ SameBut({"access"}) /\ acct'.access = v
         /\ v \in {"login", "nologin"} /\ acct' = [acct EXCEPT !.shell = v] =>
              acct' \in Account /\ SameBut({"shell"}) /\ acct'.shell = v
         /\ v \in {"locked", "old", "new"} /\ acct' = [acct EXCEPT !.password = v] =>
              acct' \in Account /\ SameBut({"password"}) /\ acct'.password = v
         /\ v \in [Databases -> Database] /\ acct' = [acct EXCEPT !.databases = v] =>
              acct' \in Account /\ SameBut({"databases"}) /\ acct'.databases = v
<1>1. ASSUME v \in SUBSET Job, acct' = [acct EXCEPT !.jobs = v]
      PROVE  acct' \in Account /\ SameBut({"jobs"}) /\ acct'.jobs = v
  <2>1. acct' \in Account
    BY <1>1, Zenon DEF Account
  <2>2. acct'.jobs = v /\ SameBut({"jobs"})
    BY <1>1, SMT DEF Account, SameBut
  <2> QED
    BY <2>1, <2>2
<1>2. ASSUME v \in (SUBSET Commands) \cup {Missing}, acct' = [acct EXCEPT !.crontab = v]
      PROVE  acct' \in Account /\ SameBut({"crontab"}) /\ acct'.crontab = v
  <2>1. acct' \in Account
    BY <1>2, Zenon DEF Account
  <2>2. acct'.crontab = v /\ SameBut({"crontab"})
    BY <1>2, SMT DEF Account, SameBut
  <2> QED
    BY <2>1, <2>2
<1>3. ASSUME v \in KeyCounts, acct' = [acct EXCEPT !.keys = v]
      PROVE  acct' \in Account /\ SameBut({"keys"}) /\ acct'.keys = v
  <2>1. acct' \in Account
    BY <1>3, Zenon DEF Account, KeyCounts
  <2>2. acct'.keys = v /\ SameBut({"keys"})
    BY <1>3, SMT DEF Account, SameBut
  <2> QED
    BY <2>1, <2>2
<1>4. ASSUME v \in (SUBSET Keys) \cup {Missing}, acct' = [acct EXCEPT !.authorized = v]
      PROVE  acct' \in Account /\ SameBut({"authorized"}) /\ acct'.authorized = v
  <2>1. acct' \in Account
    BY <1>4, Zenon DEF Account
  <2>2. acct'.authorized = v /\ SameBut({"authorized"})
    BY <1>4, SMT DEF Account, SameBut
  <2> QED
    BY <2>1, <2>2
<1>5. ASSUME v \in Modes, acct' = [acct EXCEPT !.access = v]
      PROVE  acct' \in Account /\ SameBut({"access"}) /\ acct'.access = v
  <2>1. acct' \in Account
    BY <1>5, Zenon DEF Account
  <2>2. acct'.access = v /\ SameBut({"access"})
    BY <1>5, SMT DEF Account, SameBut
  <2> QED
    BY <2>1, <2>2
<1>6. ASSUME v \in {"login", "nologin"}, acct' = [acct EXCEPT !.shell = v]
      PROVE  acct' \in Account /\ SameBut({"shell"}) /\ acct'.shell = v
  <2>1. acct' \in Account
    BY <1>6, Zenon DEF Account
  <2>2. acct'.shell = v /\ SameBut({"shell"})
    BY <1>6, SMT DEF Account, SameBut
  <2> QED
    BY <2>1, <2>2
<1>7. ASSUME v \in {"locked", "old", "new"}, acct' = [acct EXCEPT !.password = v]
      PROVE  acct' \in Account /\ SameBut({"password"}) /\ acct'.password = v
  <2>1. acct' \in Account
    BY <1>7, Zenon DEF Account
  <2>2. acct'.password = v /\ SameBut({"password"})
    BY <1>7, SMT DEF Account, SameBut
  <2> QED
    BY <2>1, <2>2
<1>8. ASSUME v \in [Databases -> Database], acct' = [acct EXCEPT !.databases = v]
      PROVE  acct' \in Account /\ SameBut({"databases"}) /\ acct'.databases = v
  <2>1. acct' \in Account
    BY <1>8, Zenon DEF Account
  <2>2. acct'.databases = v /\ SameBut({"databases"})
    BY <1>8, SMT DEF Account, SameBut
  <2> QED
    BY <2>1, <2>2
<1> QED
  BY <1>1, <1>2, <1>3, <1>4, <1>5, <1>6, <1>7, <1>8

(* One key's rows are counted anew.                                        *)
LEMMA KeyWritten ==
  ASSUME acct \in Account, NEW k \in Keys, NEW n \in 0..Cardinality(Requests) + 1,
         acct' = [acct EXCEPT !.keys[k] = n]
  PROVE  acct' \in Account /\ KeyIs(k, n)
<1> DEFINE keys == [acct.keys EXCEPT ![k] = n]
<1>1. acct.keys \in KeyCounts
  BY SMT DEF Account, KeyCounts
<1>2. keys \in KeyCounts /\ keys[k] = n /\ \A q \in Keys \ {k} : keys[q] = acct.keys[q]
  BY <1>1, Zenon DEF KeyCounts
<1>3. acct' = [acct EXCEPT !.keys = keys]
  BY Zenon
<1> HIDE DEF keys
<1> QED
  BY <1>2, <1>3, Written, Zenon DEF KeyIs

(* One database is written.                                                *)
LEMMA DatabaseWritten ==
  ASSUME acct \in Account, NEW d \in Databases, NEW x \in Database,
         acct' = [acct EXCEPT !.databases = [acct.databases EXCEPT ![d] = x]]
  PROVE  acct' \in Account /\ Becomes(d, x.row, x.schema, x.login, x.credentials)
<1> DEFINE all == [acct.databases EXCEPT ![d] = x]
<1>1. acct.databases \in [Databases -> Database]
  BY SMT DEF Account
<1>2. all \in [Databases -> Database] /\ all[d] = x /\ \A e \in Databases \ {d} : all[e] = acct.databases[e]
  BY <1>1, Zenon
<1> HIDE DEF all
<1>3. acct' = [acct EXCEPT !.databases = all]
  BY Zenon DEF all
<1>4. acct' \in Account /\ SameBut({"databases"}) /\ acct'.databases = all
  BY <1>2, <1>3, Written, Zenon
<1> QED
  BY <1>2, <1>4, Zenon DEF Becomes

-----------------------------------------------------------------------------
(* What the plan writes into a file is of what there may be.               *)
LEMMA Desired ==
  ASSUME TypeOK, NEW r \in Requests, Admitted(r)
  PROVE  /\ Kind(r) \in CronKinds => DesiredJobs(r) \in SUBSET Commands
         /\ Kind(r) \in KeyKinds \cup {"setAccess"} => DesiredKeys(r) \in SUBSET Keys
<1>1. snap[r].jobs \in SUBSET Job
  BY SMT DEF Admitted, Account
<1>2. \A jobs \in SUBSET Job : Crontab(jobs) \in SUBSET Commands
  BY SMT DEF Crontab, Job
<1>3. /\ Crontab(snap[r].jobs) \in SUBSET Commands
      /\ Crontab({j \in snap[r].jobs : j.id # want[r].id}) \in SUBSET Commands
  BY <1>1, <1>2
<1>4. ASSUME Kind(r) \in CronKinds PROVE DesiredJobs(r) \in SUBSET Commands
  BY <1>3, <1>4, Wanted, SMT DEF DesiredJobs, CronKinds, Kind
<1>5. ASSUME Kind(r) \in KeyKinds \cup {"setAccess"} PROVE DesiredKeys(r) \in SUBSET Keys
  <2>1. Listed(snap[r]) \in SUBSET Keys
    BY DEF Listed
  <2> QED
    BY <1>5, <2>1, Wanted, SMT DEF DesiredKeys, KeyKinds, Kind
<1> QED
  BY <1>4, <1>5

(* A job is removed, a job takes the place of the others with its id.      *)
LEMMA JobsStay ==
  ASSUME NEW jobs \in SUBSET Job, NEW i, NEW j \in Job
  PROVE  {x \in jobs : x.id # i} \in SUBSET Job /\ {x \in jobs : x.id # i} \cup {j} \in SUBSET Job
         /\ jobs \cup {j} \in SUBSET Job
<1> QED
  BY SMT

(***************************************************************************)
(* Each step does what StepDone says, and only that.                       *)
(***************************************************************************)
LEMMA DoneEffect ==
  ASSUME TypeOK, NEW r \in Requests, NEW s \in StepNames, Pos(r, s) > 0, Admitted(r), acct' = Done(r, s),
         s = "job" /\ Kind(r) = "cronAdd" => nextId \in 1..MaxId,
         s = "key" /\ Kind(r) = "keyAdd" => acct.keys[want[r].key] + 1 <= Cardinality(Requests) + 1
  PROVE  acct' \in Account /\ StepDone(r, s)
<1> DEFINE d == want[r].name
<1>1. acct \in Account /\ acct' = Done(r, s) /\ acct.jobs \in SUBSET Job
  BY SMT DEF TypeOK, Account
<1>2. CASE s = "crontab"
  <2>1. acct' = [acct EXCEPT !.crontab = DesiredJobs(r)]
    BY <1>1, <1>2, Zenon DEF Done
  <2>2. DesiredJobs(r) \in (SUBSET Commands) \cup {Missing}
    BY <1>1, <1>2, Desired, SMT DEF Pos
  <2>3. acct' \in Account /\ SameBut({"crontab"}) /\ acct'.crontab = DesiredJobs(r)
    BY <1>1, <2>1, <2>2, Written, Zenon
  <2> QED
    BY <1>2, <2>3, Zenon DEF StepDone
<1>3. CASE s = "job"
  <2>1. Kind(r) \in CronKinds
    BY <1>3, SMT DEF Pos
  <2>2. acct' = [acct EXCEPT !.jobs = JobsDone(r)]
    <3>1. CASE Kind(r) = "cronAdd"
      BY <1>1, <1>3, <3>1, Zenon DEF Done, JobsDone, Kind
    <3>2. CASE Kind(r) = "cronUpdate"
      BY <1>1, <1>3, <3>2, Zenon DEF Done, JobsDone, Kind
    <3>3. CASE Kind(r) = "cronRemove"
      BY <1>1, <1>3, <3>3, Zenon DEF Done, JobsDone, Kind
    <3> QED
      BY <2>1, <3>1, <3>2, <3>3, Zenon DEF CronKinds
  <2>3. JobsDone(r) \in SUBSET Job
    <3>1. Kind(r) = "cronAdd" => [id |-> nextId, command |-> want[r].command] \in Job
      BY <1>3, <2>1, Wanted, SMT DEF Job
    <3>2. [id |-> want[r].id, command |-> want[r].command] \in Job
      BY <2>1, Wanted, SMT DEF Job
    <3> QED
      BY <1>1, <2>1, <3>1, <3>2, JobsStay, SMT DEF JobsDone, CronKinds
  <2>4. acct' \in Account /\ SameBut({"jobs"}) /\ acct'.jobs = JobsDone(r)
    BY <1>1, <2>2, <2>3, Written, Zenon
  <2> QED
    BY <1>3, <2>4, Zenon DEF StepDone
<1>4. CASE s = "authorized"
  <2>1. acct' = [acct EXCEPT !.authorized = DesiredKeys(r)]
    BY <1>1, <1>4, Zenon DEF Done
  <2>2. DesiredKeys(r) \in (SUBSET Keys) \cup {Missing}
    BY <1>1, <1>4, Desired, SMT DEF Pos
  <2>3. acct' \in Account /\ SameBut({"authorized"}) /\ acct'.authorized = DesiredKeys(r)
    BY <1>1, <2>1, <2>2, Written, Zenon
  <2> QED
    BY <1>4, <2>3, Zenon DEF StepDone
<1>5. CASE s = "key"
  <2> DEFINE n == IF Kind(r) = "keyAdd" THEN acct.keys[want[r].key] + 1 ELSE 0
  <2>1. want[r].key \in Keys /\ Kind(r) \in KeyKinds
    BY <1>5, Wanted, SMT DEF Pos
  <2>2. acct' = [acct EXCEPT !.keys[want[r].key] = n]
    BY <1>1, <1>5, Zenon DEF Done, Kind
  <2>3. n \in 0..Cardinality(Requests) + 1
    <3>1. Cardinality(Requests) \in Nat
      BY AccountsAssumption, FS_CardinalityType
    <3>2. acct.keys[want[r].key] \in 0..Cardinality(Requests) + 1
      BY <1>1, <2>1, SMT DEF Account
    <3> QED
      BY <1>5, <3>1, <3>2, SMT
  <2> HIDE DEF n
  <2>4. acct' \in Account /\ KeyIs(want[r].key, n)
    BY <1>1, <2>1, <2>2, <2>3, KeyWritten
  <2> QED
    BY <1>5, <2>4, Zenon DEF StepDone, n
<1>6. CASE s = "shell"
  <2>1. acct' = [acct EXCEPT !.shell = ShellOf(want[r].mode)]
    BY <1>1, <1>6, Zenon DEF Done
  <2>2. ShellOf(want[r].mode) \in {"login", "nologin"}
    BY <1>1, <1>6, SMT DEF ShellOf
  <2>3. acct' \in Account /\ SameBut({"shell"}) /\ acct'.shell = ShellOf(want[r].mode)
    BY <1>1, <2>1, <2>2, Written, Zenon
  <2> QED
    BY <1>6, <2>3, Zenon DEF StepDone
<1>7. CASE s = "access"
  <2>1. acct' = [acct EXCEPT !.access = want[r].mode]
    BY <1>1, <1>7, Zenon DEF Done
  <2>2. want[r].mode \in Modes
    BY <1>1, <1>7, Wanted, SMT DEF Pos
  <2>3. acct' \in Account /\ SameBut({"access"}) /\ acct'.access = want[r].mode
    BY <1>1, <2>1, <2>2, Written, Zenon
  <2> QED
    BY <1>7, <2>3, Zenon DEF StepDone
<1>8. CASE s = "password"
  <2>1. acct' = [acct EXCEPT !.password = (IF UsesPassword(want[r].mode) THEN "new" ELSE "locked")]
    BY <1>1, <1>8, Zenon DEF Done
  <2>2. (IF UsesPassword(want[r].mode) THEN "new" ELSE "locked") \in {"locked", "old", "new"}
    BY <1>1, <1>8, SMT
  <2>3. acct' \in Account /\ SameBut({"password"}) /\ acct'.password = (IF UsesPassword(want[r].mode) THEN "new" ELSE "locked")
    BY <1>1, <2>1, <2>2, Written, Zenon
  <2> QED
    BY <1>8, <2>3, Zenon DEF StepDone
<1>9. CASE s = "create"
  <2> DEFINE x == [acct.databases[d] EXCEPT !.schema = TRUE, !.login = "new"]
  <2>1. d \in Databases /\ acct.databases[d] \in Database /\ acct.databases \in [Databases -> Database]
    BY <1>1, <1>9, Wanted, SMT DEF Pos, DatabaseKinds, Account
  <2>2. acct' = [acct EXCEPT !.databases = [acct.databases EXCEPT ![d] = x]]
    BY <1>1, <1>9, <2>1, Zenon DEF Done, Account, Dropped, Kind
  <2>3. x \in Database
    BY <2>1, Zenon DEF Database
  <2>4. (x.row <=> acct.databases[d].row) /\ (x.schema <=> TRUE) /\ x.login = "new" /\ (x.credentials <=> acct.databases[d].credentials)
    BY <2>1, Zenon DEF Database
  <2> HIDE DEF x
  <2>5. acct' \in Account /\ Becomes(d, x.row, x.schema, x.login, x.credentials)
    BY <1>1, <2>1, <2>2, <2>3, DatabaseWritten, Zenon
  <2>6. Becomes(d, acct.databases[d].row, TRUE, "new", acct.databases[d].credentials)
    BY <2>4, <2>5, Zenon DEF Becomes
  <2> QED
    BY <1>9, <2>5, <2>6, Zenon DEF StepDone
<1>10. CASE s = "row"
  <2> DEFINE x == [acct.databases[d] EXCEPT !.row = (Kind(r) = "dbCreate")]
  <2>1. d \in Databases /\ acct.databases[d] \in Database /\ acct.databases \in [Databases -> Database]
    BY <1>1, <1>10, Wanted, SMT DEF Pos, DatabaseKinds, Account
  <2>2. acct' = [acct EXCEPT !.databases = [acct.databases EXCEPT ![d] = x]]
    BY <1>1, <1>10, <2>1, Zenon DEF Done, Account, Dropped, Kind
  <2>3. x \in Database
    BY <2>1, Zenon DEF Database
  <2>4. (x.row <=> Kind(r) = "dbCreate") /\ (x.schema <=> acct.databases[d].schema) /\ x.login = acct.databases[d].login /\ (x.credentials <=> acct.databases[d].credentials)
    BY <2>1, Zenon DEF Database
  <2> HIDE DEF x
  <2>5. acct' \in Account /\ Becomes(d, x.row, x.schema, x.login, x.credentials)
    BY <1>1, <2>1, <2>2, <2>3, DatabaseWritten, Zenon
  <2>6. Becomes(d, Kind(r) = "dbCreate", acct.databases[d].schema, acct.databases[d].login, acct.databases[d].credentials)
    BY <2>4, <2>5, Zenon DEF Becomes
  <2> QED
    BY <1>10, <2>5, <2>6, Zenon DEF StepDone
<1>11. CASE s = "credentials"
  <2> DEFINE x == [acct.databases[d] EXCEPT !.credentials = TRUE]
  <2>1. d \in Databases /\ acct.databases[d] \in Database /\ acct.databases \in [Databases -> Database]
    BY <1>1, <1>11, Wanted, SMT DEF Pos, DatabaseKinds, Account
  <2>2. acct' = [acct EXCEPT !.databases = [acct.databases EXCEPT ![d] = x]]
    BY <1>1, <1>11, <2>1, Zenon DEF Done, Account, Dropped, Kind
  <2>3. x \in Database
    BY <2>1, Zenon DEF Database
  <2>4. (x.row <=> acct.databases[d].row) /\ (x.schema <=> acct.databases[d].schema) /\ x.login = acct.databases[d].login /\ (x.credentials <=> TRUE)
    BY <2>1, Zenon DEF Database
  <2> HIDE DEF x
  <2>5. acct' \in Account /\ Becomes(d, x.row, x.schema, x.login, x.credentials)
    BY <1>1, <2>1, <2>2, <2>3, DatabaseWritten, Zenon
  <2>6. Becomes(d, acct.databases[d].row, acct.databases[d].schema, acct.databases[d].login, TRUE)
    BY <2>4, <2>5, Zenon DEF Becomes
  <2> QED
    BY <1>11, <2>5, <2>6, Zenon DEF StepDone
<1>12. CASE s = "alter"
  <2> DEFINE x == [acct.databases[d] EXCEPT !.login = "new"]
  <2>1. d \in Databases /\ acct.databases[d] \in Database /\ acct.databases \in [Databases -> Database]
    BY <1>1, <1>12, Wanted, SMT DEF Pos, DatabaseKinds, Account
  <2>2. acct' = [acct EXCEPT !.databases = [acct.databases EXCEPT ![d] = x]]
    BY <1>1, <1>12, <2>1, Zenon DEF Done, Account, Dropped, Kind
  <2>3. x \in Database
    BY <2>1, Zenon DEF Database
  <2>4. (x.row <=> acct.databases[d].row) /\ (x.schema <=> acct.databases[d].schema) /\ x.login = "new" /\ (x.credentials <=> acct.databases[d].credentials)
    BY <2>1, Zenon DEF Database
  <2> HIDE DEF x
  <2>5. acct' \in Account /\ Becomes(d, x.row, x.schema, x.login, x.credentials)
    BY <1>1, <2>1, <2>2, <2>3, DatabaseWritten, Zenon
  <2>6. Becomes(d, acct.databases[d].row, acct.databases[d].schema, "new", acct.databases[d].credentials)
    BY <2>4, <2>5, Zenon DEF Becomes
  <2> QED
    BY <1>12, <2>5, <2>6, Zenon DEF StepDone
<1>13. CASE s = "drop"
  <2> DEFINE x == [acct.databases[d] EXCEPT !.schema = FALSE, !.login = "none"]
  <2>1. d \in Databases /\ acct.databases[d] \in Database /\ acct.databases \in [Databases -> Database]
    BY <1>1, <1>13, Wanted, SMT DEF Pos, DatabaseKinds, Account
  <2>2. acct' = [acct EXCEPT !.databases = [acct.databases EXCEPT ![d] = x]]
    BY <1>1, <1>13, <2>1, Zenon DEF Done, Account, Dropped, Kind
  <2>3. x \in Database
    BY <2>1, Zenon DEF Database
  <2>4. (x.row <=> acct.databases[d].row) /\ (x.schema <=> FALSE) /\ x.login = "none" /\ (x.credentials <=> acct.databases[d].credentials)
    BY <2>1, Zenon DEF Database
  <2> HIDE DEF x
  <2>5. acct' \in Account /\ Becomes(d, x.row, x.schema, x.login, x.credentials)
    BY <1>1, <2>1, <2>2, <2>3, DatabaseWritten, Zenon
  <2>6. Becomes(d, acct.databases[d].row, FALSE, "none", acct.databases[d].credentials)
    BY <2>4, <2>5, Zenon DEF Becomes
  <2> QED
    BY <1>13, <2>5, <2>6, Zenon DEF StepDone
<1> QED
  BY <1>2, <1>3, <1>4, <1>5, <1>6, <1>7, <1>8, <1>9, <1>10, <1>11, <1>12, <1>13, Zenon DEF StepNames

-----------------------------------------------------------------------------
(* The row that an undo puts back is the one the preparation has read.     *)
LEMMA MineIsRead ==
  ASSUME TypeOK, NEW r \in Requests, Admitted(r), Kind(r) \in {"cronUpdate", "cronRemove"}
  PROVE  Mine(r) \in snap[r].jobs /\ Mine(r).id = want[r].id /\ Mine(r) \in Job
<1>1. PICK j \in snap[r].jobs : j.id = want[r].id
  BY Zenon DEF Admitted
<1>2. Mine(r) \in snap[r].jobs /\ Mine(r).id = want[r].id
  BY <1>1, Zenon DEF Mine
<1>3. snap[r].jobs \in SUBSET Job
  BY SMT DEF Admitted, Account
<1> QED
  BY <1>2, <1>3

(***************************************************************************)
(* Each undo does what StepUndone says, and only that.                     *)
(***************************************************************************)
LEMMA UndoneEffect ==
  ASSUME TypeOK, NEW r \in Requests, NEW s \in StepNames \ Irreversible, Pos(r, s) > 0, Admitted(r),
         acct' = Undone(r, s),
         s = "job" /\ Kind(r) = "cronRemove" => nextId \in 1..MaxId,
         s = "key" /\ Kind(r) = "keyRemove" => acct.keys[want[r].key] + 1 <= Cardinality(Requests) + 1
  PROVE  acct' \in Account /\ StepUndone(r, s)
<1> DEFINE d == want[r].name
<1>1. acct \in Account /\ acct' = Undone(r, s) /\ acct.jobs \in SUBSET Job
  BY SMT DEF TypeOK, Account
<1>2. CASE s = "crontab"
  <2>1. acct' = [acct EXCEPT !.crontab = saved[r].crontab]
    BY <1>1, <1>2, Zenon DEF Undone, Restored
  <2>2. saved[r].crontab \in (SUBSET Commands) \cup {Missing}
    BY <1>1, <1>2, SMT DEF TypeOK
  <2>3. acct' \in Account /\ SameBut({"crontab"}) /\ acct'.crontab = saved[r].crontab
    BY <1>1, <2>1, <2>2, Written, Zenon
  <2> QED
    BY <1>2, <2>3, Zenon DEF StepUndone
<1>3. CASE s = "job"
  <2>1. Kind(r) \in CronKinds
    BY <1>3, SMT DEF Pos
  <2>2. acct' = [acct EXCEPT !.jobs = JobsUndone(r)]
    <3>1. CASE Kind(r) = "cronAdd"
      BY <1>1, <1>3, <3>1, Zenon DEF Undone, JobsUndone, Kind
    <3>2. CASE Kind(r) = "cronUpdate"
      BY <1>1, <1>3, <3>2, Zenon DEF Undone, JobsUndone, Kind
    <3>3. CASE Kind(r) = "cronRemove"
      BY <1>1, <1>3, <3>3, Zenon DEF Undone, JobsUndone, Kind
    <3> QED
      BY <2>1, <3>1, <3>2, <3>3, Zenon DEF CronKinds
  <2>3. JobsUndone(r) \in SUBSET Job
    <3>1. CASE Kind(r) = "cronAdd"
      BY <1>1, <3>1, JobsStay, SMT DEF JobsUndone
    <3>2. CASE Kind(r) = "cronUpdate"
      BY <1>1, <3>2, MineIsRead, JobsStay, SMT DEF JobsUndone
    <3>3. CASE Kind(r) = "cronRemove"
      <4>1. [Mine(r) EXCEPT !.id = nextId] \in Job
        BY <1>3, <3>3, MineIsRead, Zenon DEF Job
      <4> QED
        BY <1>1, <3>3, <4>1, JobsStay, SMT DEF JobsUndone
    <3> QED
      BY <2>1, <3>1, <3>2, <3>3, Zenon DEF CronKinds
  <2>4. acct' \in Account /\ SameBut({"jobs"}) /\ acct'.jobs = JobsUndone(r)
    BY <1>1, <2>2, <2>3, Written, Zenon
  <2> QED
    BY <1>3, <2>4, Zenon DEF StepUndone
<1>4. CASE s = "authorized"
  <2>1. acct' = [acct EXCEPT !.authorized = saved[r].authorized]
    BY <1>1, <1>4, Zenon DEF Undone, Restored
  <2>2. saved[r].authorized \in (SUBSET Keys) \cup {Missing}
    BY <1>1, <1>4, SMT DEF TypeOK
  <2>3. acct' \in Account /\ SameBut({"authorized"}) /\ acct'.authorized = saved[r].authorized
    BY <1>1, <2>1, <2>2, Written, Zenon
  <2> QED
    BY <1>4, <2>3, Zenon DEF StepUndone
<1>5. CASE s = "key"
  <2> DEFINE n == IF Kind(r) = "keyAdd" THEN 0 ELSE acct.keys[want[r].key] + 1
  <2>1. want[r].key \in Keys /\ Kind(r) \in KeyKinds
    BY <1>5, Wanted, SMT DEF Pos
  <2>2. acct' = [acct EXCEPT !.keys[want[r].key] = n]
    BY <1>1, <1>5, Zenon DEF Undone, Kind
  <2>3. n \in 0..Cardinality(Requests) + 1
    <3>1. Cardinality(Requests) \in Nat
      BY AccountsAssumption, FS_CardinalityType
    <3>2. acct.keys[want[r].key] \in 0..Cardinality(Requests) + 1
      BY <1>1, <2>1, SMT DEF Account
    <3> QED
      BY <1>5, <2>1, <3>1, <3>2, SMT DEF KeyKinds
  <2> HIDE DEF n
  <2>4. acct' \in Account /\ KeyIs(want[r].key, n)
    BY <1>1, <2>1, <2>2, <2>3, KeyWritten
  <2> QED
    BY <1>5, <2>4, Zenon DEF StepUndone, n
<1>6. CASE s = "shell"
  <2>1. acct' = [acct EXCEPT !.shell = ShellOf(snap[r].access)]
    BY <1>1, <1>6, Zenon DEF Undone
  <2>2. ShellOf(snap[r].access) \in {"login", "nologin"}
    BY <1>1, <1>6, SMT DEF ShellOf
  <2>3. acct' \in Account /\ SameBut({"shell"}) /\ acct'.shell = ShellOf(snap[r].access)
    BY <1>1, <2>1, <2>2, Written, Zenon
  <2> QED
    BY <1>6, <2>3, Zenon DEF StepUndone
<1>7. CASE s = "access"
  <2>1. acct' = [acct EXCEPT !.access = snap[r].access]
    BY <1>1, <1>7, Zenon DEF Undone
  <2>2. snap[r].access \in Modes
    BY <1>1, <1>7, SMT DEF Admitted, Account
  <2>3. acct' \in Account /\ SameBut({"access"}) /\ acct'.access = snap[r].access
    BY <1>1, <2>1, <2>2, Written, Zenon
  <2> QED
    BY <1>7, <2>3, Zenon DEF StepUndone
<1>8. CASE s = "create"
  <2> DEFINE x == [acct.databases[d] EXCEPT !.schema = FALSE, !.login = "none"]
  <2>1. d \in Databases /\ acct.databases[d] \in Database /\ acct.databases \in [Databases -> Database]
    BY <1>1, <1>8, Wanted, SMT DEF Pos, DatabaseKinds, Account
  <2>2. acct' = [acct EXCEPT !.databases = [acct.databases EXCEPT ![d] = x]]
    BY <1>1, <1>8, <2>1, Zenon DEF Undone, Account, Dropped, Kind
  <2>3. x \in Database
    BY <2>1, Zenon DEF Database
  <2>4. (x.row <=> acct.databases[d].row) /\ (x.schema <=> FALSE) /\ x.login = "none" /\ (x.credentials <=> acct.databases[d].credentials)
    BY <2>1, Zenon DEF Database
  <2> HIDE DEF x
  <2>5. acct' \in Account /\ Becomes(d, x.row, x.schema, x.login, x.credentials)
    BY <1>1, <2>1, <2>2, <2>3, DatabaseWritten, Zenon
  <2>6. Becomes(d, acct.databases[d].row, FALSE, "none", acct.databases[d].credentials)
    BY <2>4, <2>5, Zenon DEF Becomes
  <2> QED
    BY <1>8, <2>5, <2>6, Zenon DEF StepUndone
<1>9. CASE s = "row"
  <2> DEFINE x == [acct.databases[d] EXCEPT !.row = (Kind(r) = "dbDelete")]
  <2>1. d \in Databases /\ acct.databases[d] \in Database /\ acct.databases \in [Databases -> Database]
    BY <1>1, <1>9, Wanted, SMT DEF Pos, DatabaseKinds, Account
  <2>2. acct' = [acct EXCEPT !.databases = [acct.databases EXCEPT ![d] = x]]
    BY <1>1, <1>9, <2>1, Zenon DEF Undone, Account, Dropped, Kind
  <2>3. x \in Database
    BY <2>1, Zenon DEF Database
  <2>4. (x.row <=> Kind(r) = "dbDelete") /\ (x.schema <=> acct.databases[d].schema) /\ x.login = acct.databases[d].login /\ (x.credentials <=> acct.databases[d].credentials)
    BY <2>1, Zenon DEF Database
  <2> HIDE DEF x
  <2>5. acct' \in Account /\ Becomes(d, x.row, x.schema, x.login, x.credentials)
    BY <1>1, <2>1, <2>2, <2>3, DatabaseWritten, Zenon
  <2>6. Becomes(d, Kind(r) = "dbDelete", acct.databases[d].schema, acct.databases[d].login, acct.databases[d].credentials)
    BY <2>4, <2>5, Zenon DEF Becomes
  <2> QED
    BY <1>9, <2>5, <2>6, Zenon DEF StepUndone
<1>10. CASE s = "credentials"
  <2> DEFINE x == [acct.databases[d] EXCEPT !.credentials = FALSE]
  <2>1. d \in Databases /\ acct.databases[d] \in Database /\ acct.databases \in [Databases -> Database]
    BY <1>1, <1>10, Wanted, SMT DEF Pos, DatabaseKinds, Account
  <2>2. acct' = [acct EXCEPT !.databases = [acct.databases EXCEPT ![d] = x]]
    BY <1>1, <1>10, <2>1, Zenon DEF Undone, Account, Dropped, Kind
  <2>3. x \in Database
    BY <2>1, Zenon DEF Database
  <2>4. (x.row <=> acct.databases[d].row) /\ (x.schema <=> acct.databases[d].schema) /\ x.login = acct.databases[d].login /\ (x.credentials <=> FALSE)
    BY <2>1, Zenon DEF Database
  <2> HIDE DEF x
  <2>5. acct' \in Account /\ Becomes(d, x.row, x.schema, x.login, x.credentials)
    BY <1>1, <2>1, <2>2, <2>3, DatabaseWritten, Zenon
  <2>6. Becomes(d, acct.databases[d].row, acct.databases[d].schema, acct.databases[d].login, FALSE)
    BY <2>4, <2>5, Zenon DEF Becomes
  <2> QED
    BY <1>10, <2>5, <2>6, Zenon DEF StepUndone
<1> QED
  BY <1>2, <1>3, <1>4, <1>5, <1>6, <1>7, <1>8, <1>9, <1>10, Zenon DEF StepNames, Irreversible

(***************************************************************************)
(* A step that fails half-way adds no row.                                 *)
(***************************************************************************)
LEMMA TornEffect ==
  ASSUME TypeOK, NEW r \in Requests, NEW s \in StepNames, Pos(r, s) > 0, Admitted(r), acct' \in TornBy(r, s)
  PROVE  /\ acct' \in Account /\ acct'.jobs = acct.jobs
         /\ \A k \in Keys : acct'.keys[k] <= acct.keys[k]
<1> DEFINE d == want[r].name
           Left(schema, login) == [acct EXCEPT !.databases[d].schema = schema, !.databases[d].login = login]
           Logins == {"none", "old", "new"}
           Harmless == /\ acct' \in Account /\ acct'.jobs = acct.jobs
                       /\ \A k \in Keys : acct'.keys[k] <= acct.keys[k]
<1>1. acct \in Account /\ acct.keys \in [Keys -> Nat]
  <2>1. Cardinality(Requests) \in Nat
    BY AccountsAssumption, FS_CardinalityType
  <2> QED
    BY <2>1, SMT DEF TypeOK, Account
<1>2. ASSUME SameBut({"databases"}) \/ SameBut({"crontab"}) \/ SameBut({"authorized"}) \/ SameBut({"shell"})
             \/ SameBut({"password"}), acct' \in Account
      PROVE  Harmless
  <2>1. acct'.jobs = acct.jobs /\ acct'.keys = acct.keys
    BY <1>2, Zenon DEF SameBut
  <2> QED
    BY <1>1, <1>2, <2>1, SMT
<1>3. ASSUME s \notin {"job", "key", "access", "row"}, acct' = Done(r, s) PROVE Harmless
  <2>1. acct' \in Account /\ StepDone(r, s)
    BY <1>3, DoneEffect
  <2>2. \/ SameBut({"databases"}) \/ SameBut({"crontab"}) \/ SameBut({"authorized"}) \/ SameBut({"shell"})
        \/ SameBut({"password"})
    BY <1>3, <2>1, Zenon DEF StepDone, StepNames, Becomes
  <2> QED
    BY <1>2, <2>1, <2>2
<1>4. ASSUME NEW schema \in BOOLEAN, NEW login \in Logins, d \in Databases, acct' = Left(schema, login)
      PROVE  Harmless
  <2> DEFINE x == [acct.databases[d] EXCEPT !.schema = schema, !.login = login]
  <2>1. acct.databases \in [Databases -> Database] /\ acct.databases[d] \in Database
    BY <1>1, <1>4, SMT DEF Account
  <2>2. acct' = [acct EXCEPT !.databases = [acct.databases EXCEPT ![d] = x]]
    BY <1>4, <2>1, Zenon
  <2>3. x \in Database
    BY <1>4, <2>1, Zenon DEF Database
  <2> HIDE DEF x
  <2>4. acct' \in Account /\ Becomes(d, x.row, x.schema, x.login, x.credentials)
    BY <1>1, <1>4, <2>2, <2>3, DatabaseWritten, Zenon
  <2> QED
    BY <1>2, <2>4, Zenon DEF Becomes
<1>5. ASSUME d \in Databases PROVE acct.databases[d].login \in Logins
  BY <1>1, <1>5, SMT DEF Account, Database
<1>6. CASE s = "key"
  <2>1. acct' = Done(r, s) /\ Kind(r) = "keyRemove"
    BY <1>6, Zenon DEF TornBy, Transactional
  <2>2. acct' \in Account /\ StepDone(r, s)
    BY <1>6, <2>1, DoneEffect, SMT
  <2>3. KeyIs(want[r].key, 0)
    BY <1>6, <2>1, <2>2, SMT DEF StepDone
  <2>4. acct'.jobs = acct.jobs
    BY <2>3, Zenon DEF KeyIs, SameBut
  <2> QED
    BY <1>1, <2>2, <2>3, <2>4, SMT DEF KeyIs
<1>7. CASE s = "create"
  <2>1. d \in Databases
    BY <1>7, Wanted, SMT DEF Pos, DatabaseKinds
  <2>2. \/ \E schema \in BOOLEAN, login \in Logins : acct' = Left(schema, login)
        \/ acct' = Done(r, s)
    <3>1. \/ acct' \in {Left(FALSE, "none"), Left(FALSE, acct.databases[d].login)}
          \/ acct' \in (IF acct.databases[d].schema THEN {} ELSE {Left(TRUE, acct.databases[d].login)})
          \/ acct' \in (IF Possible(r, s) THEN {Done(r, s)} ELSE {})
      BY <1>7, Zenon DEF TornBy, Transactional
    <3>2. \/ acct' = Left(FALSE, "none") \/ acct' = Left(FALSE, acct.databases[d].login)
          \/ acct' = Left(TRUE, acct.databases[d].login) \/ acct' = Done(r, s)
      BY <3>1, Zenon
    <3> HIDE DEF Left
    <3> QED
      BY <1>5, <2>1, <3>2, Zenon
  <2> QED
    BY <1>3, <1>4, <1>7, <2>1, <2>2, Zenon
<1>8. CASE s = "drop"
  <2>1. d \in Databases
    BY <1>8, Wanted, SMT DEF Pos, DatabaseKinds
  <2>2. acct' = Left(FALSE, acct.databases[d].login) \/ acct' = Left(FALSE, "none")
    BY <1>8, Zenon DEF TornBy, Transactional
  <2> QED
    BY <1>4, <1>5, <2>1, <2>2, Zenon
<1>9. CASE s \notin {"key", "create", "drop"}
  <2>1. s \notin Transactional /\ acct' = Done(r, s)
    BY <1>9, Zenon DEF TornBy
  <2> QED
    BY <1>3, <1>9, <2>1, SMT DEF Transactional
<1> QED
  BY <1>6, <1>7, <1>8, <1>9

-----------------------------------------------------------------------------
(***************************************************************************)
(* Who may still insert a row: no move of a plan makes room for another    *)
(* one, and the move that inserts it has used its own.                     *)
(***************************************************************************)
LEMMA Inserting ==
  ASSUME Typed, NEW r \in Requests, want' = want, Moves(r)
  PROVE  /\ Cardinality(Inserters) \in Nat /\ Cardinality(Inserters)' \in Nat
         /\ Cardinality(Requests) \in Nat /\ Cardinality(Inserters) <= Cardinality(Requests)
         /\ Cardinality(Inserters)' <= Cardinality(Inserters)
         /\ MayInsert(r) /\ ~MayInsert(r)' => Cardinality(Inserters)' + 1 <= Cardinality(Inserters)
<1>1. TypeOK /\ Placed(r) /\ OthersStay(r) /\ Kind(r)' = Kind(r) /\ \A q \in Requests : Kind(q)' = Kind(q)
  BY ControlMoves, SameWant, Zenon DEF Typed
<1>2. \A q \in Requests \ {r} : MayInsert(q)' <=> MayInsert(q)
  BY <1>1, SMT DEF OthersStay, MayInsert
<1>3. MayInsert(r)' => MayInsert(r)
  <2>1. pc \in [Requests -> PCs] /\ at \in [Requests -> 0..5]
    BY <1>1, Zenon DEF TypeOK, ControlTyped
  <2>2. Kind(r) = "cronRemove" => Last(r) = 2
    BY SMT DEF Last, CronKinds
  <2> USE <1>1, <2>1, <2>2 DEF MayInsert, Placed, Running, Goto
  <2>3. CASE Prepared(r) \/ Refused(r) \/ Started(r)
    BY <2>3, SMT DEF Prepared, Refused, Started
  <2>4. CASE Advanced(r, Len(Steps(r))) \/ Failed(r)
    BY <2>4, SMT DEF Advanced, Failed
  <2>5. CASE Undid(r) \/ DidNotUndo(r)
    BY <2>5, SMT DEF Undid, DidNotUndo
  <2>6. CASE Ended(r, Len(Steps(r)))
    BY <2>6, SMT DEF Ended, Verdict
  <2> QED
    BY <2>3, <2>4, <2>5, <2>6, Zenon DEF Moves
<1>4. Inserters' \subseteq Inserters /\ Inserters \subseteq Requests
  BY <1>2, <1>3, Zenon DEF Inserters
<1>5. IsFiniteSet(Requests) /\ IsFiniteSet(Inserters) /\ IsFiniteSet(Inserters')
  BY <1>4, AccountsAssumption, FS_Subset
<1>6. /\ Cardinality(Inserters) \in Nat /\ Cardinality(Inserters') \in Nat /\ Cardinality(Requests) \in Nat
      /\ Cardinality(Inserters) <= Cardinality(Requests) /\ Cardinality(Inserters') <= Cardinality(Inserters)
  BY <1>4, <1>5, FS_CardinalityType, FS_Subset
<1>7. ASSUME MayInsert(r), ~MayInsert(r)' PROVE Cardinality(Inserters') + 1 <= Cardinality(Inserters)
  <2>1. r \in Inserters /\ Inserters' \subseteq Inserters \ {r}
    BY <1>4, <1>7, Zenon DEF Inserters
  <2>2. IsFiniteSet(Inserters \ {r}) /\ Cardinality(Inserters \ {r}) = Cardinality(Inserters) - 1
    BY <1>5, <2>1, FS_RemoveElement
  <2>3. Cardinality(Inserters') <= Cardinality(Inserters \ {r})
    BY <2>1, <2>2, FS_Subset
  <2> QED
    BY <1>6, <2>2, <2>3, SMT
<1> QED
  BY <1>6, <1>7, Zenon

(* A plan writes while it runs, and it alone.                              *)
LEMMA Alone ==
  ASSUME Typed, NEW r \in Requests, Running(r)
  PROVE  lock = r /\ \A q \in Requests \ {r} : ~Running(q)
<1> QED
  BY SMT DEF Typed, Placed

(* The step at which a plan is.                                            *)
LEMMA Current ==
  ASSUME Typed, NEW r \in Requests, Running(r), at[r] \in 1..Len(Steps(r))
  PROVE  Steps(r)[at[r]] \in StepNames /\ Pos(r, Steps(r)[at[r]]) = at[r]
<1> QED
  BY StepPlaces, SMT DEF Typed

(***************************************************************************)
(* What is to be shown of a move: the rest is control and the requests     *)
(* that do not move.                                                       *)
(***************************************************************************)
DataTyped ==
  /\ acct \in Account /\ nextId \in 1..MaxId + 1
  /\ snap \in [Requests -> Account \cup {Nothing}] /\ origin \in [Requests -> Account \cup {Nothing}]
  /\ saved \in [Requests -> [crontab : (SUBSET Commands) \cup {Missing},
                             authorized : (SUBSET Keys) \cup {Missing}]]
  /\ newJob \in [Requests -> 0..MaxId]
  /\ stale \subseteq Requests /\ torn \subseteq Requests

LEMMA TypedKept ==
  ASSUME Typed, NEW r \in Requests, want' = want, Moves(r),
         acct' = acct \/ Running(r),
         \A q \in Requests \ {r} : snap'[q] = snap[q] /\ origin'[q] = origin[q],
         DataTyped', Room', Unique(acct.jobs)', Read(r)', KeyGone(r)'
  PROVE  Typed'
<1>1. ControlTyped(5)' /\ OthersStay(r) /\ \A q \in Requests : Placed(q)'
  BY ControlMoves, Zenon
<1>2. TypeOK'
  <2>1. want' \in [Requests -> Request]
    BY Zenon DEF Typed, TypeOK
  <2> QED
    BY <1>1, <2>1, Zenon DEF TypeOK, DataTyped
<1>3. ASSUME NEW q \in Requests \ {r} PROVE Read(q)' /\ KeyGone(q)'
  <2>1. /\ Read(q) /\ KeyGone(q) /\ pc'[q] = pc[q] /\ at'[q] = at[q] /\ (Running(q)' <=> Running(q))
        /\ Kind(q)' = Kind(q) /\ (\A s : Pos(q, s)' = Pos(q, s)) /\ want'[q] = want[q]
        /\ snap'[q] = snap[q] /\ origin'[q] = origin[q]
    BY <1>1, SameWant, Zenon DEF OthersStay, Typed
  <2>2. Read(q)'
    <3>1. Admitted(q)' <=> Admitted(q)
      BY <2>1, Zenon DEF Admitted
    <3> QED
      BY <2>1, <3>1, Zenon DEF Read
  <2>3. KeyGone(q)'
    <3>1. CASE acct' = acct
      <4>1. Stands(q, "key")' <=> Stands(q, "key")
        BY <2>1, Zenon DEF Stands
      <4> QED
        BY <2>1, <3>1, <4>1, Zenon DEF KeyGone
    <3>2. CASE Running(r)
      BY <2>1, <3>2, Alone, Zenon DEF KeyGone
    <3> QED
      BY <3>1, <3>2
  <2> QED
    BY <2>2, <2>3
<1> QED
  BY <1>1, <1>2, <1>3, Zenon DEF Typed

(* There is room after a move that inserts nothing.                        *)
LEMMA RoomKept ==
  ASSUME Typed, NEW r \in Requests, want' = want, Moves(r), acct' \in Account, nextId' = nextId,
         \A j \in acct'.jobs : j.id < nextId, \A k \in Keys : acct'.keys[k] <= acct.keys[k]
  PROVE  Room'
<1>1. /\ Cardinality(Inserters) \in Nat /\ Cardinality(Inserters)' \in Nat
      /\ Cardinality(Requests) \in Nat /\ Cardinality(Inserters)' <= Cardinality(Inserters)
  BY Inserting
<1>2. nextId \in Nat /\ MaxId \in Nat
  BY AccountsAssumption, SMT DEF Typed, TypeOK
<1>3. \A k \in Keys : acct.keys[k] \in Nat /\ acct'.keys[k] \in Nat
  <2>1. acct \in Account /\ acct' \in Account
    BY Zenon DEF Typed, TypeOK
  <2> QED
    BY <1>1, <2>1, SMT DEF Account
<1>4. Room
  BY Zenon DEF Typed
<1>5. nextId' + Cardinality(Inserters)' <= MaxId + 1
  BY <1>1, <1>2, <1>4, SMT DEF Room
<1>6. \A k \in Keys : acct'.keys[k] + Cardinality(Inserters)' <= Cardinality(Requests) + 1
  BY <1>1, <1>3, <1>4, SMT DEF Room
<1> QED
  BY <1>5, <1>6, Zenon DEF Room

-----------------------------------------------------------------------------
(* Ids stay apart: rows are taken away, one takes the place of another     *)
(* with its id, or one comes with an id no row has had.                    *)
LEMMA UniqueKept ==
  ASSUME NEW jobs \in SUBSET Job, NEW n \in Nat, Unique(jobs), \A j \in jobs : j.id < n
  PROVE  /\ \A now \in SUBSET jobs : Unique(now) /\ \A j \in now : j.id < n
         /\ \A x \in Job : \A now : now = {j \in jobs : j.id # x.id} \cup {x} /\ x.id < n =>
              Unique(now) /\ \A j \in now : j.id < n
         /\ \A x \in Job : \A now : now = jobs \cup {x} /\ x.id = n =>
              Unique(now) /\ \A j \in now : j.id < n + 1
<1>1. \A j \in jobs : j.id \in Nat
  BY AccountsAssumption, SMT DEF Job
<1> QED
  BY <1>1, SMT DEF Unique

(* A move that leaves what its plan has read, and the plan running.        *)
LEMMA ReadKept ==
  ASSUME Typed, NEW r \in Requests, want' = want, Running(r), snap'[r] = snap[r], origin'[r] = origin[r]
  PROVE  Read(r)'
<1>1. Admitted(r) /\ origin[r] \in Account /\ Kind(r)' = Kind(r)
  BY SameWant, Zenon DEF Typed, Read, Running
<1>2. Admitted(r)'
  BY <1>1, Zenon DEF Admitted
<1> QED
  BY <1>1, <1>2, Zenon DEF Read

(* What a plan writes, other than rows, is of the types.                   *)
LEMMA Kept ==
  ASSUME Typed
  PROVE  /\ acct \in Account /\ acct.jobs \in SUBSET Job /\ Unique(acct.jobs) /\ \A j \in acct.jobs : j.id < nextId
         /\ nextId \in 1..MaxId + 1 /\ nextId \in Nat /\ MaxId \in Nat
         /\ \A k \in Keys : acct.keys[k] \in Nat
         /\ DataTyped
<1>1. Cardinality(Requests) \in Nat
  BY AccountsAssumption, FS_CardinalityType
<1>2. acct \in Account /\ nextId \in 1..MaxId + 1 /\ MaxId \in Nat /\ Room /\ Unique(acct.jobs) /\ DataTyped
  BY AccountsAssumption, Zenon DEF Typed, TypeOK, DataTyped
<1> QED
  BY <1>1, <1>2, SMT DEF Account, Room

(* The same of the jobs of the account.                                    *)
LEMMA JobsKept ==
  ASSUME Typed, NEW now
  PROVE  /\ now \in SUBSET acct.jobs => Unique(now) /\ \A j \in now : j.id < nextId
         /\ \A x \in Job : now = {j \in acct.jobs : j.id # x.id} \cup {x} /\ x.id < nextId =>
              Unique(now) /\ \A j \in now : j.id < nextId
         /\ \A x \in Job : now = acct.jobs \cup {x} /\ x.id = nextId =>
              Unique(now) /\ \A j \in now : j.id < nextId + 1
<1> DEFINE jobs == acct.jobs
<1>1. jobs \in SUBSET Job /\ nextId \in Nat /\ Unique(jobs) /\ \A j \in jobs : j.id < nextId
  BY Kept
<1> HIDE DEF jobs
<1>2. /\ now \in SUBSET jobs => Unique(now) /\ \A j \in now : j.id < nextId
      /\ \A x \in Job : now = {j \in jobs : j.id # x.id} \cup {x} /\ x.id < nextId =>
           Unique(now) /\ \A j \in now : j.id < nextId
      /\ \A x \in Job : now = jobs \cup {x} /\ x.id = nextId =>
           Unique(now) /\ \A j \in now : j.id < nextId + 1
  BY <1>1, UniqueKept, Zenon
<1> QED
  BY <1>2, Zenon DEF jobs

(* The moves that leave the account.                                       *)
LEMMA IdleTyped ==
  ASSUME Typed, NEW r \in Requests, Prepare(r) \/ Refuse(r) \/ Start(r) \/ Return(r)
  PROVE  Typed'
<1>1. acct' = acct /\ want' = want /\ nextId' = nextId /\ Moves(r)
  BY Zenon DEF Prepare, Refuse, Start, Return, Moves, data
<1>2. Room'
  <2>1. \A k \in Keys : acct'.keys[k] <= acct.keys[k]
    BY <1>1, Kept, SMT
  <2>2. acct' \in Account /\ \A j \in acct'.jobs : j.id < nextId
    BY <1>1, Kept, Zenon
  <2> QED
    BY <1>1, <2>1, <2>2, RoomKept
<1>3. Unique(acct.jobs)'
  BY <1>1, Kept, Zenon
<1>4. pc \in [Requests -> PCs] /\ Placed(r) /\ Read(r) /\ Kind(r)' = Kind(r)
  BY <1>1, SameWant, Zenon DEF Typed, TypeOK, ControlTyped
<1>5. DataTyped' /\ \A q \in Requests \ {r} : snap'[q] = snap[q] /\ origin'[q] = origin[q]
  <2>1. CASE Prepare(r)
    BY <2>1, Kept, Zenon DEF Prepare, DataTyped
  <2>2. CASE Refuse(r)
    BY <2>2, Kept, Zenon DEF Refuse, data, DataTyped
  <2>3. CASE Start(r)
    BY <2>3, Kept, Zenon DEF Start, DataTyped
  <2>4. CASE Return(r)
    <3>1. snap' \in [Requests -> Account \cup {Nothing}] /\ origin' \in [Requests -> Account \cup {Nothing}]
      BY <2>4, Kept, Zenon DEF Return, DataTyped
    <3>2. saved' \in [Requests -> [crontab : (SUBSET Commands) \cup {Missing},
                                 authorized : (SUBSET Keys) \cup {Missing}]]
      BY <2>4, Kept, Zenon DEF Return, DataTyped
    <3>3. newJob' \in [Requests -> 0..MaxId]
      BY <2>4, Kept, SMT DEF Return, DataTyped
    <3>4. /\ \A q \in Requests \ {r} : snap'[q] = snap[q] /\ origin'[q] = origin[q]
          /\ stale' = stale /\ torn' = torn
      BY <2>4, Kept, Zenon DEF Return, DataTyped
    <3> QED
      BY <1>1, <3>1, <3>2, <3>3, <3>4, Kept, Zenon DEF DataTyped
  <2> QED
    BY <2>1, <2>2, <2>3, <2>4
<1>6. Read(r)' /\ KeyGone(r)'
  <2>1. CASE Prepare(r)
    <3>1. pc'[r] = "ready" /\ snap'[r] = acct /\ Acceptable(want[r])
      BY <1>4, <2>1, Kept, Zenon DEF Prepare, Prepared, Goto, DataTyped
    <3>2. Admitted(r)'
      <4>1. snap'[r] \in Account /\ Unique(snap'[r].jobs)
        BY <3>1, Kept
      <4>2. CASE Kind(r) \in CronKinds
        <5>1. Kind(r) \in {"cronUpdate", "cronRemove"} => \E j \in acct.jobs : j.id = want[r].id
          BY <3>1, Zenon DEF Acceptable, Kind
        <5> QED
          BY <1>1, <1>4, <3>1, <4>1, <4>2, <5>1, SMT DEF Admitted, CronKinds
      <4>3. CASE Kind(r) \in KeyKinds
        <5>1. want[r].key \in Keys
          BY <4>3, Wanted DEF Typed
        <5>2. Kind(r) = "keyAdd" => acct.keys[want[r].key] = 0
          BY <3>1, <5>1, Kept, SMT DEF Acceptable, Listed, Kind
        <5> QED
          BY <1>1, <1>4, <3>1, <4>1, <4>3, <5>2, SMT DEF Admitted, KeyKinds
      <4>4. CASE Kind(r) \in {"setAccess"} \cup DatabaseKinds
        <5>1. Kind(r) \in DatabaseKinds => want[r].name \in Databases
          BY Wanted DEF Typed
        <5>2. /\ Kind(r) = "dbCreate" => ~acct.databases[want[r].name].row
              /\ Kind(r) = "dbCreate" /\ want[r].credentials => ~acct.databases[want[r].name].credentials
              /\ Kind(r) = "dbDelete" => acct.databases[want[r].name].row
          BY <3>1, <5>1, Zenon DEF Acceptable, Rows, Kind, DatabaseKinds
        <5> QED
          BY <1>1, <1>4, <3>1, <4>1, <4>4, <5>2, SMT DEF Admitted, DatabaseKinds
      <4> QED
        BY <4>2, <4>3, <4>4, Wanted DEF Typed
    <3> QED
      BY <3>1, <3>2, SMT DEF Read, KeyGone, Running
  <2>2. CASE Refuse(r)
    BY <1>4, <2>2, SMT DEF Refuse, Refused, Goto, Read, KeyGone, Running
  <2>3. CASE Start(r)
    <3>1. /\ pc[r] = "ready" /\ pc'[r] = "do" /\ at' = at /\ snap' = snap /\ origin'[r] = acct
      BY <1>4, <2>3, Kept, Zenon DEF Start, Started, Goto, DataTyped
    <3>2. Admitted(r)'
      <4>1. Admitted(r)
        BY <1>4, <3>1, Zenon DEF Read
      <4> QED
        BY <1>1, <1>4, <3>1, <4>1, Zenon DEF Admitted
    <3>3. Read(r)'
      BY <3>1, <3>2, Kept, Zenon DEF Read
    <3>4. KeyGone(r)'
      <4>1. at[r] = 1 /\ Pos(r, "key")' = Pos(r, "key")
        BY <1>1, <1>4, <3>1, SameWant, Zenon DEF Placed
      <4>2. ~Stands(r, "key")'
        BY <3>1, <4>1, SMT DEF Stands, Pos
      <4> QED
        BY <4>2, Zenon DEF KeyGone
    <3> QED
      BY <3>3, <3>4
  <2>4. CASE Return(r)
    <3>1. pc'[r] \in Verdicts
      BY <1>4, <2>4, SMT DEF Return, Ended, Goto, Verdict, Verdicts
    <3> QED
      BY <3>1, SMT DEF Read, KeyGone, Running, Verdicts
  <2> QED
    BY <2>1, <2>2, <2>3, <2>4
<1> QED
  BY <1>1, <1>2, <1>3, <1>5, <1>6, TypedKept

(***************************************************************************)
(* A step inserts a job or a key, or rewrites what is there ...            *)
(***************************************************************************)
LEMMA DoEffect ==
  ASSUME Typed, NEW r \in Requests, Do(r)
  PROVE  \E s \in StepNames :
           /\ s = Steps(r)[at[r]] /\ Pos(r, s) = at[r] /\ Possible(r, s)
           /\ acct' \in Account /\ StepDone(r, s)
           /\ ~Stands(r, s) /\ \A t \in StepNames : Stands(r, t)' <=> Stands(r, t) \/ t = s
           /\ (s = "job" /\ Kind(r) = "cronAdd") \/ (s = "key" /\ Kind(r) = "keyAdd") =>
                Cardinality(Inserters)' + 1 <= Cardinality(Inserters)
           /\ s = "job" /\ Kind(r) = "cronAdd" => nextId \in 1..MaxId
<1> DEFINE s == Steps(r)[at[r]]
           w == want[r]
<1>1. /\ pc[r] = "do" /\ pc' = pc /\ at[r] <= Len(Steps(r)) /\ at' = [at EXCEPT ![r] = at[r] + 1]
      /\ want' = want /\ snap' = snap /\ origin' = origin /\ torn' = torn
      /\ acct' = Done(r, s) /\ Possible(r, s) /\ Moves(r) /\ Running(r)
  BY Zenon DEF Do, Advanced, Moves, Running
<1>2. /\ TypeOK /\ Placed(r) /\ Admitted(r) /\ Kind(r)' = Kind(r) /\ Last(r) \in 1..4 /\ Len(Steps(r)) = Last(r)
      /\ (\A t : Pos(r, t)' = Pos(r, t)) /\ pc \in [Requests -> PCs] /\ at \in [Requests -> 0..5]
  BY <1>1, SameWant, StepPlaces, Zenon DEF Typed, TypeOK, ControlTyped, Read
<1>3. at[r] \in 1..Last(r) /\ at'[r] = at[r] + 1 /\ pc'[r] = "do"
  BY <1>1, <1>2, SMT DEF Placed
<1>4. s \in StepNames /\ Pos(r, s) = at[r]
  BY <1>1, <1>2, <1>3, Current
<1> HIDE DEF s
<1>5. /\ Cardinality(Inserters) \in Nat /\ Cardinality(Inserters)' \in Nat
      /\ Cardinality(Requests) \in Nat /\ Cardinality(Inserters)' <= Cardinality(Inserters)
      /\ MayInsert(r) /\ ~MayInsert(r)' => Cardinality(Inserters)' + 1 <= Cardinality(Inserters)
  BY <1>1, Inserting, Zenon
<1>6. /\ nextId + Cardinality(Inserters) <= MaxId + 1
      /\ \A k \in Keys : acct.keys[k] + Cardinality(Inserters) <= Cardinality(Requests) + 1
  BY Zenon DEF Typed, Room
<1>7. ASSUME \/ s = "job" /\ Kind(r) = "cronAdd"
             \/ s = "key" /\ Kind(r) = "keyAdd"
      PROVE  Cardinality(Inserters)' + 1 <= Cardinality(Inserters)
  <2>1. at[r] = 2
    BY <1>4, <1>7, SMT DEF Pos, CronKinds, KeyKinds
  <2>2. MayInsert(r) /\ ~MayInsert(r)'
    BY <1>1, <1>2, <1>3, <1>7, <2>1, SMT DEF MayInsert
  <2> QED
    BY <1>5, <2>2
<1>8. s = "job" /\ Kind(r) = "cronAdd" => nextId \in 1..MaxId
  BY <1>5, <1>6, <1>7, Kept, SMT
<1>9. s = "key" /\ Kind(r) = "keyAdd" => acct.keys[w.key] + 1 <= Cardinality(Requests) + 1
  <2>1. Kind(r) = "keyAdd" => w.key \in Keys
    BY <1>2, Wanted, SMT DEF KeyKinds
  <2> QED
    BY <1>5, <1>6, <1>7, <2>1, Kept, SMT
<1>10. acct' \in Account /\ StepDone(r, s)
  BY <1>1, <1>2, <1>3, <1>4, <1>8, <1>9, DoneEffect, SMT
<1>11. ~Stands(r, s)
  BY <1>1, <1>3, <1>4, SMT DEF Stands
<1>12. ASSUME NEW t \in StepNames PROVE Stands(r, t)' <=> Stands(r, t) \/ t = s
  <2>1. Stands(r, t)' <=> 0 < Pos(r, t) /\ Pos(r, t) <= at[r]
    BY <1>2, <1>3, SMT DEF Stands
  <2>2. Stands(r, t) <=> 0 < Pos(r, t) /\ Pos(r, t) <= at[r] - 1
    BY <1>1, Zenon DEF Stands
  <2>3. Pos(r, t) = at[r] => t = s
    BY <1>3, <1>4, Apart, SMT
  <2>4. Pos(r, t) \in 0..Last(r)
    BY <1>2, StepPlaces
  <2> QED
    BY <1>2, <1>3, <1>4, <2>1, <2>2, <2>3, <2>4, SMT
<1>13. s = Steps(r)[at[r]]
  BY Zenon DEF s
<1> QED
  BY <1>1, <1>4, <1>7, <1>8, <1>10, <1>11, <1>12, <1>13, Zenon

(* ... and keeps the types.                                                *)
LEMMA DoTyped ==
  ASSUME Typed, NEW r \in Requests, Do(r)
  PROVE  Typed'
<1> DEFINE w == want[r]
<1>1. /\ pc[r] = "do" /\ pc' = pc /\ at[r] <= Len(Steps(r)) /\ at' = [at EXCEPT ![r] = at[r] + 1]
      /\ want' = want /\ snap' = snap /\ origin' = origin /\ torn' = torn
      /\ Moves(r) /\ Running(r)
  BY Zenon DEF Do, Advanced, Moves, Running
<1>2. /\ TypeOK /\ Placed(r) /\ Admitted(r) /\ Kind(r)' = Kind(r) /\ Last(r) \in 1..4 /\ Len(Steps(r)) = Last(r)
      /\ (\A t : Pos(r, t)' = Pos(r, t)) /\ pc \in [Requests -> PCs] /\ at \in [Requests -> 0..5]
  BY <1>1, SameWant, StepPlaces, Zenon DEF Typed, TypeOK, ControlTyped, Read
<1>3. at[r] \in 1..Last(r) /\ at'[r] = at[r] + 1 /\ pc'[r] = "do"
  BY <1>1, <1>2, SMT DEF Placed
<1>4. PICK s \in StepNames :
        /\ s = Steps(r)[at[r]] /\ Pos(r, s) = at[r] /\ Possible(r, s)
        /\ acct' \in Account /\ StepDone(r, s)
        /\ (s = "job" /\ Kind(r) = "cronAdd") \/ (s = "key" /\ Kind(r) = "keyAdd") =>
             Cardinality(Inserters)' + 1 <= Cardinality(Inserters)
        /\ s = "job" /\ Kind(r) = "cronAdd" => nextId \in 1..MaxId
  BY DoEffect, Zenon
<1>5. /\ Cardinality(Inserters) \in Nat /\ Cardinality(Inserters)' \in Nat
      /\ Cardinality(Requests) \in Nat /\ Cardinality(Inserters)' <= Cardinality(Inserters)
  BY <1>1, Inserting, Zenon
<1>6. /\ nextId + Cardinality(Inserters) <= MaxId + 1
      /\ \A k \in Keys : acct.keys[k] + Cardinality(Inserters) <= Cardinality(Requests) + 1
  BY Zenon DEF Typed, Room
<1>7. /\ saved' = IF s \in {"crontab", "authorized"}
                  THEN [saved EXCEPT ![r] = [crontab |-> acct.crontab, authorized |-> acct.authorized]]
                  ELSE saved
      /\ newJob' = IF s = "job" /\ Kind(r) = "cronAdd" THEN [newJob EXCEPT ![r] = nextId] ELSE newJob
      /\ nextId' = IF s = "job" /\ Kind(r) = "cronAdd" THEN nextId + 1 ELSE nextId
  BY <1>4, Zenon DEF Do
<1>8. DataTyped'
  <2>1. /\ acct' \in Account /\ snap' \in [Requests -> Account \cup {Nothing}]
        /\ origin' \in [Requests -> Account \cup {Nothing}] /\ torn' \subseteq Requests
    BY <1>1, <1>4, Kept, Zenon DEF DataTyped
  <2>2. nextId' \in 1..MaxId + 1
    <3>1. nextId' = IF s = "job" /\ Kind(r) = "cronAdd" THEN nextId + 1 ELSE nextId
      BY <1>7, Zenon
    <3> QED
      BY <1>4, <3>1, Kept, SMT
  <2>3. newJob' \in [Requests -> 0..MaxId]
    <3>1. newJob' = IF s = "job" /\ Kind(r) = "cronAdd" THEN [newJob EXCEPT ![r] = nextId] ELSE newJob
      BY <1>7, Zenon
    <3> QED
      BY <1>4, <3>1, Kept, SMT DEF DataTyped
  <2>4. saved' \in [Requests -> [crontab : (SUBSET Commands) \cup {Missing},
                                 authorized : (SUBSET Keys) \cup {Missing}]]
    <3>1. \/ saved' = [saved EXCEPT ![r] = [crontab |-> acct.crontab, authorized |-> acct.authorized]]
          \/ saved' = saved
      BY <1>7, Zenon
    <3>2. acct.crontab \in (SUBSET Commands) \cup {Missing} /\ acct.authorized \in (SUBSET Keys) \cup {Missing}
      BY Kept, SMT DEF Account
    <3>3. [crontab |-> acct.crontab, authorized |-> acct.authorized]
             \in [crontab : (SUBSET Commands) \cup {Missing}, authorized : (SUBSET Keys) \cup {Missing}]
      BY <3>2, Zenon
    <3> QED
      BY <3>1, <3>3, Kept, Zenon DEF DataTyped
  <2>5. stale' \subseteq Requests
    BY Kept, Zenon DEF Do, Outdate, DataTyped
  <2> QED
    BY <2>1, <2>2, <2>3, <2>4, <2>5, Zenon DEF DataTyped
<1>9. Unique(acct.jobs)' /\ \A j \in acct'.jobs : j.id < nextId'
  <2>1. nextId' = IF s = "job" /\ Kind(r) = "cronAdd" THEN nextId + 1 ELSE nextId
    BY <1>7, Zenon
  <2>2. CASE s # "job"
    <3>1. acct'.jobs = acct.jobs
      BY <1>4, <2>2, Zenon DEF StepDone, StepNames, SameBut, KeyIs, Becomes
    <3> QED
      BY <2>1, <2>2, <3>1, Kept, Zenon
  <2>3. CASE s = "job"
    <3>1. acct'.jobs = JobsDone(r) /\ Kind(r) \in CronKinds /\ w.command \in Commands /\ w.id \in 1..MaxId
      BY <1>2, <1>3, <1>4, <2>3, Wanted, SMT DEF StepDone, Pos
    <3>2. CASE Kind(r) = "cronAdd"
      <4> DEFINE x == [id |-> nextId, command |-> w.command]
      <4>1. x \in Job /\ x.id = nextId
        BY <1>4, <2>3, <3>1, <3>2, SMT DEF Job
      <4>2. acct'.jobs = acct.jobs \cup {x} /\ nextId' = nextId + 1
        BY <2>1, <2>3, <3>1, <3>2, Zenon DEF JobsDone
      <4> HIDE DEF x
      <4> QED
        BY <4>1, <4>2, JobsKept, Zenon
    <3>3. CASE Kind(r) = "cronUpdate"
      <4> DEFINE x == [id |-> w.id, command |-> w.command]
      <4>1. w.id < nextId
        <5>1. \E j \in acct.jobs : j.id = w.id
          BY <1>4, <2>3, <3>3, Zenon DEF Possible, Kind
        <5> QED
          BY <5>1, Kept, Zenon
      <4>2. x \in Job /\ x.id = w.id
        BY <3>1, SMT DEF Job
      <4>3. acct'.jobs = {j \in acct.jobs : j.id # x.id} \cup {x} /\ nextId' = nextId
        BY <2>1, <3>1, <3>3, <4>2, Zenon DEF JobsDone
      <4> HIDE DEF x
      <4> QED
        BY <4>1, <4>2, <4>3, JobsKept, Zenon
    <3>4. CASE Kind(r) = "cronRemove"
      <4>1. acct'.jobs \in SUBSET acct.jobs /\ nextId' = nextId
        BY <2>1, <3>1, <3>4, Zenon DEF JobsDone
      <4> QED
        BY <4>1, JobsKept, Zenon
    <3> QED
      BY <3>1, <3>2, <3>3, <3>4, Zenon DEF CronKinds
  <2> QED
    BY <2>2, <2>3
<1>10. Room'
  <2>1. CASE s = "job" /\ Kind(r) = "cronAdd"
    <3>1. nextId' = nextId + 1 /\ acct'.keys = acct.keys
      <4>1. SameBut({"jobs"})
        BY <1>4, <2>1, Zenon DEF StepDone
      <4> QED
        BY <1>7, <2>1, <4>1, Zenon DEF SameBut
    <3>2. nextId' + Cardinality(Inserters)' <= MaxId + 1
      BY <1>5, <1>6, <1>4, <2>1, <3>1, Kept, SMT
    <3>3. \A k \in Keys : acct'.keys[k] + Cardinality(Inserters)' <= Cardinality(Requests) + 1
      BY <1>5, <1>6, <3>1, Kept, SMT
    <3> QED
      BY <1>9, <3>2, <3>3, Zenon DEF Room
  <2>2. CASE s = "key" /\ Kind(r) = "keyAdd"
    <3>1. nextId' = nextId
      BY <1>7, <2>2, Zenon
    <3>2. KeyIs(w.key, acct.keys[w.key] + 1)
      BY <1>4, <2>2, Zenon DEF StepDone
    <3>3. nextId' + Cardinality(Inserters)' <= MaxId + 1
      BY <1>5, <1>6, <3>1, Kept, SMT
    <3>4. \A k \in Keys : acct'.keys[k] + Cardinality(Inserters)' <= Cardinality(Requests) + 1
      BY <1>5, <1>6, <1>4, <2>2, <3>2, Kept, SMT DEF KeyIs
    <3> QED
      BY <1>9, <3>3, <3>4, Zenon DEF Room
  <2>3. CASE ~(s = "job" /\ Kind(r) = "cronAdd") /\ ~(s = "key" /\ Kind(r) = "keyAdd")
    <3>1. nextId' = nextId
      BY <1>7, <2>3, Zenon
    <3>2. \A k \in Keys : acct'.keys[k] <= acct.keys[k]
      <4>1. CASE s = "key"
        <5>1. KeyIs(w.key, 0)
          BY <1>4, <2>3, <4>1, Zenon DEF StepDone
        <5> QED
          BY <5>1, Kept, SMT DEF KeyIs
      <4>2. CASE s # "key"
        <5>1. acct'.keys = acct.keys
          BY <1>4, <4>2, Zenon DEF StepDone, StepNames, SameBut, Becomes
        <5> QED
          BY <5>1, Kept, SMT
      <4> QED
        BY <4>1, <4>2
    <3> QED
      BY <1>1, <1>4, <1>9, <3>1, <3>2, RoomKept, Zenon
  <2> QED
    BY <2>1, <2>2, <2>3
<1>11. KeyGone(r)'
  <2>1. ASSUME Kind(r) = "keyRemove", Stands(r, "key")' PROVE acct'.keys[w.key] = 0
    <3>1. Pos(r, "key") = 2
      BY <2>1, SMT DEF Pos, KeyKinds
    <3>2. Pos(r, "key") <= at[r]
      BY <1>2, <1>3, <2>1, SMT DEF Stands
    <3>3. at[r] = 2
      BY <1>3, <2>1, <3>1, <3>2, SMT DEF Last, CronKinds, KeyKinds
    <3>4. s = "key"
      BY <1>4, <3>1, <3>3, Apart, SMT DEF StepNames
    <3>5. KeyIs(w.key, 0)
      BY <1>4, <2>1, <3>4, SMT DEF StepDone
    <3> QED
      BY <3>5, Zenon DEF KeyIs
  <2> QED
    BY <1>1, <1>2, <2>1, Zenon DEF KeyGone
<1>12. Read(r)'
  BY <1>1, ReadKept, Zenon
<1> QED
  BY <1>1, <1>8, <1>9, <1>10, <1>11, <1>12, TypedKept, Zenon

(***************************************************************************)
(* A step that fails, in whole or half-way.                                *)
(***************************************************************************)
LEMMA FailTyped ==
  ASSUME Typed, NEW r \in Requests, Fail(r)
  PROVE  Typed'
<1> DEFINE s == Steps(r)[at[r]]
<1>1. /\ pc[r] = "do" /\ pc' = [pc EXCEPT ![r] = "undo"] /\ at' = [at EXCEPT ![r] = at[r] - 1]
      /\ want' = want /\ snap' = snap /\ origin' = origin /\ nextId' = nextId
      /\ saved' = saved /\ newJob' = newJob /\ Moves(r) /\ Running(r)
      /\ \/ acct' = acct /\ stale' = stale /\ torn' = torn
         \/ /\ at[r] <= Len(Steps(r)) /\ acct' \in TornBy(r, s)
            /\ torn' = torn \cup {r} /\ Outdate(r)
  BY Zenon DEF Fail, Failed, Goto, Moves, Running
<1>2. /\ TypeOK /\ Placed(r) /\ Admitted(r) /\ Kind(r)' = Kind(r) /\ Last(r) \in 1..4 /\ Len(Steps(r)) = Last(r)
      /\ (\A t : Pos(r, t)' = Pos(r, t)) /\ pc \in [Requests -> PCs] /\ at \in [Requests -> 0..5]
  BY <1>1, SameWant, StepPlaces, Zenon DEF Typed, TypeOK, ControlTyped, Read
<1>3. at[r] \in 1..Last(r) + 1 /\ at'[r] = at[r] - 1 /\ pc'[r] = "undo"
  BY <1>1, <1>2, SMT DEF Placed
<1>4. /\ acct' \in Account /\ acct'.jobs = acct.jobs
      /\ \A k \in Keys : acct'.keys[k] <= acct.keys[k]
  <2>1. CASE acct' = acct
    BY <2>1, Kept, SMT
  <2>2. CASE at[r] <= Len(Steps(r)) /\ acct' \in TornBy(r, s)
    <3>1. s \in StepNames /\ Pos(r, s) > 0
      BY <1>1, <1>2, <1>3, <2>2, Current, SMT
    <3> QED
      BY <1>2, <2>2, <3>1, TornEffect, Zenon
  <2> QED
    BY <1>1, <2>1, <2>2
<1>5. DataTyped'
  <2>1. stale' \subseteq Requests /\ torn' \subseteq Requests
    BY <1>1, Kept, Zenon DEF Outdate, DataTyped
  <2> QED
    BY <1>1, <1>4, <2>1, Kept, Zenon DEF DataTyped
<1>6. Unique(acct.jobs)' /\ Room'
  BY <1>1, <1>4, Kept, RoomKept, Zenon
<1>7. KeyGone(r)'
  <2>1. ASSUME Kind(r) = "keyRemove", Stands(r, "key")' PROVE acct'.keys[want[r].key] = 0
    <3>1. Pos(r, "key") = 2 /\ Last(r) = 2
      BY <2>1, SMT DEF Pos, Last, CronKinds, KeyKinds
    <3>2. at[r] = 3
      BY <1>2, <1>3, <2>1, <3>1, SMT DEF Stands
    <3>3. acct' = acct
      BY <1>1, <1>2, <3>1, <3>2, SMT
    <3>4. KeyGone(r) /\ Stands(r, "key")
      BY <1>1, <3>1, <3>2, SMT DEF Typed, Stands
    <3> QED
      BY <1>1, <2>1, <3>3, <3>4, Zenon DEF KeyGone
  <2> QED
    BY <1>1, <1>2, <2>1, Zenon DEF KeyGone
<1>8. Read(r)'
  BY <1>1, ReadKept, Zenon
<1> QED
  BY <1>1, <1>5, <1>6, <1>7, <1>8, TypedKept, Zenon

(***************************************************************************)
(* An undo that has done its work takes its step back ...                  *)
(***************************************************************************)
LEMMA Undoing ==
  ASSUME Typed, NEW r \in Requests, NEW s, s = Steps(r)[at[r]], s \notin Irreversible,
         Undid(r) \/ DidNotUndo(r), acct' = Undone(r, s), want' = want
  PROVE  /\ s \in StepNames /\ Pos(r, s) = at[r]
         /\ acct' \in Account /\ StepUndone(r, s)
         /\ Stands(r, s) /\ \A t \in StepNames : Stands(r, t)' <=> Stands(r, t) /\ t # s
         /\ s = "job" /\ Kind(r) = "cronRemove" =>
              nextId \in 1..MaxId /\ Cardinality(Inserters)' + 1 <= Cardinality(Inserters)
         /\ s = "key" /\ Kind(r) = "keyRemove" => acct.keys[want[r].key] = 0
<1> DEFINE w == want[r]
<1>1. /\ pc[r] = "undo" /\ at[r] > 0 /\ pc' = pc /\ at' = [at EXCEPT ![r] = at[r] - 1]
      /\ Moves(r) /\ Running(r)
  BY Zenon DEF Undid, DidNotUndo, Moves, Running
<1>2. /\ TypeOK /\ Placed(r) /\ Admitted(r) /\ Kind(r)' = Kind(r) /\ Last(r) \in 1..4 /\ Len(Steps(r)) = Last(r)
      /\ (\A t : Pos(r, t)' = Pos(r, t)) /\ pc \in [Requests -> PCs] /\ at \in [Requests -> 0..5]
  BY <1>1, SameWant, StepPlaces, Zenon DEF Typed, TypeOK, ControlTyped, Read
<1>3. at[r] \in 1..Last(r) /\ at'[r] = at[r] - 1 /\ pc'[r] = "undo"
  BY <1>1, <1>2, SMT DEF Placed
<1>4. s \in StepNames \ Irreversible /\ Pos(r, s) = at[r]
  BY <1>1, <1>2, <1>3, Current
<1>5. /\ Cardinality(Inserters) \in Nat /\ Cardinality(Inserters)' \in Nat
      /\ Cardinality(Requests) \in Nat /\ Cardinality(Inserters)' <= Cardinality(Inserters)
      /\ Cardinality(Inserters) <= Cardinality(Requests)
      /\ MayInsert(r) /\ ~MayInsert(r)' => Cardinality(Inserters)' + 1 <= Cardinality(Inserters)
  BY <1>1, Inserting, Zenon
<1>6. /\ nextId + Cardinality(Inserters) <= MaxId + 1
      /\ \A k \in Keys : acct.keys[k] + Cardinality(Inserters) <= Cardinality(Requests) + 1
  BY Zenon DEF Typed, Room
<1>7. ASSUME s = "job", Kind(r) = "cronRemove"
      PROVE  Cardinality(Inserters)' + 1 <= Cardinality(Inserters)
  <2>1. at[r] = 2
    BY <1>4, <1>7, SMT DEF Pos, CronKinds
  <2>2. MayInsert(r) /\ ~MayInsert(r)'
    BY <1>1, <1>2, <1>3, <1>7, <2>1, SMT DEF MayInsert
  <2> QED
    BY <1>5, <2>2
<1>8. s = "job" /\ Kind(r) = "cronRemove" => nextId \in 1..MaxId
  BY <1>5, <1>6, <1>7, Kept, SMT
<1>9. s = "key" /\ Kind(r) = "keyRemove" => w.key \in Keys /\ acct.keys[w.key] = 0
  <2>1. Kind(r) = "keyRemove" => w.key \in Keys
    BY <1>2, Wanted, SMT DEF KeyKinds
  <2>2. s = "key" => Stands(r, s)
    BY <1>1, <1>3, <1>4, SMT DEF Stands
  <2> QED
    BY <1>1, <2>1, <2>2, Zenon DEF Typed, KeyGone
<1>10. acct' \in Account /\ StepUndone(r, s)
  <2>1. Pos(r, s) > 0
    BY <1>3, <1>4, SMT
  <2>2. s = "key" /\ Kind(r) = "keyRemove" => acct.keys[w.key] + 1 <= Cardinality(Requests) + 1
    BY <1>5, <1>9, SMT
  <2> QED
    BY <1>2, <1>4, <1>8, <2>1, <2>2, UndoneEffect, Zenon
<1>11. Stands(r, s)
  BY <1>1, <1>3, <1>4, SMT DEF Stands
<1>12. ASSUME NEW t \in StepNames PROVE Stands(r, t)' <=> Stands(r, t) /\ t # s
  <2>1. Stands(r, t)' <=> 0 < Pos(r, t) /\ Pos(r, t) <= at[r] - 1
    BY <1>2, <1>3, SMT DEF Stands
  <2>2. Stands(r, t) <=> 0 < Pos(r, t) /\ Pos(r, t) <= at[r]
    BY <1>1, SMT DEF Stands
  <2>3. Pos(r, t) = at[r] => t = s
    BY <1>3, <1>4, Apart, SMT
  <2>4. Pos(r, t) \in 0..Last(r)
    BY <1>2, StepPlaces
  <2> QED
    BY <1>2, <1>3, <1>4, <2>1, <2>2, <2>3, <2>4, SMT
<1> QED
  BY <1>4, <1>7, <1>8, <1>9, <1>10, <1>11, <1>12, Zenon

(* ... and keeps the types.                                                *)
LEMMA UndoneTyped ==
  ASSUME Typed, NEW r \in Requests, NEW s, s = Steps(r)[at[r]], s \notin Irreversible,
         Undid(r) \/ DidNotUndo(r), s = "job" => Undoable(r, s),
         acct' = Undone(r, s), stale' \subseteq Requests,
         nextId' = (IF s = "job" /\ Kind(r) = "cronRemove" THEN nextId + 1 ELSE nextId),
         UNCHANGED <<want, snap, saved, newJob, torn, origin>>
  PROVE  Typed'
<1> DEFINE w == want[r]
<1>1. /\ pc[r] = "undo" /\ at[r] > 0 /\ pc' = pc /\ at' = [at EXCEPT ![r] = at[r] - 1]
      /\ Moves(r) /\ Running(r)
  BY Zenon DEF Undid, DidNotUndo, Moves, Running
<1>2. /\ TypeOK /\ Placed(r) /\ Admitted(r) /\ Kind(r)' = Kind(r) /\ Last(r) \in 1..4 /\ Len(Steps(r)) = Last(r)
      /\ (\A t : Pos(r, t)' = Pos(r, t)) /\ pc \in [Requests -> PCs] /\ at \in [Requests -> 0..5]
  BY <1>1, SameWant, StepPlaces, Zenon DEF Typed, TypeOK, ControlTyped, Read
<1>3. at[r] \in 1..Last(r) /\ at'[r] = at[r] - 1 /\ pc'[r] = "undo"
  BY <1>1, <1>2, SMT DEF Placed
<1>4. /\ s \in StepNames /\ Pos(r, s) = at[r] /\ acct' \in Account /\ StepUndone(r, s)
      /\ s = "job" /\ Kind(r) = "cronRemove" =>
           nextId \in 1..MaxId /\ Cardinality(Inserters)' + 1 <= Cardinality(Inserters)
      /\ s = "key" /\ Kind(r) = "keyRemove" => acct.keys[w.key] = 0
  BY Undoing, Zenon
<1>5. /\ Cardinality(Inserters) \in Nat /\ Cardinality(Inserters)' \in Nat
      /\ Cardinality(Requests) \in Nat /\ Cardinality(Inserters)' <= Cardinality(Inserters)
      /\ Cardinality(Inserters) <= Cardinality(Requests)
  BY <1>1, Inserting, Zenon
<1>6. /\ nextId + Cardinality(Inserters) <= MaxId + 1
      /\ \A k \in Keys : acct.keys[k] + Cardinality(Inserters) <= Cardinality(Requests) + 1
  BY Zenon DEF Typed, Room
<1>7. DataTyped'
  <2>1. nextId' \in 1..MaxId + 1
    BY <1>4, Kept, SMT
  <2> QED
    BY <1>4, <2>1, Kept, Zenon DEF DataTyped
<1>8. Unique(acct.jobs)' /\ \A j \in acct'.jobs : j.id < nextId'
  <2>1. CASE s # "job"
    <3>1. acct'.jobs = acct.jobs
      BY <1>4, <2>1, Zenon DEF StepUndone, StepNames, Irreversible, SameBut, KeyIs, Becomes
    <3> QED
      BY <2>1, <3>1, Kept, Zenon
  <2>2. CASE s = "job"
    <3>1. acct'.jobs = JobsUndone(r) /\ Kind(r) \in CronKinds
      BY <1>2, <1>3, <1>4, <2>2, SMT DEF StepUndone, Pos
    <3>2. CASE Kind(r) = "cronAdd"
      <4>1. acct'.jobs \in SUBSET acct.jobs /\ nextId' = nextId
        BY <3>1, <3>2, Zenon DEF JobsUndone
      <4> QED
        BY <4>1, JobsKept, Zenon
    <3>3. CASE Kind(r) = "cronUpdate"
      <4>1. w.id < nextId
        <5>1. \E j \in acct.jobs : j.id = w.id
          BY <2>2, <3>3, Zenon DEF Undoable, Kind
        <5> QED
          BY <5>1, Kept, Zenon
      <4>2. Mine(r) \in Job /\ Mine(r).id = w.id
        BY <1>2, <3>3, MineIsRead, Zenon
      <4>3. acct'.jobs = {j \in acct.jobs : j.id # Mine(r).id} \cup {Mine(r)} /\ nextId' = nextId
        BY <3>1, <3>3, <4>2, Zenon DEF JobsUndone
      <4> QED
        BY <4>1, <4>2, <4>3, JobsKept, Zenon
    <3>4. CASE Kind(r) = "cronRemove"
      <4> DEFINE x == [Mine(r) EXCEPT !.id = nextId]
      <4>1. Mine(r) \in Job
        BY <1>2, <3>4, MineIsRead, Zenon
      <4>2. x \in Job /\ x.id = nextId
        BY <1>4, <2>2, <3>4, <4>1, Zenon DEF Job
      <4>3. acct'.jobs = acct.jobs \cup {x} /\ nextId' = nextId + 1
        BY <2>2, <3>1, <3>4, Zenon DEF JobsUndone
      <4> HIDE DEF x
      <4>4. Unique(acct'.jobs) /\ \A j \in acct'.jobs : j.id < nextId + 1
        BY <4>2, <4>3, JobsKept, Zenon
      <4> QED
        BY <4>3, <4>4, Zenon
    <3> QED
      BY <3>1, <3>2, <3>3, <3>4, Zenon DEF CronKinds
  <2> QED
    BY <2>1, <2>2
<1>9. Room'
  <2>1. CASE s = "job" /\ Kind(r) = "cronRemove"
    <3>1. nextId' = nextId + 1 /\ acct'.keys = acct.keys
      BY <1>4, <2>1, Zenon DEF StepUndone, SameBut
    <3>2. nextId' + Cardinality(Inserters)' <= MaxId + 1
      BY <1>5, <1>6, <1>4, <2>1, <3>1, Kept, SMT
    <3>3. \A k \in Keys : acct'.keys[k] + Cardinality(Inserters)' <= Cardinality(Requests) + 1
      BY <1>5, <1>6, <3>1, Kept, SMT
    <3> QED
      BY <1>8, <3>2, <3>3, Zenon DEF Room
  <2>2. CASE s = "key" /\ Kind(r) = "keyRemove"
    <3>1. KeyIs(w.key, 1)
      <4>1. KeyIs(w.key, acct.keys[w.key] + 1)
        BY <1>4, <2>2, Zenon DEF StepUndone
      <4>2. acct.keys[w.key] + 1 = 1
        BY <1>4, <2>2, SMT
      <4> QED
        BY <4>1, <4>2, Zenon
    <3>2. nextId' + Cardinality(Inserters)' <= MaxId + 1
      BY <1>5, <1>6, <2>2, Kept, SMT
    <3>3. \A k \in Keys : acct'.keys[k] + Cardinality(Inserters)' <= Cardinality(Requests) + 1
      BY <1>5, <1>6, <3>1, Kept, SMT DEF KeyIs
    <3> QED
      BY <1>8, <3>2, <3>3, Zenon DEF Room
  <2>3. CASE ~(s = "job" /\ Kind(r) = "cronRemove") /\ ~(s = "key" /\ Kind(r) = "keyRemove")
    <3>1. \A k \in Keys : acct'.keys[k] <= acct.keys[k]
      <4>1. CASE s = "key"
        <5>1. Kind(r) = "keyAdd"
          BY <1>3, <1>4, <2>3, <4>1, SMT DEF Pos, KeyKinds
        <5>2. KeyIs(w.key, 0)
          BY <1>4, <4>1, <5>1, Zenon DEF StepUndone
        <5> QED
          BY <5>2, Kept, SMT DEF KeyIs
      <4>2. CASE s # "key"
        <5>1. acct'.keys = acct.keys
          BY <1>4, <4>2, Zenon DEF StepUndone, StepNames, Irreversible, SameBut, Becomes
        <5> QED
          BY <5>1, Kept, SMT
      <4> QED
        BY <4>1, <4>2
    <3>2. nextId' = nextId
      BY <2>3, Zenon
    <3> QED
      BY <1>1, <1>4, <1>8, <3>1, <3>2, RoomKept, Zenon
  <2> QED
    BY <2>1, <2>2, <2>3
<1>10. KeyGone(r)'
  <2>1. ASSUME Kind(r) = "keyRemove" PROVE ~Stands(r, "key")'
    <3>1. Pos(r, "key") = 2 /\ Last(r) = 2
      BY <2>1, SMT DEF Pos, Last, CronKinds, KeyKinds
    <3> QED
      BY <1>2, <1>3, <3>1, SMT DEF Stands
  <2> QED
    BY <1>2, <2>1, Zenon DEF KeyGone
<1>11. Read(r)'
  BY <1>1, ReadKept, Zenon
<1> QED
  BY <1>1, <1>7, <1>8, <1>9, <1>10, <1>11, TypedKept, Zenon

(* An undo that fails and has done nothing.                                *)
LEMMA NotUndoneTyped ==
  ASSUME Typed, NEW r \in Requests, DidNotUndo(r), acct' = acct, stale' = stale,
         UNCHANGED <<nextId, want, snap, saved, newJob, torn, origin>>
  PROVE  Typed'
<1>1. /\ pc[r] = "undo" /\ at[r] > 0 /\ pc' = pc /\ at' = [at EXCEPT ![r] = at[r] - 1]
      /\ Moves(r) /\ Running(r)
  BY Zenon DEF DidNotUndo, Moves, Running
<1>2. /\ Placed(r) /\ Kind(r)' = Kind(r) /\ Last(r) \in 1..4
      /\ (\A t : Pos(r, t)' = Pos(r, t)) /\ pc \in [Requests -> PCs] /\ at \in [Requests -> 0..5]
  BY SameWant, StepPlaces, Zenon DEF Typed, TypeOK, ControlTyped
<1>3. at[r] \in 1..Last(r) /\ at'[r] = at[r] - 1 /\ pc'[r] = "undo"
  BY <1>1, <1>2, SMT DEF Placed
<1>4. KeyGone(r)'
  <2>1. ASSUME Kind(r) = "keyRemove" PROVE ~Stands(r, "key")'
    <3>1. Pos(r, "key") = 2 /\ Last(r) = 2
      BY <2>1, SMT DEF Pos, Last, CronKinds, KeyKinds
    <3> QED
      BY <1>2, <1>3, <3>1, SMT DEF Stands
  <2> QED
    BY <1>2, <2>1, Zenon DEF KeyGone
<1>5. Read(r)'
  BY <1>1, ReadKept, Zenon
<1>6. DataTyped' /\ Unique(acct.jobs)'
  BY Kept, Zenon DEF DataTyped
<1>7. Room'
  <2>1. \A k \in Keys : acct'.keys[k] <= acct.keys[k]
    BY Kept, SMT
  <2>2. acct' \in Account /\ \A j \in acct'.jobs : j.id < nextId
    BY Kept, Zenon
  <2> QED
    BY <1>1, <2>1, <2>2, RoomKept, Zenon
<1> QED
  BY <1>1, <1>4, <1>5, <1>6, <1>7, TypedKept, Zenon

(* The two actions that undo, by the step they undo.                       *)
LEMMA UndoTyped ==
  ASSUME Typed, NEW r \in Requests, Undo(r) \/ UndoFails(r)
  PROVE  Typed'
<1> DEFINE s == Steps(r)[at[r]]
<1>1. \A t : Undoable(r, t) => t \notin Irreversible
  BY Zenon DEF Undoable, Irreversible
<1>2. CASE Undo(r)
  <2>1. stale' \subseteq Requests
    BY <1>2, Kept, Zenon DEF Undo, Outdate, DataTyped
  <2>2. /\ Undid(r) /\ Undoable(r, s) /\ acct' = Undone(r, s)
        /\ nextId' = IF s = "job" /\ Kind(r) = "cronRemove" THEN nextId + 1 ELSE nextId
        /\ UNCHANGED <<want, snap, saved, newJob, torn, origin>>
    BY <1>2, Zenon DEF Undo
  <2> HIDE DEF s
  <2> QED
    BY <1>1, <2>1, <2>2, UndoneTyped, Zenon DEF s
<1>3. CASE UndoFails(r)
  <2>1. DidNotUndo(r) /\ UNCHANGED <<nextId, want, snap, saved, newJob, torn, origin>>
    BY <1>3, Zenon DEF UndoFails
  <2>2. CASE UNCHANGED <<acct, stale>>
    BY <2>1, <2>2, NotUndoneTyped, Zenon
  <2>3. CASE s \notin Transactional \cup Irreversible /\ acct' = Undone(r, s) /\ Outdate(r)
    <3>1. stale' \subseteq Requests /\ s \notin Irreversible /\ s # "job"
      BY <2>3, Kept, Zenon DEF Outdate, DataTyped, Transactional
    <3>2. nextId' = IF s = "job" /\ Kind(r) = "cronRemove" THEN nextId + 1 ELSE nextId
      BY <2>1, <3>1, Zenon
    <3> HIDE DEF s
    <3> QED
      BY <2>1, <2>3, <3>1, <3>2, UndoneTyped, Zenon DEF s
  <2> QED
    BY <1>3, <2>2, <2>3, Zenon DEF UndoFails
<1> QED
  BY <1>2, <1>3

(* What there may be at first has the shape that every plan keeps.         *)
LEMMA TypedInit == ASSUME Init PROVE Typed
<1>1. /\ acct \in Account /\ IsFiniteSet(acct.jobs) /\ Unique(acct.jobs)
      /\ \A j \in acct.jobs : j.id <= Cardinality(acct.jobs)
      /\ Cardinality(acct.jobs) + Cardinality(Requests) <= MaxId
      /\ \A k \in Keys : acct.keys[k] <= 1
      /\ nextId = Cardinality(acct.jobs) + 1
  BY AccountsAssumption, BeforeAssumption, Zenon DEF Init
<1>2. Cardinality(acct.jobs) \in Nat /\ Cardinality(Requests) \in Nat /\ MaxId \in Nat
  BY <1>1, AccountsAssumption, FS_CardinalityType
<1>3. TypeOK
  <2>1. ControlTyped(5)
    <3>1. 1 \in 0..5
      BY SMT
    <3> QED
      BY <3>1, Zenon DEF Init, ControlInit, ControlTyped, PCs
  <2>2. nextId \in 1..MaxId + 1
    BY <1>1, <1>2, SMT
  <2>3. newJob \in [Requests -> 0..MaxId]
    BY <1>2, SMT DEF Init
  <2>4. /\ want \in [Requests -> Request]
        /\ snap \in [Requests -> Account \cup {Nothing}] /\ origin \in [Requests -> Account \cup {Nothing}]
        /\ saved \in [Requests -> [crontab : (SUBSET Commands) \cup {Missing},
                                   authorized : (SUBSET Keys) \cup {Missing}]]
        /\ stale \subseteq Requests /\ torn \subseteq Requests
    BY AccountsAssumption, Zenon DEF Init
  <2> QED
    BY <1>1, <2>1, <2>2, <2>3, <2>4, Zenon DEF TypeOK
<1>4. \A r \in Requests : pc[r] = "new" /\ at[r] = 1 /\ dirty[r] = FALSE
  BY Zenon DEF Init, ControlInit
<1>5. Inserters = Requests
  BY <1>4, Zenon DEF Inserters, MayInsert
<1>6. Room
  <2>1. \A k \in Keys : acct.keys[k] \in Nat
    BY <1>1, <1>2, SMT DEF Account
  <2>2. \A j \in acct.jobs : j.id \in Nat
    BY <1>1, <1>2, SMT DEF Account, Job
  <2> QED
    BY <1>1, <1>2, <1>5, <2>1, <2>2, SMT DEF Room
<1>7. ASSUME NEW r \in Requests PROVE Placed(r) /\ Read(r) /\ KeyGone(r)
  <2>1. lock # r
    BY RequestsAssumption, Zenon DEF Init, ControlInit
  <2> QED
    BY <1>4, <2>1, Zenon DEF Placed, Read, KeyGone, Running
<1> QED
  BY <1>1, <1>3, <1>6, <1>7, Zenon DEF Typed

LEMMA TypedStep ==
  ASSUME Typed, [Next]_vars
  PROVE  Typed'
<1>1. CASE UNCHANGED vars
  <2>1. UNCHANGED <<lock, pc, at, dirty, acct, nextId, want, snap, saved, newJob, stale, torn, origin>>
    BY <1>1, Zenon DEF vars, control, data
  <2>2. TypeOK' <=> TypeOK
    BY <2>1, Zenon DEF TypeOK, ControlTyped
  <2>3. Room' <=> Room
    <3>1. Inserters' = Inserters
      BY <2>1, Zenon DEF Inserters, MayInsert, Kind
    <3> QED
      BY <2>1, <3>1, Zenon DEF Room
  <2>4. ASSUME NEW r \in Requests PROVE Placed(r)' /\ Read(r)' /\ KeyGone(r)'
    <3>1. Placed(r) /\ Read(r) /\ KeyGone(r) /\ Kind(r)' = Kind(r) /\ Last(r)' = Last(r) /\ \A s : Pos(r, s)' = Pos(r, s)
      BY <2>1, SameWant, Zenon DEF Typed
    <3>2. Placed(r)' /\ Read(r)'
      BY <2>1, <3>1, Zenon DEF Placed, Running, Read, Admitted
    <3>3. KeyGone(r)'
      BY <2>1, <3>1, Zenon DEF KeyGone, Running, Stands
    <3> QED
      BY <3>2, <3>3
  <2> QED
    BY <2>1, <2>2, <2>3, <2>4, Zenon DEF Typed
<1>2. CASE Next
  <2>1. PICK r \in Requests : Operation(r)
    BY <1>2, Zenon DEF Next
  <2> QED
    BY <2>1, IdleTyped, DoTyped, FailTyped, UndoTyped, Zenon DEF Operation
<1> QED
  BY <1>1, <1>2

(***************************************************************************)
(* The variables keep their types: ids of cron jobs stay within what the   *)
(* requests may use, no key is listed more often than it can be added.     *)
(***************************************************************************)
THEOREM TypeCorrect == Spec => []TypeOK
<1>1. Typed /\ [Next]_vars => Typed'
  BY TypedStep
<1>2. Typed => TypeOK
  BY Zenon DEF Typed
<1> QED
  BY <1>1, <1>2, TypedInit, PTL DEF Spec

-----------------------------------------------------------------------------
(* An undo that succeeds, by its step.                                     *)
LEMMA UndoEffect ==
  ASSUME Typed, NEW r \in Requests, Undo(r)
  PROVE  \E s \in StepNames \ Irreversible :
           /\ Pos(r, s) = at[r] /\ Undoable(r, s)
           /\ acct' \in Account /\ StepUndone(r, s)
           /\ Stands(r, s) /\ \A t \in StepNames : Stands(r, t)' <=> Stands(r, t) /\ t # s
<1> DEFINE s == Steps(r)[at[r]]
<1>1. Undid(r) /\ Undoable(r, s) /\ acct' = Undone(r, s) /\ want' = want
  BY Zenon DEF Undo
<1>2. s \notin Irreversible
  BY <1>1, Zenon DEF Undoable, Irreversible
<1>3. /\ s \in StepNames /\ Pos(r, s) = at[r]
      /\ acct' \in Account /\ StepUndone(r, s)
      /\ Stands(r, s) /\ \A t \in StepNames : Stands(r, t)' <=> Stands(r, t) /\ t # s
  <2> HIDE DEF s
  <2> QED
    BY <1>1, <1>2, Undoing, Zenon DEF s
<1> HIDE DEF s
<1> QED
  BY <1>1, <1>2, <1>3, Zenon

(* A plan that has not begun has no step that stands, one that is over has *)
(* all or none; where a plan fails nothing is taken back yet.              *)
LEMMA Standing ==
  ASSUME Typed, NEW r \in Requests
  PROVE  /\ at[r] = 1 /\ pc[r] = "do" => \A s \in StepNames : ~Stands(r, s)
         /\ pc[r] = "undo" /\ at[r] = 0 => \A s \in StepNames : ~Stands(r, s)
         /\ pc[r] = "do" /\ at[r] > Len(Steps(r)) => \A s \in StepNames : Stands(r, s) <=> Pos(r, s) > 0
         /\ Fail(r) => \A s \in StepNames : Stands(r, s)' <=> Stands(r, s)
<1>1. /\ Placed(r) /\ Last(r) \in 1..4 /\ Len(Steps(r)) = Last(r)
      /\ \A s \in StepNames : Pos(r, s) \in 0..Last(r)
      /\ pc \in [Requests -> PCs] /\ at \in [Requests -> 0..5]
  BY StepPlaces, Zenon DEF Typed, TypeOK, ControlTyped
<1>2. ASSUME Fail(r), NEW s \in StepNames PROVE Stands(r, s)' <=> Stands(r, s)
  <2>1. pc[r] = "do" /\ pc'[r] = "undo" /\ at'[r] = at[r] - 1 /\ Pos(r, s)' = Pos(r, s)
    BY <1>1, <1>2, SameWant, Zenon DEF Fail, Failed, Goto
  <2> QED
    BY <2>1, SMT DEF Stands
<1> QED
  BY <1>1, <1>2, SMT DEF Stands, Placed

(* Nobody vouches again for what nobody has vouched for.                   *)
LEMMA Damage ==
  ASSUME Typed, NEW r \in Requests, Operation(r), Undamaged'
  PROVE  /\ Undamaged /\ (Fail(r) => acct' = acct)
         /\ (Return(r) => \/ pc[r] = "do" /\ at[r] > Len(Steps(r))
                          \/ pc[r] = "undo" /\ at[r] = 0 /\ ~dirty[r])
<1>1. want' = want /\ Moves(r)
  BY Zenon DEF Operation, Prepare, Refuse, Start, Do, Fail, Undo, UndoFails, Return, Moves, data
<1>2. OthersStay(r) /\ pc \in [Requests -> PCs]
  BY <1>1, ControlMoves, Zenon DEF Typed, TypeOK, ControlTyped
<1>3. torn = {} /\ (Fail(r) => acct' = acct)
  BY Zenon DEF Undamaged, Operation, Prepare, Refuse, Start, Do, Fail, Undo, UndoFails, Return, data
<1>4. pc[r] \notin {"inconsistent", "running"}
  BY <1>1, SMT DEF Moves, Prepared, Refused, Started, Advanced, Failed, Undid, DidNotUndo, Ended, Placed, Running, Typed
<1>5. Undamaged
  BY <1>2, <1>3, <1>4, SMT DEF Undamaged, OthersStay
<1>6. ASSUME Return(r)
      PROVE  \/ pc[r] = "do" /\ at[r] > Len(Steps(r))
             \/ pc[r] = "undo" /\ at[r] = 0 /\ ~dirty[r]
  <2>1. pc'[r] = Verdict(r, Len(Steps(r))) \/ pc'[r] = "running"
    BY <1>2, <1>6, Zenon DEF Return, Ended, Goto
  <2>2. pc'[r] \notin {"inconsistent", "running"}
    BY Zenon DEF Undamaged
  <2> QED
    BY <2>1, <2>2, SMT DEF Verdict
<1> QED
  BY <1>3, <1>5, <1>6

-----------------------------------------------------------------------------
LEMMA WholeIff ==
  ASSUME NEW x \in Database
  PROVE  Whole(x) <=> ((x.row <=> x.schema) /\ (x.schema <=> x.login # "none"))
<1>1. x.row \in BOOLEAN /\ x.schema \in BOOLEAN
  BY SMT DEF Database
<1> QED
  BY <1>1, Zenon DEF Whole

(***************************************************************************)
(* Each step takes the database from whole to half, or from half to whole. *)
(***************************************************************************)
LEMMA BuildingDone ==
  ASSUME Typed, NEW r \in Requests, pc[r] = "do", NEW s \in StepNames, Pos(r, s) = at[r], at[r] > 0, Possible(r, s),
         \A t \in StepNames : Stands(r, t)' <=> Stands(r, t) \/ t = s,
         acct' \in Account, StepDone(r, s), want' = want, Building(r)
  PROVE  Building(r)'
<1> DEFINE w == want[r]
<1>1. Kind(r)' = Kind(r) /\ want'[r] = w /\ acct \in Account
  BY SameWant, Zenon DEF Typed, TypeOK
<1> SUFFICES ASSUME NEW d \in Databases
             PROVE  IF Between(r, d)' THEN Half(acct'.databases[d]) ELSE Whole(acct'.databases[d])
  BY Zenon DEF Building
<1> DEFINE x == acct.databases[d]
           y == acct'.databases[d]
<1>2. IF Between(r, d) THEN Half(x) ELSE Whole(x)
  BY Zenon DEF Building
<1>3. x \in Database /\ y \in Database
  BY <1>1, SMT DEF Account
<1>4. /\ Whole(x) <=> ((x.row <=> x.schema) /\ (x.schema <=> x.login # "none"))
      /\ Whole(y) <=> ((y.row <=> y.schema) /\ (y.schema <=> y.login # "none"))
  BY <1>3, WholeIff
<1> HIDE DEF x, y
<1>5. Between(r, d)' <=>
        \/ Kind(r) = "dbCreate" /\ d = w.name /\ Stands(r, "create")' /\ ~Stands(r, "row")'
        \/ Kind(r) = "dbDelete" /\ d = w.name /\ Stands(r, "row")' /\ ~Stands(r, "drop")'
  BY <1>1, Zenon DEF Between
<1>6. CASE d # w.name
  <2>1. y = x
    BY <1>6, Zenon DEF StepDone, StepNames, KeyIs, SameBut, Becomes, x, y
  <2> QED
    BY <1>2, <1>5, <1>6, <2>1, Zenon DEF Between, x, y
<1>7. CASE s \notin {"create", "row", "credentials", "alter", "drop"}
  <2>1. y = x
    BY <1>7, Zenon DEF StepDone, StepNames, KeyIs, SameBut, Becomes, x, y
  <2>2. Kind(r) \notin {"dbCreate", "dbDelete"}
    BY <1>7, SMT DEF Pos, StepNames, CronKinds, KeyKinds
  <2> QED
    BY <1>2, <1>5, <2>1, <2>2, Zenon DEF Between, x, y
<1>8. CASE s = "create" /\ d = w.name
  <2>1. Kind(r) = "dbCreate" /\ ~Stands(r, "create") /\ ~Stands(r, "row")
    BY <1>8, SMT DEF Pos, CronKinds, KeyKinds, Stands
  <2>2. Kind(r) = "dbCreate" /\ ~Stands(r, "create") /\ ~Stands(r, "row") /\ Stands(r, "create")' /\ ~Stands(r, "row")'
    BY <1>8, <2>1, Zenon DEF StepNames
  <2>3. ~x.schema /\ x.login = "none"
    BY <1>8, <2>2, Zenon DEF Possible, x
  <2>4. (y.row <=> x.row) /\ (y.schema <=> TRUE) /\ y.login = "new"
    BY <1>8, <2>2, Zenon DEF StepDone, Becomes, x, y
  <2>5. Whole(x)
    BY <1>2, <1>8, <2>2, Zenon DEF Between
  <2>6. Half(y)
    BY <1>4, <2>3, <2>4, <2>5, Zenon DEF Half
  <2> QED
    BY <1>5, <1>8, <2>2, <2>6, Zenon DEF x, y
<1>9. CASE s = "row" /\ d = w.name /\ Kind(r) = "dbCreate"
  <2>1. Kind(r) = "dbCreate" /\ Stands(r, "create") /\ ~Stands(r, "row")
    BY <1>9, SMT DEF Pos, CronKinds, KeyKinds, Stands
  <2>2. Kind(r) = "dbCreate" /\ Stands(r, "create") /\ ~Stands(r, "row") /\ Stands(r, "row")'
    BY <1>9, <2>1, Zenon DEF StepNames
  <2>3. TRUE
    BY <1>9, <2>2, Zenon
  <2>4. (y.row <=> TRUE) /\ (y.schema <=> x.schema) /\ y.login = x.login
    BY <1>9, <2>2, Zenon DEF StepDone, Becomes, x, y
  <2>5. Half(x)
    BY <1>2, <1>9, <2>2, Zenon DEF Between
  <2>6. Whole(y)
    BY <1>4, <2>3, <2>4, <2>5, Zenon DEF Half
  <2> QED
    BY <1>5, <1>9, <2>2, <2>6, Zenon DEF x, y
<1>10. CASE s = "row" /\ d = w.name /\ Kind(r) = "dbDelete"
  <2>1. Kind(r) = "dbDelete" /\ ~Stands(r, "row") /\ ~Stands(r, "drop")
    BY <1>10, SMT DEF Pos, CronKinds, KeyKinds, Stands
  <2>2. Kind(r) = "dbDelete" /\ ~Stands(r, "row") /\ ~Stands(r, "drop") /\ Stands(r, "row")' /\ ~Stands(r, "drop")'
    BY <1>10, <2>1, Zenon DEF StepNames
  <2>3. x.row
    BY <1>10, <2>2, Zenon DEF Possible, Kind, x
  <2>4. (y.row <=> FALSE) /\ (y.schema <=> x.schema) /\ y.login = x.login
    BY <1>10, <2>2, Zenon DEF StepDone, Becomes, x, y
  <2>5. Whole(x)
    BY <1>2, <1>10, <2>2, Zenon DEF Between
  <2>6. Half(y)
    BY <1>4, <2>3, <2>4, <2>5, Zenon DEF Half
  <2> QED
    BY <1>5, <1>10, <2>2, <2>6, Zenon DEF x, y
<1>11. CASE s = "credentials" /\ d = w.name
  <2>1. Kind(r) = "dbCreate" /\ Stands(r, "row")
    BY <1>11, SMT DEF Pos, CronKinds, KeyKinds, Stands
  <2>2. Kind(r) = "dbCreate" /\ Stands(r, "row") /\ Stands(r, "row")'
    BY <1>11, <2>1, Zenon DEF StepNames
  <2>3. TRUE
    BY <1>11, <2>2, Zenon
  <2>4. (y.row <=> x.row) /\ (y.schema <=> x.schema) /\ y.login = x.login
    BY <1>11, <2>2, Zenon DEF StepDone, Becomes, x, y
  <2>5. Whole(x)
    BY <1>2, <1>11, <2>2, Zenon DEF Between
  <2>6. Whole(y)
    BY <1>4, <2>3, <2>4, <2>5, Zenon DEF Half
  <2> QED
    BY <1>5, <1>11, <2>2, <2>6, Zenon DEF x, y
<1>12. CASE s = "alter" /\ d = w.name
  <2>1. Kind(r) = "dbPassword"
    BY <1>12, SMT DEF Pos, CronKinds, KeyKinds, Stands
  <2>2. Kind(r) = "dbPassword" /\ TRUE
    BY <1>12, <2>1, Zenon DEF StepNames
  <2>3. x.login # "none"
    BY <1>12, <2>2, Zenon DEF Possible, x
  <2>4. (y.row <=> x.row) /\ (y.schema <=> x.schema) /\ y.login = "new"
    BY <1>12, <2>2, Zenon DEF StepDone, Becomes, x, y
  <2>5. Whole(x)
    BY <1>2, <1>12, <2>2, Zenon DEF Between
  <2>6. Whole(y)
    BY <1>4, <2>3, <2>4, <2>5, Zenon DEF Half
  <2> QED
    BY <1>5, <1>12, <2>2, <2>6, Zenon DEF x, y
<1>13. CASE s = "drop" /\ d = w.name
  <2>1. Kind(r) = "dbDelete" /\ Stands(r, "row") /\ ~Stands(r, "drop")
    BY <1>13, SMT DEF Pos, CronKinds, KeyKinds, Stands
  <2>2. Kind(r) = "dbDelete" /\ Stands(r, "row") /\ ~Stands(r, "drop") /\ Stands(r, "drop")'
    BY <1>13, <2>1, Zenon DEF StepNames
  <2>3. TRUE
    BY <1>13, <2>2, Zenon
  <2>4. (y.row <=> x.row) /\ (y.schema <=> FALSE) /\ y.login = "none"
    BY <1>13, <2>2, Zenon DEF StepDone, Becomes, x, y
  <2>5. Half(x)
    BY <1>2, <1>13, <2>2, Zenon DEF Between
  <2>6. Whole(y)
    BY <1>4, <2>3, <2>4, <2>5, Zenon DEF Half
  <2> QED
    BY <1>5, <1>13, <2>2, <2>6, Zenon DEF x, y
<1>14. s = "row" => Kind(r) \in {"dbCreate", "dbDelete"}
  BY SMT DEF Pos
<1> QED
  BY <1>6, <1>7, <1>8, <1>9, <1>10, <1>11, <1>12, <1>13, <1>14, Zenon

(* ... and each undo the other way.                                        *)
LEMMA BuildingUndone ==
  ASSUME Typed, NEW r \in Requests, pc[r] = "undo", NEW s \in StepNames \ Irreversible, Pos(r, s) = at[r], at[r] > 0, Undoable(r, s),
         \A t \in StepNames : Stands(r, t)' <=> Stands(r, t) /\ t # s,
         acct' \in Account, StepUndone(r, s), want' = want, Building(r)
  PROVE  Building(r)'
<1> DEFINE w == want[r]
<1>1. Kind(r)' = Kind(r) /\ want'[r] = w /\ acct \in Account
  BY SameWant, Zenon DEF Typed, TypeOK
<1> SUFFICES ASSUME NEW d \in Databases
             PROVE  IF Between(r, d)' THEN Half(acct'.databases[d]) ELSE Whole(acct'.databases[d])
  BY Zenon DEF Building
<1> DEFINE x == acct.databases[d]
           y == acct'.databases[d]
<1>2. IF Between(r, d) THEN Half(x) ELSE Whole(x)
  BY Zenon DEF Building
<1>3. x \in Database /\ y \in Database
  BY <1>1, SMT DEF Account
<1>4. /\ Whole(x) <=> ((x.row <=> x.schema) /\ (x.schema <=> x.login # "none"))
      /\ Whole(y) <=> ((y.row <=> y.schema) /\ (y.schema <=> y.login # "none"))
  BY <1>3, WholeIff
<1> HIDE DEF x, y
<1>5. Between(r, d)' <=>
        \/ Kind(r) = "dbCreate" /\ d = w.name /\ Stands(r, "create")' /\ ~Stands(r, "row")'
        \/ Kind(r) = "dbDelete" /\ d = w.name /\ Stands(r, "row")' /\ ~Stands(r, "drop")'
  BY <1>1, Zenon DEF Between
<1>6. CASE d # w.name
  <2>1. y = x
    BY <1>6, Zenon DEF StepUndone, StepNames, KeyIs, SameBut, Becomes, x, y, Irreversible
  <2> QED
    BY <1>2, <1>5, <1>6, <2>1, Zenon DEF Between, x, y
<1>7. CASE s \notin {"create", "row", "credentials", "alter", "drop"}
  <2>1. y = x
    BY <1>7, Zenon DEF StepUndone, StepNames, KeyIs, SameBut, Becomes, x, y, Irreversible
  <2>2. Kind(r) \notin {"dbCreate", "dbDelete"}
    BY <1>7, SMT DEF Pos, StepNames, CronKinds, KeyKinds
  <2> QED
    BY <1>2, <1>5, <2>1, <2>2, Zenon DEF Between, x, y
<1>8. CASE s = "create" /\ d = w.name
  <2>1. Kind(r) = "dbCreate" /\ Stands(r, "create") /\ ~Stands(r, "row")
    BY <1>8, SMT DEF Pos, CronKinds, KeyKinds, Stands
  <2>2. Kind(r) = "dbCreate" /\ Stands(r, "create") /\ ~Stands(r, "row") /\ ~Stands(r, "create")'
    BY <1>8, <2>1, Zenon DEF StepNames
  <2>3. TRUE
    BY <1>8, <2>2, Zenon
  <2>4. (y.row <=> x.row) /\ (y.schema <=> FALSE) /\ y.login = "none"
    BY <1>8, <2>2, Zenon DEF StepUndone, Becomes, x, y
  <2>5. Half(x)
    BY <1>2, <1>8, <2>2, Zenon DEF Between
  <2>6. Whole(y)
    BY <1>4, <2>3, <2>4, <2>5, Zenon DEF Half
  <2> QED
    BY <1>5, <1>8, <2>2, <2>6, Zenon DEF x, y
<1>9. CASE s = "row" /\ d = w.name /\ Kind(r) = "dbCreate"
  <2>1. Kind(r) = "dbCreate" /\ Stands(r, "create") /\ Stands(r, "row")
    BY <1>9, SMT DEF Pos, CronKinds, KeyKinds, Stands
  <2>2. Kind(r) = "dbCreate" /\ Stands(r, "create") /\ Stands(r, "row") /\ Stands(r, "create")' /\ ~Stands(r, "row")'
    BY <1>9, <2>1, Zenon DEF StepNames
  <2>3. x.row
    BY <1>9, <2>2, Zenon DEF Undoable, Kind, x
  <2>4. (y.row <=> FALSE) /\ (y.schema <=> x.schema) /\ y.login = x.login
    BY <1>9, <2>2, Zenon DEF StepUndone, Becomes, x, y
  <2>5. Whole(x)
    BY <1>2, <1>9, <2>2, Zenon DEF Between
  <2>6. Half(y)
    BY <1>4, <2>3, <2>4, <2>5, Zenon DEF Half
  <2> QED
    BY <1>5, <1>9, <2>2, <2>6, Zenon DEF x, y
<1>10. CASE s = "row" /\ d = w.name /\ Kind(r) = "dbDelete"
  <2>1. Kind(r) = "dbDelete" /\ Stands(r, "row") /\ ~Stands(r, "drop")
    BY <1>10, SMT DEF Pos, CronKinds, KeyKinds, Stands
  <2>2. Kind(r) = "dbDelete" /\ Stands(r, "row") /\ ~Stands(r, "drop") /\ ~Stands(r, "row")'
    BY <1>10, <2>1, Zenon DEF StepNames
  <2>3. TRUE
    BY <1>10, <2>2, Zenon
  <2>4. (y.row <=> TRUE) /\ (y.schema <=> x.schema) /\ y.login = x.login
    BY <1>10, <2>2, Zenon DEF StepUndone, Becomes, x, y
  <2>5. Half(x)
    BY <1>2, <1>10, <2>2, Zenon DEF Between
  <2>6. Whole(y)
    BY <1>4, <2>3, <2>4, <2>5, Zenon DEF Half
  <2> QED
    BY <1>5, <1>10, <2>2, <2>6, Zenon DEF x, y
<1>11. CASE s = "credentials" /\ d = w.name
  <2>1. Kind(r) = "dbCreate" /\ Stands(r, "row")
    BY <1>11, SMT DEF Pos, CronKinds, KeyKinds, Stands
  <2>2. Kind(r) = "dbCreate" /\ Stands(r, "row") /\ Stands(r, "row")'
    BY <1>11, <2>1, Zenon DEF StepNames
  <2>3. TRUE
    BY <1>11, <2>2, Zenon
  <2>4. (y.row <=> x.row) /\ (y.schema <=> x.schema) /\ y.login = x.login
    BY <1>11, <2>2, Zenon DEF StepUndone, Becomes, x, y
  <2>5. Whole(x)
    BY <1>2, <1>11, <2>2, Zenon DEF Between
  <2>6. Whole(y)
    BY <1>4, <2>3, <2>4, <2>5, Zenon DEF Half
  <2> QED
    BY <1>5, <1>11, <2>2, <2>6, Zenon DEF x, y
<1>12. s = "row" => Kind(r) \in {"dbCreate", "dbDelete"}
  BY SMT DEF Pos
<1>13. s \notin {"alter", "drop"}
  BY SMT DEF Irreversible
<1> QED
  BY <1>6, <1>7, <1>8, <1>9, <1>10, <1>11, <1>12, <1>13, Zenon

(* Steps that stand where they stood leave what is being built.            *)
LEMMA BuildingKept ==
  ASSUME Typed, NEW r \in Requests, want' = want, acct' = acct, Building(r),
         \A s \in StepNames : Stands(r, s)' <=> Stands(r, s)
  PROVE  Building(r)'
<1>1. Kind(r)' = Kind(r)
  BY SameWant
<1>2. \A d \in Databases : Between(r, d)' <=> Between(r, d)
  BY <1>1, Zenon DEF Between, StepNames
<1> QED
  BY <1>2, Zenon DEF Building

(* With no step done, or with all, there is nothing half-built.            *)
LEMMA BuildingEnds ==
  ASSUME Typed, NEW r \in Requests,
         \/ \A s \in StepNames : ~Stands(r, s)
         \/ \A s \in StepNames : Stands(r, s) <=> Pos(r, s) > 0
  PROVE  Building(r) <=> \A d \in Databases : Whole(acct.databases[d])
<1>1. \A d \in Databases : ~Between(r, d)
  <2>1. /\ Kind(r) = "dbCreate" => Pos(r, "row") > 0
        /\ Kind(r) = "dbDelete" => Pos(r, "drop") > 0
    BY SMT DEF Pos
  <2> QED
    BY <2>1, Zenon DEF Between, StepNames
<1> QED
  BY <1>1, Zenon DEF Building

LEMMA DatabaseStep ==
  ASSUME DatabaseInv, [Next]_vars
  PROVE  DatabaseInv'
<1>1. Typed /\ Typed'
  BY TypedStep, Zenon DEF DatabaseInv
<1> SUFFICES ASSUME Undamaged'
             PROVE  IF lock' = NoRequest THEN \A d \in Databases : Whole(acct'.databases[d])
                    ELSE ~dirty'[lock'] => Building(lock)'
  BY <1>1, Zenon DEF DatabaseInv
<1>2. ASSUME UNCHANGED vars
      PROVE  IF lock' = NoRequest THEN \A d \in Databases : Whole(acct'.databases[d])
             ELSE ~dirty'[lock'] => Building(lock)'
  <2>1. /\ lock' = lock /\ dirty' = dirty /\ acct' = acct /\ want' = want /\ pc' = pc /\ at' = at /\ torn' = torn
    BY <1>2, Zenon DEF vars, control, data
  <2>2. Undamaged
    BY <2>1, Zenon DEF Undamaged
  <2>3. ASSUME NEW r \in Requests, Building(r) PROVE Building(r)'
    <3>1. \A s \in StepNames : Stands(r, s)' <=> Stands(r, s)
      BY <2>1, SameWant, Zenon DEF Stands
    <3> QED
      BY <1>1, <2>1, <2>3, <3>1, BuildingKept, Zenon
  <2>4. lock \in Requests \cup {NoRequest}
    BY <1>1, Zenon DEF Typed, TypeOK, ControlTyped
  <2>5. CASE lock = NoRequest
    BY <2>1, <2>2, <2>5, Zenon DEF DatabaseInv
  <2>6. CASE lock \in Requests /\ lock # NoRequest
    BY <2>1, <2>2, <2>3, <2>6, Zenon DEF DatabaseInv
  <2> QED
    BY <2>4, <2>5, <2>6
<1>3. ASSUME NEW r \in Requests, Operation(r)
      PROVE  IF lock' = NoRequest THEN \A d \in Databases : Whole(acct'.databases[d])
             ELSE ~dirty'[lock'] => Building(lock)'
  <2>1. /\ Undamaged /\ (Fail(r) => acct' = acct)
        /\ (Return(r) => \/ pc[r] = "do" /\ at[r] > Len(Steps(r))
                         \/ pc[r] = "undo" /\ at[r] = 0 /\ ~dirty[r])
    BY <1>1, <1>3, Damage
  <2>2. want' = want /\ Moves(r) /\ r # NoRequest
    BY <1>3, RequestsAssumption, Zenon
       DEF Operation, Prepare, Refuse, Start, Do, Fail, Undo, UndoFails, Return, Moves, data
  <2>3. OthersStay(r) /\ dirty \in [Requests -> BOOLEAN] /\ lock \in Requests \cup {NoRequest} /\ Placed(r)
    BY <1>1, <2>2, ControlMoves, Zenon DEF Typed, TypeOK, ControlTyped
  <2>4. IF lock = NoRequest THEN \A d \in Databases : Whole(acct.databases[d])
        ELSE ~dirty[lock] => Building(lock)
    BY <2>1, Zenon DEF DatabaseInv
  <2>5. ASSUME pc[r] \in {"do", "undo"} PROVE lock = r
    BY <2>3, <2>5, Zenon DEF Placed, Running
  <2>6. CASE Prepare(r) \/ Refuse(r)
    <3>1. lock' = lock /\ acct' = acct /\ lock # r
      BY <2>3, <2>6, SMT DEF Prepare, Prepared, Refuse, Refused, data, Placed, Running
    <3>2. CASE lock = NoRequest
      BY <2>4, <3>1, <3>2, Zenon
    <3>3. CASE lock # NoRequest
      <4> DEFINE q == lock
      <4>1. q \in Requests \ {r} /\ pc'[q] = pc[q] /\ at'[q] = at[q] /\ dirty'[q] = dirty[q]
        BY <2>3, <3>1, <3>3, Zenon DEF OthersStay
      <4>2. \A s \in StepNames : Stands(q, s)' <=> Stands(q, s)
        BY <2>2, <3>1, <4>1, SameWant, Zenon DEF Stands
      <4>3. Building(q) => Building(q)'
        BY <1>1, <2>2, <3>1, <4>1, <4>2, BuildingKept, Zenon
      <4> QED
        BY <2>4, <3>1, <3>3, <4>1, <4>3, Zenon
    <3> QED
      BY <3>2, <3>3
  <2>7. CASE Start(r)
    <3>1. lock = NoRequest /\ lock' = r /\ acct' = acct /\ at'[r] = 1 /\ pc'[r] = "do"
      BY <1>1, <2>3, <2>7, Zenon DEF Start, Started, Goto, Placed, Typed, TypeOK, ControlTyped
    <3>2. Building(r)'
      <4>1. \A s \in StepNames : ~Stands(r, s)'
        <5>1. \A s \in StepNames : Pos(r, s)' \in Nat
          BY <1>1, <2>2, StepPlaces, SameWant, SMT DEF Typed
        <5> QED
          BY <3>1, <5>1, SMT DEF Stands
      <4>2. \A d \in Databases : ~Between(r, d)'
        BY <4>1, Zenon DEF Between, StepNames
      <4> QED
        BY <2>4, <3>1, <4>2, Zenon DEF Building
    <3> QED
      BY <2>2, <3>1, <3>2, Zenon
  <2>8. CASE Do(r)
    <3>1. pc[r] = "do" /\ lock' = lock /\ dirty' = dirty
      BY <2>8, Zenon DEF Do, Advanced
    <3>2. lock = r /\ ~dirty[r] /\ Building(r)
      BY <2>2, <2>3, <2>4, <2>5, <3>1, SMT DEF Placed
    <3>3. PICK s \in StepNames :
            /\ Pos(r, s) = at[r] /\ Possible(r, s) /\ acct' \in Account /\ StepDone(r, s)
            /\ \A t \in StepNames : Stands(r, t)' <=> Stands(r, t) \/ t = s
      BY <1>1, <2>8, DoEffect, Zenon
    <3>4. at[r] > 0
      BY <2>3, <3>1, SMT DEF Placed
    <3>5. Building(r)'
      BY <1>1, <2>2, <3>1, <3>2, <3>3, <3>4, BuildingDone, Zenon
    <3> QED
      BY <2>2, <3>1, <3>2, <3>5, Zenon
  <2>9. CASE Fail(r)
    <3>1. pc[r] = "do" /\ lock' = lock /\ dirty' = dirty
      BY <2>9, Zenon DEF Fail, Failed
    <3>2. lock = r /\ ~dirty[r] /\ Building(r)
      BY <2>2, <2>3, <2>4, <2>5, <3>1, SMT DEF Placed
    <3>3. Building(r)'
      BY <1>1, <2>1, <2>2, <2>9, <3>2, Standing, BuildingKept, Zenon
    <3> QED
      BY <2>2, <3>1, <3>2, <3>3, Zenon
  <2>10. CASE Undo(r)
    <3>1. pc[r] = "undo" /\ at[r] > 0 /\ lock' = lock /\ dirty' = dirty
      BY <2>10, Zenon DEF Undo, Undid
    <3>2. lock = r
      BY <2>5, <3>1, Zenon
    <3>3. PICK s \in StepNames \ Irreversible :
            /\ Pos(r, s) = at[r] /\ Undoable(r, s) /\ acct' \in Account /\ StepUndone(r, s)
            /\ \A t \in StepNames : Stands(r, t)' <=> Stands(r, t) /\ t # s
      BY <1>1, <2>10, UndoEffect, Zenon
    <3>4. Building(r) => Building(r)'
      BY <1>1, <2>2, <3>1, <3>3, BuildingUndone, Zenon
    <3> QED
      BY <2>2, <2>4, <3>1, <3>2, <3>4, Zenon
  <2>11. CASE UndoFails(r)
    <3>1. pc[r] = "undo" /\ lock' = lock /\ dirty'[r] = TRUE
      BY <2>3, <2>11, Zenon DEF UndoFails, DidNotUndo
    <3> QED
      BY <2>2, <2>5, <3>1, Zenon
  <2>12. CASE Return(r)
    <3>1. lock = r /\ lock' = NoRequest /\ acct' = acct
      BY <2>12, Zenon DEF Return, Ended
    <3>2. Building(r)
      <4>1. ~dirty[r]
        BY <2>1, <2>3, <2>12, Zenon DEF Placed
      <4> QED
        BY <2>2, <2>4, <3>1, <4>1, Zenon
    <3>3. \A d \in Databases : Whole(acct.databases[d])
      BY <1>1, <2>1, <2>12, <3>2, Standing, BuildingEnds, Zenon
    <3> QED
      BY <3>1, <3>3, Zenon
  <2> QED
    BY <1>3, <2>6, <2>7, <2>8, <2>9, <2>10, <2>11, <2>12, Zenon DEF Operation
<1> QED
  BY <1>2, <1>3, Zenon DEF Next

LEMMA DatabaseStart == ASSUME Init PROVE DatabaseInv
<1>1. \A d \in Databases : Whole(acct.databases[d])
  BY BeforeAssumption, Zenon DEF Init
<1> QED
  BY <1>1, TypedInit, Zenon DEF DatabaseInv, Init, ControlInit

(***************************************************************************)
(* Whatever operations overlap, and wherever they fail, a recorded         *)
(* database is there with its user, and no other is, as long as no plan    *)
(* has ended in a state nobody vouches for.                                *)
(***************************************************************************)
THEOREM RecordedDatabasesAreThere == Spec => []RowIsDatabase
<1>1. DatabaseInv /\ [Next]_vars => DatabaseInv'
  BY DatabaseStep
<1>2. DatabaseInv => RowIsDatabase
  BY Zenon DEF DatabaseInv, RowIsDatabase, Settled
<1> QED
  BY <1>1, <1>2, DatabaseStart, PTL DEF Spec

-----------------------------------------------------------------------------
(***************************************************************************)
(* The steps of a plan that is not stale make of what it has read what     *)
(* Progress says.                                                          *)
(***************************************************************************)
LEMMA DoProgress ==
  ASSUME Typed, NEW r \in Requests, Do(r), Progress(r)
  PROVE  Progress(r)'
<1> DEFINE w == want[r]
           x == snap[r]
<1>1. /\ pc[r] = "do" /\ pc'[r] = "do" /\ want' = want /\ snap' = snap /\ Kind(r)' = Kind(r)
      /\ DesiredJobs(r)' = DesiredJobs(r) /\ DesiredKeys(r)' = DesiredKeys(r)
  <2>1. pc[r] = "do" /\ pc' = pc /\ want' = want /\ snap' = snap
    BY Zenon DEF Do, Advanced
  <2> QED
    BY <2>1, SameWant, Zenon DEF DesiredJobs, DesiredKeys
<1>2. Admitted(r) /\ acct \in Account
  BY <1>1, Zenon DEF Typed, TypeOK, Read
<1>3. PICK s \in StepNames :
        /\ s = Steps(r)[at[r]] /\ Pos(r, s) = at[r] /\ Possible(r, s) /\ acct' \in Account /\ StepDone(r, s)
        /\ ~Stands(r, s) /\ \A t \in StepNames : Stands(r, t)' <=> Stands(r, t) \/ t = s
  BY DoEffect, Zenon
<1>4. /\ saved'[r] = IF s \in {"crontab", "authorized"}
                     THEN [crontab |-> acct.crontab, authorized |-> acct.authorized] ELSE saved[r]
      /\ newJob'[r] = IF s = "job" /\ Kind(r) = "cronAdd" THEN nextId ELSE newJob[r]
  BY <1>3, Kept, Zenon DEF Do, DataTyped
<1>5. \A t \in StepNames : Stands(r, t) => Pos(r, t) > 0
  BY Zenon DEF Stands
<1>6. Pos(r, s) > 0
  BY <1>1, <1>3, SMT DEF Typed, Placed
<1>7. CronProgress(r)'
  <2>1. CronProgress(r)
    BY Zenon DEF Progress
  <2>2. CASE s = "crontab"
    <3>1. /\ acct'.crontab = DesiredJobs(r) /\ acct'.jobs = acct.jobs /\ Stands(r, "crontab")'
          /\ (Stands(r, "job")' <=> Stands(r, "job")) /\ newJob'[r] = newJob[r]
      BY <1>3, <1>4, <2>2, Zenon DEF StepDone, SameBut, StepNames
    <3>2. saved'[r].crontab = x.crontab
      <4>1. saved'[r].crontab = acct.crontab
        BY <1>4, <2>2, SMT
      <4> QED
        BY <1>3, <2>1, <2>2, <4>1, Zenon DEF CronProgress
    <3>3. JobsAfter(r)' = JobsAfter(r)
      BY <1>1, <3>1, Zenon DEF JobsAfter
    <3> QED
      BY <1>1, <2>1, <3>1, <3>2, <3>3, Zenon DEF CronProgress
  <2>3. CASE s = "job"
    <3>1. /\ acct'.crontab = acct.crontab /\ acct'.jobs = JobsDone(r) /\ Stands(r, "job")'
          /\ (Stands(r, "crontab")' <=> Stands(r, "crontab")) /\ saved'[r] = saved[r]
      BY <1>3, <1>4, <2>3, Zenon DEF StepDone, SameBut, StepNames
    <3>2. acct.jobs = x.jobs
      BY <1>1, <1>3, <2>1, <2>3, Zenon DEF CronProgress
    <3>3. Kind(r) \in CronKinds
      BY <1>6, <2>3, SMT DEF Pos
    <3>4. JobsDone(r) = JobsAfter(r)'
      BY <1>1, <1>4, <2>3, <3>2, <3>3, Zenon DEF JobsDone, JobsAfter, CronKinds
    <3>5. Kind(r) = "cronAdd" => \A j \in x.jobs : j.id # newJob'[r]
      <4>1. \A j \in x.jobs : j.id < nextId /\ j.id \in Nat
        BY <1>2, <3>2, Kept, SMT DEF Account, Job
      <4> QED
        BY <1>4, <2>3, <4>1, SMT
    <3> QED
      BY <1>1, <2>1, <3>1, <3>4, <3>5, Zenon DEF CronProgress
  <2>4. CASE s \notin {"crontab", "job"}
    <3>1. /\ acct'.crontab = acct.crontab /\ acct'.jobs = acct.jobs
          /\ (Stands(r, "job")' <=> Stands(r, "job")) /\ (Stands(r, "crontab")' <=> Stands(r, "crontab"))
          /\ newJob'[r] = newJob[r]
      BY <1>3, <1>4, <2>4, Zenon DEF StepDone, SameBut, KeyIs, Becomes, StepNames
    <3>2. Stands(r, "crontab") => saved'[r] = saved[r]
      <4>1. Stands(r, "crontab") => s # "authorized"
        BY <1>5, <1>6, SMT DEF Pos, StepNames, CronKinds, KeyKinds
      <4> QED
        BY <1>4, <2>4, <4>1, Zenon
    <3>3. JobsAfter(r)' = JobsAfter(r)
      BY <1>1, <3>1, Zenon DEF JobsAfter
    <3> QED
      BY <1>1, <2>1, <3>1, <3>2, <3>3, Zenon DEF CronProgress
  <2> QED
    BY <2>2, <2>3, <2>4
<1>8. KeyProgress(r)'
  <2>1. KeyProgress(r)
    BY Zenon DEF Progress
  <2>2. CASE s = "authorized"
    <3>1. /\ acct'.authorized = DesiredKeys(r) /\ acct'.keys = acct.keys /\ Stands(r, "authorized")'
          /\ (Stands(r, "key")' <=> Stands(r, "key"))
      BY <1>3, <2>2, Zenon DEF StepDone, SameBut, StepNames
    <3>2. saved'[r].authorized = x.authorized
      <4>1. saved'[r].authorized = acct.authorized
        BY <1>4, <2>2, SMT
      <4> QED
        BY <1>3, <2>1, <2>2, <4>1, Zenon DEF KeyProgress
    <3> QED
      BY <1>1, <2>1, <3>1, <3>2, Zenon DEF KeyProgress
  <2>3. CASE s = "key"
    <3> DEFINE n == IF Kind(r) = "keyAdd" THEN acct.keys[w.key] + 1 ELSE 0
    <3>1. /\ KeyIs(w.key, n) /\ acct'.authorized = acct.authorized /\ Stands(r, "key")'
          /\ (Stands(r, "authorized")' <=> Stands(r, "authorized")) /\ saved'[r] = saved[r]
      BY <1>3, <1>4, <2>3, Zenon DEF StepDone, KeyIs, SameBut, StepNames
    <3>2. Kind(r) \in KeyKinds /\ w.key \in Keys
      BY <1>6, <2>3, Wanted, SMT DEF Pos, Typed
    <3>3. \A k \in Keys : acct.keys[k] = x.keys[k]
      BY <1>3, <2>1, <2>3, Zenon DEF KeyProgress
    <3>4. Kind(r) = "keyAdd" => n = 1
      BY <1>2, <3>2, <3>3, SMT DEF Admitted
    <3>5. Kind(r) = "keyRemove" => x.keys[w.key] = 1
      <4>1. Kind(r) = "keyRemove" => acct.keys[w.key] = 1
        BY <1>3, <2>3, Zenon DEF Possible
      <4> QED
        BY <3>2, <3>3, <4>1, Zenon
    <3>6. \A k \in Keys : acct'.keys[k] = IF k = w.key THEN IF Kind(r) = "keyAdd" THEN 1 ELSE 0 ELSE x.keys[k]
      <4>1. acct'.keys[w.key] = IF Kind(r) = "keyAdd" THEN 1 ELSE 0
        BY <3>1, <3>4, Zenon DEF KeyIs
      <4> QED
        BY <3>1, <3>3, <4>1, Zenon DEF KeyIs
    <3> HIDE DEF n
    <3> QED
      BY <1>1, <2>1, <3>1, <3>5, <3>6, Zenon DEF KeyProgress
  <2>4. CASE s \notin {"authorized", "key"}
    <3>1. /\ acct'.authorized = acct.authorized /\ acct'.keys = acct.keys
          /\ (Stands(r, "authorized")' <=> Stands(r, "authorized")) /\ (Stands(r, "key")' <=> Stands(r, "key"))
      BY <1>3, <2>4, Zenon DEF StepDone, SameBut, Becomes, StepNames
    <3>2. Stands(r, "authorized") => saved'[r] = saved[r]
      <4>1. Stands(r, "authorized") => s # "crontab"
        BY <1>5, <1>6, SMT DEF Pos, StepNames, CronKinds, KeyKinds
      <4> QED
        BY <1>4, <2>4, <4>1, Zenon
    <3> QED
      BY <1>1, <2>1, <3>1, <3>2, Zenon DEF KeyProgress
  <2> QED
    BY <2>2, <2>3, <2>4
<1>9. AccessProgress(r)'
  <2>1. AccessProgress(r)
    BY Zenon DEF Progress
  <2>2. /\ acct'.shell = IF s = "shell" THEN ShellOf(w.mode) ELSE acct.shell
        /\ acct'.access = IF s = "access" THEN w.mode ELSE acct.access
        /\ acct'.password = IF s = "password" THEN IF UsesPassword(w.mode) THEN "new" ELSE "locked"
                            ELSE acct.password
    BY <1>3, Zenon DEF StepDone, SameBut, KeyIs, Becomes, StepNames
  <2>3. /\ Stands(r, "shell")' <=> Stands(r, "shell") \/ s = "shell"
        /\ Stands(r, "access")' <=> Stands(r, "access") \/ s = "access"
        /\ Stands(r, "password")' <=> Stands(r, "password") \/ s = "password"
    BY <1>3, Zenon DEF StepNames
  <2>4. acct'.shell \in IF Stands(r, "shell")' THEN {ShellOf(w.mode)} ELSE {x.shell}
    BY <1>1, <2>1, <2>2, <2>3, Zenon DEF AccessProgress
  <2> QED
    BY <1>1, <2>1, <2>2, <2>3, <2>4, Zenon DEF AccessProgress
<1>10. DatabaseProgress(r)'
  <2>1. DatabaseProgress(r)
    BY Zenon DEF Progress
  <2> SUFFICES ASSUME NEW d \in Databases
               PROVE  LET z == snap[r].databases[d] y == acct'.databases[d] IN
                        /\ y.row <=> IF Stands(r, "row")' /\ d = w.name THEN Kind(r) = "dbCreate" ELSE z.row
                        /\ Stands(r, "create")' /\ d = w.name => ~z.schema /\ z.login = "none"
                        /\ Stands(r, "create")' /\ d = w.name => y.schema /\ y.login = "new"
                        /\ ~((Stands(r, "create")' \/ Stands(r, "alter")' \/ Stands(r, "drop")') /\ d = w.name) =>
                             y.schema = z.schema /\ y.login = z.login
                        /\ y.credentials <=> IF Stands(r, "credentials")' /\ d = w.name THEN TRUE ELSE z.credentials
    BY <1>1, Zenon DEF DatabaseProgress
  <2> DEFINE z == snap[r].databases[d]
             y == acct'.databases[d]
             v == acct.databases[d]
  <2>2. /\ v.row <=> IF Stands(r, "row") /\ d = w.name THEN Kind(r) = "dbCreate" ELSE z.row
        /\ Stands(r, "create") /\ d = w.name => ~z.schema /\ z.login = "none"
        /\ Stands(r, "create") /\ d = w.name => v.schema /\ v.login = "new"
        /\ ~((Stands(r, "create") \/ Stands(r, "alter") \/ Stands(r, "drop")) /\ d = w.name) =>
             v.schema = z.schema /\ v.login = z.login
        /\ v.credentials <=> IF Stands(r, "credentials") /\ d = w.name THEN TRUE ELSE z.credentials
    BY <2>1, Zenon DEF DatabaseProgress
  <2>3. z \in Database /\ y \in Database /\ v \in Database
    BY <1>2, <1>3, SMT DEF Account, Admitted
  <2>4. \A t \in {"create", "row", "credentials", "alter", "drop"} : Stands(r, t)' <=> Stands(r, t) \/ t = s
    BY <1>3, Zenon DEF StepNames
  <2>5. s = "create" /\ d = w.name => ~v.schema /\ v.login = "none" /\ ~Stands(r, "alter") /\ ~Stands(r, "drop")
    <3>1. s = "create" => ~Stands(r, "alter") /\ ~Stands(r, "drop")
      BY <1>5, <1>6, SMT DEF Pos, StepNames
    <3> QED
      BY <1>3, <3>1, Zenon DEF Possible
  <2>6. CASE s \notin {"create", "row", "credentials", "alter", "drop"} \/ d # w.name
    <3>1. y = v
      BY <1>3, <2>6, Zenon DEF StepDone, SameBut, KeyIs, Becomes, StepNames
    <3> QED
      BY <2>2, <2>4, <2>6, <3>1, Zenon
  <2>7. CASE s = "create" /\ d = w.name
    <3>1. (y.row <=> v.row) /\ y.schema /\ y.login = "new" /\ (y.credentials <=> v.credentials)
      BY <1>3, <2>7, Zenon DEF StepDone, Becomes
    <3>2. ~z.schema /\ z.login = "none"
      BY <1>3, <2>2, <2>5, <2>7, Zenon
    <3> QED
      BY <2>2, <2>4, <2>7, <3>1, <3>2, Zenon
  <2>8. CASE s \in {"row", "credentials"} /\ d = w.name
    <3>1. /\ y.row <=> IF s = "row" THEN Kind(r) = "dbCreate" ELSE v.row
          /\ (y.schema <=> v.schema) /\ y.login = v.login
          /\ y.credentials <=> IF s = "credentials" THEN TRUE ELSE v.credentials
      BY <1>3, <2>8, Zenon DEF StepDone, Becomes
    <3>2. y.schema = v.schema
      BY <2>3, <3>1, SMT DEF Database
    <3> QED
      BY <2>2, <2>4, <2>8, <3>1, <3>2, Zenon
  <2>9. CASE s \in {"alter", "drop"} /\ d = w.name
    <3>1. (y.row <=> v.row) /\ (y.credentials <=> v.credentials)
      BY <1>3, <2>9, Zenon DEF StepDone, Becomes
    <3>2. ~Stands(r, "create")
      BY <1>5, <1>6, <2>9, SMT DEF Pos, StepNames
    <3> QED
      BY <2>2, <2>4, <2>9, <3>1, <3>2, Zenon
  <2> QED
    BY <2>6, <2>7, <2>8, <2>9, Zenon
<1> QED
  BY <1>7, <1>8, <1>9, <1>10, Zenon DEF Progress

(***************************************************************************)
(* The rows of cron jobs go back: a job that is added, changed or removed. *)
(***************************************************************************)
LEMMA JobReplaced ==
  ASSUME NEW jobs, Unique(jobs), NEW mine \in jobs, NEW x, x.id = mine.id,
         NEW now, now = {j \in {i \in jobs : i.id # mine.id} \cup {x} : j.id # mine.id} \cup {mine}
  PROVE  now = jobs
<1>1. jobs = {j \in jobs : j.id # mine.id} \cup {mine}
  BY SMT DEF Unique
<1>2. {j \in {i \in jobs : i.id # mine.id} \cup {x} : j.id # mine.id} = {j \in jobs : j.id # mine.id}
  BY SMT
<1> QED
  BY <1>1, <1>2, Zenon

LEMMA JobRenumbered ==
  ASSUME NEW jobs, Unique(jobs), NEW mine \in jobs, NEW y, y.command = mine.command,
         NEW now, now = {j \in jobs : j.id # mine.id} \cup {y}
  PROVE  Crontab(now) = Crontab(jobs)
<1>1. jobs = {j \in jobs : j.id # mine.id} \cup {mine}
  BY SMT DEF Unique
<1>2. Crontab({j \in jobs : j.id # mine.id} \cup {y}) = Crontab({j \in jobs : j.id # mine.id} \cup {mine})
  BY SMT DEF Crontab
<1> QED
  BY <1>1, <1>2, Zenon

LEMMA UndoProgress ==
  ASSUME Typed, NEW r \in Requests, Undo(r), Progress(r)
  PROVE  Progress(r)'
<1> DEFINE w == want[r]
           x == snap[r]
<1>1. /\ pc[r] = "undo" /\ pc'[r] = "undo" /\ want' = want /\ snap' = snap /\ saved' = saved /\ newJob' = newJob
      /\ Kind(r)' = Kind(r) /\ DesiredJobs(r)' = DesiredJobs(r) /\ DesiredKeys(r)' = DesiredKeys(r)
      /\ JobsAfter(r)' = JobsAfter(r)
  <2>1. pc[r] = "undo" /\ pc' = pc /\ want' = want /\ snap' = snap /\ saved' = saved /\ newJob' = newJob
    BY Zenon DEF Undo, Undid
  <2> QED
    BY <2>1, SameWant, Zenon DEF DesiredJobs, DesiredKeys, JobsAfter
<1>2. Admitted(r) /\ acct \in Account
  BY <1>1, Zenon DEF Typed, TypeOK, Read
<1>3. PICK s \in StepNames \ Irreversible :
        /\ Pos(r, s) = at[r] /\ Undoable(r, s) /\ acct' \in Account /\ StepUndone(r, s)
        /\ Stands(r, s) /\ \A t \in StepNames : Stands(r, t)' <=> Stands(r, t) /\ t # s
  BY UndoEffect, Zenon
<1>4. Pos(r, s) > 0
  BY <1>3, Zenon DEF Stands
<1>5. CronProgress(r)'
  <2>1. CronProgress(r)
    BY Zenon DEF Progress
  <2>2. CASE s = "crontab"
    <3>1. /\ acct'.crontab = saved[r].crontab /\ acct'.jobs = acct.jobs /\ ~Stands(r, "crontab")'
          /\ (Stands(r, "job")' <=> Stands(r, "job"))
      BY <1>3, <2>2, Zenon DEF StepUndone, SameBut, StepNames
    <3> QED
      BY <1>1, <1>3, <2>1, <2>2, <3>1, Zenon DEF CronProgress
  <2>3. CASE s = "job"
    <3>1. /\ acct'.crontab = acct.crontab /\ acct'.jobs = JobsUndone(r) /\ ~Stands(r, "job")'
          /\ (Stands(r, "crontab")' <=> Stands(r, "crontab"))
      BY <1>3, <2>3, Zenon DEF StepUndone, SameBut, StepNames
    <3>2. /\ acct.jobs = JobsAfter(r)
          /\ Kind(r) = "cronAdd" => \A j \in x.jobs : j.id # newJob[r]
      BY <1>3, <2>1, <2>3, Zenon DEF CronProgress
    <3>3. Kind(r) \in CronKinds
      BY <1>4, <2>3, SMT DEF Pos
    <3>4. Kind(r) \in {"cronUpdate", "cronRemove"} => Mine(r) \in x.jobs /\ Mine(r).id = w.id /\ Mine(r) \in Job
      BY <1>2, MineIsRead, Zenon DEF Typed
    <3>5. Unique(x.jobs)
      BY <1>2, Zenon DEF Admitted
    <3>6. Crontab(JobsUndone(r)) = Crontab(x.jobs)
      <4>1. CASE Kind(r) = "cronAdd"
        <5>1. JobsUndone(r) = {j \in x.jobs \cup {[id |-> newJob[r], command |-> w.command]} : j.id # newJob[r]}
          BY <3>2, <4>1, Zenon DEF JobsUndone, JobsAfter
        <5>2. JobsUndone(r) = x.jobs
          BY <3>2, <4>1, <5>1, SMT
        <5> QED
          BY <5>2, Zenon
      <4>2. CASE Kind(r) = "cronUpdate"
        <5> DEFINE new == [id |-> w.id, command |-> w.command]
                   mine == Mine(r)
        <5>1. JobsUndone(r) = {j \in {i \in x.jobs : i.id # mine.id} \cup {new} : j.id # mine.id} \cup {mine}
          <6>1. JobsUndone(r) = {j \in {i \in x.jobs : i.id # w.id} \cup {new} : j.id # w.id} \cup {mine}
            BY <3>2, <4>2, Zenon DEF JobsUndone, JobsAfter
          <6> QED
            BY <3>4, <4>2, <6>1, Zenon
        <5>2. new.id = mine.id /\ mine \in x.jobs
          BY <3>4, <4>2, SMT
        <5> HIDE DEF new, mine
        <5>3. JobsUndone(r) = x.jobs
          BY <3>5, <5>1, <5>2, JobReplaced, Zenon
        <5> QED
          BY <5>3, Zenon
      <4>3. CASE Kind(r) = "cronRemove"
        <5> DEFINE new == [Mine(r) EXCEPT !.id = nextId]
                   mine == Mine(r)
        <5>1. JobsUndone(r) = {j \in x.jobs : j.id # mine.id} \cup {new}
          <6>1. JobsUndone(r) = {j \in x.jobs : j.id # w.id} \cup {new}
            BY <3>2, <4>3, Zenon DEF JobsUndone, JobsAfter
          <6> QED
            BY <3>4, <4>3, <6>1, Zenon
        <5>2. new.command = mine.command /\ mine \in x.jobs
          BY <3>4, <4>3, Zenon DEF Job
        <5> HIDE DEF new, mine
        <5> QED
          BY <3>5, <5>1, <5>2, JobRenumbered, SMT
      <4> QED
        BY <3>3, <4>1, <4>2, <4>3, Zenon DEF CronKinds
    <3> QED
      BY <1>1, <2>1, <3>1, <3>6, Zenon DEF CronProgress
  <2>4. CASE s \notin {"crontab", "job"}
    <3>1. /\ acct'.crontab = acct.crontab /\ acct'.jobs = acct.jobs
          /\ (Stands(r, "job")' <=> Stands(r, "job")) /\ (Stands(r, "crontab")' <=> Stands(r, "crontab"))
      BY <1>3, <2>4, Zenon DEF StepUndone, SameBut, KeyIs, Becomes, StepNames, Irreversible
    <3> QED
      BY <1>1, <2>1, <3>1, Zenon DEF CronProgress
  <2> QED
    BY <2>2, <2>3, <2>4
<1>6. KeyProgress(r)'
  <2>1. KeyProgress(r)
    BY Zenon DEF Progress
  <2>2. CASE s = "authorized"
    <3>1. /\ acct'.authorized = saved[r].authorized /\ acct'.keys = acct.keys /\ ~Stands(r, "authorized")'
          /\ (Stands(r, "key")' <=> Stands(r, "key"))
      BY <1>3, <2>2, Zenon DEF StepUndone, SameBut, StepNames
    <3> QED
      BY <1>1, <1>3, <2>1, <2>2, <3>1, Zenon DEF KeyProgress
  <2>3. CASE s = "key"
    <3> DEFINE n == IF Kind(r) = "keyAdd" THEN 0 ELSE acct.keys[w.key] + 1
    <3>1. /\ KeyIs(w.key, n) /\ acct'.authorized = acct.authorized /\ ~Stands(r, "key")'
          /\ (Stands(r, "authorized")' <=> Stands(r, "authorized"))
      BY <1>3, <2>3, Zenon DEF StepUndone, KeyIs, SameBut, StepNames
    <3>2. Kind(r) \in KeyKinds /\ w.key \in Keys
      BY <1>4, <2>3, Wanted, SMT DEF Pos, Typed
    <3>3. \A k \in Keys : acct.keys[k] = IF k = w.key THEN IF Kind(r) = "keyAdd" THEN 1 ELSE 0 ELSE x.keys[k]
      BY <1>3, <2>1, <2>3, Zenon DEF KeyProgress
    <3>4. x.keys[w.key] = n
      <4>1. Kind(r) = "keyAdd" => x.keys[w.key] = 0
        BY <1>2, Zenon DEF Admitted
      <4>2. Kind(r) = "keyRemove" => x.keys[w.key] = 1 /\ acct.keys[w.key] = 0
        BY <1>3, <2>1, <2>3, <3>2, <3>3, SMT DEF KeyProgress
      <4> QED
        BY <3>2, <4>1, <4>2, SMT DEF KeyKinds
    <3> HIDE DEF n
    <3>5. \A k \in Keys : acct'.keys[k] = x.keys[k]
      BY <3>1, <3>3, <3>4, Zenon DEF KeyIs
    <3> QED
      BY <1>1, <2>1, <3>1, <3>5, Zenon DEF KeyProgress
  <2>4. CASE s \notin {"authorized", "key"}
    <3>1. /\ acct'.authorized = acct.authorized /\ acct'.keys = acct.keys
          /\ (Stands(r, "authorized")' <=> Stands(r, "authorized")) /\ (Stands(r, "key")' <=> Stands(r, "key"))
      BY <1>3, <2>4, Zenon DEF StepUndone, SameBut, Becomes, StepNames, Irreversible
    <3> QED
      BY <1>1, <2>1, <3>1, Zenon DEF KeyProgress
  <2> QED
    BY <2>2, <2>3, <2>4
<1>7. AccessProgress(r)'
  <2>1. AccessProgress(r)
    BY Zenon DEF Progress
  <2>2. /\ acct'.shell = IF s = "shell" THEN ShellOf(x.access) ELSE acct.shell
        /\ acct'.access = IF s = "access" THEN x.access ELSE acct.access
        /\ acct'.password = acct.password
    BY <1>3, Zenon DEF StepUndone, SameBut, KeyIs, Becomes, StepNames, Irreversible
  <2>3. /\ Stands(r, "shell")' <=> Stands(r, "shell") /\ s # "shell"
        /\ Stands(r, "access")' <=> Stands(r, "access") /\ s # "access"
        /\ Stands(r, "password")' <=> Stands(r, "password")
    BY <1>3, Zenon DEF StepNames, Irreversible
  <2>4. acct'.shell \in IF Stands(r, "shell")' THEN {ShellOf(w.mode)} ELSE {x.shell, ShellOf(x.access)}
    BY <1>1, <2>1, <2>2, <2>3, Zenon DEF AccessProgress
  <2>5. acct'.access = IF Stands(r, "access")' THEN w.mode ELSE x.access
    BY <1>1, <2>1, <2>2, <2>3, Zenon DEF AccessProgress
  <2> QED
    BY <1>1, <2>1, <2>2, <2>3, <2>4, <2>5, Zenon DEF AccessProgress
<1>8. DatabaseProgress(r)'
  <2>1. DatabaseProgress(r)
    BY Zenon DEF Progress
  <2> SUFFICES ASSUME NEW d \in Databases
               PROVE  LET z == snap[r].databases[d] y == acct'.databases[d] IN
                        /\ y.row <=> IF Stands(r, "row")' /\ d = w.name THEN Kind(r) = "dbCreate" ELSE z.row
                        /\ Stands(r, "create")' /\ d = w.name => ~z.schema /\ z.login = "none"
                        /\ Stands(r, "create")' /\ d = w.name => y.schema /\ y.login = "new"
                        /\ ~((Stands(r, "create")' \/ Stands(r, "alter")' \/ Stands(r, "drop")') /\ d = w.name) =>
                             y.schema = z.schema /\ y.login = z.login
                        /\ y.credentials <=> IF Stands(r, "credentials")' /\ d = w.name THEN TRUE ELSE z.credentials
    BY <1>1, Zenon DEF DatabaseProgress
  <2> DEFINE z == snap[r].databases[d]
             y == acct'.databases[d]
             v == acct.databases[d]
  <2>2. /\ v.row <=> IF Stands(r, "row") /\ d = w.name THEN Kind(r) = "dbCreate" ELSE z.row
        /\ Stands(r, "create") /\ d = w.name => ~z.schema /\ z.login = "none"
        /\ Stands(r, "create") /\ d = w.name => v.schema /\ v.login = "new"
        /\ ~((Stands(r, "create") \/ Stands(r, "alter") \/ Stands(r, "drop")) /\ d = w.name) =>
             v.schema = z.schema /\ v.login = z.login
        /\ v.credentials <=> IF Stands(r, "credentials") /\ d = w.name THEN TRUE ELSE z.credentials
    BY <2>1, Zenon DEF DatabaseProgress
  <2>3. z \in Database /\ y \in Database /\ v \in Database
    BY <1>2, <1>3, SMT DEF Account, Admitted
  <2>4. \A t \in {"create", "row", "credentials", "alter", "drop"} : Stands(r, t)' <=> Stands(r, t) /\ t # s
    BY <1>3, Zenon DEF StepNames
  <2>5. CASE s \notin {"create", "row", "credentials"} \/ d # w.name
    <3>1. y = v /\ s \notin {"alter", "drop"}
      BY <1>3, <2>5, Zenon DEF StepUndone, SameBut, KeyIs, Becomes, StepNames, Irreversible
    <3> QED
      BY <2>2, <2>4, <2>5, <3>1, Zenon
  <2>6. CASE s = "create" /\ d = w.name
    <3>1. (y.row <=> v.row) /\ ~y.schema /\ y.login = "none" /\ (y.credentials <=> v.credentials)
      BY <1>3, <2>6, Zenon DEF StepUndone, Becomes
    <3>2. ~z.schema /\ z.login = "none"
      BY <1>3, <2>2, <2>6, Zenon
    <3>3. y.schema = z.schema /\ y.login = z.login
      BY <2>3, <3>1, <3>2, SMT DEF Database
    <3> QED
      BY <2>2, <2>4, <2>6, <3>1, <3>3, Zenon
  <2>7. CASE s \in {"row", "credentials"} /\ d = w.name
    <3>1. /\ y.row <=> IF s = "row" THEN Kind(r) = "dbDelete" ELSE v.row
          /\ (y.schema <=> v.schema) /\ y.login = v.login
          /\ y.credentials <=> IF s = "credentials" THEN FALSE ELSE v.credentials
      BY <1>3, <2>7, Zenon DEF StepUndone, Becomes
    <3>2. y.schema = v.schema
      BY <2>3, <3>1, SMT DEF Database
    <3>3. s = "row" => (Kind(r) = "dbDelete" <=> z.row)
      <4>1. s = "row" => Kind(r) \in {"dbCreate", "dbDelete"}
        BY <1>4, SMT DEF Pos
      <4> QED
        BY <1>2, <2>7, <4>1, Zenon DEF Admitted
    <3>4. s = "credentials" => ~z.credentials
      <4>1. s = "credentials" => Kind(r) = "dbCreate" /\ w.credentials
        BY <1>4, SMT DEF Pos
      <4> QED
        BY <1>2, <2>7, <4>1, Zenon DEF Admitted
    <3> QED
      BY <2>2, <2>4, <2>7, <3>1, <3>2, <3>3, <3>4, Zenon
  <2> QED
    BY <2>5, <2>6, <2>7, Zenon
<1> QED
  BY <1>5, <1>6, <1>7, <1>8, Zenon DEF Progress

-----------------------------------------------------------------------------
(* Whoever may write makes every plan that is prepared stale.              *)
LEMMA Outdating ==
  ASSUME Typed, NEW r \in Requests, Operation(r)
  PROVE  /\ stale \subseteq stale'
         /\ r \in stale' <=> r \in stale
         /\ \/ acct' = acct
            \/ \A q \in Requests \ {r} : pc[q] = "ready" => q \in stale'
         /\ \A q \in Requests \ {r} : q \in torn' <=> q \in torn
         /\ \A q \in Requests \ {r} : /\ snap'[q] = snap[q] /\ origin'[q] = origin[q]
                                      /\ saved'[q] = saved[q] /\ newJob'[q] = newJob[q]
<1>1. DataTyped
  BY Kept
<1>2. CASE Prepare(r) \/ Refuse(r) \/ Start(r) \/ Return(r)
  <2>1. acct' = acct /\ stale' = stale /\ torn' = torn
    BY <1>2, Zenon DEF Prepare, Refuse, Start, Return, data
  <2>2. \A q \in Requests \ {r} : /\ snap'[q] = snap[q] /\ origin'[q] = origin[q]
                                  /\ saved'[q] = saved[q] /\ newJob'[q] = newJob[q]
    BY <1>1, <1>2, Zenon DEF Prepare, Refuse, Start, Return, data, DataTyped
  <2> QED
    BY <2>1, <2>2, Zenon
<1>3. CASE Do(r)
  <2>1. Outdate(r) /\ torn' = torn /\ snap' = snap /\ origin' = origin
    BY <1>3, Zenon DEF Do
  <2>2. \A q \in Requests \ {r} : saved'[q] = saved[q] /\ newJob'[q] = newJob[q]
    BY <1>1, <1>3, Zenon DEF Do, DataTyped
  <2> QED
    BY <2>1, <2>2, Zenon DEF Outdate
<1>4. CASE Fail(r)
  <2>1. /\ snap' = snap /\ origin' = origin /\ saved' = saved /\ newJob' = newJob
        /\ \/ acct' = acct /\ stale' = stale /\ torn' = torn
           \/ Outdate(r) /\ torn' = torn \cup {r}
    BY <1>4, Zenon DEF Fail
  <2> QED
    BY <2>1, Zenon DEF Outdate
<1>5. CASE Undo(r) \/ UndoFails(r)
  <2>1. /\ snap' = snap /\ origin' = origin /\ saved' = saved /\ newJob' = newJob /\ torn' = torn
        /\ \/ acct' = acct /\ stale' = stale
           \/ Outdate(r)
    BY <1>5, Zenon DEF Undo, UndoFails
  <2> QED
    BY <2>1, Zenon DEF Outdate
<1> QED
  BY <1>2, <1>3, <1>4, <1>5, Zenon DEF Operation

(* A plan's progress is what it was when nothing of it has moved.          *)
LEMMA ProgressKept ==
  ASSUME Typed, NEW r \in Requests, Progress(r), want' = want, acct' = acct,
         snap'[r] = snap[r], saved'[r] = saved[r], newJob'[r] = newJob[r],
         \A s \in StepNames : Stands(r, s)' <=> Stands(r, s),
         pc'[r] = pc[r] \/ pc'[r] = "undo"
  PROVE  Progress(r)'
<1>1. /\ Kind(r)' = Kind(r) /\ DesiredJobs(r)' = DesiredJobs(r) /\ DesiredKeys(r)' = DesiredKeys(r)
      /\ JobsAfter(r)' = JobsAfter(r)
  BY SameWant, Zenon DEF DesiredJobs, DesiredKeys, JobsAfter
<1>2. /\ Stands(r, "crontab")' <=> Stands(r, "crontab")
      /\ Stands(r, "job")' <=> Stands(r, "job")
      /\ Stands(r, "authorized")' <=> Stands(r, "authorized")
      /\ Stands(r, "key")' <=> Stands(r, "key")
      /\ Stands(r, "shell")' <=> Stands(r, "shell")
      /\ Stands(r, "access")' <=> Stands(r, "access")
      /\ Stands(r, "password")' <=> Stands(r, "password")
      /\ Stands(r, "create")' <=> Stands(r, "create")
      /\ Stands(r, "row")' <=> Stands(r, "row")
      /\ Stands(r, "credentials")' <=> Stands(r, "credentials")
      /\ Stands(r, "alter")' <=> Stands(r, "alter")
      /\ Stands(r, "drop")' <=> Stands(r, "drop")
  BY Zenon DEF StepNames
<1>3. CronProgress(r)'
  <2>1. CronProgress(r)
    BY Zenon DEF Progress
  <2>2. ~Stands(r, "job")' => IF pc'[r] = "do" THEN acct'.jobs = snap'[r].jobs
                              ELSE Crontab(acct'.jobs) = Crontab(snap'[r].jobs)
    BY <1>2, <2>1, Zenon DEF CronProgress
  <2> QED
    BY <1>1, <1>2, <2>1, <2>2, Zenon DEF CronProgress
<1>4. KeyProgress(r)'
  BY <1>1, <1>2, Zenon DEF Progress, KeyProgress
<1>5. AccessProgress(r)'
  <2>1. AccessProgress(r)
    BY Zenon DEF Progress
  <2>2. acct'.shell \in IF Stands(r, "shell")' THEN {ShellOf(want'[r].mode)}
                        ELSE IF pc'[r] = "do" THEN {snap'[r].shell}
                             ELSE {snap'[r].shell, ShellOf(snap'[r].access)}
    BY <1>2, <2>1, Zenon DEF AccessProgress
  <2> QED
    BY <1>2, <2>1, <2>2, Zenon DEF AccessProgress
<1>6. DatabaseProgress(r)'
  <2>1. DatabaseProgress(r)
    BY Zenon DEF Progress
  <2> SUFFICES ASSUME NEW d \in Databases
               PROVE  LET z == snap'[r].databases[d] y == acct'.databases[d] n == want'[r].name IN
                        /\ y.row <=> IF Stands(r, "row")' /\ d = n THEN Kind(r)' = "dbCreate" ELSE z.row
                        /\ Stands(r, "create")' /\ d = n => ~z.schema /\ z.login = "none"
                        /\ Stands(r, "create")' /\ d = n => y.schema /\ y.login = "new"
                        /\ ~((Stands(r, "create")' \/ Stands(r, "alter")' \/ Stands(r, "drop")') /\ d = n) =>
                             y.schema = z.schema /\ y.login = z.login
                        /\ y.credentials <=> IF Stands(r, "credentials")' /\ d = n THEN TRUE ELSE z.credentials
    BY Zenon DEF DatabaseProgress
  <2>2. /\ snap'[r].databases[d] = snap[r].databases[d] /\ acct'.databases[d] = acct.databases[d]
        /\ want'[r].name = want[r].name
    BY Zenon
  <2>3. LET z == snap[r].databases[d] y == acct.databases[d] n == want[r].name IN
          /\ y.row <=> IF Stands(r, "row") /\ d = n THEN Kind(r) = "dbCreate" ELSE z.row
          /\ Stands(r, "create") /\ d = n => ~z.schema /\ z.login = "none"
          /\ Stands(r, "create") /\ d = n => y.schema /\ y.login = "new"
          /\ ~((Stands(r, "create") \/ Stands(r, "alter") \/ Stands(r, "drop")) /\ d = n) =>
               y.schema = z.schema /\ y.login = z.login
          /\ y.credentials <=> IF Stands(r, "credentials") /\ d = n THEN TRUE ELSE z.credentials
    BY <2>1, Zenon DEF DatabaseProgress
  <2> QED
    BY <1>1, <1>2, <2>2, <2>3, SMT
<1> QED
  BY <1>3, <1>4, <1>5, <1>6, Zenon DEF Progress

-----------------------------------------------------------------------------
(* The requests that do not move: prepared ones are stale once somebody    *)
(* writes, and while a plan runs nobody else does.                         *)
LEMMA OthersTracked ==
  ASSUME Typed, NEW r \in Requests, Operation(r), NEW q \in Requests \ {r}, Tracked(q)
  PROVE  Tracked(q)'
<1> SUFFICES ASSUME q \notin stale'
             PROVE  /\ pc'[q] = "ready" => snap'[q] = acct'
                    /\ Running(q)' => origin'[q] = snap'[q]
                    /\ pc'[q] = "do" => Progress(q)'
                    /\ pc'[q] = "undo" /\ q \notin torn' /\ ~dirty'[q] => Progress(q)'
  BY Zenon DEF Tracked
<1>1. want' = want /\ Moves(r)
  BY Zenon DEF Operation, Prepare, Refuse, Start, Do, Fail, Undo, UndoFails, Return, Moves, data
<1>2. pc'[q] = pc[q] /\ at'[q] = at[q] /\ dirty'[q] = dirty[q] /\ (Running(q)' <=> Running(q))
  BY <1>1, ControlMoves, Zenon DEF OthersStay
<1>3. /\ q \notin stale /\ (q \in torn' <=> q \in torn)
      /\ acct' = acct \/ (pc[q] = "ready" => q \in stale')
      /\ snap'[q] = snap[q] /\ origin'[q] = origin[q] /\ saved'[q] = saved[q] /\ newJob'[q] = newJob[q]
  BY Outdating, Zenon
<1>4. /\ pc[q] = "ready" => snap[q] = acct
      /\ Running(q) => origin[q] = snap[q]
      /\ pc[q] = "do" => Progress(q)
      /\ pc[q] = "undo" /\ q \notin torn /\ ~dirty[q] => Progress(q)
  BY <1>3, Zenon DEF Tracked
<1>5. ASSUME Progress(q), Running(q) PROVE Progress(q)'
  <2>1. acct' = acct
    <3>1. lock = q /\ q # NoRequest /\ ~Running(r)
      BY <1>5, Alone, RequestsAssumption, Zenon
    <3>2. Prepare(r) \/ Refuse(r)
      BY <3>1, Zenon DEF Operation, Start, Started, Do, Advanced, Fail, Failed, Undo, Undid, UndoFails, DidNotUndo,
                         Return, Ended, Running
    <3> QED
      BY <3>2, Zenon DEF Prepare, Refuse, data
  <2>2. \A s \in StepNames : Stands(q, s)' <=> Stands(q, s)
    BY <1>1, <1>2, SameWant, Zenon DEF Stands
  <2> QED
    BY <1>1, <1>2, <1>3, <1>5, <2>1, <2>2, ProgressKept, Zenon
<1> QED
  BY <1>2, <1>3, <1>4, <1>5, Zenon DEF Running

(* The request that moves.                                                 *)
LEMMA MoverTracked ==
  ASSUME Typed, Typed', NEW r \in Requests, Operation(r), Tracked(r)
  PROVE  Tracked(r)'
<1> SUFFICES ASSUME r \notin stale'
             PROVE  /\ pc'[r] = "ready" => snap'[r] = acct'
                    /\ Running(r)' => origin'[r] = snap'[r]
                    /\ pc'[r] = "do" => Progress(r)'
                    /\ pc'[r] = "undo" /\ r \notin torn' /\ ~dirty'[r] => Progress(r)'
  BY Zenon DEF Tracked
<1>1. r \notin stale
  BY Outdating, Zenon
<1>2. /\ pc[r] = "ready" => snap[r] = acct
      /\ Running(r) => origin[r] = snap[r]
      /\ pc[r] = "do" => Progress(r)
      /\ pc[r] = "undo" /\ r \notin torn /\ ~dirty[r] => Progress(r)
  BY <1>1, Zenon DEF Tracked
<1>3. /\ pc \in [Requests -> PCs] /\ at \in [Requests -> 0..5] /\ dirty \in [Requests -> BOOLEAN] /\ DataTyped
      /\ Placed(r) /\ Placed(r)'
  BY Kept, Zenon DEF Typed, TypeOK, ControlTyped
<1>4. CASE Prepare(r)
  <2>1. pc'[r] = "ready" /\ snap'[r] = acct /\ acct' = acct
    BY <1>3, <1>4, Zenon DEF Prepare, Prepared, Goto, DataTyped
  <2> QED
    BY <2>1, Zenon DEF Running
<1>5. CASE Refuse(r)
  <2>1. pc'[r] = "refused"
    BY <1>3, <1>5, Zenon DEF Refuse, Refused, Goto
  <2> QED
    BY <2>1, Zenon DEF Running
<1>6. CASE Start(r)
  <2>1. /\ pc[r] = "ready" /\ pc'[r] = "do" /\ at'[r] = at[r] /\ at[r] = 1 /\ acct' = acct
        /\ snap' = snap /\ origin'[r] = acct
    BY <1>3, <1>6, Zenon DEF Start, Started, Goto, DataTyped, Placed
  <2>2. \A s \in StepNames : ~Stands(r, s)'
    <3>1. \A s \in StepNames : Pos(r, s)' \in Nat
      <4>1. want' = want /\ \A s \in StepNames : Pos(r, s) \in Nat
        BY <1>6, StepPlaces, SMT DEF Typed, Start
      <4> QED
        BY <4>1, SameWant, Zenon
    <3> QED
      BY <2>1, <3>1, SMT DEF Stands
  <2>3. Progress(r)'
    <3>1. /\ ~Stands(r, "crontab")' /\ ~Stands(r, "job")' /\ ~Stands(r, "authorized")' /\ ~Stands(r, "key")'
          /\ ~Stands(r, "shell")' /\ ~Stands(r, "access")' /\ ~Stands(r, "password")' /\ ~Stands(r, "create")'
          /\ ~Stands(r, "row")' /\ ~Stands(r, "credentials")' /\ ~Stands(r, "alter")' /\ ~Stands(r, "drop")'
      BY <2>2, Zenon DEF StepNames
    <3>2. snap'[r] = acct'
      BY <1>2, <2>1, Zenon
    <3>3. CronProgress(r)' /\ KeyProgress(r)'
      BY <2>1, <3>1, <3>2, Zenon DEF CronProgress, KeyProgress
    <3>4. AccessProgress(r)'
      BY <2>1, <3>1, <3>2, Zenon DEF AccessProgress
    <3>5. DatabaseProgress(r)'
      BY <3>1, <3>2, Zenon DEF DatabaseProgress
    <3> QED
      BY <3>3, <3>4, <3>5, Zenon DEF Progress
  <2> QED
    BY <1>2, <2>1, <2>3, Zenon
<1>7. CASE Do(r)
  <2>1. pc[r] = "do" /\ pc' = pc /\ snap' = snap /\ origin' = origin
    BY <1>7, Zenon DEF Do, Advanced
  <2> QED
    BY <1>2, <1>7, <2>1, DoProgress, Zenon DEF Running
<1>8. CASE Fail(r)
  <2>1. /\ pc[r] = "do" /\ pc'[r] = "undo" /\ snap' = snap /\ origin' = origin /\ want' = want
        /\ saved' = saved /\ newJob' = newJob
        /\ acct' = acct \/ r \in torn'
    BY <1>3, <1>8, Zenon DEF Fail, Failed, Goto
  <2>2. acct' = acct => Progress(r)'
    BY <1>2, <1>8, <2>1, Standing, ProgressKept, Zenon
  <2> QED
    BY <1>2, <2>1, <2>2, Zenon DEF Running
<1>9. CASE Undo(r)
  <2>1. pc[r] = "undo" /\ pc' = pc /\ dirty' = dirty /\ torn' = torn /\ snap' = snap /\ origin' = origin
    BY <1>9, Zenon DEF Undo, Undid
  <2> QED
    BY <1>2, <1>9, <2>1, UndoProgress, Zenon DEF Running
<1>10. CASE UndoFails(r)
  <2>1. pc[r] = "undo" /\ pc' = pc /\ dirty'[r] = TRUE /\ snap' = snap /\ origin' = origin
    BY <1>3, <1>10, Zenon DEF UndoFails, DidNotUndo
  <2> QED
    BY <1>2, <2>1, Zenon DEF Running
<1>11. CASE Return(r)
  <2>1. pc'[r] \in Verdicts
    BY <1>3, <1>11, SMT DEF Return, Ended, Goto, Verdict, Verdicts
  <2> QED
    BY <2>1, Zenon DEF Running, Verdicts
<1> QED
  BY <1>4, <1>5, <1>6, <1>7, <1>8, <1>9, <1>10, <1>11, Zenon DEF Operation

(***************************************************************************)
(* With every step done or none, and no stale operation, the shell is that *)
(* of the recorded mode.                                                   *)
(***************************************************************************)
LEMMA ShellFollows ==
  ASSUME Typed, NEW r \in Requests, Running(r), AccessProgress(r), snap[r].shell = ShellOf(snap[r].access),
         \/ \A s \in StepNames : ~Stands(r, s)
         \/ \A s \in StepNames : Stands(r, s) <=> Pos(r, s) > 0
  PROVE  acct.shell = ShellOf(acct.access)
<1>1. (Pos(r, "shell") > 0) <=> (Pos(r, "access") > 0)
  BY SMT DEF Pos
<1>2. Stands(r, "shell") <=> Stands(r, "access")
  BY <1>1, Zenon DEF StepNames
<1>3. CASE Stands(r, "shell")
  BY <1>2, <1>3, Zenon DEF AccessProgress
<1>4. CASE ~Stands(r, "shell")
  <2>1. acct.shell \in {snap[r].shell, ShellOf(snap[r].access)} /\ acct.access = snap[r].access
    BY <1>2, <1>4, Zenon DEF AccessProgress
  <2> QED
    BY <2>1, Zenon
<1> QED
  BY <1>3, <1>4

LEMMA TrackStep ==
  ASSUME TrackInv, [Next]_vars
  PROVE  TrackInv'
<1>1. Typed /\ Typed' /\ ModeInv /\ \A r \in Requests : Tracked(r)
  BY TypedStep, Zenon DEF TrackInv
<1>2. CASE UNCHANGED vars
  <2>1. UNCHANGED <<lock, pc, at, dirty, acct, nextId, want, snap, saved, newJob, stale, torn, origin>>
    BY <1>2, Zenon DEF vars, control, data
  <2>2. ModeInv'
    BY <1>1, <2>1, Zenon DEF ModeInv, Undamaged, Running
  <2>3. ASSUME NEW r \in Requests PROVE Tracked(r)'
    <3>1. \A s \in StepNames : Stands(r, s)' <=> Stands(r, s)
      BY <2>1, SameWant, Zenon DEF Stands
    <3>2. Progress(r) => Progress(r)'
      BY <1>1, <2>1, <3>1, ProgressKept, Zenon
    <3>3. Running(r)' <=> Running(r)
      BY <2>1, Zenon DEF Running
    <3> QED
      BY <1>1, <2>1, <3>2, <3>3, Zenon DEF Tracked
  <2> QED
    BY <1>1, <2>2, <2>3, Zenon DEF TrackInv
<1>3. ASSUME NEW r \in Requests, Operation(r) PROVE TrackInv'
  <2>1. \A q \in Requests : Tracked(q)'
    BY <1>1, <1>3, OthersTracked, MoverTracked, Zenon
  <2>2. ModeInv'
    <3> SUFFICES ASSUME Undamaged', stale' = {}
                 PROVE  /\ lock' = NoRequest => acct'.shell = ShellOf(acct'.access)
                        /\ \A q \in Requests : Running(q)' => snap'[q].shell = ShellOf(snap'[q].access)
      BY Zenon DEF ModeInv
    <3>1. /\ Undamaged
          /\ Return(r) => \/ pc[r] = "do" /\ at[r] > Len(Steps(r))
                          \/ pc[r] = "undo" /\ at[r] = 0 /\ ~dirty[r]
      BY <1>1, <1>3, Damage
    <3>2. stale = {}
      BY <1>1, <1>3, Outdating, Zenon
    <3>3. /\ lock = NoRequest => acct.shell = ShellOf(acct.access)
          /\ \A q \in Requests : Running(q) => snap[q].shell = ShellOf(snap[q].access)
      BY <1>1, <3>1, <3>2, Zenon DEF ModeInv
    <3>4. want' = want /\ Moves(r) /\ r # NoRequest
      BY <1>3, RequestsAssumption, Zenon
         DEF Operation, Prepare, Refuse, Start, Do, Fail, Undo, UndoFails, Return, Moves, data
    <3>5. \A q \in Requests \ {r} : (Running(q)' <=> Running(q)) /\ snap'[q] = snap[q]
      BY <1>1, <1>3, <3>4, ControlMoves, Outdating, Zenon DEF OthersStay
    <3>6. pc \in [Requests -> PCs] /\ Placed(r)
      BY <1>1, Zenon DEF Typed, TypeOK, ControlTyped
    <3>7. CASE Prepare(r) \/ Refuse(r)
      <4>1. lock' = lock /\ acct' = acct /\ ~Running(r)'
        BY <3>6, <3>7, SMT DEF Prepare, Prepared, Refuse, Refused, Goto, data, Running
      <4> QED
        BY <3>3, <3>5, <4>1, Zenon
    <3>8. CASE Start(r)
      <4>1. /\ lock = NoRequest /\ lock' = r /\ pc[r] = "ready" /\ snap' = snap
        BY <3>8, Zenon DEF Start, Started
      <4>2. snap[r] = acct
        BY <1>1, <3>2, <4>1, Zenon DEF Tracked
      <4> QED
        BY <3>3, <3>4, <3>5, <4>1, <4>2, Zenon
    <3>9. CASE Do(r) \/ Fail(r) \/ Undo(r) \/ UndoFails(r)
      <4>1. lock' = lock /\ Running(r) /\ snap' = snap
        BY <3>9, Zenon DEF Do, Advanced, Fail, Failed, Undo, Undid, UndoFails, DidNotUndo, Running
      <4>2. lock' # NoRequest
        BY <3>4, <3>6, <4>1, Zenon DEF Placed
      <4> QED
        BY <3>3, <3>5, <4>1, <4>2, Zenon
    <3>10. CASE Return(r)
      <4>1. Running(r) /\ acct' = acct
        BY <3>6, <3>10, Zenon DEF Return, Ended, Placed
      <4>2. ~Running(r)'
        <5>1. lock' = NoRequest
          BY <3>10, Zenon DEF Return, Ended
        <5> QED
          BY <1>1, <3>4, <5>1, Zenon DEF Typed, Placed
      <4>3. AccessProgress(r)
        <5>1. r \notin torn /\ r \notin stale
          BY <3>1, <3>2, Zenon DEF Undamaged
        <5> QED
          BY <1>1, <3>1, <3>10, <5>1, Zenon DEF Tracked, Progress
      <4>4. acct.shell = ShellOf(acct.access)
        BY <1>1, <3>1, <3>3, <3>10, <4>1, <4>3, Standing, ShellFollows, Zenon
      <4> QED
        BY <3>3, <3>5, <4>1, <4>2, <4>4, Zenon
    <3> QED
      BY <1>3, <3>7, <3>8, <3>9, <3>10, Zenon DEF Operation
  <2> QED
    BY <1>1, <2>1, <2>2, Zenon DEF TrackInv
<1> QED
  BY <1>2, <1>3, Zenon DEF Next

LEMMA TrackStart == ASSUME Init PROVE TrackInv
<1>1. \A r \in Requests : pc[r] = "new"
  BY Zenon DEF Init, ControlInit
<1>2. \A r \in Requests : Tracked(r) /\ ~Running(r)
  BY <1>1, Zenon DEF Tracked, Running
<1>3. acct.shell = ShellOf(acct.access)
  BY BeforeAssumption, Zenon DEF Init
<1> QED
  BY <1>2, <1>3, TypedInit, Zenon DEF TrackInv, ModeInv

(***************************************************************************)
(* What the plan has written is what the rows say: the commands of a set   *)
(* of jobs with one more, and the keys that are listed.                    *)
(***************************************************************************)
LEMMA CronAgrees ==
  ASSUME NEW r \in Requests, Kind(r) \in CronKinds
  PROVE  Crontab(JobsAfter(r)) = DesiredJobs(r)
<1>1. \A jobs, j, now : now = jobs \cup {j} => Crontab(now) = Crontab(jobs) \cup {j.command}
  BY SMT DEF Crontab
<1> DEFINE w == want[r]
           others == {j \in snap[r].jobs : j.id # w.id}
<1>2. CASE Kind(r) = "cronAdd"
  <2> DEFINE new == [id |-> newJob[r], command |-> w.command]
  <2>1. JobsAfter(r) = snap[r].jobs \cup {new} /\ DesiredJobs(r) = Crontab(snap[r].jobs) \cup {w.command}
    BY <1>2, Zenon DEF JobsAfter, DesiredJobs, Kind
  <2>2. new.command = w.command
    BY SMT
  <2> HIDE DEF new
  <2>3. Crontab(JobsAfter(r)) = Crontab(snap[r].jobs) \cup {new.command}
    BY <1>1, <2>1
  <2> QED
    BY <2>1, <2>2, <2>3, Zenon
<1>3. CASE Kind(r) = "cronUpdate"
  <2> DEFINE new == [id |-> w.id, command |-> w.command]
  <2>1. JobsAfter(r) = others \cup {new} /\ DesiredJobs(r) = Crontab(others) \cup {w.command}
    BY <1>3, Zenon DEF JobsAfter, DesiredJobs, Kind
  <2>2. new.command = w.command
    BY SMT
  <2> HIDE DEF new, others
  <2>3. Crontab(JobsAfter(r)) = Crontab(others) \cup {new.command}
    BY <1>1, <2>1
  <2> QED
    BY <2>1, <2>2, <2>3, Zenon
<1>4. CASE Kind(r) = "cronRemove"
  BY <1>4, Zenon DEF JobsAfter, DesiredJobs, Kind
<1> QED
  BY <1>2, <1>3, <1>4, Zenon DEF CronKinds

LEMMA KeysAgree ==
  ASSUME Typed, NEW r \in Requests, KeyProgress(r), Kind(r) \in KeyKinds \cup {"setAccess"},
         \A s \in StepNames : Stands(r, s) <=> Pos(r, s) > 0
  PROVE  /\ Kind(r) \in KeyKinds => DesiredKeys(r) = Listed(acct)
         /\ Kind(r) = "setAccess" => DesiredKeys(r) = IF UsesKeys(want[r].mode) THEN Listed(acct) ELSE {}
<1> DEFINE k0 == want[r].key
<1>1. CASE Kind(r) \in KeyKinds
  <2>1. Stands(r, "key") /\ k0 \in Keys
    <3>1. Pos(r, "key") > 0
      BY <1>1, SMT DEF Pos
    <3> QED
      BY <1>1, <3>1, Wanted, Zenon DEF StepNames, Typed
  <2>2. \A k \in Keys : acct.keys[k] = IF k = k0 THEN IF Kind(r) = "keyAdd" THEN 1 ELSE 0 ELSE snap[r].keys[k]
    BY <2>1, Zenon DEF KeyProgress
  <2>3. CASE Kind(r) = "keyAdd"
    <3>1. DesiredKeys(r) = Listed(snap[r]) \cup {k0}
      BY <2>3, Zenon DEF DesiredKeys, Kind
    <3> QED
      BY <2>1, <2>2, <2>3, <3>1, SMT DEF Listed, KeyKinds
  <2>4. CASE Kind(r) = "keyRemove"
    <3>1. DesiredKeys(r) = Listed(snap[r]) \ {k0}
      BY <2>4, Zenon DEF DesiredKeys, Kind
    <3> QED
      BY <2>1, <2>2, <2>4, <3>1, SMT DEF Listed, KeyKinds
  <2> QED
    BY <1>1, <2>3, <2>4, Zenon DEF KeyKinds
<1>2. CASE Kind(r) = "setAccess"
  <2>1. ~Stands(r, "key") /\ Kind(r) \notin KeyKinds
    <3>1. Pos(r, "key") = 0 /\ Kind(r) \notin KeyKinds
      BY <1>2, SMT DEF Pos, KeyKinds
    <3> QED
      BY <3>1, SMT DEF StepNames
  <2>2. \A k \in Keys : acct.keys[k] = snap[r].keys[k]
    BY <2>1, Zenon DEF KeyProgress
  <2>3. Listed(acct) = Listed(snap[r])
    BY <2>2, Zenon DEF Listed
  <2> QED
    BY <1>2, <2>1, <2>3, Zenon DEF DesiredKeys, Kind
<1> QED
  BY <1>1, <1>2, Zenon

(* A plan that is not stale and has done all its steps.                    *)
LEMMA DoneIsRecorded ==
  ASSUME TrackInv, NEW r \in Requests \ stale, pc[r] = "do", at[r] > Len(Steps(r))
  PROVE  /\ Kind(r) \in CronKinds => acct.crontab = Crontab(acct.jobs)
         /\ Kind(r) \in KeyKinds => acct.authorized = Listed(acct)
         /\ Kind(r) = "setAccess" =>
              /\ acct.access = want[r].mode /\ acct.shell = ShellOf(want[r].mode)
              /\ acct.authorized = IF UsesKeys(want[r].mode) THEN Listed(acct) ELSE {}
              /\ (acct.password = "locked") = ~UsesPassword(want[r].mode)
<1>1. Typed /\ Progress(r) /\ \A s \in StepNames : Stands(r, s) <=> Pos(r, s) > 0
  BY Standing, Zenon DEF TrackInv, Tracked
<1>2. ASSUME Kind(r) \in CronKinds PROVE acct.crontab = Crontab(acct.jobs)
  <2>1. Stands(r, "crontab") /\ Stands(r, "job")
    <3>1. Pos(r, "crontab") > 0 /\ Pos(r, "job") > 0
      BY <1>2, SMT DEF Pos
    <3> QED
      BY <1>1, <3>1, Zenon DEF StepNames
  <2>2. acct.crontab = DesiredJobs(r) /\ acct.jobs = JobsAfter(r)
    BY <1>1, <2>1, Zenon DEF Progress, CronProgress
  <2> QED
    BY <1>2, <2>2, CronAgrees, Zenon
<1>3. ASSUME Kind(r) \in KeyKinds \cup {"setAccess"}
      PROVE  acct.authorized = DesiredKeys(r)
  <2>1. Stands(r, "authorized")
    <3>1. Pos(r, "authorized") > 0
      BY <1>3, SMT DEF Pos
    <3> QED
      BY <1>1, <3>1, Zenon DEF StepNames
  <2> QED
    BY <1>1, <2>1, Zenon DEF Progress, KeyProgress
<1>4. ASSUME Kind(r) = "setAccess"
      PROVE  /\ acct.access = want[r].mode /\ acct.shell = ShellOf(want[r].mode)
             /\ (acct.password = "locked") = ~UsesPassword(want[r].mode)
  <2>1. Stands(r, "shell") /\ Stands(r, "access") /\ Stands(r, "password")
    <3>1. Pos(r, "shell") > 0 /\ Pos(r, "access") > 0 /\ Pos(r, "password") > 0
      BY <1>4, SMT DEF Pos
    <3> QED
      BY <1>1, <3>1, Zenon DEF StepNames
  <2>2. /\ acct.access = want[r].mode /\ acct.shell = ShellOf(want[r].mode)
        /\ acct.password = IF UsesPassword(want[r].mode) THEN "new" ELSE "locked"
    BY <1>1, <2>1, Zenon DEF Progress, AccessProgress
  <2> QED
    BY <2>2, SMT DEF UsesPassword
<1> QED
  BY <1>1, <1>2, <1>3, <1>4, KeysAgree, Zenon DEF Progress

(* A plan that is not stale and has taken back all its steps.              *)
LEMMA BackIsBefore ==
  ASSUME TrackInv, NEW r \in Requests, stale = {}, Undamaged, pc[r] = "undo", at[r] = 0, ~dirty[r]
  PROVE  /\ [acct EXCEPT !.jobs = {}] = [origin[r] EXCEPT !.jobs = {}]
         /\ Crontab(acct.jobs) = Crontab(origin[r].jobs)
<1> DEFINE x == snap[r]
<1>1. /\ Typed /\ Progress(r) /\ origin[r] = x /\ x.shell = ShellOf(x.access) /\ Admitted(r) /\ acct \in Account
      /\ \A s \in StepNames : ~Stands(r, s)
  BY Standing, Zenon DEF TrackInv, Tracked, ModeInv, Undamaged, Running, Typed, TypeOK, Read
<1>2. /\ ~Stands(r, "crontab") /\ ~Stands(r, "job") /\ ~Stands(r, "authorized") /\ ~Stands(r, "key")
      /\ ~Stands(r, "shell") /\ ~Stands(r, "access") /\ ~Stands(r, "password") /\ ~Stands(r, "create")
      /\ ~Stands(r, "row") /\ ~Stands(r, "credentials") /\ ~Stands(r, "alter") /\ ~Stands(r, "drop")
  BY <1>1, Zenon DEF StepNames
<1>3. acct.crontab = x.crontab /\ Crontab(acct.jobs) = Crontab(x.jobs)
  BY <1>1, <1>2, Zenon DEF Progress, CronProgress
<1>4. acct.authorized = x.authorized /\ \A k \in Keys : acct.keys[k] = x.keys[k]
  BY <1>1, <1>2, Zenon DEF Progress, KeyProgress
<1>5. acct.access = x.access /\ acct.password = x.password /\ acct.shell = x.shell
  <2>1. AccessProgress(r)
    BY <1>1, Zenon DEF Progress
  <2>2. acct.access = x.access /\ acct.password = x.password /\ acct.shell \in {x.shell, ShellOf(x.access)}
    BY <1>2, <2>1, Zenon DEF AccessProgress
  <2> QED
    BY <1>1, <2>2, Zenon
<1>6. \A d \in Databases : acct.databases[d] = x.databases[d]
  <2> SUFFICES ASSUME NEW d \in Databases PROVE acct.databases[d] = x.databases[d]
    OBVIOUS
  <2> DEFINE y == acct.databases[d]
             z == x.databases[d]
  <2>1. y \in Database /\ z \in Database
    BY <1>1, SMT DEF Account, Admitted
  <2>2. (y.row <=> z.row) /\ y.schema = z.schema /\ y.login = z.login /\ (y.credentials <=> z.credentials)
    BY <1>1, <1>2, Zenon DEF Progress, DatabaseProgress
  <2> HIDE DEF y, z
  <2>3. y = z
    BY <2>1, <2>2, SMT DEF Database
  <2> QED
    BY <2>3, Zenon DEF y, z
<1>7. x \in Account
  BY <1>1, Zenon DEF Admitted
<1> HIDE DEF x
<1>8. acct.keys = x.keys /\ acct.databases = x.databases
  <2>1. /\ acct.keys \in KeyCounts /\ x.keys \in KeyCounts
        /\ acct.databases \in [Databases -> Database] /\ x.databases \in [Databases -> Database]
    BY <1>1, <1>7, SMT DEF Account, KeyCounts
  <2>2. acct.keys = x.keys
    BY <1>4, <2>1, SMT DEF KeyCounts
  <2>3. acct.databases = x.databases
    BY <1>6, <2>1, SMT
  <2> QED
    BY <2>2, <2>3
<1>9. [acct EXCEPT !.jobs = {}] = [x EXCEPT !.jobs = {}]
  BY <1>1, <1>3, <1>4, <1>5, <1>7, <1>8, SMTT(30) DEF Account
<1> QED
  BY <1>1, <1>3, <1>9, Zenon DEF x

(* A plan returns by its own move, with the verdict it has earned.         *)
LEMMA Returned ==
  ASSUME Typed, Next, NEW r \in Requests, pc'[r] # pc[r], pc'[r] \in {"done", "rolled_back"}
  PROVE  /\ pc'[r] = "done" => pc[r] = "do" /\ at[r] > Len(Steps(r))
         /\ pc'[r] = "rolled_back" => pc[r] = "undo" /\ at[r] = 0 /\ ~dirty[r]
<1>1. PICK q \in Requests : Operation(q)
  BY Zenon DEF Next
<1>2. want' = want /\ Moves(q)
  BY <1>1, Zenon DEF Operation, Prepare, Refuse, Start, Do, Fail, Undo, UndoFails, Return, Moves, data
<1>3. q = r
  BY <1>2, ControlMoves, Zenon DEF OthersStay
<1>4. pc \in [Requests -> PCs]
  BY Zenon DEF Typed, TypeOK, ControlTyped
<1> QED
  BY <1>2, <1>3, <1>4, SMT DEF Moves, Prepared, Refused, Started, Advanced, Failed, Undid, DidNotUndo, Ended, Goto, Verdict

(***************************************************************************)
(* An operation that returns done, and was not stale, leaves crontab,      *)
(* authorized_keys, access mode, shell and password as the rows say,       *)
(* whatever earlier operations had left of them.                           *)
(***************************************************************************)
THEOREM DoneLeavesTheRecorded == Spec => DoneAgrees
<1> DEFINE Agrees(r) ==
  /\ Kind(r) \in CronKinds => acct.crontab = Crontab(acct.jobs)
  /\ Kind(r) \in KeyKinds => acct.authorized = Listed(acct)
  /\ Kind(r) = "setAccess" =>
       /\ acct.access = want[r].mode /\ acct.shell = ShellOf(want[r].mode)
       /\ acct.authorized = IF UsesKeys(want[r].mode) THEN Listed(acct) ELSE {}
       /\ (acct.password = "locked") = ~UsesPassword(want[r].mode)
<1> DEFINE Step == \A r \in Requests \ stale : pc[r] = "do" /\ pc'[r] = "done" => Agrees(r)
<1>1. TrackInv /\ [Next]_vars => TrackInv'
  BY TrackStep
<1>2. TrackInv /\ [Next]_vars => [Step]_vars
  <2> SUFFICES ASSUME TrackInv, Next, NEW r \in Requests \ stale, pc[r] = "do", pc'[r] = "done"
               PROVE  Agrees(r)
    BY Zenon
  <2>1. at[r] > Len(Steps(r))
    BY Returned, Zenon DEF TrackInv
  <2> QED
    BY <2>1, DoneIsRecorded, Zenon
<1>3. DoneAgrees <=> [][Step]_vars
  BY DEF DoneAgrees
<1> HIDE DEF Step
<1> QED
  BY <1>1, <1>2, <1>3, TrackStart, PTL DEF Spec

(***************************************************************************)
(* As long as no operation was stale, one that is reported rolled_back has *)
(* left everything as it was when it started, up to the ids of cron jobs.  *)
(***************************************************************************)
THEOREM RolledBackIsBefore == Spec => RolledBackRestores
<1> DEFINE Back(r) ==
  /\ [acct EXCEPT !.jobs = {}] = [origin[r] EXCEPT !.jobs = {}]
  /\ {j.command : j \in acct.jobs} = {j.command : j \in origin[r].jobs}
<1> DEFINE Step == \A r \in Requests : pc[r] = "undo" /\ pc'[r] = "rolled_back" /\ Undamaged /\ stale = {} => Back(r)
<1>1. TrackInv /\ [Next]_vars => TrackInv'
  BY TrackStep
<1>2. TrackInv /\ [Next]_vars => [Step]_vars
  <2> SUFFICES ASSUME TrackInv, Next, NEW r \in Requests, pc[r] = "undo", pc'[r] = "rolled_back",
                      Undamaged, stale = {}
               PROVE  Back(r)
    BY Zenon
  <2>1. at[r] = 0 /\ ~dirty[r]
    BY Returned, Zenon DEF TrackInv
  <2> QED
    BY <2>1, BackIsBefore, Zenon DEF Crontab
<1>3. RolledBackRestores <=> [][Step]_vars
  BY DEF RolledBackRestores
<1> HIDE DEF Step
<1> QED
  BY <1>1, <1>2, <1>3, TrackStart, PTL DEF Spec
=============================================================================
