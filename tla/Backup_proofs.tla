--------------------------- MODULE Backup_proofs ---------------------------
(***************************************************************************)
(* The properties of module Backup and of the plans of Subscription that   *)
(* it runs, for any names, UIDs, requests and archives and any hosts to    *)
(* start from that SubscriptionAssumption admits.                          *)
(***************************************************************************)
EXTENDS Backup, FiniteSetTheorems, WellFoundedInduction, TLAPS

Makers == {"create", "adopt", "restore"}
Movers == {"status", "quota"}
Kinds == Makers \cup Movers \cup {"database", "delete"}

(***************************************************************************)
(* The place of each step in the plans that have it, 0 in the others.      *)
(***************************************************************************)
StepNames ==
  Drops \cup {"dropVHost", "user", "logs", "home", "record", "lock", "schema", "database", "status", "quota",
              "archive", "webLogs", "pool", "transfer", "chown", "vhost", "website", "commit", "certificate",
              "renewal", "verify", "staging", "promote", "runtime", "import", "crontab", "jobs"}

Place(condition, place) == IF condition THEN place ELSE 0

CreatePos(s) ==
  CASE s = "user" -> 1 [] s = "logs" -> 2 [] s = "home" -> 3 [] s = "record" -> 4 [] s = "lock" -> 5
    [] OTHER -> 0

AdoptPos(h, s) ==
  CASE s = "archive" -> 1 [] s = "user" -> 2 [] s = "logs" -> 3 [] s = "home" -> 4 [] s = "webLogs" -> 5
    [] s = "pool" -> 6 [] s = "transfer" -> 7 [] s = "chown" -> 8 [] s = "vhost" -> 9
    [] s = "record" -> 10 [] s = "website" -> 11
    [] s = "commit" -> Place(HasRenewal(h), 12) [] s = "certificate" -> Place(HasRenewal(h), 13)
    [] s = "renewal" -> Place(HasRenewal(h), 14) [] s = "verify" -> Place(HasRenewal(h), 15)
    [] OTHER -> 0
AdoptLast(h) == 11 + Place(HasRenewal(h), 4)

RestorePos(h, s) ==
  LET d == Place(h.db # 0, 3) w == Place(h.web # 0, 3) IN
  CASE s = "staging" -> 1 [] s = "user" -> 2 [] s = "promote" -> 3 [] s = "chown" -> 4
    [] s = "runtime" -> 5 [] s = "record" -> 6
    [] s = "schema" -> Place(h.db # 0, 7) [] s = "import" -> Place(h.db # 0, 8)
    [] s = "database" -> Place(h.db # 0, 9)
    [] s = "pool" -> Place(h.web # 0, d + 7) [] s = "vhost" -> Place(h.web # 0, d + 8)
    [] s = "website" -> Place(h.web # 0, d + 9)
    [] s = "crontab" -> Place(h.jobs # 0, d + w + 7) [] s = "jobs" -> Place(h.jobs # 0, d + w + 8)
    [] OTHER -> 0
RestoreLast(h) == 6 + Place(h.db # 0, 3) + Place(h.web # 0, 3) + Place(h.jobs # 0, 2)

DeletePos(h, s) ==
  LET w == Place(h.web # 0, 2) d == w + Place(h.db # 0, 2)
      l == d + Place(h.cert # 0 /\ h.lineage = "managed", 1) p == l + 1 + Place(h.web # 0, 1) IN
  CASE s = "dropVHost" -> Place(h.web # 0, 1) [] s = "dropWebsite" -> Place(h.web # 0, 2)
    [] s = "dropSchema" -> Place(h.db # 0, w + 1) [] s = "dropDatabase" -> Place(h.db # 0, w + 2)
    [] s = "dropLineage" -> Place(h.cert # 0 /\ h.lineage = "managed", d + 1)
    [] s = "dropCertificates" -> l + 1
    [] s = "dropPool" -> Place(h.web # 0, l + 2)
    [] s = "dropHome" -> p + 1 [] s = "dropUser" -> p + 2 [] s = "dropRow" -> p + 3
    [] OTHER -> 0
DeleteLast(h) ==
  4 + Place(h.web # 0, 3) + Place(h.db # 0, 2) + Place(h.cert # 0 /\ h.lineage = "managed", 1)

Pos(r, s) ==
  CASE Kind(r) = "create" -> CreatePos(s)
    [] Kind(r) = "database" -> IF s = "schema" THEN 1 ELSE IF s = "database" THEN 2 ELSE 0
    [] Kind(r) \in Movers -> Place(s = Kind(r), 1)
    [] Kind(r) = "adopt" -> AdoptPos(snap[r], s)
    [] Kind(r) = "restore" -> RestorePos(snap[r], s)
    [] Kind(r) = "delete" -> DeletePos(snap[r], s)
Last(r) ==
  CASE Kind(r) = "create" -> 5
    [] Kind(r) = "database" -> 2
    [] Kind(r) \in Movers -> 1
    [] Kind(r) = "adopt" -> AdoptLast(snap[r])
    [] Kind(r) = "restore" -> RestoreLast(snap[r])
    [] Kind(r) = "delete" -> DeleteLast(snap[r])

(* A step that has been done, and not been undone.                         *)
Running(r) == pc[r] \in {"do", "undo"}
Stands(r, s) == 0 < Pos(r, s) /\ Pos(r, s) <= IF pc[r] = "do" THEN at[r] - 1 ELSE at[r]

-----------------------------------------------------------------------------
Placed(r) ==
  /\ lock = r <=> Running(r)
  /\ pc[r] \in {"new", "ready"} => at[r] = 1 /\ ~dirty[r]
  /\ pc[r] = "do" => at[r] \in 1..Last(r) + 1 /\ ~dirty[r]
  /\ pc[r] = "undo" => at[r] \in 0..Last(r)

(* The rows of a name belong to its subscription, also when it is damaged. *)
Refers(h) ==
  IF h.row = NoRow THEN {h.web, h.db, h.cert, h.jobs} = {0}
  ELSE {h.web, h.db, h.cert, h.jobs} \subseteq {0, h.row.id}

(* What the preparation has read, the UID it chose, what the start found.  *)
Read(r) ==
  /\ pc[r] \in {"ready", "do", "undo"} =>
       /\ snap[r] \in Host
       /\ Kind(r) \in Makers => uid[r] \in Uids
       /\ Kind(r) \in Movers \cup {"database", "delete"} => snap[r].row \in Row
       /\ Kind(r) = "restore" => want[r].from \in sealed /\ snap[r] = archive[want[r].from]
       /\ Kind(r) = "delete" /\ want[r].after \in Backups => want[r].after \in sealed
  /\ Running(r) => found[r] \in Host /\ Refers(found[r])

(* What the effects of the next steps rest on, whatever has failed.        *)
Grounded(r) ==
  LET h == host[Name(r)] IN
  Running(r) =>
    /\ Stands(r, "home") \/ Stands(r, "promote") => h.home \in Home
    /\ Stands(r, "status") \/ Stands(r, "quota") => h.row \in Row
    /\ Stands(r, "record") /\ pc[r] = "do" => h.row \in Row

-----------------------------------------------------------------------------
(* What the steps that stand have made of each part of the host that the   *)
(* plan found, as long as every undo has done its work.                    *)
UserTrace(r) ==
  LET h == host[Name(r)] was == found[r] IN
  /\ h.user = IF Stands(r, "user") THEN uid[r] ELSE IF Stands(r, "dropUser") THEN 0 ELSE was.user
  /\ Stands(r, "user") => was.user = 0

RowTrace(r) ==
  LET h == host[Name(r)] was == found[r] IN
  /\ Stands(r, "record") =>
       /\ h.row \in Row /\ h.row.uid = uid[r] /\ was.row = NoRow
       /\ Kind(r) = "restore" => h.row.quota = snap[r].row.quota
  /\ Stands(r, "dropRow") => h.row = NoRow
  /\ ~Stands(r, "record") /\ ~Stands(r, "dropRow") /\ Kind(r) \notin Movers => h.row = was.row
  /\ Kind(r) \in Movers =>
       /\ h.row = NoRow <=> was.row = NoRow
       /\ h.row # NoRow => h.row.id = was.row.id /\ h.row.uid = was.row.uid
       /\ Stands(r, "status") => was.row # NoRow /\ h.row = [was.row EXCEPT !.status = want[r].to]
       /\ Stands(r, "quota") => was.row # NoRow /\ h.row = [was.row EXCEPT !.quota = want[r].to]
       /\ ~Stands(r, "status") /\ ~Stands(r, "quota") /\ (pc[r] = "do" \/ snap[r].row = was.row) =>
            h.row = was.row

RowsTrace(r) ==
  LET h == host[Name(r)] was == found[r] IN
  /\ IF Stands(r, "website") THEN h.web # 0 /\ was.web = 0
     ELSE h.web = IF Stands(r, "dropWebsite") THEN 0 ELSE was.web
  /\ IF Stands(r, "database") THEN h.db # 0 /\ was.db = 0
     ELSE h.db = IF Stands(r, "dropDatabase") THEN 0 ELSE was.db
  /\ IF Stands(r, "certificate") THEN h.cert # 0 /\ was.cert = 0
     ELSE ~Stands(r, "dropCertificates") => h.cert = was.cert
  /\ IF Stands(r, "jobs") THEN h.jobs # 0
     ELSE ~Stands(r, "dropRow") => h.jobs = was.jobs

HomeTrace(r) ==
  LET h == host[Name(r)] was == found[r] IN
  /\ Stands(r, "dropHome") => h.home = NoHome
  /\ ~Stands(r, "home") /\ ~Stands(r, "promote") /\ ~Stands(r, "dropHome") => h.home = was.home
  /\ Stands(r, "home") \/ Stands(r, "chown") => h.home.owner = uid[r]
  /\ Stands(r, "promote") => (h.home.docs = "none" <=> snap[r].home.docs = "none")
  /\ Stands(r, "transfer") /\ ~Stands(r, "chown") => h.home.docs = "legacy"
  /\ ~Stands(r, "transfer") \/ want[r].copy => h.source = was.source

(* The logs are full again when the legacy site has its own.               *)
LogsTrace(r) ==
  LET h == host[Name(r)] was == found[r] IN
  /\ Kind(r) # "adopt" => (h.logs = "full" <=> was.logs = "full")
  /\ Kind(r) = "adopt" /\ was.logs # "full" =>
       IF pc[r] = "do" THEN ~Stands(r, "webLogs") => h.logs # "full"
       ELSE ~Stands(r, "logs") => h.logs # "full"

SystemTrace(r) ==
  LET h == host[Name(r)] was == found[r] IN
  /\ h.vhost = IF Stands(r, "vhost") THEN TRUE ELSE IF Stands(r, "dropVHost") THEN FALSE ELSE was.vhost
  /\ h.pool = IF Stands(r, "pool") THEN TRUE ELSE IF Stands(r, "dropPool") THEN FALSE ELSE was.pool
  /\ h.crontab = IF Stands(r, "crontab") THEN TRUE ELSE was.crontab
  /\ h.schema = IF Stands(r, "import") THEN snap[r].schema
                ELSE IF Stands(r, "schema") THEN "empty"
                ELSE IF Stands(r, "dropSchema") THEN "none" ELSE was.schema
  /\ Stands(r, "schema") => was.schema = "none"
  /\ h.lineage = IF Stands(r, "renewal") THEN "webroot"
                 ELSE IF Stands(r, "dropLineage") THEN "none" ELSE was.lineage

Trace(r) ==
  /\ UserTrace(r) /\ RowTrace(r) /\ RowsTrace(r) /\ HomeTrace(r) /\ LogsTrace(r) /\ SystemTrace(r)
Clean(r) == pc[r] = "undo" /\ ~dirty[r] /\ r \notin torn /\ Name(r) \notin damaged
Traced(r) == pc[r] = "do" \/ Clean(r) => Trace(r)

-----------------------------------------------------------------------------
(* What was whole before the plan that is running.                         *)
Before(n) == IF lock # NoRequest /\ Name(lock) = n THEN found[lock] ELSE host[n]
Users == \A n, m \in Names : n # m => host[n].user = 0 \/ host[m].user # host[n].user

Past(b, labels) == job[b] \in labels \cup {"finish"} \/ b \in sealed

(* What is in the archive of a backup, and what of it is up to date.       *)
Archived(b) ==
  /\ job[b] # "idle" \/ b \in sealed => b \in Wanted
  /\ job[b] \in {"idle", "looked", "files", "dumps", "lists", "sums"} => b \notin sealed
  /\ job[b] \in {"finish", "complete"} => b \in sealed
  /\ job[b] \in Working \cup {"looked"} => read[b] \in Row
  /\ job[b] \in Working \/ b \in sealed => archive[b] \in Host /\ shot[b] \in Host
  /\ job[b] = "files" => archive[b] = Blank
  /\ job[b] = "dumps" => archive[b].db = 0
  /\ Past(b, {"dumps", "lists", "sums"}) => archive[b].home \in Home
  /\ Past(b, {"lists", "sums"}) => archive[b].db = 0 \/ archive[b].schema # "none"
  /\ Past(b, {"sums"}) => archive[b].row \in Row
Faithful(b) ==
  /\ job[b] \in Working /\ b \notin mixed =>
       /\ shot[b] = Now(b) /\ shot[b].row = read[b] /\ Refers(shot[b])
       /\ Past(b, {"dumps", "lists", "sums"}) => archive[b].home = shot[b].home
       /\ Past(b, {"lists", "sums"}) =>
            archive[b].db = shot[b].db /\ (shot[b].db # 0 => archive[b].schema = shot[b].schema)
       /\ Past(b, {"sums"}) =>
            archive[b].row = shot[b].row /\ archive[b].web = shot[b].web /\ archive[b].jobs = shot[b].jobs
  /\ b \in sealed /\ b \notin mixed => Contents(archive[b]) = Contents(shot[b])

IInv ==
  /\ TypeOK /\ nextId # 0
  /\ \A r \in Requests : Placed(r) /\ Read(r) /\ Grounded(r) /\ Traced(r)
  /\ \A n \in Names : Refers(host[n]) /\ (n \notin damaged => Whole(Before(n)))
  /\ Users
  /\ \A b \in Backups : Archived(b) /\ Faithful(b)

-----------------------------------------------------------------------------
(* What is asked for has the fields of its kind.                           *)
LEMMA WantedKinds ==
  ASSUME want \in [Requests -> Request], NEW r \in Requests
  PROVE  /\ Kind(r) \in Kinds /\ Name(r) \in Names
         /\ Kind(r) = "status" => want[r].to \in Statuses
         /\ Kind(r) = "quota" => want[r].to \in Nat
         /\ Kind(r) = "restore" => want[r].from \in Backups
<1>1. want[r] \in Request
  OBVIOUS
<1> QED
  BY <1>1, SMT DEF Request, Kind, Name, Kinds, Makers, Movers


LEMMA DeletePlaces ==
  ASSUME NEW h
  PROVE  /\ Len(DeleteSteps(h)) = DeleteLast(h) /\ DeleteLast(h) \in 4..10
         /\ \A k \in 1..DeleteLast(h) : DeleteSteps(h)[k] \in StepNames /\ DeletePos(h, DeleteSteps(h)[k]) = k
         /\ \A s \in StepNames : DeletePos(h, s) \in 0..DeleteLast(h)
         /\ \A s \in StepNames : DeletePos(h, s) > 0 => DeleteSteps(h)[DeletePos(h, s)] = s
<1> DEFINE W == h.web # 0
           D == h.db # 0
           L == h.cert # 0 /\ h.lineage = "managed"
           s1 == If(W, <<"dropVHost", "dropWebsite">>)
           s2 == s1 \o If(D, <<"dropSchema", "dropDatabase">>)
           s3 == s2 \o If(L, <<"dropLineage">>)
           s4 == s3 \o <<"dropCertificates">>
           s5 == s4 \o If(W, <<"dropPool">>)
           n == s5 \o <<"dropHome", "dropUser", "dropRow">>
           S == StepNames
<1>0. DeleteSteps(h) = n
  BY Zenon DEF DeleteSteps
<1>m. /\ "dropVHost" \in S /\ "dropWebsite" \in S /\ "dropSchema" \in S /\ "dropDatabase" \in S
      /\ "dropLineage" \in S /\ "dropCertificates" \in S /\ "dropPool" \in S /\ "dropHome" \in S
      /\ "dropUser" \in S /\ "dropRow" \in S
  BY SMT DEF S, StepNames, Drops
<1>e. /\ s1 = If(W, <<"dropVHost", "dropWebsite">>)
      /\ s2 = s1 \o If(D, <<"dropSchema", "dropDatabase">>)
      /\ s3 = s2 \o If(L, <<"dropLineage">>)
      /\ s4 = s3 \o <<"dropCertificates">>
      /\ s5 = s4 \o If(W, <<"dropPool">>)
      /\ n = s5 \o <<"dropHome", "dropUser", "dropRow">>
  BY DEF n
<1> HIDE DEF W, D, L, S, s1, s2, s3, s4, s5, n
<1>1. /\ s1 \in Seq(S) /\ Len(s1) = Place(W, 2)
      /\ W => s1[1] = "dropVHost" /\ s1[2] = "dropWebsite"
  BY <1>m, <1>e, SMT DEF If, Place
<1>2. /\ s2 \in Seq(S) /\ Len(s2) = Place(W, 2) + Place(D, 2)
      /\ W => s2[1] = "dropVHost" /\ s2[2] = "dropWebsite"
      /\ D => s2[Place(W, 2) + 1] = "dropSchema" /\ s2[Place(W, 2) + 2] = "dropDatabase"
  <2>1. s2 = s1 \o If(D, <<"dropSchema", "dropDatabase">>)
    BY <1>e
  <2>2. CASE D
    <3>1. s2 = s1 \o <<"dropSchema", "dropDatabase">> /\ Place(D, 2) = 2
      BY <2>1, <2>2, Zenon DEF If, Place
    <3>0. s1 \in Seq(S) /\ "dropSchema" \in S /\ "dropDatabase" \in S
      BY <1>m, <1>1
    <3>2. s2 \in Seq(S) /\ Len(s2) = Len(s1) + 2 /\ \A k \in 1..Len(s1) : s2[k] = s1[k]
      BY <3>0, <3>1, SMT
    <3>3. s2[Len(s1) + 1] = "dropSchema" /\ s2[Len(s1) + 2] = "dropDatabase"
      BY <3>0, <3>1, SMT
    <3> QED
      BY <1>1, <2>2, <3>1, <3>2, <3>3, SMT DEF Place
  <2>3. CASE ~D
    <3>1. s2 = s1 /\ Place(D, 2) = 0
      <4>1. s2 = s1 \o <<>> /\ Place(D, 2) = 0
        BY <2>1, <2>3, Zenon DEF If, Place
      <4> QED
        BY <1>1, <4>1, SMT
    <3> QED
      BY <1>1, <2>3, <3>1, SMT DEF Place
  <2> QED
    BY <2>2, <2>3
<1>3. /\ s3 \in Seq(S) /\ Len(s3) = Place(W, 2) + Place(D, 2) + Place(L, 1)
      /\ W => s3[1] = "dropVHost" /\ s3[2] = "dropWebsite"
      /\ D => s3[Place(W, 2) + 1] = "dropSchema" /\ s3[Place(W, 2) + 2] = "dropDatabase"
      /\ L => s3[Place(W, 2) + Place(D, 2) + 1] = "dropLineage"
  <2>1. s3 = s2 \o If(L, <<"dropLineage">>)
    BY <1>e
  <2>2. CASE L
    <3>1. s3 = s2 \o <<"dropLineage">> /\ Place(L, 1) = 1
      BY <2>1, <2>2, Zenon DEF If, Place
    <3>0. s2 \in Seq(S) /\ "dropLineage" \in S
      BY <1>m, <1>2
    <3>2. s3 \in Seq(S) /\ Len(s3) = Len(s2) + 1 /\ \A k \in 1..Len(s2) : s3[k] = s2[k]
      BY <3>0, <3>1, SMT
    <3>3. s3[Len(s2) + 1] = "dropLineage"
      BY <3>0, <3>1, SMT
    <3> QED
      BY <1>2, <2>2, <3>1, <3>2, <3>3, SMT DEF Place
  <2>3. CASE ~L
    <3>1. s3 = s2 /\ Place(L, 1) = 0
      <4>1. s3 = s2 \o <<>> /\ Place(L, 1) = 0
        BY <2>1, <2>3, Zenon DEF If, Place
      <4> QED
        BY <1>2, <4>1, SMT
    <3> QED
      BY <1>2, <2>3, <3>1, SMT DEF Place
  <2> QED
    BY <2>2, <2>3
<1>4. /\ s4 \in Seq(S) /\ Len(s4) = Place(W, 2) + Place(D, 2) + Place(L, 1) + 1
      /\ W => s4[1] = "dropVHost" /\ s4[2] = "dropWebsite"
      /\ D => s4[Place(W, 2) + 1] = "dropSchema" /\ s4[Place(W, 2) + 2] = "dropDatabase"
      /\ L => s4[Place(W, 2) + Place(D, 2) + 1] = "dropLineage"
      /\ s4[Place(W, 2) + Place(D, 2) + Place(L, 1) + 1] = "dropCertificates"
  <2>1. s4 = s3 \o <<"dropCertificates">>
    BY <1>e
  <2>2. s4 \in Seq(S) /\ Len(s4) = Len(s3) + 1 /\ \A k \in 1..Len(s3) : s4[k] = s3[k]
    BY <1>m, <1>3, <2>1, SMT
  <2>3. s4[Len(s3) + 1] = "dropCertificates"
    BY <1>m, <1>3, <2>1, SMT
  <2> QED
    BY <1>3, <2>2, <2>3, SMT DEF Place
<1>5. /\ s5 \in Seq(S) /\ Len(s5) = Place(W, 2) + Place(D, 2) + Place(L, 1) + 1 + Place(W, 1)
      /\ W => s5[1] = "dropVHost" /\ s5[2] = "dropWebsite"
      /\ D => s5[Place(W, 2) + 1] = "dropSchema" /\ s5[Place(W, 2) + 2] = "dropDatabase"
      /\ L => s5[Place(W, 2) + Place(D, 2) + 1] = "dropLineage"
      /\ s5[Place(W, 2) + Place(D, 2) + Place(L, 1) + 1] = "dropCertificates"
      /\ W => s5[Place(W, 2) + Place(D, 2) + Place(L, 1) + 1 + 1] = "dropPool"
  <2>1. s5 = s4 \o If(W, <<"dropPool">>)
    BY <1>e
  <2>2. CASE W
    <3>1. s5 = s4 \o <<"dropPool">> /\ Place(W, 1) = 1
      BY <2>1, <2>2, Zenon DEF If, Place
    <3>0. s4 \in Seq(S) /\ "dropPool" \in S
      BY <1>m, <1>4
    <3>2. s5 \in Seq(S) /\ Len(s5) = Len(s4) + 1 /\ \A k \in 1..Len(s4) : s5[k] = s4[k]
      BY <3>0, <3>1, SMT
    <3>3. s5[Len(s4) + 1] = "dropPool"
      BY <3>0, <3>1, SMT
    <3> QED
      BY <1>4, <2>2, <3>1, <3>2, <3>3, SMT DEF Place
  <2>3. CASE ~W
    <3>1. s5 = s4 /\ Place(W, 1) = 0
      <4>1. s5 = s4 \o <<>> /\ Place(W, 1) = 0
        BY <2>1, <2>3, Zenon DEF If, Place
      <4> QED
        BY <1>4, <4>1, SMT
    <3> QED
      BY <1>4, <2>3, <3>1, SMT DEF Place
  <2> QED
    BY <2>2, <2>3
<1>6. /\ n \in Seq(S) /\ Len(n) = Place(W, 2) + Place(D, 2) + Place(L, 1) + 1 + Place(W, 1) + 3
      /\ W => n[1] = "dropVHost" /\ n[2] = "dropWebsite"
      /\ D => n[Place(W, 2) + 1] = "dropSchema" /\ n[Place(W, 2) + 2] = "dropDatabase"
      /\ L => n[Place(W, 2) + Place(D, 2) + 1] = "dropLineage"
      /\ n[Place(W, 2) + Place(D, 2) + Place(L, 1) + 1] = "dropCertificates"
      /\ W => n[Place(W, 2) + Place(D, 2) + Place(L, 1) + 1 + 1] = "dropPool"
      /\ n[Place(W, 2) + Place(D, 2) + Place(L, 1) + 1 + Place(W, 1) + 1] = "dropHome"
          /\ n[Place(W, 2) + Place(D, 2) + Place(L, 1) + 1 + Place(W, 1) + 2] = "dropUser"
          /\ n[Place(W, 2) + Place(D, 2) + Place(L, 1) + 1 + Place(W, 1) + 3] = "dropRow"
  <2>1. n = s5 \o <<"dropHome", "dropUser", "dropRow">>
    BY <1>e
  <2>2. n \in Seq(S) /\ Len(n) = Len(s5) + 3 /\ \A k \in 1..Len(s5) : n[k] = s5[k]
    BY <1>m, <1>5, <2>1, SMT
  <2>3. n[Len(s5) + 1] = "dropHome" /\ n[Len(s5) + 2] = "dropUser" /\ n[Len(s5) + 3] = "dropRow"
    BY <1>m, <1>5, <2>1, SMT
  <2> QED
    BY <1>5, <2>2, <2>3, SMT DEF Place
<1>7. DeleteLast(h) = Place(W, 2) + Place(D, 2) + Place(L, 1) + 1 + Place(W, 1) + 3 /\ DeleteLast(h) \in 4..10
  BY SMT DEF DeleteLast, Place, W, D, L
<1>8. ASSUME NEW s \in StepNames
      PROVE  DeletePos(h, s) \in 0..DeleteLast(h) /\ (DeletePos(h, s) > 0 => n[DeletePos(h, s)] = s)
  BY <1>6, <1>7, SMT DEF StepNames, Drops, DeletePos, Place, W, D, L
<1>9. ASSUME NEW k \in 1..DeleteLast(h) PROVE n[k] \in StepNames /\ DeletePos(h, n[k]) = k
  <2>1. CASE k <= 5
    BY <1>6, <1>7, <2>1, SMT DEF StepNames, Drops, DeletePos, Place, W, D, L
  <2>2. CASE k > 5 /\ k <= 10
    BY <1>6, <1>7, <2>2, SMT DEF StepNames, Drops, DeletePos, Place, W, D, L
  <2>3. CASE k > 10
    BY <1>6, <1>7, <2>3, SMT DEF StepNames, Drops, DeletePos, Place, W, D, L
  <2>4. k <= 5 \/ (k > 5 /\ k <= 10) \/ k > 10
    OBVIOUS
  <2> QED
    BY <2>1, <2>2, <2>3, <2>4
<1> QED
  BY <1>0, <1>6, <1>7, <1>8, <1>9, Zenon

LEMMA RestorePlaces ==
  ASSUME NEW h
  PROVE  /\ Len(RestoreSteps(h)) = RestoreLast(h) /\ RestoreLast(h) \in 6..14
         /\ \A k \in 1..RestoreLast(h) : RestoreSteps(h)[k] \in StepNames /\ RestorePos(h, RestoreSteps(h)[k]) = k
         /\ \A s \in StepNames : RestorePos(h, s) \in 0..RestoreLast(h)
         /\ \A s \in StepNames : RestorePos(h, s) > 0 => RestoreSteps(h)[RestorePos(h, s)] = s
<1> DEFINE D == h.db # 0
           W == h.web # 0
           C == h.jobs # 0
           s1 == <<"staging", "user", "promote", "chown", "runtime", "record">>
           s2 == s1 \o If(D, <<"schema", "import", "database">>)
           s3 == s2 \o If(W, <<"pool", "vhost", "website">>)
           n == s3 \o If(C, <<"crontab", "jobs">>)
           S == StepNames
<1>0. RestoreSteps(h) = n
  BY Zenon DEF RestoreSteps, DatabaseSteps, WebsiteSteps, CronSteps
<1>m. /\ "staging" \in S /\ "user" \in S /\ "promote" \in S /\ "chown" \in S /\ "runtime" \in S
      /\ "record" \in S /\ "schema" \in S /\ "import" \in S /\ "database" \in S /\ "pool" \in S
      /\ "vhost" \in S /\ "website" \in S /\ "crontab" \in S /\ "jobs" \in S
  BY SMT DEF S, StepNames, Drops
<1>e. /\ s1 = <<"staging", "user", "promote", "chown", "runtime", "record">>
      /\ s2 = s1 \o If(D, <<"schema", "import", "database">>)
      /\ s3 = s2 \o If(W, <<"pool", "vhost", "website">>)
      /\ n = s3 \o If(C, <<"crontab", "jobs">>)
  BY DEF n
<1> HIDE DEF D, W, C, S, s1, s2, s3, n
<1>1. /\ s1 \in Seq(S) /\ Len(s1) = 6
      /\ s1[1] = "staging" /\ s1[2] = "user" /\ s1[3] = "promote" /\ s1[4] = "chown" /\ s1[5] = "runtime"
          /\ s1[6] = "record"
  BY <1>m, <1>e, SMT DEF If, Place
<1>2. /\ s2 \in Seq(S) /\ Len(s2) = 6 + Place(D, 3)
      /\ s2[1] = "staging" /\ s2[2] = "user" /\ s2[3] = "promote" /\ s2[4] = "chown" /\ s2[5] = "runtime"
          /\ s2[6] = "record"
      /\ D => s2[6 + 1] = "schema" /\ s2[6 + 2] = "import" /\ s2[6 + 3] = "database"
  <2>1. s2 = s1 \o If(D, <<"schema", "import", "database">>)
    BY <1>e
  <2>2. CASE D
    <3>1. s2 = s1 \o <<"schema", "import", "database">> /\ Place(D, 3) = 3
      BY <2>1, <2>2, Zenon DEF If, Place
    <3>0. s1 \in Seq(S) /\ "schema" \in S /\ "import" \in S /\ "database" \in S
      BY <1>m, <1>1
    <3>2. s2 \in Seq(S) /\ Len(s2) = Len(s1) + 3 /\ \A k \in 1..Len(s1) : s2[k] = s1[k]
      BY <3>0, <3>1, SMT
    <3>3. s2[Len(s1) + 1] = "schema" /\ s2[Len(s1) + 2] = "import" /\ s2[Len(s1) + 3] = "database"
      BY <3>0, <3>1, SMT
    <3> QED
      BY <1>1, <2>2, <3>1, <3>2, <3>3, SMT DEF Place
  <2>3. CASE ~D
    <3>1. s2 = s1 /\ Place(D, 3) = 0
      <4>1. s2 = s1 \o <<>> /\ Place(D, 3) = 0
        BY <2>1, <2>3, Zenon DEF If, Place
      <4> QED
        BY <1>1, <4>1, SMT
    <3> QED
      BY <1>1, <2>3, <3>1, SMT DEF Place
  <2> QED
    BY <2>2, <2>3
<1>3. /\ s3 \in Seq(S) /\ Len(s3) = 6 + Place(D, 3) + Place(W, 3)
      /\ s3[1] = "staging" /\ s3[2] = "user" /\ s3[3] = "promote" /\ s3[4] = "chown" /\ s3[5] = "runtime"
          /\ s3[6] = "record"
      /\ D => s3[6 + 1] = "schema" /\ s3[6 + 2] = "import" /\ s3[6 + 3] = "database"
      /\ W => s3[6 + Place(D, 3) + 1] = "pool" /\ s3[6 + Place(D, 3) + 2] = "vhost"
          /\ s3[6 + Place(D, 3) + 3] = "website"
  <2>1. s3 = s2 \o If(W, <<"pool", "vhost", "website">>)
    BY <1>e
  <2>2. CASE W
    <3>1. s3 = s2 \o <<"pool", "vhost", "website">> /\ Place(W, 3) = 3
      BY <2>1, <2>2, Zenon DEF If, Place
    <3>0. s2 \in Seq(S) /\ "pool" \in S /\ "vhost" \in S /\ "website" \in S
      BY <1>m, <1>2
    <3>2. s3 \in Seq(S) /\ Len(s3) = Len(s2) + 3 /\ \A k \in 1..Len(s2) : s3[k] = s2[k]
      BY <3>0, <3>1, SMT
    <3>3. s3[Len(s2) + 1] = "pool" /\ s3[Len(s2) + 2] = "vhost" /\ s3[Len(s2) + 3] = "website"
      BY <3>0, <3>1, SMT
    <3> QED
      BY <1>2, <2>2, <3>1, <3>2, <3>3, SMT DEF Place
  <2>3. CASE ~W
    <3>1. s3 = s2 /\ Place(W, 3) = 0
      <4>1. s3 = s2 \o <<>> /\ Place(W, 3) = 0
        BY <2>1, <2>3, Zenon DEF If, Place
      <4> QED
        BY <1>2, <4>1, SMT
    <3> QED
      BY <1>2, <2>3, <3>1, SMT DEF Place
  <2> QED
    BY <2>2, <2>3
<1>4. /\ n \in Seq(S) /\ Len(n) = 6 + Place(D, 3) + Place(W, 3) + Place(C, 2)
      /\ n[1] = "staging" /\ n[2] = "user" /\ n[3] = "promote" /\ n[4] = "chown" /\ n[5] = "runtime"
          /\ n[6] = "record"
      /\ D => n[6 + 1] = "schema" /\ n[6 + 2] = "import" /\ n[6 + 3] = "database"
      /\ W => n[6 + Place(D, 3) + 1] = "pool" /\ n[6 + Place(D, 3) + 2] = "vhost"
          /\ n[6 + Place(D, 3) + 3] = "website"
      /\ C => n[6 + Place(D, 3) + Place(W, 3) + 1] = "crontab"
          /\ n[6 + Place(D, 3) + Place(W, 3) + 2] = "jobs"
  <2>1. n = s3 \o If(C, <<"crontab", "jobs">>)
    BY <1>e
  <2>2. CASE C
    <3>1. n = s3 \o <<"crontab", "jobs">> /\ Place(C, 2) = 2
      BY <2>1, <2>2, Zenon DEF If, Place
    <3>0. s3 \in Seq(S) /\ "crontab" \in S /\ "jobs" \in S
      BY <1>m, <1>3
    <3>2. n \in Seq(S) /\ Len(n) = Len(s3) + 2 /\ \A k \in 1..Len(s3) : n[k] = s3[k]
      BY <3>0, <3>1, SMT
    <3>3. n[Len(s3) + 1] = "crontab" /\ n[Len(s3) + 2] = "jobs"
      BY <3>0, <3>1, SMT
    <3> QED
      BY <1>3, <2>2, <3>1, <3>2, <3>3, SMT DEF Place
  <2>3. CASE ~C
    <3>1. n = s3 /\ Place(C, 2) = 0
      <4>1. n = s3 \o <<>> /\ Place(C, 2) = 0
        BY <2>1, <2>3, Zenon DEF If, Place
      <4> QED
        BY <1>3, <4>1, SMT
    <3> QED
      BY <1>3, <2>3, <3>1, SMT DEF Place
  <2> QED
    BY <2>2, <2>3
<1>5. RestoreLast(h) = 6 + Place(D, 3) + Place(W, 3) + Place(C, 2) /\ RestoreLast(h) \in 6..14
  BY SMT DEF RestoreLast, Place, D, W, C
<1>6. ASSUME NEW s \in StepNames
      PROVE  RestorePos(h, s) \in 0..RestoreLast(h) /\ (RestorePos(h, s) > 0 => n[RestorePos(h, s)] = s)
  BY <1>4, <1>5, SMT DEF StepNames, Drops, RestorePos, Place, D, W, C
<1>7. ASSUME NEW k \in 1..RestoreLast(h) PROVE n[k] \in StepNames /\ RestorePos(h, n[k]) = k
  <2>1. CASE k <= 5
    BY <1>4, <1>5, <2>1, SMT DEF StepNames, Drops, RestorePos, Place, D, W, C
  <2>2. CASE k > 5 /\ k <= 10
    BY <1>4, <1>5, <2>2, SMT DEF StepNames, Drops, RestorePos, Place, D, W, C
  <2>3. CASE k > 10
    BY <1>4, <1>5, <2>3, SMT DEF StepNames, Drops, RestorePos, Place, D, W, C
  <2>4. k <= 5 \/ (k > 5 /\ k <= 10) \/ k > 10
    OBVIOUS
  <2> QED
    BY <2>1, <2>2, <2>3, <2>4
<1> QED
  BY <1>0, <1>4, <1>5, <1>6, <1>7, Zenon

LEMMA AdoptPlaces ==
  ASSUME NEW h
  PROVE  /\ Len(AdoptSteps(h)) = AdoptLast(h) /\ AdoptLast(h) \in 11..15
         /\ \A k \in 1..AdoptLast(h) : AdoptSteps(h)[k] \in StepNames /\ AdoptPos(h, AdoptSteps(h)[k]) = k
         /\ \A s \in StepNames : AdoptPos(h, s) \in 0..AdoptLast(h)
         /\ \A s \in StepNames : AdoptPos(h, s) > 0 => AdoptSteps(h)[AdoptPos(h, s)] = s
<1> DEFINE R == HasRenewal(h)
           s1 == <<"archive", "user", "logs", "home", "webLogs", "pool", "transfer",
                    "chown", "vhost", "record", "website">>
           n == s1 \o If(R, <<"commit", "certificate", "renewal", "verify">>)
           S == StepNames
<1>0. AdoptSteps(h) = n
  BY Zenon DEF AdoptSteps, CertificateSteps
<1>m. /\ "archive" \in S /\ "user" \in S /\ "logs" \in S /\ "home" \in S /\ "webLogs" \in S
      /\ "pool" \in S /\ "transfer" \in S /\ "chown" \in S /\ "vhost" \in S /\ "record" \in S
      /\ "website" \in S /\ "commit" \in S /\ "certificate" \in S /\ "renewal" \in S /\ "verify" \in S
  BY SMT DEF S, StepNames, Drops
<1>e. /\ s1 = <<"archive", "user", "logs", "home", "webLogs", "pool", "transfer",
               "chown", "vhost", "record", "website">>
      /\ n = s1 \o If(R, <<"commit", "certificate", "renewal", "verify">>)
  BY DEF n
<1> HIDE DEF R, S, s1, n
<1>1. /\ s1 \in Seq(S) /\ Len(s1) = 11
      /\ s1[1] = "archive" /\ s1[2] = "user" /\ s1[3] = "logs" /\ s1[4] = "home" /\ s1[5] = "webLogs"
          /\ s1[6] = "pool" /\ s1[7] = "transfer" /\ s1[8] = "chown" /\ s1[9] = "vhost"
          /\ s1[10] = "record" /\ s1[11] = "website"
  BY <1>m, <1>e, SMT DEF If, Place
<1>2. /\ n \in Seq(S) /\ Len(n) = 11 + Place(R, 4)
      /\ n[1] = "archive" /\ n[2] = "user" /\ n[3] = "logs" /\ n[4] = "home" /\ n[5] = "webLogs"
          /\ n[6] = "pool" /\ n[7] = "transfer" /\ n[8] = "chown" /\ n[9] = "vhost" /\ n[10] = "record"
          /\ n[11] = "website"
      /\ R => n[11 + 1] = "commit" /\ n[11 + 2] = "certificate" /\ n[11 + 3] = "renewal"
          /\ n[11 + 4] = "verify"
  <2>1. n = s1 \o If(R, <<"commit", "certificate", "renewal", "verify">>)
    BY <1>e
  <2>2. CASE R
    <3>1. n = s1 \o <<"commit", "certificate", "renewal", "verify">> /\ Place(R, 4) = 4
      BY <2>1, <2>2, Zenon DEF If, Place
    <3>0. s1 \in Seq(S) /\ "commit" \in S /\ "certificate" \in S /\ "renewal" \in S /\ "verify" \in S
      BY <1>m, <1>1
    <3>2. n \in Seq(S) /\ Len(n) = Len(s1) + 4 /\ \A k \in 1..Len(s1) : n[k] = s1[k]
      BY <3>0, <3>1, SMT
    <3>3. n[Len(s1) + 1] = "commit" /\ n[Len(s1) + 2] = "certificate" /\ n[Len(s1) + 3] = "renewal" /\ n[Len(s1) + 4] = "verify"
      BY <3>0, <3>1, SMT
    <3> QED
      BY <1>1, <2>2, <3>1, <3>2, <3>3, SMT DEF Place
  <2>3. CASE ~R
    <3>1. n = s1 /\ Place(R, 4) = 0
      <4>1. n = s1 \o <<>> /\ Place(R, 4) = 0
        BY <2>1, <2>3, Zenon DEF If, Place
      <4> QED
        BY <1>1, <4>1, SMT
    <3> QED
      BY <1>1, <2>3, <3>1, SMT DEF Place
  <2> QED
    BY <2>2, <2>3
<1>3. AdoptLast(h) = 11 + Place(R, 4) /\ AdoptLast(h) \in 11..15
  BY SMT DEF AdoptLast, Place, R
<1>4. ASSUME NEW s \in StepNames
      PROVE  AdoptPos(h, s) \in 0..AdoptLast(h) /\ (AdoptPos(h, s) > 0 => n[AdoptPos(h, s)] = s)
  BY <1>2, <1>3, SMT DEF StepNames, Drops, AdoptPos, Place, R
<1>5. ASSUME NEW k \in 1..AdoptLast(h) PROVE n[k] \in StepNames /\ AdoptPos(h, n[k]) = k
  <2>1. CASE k <= 5
    BY <1>2, <1>3, <2>1, SMT DEF StepNames, Drops, AdoptPos, Place, R
  <2>2. CASE k > 5 /\ k <= 10
    BY <1>2, <1>3, <2>2, SMTT(30) DEF StepNames, Drops, AdoptPos, Place, R
  <2>3. CASE k > 10
    BY <1>2, <1>3, <2>3, SMTT(30) DEF StepNames, Drops, AdoptPos, Place, R
  <2>4. k <= 5 \/ (k > 5 /\ k <= 10) \/ k > 10
    OBVIOUS
  <2> QED
    BY <2>1, <2>2, <2>3, <2>4
<1> QED
  BY <1>0, <1>2, <1>3, <1>4, <1>5, Zenon

(***************************************************************************)
(* Pos is the inverse of Steps, whatever is asked for and was read.        *)
(***************************************************************************)
LEMMA StepPlaces ==
  ASSUME want \in [Requests -> Request], NEW r \in Requests
  PROVE  /\ Len(Steps(r)) = Last(r) /\ Last(r) \in 1..15
         /\ \A k \in 1..Last(r) : Steps(r)[k] \in StepNames /\ Pos(r, Steps(r)[k]) = k
         /\ \A s \in StepNames : Pos(r, s) \in 0..Last(r)
         /\ \A s \in StepNames : Pos(r, s) > 0 => Steps(r)[Pos(r, s)] = s
<1>1. CASE Kind(r) = "create"
  <2>1. /\ Steps(r) = <<"user", "logs", "home", "record", "lock">> /\ Last(r) = 5
        /\ \A s : Pos(r, s) = CreatePos(s)
    BY <1>1, SMT DEF Steps, Last, Pos, Movers
  <2> QED
    BY <2>1, SMT DEF CreatePos, StepNames, Drops
<1>2. CASE Kind(r) = "database"
  <2>1. /\ Steps(r) = <<"schema", "database">> /\ Last(r) = 2
        /\ \A s : Pos(r, s) = IF s = "schema" THEN 1 ELSE IF s = "database" THEN 2 ELSE 0
    BY <1>2, SMT DEF Steps, Last, Pos, Movers
  <2> QED
    BY <2>1, SMT DEF StepNames, Drops
<1>3. CASE Kind(r) \in Movers
  <2>1. /\ Steps(r) = <<Kind(r)>> /\ Last(r) = 1
        /\ \A s : Pos(r, s) = Place(s = Kind(r), 1)
    BY <1>3, SMT DEF Steps, Last, Pos, Movers
  <2> QED
    BY <1>3, <2>1, SMT DEF Place, Movers, StepNames, Drops
<1>4. CASE Kind(r) = "adopt"
  <2>1. /\ Steps(r) = AdoptSteps(snap[r]) /\ Last(r) = AdoptLast(snap[r])
        /\ \A s : Pos(r, s) = AdoptPos(snap[r], s)
    BY <1>4, SMT DEF Steps, Last, Pos, Movers
  <2>2. Last(r) \in 1..15
    BY <2>1, AdoptPlaces, SMT
  <2> QED
    BY <2>1, <2>2, AdoptPlaces, ZenonT(40)
<1>5. CASE Kind(r) = "restore"
  <2>1. /\ Steps(r) = RestoreSteps(snap[r]) /\ Last(r) = RestoreLast(snap[r])
        /\ \A s : Pos(r, s) = RestorePos(snap[r], s)
    BY <1>5, SMT DEF Steps, Last, Pos, Movers
  <2>2. Last(r) \in 1..15
    BY <2>1, RestorePlaces, SMT
  <2> QED
    BY <2>1, <2>2, RestorePlaces, ZenonT(40)
<1>6. CASE Kind(r) = "delete"
  <2>1. /\ Steps(r) = DeleteSteps(snap[r]) /\ Last(r) = DeleteLast(snap[r])
        /\ \A s : Pos(r, s) = DeletePos(snap[r], s)
    BY <1>6, SMT DEF Steps, Last, Pos, Movers
  <2>2. Last(r) \in 1..15
    BY <2>1, DeletePlaces, SMT
  <2> QED
    BY <2>1, <2>2, DeletePlaces, ZenonT(40)
<1> QED
  BY <1>1, <1>2, <1>3, <1>4, <1>5, <1>6, WantedKinds, SMT DEF Kinds, Makers, Movers

(***************************************************************************)
(* Which plans have a step, and what comes before it in each of them.      *)
(***************************************************************************)
After(r, first, then) == 0 < Pos(r, first) /\ Pos(r, first) < Pos(r, then)

LEMMA Order ==
  ASSUME want \in [Requests -> Request], NEW r \in Requests
  PROVE  /\ Pos(r, "user") > 0 => Kind(r) \in Makers
         /\ Pos(r, "record") > 0 => Kind(r) \in Makers /\ After(r, "user", "record")
         /\ Pos(r, "logs") > 0 => Kind(r) \in {"create", "adopt"} /\ After(r, "user", "logs")
         /\ Pos(r, "home") > 0 => Kind(r) \in {"create", "adopt"} /\ After(r, "user", "home")
         /\ Pos(r, "webLogs") > 0 => Kind(r) = "adopt" /\ Pos(r, "webLogs") = Pos(r, "home") + 1
                                     /\ After(r, "logs", "home") /\ After(r, "logs", "webLogs")
         /\ Pos(r, "transfer") > 0 => Kind(r) = "adopt" /\ After(r, "home", "transfer")
         /\ Pos(r, "promote") > 0 => Kind(r) = "restore" /\ After(r, "user", "promote")
         /\ Pos(r, "chown") > 0 => /\ Kind(r) = "adopt" => After(r, "home", "transfer") /\ After(r, "transfer", "chown")
                                   /\ Kind(r) # "adopt" => Kind(r) = "restore" /\ After(r, "promote", "chown")
         /\ Pos(r, "schema") > 0 => Kind(r) \in {"database", "restore"}
         /\ Pos(r, "import") > 0 => Kind(r) = "restore" /\ After(r, "schema", "import") /\ snap[r].db # 0
         /\ Pos(r, "database") > 0 => \/ Kind(r) = "database"
                                      \/ Kind(r) = "restore" /\ After(r, "record", "database")
         /\ \A s \in {"website", "certificate", "renewal"} :
              Pos(r, s) > 0 => Kind(r) \in Makers /\ After(r, "record", s)
         /\ Pos(r, "renewal") > 0 => After(r, "commit", "certificate") /\ After(r, "commit", "renewal")
         /\ \A s \in {"pool", "vhost"} : Pos(r, s) > 0 => Kind(r) \in Makers /\ After(r, "user", s)
         /\ \A s \in {"crontab", "jobs"} : Pos(r, s) > 0 => Kind(r) = "restore" /\ After(r, "record", s)
         /\ Pos(r, "jobs") > 0 => After(r, "crontab", "jobs")
         /\ Pos(r, "status") > 0 <=> Kind(r) = "status"
         /\ Pos(r, "quota") > 0 <=> Kind(r) = "quota"
         /\ \A s \in Drops \cup {"dropVHost"} : Pos(r, s) > 0 => Kind(r) = "delete"
<1>1. CASE Kind(r) = "create"
  <2>1. \A s : Pos(r, s) = CreatePos(s)
    BY <1>1, SMT DEF Pos, Movers
  <2> QED
    BY <1>1, <2>1, SMT DEF CreatePos, After, Makers, Drops
<1>2. CASE Kind(r) = "database"
  <2>1. \A s : Pos(r, s) = IF s = "schema" THEN 1 ELSE IF s = "database" THEN 2 ELSE 0
    BY <1>2, SMT DEF Pos, Movers
  <2> QED
    BY <1>2, <2>1, SMT DEF After, Makers, Drops
<1>3. CASE Kind(r) \in Movers
  <2>1. \A s : Pos(r, s) = Place(s = Kind(r), 1)
    BY <1>3, SMT DEF Pos, Movers
  <2> QED
    BY <1>3, <2>1, SMT DEF Place, Movers, After, Makers, Drops
<1>4. CASE Kind(r) = "adopt"
  <2>1. \A s : Pos(r, s) = AdoptPos(snap[r], s)
    BY <1>4, SMT DEF Pos, Movers
  <2> QED
    BY <1>4, <2>1, SMT DEF AdoptPos, Place, After, Makers, Drops
<1>5. CASE Kind(r) = "restore"
  <2>1. \A s : Pos(r, s) = RestorePos(snap[r], s)
    BY <1>5, SMT DEF Pos, Movers
  <2> QED
    BY <1>5, <2>1, SMT DEF RestorePos, Place, After, Makers, Drops
<1>6. CASE Kind(r) = "delete"
  <2>1. \A s : Pos(r, s) = DeletePos(snap[r], s)
    BY <1>6, SMT DEF Pos, Movers
  <2> QED
    BY <1>6, <2>1, SMT DEF DeletePos, Place, After, Makers, Drops
<1> QED
  BY <1>1, <1>2, <1>3, <1>4, <1>5, <1>6, WantedKinds, SMT DEF Kinds, Makers, Movers

-----------------------------------------------------------------------------
NewRow(r) == [id |-> nextId, uid |-> uid[r], status |-> "active",
              quota |-> IF want[r].kind = "restore" THEN snap[r].row.quota ELSE 0]

(* What a step makes of each part of the host, and its undo.               *)
LEMMA DoneUser ==
  ASSUME NEW r, host[Name(r)] \in Host, NEW s
  PROVE  LET h == host[Name(r)] IN
         Done(r, s).user = IF s = "user" THEN uid[r] ELSE IF s = "dropUser" THEN 0 ELSE h.user
BY SMT DEF Done, Host, Promoted, Transferred, Reconfigured, NewRow

LEMMA DoneRow ==
  ASSUME NEW r, host[Name(r)] \in Host, NEW s
  PROVE  LET h == host[Name(r)] IN
         Done(r, s).row = IF s = "record" THEN NewRow(r)
                            ELSE IF s = "status" THEN [h.row EXCEPT !.status = want[r].to]
                            ELSE IF s = "quota" THEN [h.row EXCEPT !.quota = want[r].to]
                            ELSE IF s = "dropRow" THEN NoRow ELSE h.row
BY SMT DEF Done, Host, Promoted, Transferred, Reconfigured, NewRow

LEMMA DoneWeb ==
  ASSUME NEW r, host[Name(r)] \in Host, NEW s
  PROVE  LET h == host[Name(r)] IN
         Done(r, s).web = IF s = "website" THEN h.row.id ELSE IF s = "dropWebsite" THEN 0 ELSE h.web
BY SMT DEF Done, Host, Promoted, Transferred, Reconfigured, NewRow

LEMMA DoneDb ==
  ASSUME NEW r, host[Name(r)] \in Host, NEW s
  PROVE  LET h == host[Name(r)] IN
         Done(r, s).db = IF s = "database" THEN h.row.id ELSE IF s = "dropDatabase" THEN 0 ELSE h.db
BY SMT DEF Done, Host, Promoted, Transferred, Reconfigured, NewRow

LEMMA DoneCert ==
  ASSUME NEW r, host[Name(r)] \in Host, NEW s
  PROVE  LET h == host[Name(r)] IN
         Done(r, s).cert = IF s = "certificate" THEN h.row.id
                             ELSE IF s = "dropCertificates" /\ h.cert = snap[r].row.id THEN 0 ELSE h.cert
BY SMT DEF Done, Host, Promoted, Transferred, Reconfigured, NewRow

LEMMA DoneJobs ==
  ASSUME NEW r, host[Name(r)] \in Host, NEW s
  PROVE  LET h == host[Name(r)] IN
         Done(r, s).jobs = IF s = "jobs" THEN h.row.id ELSE IF s = "dropRow" THEN 0 ELSE h.jobs
BY SMT DEF Done, Host, Promoted, Transferred, Reconfigured, NewRow

LEMMA DoneHome ==
  ASSUME NEW r, host[Name(r)] \in Host, NEW s
  PROVE  LET h == host[Name(r)] IN
         Done(r, s).home = IF s = "home" THEN [owner |-> uid[r], docs |-> IF h.home = NoHome THEN "none" ELSE h.home.docs]
                             ELSE IF s = "promote" THEN snap[r].home
                             ELSE IF s = "transfer" THEN [h.home EXCEPT !.docs = "legacy"]
                             ELSE IF s = "chown" THEN [owner |-> uid[r], docs |-> IF h.home.docs = "none" THEN "none" ELSE "own"]
                             ELSE IF s = "dropHome" THEN NoHome ELSE h.home
BY SMT DEF Done, Host, Promoted, Transferred, Reconfigured, NewRow

LEMMA DoneSource ==
  ASSUME NEW r, host[Name(r)] \in Host, NEW s
  PROVE  LET h == host[Name(r)] IN
         Done(r, s).source = IF s = "transfer" /\ ~want[r].copy THEN "none" ELSE h.source
BY SMT DEF Done, Host, Promoted, Transferred, Reconfigured, NewRow

LEMMA DoneLogs ==
  ASSUME NEW r, host[Name(r)] \in Host, NEW s
  PROVE  LET h == host[Name(r)] IN
         Done(r, s).logs = IF s = "logs" THEN (IF h.logs = "none" THEN "empty" ELSE h.logs)
                             ELSE IF s = "webLogs" THEN "full" ELSE h.logs
BY SMT DEF Done, Host, Promoted, Transferred, Reconfigured, NewRow

LEMMA DoneSchema ==
  ASSUME NEW r, host[Name(r)] \in Host, NEW s
  PROVE  LET h == host[Name(r)] IN
         Done(r, s).schema = IF s = "schema" THEN "empty" ELSE IF s = "import" THEN snap[r].schema
                               ELSE IF s = "dropSchema" THEN "none" ELSE h.schema
BY SMT DEF Done, Host, Promoted, Transferred, Reconfigured, NewRow

LEMMA DoneLineage ==
  ASSUME NEW r, host[Name(r)] \in Host, NEW s
  PROVE  LET h == host[Name(r)] IN
         Done(r, s).lineage = IF s = "renewal" THEN "webroot" ELSE IF s = "dropLineage" THEN "none" ELSE h.lineage
BY SMT DEF Done, Host, Promoted, Transferred, Reconfigured, NewRow

LEMMA DoneVhost ==
  ASSUME NEW r, host[Name(r)] \in Host, NEW s
  PROVE  LET h == host[Name(r)] IN
         /\ s = "vhost" => Done(r, s).vhost = TRUE
         /\ s = "dropVHost" => Done(r, s).vhost = FALSE
         /\ s # "vhost" /\ s # "dropVHost" => Done(r, s).vhost = h.vhost
<1> DEFINE h == host[Name(r)]
<1>1. CASE s = "vhost"
  <2>1. Done(r, s) = [h EXCEPT !.vhost = TRUE]
    BY <1>1, SMT DEF Done
  <2>2. Done(r, s).vhost = TRUE
    BY <2>1, Zenon DEF Host
  <2> QED
    BY <1>1, <2>2, Zenon
<1>2. CASE s = "dropVHost"
  <2>1. Done(r, s) = [h EXCEPT !.vhost = FALSE]
    BY <1>2, SMT DEF Done
  <2>2. Done(r, s).vhost = FALSE
    BY <2>1, Zenon DEF Host
  <2> QED
    BY <1>2, <2>2, Zenon
<1>3. CASE s # "vhost" /\ s # "dropVHost"
  <2>1. Done(r, s).vhost = h.vhost
    BY <1>3, SMT DEF Done, Host, Promoted, Transferred, Reconfigured
  <2> QED
    BY <1>3, <2>1, Zenon
<1> QED
  BY <1>1, <1>3, <1>2

LEMMA DonePool ==
  ASSUME NEW r, host[Name(r)] \in Host, NEW s
  PROVE  LET h == host[Name(r)] IN
         /\ s = "pool" => Done(r, s).pool = TRUE
         /\ s = "dropPool" => Done(r, s).pool = FALSE
         /\ s # "pool" /\ s # "dropPool" => Done(r, s).pool = h.pool
<1> DEFINE h == host[Name(r)]
<1>1. CASE s = "pool"
  <2>1. Done(r, s) = [h EXCEPT !.pool = TRUE]
    BY <1>1, SMT DEF Done
  <2>2. Done(r, s).pool = TRUE
    BY <2>1, Zenon DEF Host
  <2> QED
    BY <1>1, <2>2, Zenon
<1>2. CASE s = "dropPool"
  <2>1. Done(r, s) = [h EXCEPT !.pool = FALSE]
    BY <1>2, SMT DEF Done
  <2>2. Done(r, s).pool = FALSE
    BY <2>1, Zenon DEF Host
  <2> QED
    BY <1>2, <2>2, Zenon
<1>3. CASE s # "pool" /\ s # "dropPool"
  <2>1. Done(r, s).pool = h.pool
    BY <1>3, SMT DEF Done, Host, Promoted, Transferred, Reconfigured
  <2> QED
    BY <1>3, <2>1, Zenon
<1> QED
  BY <1>1, <1>3, <1>2

LEMMA DoneCrontab ==
  ASSUME NEW r, host[Name(r)] \in Host, NEW s
  PROVE  LET h == host[Name(r)] IN
         /\ s = "crontab" => Done(r, s).crontab = TRUE
         /\ s # "crontab" => Done(r, s).crontab = h.crontab
<1> DEFINE h == host[Name(r)]
<1>1. CASE s = "crontab"
  <2>1. Done(r, s) = [h EXCEPT !.crontab = TRUE]
    BY <1>1, SMT DEF Done
  <2>2. Done(r, s).crontab = TRUE
    BY <2>1, Zenon DEF Host
  <2> QED
    BY <1>1, <2>2, Zenon
<1>3. CASE s # "crontab"
  <2>1. Done(r, s).crontab = h.crontab
    BY <1>3, SMT DEF Done, Host, Promoted, Transferred, Reconfigured
  <2> QED
    BY <1>3, <2>1, Zenon
<1> QED
  BY <1>1, <1>3

LEMMA UndoneUser ==
  ASSUME NEW r, host[Name(r)] \in Host, NEW s
  PROVE  LET h == host[Name(r)] IN
         Undone(r, s).user = IF s = "user" THEN 0 ELSE h.user
BY SMT DEF Undone, Host, TransferUndone, RenewalUndone

LEMMA UndoneRow ==
  ASSUME NEW r, host[Name(r)] \in Host, NEW s
  PROVE  LET h == host[Name(r)] IN
         Undone(r, s).row = IF s = "record" THEN NoRow
                              ELSE IF s = "status" THEN [h.row EXCEPT !.status = snap[r].row.status]
                              ELSE IF s = "quota" THEN [h.row EXCEPT !.quota = snap[r].row.quota] ELSE h.row
BY SMT DEF Undone, Host, TransferUndone, RenewalUndone

LEMMA UndoneWeb ==
  ASSUME NEW r, host[Name(r)] \in Host, NEW s
  PROVE  LET h == host[Name(r)] IN
         Undone(r, s).web = IF s = "website" THEN 0 ELSE h.web
BY SMT DEF Undone, Host, TransferUndone, RenewalUndone

LEMMA UndoneDb ==
  ASSUME NEW r, host[Name(r)] \in Host, NEW s
  PROVE  LET h == host[Name(r)] IN
         Undone(r, s).db = IF s = "database" THEN 0 ELSE h.db
BY SMT DEF Undone, Host, TransferUndone, RenewalUndone

LEMMA UndoneCert ==
  ASSUME NEW r, host[Name(r)] \in Host, NEW s
  PROVE  LET h == host[Name(r)] IN
         Undone(r, s).cert = IF s = "certificate" THEN 0 ELSE h.cert
BY SMT DEF Undone, Host, TransferUndone, RenewalUndone

LEMMA UndoneJobs ==
  ASSUME NEW r, host[Name(r)] \in Host, NEW s
  PROVE  LET h == host[Name(r)] IN
         Undone(r, s).jobs = IF s = "jobs" \/ s = "record" THEN 0 ELSE h.jobs
BY SMT DEF Undone, Host, TransferUndone, RenewalUndone

LEMMA UndoneHome ==
  ASSUME NEW r, host[Name(r)] \in Host, NEW s
  PROVE  LET h == host[Name(r)] IN
         Undone(r, s).home = IF s = "home" \/ s = "promote" THEN NoHome
                               ELSE IF s = "transfer" THEN [h.home EXCEPT !.docs = "none"] ELSE h.home
BY SMT DEF Undone, Host, TransferUndone, RenewalUndone

LEMMA UndoneSource ==
  ASSUME NEW r, host[Name(r)] \in Host, NEW s
  PROVE  LET h == host[Name(r)] IN
         Undone(r, s).source = IF s = "transfer" /\ ~want[r].copy
                                 THEN (IF h.home.docs = "own" THEN "given" ELSE found[r].source) ELSE h.source
BY SMT DEF Undone, Host, TransferUndone, RenewalUndone

LEMMA UndoneLogs ==
  ASSUME NEW r, host[Name(r)] \in Host, NEW s
  PROVE  LET h == host[Name(r)] IN
         Undone(r, s).logs = IF s = "logs" THEN "none" ELSE IF s = "webLogs" THEN "empty" ELSE h.logs
BY SMT DEF Undone, Host, TransferUndone, RenewalUndone

LEMMA UndoneVhost ==
  ASSUME NEW r, host[Name(r)] \in Host, NEW s
  PROVE  LET h == host[Name(r)] IN
         Undone(r, s).vhost = IF s = "vhost" \/ s = "dropVHost" THEN found[r].vhost ELSE h.vhost
BY SMT DEF Undone, Host, TransferUndone, RenewalUndone

LEMMA UndonePool ==
  ASSUME NEW r, host[Name(r)] \in Host, NEW s
  PROVE  LET h == host[Name(r)] IN
         Undone(r, s).pool = IF s = "pool" THEN found[r].pool ELSE h.pool
BY SMT DEF Undone, Host, TransferUndone, RenewalUndone

LEMMA UndoneCrontab ==
  ASSUME NEW r, host[Name(r)] \in Host, NEW s
  PROVE  LET h == host[Name(r)] IN
         Undone(r, s).crontab = IF s = "crontab" THEN found[r].crontab ELSE h.crontab
BY SMT DEF Undone, Host, TransferUndone, RenewalUndone

LEMMA UndoneSchema ==
  ASSUME NEW r, host[Name(r)] \in Host, NEW s
  PROVE  LET h == host[Name(r)] IN
         Undone(r, s).schema = IF s = "schema" THEN "none" ELSE h.schema
BY SMT DEF Undone, Host, TransferUndone, RenewalUndone

LEMMA UndoneLineage ==
  ASSUME NEW r, host[Name(r)] \in Host, NEW s
  PROVE  LET h == host[Name(r)] IN
         Undone(r, s).lineage = IF s = "renewal" THEN found[r].lineage ELSE h.lineage
BY SMT DEF Undone, Host, TransferUndone, RenewalUndone

-----------------------------------------------------------------------------
(* A plan stays what it is as long as it runs.                             *)
LEMMA SamePlan ==
  ASSUME want' = want, NEW r, snap'[r] = snap[r]
  PROVE  /\ Kind(r)' = Kind(r) /\ Name(r)' = Name(r) /\ Last(r)' = Last(r) /\ Steps(r)' = Steps(r)
         /\ \A s : Pos(r, s)' = Pos(r, s)
<1>1. Kind(r)' = Kind(r) /\ Name(r)' = Name(r)
  BY DEF Kind, Name
<1> QED
  BY <1>1, Zenon DEF Last, Steps, Pos

(***************************************************************************)
(* The control of a plan: the moves of module PlanControl stay within the  *)
(* plan, with the lock, and leave the other requests where they are.       *)
(***************************************************************************)
Controlled ==
  /\ ControlTyped(18) /\ want \in [Requests -> Request]
  /\ \A r \in Requests : Placed(r)
Stops(r) == pc[r] = "undo" /\ at[r] > 0 /\ at' = [at EXCEPT ![r] = 0]
            /\ dirty' = [dirty EXCEPT ![r] = TRUE] /\ UNCHANGED <<lock, pc>>
Moves(r) ==
  \/ Prepared(r) \/ Refused(r) \/ Started(r) \/ Advanced(r, Len(Steps(r))) \/ Failed(r)
  \/ Undid(r) \/ DidNotUndo(r) \/ Stops(r) \/ Ended(r, Len(Steps(r)))
OthersStay(r) ==
  \A q \in Requests \ {r} :
    pc'[q] = pc[q] /\ at'[q] = at[q] /\ dirty'[q] = dirty[q] /\ (Running(q)' <=> Running(q))

LEMMA ControlMoves ==
  ASSUME Controlled, NEW r \in Requests, want' = want, Moves(r),
         \A q \in Requests \ {r} : snap'[q] = snap[q], Running(r)' => snap'[r] = snap[r]
  PROVE  Controlled' /\ OthersStay(r)
<1>1. /\ lock \in Requests \cup {NoRequest} /\ pc \in [Requests -> PCs]
      /\ at \in [Requests -> 0..18] /\ dirty \in [Requests -> BOOLEAN]
      /\ \A q \in Requests : Placed(q) /\ Last(q) \in 1..15 /\ Len(Steps(q)) = Last(q)
      /\ NoRequest \notin Requests
  BY StepPlaces, RequestsAssumption, Zenon DEF Controlled, ControlTyped
<1>2. /\ pc' = [pc EXCEPT ![r] = pc'[r]] /\ at' = [at EXCEPT ![r] = at'[r]]
      /\ dirty' = [dirty EXCEPT ![r] = dirty'[r]]
      /\ pc'[r] \in PCs /\ at'[r] \in 0..18 /\ dirty'[r] \in BOOLEAN
      /\ Placed(r)' /\ lock' \in {lock, r, NoRequest} /\ (lock' = r => lock \in {r, NoRequest})
      /\ (lock' = NoRequest => lock \in {r, NoRequest})
  <2>0. Running(r)' => Last(r)' = Last(r)
    BY SamePlan, Zenon
  <2> USE <1>1, <2>0 DEF Placed, Running, Goto
  <2>1. CASE Prepared(r)
    BY <2>1, SMT DEF Prepared, PCs, Verdicts
  <2>2. CASE Refused(r)
    BY <2>2, SMT DEF Refused, PCs, Verdicts
  <2>3. CASE Started(r)
    BY <2>3, SMT DEF Started, PCs, Verdicts
  <2>4. CASE Advanced(r, Len(Steps(r)))
    <3>1. /\ pc[r] = "do" /\ Len(Steps(r)) = Last(r) /\ Last(r) \in 1..15 /\ at[r] \in 1..Last(r)
          /\ at' = [at EXCEPT ![r] = at[r] + 1] /\ pc' = pc /\ dirty' = dirty /\ lock' = lock
          /\ ~dirty[r] /\ lock = r
      BY <2>4, SMT DEF Advanced
    <3>2. at'[r] = at[r] + 1 /\ pc'[r] = "do" /\ ~dirty'[r] /\ Last(r)' = Last(r)
      BY <3>1, SMT
    <3>3. Placed(r)'
      BY <3>1, <3>2, SMT
    <3>4. pc'[r] \in PCs /\ at'[r] \in 0..18 /\ dirty'[r] \in BOOLEAN
      BY <3>1, <3>2, SMTT(30)
    <3>5. /\ pc' = [pc EXCEPT ![r] = pc'[r]] /\ at' = [at EXCEPT ![r] = at'[r]]
          /\ dirty' = [dirty EXCEPT ![r] = dirty'[r]]
      BY <3>1, <3>2, SMT
    <3> QED
      BY <3>1, <3>3, <3>4, <3>5
  <2>5. CASE Failed(r)
    BY <2>5, SMT DEF Failed, PCs, Verdicts
  <2>6. CASE Undid(r)
    BY <2>6, SMT DEF Undid, PCs, Verdicts
  <2>7. CASE DidNotUndo(r)
    BY <2>7, SMT DEF DidNotUndo, PCs, Verdicts
  <2>8. CASE Ended(r, Len(Steps(r)))
    BY <2>8, SMT DEF Ended, Verdict, PCs, Verdicts
  <2>9. CASE Stops(r)
    BY <2>9, SMT DEF Stops, PCs, Verdicts
  <2> QED
    BY <2>1, <2>2, <2>3, <2>4, <2>5, <2>6, <2>7, <2>8, <2>9, Zenon DEF Moves
<1>3. ControlTyped(18)'
  <2>1. pc' \in [Requests -> PCs] /\ at' \in [Requests -> 0..18] /\ dirty' \in [Requests -> BOOLEAN]
    BY <1>1, <1>2, Zenon
  <2>2. lock' \in Requests \cup {NoRequest}
    BY <1>1, <1>2, SMT
  <2> QED
    BY <2>1, <2>2, Zenon DEF ControlTyped
<1>4. OthersStay(r)
  BY <1>1, <1>2, SMT DEF OthersStay, Running
<1>5. ASSUME NEW q \in Requests \ {r} PROVE Placed(q)'
  <2>1. lock' = q <=> lock = q
    BY <1>1, <1>2, SMT
  <2>2. Last(q)' = Last(q)
    BY SamePlan, Zenon
  <2> QED
    BY <1>1, <1>4, <2>1, <2>2, SMT DEF OthersStay, Placed
<1>6. want' \in [Requests -> Request]
  BY Zenon DEF Controlled
<1> QED
  BY <1>2, <1>3, <1>4, <1>5, <1>6, Zenon DEF Controlled

(***************************************************************************)
(* The steps that stand: one more is done, the last of them is undone.     *)
(***************************************************************************)
StepOf(r) == Steps(r)[at[r]]

LEMMA Plan ==
  ASSUME Controlled, NEW r \in Requests
  PROVE  /\ Last(r) \in 1..15 /\ Len(Steps(r)) = Last(r)
         /\ pc \in [Requests -> PCs] /\ at \in [Requests -> 0..18] /\ dirty \in [Requests -> BOOLEAN]
         /\ pc[r] = "do" => at[r] \in 1..Last(r) + 1
         /\ pc[r] = "undo" => at[r] \in 0..Last(r)
         /\ \A t \in StepNames : Pos(r, t) \in 0..15
         /\ \A k \in 1..Last(r) : Steps(r)[k] \in StepNames /\ Pos(r, Steps(r)[k]) = k
         /\ \A t \in StepNames : Pos(r, t) > 0 => Steps(r)[Pos(r, t)] = t
<1>1. want \in [Requests -> Request] /\ ControlTyped(18) /\ Placed(r)
  BY Zenon DEF Controlled
<1>2. Last(r) \in 1..15 /\ Len(Steps(r)) = Last(r)
  BY <1>1, StepPlaces, Zenon
<1>3. ASSUME NEW t \in StepNames PROVE Pos(r, t) \in 0..15
  <2>1. Pos(r, t) \in 0..Last(r)
    BY <1>1, StepPlaces, Zenon
  <2> QED
    BY <1>2, <2>1, SMT
<1> QED
  BY <1>1, <1>2, <1>3, StepPlaces, Zenon DEF ControlTyped, Placed

(* The step that comes next, and the one that is undone next.              *)
LEMMA Facing ==
  ASSUME Controlled, NEW r \in Requests, pc[r] = "do", at[r] <= Len(Steps(r))
  PROVE  /\ StepOf(r) \in StepNames /\ Pos(r, StepOf(r)) = at[r] /\ at[r] \in 1..15
         /\ ~Stands(r, StepOf(r))
         /\ \A t \in StepNames : /\ Pos(r, t) = at[r] <=> t = StepOf(r)
                                 /\ Stands(r, t) <=> 0 < Pos(r, t) /\ Pos(r, t) < at[r]
                                 /\ After(r, t, StepOf(r)) => Stands(r, t)
                                 /\ After(r, StepOf(r), t) => ~Stands(r, t)
<1>0. /\ Last(r) \in 1..15 /\ Len(Steps(r)) = Last(r) /\ at[r] \in 0..18
      /\ pc[r] = "do" => at[r] \in 1..Last(r) + 1
      /\ pc[r] = "undo" => at[r] \in 0..Last(r)
  BY Plan, Zenon
<1>1. at[r] \in 1..Last(r) /\ at[r] \in 1..15
  BY <1>0, SMTT(30)
<1>2. StepOf(r) \in StepNames /\ Pos(r, StepOf(r)) = at[r]
  BY <1>1, Plan, Zenon DEF StepOf
<1>3. ASSUME NEW t \in StepNames
      PROVE  /\ Pos(r, t) = at[r] <=> t = StepOf(r)
             /\ Stands(r, t) <=> 0 < Pos(r, t) /\ Pos(r, t) < at[r]
             /\ After(r, t, StepOf(r)) => Stands(r, t)
             /\ After(r, StepOf(r), t) => ~Stands(r, t)
  <2>1. Pos(r, t) \in Nat
    BY Plan, SMTT(30)
  <2>2. Pos(r, t) > 0 => Steps(r)[Pos(r, t)] = t
    BY Plan, Zenon
  <2>3. Pos(r, t) = at[r] <=> t = StepOf(r)
    BY <1>1, <1>2, <2>2, SMT DEF StepOf
  <2>4. Stands(r, t) <=> 0 < Pos(r, t) /\ Pos(r, t) <= at[r] - 1
    BY Zenon DEF Stands
  <2> QED
    BY <1>1, <1>2, <2>1, <2>3, <2>4, SMT DEF After
<1> QED
  BY <1>1, <1>2, <1>3, SMT

LEMMA Backing ==
  ASSUME Controlled, NEW r \in Requests, pc[r] = "undo", at[r] > 0
  PROVE  /\ StepOf(r) \in StepNames /\ Pos(r, StepOf(r)) = at[r] /\ at[r] \in 1..15
         /\ Stands(r, StepOf(r))
         /\ \A t \in StepNames : /\ Pos(r, t) = at[r] <=> t = StepOf(r)
                                 /\ Stands(r, t) <=> 0 < Pos(r, t) /\ Pos(r, t) <= at[r]
                                 /\ After(r, t, StepOf(r)) => Stands(r, t)
                                 /\ After(r, StepOf(r), t) => ~Stands(r, t)
<1>0. /\ Last(r) \in 1..15 /\ Len(Steps(r)) = Last(r) /\ at[r] \in 0..18
      /\ pc[r] = "do" => at[r] \in 1..Last(r) + 1
      /\ pc[r] = "undo" => at[r] \in 0..Last(r)
  BY Plan, Zenon
<1>1. at[r] \in 1..Last(r) /\ at[r] \in 1..15
  BY <1>0, SMTT(30)
<1>2. StepOf(r) \in StepNames /\ Pos(r, StepOf(r)) = at[r]
  BY <1>1, Plan, Zenon DEF StepOf
<1>3. ASSUME NEW t \in StepNames
      PROVE  /\ Pos(r, t) = at[r] <=> t = StepOf(r)
             /\ Stands(r, t) <=> 0 < Pos(r, t) /\ Pos(r, t) <= at[r]
             /\ After(r, t, StepOf(r)) => Stands(r, t)
             /\ After(r, StepOf(r), t) => ~Stands(r, t)
  <2>1. Pos(r, t) \in Nat
    BY Plan, SMTT(30)
  <2>2. Pos(r, t) > 0 => Steps(r)[Pos(r, t)] = t
    BY Plan, Zenon
  <2>3. Pos(r, t) = at[r] <=> t = StepOf(r)
    BY <1>1, <1>2, <2>2, SMT DEF StepOf
  <2>4. Stands(r, t) <=> 0 < Pos(r, t) /\ Pos(r, t) <= at[r]
    BY SMT DEF Stands
  <2> QED
    BY <1>1, <1>2, <2>1, <2>3, <2>4, SMT DEF After
<1> QED
  BY <1>1, <1>2, <1>3, SMT

LEMMA StandsWhenDone ==
  ASSUME Controlled, NEW r \in Requests, want' = want, snap' = snap, Advanced(r, Len(Steps(r)))
  PROVE  /\ pc[r] = "do" /\ pc'[r] = "do" /\ Running(r) /\ Running(r)' /\ at[r] <= Len(Steps(r))
         /\ \A t \in StepNames : Stands(r, t)' <=> Stands(r, t) \/ t = StepOf(r)
<1>1. pc[r] = "do" /\ pc' = pc /\ at[r] <= Len(Steps(r)) /\ at' = [at EXCEPT ![r] = @ + 1]
  BY Zenon DEF Advanced
<1>0. at \in [Requests -> 0..18] /\ at[r] \in 1..15
  BY <1>1, Facing, Plan, Zenon
<1>2. at[r] \in 1..15 /\ at'[r] = at[r] + 1
  BY <1>0, <1>1, SMT
<1>3. ASSUME NEW t \in StepNames PROVE Stands(r, t)' <=> Stands(r, t) \/ t = StepOf(r)
  <2>1. Stands(r, t)' <=> 0 < Pos(r, t)' /\ Pos(r, t)' <= at'[r] - 1
    BY <1>1, Zenon DEF Stands
  <2>2. Pos(r, t)' = Pos(r, t)
    BY SamePlan
  <2>3. Pos(r, t) \in 0..15 /\ (Pos(r, t) = at[r] <=> t = StepOf(r))
        /\ (Stands(r, t) <=> 0 < Pos(r, t) /\ Pos(r, t) < at[r])
    BY <1>1, Facing, Plan, Zenon
  <2>6. at'[r] - 1 = at[r]
    BY <1>2, SMT
  <2>7. \A p \in 0..15, a \in 1..15 : p <= a <=> p < a \/ p = a
    BY SMT
  <2>4. Pos(r, t) <= at'[r] - 1 <=> Pos(r, t) < at[r] \/ Pos(r, t) = at[r]
    BY <1>2, <2>3, <2>6, <2>7, Zenon
  <2>5. Pos(r, t) = at[r] => 0 < Pos(r, t)
    BY <1>2, SMT
  <2> QED
    BY <2>1, <2>2, <2>3, <2>4, <2>5, Zenon
<1> QED
  BY <1>1, <1>3, Zenon DEF Running

LEMMA StandsWhenFailed ==
  ASSUME Controlled, NEW r \in Requests, want' = want, snap' = snap, Failed(r)
  PROVE  /\ pc[r] = "do" /\ pc'[r] = "undo" /\ Running(r) /\ Running(r)' /\ dirty' = dirty
         /\ \A t \in StepNames : Stands(r, t)' <=> Stands(r, t)
<1>0. /\ pc \in [Requests -> PCs] /\ at \in [Requests -> 0..18] /\ Last(r) \in 1..15
      /\ pc[r] = "do" => at[r] \in 1..Last(r) + 1
  BY Plan, Zenon
<1>1. pc[r] = "do" /\ pc'[r] = "undo" /\ at[r] \in 1..16 /\ at'[r] = at[r] - 1 /\ dirty' = dirty
  BY <1>0, SMT DEF Failed, Goto
<1>2. \A t : Pos(r, t)' = Pos(r, t)
  BY SamePlan
<1> QED
  BY <1>1, <1>2, SMT DEF Stands, Running

LEMMA StandsWhenUndone ==
  ASSUME Controlled, NEW r \in Requests, want' = want, snap' = snap, Undid(r) \/ DidNotUndo(r)
  PROVE  /\ pc[r] = "undo" /\ pc'[r] = "undo" /\ Running(r) /\ Running(r)' /\ at[r] > 0
         /\ \A t \in StepNames : Stands(r, t)' <=> Stands(r, t) /\ t # StepOf(r)
<1>1. pc[r] = "undo" /\ pc' = pc /\ at[r] > 0 /\ at' = [at EXCEPT ![r] = @ - 1]
  BY Zenon DEF Undid, DidNotUndo
<1>0. at \in [Requests -> 0..18] /\ at[r] \in 1..15
  BY <1>1, Backing, Plan, Zenon
<1>2. at[r] \in 1..15 /\ at'[r] = at[r] - 1
  BY <1>0, <1>1, SMT
<1>3. ASSUME NEW t \in StepNames PROVE Stands(r, t)' <=> Stands(r, t) /\ t # StepOf(r)
  <2>1. Stands(r, t)' <=> 0 < Pos(r, t)' /\ Pos(r, t)' <= at'[r]
    BY <1>1, SMT DEF Stands
  <2>2. Pos(r, t)' = Pos(r, t)
    BY SamePlan
  <2>3. Pos(r, t) \in 0..15 /\ (Pos(r, t) = at[r] <=> t = StepOf(r))
        /\ (Stands(r, t) <=> 0 < Pos(r, t) /\ Pos(r, t) <= at[r])
    BY <1>1, Backing, Plan, Zenon
  <2> QED
    BY <1>2, <2>1, <2>2, <2>3, SMT
<1> QED
  BY <1>1, <1>3, Zenon DEF Running

(***************************************************************************)
(* What a step or an undo must find for the host to stay one.              *)
(***************************************************************************)
Sound(r, s) ==
  LET h == host[Name(r)] IN
  /\ s \in {"user", "home", "chown", "record"} => uid[r] \in Uids
  /\ s = "promote" => snap[r].home \in Home
  /\ s = "import" => snap[r] \in Host
  /\ s \in {"transfer", "chown"} => h.home \in Home
  /\ s \in {"status", "quota", "database", "website", "jobs", "certificate"} => h.row \in Row
  /\ s = "status" => want[r].to \in Statuses
  /\ s = "quota" => want[r].to \in Nat
  /\ s = "record" => nextId \in Nat \ {0} /\ (Kind(r) = "restore" => snap[r].row \in Row)
SoundUndo(r, s) ==
  LET h == host[Name(r)] IN
  /\ found[r] \in Host
  /\ s = "transfer" => h.home \in Home
  /\ s \in {"status", "quota"} => h.row \in Row /\ snap[r].row \in Row

LEMMA DoneTyped ==
  ASSUME MaxUid \in Nat, NEW r, NEW h, h = host[Name(r)], h \in Host, NEW s \in StepNames, Sound(r, s)
  PROVE  Done(r, s) \in Host
<1>1. CASE s = "user"
  <2> DEFINE v == uid[r]
  <2>1. Done(r, s) = [h EXCEPT !.user = v]
    BY <1>1, SMT DEF Done, Promoted, Reconfigured, NewRow
  <2>2. v \in Nat
    BY <1>1, SMT DEF Sound, Uids
  <2> HIDE DEF v
  <2> QED
    BY <2>1, <2>2, Zenon DEF Host
<1>2. CASE s = "logs"
  <2>1. Done(r, s) = [h EXCEPT !.logs = IF h.logs = "none" THEN "empty" ELSE h.logs]
    BY <1>2, SMT DEF Done, Host
  <2>2. (IF h.logs = "none" THEN "empty" ELSE h.logs) \in {"none", "empty", "full"}
    BY SMT DEF Host
  <2> QED
    BY <2>1, <2>2, Zenon DEF Host
<1>3. CASE s = "webLogs"
  <2> DEFINE v == "full"
  <2>1. Done(r, s) = [h EXCEPT !.logs = v]
    BY <1>3, SMT DEF Done, Promoted, Reconfigured, NewRow
  <2>2. v \in {"none", "empty", "full"}
    BY SMT
  <2> HIDE DEF v
  <2> QED
    BY <2>1, <2>2, Zenon DEF Host
<1>4. CASE s = "home"
  <2> DEFINE v == [owner |-> uid[r], docs |-> IF h.home = NoHome THEN "none" ELSE h.home.docs]
  <2>1. Done(r, s) = [h EXCEPT !.home = v]
    BY <1>4, SMT DEF Done, Promoted, Reconfigured, NewRow
  <2>2. v \in Home \cup {NoHome}
    BY <1>4, SMT DEF Sound, Uids, Home, Host
  <2> HIDE DEF v
  <2> QED
    BY <2>1, <2>2, Zenon DEF Host
<1>5. CASE s = "promote"
  <2> DEFINE v == snap[r].home
  <2>1. Done(r, s) = [h EXCEPT !.home = v]
    BY <1>5, SMT DEF Done, Promoted, Reconfigured, NewRow
  <2>2. v \in Home \cup {NoHome}
    BY <1>5, SMT DEF Sound
  <2> HIDE DEF v
  <2> QED
    BY <2>1, <2>2, Zenon DEF Host
<1>6. CASE s = "transfer"
  <2> DEFINE home == [h.home EXCEPT !.docs = "legacy"]
             source == IF want[r].copy THEN h.source ELSE "none"
             with == [h EXCEPT !.home = home]
  <2>1. Done(r, s) = [with EXCEPT !.source = source]
    BY <1>6, SMT DEF Done, Transferred, Host
  <2>2. home \in Home
    BY <1>6, SMT DEF Sound, Home
  <2>3. source \in {"none", "legacy", "given"}
    BY <1>6, SMT DEF Sound, Host
  <2>4. with \in Host
    BY <2>2, Zenon DEF Host
  <2> HIDE DEF home, source, with
  <2> QED
    BY <2>1, <2>3, <2>4, Zenon DEF Host
<1>7. CASE s = "chown"
  <2> DEFINE v == [owner |-> uid[r], docs |-> IF h.home.docs = "none" THEN "none" ELSE "own"]
  <2>1. Done(r, s) = [h EXCEPT !.home = v]
    BY <1>7, SMT DEF Done, Promoted, Reconfigured, NewRow
  <2>2. v \in Home \cup {NoHome}
    BY <1>7, SMT DEF Sound, Uids, Home
  <2> HIDE DEF v
  <2> QED
    BY <2>1, <2>2, Zenon DEF Host
<1>8. CASE s = "record"
  <2> DEFINE v == NewRow(r)
  <2>1. Done(r, s) = [h EXCEPT !.row = v]
    BY <1>8, SMT DEF Done, Promoted, Reconfigured, NewRow
  <2>2. v \in Row \cup {NoRow}
    BY <1>8, SMT DEF Sound, NewRow, Row, Statuses, Kind
  <2> HIDE DEF v
  <2> QED
    BY <2>1, <2>2, Zenon DEF Host
<1>9. CASE s = "status"
  <2> DEFINE v == [h.row EXCEPT !.status = want[r].to]
  <2>1. Done(r, s) = [h EXCEPT !.row = v]
    BY <1>9, SMT DEF Done, Promoted, Reconfigured, NewRow
  <2>2. v \in Row \cup {NoRow}
    BY <1>9, SMT DEF Sound, Row
  <2> HIDE DEF v
  <2> QED
    BY <2>1, <2>2, Zenon DEF Host
<1>10. CASE s = "quota"
  <2> DEFINE v == [h.row EXCEPT !.quota = want[r].to]
  <2>1. Done(r, s) = [h EXCEPT !.row = v]
    BY <1>10, SMT DEF Done, Promoted, Reconfigured, NewRow
  <2>2. v \in Row \cup {NoRow}
    BY <1>10, SMT DEF Sound, Row
  <2> HIDE DEF v
  <2> QED
    BY <2>1, <2>2, Zenon DEF Host
<1>11. CASE s = "schema"
  <2> DEFINE v == "empty"
  <2>1. Done(r, s) = [h EXCEPT !.schema = v]
    BY <1>11, SMT DEF Done, Promoted, Reconfigured, NewRow
  <2>2. v \in {"none", "empty", "data"}
    BY SMT
  <2> HIDE DEF v
  <2> QED
    BY <2>1, <2>2, Zenon DEF Host
<1>12. CASE s = "import"
  <2> DEFINE v == snap[r].schema
  <2>1. Done(r, s) = [h EXCEPT !.schema = v]
    BY <1>12, SMT DEF Done, Promoted, Reconfigured, NewRow
  <2>2. v \in {"none", "empty", "data"}
    BY <1>12, SMT DEF Sound, Host
  <2> HIDE DEF v
  <2> QED
    BY <2>1, <2>2, Zenon DEF Host
<1>13. CASE s = "database"
  <2> DEFINE v == h.row.id
  <2>1. Done(r, s) = [h EXCEPT !.db = v]
    BY <1>13, SMT DEF Done, Promoted, Reconfigured, NewRow
  <2>2. v \in Nat
    BY <1>13, SMT DEF Sound, Row
  <2> HIDE DEF v
  <2> QED
    BY <2>1, <2>2, Zenon DEF Host
<1>14. CASE s = "website"
  <2> DEFINE v == h.row.id
  <2>1. Done(r, s) = [h EXCEPT !.web = v]
    BY <1>14, SMT DEF Done, Promoted, Reconfigured, NewRow
  <2>2. v \in Nat
    BY <1>14, SMT DEF Sound, Row
  <2> HIDE DEF v
  <2> QED
    BY <2>1, <2>2, Zenon DEF Host
<1>15. CASE s = "jobs"
  <2> DEFINE v == h.row.id
  <2>1. Done(r, s) = [h EXCEPT !.jobs = v]
    BY <1>15, SMT DEF Done, Promoted, Reconfigured, NewRow
  <2>2. v \in Nat
    BY <1>15, SMT DEF Sound, Row
  <2> HIDE DEF v
  <2> QED
    BY <2>1, <2>2, Zenon DEF Host
<1>16. CASE s = "certificate"
  <2> DEFINE v == h.row.id
  <2>1. Done(r, s) = [h EXCEPT !.cert = v]
    BY <1>16, SMT DEF Done, Promoted, Reconfigured, NewRow
  <2>2. v \in Nat
    BY <1>16, SMT DEF Sound, Row
  <2> HIDE DEF v
  <2> QED
    BY <2>1, <2>2, Zenon DEF Host
<1>17. CASE s = "pool"
  <2> DEFINE v == TRUE
  <2>1. Done(r, s) = [h EXCEPT !.pool = v]
    BY <1>17, SMT DEF Done, Promoted, Reconfigured, NewRow
  <2>2. v \in BOOLEAN
    BY Zenon
  <2> HIDE DEF v
  <2> QED
    BY <2>1, <2>2, Zenon DEF Host
<1>18. CASE s = "vhost"
  <2> DEFINE v == TRUE
  <2>1. Done(r, s) = [h EXCEPT !.vhost = v]
    BY <1>18, SMT DEF Done, Promoted, Reconfigured, NewRow
  <2>2. v \in BOOLEAN
    BY Zenon
  <2> HIDE DEF v
  <2> QED
    BY <2>1, <2>2, Zenon DEF Host
<1>19. CASE s = "crontab"
  <2> DEFINE v == TRUE
  <2>1. Done(r, s) = [h EXCEPT !.crontab = v]
    BY <1>19, SMT DEF Done, Promoted, Reconfigured, NewRow
  <2>2. v \in BOOLEAN
    BY Zenon
  <2> HIDE DEF v
  <2> QED
    BY <2>1, <2>2, Zenon DEF Host
<1>20. CASE s = "renewal"
  <2> DEFINE v == "webroot"
  <2>1. Done(r, s) = [h EXCEPT !.lineage = v]
    BY <1>20, SMT DEF Done, Promoted, Reconfigured, NewRow
  <2>2. v \in {"none", "managed", "legacy", "webroot"}
    BY SMT
  <2> HIDE DEF v
  <2> QED
    BY <2>1, <2>2, Zenon DEF Host
<1>21. CASE s = "dropVHost"
  <2> DEFINE v == FALSE
  <2>1. Done(r, s) = [h EXCEPT !.vhost = v]
    BY <1>21, SMT DEF Done, Promoted, Reconfigured, NewRow
  <2>2. v \in BOOLEAN
    BY Zenon
  <2> HIDE DEF v
  <2> QED
    BY <2>1, <2>2, Zenon DEF Host
<1>22. CASE s = "dropWebsite"
  <2> DEFINE v == 0
  <2>1. Done(r, s) = [h EXCEPT !.web = v]
    BY <1>22, SMT DEF Done, Promoted, Reconfigured, NewRow
  <2>2. v \in Nat
    BY SMT
  <2> HIDE DEF v
  <2> QED
    BY <2>1, <2>2, Zenon DEF Host
<1>23. CASE s = "dropSchema"
  <2> DEFINE v == "none"
  <2>1. Done(r, s) = [h EXCEPT !.schema = v]
    BY <1>23, SMT DEF Done, Promoted, Reconfigured, NewRow
  <2>2. v \in {"none", "empty", "data"}
    BY SMT
  <2> HIDE DEF v
  <2> QED
    BY <2>1, <2>2, Zenon DEF Host
<1>24. CASE s = "dropDatabase"
  <2> DEFINE v == 0
  <2>1. Done(r, s) = [h EXCEPT !.db = v]
    BY <1>24, SMT DEF Done, Promoted, Reconfigured, NewRow
  <2>2. v \in Nat
    BY SMT
  <2> HIDE DEF v
  <2> QED
    BY <2>1, <2>2, Zenon DEF Host
<1>25. CASE s = "dropLineage"
  <2> DEFINE v == "none"
  <2>1. Done(r, s) = [h EXCEPT !.lineage = v]
    BY <1>25, SMT DEF Done, Promoted, Reconfigured, NewRow
  <2>2. v \in {"none", "managed", "legacy", "webroot"}
    BY SMT
  <2> HIDE DEF v
  <2> QED
    BY <2>1, <2>2, Zenon DEF Host
<1>26. CASE s = "dropCertificates"
  <2>1. Done(r, s) \in {h, [h EXCEPT !.cert = 0]}
    BY <1>26, SMT DEF Done
  <2>2. 0 \in Nat
    OBVIOUS
  <2> QED
    BY <2>1, <2>2, ZenonT(40) DEF Host
<1>27. CASE s = "dropPool"
  <2> DEFINE v == FALSE
  <2>1. Done(r, s) = [h EXCEPT !.pool = v]
    BY <1>27, SMT DEF Done, Promoted, Reconfigured, NewRow
  <2>2. v \in BOOLEAN
    BY Zenon
  <2> HIDE DEF v
  <2> QED
    BY <2>1, <2>2, Zenon DEF Host
<1>28. CASE s = "dropHome"
  <2> DEFINE v == NoHome
  <2>1. Done(r, s) = [h EXCEPT !.home = v]
    BY <1>28, SMT DEF Done, Promoted, Reconfigured, NewRow
  <2>2. v \in Home \cup {NoHome}
    BY SMT
  <2> HIDE DEF v
  <2> QED
    BY <2>1, <2>2, Zenon DEF Host
<1>29. CASE s = "dropUser"
  <2> DEFINE v == 0
  <2>1. Done(r, s) = [h EXCEPT !.user = v]
    BY <1>29, SMT DEF Done, Promoted, Reconfigured, NewRow
  <2>2. v \in Nat
    BY SMT
  <2> HIDE DEF v
  <2> QED
    BY <2>1, <2>2, Zenon DEF Host
<1>30. CASE s = "dropRow"
  <2> DEFINE with == [h EXCEPT !.row = NoRow]
  <2>1. Done(r, s) = [with EXCEPT !.jobs = 0]
    BY <1>30, SMT DEF Done, Promoted, Reconfigured, NewRow, Host
  <2>2. with \in Host
    BY Zenon DEF Host
  <2>3. 0 \in Nat
    OBVIOUS
  <2> HIDE DEF with
  <2> QED
    BY <2>1, <2>2, <2>3, Zenon DEF Host
<1>31. CASE s \notin {"user", "logs", "webLogs", "home", "promote", "transfer", "chown", "record", "status", "quota",
                    "schema", "import", "database", "website", "jobs", "certificate", "pool", "vhost", "crontab",
                    "renewal", "dropVHost", "dropWebsite", "dropSchema", "dropDatabase", "dropLineage",
                    "dropCertificates", "dropPool", "dropHome", "dropUser", "dropRow"}
  <2>1. Done(r, s) = h
    BY <1>31, SMT DEF Done, Promoted, Reconfigured, NewRow
  <2> QED
    BY <2>1
<1> QED
  BY <1>1, <1>2, <1>3, <1>4, <1>5, <1>6, <1>7, <1>8, <1>9, <1>10, <1>11, <1>12, <1>13, <1>14, <1>15, <1>16, <1>17, <1>18, <1>19, <1>20, <1>21, <1>22, <1>23, <1>24, <1>25, <1>26, <1>27, <1>28, <1>29, <1>30, <1>31, Zenon

LEMMA UndoneTyped ==
  ASSUME MaxUid \in Nat, NEW r, NEW h, h = host[Name(r)], h \in Host, NEW s \in StepNames, SoundUndo(r, s)
  PROVE  Undone(r, s) \in Host
<1>1. CASE s = "user"
  <2> DEFINE v == 0
  <2>1. Undone(r, s) = [h EXCEPT !.user = v]
    BY <1>1, SMT DEF Undone, RenewalUndone
  <2>2. v \in Nat
    BY SMT
  <2> HIDE DEF v
  <2> QED
    BY <2>1, <2>2, Zenon DEF Host
<1>2. CASE s = "logs"
  <2> DEFINE v == "none"
  <2>1. Undone(r, s) = [h EXCEPT !.logs = v]
    BY <1>2, SMT DEF Undone, RenewalUndone
  <2>2. v \in {"none", "empty", "full"}
    BY SMT
  <2> HIDE DEF v
  <2> QED
    BY <2>1, <2>2, Zenon DEF Host
<1>3. CASE s = "webLogs"
  <2> DEFINE v == "empty"
  <2>1. Undone(r, s) = [h EXCEPT !.logs = v]
    BY <1>3, SMT DEF Undone, RenewalUndone
  <2>2. v \in {"none", "empty", "full"}
    BY SMT
  <2> HIDE DEF v
  <2> QED
    BY <2>1, <2>2, Zenon DEF Host
<1>4. CASE s = "home"
  <2> DEFINE v == NoHome
  <2>1. Undone(r, s) = [h EXCEPT !.home = v]
    BY <1>4, SMT DEF Undone, RenewalUndone
  <2>2. v \in Home \cup {NoHome}
    BY SMT
  <2> HIDE DEF v
  <2> QED
    BY <2>1, <2>2, Zenon DEF Host
<1>5. CASE s = "promote"
  <2> DEFINE v == NoHome
  <2>1. Undone(r, s) = [h EXCEPT !.home = v]
    BY <1>5, SMT DEF Undone, RenewalUndone
  <2>2. v \in Home \cup {NoHome}
    BY SMT
  <2> HIDE DEF v
  <2> QED
    BY <2>1, <2>2, Zenon DEF Host
<1>6. CASE s = "transfer"
  <2> DEFINE home == [h.home EXCEPT !.docs = "none"]
             source == IF want[r].copy THEN h.source ELSE IF h.home.docs = "own" THEN "given" ELSE found[r].source
             with == [h EXCEPT !.home = home]
  <2>1. Undone(r, s) = [with EXCEPT !.source = source]
    BY <1>6, SMT DEF Undone, TransferUndone, Host
  <2>2. home \in Home
    BY <1>6, SMT DEF SoundUndo, Home
  <2>3. source \in {"none", "legacy", "given"}
    BY <1>6, SMT DEF SoundUndo, Host
  <2>4. with \in Host
    BY <2>2, Zenon DEF Host
  <2> HIDE DEF home, source, with
  <2> QED
    BY <2>1, <2>3, <2>4, Zenon DEF Host
<1>7. CASE s = "record"
  <2> DEFINE with == [h EXCEPT !.row = NoRow]
  <2>1. Undone(r, s) = [with EXCEPT !.jobs = 0]
    BY <1>7, SMT DEF Undone, RenewalUndone, Host
  <2>2. with \in Host
    BY Zenon DEF Host
  <2>3. 0 \in Nat
    OBVIOUS
  <2> HIDE DEF with
  <2> QED
    BY <2>1, <2>2, <2>3, Zenon DEF Host
<1>8. CASE s = "status"
  <2> DEFINE v == [h.row EXCEPT !.status = snap[r].row.status]
  <2>1. Undone(r, s) = [h EXCEPT !.row = v]
    BY <1>8, SMT DEF Undone, RenewalUndone
  <2>2. v \in Row \cup {NoRow}
    BY <1>8, SMT DEF SoundUndo, Row
  <2> HIDE DEF v
  <2> QED
    BY <2>1, <2>2, Zenon DEF Host
<1>9. CASE s = "quota"
  <2> DEFINE v == [h.row EXCEPT !.quota = snap[r].row.quota]
  <2>1. Undone(r, s) = [h EXCEPT !.row = v]
    BY <1>9, SMT DEF Undone, RenewalUndone
  <2>2. v \in Row \cup {NoRow}
    BY <1>9, SMT DEF SoundUndo, Row
  <2> HIDE DEF v
  <2> QED
    BY <2>1, <2>2, Zenon DEF Host
<1>10. CASE s = "schema"
  <2> DEFINE v == "none"
  <2>1. Undone(r, s) = [h EXCEPT !.schema = v]
    BY <1>10, SMT DEF Undone, RenewalUndone
  <2>2. v \in {"none", "empty", "data"}
    BY SMT
  <2> HIDE DEF v
  <2> QED
    BY <2>1, <2>2, Zenon DEF Host
<1>11. CASE s = "database"
  <2> DEFINE v == 0
  <2>1. Undone(r, s) = [h EXCEPT !.db = v]
    BY <1>11, SMT DEF Undone, RenewalUndone
  <2>2. v \in Nat
    BY SMT
  <2> HIDE DEF v
  <2> QED
    BY <2>1, <2>2, Zenon DEF Host
<1>12. CASE s = "pool"
  <2> DEFINE v == found[r].pool
  <2>1. Undone(r, s) = [h EXCEPT !.pool = v]
    BY <1>12, SMT DEF Undone, RenewalUndone
  <2>2. v \in BOOLEAN
    BY <1>12, Zenon DEF SoundUndo, Host
  <2> HIDE DEF v
  <2> QED
    BY <2>1, <2>2, Zenon DEF Host
<1>13. CASE s = "vhost"
  <2> DEFINE v == found[r].vhost
  <2>1. Undone(r, s) = [h EXCEPT !.vhost = v]
    BY <1>13, SMT DEF Undone, RenewalUndone
  <2>2. v \in BOOLEAN
    BY <1>13, Zenon DEF SoundUndo, Host
  <2> HIDE DEF v
  <2> QED
    BY <2>1, <2>2, Zenon DEF Host
<1>14. CASE s = "dropVHost"
  <2> DEFINE v == found[r].vhost
  <2>1. Undone(r, s) = [h EXCEPT !.vhost = v]
    BY <1>14, SMT DEF Undone, RenewalUndone
  <2>2. v \in BOOLEAN
    BY <1>14, Zenon DEF SoundUndo, Host
  <2> HIDE DEF v
  <2> QED
    BY <2>1, <2>2, Zenon DEF Host
<1>15. CASE s = "crontab"
  <2> DEFINE v == found[r].crontab
  <2>1. Undone(r, s) = [h EXCEPT !.crontab = v]
    BY <1>15, SMT DEF Undone, RenewalUndone
  <2>2. v \in BOOLEAN
    BY <1>15, Zenon DEF SoundUndo, Host
  <2> HIDE DEF v
  <2> QED
    BY <2>1, <2>2, Zenon DEF Host
<1>16. CASE s = "website"
  <2> DEFINE v == 0
  <2>1. Undone(r, s) = [h EXCEPT !.web = v]
    BY <1>16, SMT DEF Undone, RenewalUndone
  <2>2. v \in Nat
    BY SMT
  <2> HIDE DEF v
  <2> QED
    BY <2>1, <2>2, Zenon DEF Host
<1>17. CASE s = "jobs"
  <2> DEFINE v == 0
  <2>1. Undone(r, s) = [h EXCEPT !.jobs = v]
    BY <1>17, SMT DEF Undone, RenewalUndone
  <2>2. v \in Nat
    BY SMT
  <2> HIDE DEF v
  <2> QED
    BY <2>1, <2>2, Zenon DEF Host
<1>18. CASE s = "certificate"
  <2> DEFINE v == 0
  <2>1. Undone(r, s) = [h EXCEPT !.cert = v]
    BY <1>18, SMT DEF Undone, RenewalUndone
  <2>2. v \in Nat
    BY SMT
  <2> HIDE DEF v
  <2> QED
    BY <2>1, <2>2, Zenon DEF Host
<1>19. CASE s = "renewal"
  <2> DEFINE v == found[r].lineage
  <2>1. Undone(r, s) = [h EXCEPT !.lineage = v]
    BY <1>19, SMT DEF Undone, RenewalUndone
  <2>2. v \in {"none", "managed", "legacy", "webroot"}
    BY <1>19, SMT DEF SoundUndo, Host
  <2> HIDE DEF v
  <2> QED
    BY <2>1, <2>2, Zenon DEF Host
<1>20. CASE s \notin {"user", "logs", "webLogs", "home", "promote", "transfer", "record", "status", "quota",
                    "schema", "database", "pool", "vhost", "dropVHost", "crontab", "website", "jobs",
                    "certificate", "renewal"}
  <2>1. Undone(r, s) = h
    BY <1>20, SMT DEF Undone, RenewalUndone
  <2> QED
    BY <2>1
<1> QED
  BY <1>1, <1>2, <1>3, <1>4, <1>5, <1>6, <1>7, <1>8, <1>9, <1>10, <1>11, <1>12, <1>13, <1>14, <1>15, <1>16, <1>17, <1>18, <1>19, <1>20, Zenon

(***************************************************************************)
(* What the effects rest on while a plan runs: a restore has read an       *)
(* archive that was complete.                                              *)
(***************************************************************************)
Restores(r) ==
  Kind(r) = "restore" /\ pc[r] \in {"ready", "do", "undo"} =>
    /\ snap[r].row \in Row /\ snap[r].home \in Home
    /\ snap[r].db = 0 \/ snap[r].schema # "none"
Planned(r) ==
  /\ Controlled /\ SubscriptionTyped /\ nextId # 0
  /\ Read(r) /\ Grounded(r) /\ Restores(r)

LEMMA ReadRestores ==
  ASSUME NEW r, Read(r), want[r].from \in sealed => Archived(want[r].from)
  PROVE  Restores(r)
<1>1. SUFFICES ASSUME Kind(r) = "restore", pc[r] \in {"ready", "do", "undo"}
               PROVE  /\ snap[r].row \in Row /\ snap[r].home \in Home
                      /\ snap[r].db = 0 \/ snap[r].schema # "none"
  BY Zenon DEF Restores
<1>2. want[r].from \in sealed /\ snap[r] = archive[want[r].from]
  BY <1>1, Zenon DEF Read
<1> QED
  BY <1>2, Zenon DEF Archived, Past

LEMMA SoundHolds ==
  ASSUME NEW r \in Requests, Planned(r), pc[r] = "do", at[r] <= Len(Steps(r)), Possible(r, StepOf(r))
  PROVE  Sound(r, StepOf(r)) /\ host[Name(r)] \in Host
<1> DEFINE s == StepOf(r) h == host[Name(r)]
<1>0. /\ Controlled /\ want \in [Requests -> Request] /\ host \in [Names -> Host] /\ nextId \in Nat /\ nextId # 0
  BY Zenon DEF Planned, Controlled, SubscriptionTyped
<1>1. s \in StepNames /\ Pos(r, s) = at[r] /\ at[r] \in 1..15
      /\ \A t \in StepNames : After(r, t, s) => Stands(r, t)
  BY <1>0, Facing, Zenon
<1>2. Pos(r, s) > 0
  BY <1>1, SMT
<1>3. h \in Host
  BY <1>0, WantedKinds, Zenon
<1>4. /\ snap[r] \in Host
      /\ Kind(r) \in Makers => uid[r] \in Uids
      /\ Kind(r) \in Movers \cup {"database", "delete"} => snap[r].row \in Row
  BY Zenon DEF Planned, Read
<1>5. /\ Stands(r, "home") \/ Stands(r, "promote") => h.home \in Home
      /\ Stands(r, "record") => h.row \in Row
  BY Zenon DEF Planned, Grounded, Running
<1>6. s \in {"user", "home", "chown", "record"} => uid[r] \in Uids
  BY <1>0, <1>2, <1>4, Order, SMT DEF Makers
<1>7. Kind(r) = "restore" => snap[r].row \in Row /\ snap[r].home \in Home
  BY Zenon DEF Planned, Restores
<1>8. s = "promote" => snap[r].home \in Home
  BY <1>0, <1>2, <1>7, Order, Zenon
<1>9. {"home", "promote", "record", "transfer"} \subseteq StepNames
  BY SMT DEF StepNames
<1>10. s \in {"transfer", "chown"} => h.home \in Home
  <2>1. s = "transfer" => After(r, "home", "transfer")
    BY <1>0, <1>2, Order, Zenon
  <2>2. s = "chown" => \/ After(r, "home", "transfer") /\ After(r, "transfer", "chown")
                       \/ After(r, "promote", "chown")
    BY <1>0, <1>2, Order, Zenon
  <2>3. After(r, "home", "transfer") /\ After(r, "transfer", "chown") => After(r, "home", "chown")
    <3>1. Pos(r, "home") \in 0..15 /\ Pos(r, "transfer") \in 0..15 /\ Pos(r, "chown") \in 0..15
      <4>1. "chown" \in StepNames
        BY SMT DEF StepNames
      <4> QED
        BY <1>0, <1>9, <4>1, Plan, Zenon
    <3> QED
      BY <3>1, SMT DEF After
  <2> QED
    BY <1>1, <1>5, <1>9, <2>1, <2>2, <2>3, SMT
<1>11. s \in {"status", "quota", "database", "website", "jobs"} => h.row \in Row
  <2>1. s \in {"status", "quota", "database", "website", "jobs"} => h.row # NoRow
    BY SMT DEF Possible
  <2>2. h.row \in Row \cup {NoRow}
    BY <1>3, Zenon DEF Host
  <2> QED
    BY <2>1, <2>2, Zenon
<1>12. s = "certificate" => h.row \in Row
  <2>1. s = "certificate" => After(r, "record", s)
    BY <1>0, <1>2, Order, SMT
  <2> QED
    BY <1>1, <1>5, <1>9, <2>1, Zenon
<1>13. (s = "status" => want[r].to \in Statuses) /\ (s = "quota" => want[r].to \in Nat)
  BY <1>0, <1>2, Order, WantedKinds, SMT
<1> QED
  BY <1>0, <1>3, <1>4, <1>6, <1>7, <1>8, <1>10, <1>11, <1>12, <1>13, SMT DEF Sound

LEMMA SoundUndoHolds ==
  ASSUME NEW r \in Requests, Planned(r), pc[r] = "undo", at[r] > 0
  PROVE  SoundUndo(r, StepOf(r)) /\ host[Name(r)] \in Host
<1> DEFINE s == StepOf(r) h == host[Name(r)]
<1>0. /\ Controlled /\ want \in [Requests -> Request] /\ host \in [Names -> Host]
  BY Zenon DEF Planned, Controlled, SubscriptionTyped
<1>1. s \in StepNames /\ Pos(r, s) = at[r] /\ at[r] \in 1..15 /\ Stands(r, s)
      /\ \A t \in StepNames : After(r, t, s) => Stands(r, t)
  BY <1>0, Backing, Zenon
<1>2. Pos(r, s) > 0
  BY <1>1, SMT
<1>3. h \in Host
  BY <1>0, WantedKinds, Zenon
<1>4. /\ found[r] \in Host
      /\ Kind(r) \in Movers \cup {"database", "delete"} => snap[r].row \in Row
  BY Zenon DEF Planned, Read, Running
<1>5. /\ Stands(r, "home") => h.home \in Home
      /\ Stands(r, "status") \/ Stands(r, "quota") => h.row \in Row
  BY Zenon DEF Planned, Grounded, Running
<1>6. s = "transfer" => h.home \in Home
  <2>1. s = "transfer" => After(r, "home", s)
    BY <1>0, <1>2, Order, Zenon
  <2>2. "home" \in StepNames
    BY SMT DEF StepNames
  <2> QED
    BY <1>1, <1>5, <2>1, <2>2, Zenon
<1>7. s \in {"status", "quota"} => h.row \in Row /\ snap[r].row \in Row
  <2>1. s \in {"status", "quota"} => Kind(r) \in Movers
    BY <1>0, <1>2, Order, SMT DEF Movers
  <2> QED
    BY <1>1, <1>4, <1>5, <2>1, SMT
<1> QED
  BY <1>3, <1>4, <1>6, <1>7, Zenon DEF SoundUndo

-----------------------------------------------------------------------------
(***************************************************************************)
(* A step of r is done: what the plan rests on, in one place.              *)
(***************************************************************************)
Effect(r, h) ==
  /\ host' = [host EXCEPT ![Name(r)] = h]
  /\ want' = want /\ snap' = snap /\ uid' = uid /\ found' = found
DoesStep(r) ==
  Advanced(r, Len(Steps(r))) /\ Possible(r, StepOf(r)) /\ Effect(r, Done(r, StepOf(r)))
UndoesStep(r) ==
  Undid(r) /\ Undoable(r, StepOf(r)) /\ Effect(r, Undone(r, StepOf(r)))

Same(r) ==
  /\ Name(r)' = Name(r) /\ Kind(r)' = Kind(r)
  /\ want'[r] = want[r] /\ snap'[r] = snap[r] /\ uid'[r] = uid[r] /\ found'[r] = found[r]

LEMMA EffectFrame ==
  ASSUME NEW r \in Requests, SubscriptionTyped, NEW h, Effect(r, h)
  PROVE  /\ Same(r) /\ host'[Name(r)] = h
         /\ \A n \in Names : n # Name(r) => host'[n] = host[n]
<1>1. want \in [Requests -> Request] /\ host \in [Names -> Host]
  BY Zenon DEF SubscriptionTyped
<1>2. Name(r) \in Names
  BY <1>1, WantedKinds, Zenon
<1>3. Name(r)' = Name(r) /\ Kind(r)' = Kind(r)
  BY Zenon DEF Effect, Name, Kind
<1>4. host'[Name(r)] = h /\ \A n \in Names : n # Name(r) => host'[n] = host[n]
  BY <1>1, <1>2, Zenon DEF Effect
<1> QED
  BY <1>3, <1>4, Zenon DEF Same, Effect

LEMMA DoesFrame ==
  ASSUME NEW r \in Requests, Planned(r), DoesStep(r)
  PROVE  /\ Same(r) /\ host'[Name(r)] = Done(r, StepOf(r)) /\ Done(r, StepOf(r)) \in Host
         /\ host[Name(r)] \in Host /\ want \in [Requests -> Request]
         /\ pc[r] = "do" /\ pc'[r] = "do" /\ StepOf(r) \in StepNames
         /\ Pos(r, StepOf(r)) > 0 /\ ~Stands(r, StepOf(r)) /\ Sound(r, StepOf(r))
         /\ \A t \in StepNames : /\ Stands(r, t)' <=> Stands(r, t) \/ t = StepOf(r)
                                 /\ Stands(r, t) => Pos(r, t) > 0
                                 /\ After(r, t, StepOf(r)) => Stands(r, t)
                                 /\ After(r, StepOf(r), t) => ~Stands(r, t)
<1>1. /\ Controlled /\ SubscriptionTyped /\ Advanced(r, Len(Steps(r))) /\ Possible(r, StepOf(r))
      /\ Effect(r, Done(r, StepOf(r)))
  BY Zenon DEF Planned, DoesStep
<1>2. want' = want /\ snap' = snap
  BY <1>1, Zenon DEF Effect
<1>3. /\ pc[r] = "do" /\ pc'[r] = "do" /\ at[r] <= Len(Steps(r))
      /\ \A t \in StepNames : Stands(r, t)' <=> Stands(r, t) \/ t = StepOf(r)
  BY <1>1, <1>2, StandsWhenDone, Zenon
<1>4. /\ StepOf(r) \in StepNames /\ Pos(r, StepOf(r)) = at[r] /\ at[r] \in 1..15 /\ ~Stands(r, StepOf(r))
      /\ \A t \in StepNames : /\ After(r, t, StepOf(r)) => Stands(r, t)
                              /\ After(r, StepOf(r), t) => ~Stands(r, t)
  BY <1>1, <1>3, Facing, Zenon
<1>5. \A t : Stands(r, t) => Pos(r, t) > 0
  BY SMT DEF Stands
<1>6. Sound(r, StepOf(r)) /\ host[Name(r)] \in Host
  BY <1>1, <1>3, SoundHolds, Zenon
<1>7. Done(r, StepOf(r)) \in Host
  <2>1. MaxUid \in Nat
    BY SubscriptionAssumption, Zenon
  <2> QED
    BY <1>4, <1>6, <2>1, DoneTyped, Zenon
<1>8. Pos(r, StepOf(r)) > 0
  BY <1>4, SMT
<1>9. Same(r) /\ host'[Name(r)] = Done(r, StepOf(r))
  BY <1>1, EffectFrame, Zenon
<1>10. want \in [Requests -> Request]
  BY <1>1, Zenon DEF SubscriptionTyped
<1> QED
  BY <1>3, <1>4, <1>5, <1>6, <1>7, <1>8, <1>9, <1>10, Zenon

LEMMA UndoesFrame ==
  ASSUME NEW r \in Requests, Planned(r), UndoesStep(r)
  PROVE  /\ Same(r) /\ host'[Name(r)] = Undone(r, StepOf(r)) /\ Undone(r, StepOf(r)) \in Host
         /\ host[Name(r)] \in Host /\ want \in [Requests -> Request]
         /\ pc[r] = "undo" /\ pc'[r] = "undo" /\ StepOf(r) \in StepNames
         /\ Pos(r, StepOf(r)) > 0 /\ Stands(r, StepOf(r))
         /\ \A t \in StepNames : /\ Stands(r, t)' <=> Stands(r, t) /\ t # StepOf(r)
                                 /\ Stands(r, t) => Pos(r, t) > 0
                                 /\ After(r, t, StepOf(r)) => Stands(r, t)
                                 /\ After(r, StepOf(r), t) => ~Stands(r, t)
<1>1. /\ Controlled /\ SubscriptionTyped /\ Undid(r) /\ Undoable(r, StepOf(r))
      /\ Effect(r, Undone(r, StepOf(r)))
  BY Zenon DEF Planned, UndoesStep
<1>2. want' = want /\ snap' = snap
  BY <1>1, Zenon DEF Effect
<1>3. /\ pc[r] = "undo" /\ pc'[r] = "undo" /\ at[r] > 0
      /\ \A t \in StepNames : Stands(r, t)' <=> Stands(r, t) /\ t # StepOf(r)
  BY <1>1, <1>2, StandsWhenUndone, Zenon
<1>4. /\ StepOf(r) \in StepNames /\ Pos(r, StepOf(r)) = at[r] /\ at[r] \in 1..15 /\ Stands(r, StepOf(r))
      /\ \A t \in StepNames : /\ After(r, t, StepOf(r)) => Stands(r, t)
                              /\ After(r, StepOf(r), t) => ~Stands(r, t)
  BY <1>1, <1>3, Backing, Zenon
<1>5. \A t : Stands(r, t) => Pos(r, t) > 0
  BY SMT DEF Stands
<1>6. SoundUndo(r, StepOf(r)) /\ host[Name(r)] \in Host
  BY <1>1, <1>3, SoundUndoHolds, Zenon
<1>7. Undone(r, StepOf(r)) \in Host
  <2>1. MaxUid \in Nat
    BY SubscriptionAssumption, Zenon
  <2> QED
    BY <1>4, <1>6, <2>1, UndoneTyped, Zenon
<1>8. Pos(r, StepOf(r)) > 0
  BY <1>4, SMT
<1>9. Same(r) /\ host'[Name(r)] = Undone(r, StepOf(r))
  BY <1>1, EffectFrame, Zenon
<1>10. want \in [Requests -> Request]
  BY <1>1, Zenon DEF SubscriptionTyped
<1> QED
  BY <1>3, <1>4, <1>5, <1>6, <1>7, <1>8, <1>9, <1>10, Zenon

(***************************************************************************)
(* What the step makes of each part of the host, and what it has found.    *)
(***************************************************************************)
LEMMA DoUser ==
  ASSUME NEW r \in Requests, Planned(r), DoesStep(r), UserTrace(r)
  PROVE  UserTrace(r)'
<1> DEFINE s == StepOf(r) h == host[Name(r)]
<1>1. /\ Same(r) /\ host'[Name(r)] = Done(r, s) /\ h \in Host /\ want \in [Requests -> Request] /\ Pos(r, s) > 0
      /\ \A t \in StepNames : (Stands(r, t)' <=> Stands(r, t) \/ t = s) /\ (Stands(r, t) => Pos(r, t) > 0)
  BY DoesFrame, Zenon
<1>2. /\ Stands(r, "user")' <=> Stands(r, "user") \/ s = "user"
      /\ Stands(r, "dropUser")' <=> Stands(r, "dropUser") \/ s = "dropUser"
      /\ Stands(r, "user") => Pos(r, "user") > 0
      /\ Stands(r, "dropUser") => Pos(r, "dropUser") > 0
  BY <1>1, SMT DEF StepNames, Drops
<1>3. /\ Pos(r, "user") > 0 => Kind(r) \in Makers
      /\ Pos(r, "dropUser") > 0 => Kind(r) = "delete"
  BY <1>1, Order, SMT DEF Drops
<1>4. Done(r, s).user = IF s = "user" THEN uid[r] ELSE IF s = "dropUser" THEN 0 ELSE h.user
  BY <1>1, DoneUser, SMT
<1>5. s = "user" => h.user = 0
  BY SMT DEF DoesStep, Possible
<1> QED
  BY <1>1, <1>2, <1>3, <1>4, <1>5, SMT DEF UserTrace, Same, Makers

LEMMA DoRow ==
  ASSUME NEW r \in Requests, Planned(r), DoesStep(r), RowTrace(r)
  PROVE  RowTrace(r)'
<1> DEFINE s == StepOf(r) h == host[Name(r)]
<1>1. /\ Same(r) /\ host'[Name(r)] = Done(r, s) /\ Done(r, s) \in Host /\ h \in Host
      /\ want \in [Requests -> Request] /\ Pos(r, s) > 0 /\ ~Stands(r, s) /\ Sound(r, s) /\ pc[r] = "do" /\ pc'[r] = "do"
      /\ \A t \in StepNames : (Stands(r, t)' <=> Stands(r, t) \/ t = s) /\ (Stands(r, t) => Pos(r, t) > 0)
  BY DoesFrame, Zenon
<1>2. /\ Stands(r, "record")' <=> Stands(r, "record") \/ s = "record"
      /\ Stands(r, "dropRow")' <=> Stands(r, "dropRow") \/ s = "dropRow"
      /\ Stands(r, "status")' <=> Stands(r, "status") \/ s = "status"
      /\ Stands(r, "quota")' <=> Stands(r, "quota") \/ s = "quota"
      /\ Stands(r, "record") => Pos(r, "record") > 0
      /\ Stands(r, "dropRow") => Pos(r, "dropRow") > 0
      /\ Stands(r, "status") => Pos(r, "status") > 0
      /\ Stands(r, "quota") => Pos(r, "quota") > 0
  BY <1>1, SMT DEF StepNames, Drops
<1>3. /\ Pos(r, "record") > 0 => Kind(r) \in Makers
      /\ Pos(r, "dropRow") > 0 => Kind(r) = "delete"
      /\ Pos(r, "status") > 0 => Kind(r) = "status"
      /\ Pos(r, "quota") > 0 => Kind(r) = "quota"
  BY <1>1, Order, SMT DEF Drops
<1>4. Done(r, s).row = IF s = "record" THEN NewRow(r)
                       ELSE IF s = "status" THEN [h.row EXCEPT !.status = want[r].to]
                       ELSE IF s = "quota" THEN [h.row EXCEPT !.quota = want[r].to]
                       ELSE IF s = "dropRow" THEN NoRow ELSE h.row
  BY <1>1, DoneRow, SMT
<1>5. /\ s = "record" => h.row = NoRow
      /\ s = "status" \/ s = "quota" => h.row # NoRow
  BY SMT DEF DoesStep, Possible
<1>6. h.row \in Row \cup {NoRow} /\ Done(r, s).row \in Row \cup {NoRow} /\ NoRow \notin Row
  BY <1>1, SubscriptionAssumption, Zenon DEF Host
<1>7. s = "record" => /\ NewRow(r).uid = uid[r] /\ NewRow(r) \in Row
                      /\ Kind(r) = "restore" => NewRow(r).quota = snap[r].row.quota
  <2>3. s = "record" => uid[r] \in Uids /\ nextId \in Nat \ {0} /\ (Kind(r) = "restore" => snap[r].row \in Row)
    BY <1>1, SMT DEF Sound
  <2> QED
    BY <2>3, SMT DEF NewRow, Kind, Row, Statuses
<1>8. CASE s = "record"
  BY <1>1, <1>2, <1>3, <1>4, <1>5, <1>7, <1>8, SMT DEF RowTrace, Same, Makers, Movers
<1>9. CASE s = "dropRow"
  BY <1>1, <1>2, <1>3, <1>4, <1>9, SMT DEF RowTrace, Same, Makers, Movers
<1>10. CASE s = "status"
  <2> DEFINE row == found[r].row
  <2>1. /\ Kind(r) = "status" /\ Kind(r)' = "status" /\ want'[r] = want[r] /\ found'[r] = found[r] /\ Name(r)' = Name(r)
        /\ ~Stands(r, "record")' /\ ~Stands(r, "dropRow")' /\ ~Stands(r, "quota")' /\ Stands(r, "status")'
        /\ ~Stands(r, "status") /\ ~Stands(r, "quota")
    BY <1>1, <1>2, <1>3, <1>10, SMT DEF Same, Makers
  <2>2. h.row = row
    BY <1>1, <2>1, SMT DEF RowTrace, Movers
  <2>3. row \in Row
    BY <1>5, <1>6, <1>10, <2>2, Zenon
  <2>4. host'[Name(r)].row = [row EXCEPT !.status = want[r].to]
    BY <1>1, <1>4, <1>10, <2>2, SMT
  <2>5. host'[Name(r)].row.id = row.id /\ host'[Name(r)].row.uid = row.uid
    BY <2>3, <2>4, SMT DEF Row
  <2>6. host'[Name(r)].row # NoRow /\ row # NoRow
    <3>1. want[r].to \in Statuses
      BY <1>1, <1>10, Zenon DEF Sound
    <3>2. [row EXCEPT !.status = want[r].to] \in Row
      BY <2>3, <3>1, SMT DEF Row
    <3> QED
      BY <1>6, <2>3, <2>4, <3>2, Zenon
  <2> QED
    BY <2>1, <2>4, <2>5, <2>6, SMT DEF RowTrace, Movers
<1>11. CASE s = "quota"
  <2> DEFINE row == found[r].row
  <2>1. /\ Kind(r) = "quota" /\ Kind(r)' = "quota" /\ want'[r] = want[r] /\ found'[r] = found[r] /\ Name(r)' = Name(r)
        /\ ~Stands(r, "record")' /\ ~Stands(r, "dropRow")' /\ ~Stands(r, "status")' /\ Stands(r, "quota")'
        /\ ~Stands(r, "quota") /\ ~Stands(r, "status")
    BY <1>1, <1>2, <1>3, <1>11, SMT DEF Same, Makers
  <2>2. h.row = row
    BY <1>1, <2>1, SMT DEF RowTrace, Movers
  <2>3. row \in Row
    BY <1>5, <1>6, <1>11, <2>2, Zenon
  <2>4. host'[Name(r)].row = [row EXCEPT !.quota = want[r].to]
    BY <1>1, <1>4, <1>11, <2>2, SMT
  <2>5. host'[Name(r)].row.id = row.id /\ host'[Name(r)].row.uid = row.uid
    BY <2>3, <2>4, SMT DEF Row
  <2>6. host'[Name(r)].row # NoRow /\ row # NoRow
    <3>1. want[r].to \in Nat
      BY <1>1, <1>11, Zenon DEF Sound
    <3>2. [row EXCEPT !.quota = want[r].to] \in Row
      BY <2>3, <3>1, SMT DEF Row
    <3> QED
      BY <1>6, <2>3, <2>4, <3>2, Zenon
  <2> QED
    BY <2>1, <2>4, <2>5, <2>6, SMT DEF RowTrace, Movers
<1>12. CASE s \notin {"record", "dropRow", "status", "quota"}
  BY <1>1, <1>2, <1>4, <1>12, SMT DEF RowTrace, Same
<1> QED
  BY <1>8, <1>9, <1>10, <1>11, <1>12

LEMMA DoRows ==
  ASSUME NEW r \in Requests, Planned(r), DoesStep(r), RowsTrace(r)
  PROVE  RowsTrace(r)'
<1> DEFINE s == StepOf(r) h == host[Name(r)]
<1>1. /\ Same(r) /\ host'[Name(r)] = Done(r, s) /\ h \in Host
      /\ want \in [Requests -> Request] /\ Pos(r, s) > 0 /\ Sound(r, s) /\ pc[r] = "do"
      /\ \A t \in StepNames : (Stands(r, t)' <=> Stands(r, t) \/ t = s) /\ (Stands(r, t) => Pos(r, t) > 0)
  BY DoesFrame, Zenon
<1>2. /\ Stands(r, "website")' <=> Stands(r, "website") \/ s = "website"
      /\ Stands(r, "dropWebsite")' <=> Stands(r, "dropWebsite") \/ s = "dropWebsite"
      /\ Stands(r, "database")' <=> Stands(r, "database") \/ s = "database"
      /\ Stands(r, "dropDatabase")' <=> Stands(r, "dropDatabase") \/ s = "dropDatabase"
      /\ Stands(r, "certificate")' <=> Stands(r, "certificate") \/ s = "certificate"
      /\ Stands(r, "dropCertificates")' <=> Stands(r, "dropCertificates") \/ s = "dropCertificates"
      /\ Stands(r, "jobs")' <=> Stands(r, "jobs") \/ s = "jobs"
      /\ Stands(r, "dropRow")' <=> Stands(r, "dropRow") \/ s = "dropRow"
  BY <1>1, SMT DEF StepNames, Drops
<1>3. /\ Stands(r, "website") \/ s = "website" => Kind(r) \in Makers
      /\ Stands(r, "certificate") \/ s = "certificate" => Kind(r) \in Makers
      /\ Stands(r, "database") \/ s = "database" => Kind(r) \in {"database", "restore"}
      /\ Stands(r, "jobs") \/ s = "jobs" => Kind(r) = "restore"
      /\ \A t \in {"dropWebsite", "dropDatabase", "dropCertificates", "dropRow"} :
           Stands(r, t) \/ s = t => Kind(r) = "delete"
  <2>1. /\ \A t \in {"website", "certificate"} : Pos(r, t) > 0 => Kind(r) \in Makers
        /\ Pos(r, "database") > 0 => Kind(r) \in {"database", "restore"}
        /\ Pos(r, "jobs") > 0 => Kind(r) = "restore"
        /\ \A t \in Drops : Pos(r, t) > 0 => Kind(r) = "delete"
    BY <1>1, Order, SMT
  <2> QED
    BY <1>1, <2>1, SMT DEF StepNames, Drops
<1>4. /\ Done(r, s).web = IF s = "website" THEN h.row.id ELSE IF s = "dropWebsite" THEN 0 ELSE h.web
      /\ Done(r, s).db = IF s = "database" THEN h.row.id ELSE IF s = "dropDatabase" THEN 0 ELSE h.db
      /\ Done(r, s).jobs = IF s = "jobs" THEN h.row.id ELSE IF s = "dropRow" THEN 0 ELSE h.jobs
      /\ Done(r, s).cert = IF s = "certificate" THEN h.row.id
                           ELSE IF s = "dropCertificates" /\ h.cert = snap[r].row.id THEN 0 ELSE h.cert
  BY <1>1, DoneWeb, DoneDb, DoneJobs, DoneCert, SMT
<1>5. /\ s = "website" => h.web = 0
      /\ s = "database" => h.db = 0
      /\ s = "certificate" => h.cert = 0
  BY SMT DEF DoesStep, Possible
<1>6. s \in {"website", "database", "certificate", "jobs"} => h.row.id # 0
  BY <1>1, SMT DEF Sound, Row
<1> QED
  BY <1>1, <1>2, <1>3, <1>4, <1>5, <1>6, SMT DEF RowsTrace, Same, Makers

LEMMA DoHome ==
  ASSUME NEW r \in Requests, Planned(r), DoesStep(r), HomeTrace(r)
  PROVE  HomeTrace(r)'
<1> DEFINE s == StepOf(r) h == host[Name(r)]
<1>1. /\ Same(r) /\ host'[Name(r)] = Done(r, s) /\ h \in Host
      /\ want \in [Requests -> Request] /\ Pos(r, s) > 0 /\ Sound(r, s)
      /\ \A t \in StepNames : /\ Stands(r, t)' <=> Stands(r, t) \/ t = s
                              /\ Stands(r, t) => Pos(r, t) > 0
                              /\ After(r, t, s) => Stands(r, t)
                              /\ After(r, s, t) => ~Stands(r, t)
  BY DoesFrame, Zenon
<1>2. /\ Stands(r, "home")' <=> Stands(r, "home") \/ s = "home"
      /\ Stands(r, "promote")' <=> Stands(r, "promote") \/ s = "promote"
      /\ Stands(r, "transfer")' <=> Stands(r, "transfer") \/ s = "transfer"
      /\ Stands(r, "chown")' <=> Stands(r, "chown") \/ s = "chown"
      /\ Stands(r, "dropHome")' <=> Stands(r, "dropHome") \/ s = "dropHome"
  BY <1>1, SMT DEF StepNames, Drops
<1>3. /\ Stands(r, "home") \/ s = "home" => Kind(r) \in {"create", "adopt"}
      /\ Stands(r, "promote") \/ s = "promote" => Kind(r) = "restore"
      /\ Stands(r, "transfer") \/ s = "transfer" => Kind(r) = "adopt"
      /\ Stands(r, "chown") \/ s = "chown" => Kind(r) \in {"adopt", "restore"}
      /\ Stands(r, "dropHome") \/ s = "dropHome" => Kind(r) = "delete"
  <2>1. /\ Pos(r, "home") > 0 => Kind(r) \in {"create", "adopt"}
        /\ Pos(r, "promote") > 0 => Kind(r) = "restore"
        /\ Pos(r, "transfer") > 0 => Kind(r) = "adopt"
        /\ Pos(r, "chown") > 0 => Kind(r) \in {"adopt", "restore"}
        /\ Pos(r, "dropHome") > 0 => Kind(r) = "delete"
    BY <1>1, Order, SMT DEF Drops
  <2> QED
    BY <1>1, <2>1, SMT DEF StepNames, Drops
<1>4. /\ s = "transfer" => Stands(r, "home")
      /\ s = "chown" => Stands(r, "home") \/ Stands(r, "promote")
      /\ s = "home" => ~Stands(r, "transfer") /\ ~Stands(r, "chown")
      /\ s = "promote" => ~Stands(r, "chown")
      /\ s = "transfer" => ~Stands(r, "chown")
  <2>1. /\ Pos(r, "transfer") > 0 => After(r, "home", "transfer")
        /\ Pos(r, "chown") > 0 /\ Kind(r) = "adopt" =>
             After(r, "home", "transfer") /\ After(r, "transfer", "chown")
        /\ Pos(r, "chown") > 0 /\ Kind(r) # "adopt" => After(r, "promote", "chown")
    BY <1>1, Order, Zenon
  <2>2. After(r, "home", "transfer") /\ After(r, "transfer", "chown") => After(r, "home", "chown")
    <3>1. Pos(r, "home") \in 0..15 /\ Pos(r, "transfer") \in 0..15 /\ Pos(r, "chown") \in 0..15
      <4>1. Controlled
        BY Zenon DEF Planned
      <4>2. "home" \in StepNames /\ "transfer" \in StepNames /\ "chown" \in StepNames
        BY SMT DEF StepNames
      <4> QED
        BY <4>1, <4>2, Plan, Zenon
    <3> QED
      BY <3>1, SMT DEF After
  <2> QED
    BY <1>1, <1>3, <2>1, <2>2, SMT DEF StepNames
<1>5. Done(r, s).home = IF s = "home" THEN [owner |-> uid[r], docs |-> IF h.home = NoHome THEN "none" ELSE h.home.docs]
                        ELSE IF s = "promote" THEN snap[r].home
                        ELSE IF s = "transfer" THEN [h.home EXCEPT !.docs = "legacy"]
                        ELSE IF s = "chown" THEN [owner |-> uid[r], docs |-> IF h.home.docs = "none" THEN "none" ELSE "own"]
                        ELSE IF s = "dropHome" THEN NoHome ELSE h.home
  BY <1>1, DoneHome, SMT
<1>6. Done(r, s).source = IF s = "transfer" /\ ~want[r].copy THEN "none" ELSE h.source
  BY <1>1, DoneSource, SMT
<1>7. s \in {"transfer", "chown"} => h.home \in Home
  BY <1>1, SMT DEF Sound
<1>8. CASE s = "home"
  BY <1>1, <1>2, <1>3, <1>4, <1>5, <1>6, <1>8, SMT DEF HomeTrace, Same
<1>9. CASE s = "promote"
  BY <1>1, <1>2, <1>3, <1>4, <1>5, <1>6, <1>9, SMT DEF HomeTrace, Same
<1>10. CASE s = "transfer"
  <2>1. Done(r, s).home.owner = h.home.owner /\ Done(r, s).home.docs = "legacy"
    BY <1>5, <1>7, <1>10, SMT DEF Home
  <2> QED
    BY <1>1, <1>2, <1>3, <1>4, <1>6, <1>10, <2>1, SMT DEF HomeTrace, Same
<1>11. CASE s = "chown"
  <2>1. Done(r, s).home.owner = uid[r] /\ (Done(r, s).home.docs = "none" <=> h.home.docs = "none")
    BY <1>5, <1>11, SMT
  <2> QED
    BY <1>1, <1>2, <1>3, <1>4, <1>6, <1>11, <2>1, SMT DEF HomeTrace, Same
<1>12. CASE s = "dropHome"
  BY <1>1, <1>2, <1>3, <1>5, <1>6, <1>12, SMT DEF HomeTrace, Same
<1>13. CASE s \notin {"home", "promote", "transfer", "chown", "dropHome"}
  BY <1>1, <1>2, <1>5, <1>6, <1>13, SMT DEF HomeTrace, Same
<1> QED
  BY <1>8, <1>9, <1>10, <1>11, <1>12, <1>13

LEMMA DoLogs ==
  ASSUME NEW r \in Requests, Planned(r), DoesStep(r), LogsTrace(r)
  PROVE  LogsTrace(r)'
<1> DEFINE s == StepOf(r) h == host[Name(r)]
<1>1. /\ Same(r) /\ host'[Name(r)] = Done(r, s) /\ h \in Host
      /\ want \in [Requests -> Request] /\ Pos(r, s) > 0 /\ pc[r] = "do" /\ pc'[r] = "do"
      /\ \A t \in StepNames : Stands(r, t)' <=> Stands(r, t) \/ t = s
  BY DoesFrame, Zenon
<1>2. Stands(r, "webLogs")' <=> Stands(r, "webLogs") \/ s = "webLogs"
  BY <1>1, SMT DEF StepNames
<1>3. s = "webLogs" => Kind(r) = "adopt"
  BY <1>1, Order, SMT
<1>4. Done(r, s).logs = IF s = "logs" THEN (IF h.logs = "none" THEN "empty" ELSE h.logs)
                        ELSE IF s = "webLogs" THEN "full" ELSE h.logs
  BY <1>1, DoneLogs, SMT
<1> QED
  BY <1>1, <1>2, <1>3, <1>4, SMT DEF LogsTrace, Same

LEMMA DoSystem ==
  ASSUME NEW r \in Requests, Planned(r), DoesStep(r), SystemTrace(r)
  PROVE  SystemTrace(r)'
<1> DEFINE s == StepOf(r) h == host[Name(r)]
<1>1. /\ Same(r) /\ host'[Name(r)] = Done(r, s) /\ h \in Host
      /\ want \in [Requests -> Request] /\ Pos(r, s) > 0
      /\ \A t \in StepNames : /\ Stands(r, t)' <=> Stands(r, t) \/ t = s
                              /\ Stands(r, t) => Pos(r, t) > 0
                              /\ After(r, s, t) => ~Stands(r, t)
  BY DoesFrame, Zenon
<1>2. /\ Stands(r, "vhost")' <=> Stands(r, "vhost") \/ s = "vhost"
      /\ Stands(r, "dropVHost")' <=> Stands(r, "dropVHost") \/ s = "dropVHost"
      /\ Stands(r, "pool")' <=> Stands(r, "pool") \/ s = "pool"
      /\ Stands(r, "dropPool")' <=> Stands(r, "dropPool") \/ s = "dropPool"
      /\ Stands(r, "crontab")' <=> Stands(r, "crontab") \/ s = "crontab"
  BY <1>1, SMT DEF StepNames, Drops
<1>3. /\ Stands(r, "import")' <=> Stands(r, "import") \/ s = "import"
      /\ Stands(r, "schema")' <=> Stands(r, "schema") \/ s = "schema"
      /\ Stands(r, "dropSchema")' <=> Stands(r, "dropSchema") \/ s = "dropSchema"
      /\ Stands(r, "renewal")' <=> Stands(r, "renewal") \/ s = "renewal"
      /\ Stands(r, "dropLineage")' <=> Stands(r, "dropLineage") \/ s = "dropLineage"
  BY <1>1, SMT DEF StepNames, Drops
<1>4. /\ \A t \in {"vhost", "pool", "renewal"} : Stands(r, t) \/ s = t => Kind(r) \in Makers
      /\ \A t \in {"dropVHost", "dropPool", "dropSchema", "dropLineage"} : Stands(r, t) \/ s = t => Kind(r) = "delete"
      /\ \A t \in {"schema", "import"} : Stands(r, t) \/ s = t => Kind(r) \in {"database", "restore"}
  <2>1. /\ \A t \in {"vhost", "pool", "renewal"} : Pos(r, t) > 0 => Kind(r) \in Makers
        /\ \A t \in Drops \cup {"dropVHost"} : Pos(r, t) > 0 => Kind(r) = "delete"
        /\ \A t \in {"schema", "import"} : Pos(r, t) > 0 => Kind(r) \in {"database", "restore"}
    BY <1>1, Order, SMT
  <2> QED
    BY <1>1, <2>1, SMT DEF StepNames, Drops
<1>5. /\ s = "schema" => ~Stands(r, "import")
      /\ s = "schema" => h.schema = "none"
  <2>1. Pos(r, "import") > 0 => After(r, "schema", "import")
    BY <1>1, Order, SMT
  <2>2. s = "schema" => ~Stands(r, "import")
    BY <1>1, <2>1, SMT DEF StepNames
  <2> QED
    BY <2>2, SMT DEF DoesStep, Possible
<1>6. /\ host'[Name(r)].schema = IF Stands(r, "import")' THEN snap[r].schema
                ELSE IF Stands(r, "schema")' THEN "empty"
                ELSE IF Stands(r, "dropSchema")' THEN "none" ELSE found[r].schema
      /\ Stands(r, "schema")' => found[r].schema = "none"
  <2>1. Done(r, s).schema = IF s = "schema" THEN "empty" ELSE IF s = "import" THEN snap[r].schema
                            ELSE IF s = "dropSchema" THEN "none" ELSE h.schema
    BY <1>1, DoneSchema, SMT
  <2> QED
    BY <1>1, <1>3, <1>4, <1>5, <2>1, SMT DEF SystemTrace
<1>7. host'[Name(r)].lineage = IF Stands(r, "renewal")' THEN "webroot"
                 ELSE IF Stands(r, "dropLineage")' THEN "none" ELSE found[r].lineage
  <2>1. Done(r, s).lineage = IF s = "renewal" THEN "webroot" ELSE IF s = "dropLineage" THEN "none" ELSE h.lineage
    BY <1>1, DoneLineage, SMT
  <2> QED
    BY <1>1, <1>3, <1>4, <2>1, SMT DEF SystemTrace, Makers
<1>8. host'[Name(r)].vhost = IF Stands(r, "vhost")' THEN TRUE ELSE IF Stands(r, "dropVHost")' THEN FALSE ELSE found[r].vhost
  <2>1. /\ s = "vhost" => Done(r, s).vhost = TRUE
        /\ s = "dropVHost" => Done(r, s).vhost = FALSE
        /\ s # "vhost" /\ s # "dropVHost" => Done(r, s).vhost = h.vhost
    BY <1>1, DoneVhost, Zenon
  <2>2. h.vhost = IF Stands(r, "vhost") THEN TRUE ELSE IF Stands(r, "dropVHost") THEN FALSE ELSE found[r].vhost
    BY Zenon DEF SystemTrace
  <2>3. (s = "dropVHost" => ~Stands(r, "vhost")) /\ ~("vhost" = "dropVHost")
    BY <1>4, SMT DEF Makers
  <2> QED
    BY <1>1, <1>2, <2>1, <2>2, <2>3, Zenon
<1>9. host'[Name(r)].pool = IF Stands(r, "pool")' THEN TRUE ELSE IF Stands(r, "dropPool")' THEN FALSE ELSE found[r].pool
  <2>1. /\ s = "pool" => Done(r, s).pool = TRUE
        /\ s = "dropPool" => Done(r, s).pool = FALSE
        /\ s # "pool" /\ s # "dropPool" => Done(r, s).pool = h.pool
    BY <1>1, DonePool, Zenon
  <2>2. h.pool = IF Stands(r, "pool") THEN TRUE ELSE IF Stands(r, "dropPool") THEN FALSE ELSE found[r].pool
    BY Zenon DEF SystemTrace
  <2>3. (s = "dropPool" => ~Stands(r, "pool")) /\ ~("pool" = "dropPool")
    BY <1>4, SMT DEF Makers
  <2> QED
    BY <1>1, <1>2, <2>1, <2>2, <2>3, Zenon
<1>10. host'[Name(r)].crontab = IF Stands(r, "crontab")' THEN TRUE ELSE found[r].crontab
  <2>1. /\ s = "crontab" => Done(r, s).crontab = TRUE
        /\ s # "crontab" => Done(r, s).crontab = h.crontab
    BY <1>1, DoneCrontab, Zenon
  <2>2. h.crontab = IF Stands(r, "crontab") THEN TRUE ELSE found[r].crontab
    BY Zenon DEF SystemTrace
  <2> QED
    BY <1>1, <1>2, <2>1, <2>2, Zenon
<1>11. Name(r)' = Name(r) /\ snap'[r] = snap[r] /\ found'[r] = found[r]
  BY <1>1, Zenon DEF Same
<1> QED
  BY <1>6, <1>7, <1>8, <1>9, <1>10, <1>11, Zenon DEF SystemTrace

LEMMA DoTrace ==
  ASSUME NEW r \in Requests, Planned(r), DoesStep(r), Trace(r)
  PROVE  Trace(r)'
<1>1. UserTrace(r) /\ RowTrace(r) /\ RowsTrace(r) /\ HomeTrace(r) /\ LogsTrace(r) /\ SystemTrace(r)
  BY Zenon DEF Trace
<1>2. UserTrace(r)' /\ RowTrace(r)' /\ RowsTrace(r)'
  BY <1>1, DoUser, DoRow, DoRows, Zenon
<1>3. HomeTrace(r)' /\ LogsTrace(r)' /\ SystemTrace(r)'
  BY <1>1, DoHome, DoLogs, DoSystem, Zenon
<1> QED
  BY <1>2, <1>3, Zenon DEF Trace

(***************************************************************************)
(* What the undo of the last step that stands brings back.                 *)
(***************************************************************************)
LEMMA UndoUser ==
  ASSUME NEW r \in Requests, Planned(r), UndoesStep(r), UserTrace(r)
  PROVE  UserTrace(r)'
<1> DEFINE s == StepOf(r) h == host[Name(r)]
<1>1. /\ Same(r) /\ host'[Name(r)] = Undone(r, s) /\ h \in Host
      /\ want \in [Requests -> Request] /\ Pos(r, s) > 0 /\ Stands(r, s)
      /\ \A t \in StepNames : (Stands(r, t)' <=> Stands(r, t) /\ t # s) /\ (Stands(r, t) => Pos(r, t) > 0)
  BY UndoesFrame, Zenon
<1>2. /\ Stands(r, "user")' <=> Stands(r, "user") /\ s # "user"
      /\ Stands(r, "dropUser")' <=> Stands(r, "dropUser") /\ s # "dropUser"
      /\ Stands(r, "user") => Pos(r, "user") > 0
      /\ Stands(r, "dropUser") => Pos(r, "dropUser") > 0
  BY <1>1, SMT DEF StepNames, Drops
<1>3. /\ Pos(r, "user") > 0 => Kind(r) \in Makers
      /\ Pos(r, "dropUser") > 0 => Kind(r) = "delete"
  BY <1>1, Order, SMT DEF Drops
<1>4. Undone(r, s).user = IF s = "user" THEN 0 ELSE h.user
  BY <1>1, UndoneUser, SMT
<1>5. s # "dropUser"
  BY SMT DEF UndoesStep, Undoable, Irreversible, Drops
<1> QED
  BY <1>1, <1>2, <1>3, <1>4, <1>5, SMT DEF UserTrace, Same, Makers

LEMMA RowAgain ==
  ASSUME NEW row \in Row, NEW b, NEW c
  PROVE  /\ [[row EXCEPT !.status = b] EXCEPT !.status = c] = [row EXCEPT !.status = c]
         /\ [[row EXCEPT !.quota = b] EXCEPT !.quota = c] = [row EXCEPT !.quota = c]
<1>1. [[row EXCEPT !.status = b] EXCEPT !.status = c] = [row EXCEPT !.status = c]
  BY Zenon DEF Row
<1>2. [[row EXCEPT !.quota = b] EXCEPT !.quota = c] = [row EXCEPT !.quota = c]
  BY Zenon DEF Row
<1> QED
  BY <1>1, <1>2

LEMMA UndoRow ==
  ASSUME NEW r \in Requests, Planned(r), UndoesStep(r), RowTrace(r)
  PROVE  RowTrace(r)'
<1> DEFINE s == StepOf(r) h == host[Name(r)]
<1>1. /\ Same(r) /\ host'[Name(r)] = Undone(r, s) /\ h \in Host /\ Stands(r, s)
      /\ want \in [Requests -> Request] /\ Pos(r, s) > 0 /\ pc[r] = "undo" /\ pc'[r] = "undo"
      /\ \A t \in StepNames : (Stands(r, t)' <=> Stands(r, t) /\ t # s) /\ (Stands(r, t) => Pos(r, t) > 0)
  BY UndoesFrame, Zenon
<1>2. /\ Stands(r, "record")' <=> Stands(r, "record") /\ s # "record"
      /\ Stands(r, "dropRow")' <=> Stands(r, "dropRow") /\ s # "dropRow"
      /\ Stands(r, "status")' <=> Stands(r, "status") /\ s # "status"
      /\ Stands(r, "quota")' <=> Stands(r, "quota") /\ s # "quota"
      /\ Stands(r, "record") => Pos(r, "record") > 0
      /\ Stands(r, "dropRow") => Pos(r, "dropRow") > 0
      /\ Stands(r, "status") => Pos(r, "status") > 0
      /\ Stands(r, "quota") => Pos(r, "quota") > 0
  BY <1>1, SMT DEF StepNames, Drops
<1>3. /\ Pos(r, "record") > 0 => Kind(r) \in Makers
      /\ Pos(r, "dropRow") > 0 => Kind(r) = "delete"
      /\ Pos(r, "status") > 0 => Kind(r) = "status"
      /\ Pos(r, "quota") > 0 => Kind(r) = "quota"
  BY <1>1, Order, SMT DEF Drops
<1>4. Undone(r, s).row = IF s = "record" THEN NoRow
                         ELSE IF s = "status" THEN [h.row EXCEPT !.status = snap[r].row.status]
                         ELSE IF s = "quota" THEN [h.row EXCEPT !.quota = snap[r].row.quota] ELSE h.row
  BY <1>1, UndoneRow, SMT
<1>5. s # "dropRow"
  BY SMT DEF UndoesStep, Undoable, Irreversible, Drops
<1>6. found[r].row \in Row \cup {NoRow} /\ NoRow \notin Row /\ SoundUndo(r, s)
  <2>1. found[r] \in Host
    BY <1>1, Zenon DEF Planned, Read, Running
  <2>2. at[r] > 0
    BY Zenon DEF UndoesStep, Undid
  <2>3. SoundUndo(r, s)
    BY <1>1, <2>2, SoundUndoHolds, Zenon
  <2> QED
    BY <2>1, <2>3, SubscriptionAssumption, Zenon DEF Host
<1>8. CASE s = "record"
  <2>1. /\ Kind(r) \in Makers /\ Kind(r)' = Kind(r) /\ found'[r] = found[r] /\ Name(r)' = Name(r)
        /\ ~Stands(r, "record")' /\ ~Stands(r, "dropRow")' /\ Stands(r, "record")
    BY <1>1, <1>2, <1>3, <1>8, SMT DEF Same, Makers
  <2>2. found[r].row = NoRow
    BY <2>1, Zenon DEF RowTrace
  <2>3. host'[Name(r)].row = NoRow
    BY <1>1, <1>4, <1>8, SMT
  <2>4. Kind(r)' \notin Movers
    BY <2>1, SMT DEF Makers, Movers
  <2> QED
    BY <2>1, <2>2, <2>3, <2>4, Zenon DEF RowTrace
<1>10. CASE s = "status"
  <2> DEFINE row == found[r].row
  <2>1. /\ Kind(r) = "status" /\ Kind(r)' = "status" /\ found'[r] = found[r] /\ snap'[r] = snap[r] /\ Name(r)' = Name(r)
        /\ ~Stands(r, "record")' /\ ~Stands(r, "dropRow")' /\ ~Stands(r, "quota")' /\ ~Stands(r, "status")'
        /\ Stands(r, "status")
    BY <1>1, <1>2, <1>3, <1>10, SMT DEF Same, Makers
  <2>2. row # NoRow /\ h.row = [row EXCEPT !.status = want[r].to]
    BY <2>1, SMT DEF RowTrace, Movers
  <2>3. row \in Row
    BY <1>6, <2>2, Zenon
  <2>4. host'[Name(r)].row = [row EXCEPT !.status = snap[r].row.status]
    <3>1. host'[Name(r)].row = [h.row EXCEPT !.status = snap[r].row.status]
      BY <1>1, <1>4, <1>10, SMT
    <3> QED
      BY <2>2, <2>3, <3>1, RowAgain, Zenon
  <2>5. host'[Name(r)].row.id = row.id /\ host'[Name(r)].row.uid = row.uid
    BY <2>3, <2>4, SMT DEF Row
  <2>6. host'[Name(r)].row # NoRow
    <3>1. snap[r].row \in Row
      BY <1>6, <1>10, SMT DEF SoundUndo
    <3>2. [row EXCEPT !.status = snap[r].row.status] \in Row
      BY <2>3, <3>1, SMT DEF Row
    <3> QED
      BY <1>6, <2>4, <3>2, Zenon
  <2>7. snap[r].row = row => host'[Name(r)].row = row
    BY <2>3, <2>4, SMT DEF Row
  <2> QED
    BY <1>1, <2>1, <2>2, <2>5, <2>6, <2>7, SMT DEF RowTrace, Movers
<1>11. CASE s = "quota"
  <2> DEFINE row == found[r].row
  <2>1. /\ Kind(r) = "quota" /\ Kind(r)' = "quota" /\ found'[r] = found[r] /\ snap'[r] = snap[r] /\ Name(r)' = Name(r)
        /\ ~Stands(r, "record")' /\ ~Stands(r, "dropRow")' /\ ~Stands(r, "status")' /\ ~Stands(r, "quota")'
        /\ Stands(r, "quota")
    BY <1>1, <1>2, <1>3, <1>11, SMT DEF Same, Makers
  <2>2. row # NoRow /\ h.row = [row EXCEPT !.quota = want[r].to]
    BY <2>1, SMT DEF RowTrace, Movers
  <2>3. row \in Row
    BY <1>6, <2>2, Zenon
  <2>4. host'[Name(r)].row = [row EXCEPT !.quota = snap[r].row.quota]
    <3>1. host'[Name(r)].row = [h.row EXCEPT !.quota = snap[r].row.quota]
      BY <1>1, <1>4, <1>11, SMT
    <3> QED
      BY <2>2, <2>3, <3>1, RowAgain, Zenon
  <2>5. host'[Name(r)].row.id = row.id /\ host'[Name(r)].row.uid = row.uid
    BY <2>3, <2>4, SMT DEF Row
  <2>6. host'[Name(r)].row # NoRow
    <3>1. snap[r].row \in Row
      BY <1>6, <1>11, SMT DEF SoundUndo
    <3>2. [row EXCEPT !.quota = snap[r].row.quota] \in Row
      BY <2>3, <3>1, SMT DEF Row
    <3> QED
      BY <1>6, <2>4, <3>2, Zenon
  <2>7. snap[r].row = row => host'[Name(r)].row = row
    BY <2>3, <2>4, SMT DEF Row
  <2> QED
    BY <1>1, <2>1, <2>2, <2>5, <2>6, <2>7, SMT DEF RowTrace, Movers
<1>12. CASE s \notin {"record", "status", "quota"}
  <2>1. /\ Kind(r)' = Kind(r) /\ found'[r] = found[r] /\ Name(r)' = Name(r) /\ snap'[r] = snap[r]
        /\ uid'[r] = uid[r] /\ want'[r] = want[r]
    BY <1>1, SMT DEF Same
  <2>2. /\ Stands(r, "record")' <=> Stands(r, "record")
        /\ Stands(r, "dropRow")' <=> Stands(r, "dropRow")
        /\ Stands(r, "status")' <=> Stands(r, "status")
        /\ Stands(r, "quota")' <=> Stands(r, "quota")
    BY <1>2, <1>5, <1>12, SMT
  <2>3. host'[Name(r)].row = h.row
    BY <1>1, <1>4, <1>12, SMT
  <2> QED
    BY <1>1, <2>1, <2>2, <2>3, SMT DEF RowTrace
<1> QED
  BY <1>8, <1>10, <1>11, <1>12

LEMMA UndoRows ==
  ASSUME NEW r \in Requests, Planned(r), UndoesStep(r), RowsTrace(r), RowTrace(r)
  PROVE  RowsTrace(r)'
<1> DEFINE s == StepOf(r) h == host[Name(r)]
<1>1. /\ Same(r) /\ host'[Name(r)] = Undone(r, s) /\ h \in Host /\ Stands(r, s)
      /\ want \in [Requests -> Request] /\ Pos(r, s) > 0 /\ pc[r] = "undo"
      /\ \A t \in StepNames : /\ Stands(r, t)' <=> Stands(r, t) /\ t # s
                              /\ Stands(r, t) => Pos(r, t) > 0
                              /\ After(r, t, s) => Stands(r, t)
                              /\ After(r, s, t) => ~Stands(r, t)
  BY UndoesFrame, Zenon
<1>2. /\ Stands(r, "website")' <=> Stands(r, "website") /\ s # "website"
      /\ Stands(r, "dropWebsite")' <=> Stands(r, "dropWebsite") /\ s # "dropWebsite"
      /\ Stands(r, "database")' <=> Stands(r, "database") /\ s # "database"
      /\ Stands(r, "dropDatabase")' <=> Stands(r, "dropDatabase") /\ s # "dropDatabase"
      /\ Stands(r, "certificate")' <=> Stands(r, "certificate") /\ s # "certificate"
      /\ Stands(r, "dropCertificates")' <=> Stands(r, "dropCertificates") /\ s # "dropCertificates"
      /\ Stands(r, "jobs")' <=> Stands(r, "jobs") /\ s # "jobs"
      /\ Stands(r, "dropRow")' <=> Stands(r, "dropRow") /\ s # "dropRow"
  BY <1>1, SMT DEF StepNames, Drops
<1>3. /\ Stands(r, "website") => Kind(r) \in Makers
      /\ Stands(r, "certificate") => Kind(r) \in Makers
      /\ Stands(r, "database") => Kind(r) \in {"database", "restore"}
      /\ Stands(r, "jobs") \/ Stands(r, "record") => Kind(r) \in Makers
      /\ \A t \in {"dropWebsite", "dropDatabase", "dropCertificates", "dropRow"} :
           Stands(r, t) => Kind(r) = "delete"
  <2>1. /\ \A t \in {"website", "certificate"} : Pos(r, t) > 0 => Kind(r) \in Makers
        /\ Pos(r, "database") > 0 => Kind(r) \in {"database", "restore"}
        /\ Pos(r, "jobs") > 0 => Kind(r) = "restore"
        /\ Pos(r, "record") > 0 => Kind(r) \in Makers
        /\ \A t \in Drops : Pos(r, t) > 0 => Kind(r) = "delete"
    BY <1>1, Order, SMT
  <2> QED
    BY <1>1, <2>1, SMT DEF StepNames, Drops, Makers
<1>4. /\ Undone(r, s).web = IF s = "website" THEN 0 ELSE h.web
      /\ Undone(r, s).db = IF s = "database" THEN 0 ELSE h.db
      /\ Undone(r, s).cert = IF s = "certificate" THEN 0 ELSE h.cert
      /\ Undone(r, s).jobs = IF s = "jobs" \/ s = "record" THEN 0 ELSE h.jobs
  BY <1>1, UndoneWeb, UndoneDb, UndoneCert, UndoneJobs, SMT
<1>5. s \notin Drops
  BY SMT DEF UndoesStep, Undoable, Irreversible, Drops
<1>6. /\ s \in {"record", "jobs"} => Stands(r, "record")
      /\ s = "record" => ~Stands(r, "jobs")
  <2>1. Pos(r, "jobs") > 0 => After(r, "record", "jobs")
    BY <1>1, Order, SMT
  <2> QED
    BY <1>1, <2>1, SMT DEF StepNames
<1>7. s \in {"record", "jobs"} => found[r].jobs = 0
  <2>1. Refers(found[r])
    BY <1>1, Zenon DEF Planned, Read, Running
  <2>2. Stands(r, "record") => found[r].row = NoRow
    BY Zenon DEF RowTrace
  <2> QED
    BY <1>6, <2>1, <2>2, SMT DEF Refers
<1> QED
  BY <1>1, <1>2, <1>3, <1>4, <1>5, <1>6, <1>7, SMT DEF RowsTrace, Same, Makers, Drops

(* A plan that makes a user has found no subscription.                     *)
LEMMA MadeOfNothing ==
  ASSUME NEW r, UserTrace(r), Stands(r, "user"), Whole(found[r]), found[r] \in Host
  PROVE  found[r].row = NoRow /\ found[r].home = NoHome
<1>1. found[r].user = 0
  BY Zenon DEF UserTrace
<1>2. found[r].row # NoRow => found[r].row \in Row /\ found[r].user = found[r].row.uid
  BY Zenon DEF Whole, Host
<1>3. MaxUid \in Nat
  BY SubscriptionAssumption, Zenon
<1>4. found[r].row = NoRow
  BY <1>1, <1>2, <1>3, SMT DEF Row, Uids
<1> QED
  BY <1>4, Zenon DEF Whole

LEMMA UndoHome ==
  ASSUME NEW r \in Requests, Planned(r), UndoesStep(r), HomeTrace(r), UserTrace(r), Whole(found[r])
  PROVE  HomeTrace(r)'
<1> DEFINE s == StepOf(r) h == host[Name(r)]
<1>1. /\ Same(r) /\ host'[Name(r)] = Undone(r, s) /\ h \in Host /\ Stands(r, s)
      /\ want \in [Requests -> Request] /\ Pos(r, s) > 0 /\ pc[r] = "undo"
      /\ \A t \in StepNames : /\ Stands(r, t)' <=> Stands(r, t) /\ t # s
                              /\ Stands(r, t) => Pos(r, t) > 0
                              /\ After(r, t, s) => Stands(r, t)
                              /\ After(r, s, t) => ~Stands(r, t)
  BY UndoesFrame, Zenon
<1>2. /\ Stands(r, "home")' <=> Stands(r, "home") /\ s # "home"
      /\ Stands(r, "promote")' <=> Stands(r, "promote") /\ s # "promote"
      /\ Stands(r, "transfer")' <=> Stands(r, "transfer") /\ s # "transfer"
      /\ Stands(r, "chown")' <=> Stands(r, "chown") /\ s # "chown"
      /\ Stands(r, "dropHome")' <=> Stands(r, "dropHome") /\ s # "dropHome"
  BY <1>1, SMT DEF StepNames, Drops
<1>3. /\ Stands(r, "home") => Kind(r) \in {"create", "adopt"}
      /\ Stands(r, "promote") => Kind(r) = "restore"
      /\ Stands(r, "transfer") => Kind(r) = "adopt"
      /\ Stands(r, "chown") => Kind(r) \in {"adopt", "restore"}
      /\ Stands(r, "dropHome") => Kind(r) = "delete"
  <2>1. /\ Pos(r, "home") > 0 => Kind(r) \in {"create", "adopt"}
        /\ Pos(r, "promote") > 0 => Kind(r) = "restore"
        /\ Pos(r, "transfer") > 0 => Kind(r) = "adopt"
        /\ Pos(r, "chown") > 0 => Kind(r) \in {"adopt", "restore"}
        /\ Pos(r, "dropHome") > 0 => Kind(r) = "delete"
    BY <1>1, Order, SMT DEF Drops
  <2> QED
    BY <1>1, <2>1, SMT DEF StepNames, Drops
<1>4. /\ s = "home" => ~Stands(r, "transfer") /\ ~Stands(r, "chown")
      /\ s = "promote" => ~Stands(r, "chown")
      /\ s = "transfer" => ~Stands(r, "chown") /\ Stands(r, "home")
      /\ s \in {"home", "promote"} => Stands(r, "user")
  <2>1. /\ Pos(r, "transfer") > 0 => After(r, "home", "transfer")
        /\ Pos(r, "chown") > 0 /\ Kind(r) = "adopt" =>
             After(r, "home", "transfer") /\ After(r, "transfer", "chown")
        /\ Pos(r, "chown") > 0 /\ Kind(r) # "adopt" => After(r, "promote", "chown")
        /\ Pos(r, "home") > 0 => After(r, "user", "home")
        /\ Pos(r, "promote") > 0 => After(r, "user", "promote")
    BY <1>1, Order, Zenon
  <2>2. After(r, "home", "transfer") /\ After(r, "transfer", "chown") => After(r, "home", "chown")
    <3>1. Pos(r, "home") \in 0..15 /\ Pos(r, "transfer") \in 0..15 /\ Pos(r, "chown") \in 0..15
      <4>1. Controlled
        BY Zenon DEF Planned
      <4>2. "home" \in StepNames /\ "transfer" \in StepNames /\ "chown" \in StepNames
        BY SMT DEF StepNames
      <4> QED
        BY <4>1, <4>2, Plan, Zenon
    <3> QED
      BY <3>1, SMT DEF After
  <2> QED
    BY <1>1, <1>3, <2>1, <2>2, SMT DEF StepNames
<1>5. Undone(r, s).home = IF s = "home" \/ s = "promote" THEN NoHome
                          ELSE IF s = "transfer" THEN [h.home EXCEPT !.docs = "none"] ELSE h.home
  BY <1>1, UndoneHome, SMT
<1>6. Undone(r, s).source = IF s = "transfer" /\ ~want[r].copy
                            THEN (IF h.home.docs = "own" THEN "given" ELSE found[r].source) ELSE h.source
  BY <1>1, UndoneSource, SMT
<1>7. s \notin {"chown", "dropHome"}
  BY SMT DEF UndoesStep, Undoable, Irreversible, Drops
<1>8. CASE s \in {"home", "promote"}
  <2>1. found[r] \in Host
    BY <1>1, Zenon DEF Planned, Read, Running
  <2>2. found[r].home = NoHome
    BY <1>4, <1>8, <2>1, MadeOfNothing, Zenon
  <2> QED
    BY <1>1, <1>2, <1>3, <1>4, <1>5, <1>6, <1>8, <2>2, SMT DEF HomeTrace, Same
<1>9. CASE s = "transfer"
  <2>1. h.home \in Home
    BY <1>1, <1>4, <1>9, Zenon DEF Planned, Grounded, Running
  <2>2. Undone(r, s).home.owner = h.home.owner
    BY <1>5, <1>9, <2>1, SMT DEF Home
  <2>3. h.home.docs = "legacy"
    BY <1>1, <1>4, <1>9, SMT DEF HomeTrace
  <2> QED
    BY <1>1, <1>2, <1>3, <1>4, <1>6, <1>9, <2>2, <2>3, SMT DEF HomeTrace, Same
<1>10. CASE s \notin {"home", "promote", "transfer"}
  BY <1>1, <1>2, <1>5, <1>6, <1>7, <1>10, SMT DEF HomeTrace, Same
<1> QED
  BY <1>8, <1>9, <1>10

LEMMA UndoLogs ==
  ASSUME NEW r \in Requests, Planned(r), UndoesStep(r), LogsTrace(r)
  PROVE  LogsTrace(r)'
<1> DEFINE s == StepOf(r) h == host[Name(r)]
<1>1. /\ Same(r) /\ host'[Name(r)] = Undone(r, s) /\ h \in Host /\ Stands(r, s)
      /\ want \in [Requests -> Request] /\ Pos(r, s) > 0 /\ pc[r] = "undo" /\ pc'[r] = "undo"
      /\ \A t \in StepNames : Stands(r, t)' <=> Stands(r, t) /\ t # s
  BY UndoesFrame, Zenon
<1>2. Stands(r, "logs")' <=> Stands(r, "logs") /\ s # "logs"
  BY <1>1, SMT DEF StepNames
<1>3. s = "webLogs" => Kind(r) = "adopt"
  BY <1>1, Order, SMT
<1>4. Undone(r, s).logs = IF s = "logs" THEN "none" ELSE IF s = "webLogs" THEN "empty" ELSE h.logs
  BY <1>1, UndoneLogs, SMT
<1>5. s = "logs" => h.logs = "empty"
  BY SMT DEF UndoesStep, Undoable
<1> QED
  BY <1>1, <1>2, <1>3, <1>4, <1>5, SMT DEF LogsTrace, Same

LEMMA UndoSystem ==
  ASSUME NEW r \in Requests, Planned(r), UndoesStep(r), SystemTrace(r)
  PROVE  SystemTrace(r)'
<1> DEFINE s == StepOf(r) h == host[Name(r)]
<1>1. /\ Same(r) /\ host'[Name(r)] = Undone(r, s) /\ h \in Host /\ Stands(r, s)
      /\ want \in [Requests -> Request] /\ Pos(r, s) > 0
      /\ \A t \in StepNames : /\ Stands(r, t)' <=> Stands(r, t) /\ t # s
                              /\ Stands(r, t) => Pos(r, t) > 0
                              /\ After(r, s, t) => ~Stands(r, t)
  BY UndoesFrame, Zenon
<1>2. /\ Stands(r, "vhost")' <=> Stands(r, "vhost") /\ s # "vhost"
      /\ Stands(r, "dropVHost")' <=> Stands(r, "dropVHost") /\ s # "dropVHost"
      /\ Stands(r, "pool")' <=> Stands(r, "pool") /\ s # "pool"
      /\ Stands(r, "dropPool")' <=> Stands(r, "dropPool") /\ s # "dropPool"
      /\ Stands(r, "crontab")' <=> Stands(r, "crontab") /\ s # "crontab"
  BY <1>1, SMT DEF StepNames, Drops
<1>3. /\ Stands(r, "import")' <=> Stands(r, "import") /\ s # "import"
      /\ Stands(r, "schema")' <=> Stands(r, "schema") /\ s # "schema"
      /\ Stands(r, "dropSchema")' <=> Stands(r, "dropSchema") /\ s # "dropSchema"
      /\ Stands(r, "renewal")' <=> Stands(r, "renewal") /\ s # "renewal"
      /\ Stands(r, "dropLineage")' <=> Stands(r, "dropLineage") /\ s # "dropLineage"
  BY <1>1, SMT DEF StepNames, Drops
<1>4. /\ \A t \in {"vhost", "pool", "renewal"} : Stands(r, t) => Kind(r) \in Makers
      /\ \A t \in {"dropVHost", "dropPool", "dropSchema", "dropLineage"} : Stands(r, t) => Kind(r) = "delete"
      /\ \A t \in {"schema", "import"} : Stands(r, t) => Kind(r) \in {"database", "restore"}
  <2>1. /\ \A t \in {"vhost", "pool", "renewal"} : Pos(r, t) > 0 => Kind(r) \in Makers
        /\ \A t \in Drops \cup {"dropVHost"} : Pos(r, t) > 0 => Kind(r) = "delete"
        /\ \A t \in {"schema", "import"} : Pos(r, t) > 0 => Kind(r) \in {"database", "restore"}
    BY <1>1, Order, SMT
  <2> QED
    BY <1>1, <2>1, SMT DEF StepNames, Drops
<1>5. s = "schema" => ~Stands(r, "import")
  <2>1. Pos(r, "import") > 0 => After(r, "schema", "import")
    BY <1>1, Order, SMT
  <2> QED
    BY <1>1, <2>1, SMT DEF StepNames
<1>0. s \notin {"import", "dropSchema", "dropLineage", "dropPool"}
  BY SMT DEF UndoesStep, Undoable, Irreversible, Drops
<1>6. /\ host'[Name(r)].schema = IF Stands(r, "import")' THEN snap[r].schema
                ELSE IF Stands(r, "schema")' THEN "empty"
                ELSE IF Stands(r, "dropSchema")' THEN "none" ELSE found[r].schema
      /\ Stands(r, "schema")' => found[r].schema = "none"
  <2>1. Undone(r, s).schema = IF s = "schema" THEN "none" ELSE h.schema
    BY <1>1, UndoneSchema, SMT
  <2> QED
    BY <1>0, <1>1, <1>3, <1>4, <1>5, <2>1, SMT DEF SystemTrace
<1>7. host'[Name(r)].lineage = IF Stands(r, "renewal")' THEN "webroot"
                 ELSE IF Stands(r, "dropLineage")' THEN "none" ELSE found[r].lineage
  <2>1. Undone(r, s).lineage = IF s = "renewal" THEN found[r].lineage ELSE h.lineage
    BY <1>1, UndoneLineage, SMT
  <2> QED
    BY <1>0, <1>1, <1>3, <1>4, <2>1, SMT DEF SystemTrace, Makers
<1>8. host'[Name(r)].vhost = IF Stands(r, "vhost")' THEN TRUE ELSE IF Stands(r, "dropVHost")' THEN FALSE ELSE found[r].vhost
  <2>1. /\ s = "vhost" \/ s = "dropVHost" => Undone(r, s).vhost = found[r].vhost
        /\ s # "vhost" /\ s # "dropVHost" => Undone(r, s).vhost = h.vhost
    BY <1>1, UndoneVhost, SMT
  <2>2. h.vhost = IF Stands(r, "vhost") THEN TRUE ELSE IF Stands(r, "dropVHost") THEN FALSE ELSE found[r].vhost
    BY Zenon DEF SystemTrace
  <2>3. ~(Stands(r, "vhost") /\ Stands(r, "dropVHost")) /\ ~("vhost" = "dropVHost")
    BY <1>4, SMT DEF Makers
  <2> QED
    BY <1>1, <1>2, <2>1, <2>2, <2>3, Zenon
<1>9. host'[Name(r)].pool = IF Stands(r, "pool")' THEN TRUE ELSE IF Stands(r, "dropPool")' THEN FALSE ELSE found[r].pool
  <2>1. /\ s = "pool" => Undone(r, s).pool = found[r].pool
        /\ s # "pool" => Undone(r, s).pool = h.pool
    BY <1>1, UndonePool, SMT
  <2>2. h.pool = IF Stands(r, "pool") THEN TRUE ELSE IF Stands(r, "dropPool") THEN FALSE ELSE found[r].pool
    BY Zenon DEF SystemTrace
  <2>3. ~(Stands(r, "pool") /\ Stands(r, "dropPool")) /\ ~("pool" = "dropPool")
    BY <1>4, SMT DEF Makers
  <2>4. s # "dropPool"
    BY <1>0, SMT
  <2> QED
    BY <1>1, <1>2, <2>1, <2>2, <2>3, <2>4, Zenon
<1>10. host'[Name(r)].crontab = IF Stands(r, "crontab")' THEN TRUE ELSE found[r].crontab
  <2>1. /\ s = "crontab" => Undone(r, s).crontab = found[r].crontab
        /\ s # "crontab" => Undone(r, s).crontab = h.crontab
    BY <1>1, UndoneCrontab, SMT
  <2>2. h.crontab = IF Stands(r, "crontab") THEN TRUE ELSE found[r].crontab
    BY Zenon DEF SystemTrace
  <2> QED
    BY <1>1, <1>2, <2>1, <2>2, Zenon
<1>11. Name(r)' = Name(r) /\ snap'[r] = snap[r] /\ found'[r] = found[r]
  BY <1>1, Zenon DEF Same
<1> QED
  BY <1>6, <1>7, <1>8, <1>9, <1>10, <1>11, Zenon DEF SystemTrace

LEMMA UndoTrace ==
  ASSUME NEW r \in Requests, Planned(r), UndoesStep(r), Trace(r), Whole(found[r])
  PROVE  Trace(r)'
<1>1. UserTrace(r) /\ RowTrace(r) /\ RowsTrace(r) /\ HomeTrace(r) /\ LogsTrace(r) /\ SystemTrace(r)
  BY Zenon DEF Trace
<1>2. UserTrace(r)' /\ RowTrace(r)' /\ RowsTrace(r)'
  BY <1>1, UndoUser, UndoRow, UndoRows, Zenon
<1>3. HomeTrace(r)' /\ LogsTrace(r)' /\ SystemTrace(r)'
  BY <1>1, UndoHome, UndoLogs, UndoSystem, Zenon
<1> QED
  BY <1>2, <1>3, Zenon DEF Trace

(***************************************************************************)
(* A step that fails without a trace, and moves that leave the host alone. *)
(***************************************************************************)
Alike(r) ==
  LET h == host[Name(r)] i == host'[Name(r)] IN
  /\ i.row = h.row /\ i.web = h.web /\ i.db = h.db /\ i.cert = h.cert /\ i.jobs = h.jobs
  /\ i.user = h.user /\ i.home = h.home /\ i.schema = h.schema /\ i.lineage = h.lineage /\ i.source = h.source
  /\ i.vhost = h.vhost /\ i.pool = h.pool /\ i.crontab = h.crontab

LEMMA SameTrace ==
  ASSUME NEW r, Same(r), Alike(r), pc'[r] \in {pc[r], "undo"},
         \A t \in StepNames : Stands(r, t)' <=> Stands(r, t)
  PROVE  /\ UserTrace(r) => UserTrace(r)' 
         /\ RowTrace(r) => RowTrace(r)'
         /\ RowsTrace(r) => RowsTrace(r)'
         /\ HomeTrace(r) => HomeTrace(r)'
         /\ SystemTrace(r) => SystemTrace(r)'
<1>1. /\ Stands(r, "user")' <=> Stands(r, "user")
      /\ Stands(r, "dropUser")' <=> Stands(r, "dropUser")
      /\ Stands(r, "record")' <=> Stands(r, "record")
      /\ Stands(r, "dropRow")' <=> Stands(r, "dropRow")
      /\ Stands(r, "status")' <=> Stands(r, "status")
      /\ Stands(r, "quota")' <=> Stands(r, "quota")
  BY SMT DEF StepNames, Drops
<1>2. /\ Stands(r, "website")' <=> Stands(r, "website")
      /\ Stands(r, "dropWebsite")' <=> Stands(r, "dropWebsite")
      /\ Stands(r, "database")' <=> Stands(r, "database")
      /\ Stands(r, "dropDatabase")' <=> Stands(r, "dropDatabase")
      /\ Stands(r, "certificate")' <=> Stands(r, "certificate")
      /\ Stands(r, "dropCertificates")' <=> Stands(r, "dropCertificates")
      /\ Stands(r, "jobs")' <=> Stands(r, "jobs")
  BY SMT DEF StepNames, Drops
<1>3. /\ Stands(r, "home")' <=> Stands(r, "home")
      /\ Stands(r, "promote")' <=> Stands(r, "promote")
      /\ Stands(r, "transfer")' <=> Stands(r, "transfer")
      /\ Stands(r, "chown")' <=> Stands(r, "chown")
      /\ Stands(r, "dropHome")' <=> Stands(r, "dropHome")
  BY SMT DEF StepNames, Drops
<1>4. /\ Stands(r, "vhost")' <=> Stands(r, "vhost")
      /\ Stands(r, "dropVHost")' <=> Stands(r, "dropVHost")
      /\ Stands(r, "pool")' <=> Stands(r, "pool")
      /\ Stands(r, "dropPool")' <=> Stands(r, "dropPool")
      /\ Stands(r, "crontab")' <=> Stands(r, "crontab")
      /\ Stands(r, "import")' <=> Stands(r, "import")
      /\ Stands(r, "schema")' <=> Stands(r, "schema")
      /\ Stands(r, "dropSchema")' <=> Stands(r, "dropSchema")
      /\ Stands(r, "renewal")' <=> Stands(r, "renewal")
      /\ Stands(r, "dropLineage")' <=> Stands(r, "dropLineage")
  BY SMT DEF StepNames, Drops
<1>5. UserTrace(r) => UserTrace(r)'
  BY <1>1, SMT DEF UserTrace, Same, Alike
<1>6. RowTrace(r) => RowTrace(r)'
  BY <1>1, SMT DEF RowTrace, Same, Alike
<1>7. RowsTrace(r) => RowsTrace(r)'
  BY <1>1, <1>2, SMT DEF RowsTrace, Same, Alike
<1>8. HomeTrace(r) => HomeTrace(r)'
  BY <1>3, SMT DEF HomeTrace, Same, Alike
<1>9. SystemTrace(r) => SystemTrace(r)'
  <2>1. ASSUME SystemTrace(r)
        PROVE  /\ host'[Name(r)].vhost = IF Stands(r, "vhost")' THEN TRUE
                                         ELSE IF Stands(r, "dropVHost")' THEN FALSE ELSE found[r].vhost
               /\ host'[Name(r)].pool = IF Stands(r, "pool")' THEN TRUE
                                        ELSE IF Stands(r, "dropPool")' THEN FALSE ELSE found[r].pool
               /\ host'[Name(r)].crontab = IF Stands(r, "crontab")' THEN TRUE ELSE found[r].crontab
    BY <1>4, <2>1, Zenon DEF SystemTrace, Alike
  <2>2. ASSUME SystemTrace(r)
        PROVE  /\ host'[Name(r)].schema = IF Stands(r, "import")' THEN snap[r].schema
                  ELSE IF Stands(r, "schema")' THEN "empty"
                  ELSE IF Stands(r, "dropSchema")' THEN "none" ELSE found[r].schema
               /\ Stands(r, "schema")' => found[r].schema = "none"
               /\ host'[Name(r)].lineage = IF Stands(r, "renewal")' THEN "webroot"
                 ELSE IF Stands(r, "dropLineage")' THEN "none" ELSE found[r].lineage
    BY <1>4, <2>2, SMT DEF SystemTrace, Alike
  <2>3. Name(r)' = Name(r) /\ snap'[r] = snap[r] /\ found'[r] = found[r]
    BY Zenon DEF Same
  <2> QED
    BY <2>1, <2>2, <2>3, Zenon DEF SystemTrace
<1> QED
  BY <1>5, <1>6, <1>7, <1>8, <1>9

(* Truncating the logs of a legacy site leaves the logs of the step before.*)
FailsClean(r) ==
  /\ Failed(r)
  /\ \/ host' = host /\ want' = want /\ snap' = snap /\ uid' = uid /\ found' = found
     \/ at[r] <= Len(Steps(r)) /\ StepOf(r) = "webLogs" /\ Effect(r, Done(r, "webLogs"))

LEMMA FailTrace ==
  ASSUME NEW r \in Requests, Planned(r), FailsClean(r), Trace(r)
  PROVE  Trace(r)'
<1> DEFINE h == host[Name(r)]
<1>1. /\ Controlled /\ SubscriptionTyped /\ want \in [Requests -> Request] /\ h \in Host
      /\ want' = want /\ snap' = snap /\ uid' = uid /\ found' = found
  <2>1. SubscriptionTyped /\ Controlled
    BY Zenon DEF Planned
  <2>2. want \in [Requests -> Request] /\ host \in [Names -> Host]
    BY <2>1, Zenon DEF SubscriptionTyped
  <2> QED
    BY <2>1, <2>2, WantedKinds, Zenon DEF FailsClean, Effect
<1>2. /\ pc[r] = "do" /\ pc'[r] = "undo"
      /\ \A t \in StepNames : Stands(r, t)' <=> Stands(r, t)
  BY <1>1, StandsWhenFailed, Zenon DEF FailsClean
<1>3. Same(r)
  BY <1>1, Zenon DEF Same, Name, Kind
<1>4. /\ Stands(r, "webLogs") => Stands(r, "logs")
      /\ at[r] <= Len(Steps(r)) /\ StepOf(r) = "webLogs" => Kind(r) = "adopt" /\ Stands(r, "logs")
  <2>1. Pos(r, "webLogs") > 0 => Kind(r) = "adopt" /\ After(r, "logs", "webLogs")
    BY <1>1, Order, Zenon
  <2>2. Stands(r, "webLogs") /\ After(r, "logs", "webLogs") => Stands(r, "logs")
    <3>1. Pos(r, "logs") \in 0..15 /\ Pos(r, "webLogs") \in 0..15 /\ at \in [Requests -> 0..18]
      <4>1. "logs" \in StepNames /\ "webLogs" \in StepNames
        BY SMT DEF StepNames
      <4> QED
        BY <1>1, <4>1, Plan, Zenon
    <3> QED
      BY <1>2, <3>1, SMT DEF Stands, After
  <2>3. Stands(r, "webLogs") => Pos(r, "webLogs") > 0
    BY SMT DEF Stands
  <2>4. ASSUME at[r] <= Len(Steps(r)), StepOf(r) = "webLogs"
        PROVE  Kind(r) = "adopt" /\ Stands(r, "logs")
    <3>1. /\ Pos(r, "webLogs") = at[r] /\ at[r] \in 1..15
          /\ \A t \in StepNames : After(r, t, "webLogs") => Stands(r, t)
      BY <1>1, <1>2, <2>4, Facing, Zenon
    <3>2. "logs" \in StepNames /\ Pos(r, "webLogs") > 0
      BY <3>1, SMT DEF StepNames
    <3> QED
      BY <2>1, <3>1, <3>2, Zenon
  <2> QED
    BY <2>1, <2>2, <2>3, <2>4, Zenon
<1>5. CASE host' = host
  <2>1. Alike(r)
    BY <1>5, Zenon DEF Alike
  <2>2. LogsTrace(r)'
    <3>1. /\ Stands(r, "logs")' <=> Stands(r, "logs")
          /\ host'[Name(r)] = h /\ LogsTrace(r)
      <4>1. "logs" \in StepNames
        BY SMT DEF StepNames
      <4> QED
        BY <1>2, <1>5, <4>1, Zenon DEF Trace
    <3> QED
      BY <1>2, <1>3, <1>4, <3>1, SMT DEF LogsTrace, Same
  <2> QED
    BY <1>2, <1>3, <2>1, <2>2, SameTrace, Zenon DEF Trace
<1>6. CASE at[r] <= Len(Steps(r)) /\ StepOf(r) = "webLogs" /\ Effect(r, Done(r, "webLogs"))
  <2>1. host'[Name(r)] = Done(r, "webLogs")
    BY <1>1, <1>6, EffectFrame, Zenon
  <2>2. Done(r, "webLogs") = [h EXCEPT !.logs = "full"]
    BY SMT DEF Done
  <2>3. Alike(r)
    BY <1>1, <2>1, <2>2, ZenonT(40) DEF Alike, Host
  <2>4. LogsTrace(r)'
    <3>1. Stands(r, "logs")' /\ Kind(r) = "adopt"
      <4>1. "logs" \in StepNames
        BY SMT DEF StepNames
      <4> QED
        BY <1>2, <1>4, <1>6, <4>1, Zenon
    <3> QED
      BY <1>2, <1>3, <3>1, SMT DEF LogsTrace, Same
  <2> QED
    BY <1>2, <1>3, <2>3, <2>4, SameTrace, Zenon DEF Trace
<1> QED
  BY <1>5, <1>6, Zenon DEF FailsClean

-----------------------------------------------------------------------------
(***************************************************************************)
(* What holds however much has failed: what the next steps rest on, whose  *)
(* the rows are, and who has a UID.                                        *)
(***************************************************************************)
LEMMA DoneGrounded ==
  ASSUME NEW r \in Requests, Planned(r), pc[r] = "do", at[r] <= Len(Steps(r)), Possible(r, StepOf(r)),
         NEW h, h = Done(r, StepOf(r))
  PROVE  /\ Stands(r, "home") \/ Stands(r, "promote") \/ StepOf(r) \in {"home", "promote"} => h.home \in Home
         /\ Stands(r, "status") \/ Stands(r, "quota") \/ StepOf(r) \in {"status", "quota"} => h.row \in Row
         /\ Stands(r, "record") \/ StepOf(r) = "record" => h.row \in Row
<1> DEFINE s == StepOf(r) g == host[Name(r)]
<1>1. Sound(r, s) /\ g \in Host
  BY SoundHolds, Zenon
<1>2. /\ Controlled /\ want \in [Requests -> Request]
      /\ Stands(r, "home") \/ Stands(r, "promote") => g.home \in Home
      /\ Stands(r, "status") \/ Stands(r, "quota") \/ Stands(r, "record") => g.row \in Row
  BY Zenon DEF Planned, Controlled, Grounded, Running
<1>3. s \in StepNames /\ Pos(r, s) > 0
  <2>1. s \in StepNames /\ Pos(r, s) = at[r] /\ at[r] \in 1..15
    BY <1>2, Facing, Zenon
  <2> QED
    BY <2>1, SMT
<1>4. \A t : Stands(r, t) => Pos(r, t) > 0
  BY SMT DEF Stands
<1>5. /\ Stands(r, "home") \/ Stands(r, "promote") => Kind(r) # "delete"
      /\ Stands(r, "status") \/ Stands(r, "quota") => Kind(r) \in Movers
      /\ Stands(r, "record") => Kind(r) \in Makers
      /\ s \in {"dropHome", "dropRow"} => Kind(r) = "delete"
      /\ s = "record" => Kind(r) \in Makers
  <2>1. /\ Pos(r, "home") > 0 => Kind(r) \in {"create", "adopt"}
        /\ Pos(r, "promote") > 0 => Kind(r) = "restore"
        /\ Pos(r, "status") > 0 => Kind(r) = "status"
        /\ Pos(r, "quota") > 0 => Kind(r) = "quota"
        /\ Pos(r, "record") > 0 => Kind(r) \in Makers
        /\ \A t \in Drops : Pos(r, t) > 0 => Kind(r) = "delete"
    BY <1>2, Order, SMT
  <2> QED
    BY <1>3, <1>4, <2>1, SMT DEF Makers, Movers, Drops
<1>6. h.home = IF s = "home" THEN [owner |-> uid[r], docs |-> IF g.home = NoHome THEN "none" ELSE g.home.docs]
               ELSE IF s = "promote" THEN snap[r].home
               ELSE IF s = "transfer" THEN [g.home EXCEPT !.docs = "legacy"]
               ELSE IF s = "chown" THEN [owner |-> uid[r], docs |-> IF g.home.docs = "none" THEN "none" ELSE "own"]
               ELSE IF s = "dropHome" THEN NoHome ELSE g.home
  BY <1>1, DoneHome, SMT
<1>7. h.row = IF s = "record" THEN NewRow(r)
              ELSE IF s = "status" THEN [g.row EXCEPT !.status = want[r].to]
              ELSE IF s = "quota" THEN [g.row EXCEPT !.quota = want[r].to]
              ELSE IF s = "dropRow" THEN NoRow ELSE g.row
  BY <1>1, DoneRow, Zenon
<1>8. Stands(r, "home") \/ Stands(r, "promote") \/ s \in {"home", "promote"} => h.home \in Home
  <2>1. CASE s = "home"
    <3>1. uid[r] \in Nat
      BY <1>1, <2>1, SubscriptionAssumption, SMT DEF Sound, Uids
    <3>2. (IF g.home = NoHome THEN "none" ELSE g.home.docs) \in {"none", "legacy", "own"}
      BY <1>1, SMT DEF Host, Home
    <3> QED
      BY <1>6, <2>1, <3>1, <3>2, SMT DEF Home
  <2>2. CASE s = "promote"
    BY <1>1, <1>6, <2>2, SMT DEF Sound
  <2>3. CASE s = "transfer"
    BY <1>1, <1>6, <2>3, SMT DEF Sound, Home
  <2>4. CASE s = "chown"
    <3>1. uid[r] \in Nat
      BY <1>1, <2>4, SubscriptionAssumption, SMT DEF Sound, Uids
    <3> QED
      BY <1>6, <2>4, <3>1, SMT DEF Home
  <2>5. CASE s = "dropHome"
    BY <1>5, <2>5, SMT DEF Makers
  <2>6. CASE s \notin {"home", "promote", "transfer", "chown", "dropHome"}
    BY <1>2, <1>6, <2>6, SMT
  <2> QED
    BY <2>1, <2>2, <2>3, <2>4, <2>5, <2>6
<1>9. /\ Stands(r, "status") \/ Stands(r, "quota") \/ Stands(r, "record") => h.row \in Row
      /\ s \in {"status", "quota", "record"} => h.row \in Row
  <2>1. CASE s = "record"
    BY <1>1, <1>7, <2>1, SMT DEF Sound, NewRow, Kind, Row, Statuses
  <2>2. CASE s = "status"
    BY <1>1, <1>7, <2>2, SMT DEF Sound, Row
  <2>3. CASE s = "quota"
    BY <1>1, <1>7, <2>3, SMT DEF Sound, Row
  <2>4. CASE s = "dropRow"
    BY <1>5, <2>4, SMT DEF Makers, Movers
  <2>5. CASE s \notin {"record", "status", "quota", "dropRow"}
    BY <1>2, <1>7, <2>5, SMT
  <2> QED
    BY <2>1, <2>2, <2>3, <2>4, <2>5
<1> QED
  BY <1>8, <1>9, SMT

LEMMA UndoneGrounded ==
  ASSUME NEW r \in Requests, Planned(r), pc[r] = "undo", at[r] > 0,
         NEW h, h = Undone(r, StepOf(r))
  PROVE  /\ (Stands(r, "home") /\ StepOf(r) # "home") \/ (Stands(r, "promote") /\ StepOf(r) # "promote") =>
              h.home \in Home
         /\ Stands(r, "status") \/ Stands(r, "quota") => h.row \in Row
<1> DEFINE s == StepOf(r) g == host[Name(r)]
<1>1. SoundUndo(r, s) /\ g \in Host
  BY SoundUndoHolds, Zenon
<1>2. /\ Controlled /\ want \in [Requests -> Request]
      /\ Stands(r, "home") \/ Stands(r, "promote") => g.home \in Home
      /\ Stands(r, "status") \/ Stands(r, "quota") => g.row \in Row
  BY Zenon DEF Planned, Controlled, Grounded, Running
<1>3. Pos(r, s) > 0
  <2>1. Pos(r, s) = at[r] /\ at[r] \in 1..15
    BY <1>2, Backing, Zenon
  <2> QED
    BY <2>1, SMT
<1>4. \A t : Stands(r, t) => Pos(r, t) > 0
  BY SMT DEF Stands
<1>5. /\ Stands(r, "home") => Kind(r) # "restore"
      /\ Stands(r, "promote") => Kind(r) = "restore"
      /\ s = "promote" => Kind(r) = "restore"
      /\ s = "home" => Kind(r) # "restore"
      /\ Stands(r, "status") \/ Stands(r, "quota") => Kind(r) \in Movers
      /\ s = "record" => Kind(r) \in Makers
  <2>1. /\ Pos(r, "home") > 0 => Kind(r) \in {"create", "adopt"}
        /\ Pos(r, "promote") > 0 => Kind(r) = "restore"
        /\ Pos(r, "status") > 0 => Kind(r) = "status"
        /\ Pos(r, "quota") > 0 => Kind(r) = "quota"
        /\ Pos(r, "record") > 0 => Kind(r) \in Makers
    BY <1>2, Order, SMT
  <2> QED
    BY <1>3, <1>4, <2>1, SMT DEF Movers
<1>6. h.home = IF s = "home" \/ s = "promote" THEN NoHome
               ELSE IF s = "transfer" THEN [g.home EXCEPT !.docs = "none"] ELSE g.home
  BY <1>1, UndoneHome, SMT
<1>7. h.row = IF s = "record" THEN NoRow
              ELSE IF s = "status" THEN [g.row EXCEPT !.status = snap[r].row.status]
              ELSE IF s = "quota" THEN [g.row EXCEPT !.quota = snap[r].row.quota] ELSE g.row
  BY <1>1, UndoneRow, SMT
<1>8. ASSUME (Stands(r, "home") /\ s # "home") \/ (Stands(r, "promote") /\ s # "promote")
      PROVE  h.home \in Home
  <2>1. s \notin {"home", "promote"} /\ g.home \in Home
    BY <1>2, <1>5, <1>8, SMT
  <2> QED
    BY <1>6, <2>1, SMT DEF Home
<1>9. ASSUME Stands(r, "status") \/ Stands(r, "quota") PROVE h.row \in Row
  <2>1. g.row \in Row /\ s # "record"
    BY <1>2, <1>5, <1>9, SMT DEF Makers, Movers
  <2>2. s \in {"status", "quota"} => snap[r].row \in Row
    BY <1>1, Zenon DEF SoundUndo
  <2> QED
    BY <1>7, <2>1, <2>2, SMT DEF Row
<1> QED
  BY <1>8, <1>9, Zenon

(* The rows of a name go with the row of its subscription.                 *)
LEMMA DoneRefers ==
  ASSUME NEW r, host[Name(r)] \in Host, Refers(host[Name(r)]), NEW s, Possible(r, s), Sound(r, s)
  PROVE  Refers(Done(r, s))
<1> DEFINE h == host[Name(r)] g == Done(r, s)
<1>1. /\ g.web = IF s = "website" THEN h.row.id ELSE IF s = "dropWebsite" THEN 0 ELSE h.web
      /\ g.db = IF s = "database" THEN h.row.id ELSE IF s = "dropDatabase" THEN 0 ELSE h.db
      /\ g.cert = IF s = "certificate" THEN h.row.id
                  ELSE IF s = "dropCertificates" /\ h.cert = snap[r].row.id THEN 0 ELSE h.cert
      /\ g.jobs = IF s = "jobs" THEN h.row.id ELSE IF s = "dropRow" THEN 0 ELSE h.jobs
  BY DoneWeb, DoneDb, DoneCert, DoneJobs, SMT
<1>2. g.row = IF s = "record" THEN NewRow(r)
              ELSE IF s = "status" THEN [h.row EXCEPT !.status = want[r].to]
              ELSE IF s = "quota" THEN [h.row EXCEPT !.quota = want[r].to]
              ELSE IF s = "dropRow" THEN NoRow ELSE h.row
  BY DoneRow, Zenon
<1>3. NoRow \notin Row
  BY SubscriptionAssumption, Zenon
<1>4. CASE s = "record"
  <2>1. h.row = NoRow
    BY <1>4, SMT DEF Possible
  <2> QED
    BY <1>1, <1>2, <1>4, <2>1, SMT DEF Refers
<1>5. CASE s \in {"status", "quota"}
  <2>1. h.row \in Row /\ h.row # NoRow
    BY <1>3, <1>5, SMT DEF Sound
  <2>2. g.row \in Row /\ g.row.id = h.row.id
    BY <1>2, <1>5, <2>1, SMT DEF Sound, Row
  <2> QED
    BY <1>1, <1>3, <1>5, <2>1, <2>2, SMT DEF Refers
<1>6. CASE s = "dropRow"
  <2>1. h.row # NoRow /\ h.row.id \notin {h.web, h.db, h.cert}
    BY <1>6, SMT DEF Possible
  <2> QED
    BY <1>1, <1>2, <1>6, <2>1, SMT DEF Refers
<1>7. CASE s \in {"website", "database", "certificate", "jobs"}
  <2>1. h.row # NoRow
    BY <1>3, <1>7, SMT DEF Sound
  <2> QED
    BY <1>1, <1>2, <1>7, <2>1, SMT DEF Refers
<1>8. CASE s \notin {"record", "status", "quota", "dropRow", "website", "database", "certificate", "jobs"}
  BY <1>1, <1>2, <1>8, SMT DEF Refers
<1> QED
  BY <1>4, <1>5, <1>6, <1>7, <1>8

LEMMA UndoneRefers ==
  ASSUME NEW r, host[Name(r)] \in Host, Refers(host[Name(r)]), NEW s, Undoable(r, s), SoundUndo(r, s)
  PROVE  Refers(Undone(r, s))
<1> DEFINE h == host[Name(r)] g == Undone(r, s)
<1>1. /\ g.web = IF s = "website" THEN 0 ELSE h.web
      /\ g.db = IF s = "database" THEN 0 ELSE h.db
      /\ g.cert = IF s = "certificate" THEN 0 ELSE h.cert
      /\ g.jobs = IF s = "jobs" \/ s = "record" THEN 0 ELSE h.jobs
  BY UndoneWeb, UndoneDb, UndoneCert, UndoneJobs, SMT
<1>2. g.row = IF s = "record" THEN NoRow
              ELSE IF s = "status" THEN [h.row EXCEPT !.status = snap[r].row.status]
              ELSE IF s = "quota" THEN [h.row EXCEPT !.quota = snap[r].row.quota] ELSE h.row
  BY UndoneRow, SMT
<1>3. NoRow \notin Row
  BY SubscriptionAssumption, Zenon
<1>4. CASE s = "record"
  <2>1. h.row # NoRow /\ h.row.id \notin {h.web, h.db, h.cert}
    BY <1>4, SMT DEF Undoable
  <2> QED
    BY <1>1, <1>2, <1>4, <2>1, SMT DEF Refers
<1>5. CASE s \in {"status", "quota"}
  <2>1. h.row \in Row /\ snap[r].row \in Row /\ h.row # NoRow
    BY <1>3, <1>5, SMT DEF SoundUndo
  <2>2. g.row \in Row /\ g.row.id = h.row.id
    BY <1>2, <1>5, <2>1, SMT DEF Row
  <2> QED
    BY <1>1, <1>3, <1>5, <2>1, <2>2, SMT DEF Refers
<1>6. CASE s \notin {"record", "status", "quota"}
  BY <1>1, <1>2, <1>6, SMT DEF Refers
<1> QED
  BY <1>4, <1>5, <1>6

(* Nobody gets the UID that another one has.                               *)
LEMMA UsersKept ==
  ASSUME host \in [Names -> Host], Users, NEW r, Name(r) \in Names, NEW h, host' = [host EXCEPT ![Name(r)] = h],
         h.user \in {0, host[Name(r)].user} \/ \A n \in Names : host[n].user # h.user
  PROVE  Users'
<1>1. host'[Name(r)] = h /\ \A n \in Names : n # Name(r) => host'[n] = host[n]
  BY Zenon
<1>2. ASSUME NEW n \in Names, NEW m \in Names, n # m
      PROVE  host'[n].user = 0 \/ host'[m].user # host'[n].user
  <2>1. host[n].user = 0 \/ host[m].user # host[n].user
    BY <1>2, Zenon DEF Users
  <2>2. host[m].user = 0 \/ host[m].user # host[n].user
    BY <1>2, Zenon DEF Users
  <2> QED
    BY <1>1, <1>2, <2>1, <2>2, SMT
<1> QED
  BY <1>2, Zenon DEF Users

LEMMA DoneUsers ==
  ASSUME NEW r, host[Name(r)] \in Host, NEW s, Possible(r, s)
  PROVE  \/ Done(r, s).user \in {0, host[Name(r)].user}
         \/ \A n \in Names : host[n].user # Done(r, s).user
<1>1. Done(r, s).user = IF s = "user" THEN uid[r] ELSE IF s = "dropUser" THEN 0 ELSE host[Name(r)].user
  BY DoneUser, SMT
<1>2. s = "user" => \A n \in Names : host[n].user # uid[r]
  BY SMT DEF Possible
<1> QED
  BY <1>1, <1>2, SMT

-----------------------------------------------------------------------------
(***************************************************************************)
(* The moves of a plan that has started and does not end.                  *)
(***************************************************************************)
LEMMA Facts ==
  ASSUME IInv, NEW r \in Requests
  PROVE  /\ Planned(r) /\ Name(r) \in Names /\ host \in [Names -> Host] /\ host[Name(r)] \in Host
         /\ Refers(host[Name(r)]) /\ Users /\ Traced(r) /\ nextId \in Nat \ {0} /\ torn \subseteq Requests
         /\ Running(r) => lock = r /\ found[r] \in Host
         /\ Running(r) /\ Name(r) \notin damaged => Whole(found[r])
<1>1. SubscriptionTyped /\ nextId # 0 /\ Placed(r) /\ Read(r) /\ Grounded(r) /\ Traced(r) /\ Users
  BY Zenon DEF IInv, TypeOK
<1>2. /\ ControlTyped(18) /\ want \in [Requests -> Request] /\ host \in [Names -> Host] /\ nextId \in Nat
      /\ torn \subseteq Requests
  BY <1>1, Zenon DEF SubscriptionTyped
<1>3. Name(r) \in Names
  BY <1>2, WantedKinds, Zenon
<1>4. host[Name(r)] \in Host /\ Refers(host[Name(r)])
  BY <1>2, <1>3, Zenon DEF IInv
<1>5. Controlled
  BY <1>2, Zenon DEF IInv, Controlled
<1>6. Restores(r)
  <2>1. want[r].from \in sealed => want[r].from \in Backups
    BY Zenon DEF IInv, TypeOK
  <2>2. want[r].from \in sealed => Archived(want[r].from)
    BY <2>1, Zenon DEF IInv
  <2> QED
    BY <1>1, <2>2, ReadRestores, Zenon
<1>7. Running(r) => lock = r /\ found[r] \in Host
  BY <1>1, Zenon DEF Placed, Read
<1>8. Running(r) /\ Name(r) \notin damaged => Whole(found[r])
  <2>1. lock = r => Before(Name(r)) = found[r]
    BY RequestsAssumption, Zenon DEF Before
  <2> QED
    BY <1>3, <1>7, <2>1, Zenon DEF IInv
<1> QED
  BY <1>1, <1>2, <1>3, <1>4, <1>5, <1>6, <1>7, <1>8, SMT DEF Planned

(* What every such move leaves behind.                                     *)
HostsKept(r) ==
  /\ host' \in [Names -> Host] /\ \A n \in Names : n # Name(r) => host'[n] = host[n]
  /\ Refers(host'[Name(r)]) /\ Users'
Preserved(r) ==
  /\ Controlled' /\ OthersStay(r) /\ lock' = lock /\ lock = r /\ Running(r) /\ Running(r)'
  /\ foreign' = foreign /\ want' = want /\ snap' = snap /\ uid' = uid /\ found' = found /\ damaged' = damaged
  /\ nextId' \in Nat \ {0} /\ torn' \subseteq Requests /\ torn \subseteq torn'
  /\ HostsKept(r) /\ Grounded(r)' /\ Traced(r)'

LEMMA DoneHost ==
  ASSUME IInv, NEW r \in Requests, pc[r] = "do", at[r] <= Len(Steps(r)), Possible(r, StepOf(r)),
         Becomes(r, Done(r, StepOf(r)))
  PROVE  HostsKept(r) /\ host'[Name(r)] = Done(r, StepOf(r))
<1> DEFINE g == Done(r, StepOf(r))
<1>1. /\ Planned(r) /\ Name(r) \in Names /\ host \in [Names -> Host] /\ host[Name(r)] \in Host
      /\ Refers(host[Name(r)]) /\ Users
  BY Facts, Zenon
<1>2. Sound(r, StepOf(r)) /\ StepOf(r) \in StepNames
  BY <1>1, SoundHolds, Facing, Zenon DEF Planned
<1>3. g \in Host
  BY <1>1, <1>2, DoneTyped, SubscriptionAssumption, Zenon
<1>4. Refers(g)
  BY <1>1, <1>2, DoneRefers, Zenon
<1>5. host' = [host EXCEPT ![Name(r)] = g]
  BY Zenon DEF Becomes
<1>6. Users'
  <2>1. g.user \in {0, host[Name(r)].user} \/ \A n \in Names : host[n].user # g.user
    BY <1>1, DoneUsers, Zenon
  <2> HIDE DEF g
  <2> QED
    BY <1>1, <1>5, <2>1, UsersKept, Zenon
<1>7. host' \in [Names -> Host] /\ host'[Name(r)] = g /\ \A n \in Names : n # Name(r) => host'[n] = host[n]
  BY <1>1, <1>3, <1>5, Zenon
<1> QED
  BY <1>4, <1>6, <1>7, Zenon DEF HostsKept

LEMMA UndoneHost ==
  ASSUME IInv, NEW r \in Requests, pc[r] = "undo", at[r] > 0, Undoable(r, StepOf(r)),
         Becomes(r, Undone(r, StepOf(r)))
  PROVE  HostsKept(r) /\ host'[Name(r)] = Undone(r, StepOf(r))
<1> DEFINE g == Undone(r, StepOf(r))
<1>1. /\ Planned(r) /\ Name(r) \in Names /\ host \in [Names -> Host] /\ host[Name(r)] \in Host
      /\ Refers(host[Name(r)]) /\ Users
  BY Facts, Zenon
<1>2. SoundUndo(r, StepOf(r)) /\ StepOf(r) \in StepNames
  BY <1>1, SoundUndoHolds, Backing, Zenon DEF Planned
<1>3. g \in Host
  BY <1>1, <1>2, UndoneTyped, SubscriptionAssumption, Zenon
<1>4. Refers(g)
  BY <1>1, <1>2, UndoneRefers, Zenon
<1>5. host' = [host EXCEPT ![Name(r)] = g]
  BY Zenon DEF Becomes
<1>6. Users'
  <2>1. g.user \in {0, host[Name(r)].user}
    BY <1>1, UndoneUser, SMT
  <2> HIDE DEF g
  <2> QED
    BY <1>1, <1>5, <2>1, UsersKept, Zenon
<1>7. host' \in [Names -> Host] /\ host'[Name(r)] = g /\ \A n \in Names : n # Name(r) => host'[n] = host[n]
  BY <1>1, <1>3, <1>5, Zenon
<1> QED
  BY <1>4, <1>6, <1>7, Zenon DEF HostsKept

LEMMA SameHost ==
  ASSUME IInv, NEW r \in Requests, host' = host
  PROVE  HostsKept(r)
<1>1. host \in [Names -> Host] /\ Refers(host[Name(r)]) /\ Users
  BY Facts, Zenon
<1>2. Users'
  BY <1>1, Zenon DEF Users
<1> QED
  BY <1>1, <1>2, Zenon DEF HostsKept

(* The control part of a move, from which the rest starts.                 *)
LEMMA RunningKept ==
  ASSUME IInv, NEW r \in Requests, want' = want, snap' = snap,
         Advanced(r, Len(Steps(r))) \/ Failed(r) \/ Undid(r) \/ DidNotUndo(r) \/ Stops(r)
  PROVE  Controlled' /\ OthersStay(r) /\ lock' = lock /\ lock = r /\ Running(r) /\ Running(r)'
<1>1. Planned(r) /\ (Running(r) => lock = r)
  BY Facts, Zenon
<1>2. Controlled' /\ OthersStay(r)
  BY <1>1, ControlMoves, Zenon DEF Moves, Planned
<1>3. pc \in [Requests -> PCs]
  BY <1>1, Zenon DEF Planned, Controlled, ControlTyped
<1>4. Running(r) /\ Running(r)' /\ lock' = lock
  BY <1>3, SMT DEF Advanced, Failed, Undid, DidNotUndo, Stops, Goto, Running
<1> QED
  BY <1>1, <1>2, <1>4

LEMMA DoPreserves ==
  ASSUME IInv, NEW r \in Requests, Do(r)
  PROVE  Preserved(r)
<1>0. /\ Advanced(r, Len(Steps(r))) /\ Possible(r, StepOf(r)) /\ Becomes(r, Done(r, StepOf(r)))
      /\ nextId' = (IF StepOf(r) = "record" THEN nextId + 1 ELSE nextId)
      /\ foreign' = foreign /\ want' = want /\ snap' = snap /\ uid' = uid /\ found' = found
      /\ torn' = torn /\ damaged' = damaged
  BY Zenon DEF Do, StepOf
<1>1. /\ Planned(r) /\ Traced(r) /\ nextId \in Nat \ {0} /\ torn \subseteq Requests
      /\ pc[r] = "do" /\ at[r] <= Len(Steps(r))
  BY <1>0, Facts, Zenon DEF Advanced
<1>2. Controlled' /\ OthersStay(r) /\ lock' = lock /\ lock = r /\ Running(r) /\ Running(r)'
  BY <1>0, RunningKept, Zenon
<1>3. HostsKept(r) /\ host'[Name(r)] = Done(r, StepOf(r))
  BY <1>0, <1>1, DoneHost, Zenon
<1>4. nextId' \in Nat \ {0}
  BY <1>0, <1>1, SMT
<1>5. DoesStep(r)
  BY <1>0, Zenon DEF DoesStep, Effect, Becomes
<1>6. /\ Same(r) /\ pc'[r] = "do"
      /\ \A t \in StepNames : Stands(r, t)' <=> Stands(r, t) \/ t = StepOf(r)
  BY <1>1, <1>5, DoesFrame, Zenon
<1>7. Grounded(r)'
  <2>1. /\ Stands(r, "home")' <=> Stands(r, "home") \/ StepOf(r) = "home"
        /\ Stands(r, "promote")' <=> Stands(r, "promote") \/ StepOf(r) = "promote"
        /\ Stands(r, "status")' <=> Stands(r, "status") \/ StepOf(r) = "status"
        /\ Stands(r, "quota")' <=> Stands(r, "quota") \/ StepOf(r) = "quota"
        /\ Stands(r, "record")' <=> Stands(r, "record") \/ StepOf(r) = "record"
    BY <1>6, SMT DEF StepNames
  <2>2. LET h == Done(r, StepOf(r)) IN
        /\ Stands(r, "home") \/ Stands(r, "promote") \/ StepOf(r) \in {"home", "promote"} => h.home \in Home
        /\ Stands(r, "status") \/ Stands(r, "quota") \/ StepOf(r) \in {"status", "quota"} => h.row \in Row
        /\ Stands(r, "record") \/ StepOf(r) = "record" => h.row \in Row
    BY <1>0, <1>1, DoneGrounded, Zenon
  <2> QED
    BY <1>3, <1>6, <2>1, <2>2, SMT DEF Grounded, Same
<1>8. Traced(r)'
  BY <1>1, <1>5, DoTrace, Zenon DEF Traced
<1> QED
  BY <1>0, <1>1, <1>2, <1>3, <1>4, <1>7, <1>8, Zenon DEF Preserved

LEMMA FailPreserves ==
  ASSUME IInv, NEW r \in Requests, Fail(r)
  PROVE  Preserved(r)
<1>0. /\ Failed(r)
      /\ foreign' = foreign /\ want' = want /\ snap' = snap /\ uid' = uid /\ found' = found /\ damaged' = damaged
  BY Zenon DEF Fail
<1>1. /\ Planned(r) /\ Traced(r) /\ nextId \in Nat \ {0} /\ torn \subseteq Requests
      /\ pc[r] = "do" /\ host \in [Names -> Host]
  BY <1>0, Facts, Zenon DEF Failed
<1>2. Controlled' /\ OthersStay(r) /\ lock' = lock /\ lock = r /\ Running(r) /\ Running(r)'
  BY <1>0, RunningKept, Zenon
<1>3. /\ pc'[r] = "undo" /\ dirty' = dirty
      /\ \A t \in StepNames : Stands(r, t)' <=> Stands(r, t)
  BY <1>0, <1>1, StandsWhenFailed, Zenon DEF Planned
<1>4. /\ Stands(r, "home")' <=> Stands(r, "home")
      /\ Stands(r, "promote")' <=> Stands(r, "promote")
      /\ Stands(r, "status")' <=> Stands(r, "status")
      /\ Stands(r, "quota")' <=> Stands(r, "quota")
  BY <1>3, SMT DEF StepNames
<1>5. Name(r)' = Name(r)
  BY <1>0, Zenon DEF Name
<1>6. CASE host' = host /\ nextId' = nextId /\ torn' = torn
  <2>1. HostsKept(r)
    BY <1>6, SameHost, Zenon
  <2>2. Grounded(r)'
    BY <1>1, <1>3, <1>4, <1>5, <1>6, SMT DEF Grounded, Planned, Running
  <2>3. Traced(r)'
    <3>1. Trace(r)
      BY <1>1, Zenon DEF Traced
    <3>2. Trace(r)'
      BY <1>0, <1>1, <1>6, <3>1, FailTrace, Zenon DEF FailsClean
    <3> QED
      BY <3>2, Zenon DEF Traced
  <2> QED
    BY <1>0, <1>1, <1>2, <1>6, <2>1, <2>2, <2>3, Zenon DEF Preserved
<1>7. CASE /\ at[r] <= Len(Steps(r)) /\ Possible(r, StepOf(r)) /\ Becomes(r, Done(r, StepOf(r)))
           /\ nextId' = (IF StepOf(r) = "record" THEN nextId + 1 ELSE nextId)
           /\ torn' = (IF StepOf(r) = "webLogs" THEN torn ELSE torn \cup {r})
  <2>1. HostsKept(r) /\ host'[Name(r)] = Done(r, StepOf(r))
    BY <1>1, <1>7, DoneHost, Zenon
  <2>2. nextId' \in Nat \ {0} /\ torn' \subseteq Requests /\ torn \subseteq torn'
    BY <1>1, <1>7, SMT
  <2>3. Grounded(r)'
    <3>1. LET h == Done(r, StepOf(r)) IN
          /\ Stands(r, "home") \/ Stands(r, "promote") \/ StepOf(r) \in {"home", "promote"} => h.home \in Home
          /\ Stands(r, "status") \/ Stands(r, "quota") \/ StepOf(r) \in {"status", "quota"} => h.row \in Row
      BY <1>1, <1>7, DoneGrounded, Zenon
    <3> QED
      BY <1>3, <1>4, <1>5, <2>1, <3>1, SMT DEF Grounded
  <2>4. Traced(r)'
    <3>1. CASE StepOf(r) = "webLogs"
      <4>1. Trace(r)
        BY <1>1, Zenon DEF Traced
      <4>2. Effect(r, Done(r, "webLogs"))
        BY <1>0, <1>7, <3>1, Zenon DEF Effect, Becomes
      <4>3. Trace(r)'
        BY <1>0, <1>1, <1>7, <3>1, <4>1, <4>2, FailTrace, Zenon DEF FailsClean
      <4> QED
        BY <4>3, Zenon DEF Traced
    <3>2. CASE StepOf(r) # "webLogs"
      <4>1. r \in torn'
        BY <1>7, <3>2, Zenon
      <4>2. pc'[r] # "do"
        BY <1>3, SMT
      <4> QED
        BY <4>1, <4>2, Zenon DEF Traced, Clean
    <3> QED
      BY <3>1, <3>2
  <2> QED
    BY <1>0, <1>1, <1>2, <2>1, <2>2, <2>3, <2>4, Zenon DEF Preserved
<1> QED
  BY <1>6, <1>7, Zenon DEF Fail, StepOf

LEMMA UndoPreserves ==
  ASSUME IInv, NEW r \in Requests, Undo(r)
  PROVE  Preserved(r)
<1>0. /\ Undid(r) /\ Undoable(r, StepOf(r)) /\ Becomes(r, Undone(r, StepOf(r)))
      /\ nextId' = nextId /\ torn' = torn
      /\ foreign' = foreign /\ want' = want /\ snap' = snap /\ uid' = uid /\ found' = found /\ damaged' = damaged
  BY Zenon DEF Undo, StepOf
<1>1. /\ Planned(r) /\ Traced(r) /\ nextId \in Nat \ {0} /\ torn \subseteq Requests
      /\ pc[r] = "undo" /\ at[r] > 0 /\ dirty' = dirty
  BY <1>0, Facts, Zenon DEF Undid
<1>2. Controlled' /\ OthersStay(r) /\ lock' = lock /\ lock = r /\ Running(r) /\ Running(r)'
  BY <1>0, RunningKept, Zenon
<1>3. HostsKept(r) /\ host'[Name(r)] = Undone(r, StepOf(r))
  BY <1>0, <1>1, UndoneHost, Zenon
<1>4. UndoesStep(r)
  BY <1>0, Zenon DEF UndoesStep, Effect, Becomes
<1>5. /\ Same(r) /\ pc'[r] = "undo"
      /\ \A t \in StepNames : Stands(r, t)' <=> Stands(r, t) /\ t # StepOf(r)
  BY <1>1, <1>4, UndoesFrame, Zenon
<1>6. Grounded(r)'
  <2>1. /\ Stands(r, "home")' <=> Stands(r, "home") /\ StepOf(r) # "home"
        /\ Stands(r, "promote")' <=> Stands(r, "promote") /\ StepOf(r) # "promote"
        /\ Stands(r, "status")' <=> Stands(r, "status") /\ StepOf(r) # "status"
        /\ Stands(r, "quota")' <=> Stands(r, "quota") /\ StepOf(r) # "quota"
    BY <1>5, SMT DEF StepNames
  <2>2. LET h == Undone(r, StepOf(r)) IN
        /\ (Stands(r, "home") /\ StepOf(r) # "home") \/ (Stands(r, "promote") /\ StepOf(r) # "promote") =>
             h.home \in Home
        /\ Stands(r, "status") \/ Stands(r, "quota") => h.row \in Row
    BY <1>1, UndoneGrounded, Zenon
  <2> QED
    BY <1>3, <1>5, <2>1, <2>2, SMT DEF Grounded, Same
<1>7. Traced(r)'
  <2>1. SUFFICES ASSUME Clean(r)' PROVE Trace(r)'
    BY <1>5, SMT DEF Traced
  <2>2. Clean(r) /\ Name(r) \notin damaged
    <3>1. Name(r)' = Name(r)
      BY <1>5, Zenon DEF Same
    <3> QED
      BY <1>0, <1>1, <2>1, <3>1, Zenon DEF Clean
  <2>3. Whole(found[r])
    BY <1>2, <2>2, Facts, Zenon
  <2> QED
    BY <1>1, <1>4, <2>2, <2>3, UndoTrace, Zenon DEF Traced
<1> QED
  BY <1>0, <1>1, <1>2, <1>3, <1>6, <1>7, Zenon DEF Preserved

(* An undo that fails leaves the plan dirty, whatever it has done.         *)
LEMMA UndoFailsPreserves ==
  ASSUME IInv, NEW r \in Requests, UndoFails(r)
  PROVE  Preserved(r)
<1>0. /\ DidNotUndo(r) /\ nextId' = nextId /\ torn' = torn
      /\ foreign' = foreign /\ want' = want /\ snap' = snap /\ uid' = uid /\ found' = found /\ damaged' = damaged
      /\ \/ host' = host
         \/ Undoable(r, StepOf(r)) /\ Becomes(r, Undone(r, StepOf(r)))
  BY Zenon DEF UndoFails, StepOf
<1>1. /\ Planned(r) /\ nextId \in Nat \ {0} /\ torn \subseteq Requests
      /\ pc[r] = "undo" /\ at[r] > 0
  BY <1>0, Facts, Zenon DEF DidNotUndo
<1>2. Controlled' /\ OthersStay(r) /\ lock' = lock /\ lock = r /\ Running(r) /\ Running(r)'
  BY <1>0, RunningKept, Zenon
<1>3. /\ pc'[r] = "undo"
      /\ \A t \in StepNames : Stands(r, t)' <=> Stands(r, t) /\ t # StepOf(r)
  BY <1>0, <1>1, StandsWhenUndone, Zenon DEF Planned
<1>4. /\ Stands(r, "home")' <=> Stands(r, "home") /\ StepOf(r) # "home"
      /\ Stands(r, "promote")' <=> Stands(r, "promote") /\ StepOf(r) # "promote"
      /\ Stands(r, "status")' <=> Stands(r, "status") /\ StepOf(r) # "status"
      /\ Stands(r, "quota")' <=> Stands(r, "quota") /\ StepOf(r) # "quota"
  BY <1>3, SMT DEF StepNames
<1>5. Name(r)' = Name(r)
  BY <1>0, Zenon DEF Name
<1>6. HostsKept(r) /\ Grounded(r)'
  <2>1. CASE host' = host
    <3>1. HostsKept(r)
      BY <2>1, SameHost, Zenon
    <3> QED
      BY <1>1, <1>3, <1>4, <1>5, <2>1, <3>1, SMT DEF Grounded, Planned, Running
  <2>2. CASE Undoable(r, StepOf(r)) /\ Becomes(r, Undone(r, StepOf(r)))
    <3>1. HostsKept(r) /\ host'[Name(r)] = Undone(r, StepOf(r))
      BY <1>1, <2>2, UndoneHost, Zenon
    <3>2. LET h == Undone(r, StepOf(r)) IN
          /\ (Stands(r, "home") /\ StepOf(r) # "home") \/ (Stands(r, "promote") /\ StepOf(r) # "promote") =>
               h.home \in Home
          /\ Stands(r, "status") \/ Stands(r, "quota") => h.row \in Row
      BY <1>1, UndoneGrounded, Zenon
    <3> QED
      BY <1>3, <1>4, <1>5, <3>1, <3>2, SMT DEF Grounded
  <2> QED
    BY <1>0, <2>1, <2>2
<1>7. Traced(r)'
  <2>1. dirty \in [Requests -> BOOLEAN]
    BY <1>1, Zenon DEF Planned, Controlled, ControlTyped
  <2>2. dirty'[r] = TRUE
    BY <1>0, <2>1, Zenon DEF DidNotUndo
  <2>3. pc'[r] # "do"
    BY <1>3, SMT
  <2> QED
    BY <2>2, <2>3, Zenon DEF Traced, Clean
<1> QED
  BY <1>0, <1>1, <1>2, <1>6, <1>7, Zenon DEF Preserved

LEMMA StopPreserves ==
  ASSUME IInv, NEW r \in Requests, StopAtCommit(r)
  PROVE  Preserved(r)
<1>0. /\ Stops(r) /\ host' = host /\ nextId' = nextId /\ torn' = torn
      /\ foreign' = foreign /\ want' = want /\ snap' = snap /\ uid' = uid /\ found' = found /\ damaged' = damaged
  BY Zenon DEF StopAtCommit, Stops, data
<1>1. /\ Planned(r) /\ nextId \in Nat \ {0} /\ torn \subseteq Requests
      /\ pc[r] = "undo" /\ pc' = pc
  BY <1>0, Facts, Zenon DEF Stops
<1>2. Controlled' /\ OthersStay(r) /\ lock' = lock /\ lock = r /\ Running(r) /\ Running(r)'
  BY <1>0, RunningKept, Zenon
<1>3. HostsKept(r)
  BY <1>0, SameHost, Zenon
<1>4. at \in [Requests -> 0..18] /\ dirty \in [Requests -> BOOLEAN]
  BY <1>1, Zenon DEF Planned, Controlled, ControlTyped
<1>5. \A t \in StepNames : ~Stands(r, t)'
  <2>1. at'[r] = 0 /\ pc'[r] # "do"
    BY <1>0, <1>1, <1>4, SMT DEF Stops
  <2>2. ASSUME NEW t \in StepNames PROVE ~Stands(r, t)'
    <3>1. Pos(r, t)' = Pos(r, t)
      BY <1>0, SamePlan, Zenon
    <3>2. Pos(r, t) \in 0..15
      BY <1>1, Plan, Zenon DEF Planned
    <3>3. Stands(r, t)' => 0 < Pos(r, t)' /\ Pos(r, t)' <= at'[r]
      BY <2>1, Zenon DEF Stands
    <3> QED
      BY <2>1, <3>1, <3>2, <3>3, SMT
  <2> QED
    BY <2>2
<1>6. Grounded(r)'
  <2>1. /\ ~Stands(r, "home")' /\ ~Stands(r, "promote")' /\ ~Stands(r, "status")' /\ ~Stands(r, "quota")'
        /\ ~Stands(r, "record")'
    BY <1>5, SMT DEF StepNames
  <2> QED
    BY <2>1, Zenon DEF Grounded
<1>7. Traced(r)'
  <2>1. dirty'[r] = TRUE
    BY <1>0, <1>4, Zenon DEF Stops
  <2>2. pc'[r] # "do"
    BY <1>1, SMT
  <2> QED
    BY <2>1, <2>2, Zenon DEF Traced, Clean
<1> QED
  BY <1>0, <1>1, <1>2, <1>3, <1>6, <1>7, Zenon DEF Preserved

-----------------------------------------------------------------------------
(***************************************************************************)
(* The part of the invariant that the plans keep by themselves, as long as *)
(* the archives that are complete stay as they are.                        *)
(***************************************************************************)
PlansInv ==
  /\ SubscriptionTyped /\ nextId # 0
  /\ \A r \in Requests : Placed(r) /\ Read(r) /\ Grounded(r) /\ Traced(r)
  /\ \A n \in Names : Refers(host[n]) /\ (n \notin damaged => Whole(Before(n)))
  /\ Users
ArchivesStay == \A b \in sealed : b \in sealed' /\ archive'[b] = archive[b]

LEMMA ReadKept ==
  ASSUME NEW q, Read(q), want' = want, snap'[q] = snap[q], uid'[q] = uid[q], found'[q] = found[q], ArchivesStay,
         pc'[q] \in {"ready", "do", "undo"} => pc[q] \in {"ready", "do", "undo"},
         Running(q)' => Running(q)
  PROVE  Read(q)'
<1>1. Kind(q)' = Kind(q)
  BY Zenon DEF Kind
<1>2. Running(q)' => found'[q] \in Host /\ Refers(found[q])
  BY Zenon DEF Read
<1>3. Refers(found[q])' <=> Refers(found[q])
  BY Zenon DEF Refers
<1>4. ASSUME pc'[q] \in {"ready", "do", "undo"}
      PROVE  /\ snap'[q] \in Host
             /\ Kind(q)' \in Makers => uid'[q] \in Uids
             /\ Kind(q)' \in Movers \cup {"database", "delete"} => snap'[q].row \in Row
             /\ Kind(q)' = "restore" => want'[q].from \in sealed' /\ snap'[q] = archive'[want'[q].from]
             /\ Kind(q)' = "delete" /\ want'[q].after \in Backups => want'[q].after \in sealed'
  <2>1. pc[q] \in {"ready", "do", "undo"}
    BY <1>4
  <2>2. /\ snap[q] \in Host
        /\ Kind(q) \in Makers => uid[q] \in Uids
        /\ Kind(q) \in Movers \cup {"database", "delete"} => snap[q].row \in Row
        /\ Kind(q) = "restore" => want[q].from \in sealed /\ snap[q] = archive[want[q].from]
        /\ Kind(q) = "delete" /\ want[q].after \in Backups => want[q].after \in sealed
    BY <2>1, Zenon DEF Read
  <2>3. /\ Kind(q) = "restore" => want[q].from \in sealed' /\ snap[q] = archive'[want[q].from]
        /\ Kind(q) = "delete" /\ want[q].after \in Backups => want[q].after \in sealed'
    BY <2>2, Zenon DEF ArchivesStay
  <2>4. want'[q] = want[q]
    OBVIOUS
  <2> QED
    BY <1>1, <2>2, <2>3, <2>4, Zenon
<1> QED
  BY <1>2, <1>3, <1>4, Zenon DEF Read

(* The moves of another request, or of a backup, which leave a plan alone. *)
LEMMA StillKept ==
  ASSUME NEW q, Grounded(q), Traced(q), host' = host, want' = want, found'[q] = found[q],
         damaged' = damaged, torn' = torn, Running(q)' <=> Running(q),
         Running(q) => pc'[q] = pc[q] /\ at'[q] = at[q] /\ dirty'[q] = dirty[q] /\ snap'[q] = snap[q] /\ uid'[q] = uid[q]
  PROVE  Grounded(q)' /\ Traced(q)'
<1>1. CASE ~Running(q)
  BY <1>1, Zenon DEF Grounded, Traced, Clean, Running
<1>2. CASE Running(q)
  <2>1. Same(q)
    BY <1>2, Zenon DEF Same, Name, Kind
  <2>2. \A t : Stands(q, t)' <=> Stands(q, t)
    <3>1. \A t : Pos(q, t)' = Pos(q, t)
      BY <1>2, SamePlan, Zenon
    <3>2. pc'[q] = pc[q] /\ at'[q] = at[q]
      BY <1>2
    <3> QED
      BY <3>1, <3>2, Zenon DEF Stands
  <2>3. host'[Name(q)'] = host[Name(q)] /\ Alike(q)
    BY <2>1, Zenon DEF Alike, Same
  <2>4. Grounded(q)'
    BY <1>2, <2>2, <2>3, Zenon DEF Grounded
  <2>5. Trace(q) => Trace(q)'
    <3>1. pc'[q] \in {pc[q], "undo"} /\ \A t \in StepNames : Stands(q, t)' <=> Stands(q, t)
      BY <1>2, <2>2, Zenon
    <3>2. LogsTrace(q) => LogsTrace(q)'
      <4>1. Stands(q, "logs")' <=> Stands(q, "logs")
        BY <2>2, Zenon
      <4>2. Stands(q, "webLogs")' <=> Stands(q, "webLogs")
        BY <2>2, Zenon
      <4> QED
        BY <1>2, <2>1, <2>3, <4>1, <4>2, SMT DEF LogsTrace, Same
    <3> QED
      BY <2>1, <2>3, <3>1, <3>2, SameTrace, Zenon DEF Trace
  <2>6. Clean(q)' => Clean(q)
    BY <1>2, <2>1, Zenon DEF Clean, Same
  <2> QED
    BY <1>2, <2>4, <2>5, <2>6, Zenon DEF Traced
<1> QED
  BY <1>1, <1>2

LEMMA MovesOn ==
  ASSUME IInv, NEW r \in Requests, Preserved(r), ArchivesStay
  PROVE  PlansInv'
<1>1. /\ Controlled' /\ OthersStay(r) /\ lock' = lock /\ lock = r /\ Running(r) /\ Running(r)'
      /\ foreign' = foreign /\ want' = want /\ snap' = snap /\ uid' = uid /\ found' = found /\ damaged' = damaged
      /\ nextId' \in Nat \ {0} /\ torn' \subseteq Requests
      /\ host' \in [Names -> Host] /\ \A n \in Names : n # Name(r) => host'[n] = host[n]
      /\ Refers(host'[Name(r)]) /\ Users' /\ Grounded(r)' /\ Traced(r)'
  BY Zenon DEF Preserved, HostsKept
<1>2. SubscriptionTyped /\ PlansInv
  BY Zenon DEF IInv, TypeOK, PlansInv
<1>3. SubscriptionTyped'
  <2>1. ControlTyped(18)'
    BY <1>1, Zenon DEF Controlled
  <2>2. nextId' \in Nat
    BY <1>1
  <2> QED
    BY <1>1, <1>2, <2>1, <2>2, Zenon DEF SubscriptionTyped
<1>4. nextId' # 0
  BY <1>1, SMT
<1>5. ASSUME NEW q \in Requests
      PROVE  Placed(q)' /\ Read(q)' /\ Grounded(q)' /\ Traced(q)'
  <2>1. Placed(q)'
    BY <1>1, Zenon DEF Controlled
  <2>2. CASE q = r
    <3>1. Read(q)'
      <4>1. Read(q) /\ pc[q] \in {"ready", "do", "undo"}
        BY <1>1, <1>2, <2>2, Zenon DEF PlansInv, Running
      <4> QED
        BY <1>1, <2>2, <4>1, ReadKept, Zenon
    <3> QED
      BY <1>1, <2>1, <2>2, <3>1, Zenon
  <2>3. CASE q # r
    <3>1. pc'[q] = pc[q] /\ (Running(q)' <=> Running(q))
      BY <1>1, <2>3, Zenon DEF OthersStay
    <3>2. ~Running(q)'
      BY <1>1, <2>1, <2>3, Zenon DEF Placed
    <3>3. Read(q)'
      <4>1. Read(q)
        BY <1>2, Zenon DEF PlansInv
      <4> QED
        BY <1>1, <3>1, <4>1, ReadKept, Zenon
    <3>4. Grounded(q)' /\ Traced(q)'
      BY <3>2, Zenon DEF Grounded, Traced, Clean, Running
    <3> QED
      BY <2>1, <3>3, <3>4
  <2> QED
    BY <2>2, <2>3
<1>6. ASSUME NEW n \in Names
      PROVE  Refers(host[n])' /\ (n \notin damaged' => Whole(Before(n))')
  <2>0. Name(lock)' = Name(r) /\ Name(lock) = Name(r)
    BY <1>1, Zenon DEF Name
  <2>1. Refers(host[n])' <=> Refers(host'[n])
    BY Zenon DEF Refers
  <2>2. Refers(host'[n])
    <3>1. Refers(host[n])
      BY <1>2, Zenon DEF PlansInv
    <3>2. CASE n = Name(r)
      BY <1>1, <3>2, Zenon
    <3>3. CASE n # Name(r)
      <4>1. host'[n] = host[n]
        BY <1>1, <3>3, Zenon
      <4> QED
        BY <3>1, <4>1, Zenon DEF Refers
    <3> QED
      BY <3>2, <3>3
  <2>3. Before(n)' = Before(n)
    BY <1>1, <2>0, RequestsAssumption, Zenon DEF Before
  <2>4. n \notin damaged' => Whole(Before(n))
    BY <1>1, <1>2, Zenon DEF PlansInv
  <2>5. Whole(Before(n)) => Whole(Before(n))'
    BY <2>3, Zenon DEF Whole
  <2> QED
    BY <2>1, <2>2, <2>4, <2>5, Zenon
<1> QED
  BY <1>1, <1>3, <1>4, <1>5, <1>6, Zenon DEF PlansInv

-----------------------------------------------------------------------------
(***************************************************************************)
(* A plan starts: nothing of it stands yet.                                *)
(***************************************************************************)
LEMMA NothingStands ==
  ASSUME NEW r, \A t \in StepNames : ~Stands(r, t)', found'[r] = host'[Name(r)']
  PROVE  Trace(r)'
<1>1. /\ ~Stands(r, "user")' /\ ~Stands(r, "dropUser")' /\ ~Stands(r, "record")' /\ ~Stands(r, "dropRow")'
      /\ ~Stands(r, "status")' /\ ~Stands(r, "quota")' /\ ~Stands(r, "website")' /\ ~Stands(r, "dropWebsite")'
      /\ ~Stands(r, "database")' /\ ~Stands(r, "dropDatabase")' /\ ~Stands(r, "certificate")'
      /\ ~Stands(r, "dropCertificates")' /\ ~Stands(r, "jobs")'
  BY SMT DEF StepNames, Drops
<1>2. /\ ~Stands(r, "dropHome")' /\ ~Stands(r, "home")' /\ ~Stands(r, "promote")' /\ ~Stands(r, "chown")'
      /\ ~Stands(r, "transfer")' /\ ~Stands(r, "webLogs")' /\ ~Stands(r, "logs")'
      /\ ~Stands(r, "vhost")' /\ ~Stands(r, "dropVHost")' /\ ~Stands(r, "pool")' /\ ~Stands(r, "dropPool")'
      /\ ~Stands(r, "crontab")' /\ ~Stands(r, "import")' /\ ~Stands(r, "schema")' /\ ~Stands(r, "dropSchema")'
      /\ ~Stands(r, "renewal")' /\ ~Stands(r, "dropLineage")'
  BY SMT DEF StepNames, Drops
<1>3. UserTrace(r)'
  BY <1>1, Zenon DEF UserTrace
<1>4. RowTrace(r)'
  BY <1>1, Zenon DEF RowTrace
<1>5. RowsTrace(r)'
  BY <1>1, Zenon DEF RowsTrace
<1>6. HomeTrace(r)'
  BY <1>2, Zenon DEF HomeTrace
<1>7. LogsTrace(r)'
  BY <1>2, Zenon DEF LogsTrace
<1>8. SystemTrace(r)'
  BY <1>2, Zenon DEF SystemTrace
<1> QED
  BY <1>3, <1>4, <1>5, <1>6, <1>7, <1>8, Zenon DEF Trace

LEMMA StartMoves ==
  ASSUME IInv, NEW r \in Requests, Start(r), ArchivesStay
  PROVE  PlansInv'
<1>0. /\ Started(r) /\ found' = [found EXCEPT ![r] = host[Name(r)]]
      /\ host' = host /\ nextId' = nextId /\ foreign' = foreign /\ want' = want /\ snap' = snap /\ uid' = uid
      /\ torn' = torn /\ damaged' = damaged
  BY Zenon DEF Start
<1>1. /\ Planned(r) /\ Name(r) \in Names /\ host[Name(r)] \in Host /\ Refers(host[Name(r)])
  BY Facts, Zenon
<1>2. SubscriptionTyped /\ PlansInv /\ Controlled
  BY <1>1, Zenon DEF IInv, TypeOK, PlansInv, Planned
<1>3. /\ pc[r] = "ready" /\ lock = NoRequest /\ lock' = r /\ pc'[r] = "do" /\ at' = at
  <2>1. pc \in [Requests -> PCs]
    BY <1>2, Zenon DEF Controlled, ControlTyped
  <2> QED
    BY <1>0, <2>1, Zenon DEF Started, Goto
<1>4. Controlled' /\ OthersStay(r)
  BY <1>0, <1>2, ControlMoves, Zenon DEF Moves
<1>5. /\ found \in [Requests -> Host \cup {Nothing}] /\ found'[r] = host[Name(r)]
      /\ \A q \in Requests : q # r => found'[q] = found[q]
  BY <1>0, <1>2, Zenon DEF SubscriptionTyped
<1>6. SubscriptionTyped'
  <2>1. ControlTyped(18)'
    BY <1>4, Zenon DEF Controlled
  <2>2. found' \in [Requests -> Host \cup {Nothing}]
    BY <1>0, <1>1, <1>5, Zenon
  <2> QED
    BY <1>0, <1>2, <2>1, <2>2, Zenon DEF SubscriptionTyped
<1>7. \A t \in StepNames : ~Stands(r, t)'
  <2>1. at'[r] = 1
    BY <1>2, <1>3, Zenon DEF PlansInv, Placed
  <2>2. ASSUME NEW t \in StepNames PROVE ~Stands(r, t)'
    <3>1. Pos(r, t)' = Pos(r, t) /\ Pos(r, t) \in 0..15
      BY <1>0, <1>2, SamePlan, Plan, Zenon
    <3>2. Stands(r, t)' => 0 < Pos(r, t)' /\ Pos(r, t)' <= at'[r] - 1
      BY <1>3, SMT DEF Stands
    <3> QED
      BY <2>1, <3>1, <3>2, SMT
  <2> QED
    BY <2>2
<1>8. Name(r)' = Name(r)
  BY <1>0, Zenon DEF Name
<1>9. Placed(r)' /\ Read(r)' /\ Grounded(r)' /\ Traced(r)'
  <2>1. Trace(r)'
    BY <1>0, <1>5, <1>7, <1>8, NothingStands, Zenon
  <2>2. /\ ~Stands(r, "home")' /\ ~Stands(r, "promote")' /\ ~Stands(r, "status")' /\ ~Stands(r, "quota")'
        /\ ~Stands(r, "record")'
    BY <1>7, SMT DEF StepNames
  <2>3. Placed(r)'
    BY <1>4, Zenon DEF Controlled
  <2>4. Kind(r)' = Kind(r)
    BY <1>0, Zenon DEF Kind
  <2>5. /\ snap[r] \in Host
        /\ Kind(r) \in Makers => uid[r] \in Uids
        /\ Kind(r) \in Movers \cup {"database", "delete"} => snap[r].row \in Row
        /\ Kind(r) = "restore" => want[r].from \in sealed /\ snap[r] = archive[want[r].from]
        /\ Kind(r) = "delete" /\ want[r].after \in Backups => want[r].after \in sealed
    <3>1. Read(r) /\ pc[r] \in {"ready", "do", "undo"}
      BY <1>2, <1>3, Zenon DEF PlansInv
    <3> QED
      BY <3>1, Zenon DEF Read
  <2>6. /\ Kind(r) = "restore" => want[r].from \in sealed' /\ snap[r] = archive'[want[r].from]
        /\ Kind(r) = "delete" /\ want[r].after \in Backups => want[r].after \in sealed'
    BY <2>5, Zenon DEF ArchivesStay
  <2>7. found'[r] \in Host /\ Refers(found[r])'
    BY <1>1, <1>5, Zenon DEF Refers
  <2>8. Read(r)'
    BY <1>0, <2>4, <2>5, <2>6, <2>7, Zenon DEF Read
  <2> QED
    BY <2>1, <2>2, <2>3, <2>8, Zenon DEF Grounded, Traced
<1>10. ASSUME NEW q \in Requests, q # r
       PROVE  Placed(q)' /\ Read(q)' /\ Grounded(q)' /\ Traced(q)'
  <2>1. Placed(q)' /\ pc'[q] = pc[q] /\ (Running(q)' <=> Running(q))
    BY <1>4, <1>10, Zenon DEF Controlled, OthersStay
  <2>2. ~Running(q)'
    BY <1>3, <1>10, <2>1, Zenon DEF Placed
  <2>3. Read(q)'
    <3>1. Read(q)
      BY <1>2, Zenon DEF PlansInv
    <3> QED
      BY <1>0, <1>5, <1>10, <2>1, <3>1, ReadKept, Zenon
  <2>4. Grounded(q)' /\ Traced(q)'
    BY <2>2, Zenon DEF Grounded, Traced, Clean, Running
  <2> QED
    BY <2>1, <2>3, <2>4
<1>11. ASSUME NEW n \in Names
       PROVE  Refers(host[n])' /\ (n \notin damaged' => Whole(Before(n))')
  <2>1. Refers(host[n]) /\ (n \notin damaged => Whole(Before(n)))
    BY <1>2, Zenon DEF PlansInv
  <2>2. Before(n)' = Before(n)
    <3>1. Before(n) = host[n]
      BY <1>3, Zenon DEF Before
    <3>2. Name(lock)' = Name(r)
      BY <1>3, <1>0, Zenon DEF Name
    <3>3. Before(n)' = IF Name(r) = n THEN found'[r] ELSE host'[n]
      BY <1>3, <3>2, RequestsAssumption, Zenon DEF Before
    <3> QED
      BY <1>0, <1>5, <3>1, <3>3, Zenon
  <2>3. Whole(Before(n)) => Whole(Before(n))'
    BY <2>2, Zenon DEF Whole
  <2> QED
    BY <1>0, <2>1, <2>3, Zenon DEF Refers
<1>12. Users'
  BY <1>0, <1>2, Zenon DEF PlansInv, Users
<1>13. nextId' # 0
  BY <1>0, <1>2, Zenon DEF PlansInv
<1> QED
  BY <1>6, <1>9, <1>10, <1>11, <1>12, <1>13, Zenon DEF PlansInv

-----------------------------------------------------------------------------
(***************************************************************************)
(* A plan ends with what it found, or with all it was to make.             *)
(***************************************************************************)
LEMMA AllStand ==
  ASSUME Controlled, NEW r \in Requests, pc[r] = "do", at[r] > Len(Steps(r))
  PROVE  \A t \in StepNames : Stands(r, t) <=> Pos(r, t) > 0
<1>1. /\ Last(r) \in 1..15 /\ Len(Steps(r)) = Last(r) /\ at[r] \in 1..Last(r) + 1
  BY Plan, Zenon
<1>2. at[r] - 1 = Last(r)
  BY <1>1, SMT
<1>3. ASSUME NEW t \in StepNames PROVE Stands(r, t) <=> Pos(r, t) > 0
  <2>1. Pos(r, t) \in 0..Last(r)
    BY StepPlaces, Zenon DEF Controlled
  <2>2. Stands(r, t) <=> 0 < Pos(r, t) /\ Pos(r, t) <= at[r] - 1
    BY SMT DEF Stands
  <2> QED
    BY <1>1, <1>2, <2>1, <2>2, SMT
<1> QED
  BY <1>3

LEMMA NoneStands ==
  ASSUME Controlled, NEW r \in Requests, pc[r] = "undo", at[r] = 0
  PROVE  \A t \in StepNames : ~Stands(r, t)
<1>1. ASSUME NEW t \in StepNames PROVE ~Stands(r, t)
  <2>1. Pos(r, t) \in 0..15
    BY Plan, Zenon
  <2> QED
    BY <2>1, SMT DEF Stands
<1> QED
  BY <1>1

(* What is left of a plan of which nothing stands.                         *)
LEMMA NothingLeft ==
  ASSUME NEW r, Trace(r), \A t \in StepNames : ~Stands(r, t)
  PROVE  LET h == host[Name(r)] was == found[r] IN
         /\ h.user = was.user /\ h.web = was.web /\ h.db = was.db /\ h.cert = was.cert /\ h.jobs = was.jobs
         /\ h.home = was.home /\ h.source = was.source /\ h.vhost = was.vhost /\ h.pool = was.pool
         /\ h.crontab = was.crontab /\ h.schema = was.schema /\ h.lineage = was.lineage
         /\ h.row = NoRow <=> was.row = NoRow
         /\ h.row # NoRow => h.row.id = was.row.id /\ h.row.uid = was.row.uid
         /\ Kind(r) \notin Movers \/ pc[r] = "do" \/ snap[r].row = was.row => h.row = was.row
<1>1. /\ ~Stands(r, "user") /\ ~Stands(r, "dropUser") /\ ~Stands(r, "record") /\ ~Stands(r, "dropRow")
      /\ ~Stands(r, "status") /\ ~Stands(r, "quota") /\ ~Stands(r, "website") /\ ~Stands(r, "dropWebsite")
      /\ ~Stands(r, "database") /\ ~Stands(r, "dropDatabase") /\ ~Stands(r, "certificate")
      /\ ~Stands(r, "dropCertificates") /\ ~Stands(r, "jobs")
  BY SMT DEF StepNames, Drops
<1>2. /\ ~Stands(r, "dropHome") /\ ~Stands(r, "home") /\ ~Stands(r, "promote")
      /\ ~Stands(r, "transfer")
      /\ ~Stands(r, "vhost") /\ ~Stands(r, "dropVHost") /\ ~Stands(r, "pool") /\ ~Stands(r, "dropPool")
      /\ ~Stands(r, "crontab") /\ ~Stands(r, "import") /\ ~Stands(r, "schema") /\ ~Stands(r, "dropSchema")
      /\ ~Stands(r, "renewal") /\ ~Stands(r, "dropLineage")
  BY SMT DEF StepNames, Drops
<1> DEFINE h == host[Name(r)] was == found[r]
<1>3. h.user = was.user
  BY <1>1, Zenon DEF Trace, UserTrace
<1>4. h.web = was.web /\ h.db = was.db /\ h.cert = was.cert /\ h.jobs = was.jobs
  BY <1>1, Zenon DEF Trace, RowsTrace
<1>5. h.home = was.home /\ h.source = was.source
  BY <1>2, Zenon DEF Trace, HomeTrace
<1>6. /\ h.vhost = was.vhost /\ h.pool = was.pool
      /\ h.crontab = was.crontab /\ h.schema = was.schema /\ h.lineage = was.lineage
  BY <1>2, Zenon DEF Trace, SystemTrace
<1>7. CASE Kind(r) \notin Movers
  <2>1. h.row = was.row
    BY <1>1, <1>7, Zenon DEF Trace, RowTrace
  <2> QED
    BY <1>3, <1>4, <1>5, <1>6, <2>1, Zenon
<1>8. CASE Kind(r) \in Movers
  <2>1. /\ h.row = NoRow <=> was.row = NoRow
        /\ h.row # NoRow => h.row.id = was.row.id /\ h.row.uid = was.row.uid
        /\ pc[r] = "do" \/ snap[r].row = was.row => h.row = was.row
    BY <1>1, <1>8, Zenon DEF Trace, RowTrace
  <2> QED
    BY <1>3, <1>4, <1>5, <1>6, <1>8, <2>1, Zenon
<1> QED
  BY <1>7, <1>8

(* The same parts are as whole as they were.                               *)
LEMMA AsWhole ==
  ASSUME NEW h, NEW was, Whole(was),
         h.user = was.user, h.web = was.web, h.db = was.db, h.cert = was.cert, h.jobs = was.jobs,
         h.home = was.home, h.vhost = was.vhost, h.pool = was.pool, h.schema = was.schema,
         h.lineage = was.lineage, h.row = NoRow <=> was.row = NoRow,
         h.row # NoRow => h.row.id = was.row.id /\ h.row.uid = was.row.uid
  PROVE  Whole(h)
<1>1. h.row # NoRow =>
        /\ h.user = h.row.uid /\ h.home # NoHome /\ h.home.owner = h.row.uid
        /\ {h.web, h.db, h.cert, h.jobs} \subseteq {0, h.row.id}
  <2>1. was.row # NoRow =>
          /\ was.user = was.row.uid /\ was.home # NoHome /\ was.home.owner = was.row.uid
          /\ {was.web, was.db, was.cert, was.jobs} \subseteq {0, was.row.id}
    BY Zenon DEF Whole
  <2> QED
    BY <2>1, Zenon
<1>2. h.row = NoRow => h.user = 0 /\ h.home = NoHome /\ {h.web, h.db, h.cert, h.jobs} = {0}
  BY Zenon DEF Whole
<1>3. /\ h.vhost = (h.web # 0) /\ h.pool = (h.web # 0)
      /\ (h.schema # "none") = (h.db # 0)
      /\ h.cert # 0 => h.lineage # "none"
  BY Zenon DEF Whole
<1> QED
  BY <1>1, <1>2, <1>3, Zenon DEF Whole

(* A plan that has made a subscription has made all of it.                 *)
LEMMA MadeWhole ==
  ASSUME NEW h \in Host, Refers(h), h.row \in Row, h.user = h.row.uid, h.home \in Home, h.home.owner = h.row.uid,
         h.vhost <=> h.web # 0, h.pool <=> h.web # 0, h.schema # "none" <=> h.db # 0,
         h.cert # 0 => h.lineage # "none"
  PROVE  Whole(h)
<1>1. h.row # NoRow /\ h.home # NoHome
  BY SubscriptionAssumption, Zenon
<1>2. {h.web, h.db, h.cert, h.jobs} \subseteq {0, h.row.id}
  BY <1>1, Zenon DEF Refers
<1>3. h.vhost \in BOOLEAN /\ h.pool \in BOOLEAN
  BY Zenon DEF Host
<1>4. h.vhost = (h.web # 0) /\ h.pool = (h.web # 0)
  BY <1>3, Zenon
<1>5. (h.schema # "none") = (h.db # 0)
  BY Zenon
<1> QED
  BY <1>1, <1>2, <1>4, <1>5, Zenon DEF Whole

-----------------------------------------------------------------------------
(***************************************************************************)
(* The plans that make a subscription, one by one.                         *)
(***************************************************************************)

LEMMA WholeCreate ==
  ASSUME NEW r \in Requests, Planned(r), Trace(r), Whole(found[r]), found[r] \in Host, pc[r] = "do",
         host[Name(r)] \in Host, Refers(host[Name(r)]),
         \A t \in StepNames : Stands(r, t) <=> Pos(r, t) > 0, Kind(r) = "create"
  PROVE  Whole(host[Name(r)])
<1> DEFINE h == host[Name(r)] was == found[r] seen == snap[r]
<1>1. \A t : Pos(r, t) = CreatePos(t)
  BY SMT DEF Pos, Movers
<1>2. /\ Stands(r, "user") /\ Stands(r, "home") /\ Stands(r, "record")
      /\ ~Stands(r, "website") /\ ~Stands(r, "dropWebsite") /\ ~Stands(r, "database")
      /\ ~Stands(r, "dropDatabase") /\ ~Stands(r, "certificate") /\ ~Stands(r, "dropCertificates")
      /\ ~Stands(r, "vhost") /\ ~Stands(r, "dropVHost") /\ ~Stands(r, "pool") /\ ~Stands(r, "dropPool")
      /\ ~Stands(r, "import") /\ ~Stands(r, "schema") /\ ~Stands(r, "dropSchema") /\ ~Stands(r, "dropRow")
  BY <1>1, SMT DEF CreatePos, Place, StepNames, Drops
<1>3. h.user = uid[r] /\ was.row = NoRow /\ was.home = NoHome
  <2>1. UserTrace(r)
    BY Zenon DEF Trace
  <2> QED
    BY <1>2, <2>1, MadeOfNothing, Zenon DEF UserTrace
<1>4. h.row \in Row /\ h.row.uid = uid[r]
  BY <1>2, Zenon DEF Trace, RowTrace
<1>5. h.home \in Home /\ h.home.owner = uid[r]
  <2>1. h.home \in Home
    BY <1>2, Zenon DEF Planned, Grounded, Running
  <2> QED
    BY <1>2, <2>1, Zenon DEF Trace, HomeTrace
<1>6. /\ was.web = 0 /\ was.db = 0 /\ was.cert = 0
      /\ was.vhost = FALSE /\ was.pool = FALSE /\ was.schema = "none"
  <2>1. /\ {was.web, was.db, was.cert, was.jobs} = {0}
        /\ was.vhost = (was.web # 0) /\ was.pool = (was.web # 0)
        /\ (was.schema # "none") = (was.db # 0)
    BY <1>3, Zenon DEF Whole
  <2>2. was.web = 0 /\ was.db = 0 /\ was.cert = 0
    BY <2>1
  <2> QED
    BY <2>1, <2>2, Zenon
<1>7. h.web = 0 /\ h.db = 0 /\ h.cert = 0
  BY <1>2, <1>6, Zenon DEF Trace, RowsTrace
<1>8. h.vhost = FALSE /\ h.pool = FALSE /\ h.schema = "none"
  BY <1>2, <1>6, Zenon DEF Trace, SystemTrace
<1>9. /\ h.vhost <=> h.web # 0
      /\ h.pool <=> h.web # 0
      /\ h.schema # "none" <=> h.db # 0
      /\ h.cert # 0 => h.lineage # "none"
  BY <1>7, <1>8, SMT
<1> QED
  BY <1>3, <1>4, <1>5, <1>9, MadeWhole, Zenon


LEMMA WholeAdopt ==
  ASSUME NEW r \in Requests, Planned(r), Trace(r), Whole(found[r]), found[r] \in Host, pc[r] = "do",
         host[Name(r)] \in Host, Refers(host[Name(r)]),
         \A t \in StepNames : Stands(r, t) <=> Pos(r, t) > 0, Kind(r) = "adopt"
  PROVE  Whole(host[Name(r)])
<1> DEFINE h == host[Name(r)] was == found[r] seen == snap[r]
<1>1. \A t : Pos(r, t) = AdoptPos(seen, t)
  BY SMT DEF Pos, Movers
<1>2. /\ Stands(r, "user") /\ Stands(r, "home") /\ Stands(r, "record") /\ Stands(r, "chown")
      /\ Stands(r, "website") /\ ~Stands(r, "dropWebsite") /\ ~Stands(r, "database")
      /\ ~Stands(r, "dropDatabase") /\ ~Stands(r, "dropCertificates")
      /\ Stands(r, "certificate") <=> Stands(r, "renewal")
      /\ Stands(r, "vhost") /\ Stands(r, "pool")
      /\ ~Stands(r, "import") /\ ~Stands(r, "schema") /\ ~Stands(r, "dropSchema") /\ ~Stands(r, "dropRow")
  BY <1>1, SMT DEF AdoptPos, Place, StepNames, Drops
<1>3. h.user = uid[r] /\ was.row = NoRow /\ was.home = NoHome
  <2>1. UserTrace(r)
    BY Zenon DEF Trace
  <2> QED
    BY <1>2, <2>1, MadeOfNothing, Zenon DEF UserTrace
<1>4. h.row \in Row /\ h.row.uid = uid[r]
  BY <1>2, Zenon DEF Trace, RowTrace
<1>5. h.home \in Home /\ h.home.owner = uid[r]
  <2>1. h.home \in Home
    BY <1>2, Zenon DEF Planned, Grounded, Running
  <2> QED
    BY <1>2, <2>1, Zenon DEF Trace, HomeTrace
<1>6. /\ was.web = 0 /\ was.db = 0 /\ was.cert = 0
      /\ was.vhost = FALSE /\ was.pool = FALSE /\ was.schema = "none"
  <2>1. /\ {was.web, was.db, was.cert, was.jobs} = {0}
        /\ was.vhost = (was.web # 0) /\ was.pool = (was.web # 0)
        /\ (was.schema # "none") = (was.db # 0)
    BY <1>3, Zenon DEF Whole
  <2>2. was.web = 0 /\ was.db = 0 /\ was.cert = 0
    BY <2>1
  <2> QED
    BY <2>1, <2>2, Zenon
<1>7. h.web # 0 /\ h.db = 0 /\ (~Stands(r, "certificate") => h.cert = 0)
  BY <1>2, <1>6, Zenon DEF Trace, RowsTrace
<1>8. /\ h.vhost = TRUE /\ h.pool = TRUE /\ h.schema = "none"
      /\ Stands(r, "certificate") => h.lineage = "webroot"
  BY <1>2, <1>6, Zenon DEF Trace, SystemTrace
<1>9. /\ h.vhost <=> h.web # 0
      /\ h.pool <=> h.web # 0
      /\ h.schema # "none" <=> h.db # 0
      /\ h.cert # 0 => h.lineage # "none"
  BY <1>7, <1>8, SMT
<1> QED
  BY <1>3, <1>4, <1>5, <1>9, MadeWhole, Zenon


LEMMA WholeRestore ==
  ASSUME NEW r \in Requests, Planned(r), Trace(r), Whole(found[r]), found[r] \in Host, pc[r] = "do",
         host[Name(r)] \in Host, Refers(host[Name(r)]),
         \A t \in StepNames : Stands(r, t) <=> Pos(r, t) > 0, Kind(r) = "restore"
  PROVE  Whole(host[Name(r)])
<1> DEFINE h == host[Name(r)] was == found[r] seen == snap[r]
<1>1. \A t : Pos(r, t) = RestorePos(seen, t)
  BY SMT DEF Pos, Movers
<1>2. /\ Stands(r, "user") /\ Stands(r, "promote") /\ Stands(r, "record") /\ Stands(r, "chown")
      /\ ~Stands(r, "dropWebsite") /\ ~Stands(r, "dropDatabase") /\ ~Stands(r, "certificate")
      /\ ~Stands(r, "dropCertificates") /\ ~Stands(r, "dropVHost") /\ ~Stands(r, "dropPool")
      /\ ~Stands(r, "dropSchema") /\ ~Stands(r, "dropRow")
      /\ Stands(r, "import") <=> seen.db # 0
      /\ Stands(r, "schema") <=> seen.db # 0
      /\ Stands(r, "database") <=> seen.db # 0
      /\ Stands(r, "pool") <=> seen.web # 0
      /\ Stands(r, "vhost") <=> seen.web # 0
      /\ Stands(r, "website") <=> seen.web # 0
  BY <1>1, SMT DEF RestorePos, Place, StepNames, Drops
<1>3. h.user = uid[r] /\ was.row = NoRow /\ was.home = NoHome
  <2>1. UserTrace(r)
    BY Zenon DEF Trace
  <2> QED
    BY <1>2, <2>1, MadeOfNothing, Zenon DEF UserTrace
<1>4. h.row \in Row /\ h.row.uid = uid[r]
  BY <1>2, Zenon DEF Trace, RowTrace
<1>5. h.home \in Home /\ h.home.owner = uid[r]
  <2>1. h.home \in Home
    BY <1>2, Zenon DEF Planned, Grounded, Running
  <2> QED
    BY <1>2, <2>1, Zenon DEF Trace, HomeTrace
<1>6. /\ was.web = 0 /\ was.db = 0 /\ was.cert = 0
      /\ was.vhost = FALSE /\ was.pool = FALSE /\ was.schema = "none"
  <2>1. /\ {was.web, was.db, was.cert, was.jobs} = {0}
        /\ was.vhost = (was.web # 0) /\ was.pool = (was.web # 0)
        /\ (was.schema # "none") = (was.db # 0)
    BY <1>3, Zenon DEF Whole
  <2>2. was.web = 0 /\ was.db = 0 /\ was.cert = 0
    BY <2>1
  <2> QED
    BY <2>1, <2>2, Zenon
<1>7. /\ h.web # 0 <=> seen.web # 0
      /\ h.db # 0 <=> seen.db # 0
      /\ h.cert = 0
  BY <1>2, <1>6, Zenon DEF Trace, RowsTrace
<1>a. seen.db # 0 => seen.schema # "none"
  BY Zenon DEF Planned, Restores
<1>8. /\ h.vhost <=> seen.web # 0
      /\ h.pool <=> seen.web # 0
      /\ h.schema # "none" <=> seen.db # 0
  BY <1>2, <1>6, <1>a, Zenon DEF Trace, SystemTrace
<1>9. /\ h.vhost <=> h.web # 0
      /\ h.pool <=> h.web # 0
      /\ h.schema # "none" <=> h.db # 0
      /\ h.cert # 0 => h.lineage # "none"
  BY <1>7, <1>8, SMT
<1> QED
  BY <1>3, <1>4, <1>5, <1>9, MadeWhole, Zenon

LEMMA WholeDatabase ==
  ASSUME NEW r \in Requests, Trace(r), Whole(found[r]), found[r] \in Host, pc[r] = "do",
         host[Name(r)] \in Host, Refers(host[Name(r)]),
         \A t \in StepNames : Stands(r, t) <=> Pos(r, t) > 0, Kind(r) = "database"
  PROVE  Whole(host[Name(r)])
<1> DEFINE h == host[Name(r)] was == found[r]
<1>1. \A t : Pos(r, t) = IF t = "schema" THEN 1 ELSE IF t = "database" THEN 2 ELSE 0
  BY SMT DEF Pos, Movers
<1>2. /\ ~Stands(r, "user") /\ ~Stands(r, "dropUser") /\ ~Stands(r, "record") /\ ~Stands(r, "dropRow")
      /\ ~Stands(r, "website") /\ ~Stands(r, "dropWebsite") /\ Stands(r, "database")
      /\ ~Stands(r, "certificate") /\ ~Stands(r, "dropCertificates")
      /\ ~Stands(r, "home") /\ ~Stands(r, "promote") /\ ~Stands(r, "dropHome")
      /\ ~Stands(r, "vhost") /\ ~Stands(r, "dropVHost") /\ ~Stands(r, "pool") /\ ~Stands(r, "dropPool")
      /\ ~Stands(r, "import") /\ Stands(r, "schema") /\ ~Stands(r, "renewal") /\ ~Stands(r, "dropLineage")
  BY <1>1, SMT DEF StepNames, Drops
<1>3. h.user = was.user /\ h.row = was.row
  <2>1. Kind(r) \notin Movers
    BY DEF Movers
  <2> QED
    BY <1>2, <2>1, Zenon DEF Trace, UserTrace, RowTrace
<1>4. h.home = was.home
  BY <1>2, Zenon DEF Trace, HomeTrace
<1>5. h.web = was.web /\ h.db # 0 /\ h.cert = was.cert
  BY <1>2, Zenon DEF Trace, RowsTrace
<1>6. h.vhost = was.vhost /\ h.pool = was.pool /\ h.schema = "empty" /\ h.lineage = was.lineage
  BY <1>2, Zenon DEF Trace, SystemTrace
<1>7. h.row # NoRow
  BY <1>5, Zenon DEF Refers
<1>8. h.row \in Row
  BY <1>7, Zenon DEF Host
<1>9. h.user = h.row.uid /\ h.home # NoHome /\ h.home.owner = h.row.uid
  BY <1>3, <1>4, <1>7, Zenon DEF Whole
<1>10. h.home \in Home
  BY <1>9, Zenon DEF Host
<1>11. /\ h.vhost <=> h.web # 0
       /\ h.pool <=> h.web # 0
       /\ h.cert # 0 => h.lineage # "none"
  BY <1>5, <1>6, Zenon DEF Whole
<1>12. h.schema # "none" <=> h.db # 0
  BY <1>5, <1>6, SMT
<1> QED
  BY <1>8, <1>9, <1>10, <1>11, <1>12, MadeWhole, Zenon

LEMMA WholeMoved ==
  ASSUME NEW r \in Requests, Trace(r), Whole(found[r]), pc[r] = "do",
         \A t \in StepNames : Stands(r, t) <=> Pos(r, t) > 0, Kind(r) \in Movers
  PROVE  Whole(host[Name(r)])
<1> DEFINE h == host[Name(r)] was == found[r]
<1>1. \A t : Pos(r, t) = Place(t = Kind(r), 1)
  BY SMT DEF Pos, Movers
<1>2. /\ ~Stands(r, "user") /\ ~Stands(r, "dropUser")
      /\ ~Stands(r, "website") /\ ~Stands(r, "dropWebsite") /\ ~Stands(r, "database") /\ ~Stands(r, "dropDatabase")
      /\ ~Stands(r, "certificate") /\ ~Stands(r, "dropCertificates") /\ ~Stands(r, "jobs") /\ ~Stands(r, "dropRow")
      /\ ~Stands(r, "home") /\ ~Stands(r, "promote") /\ ~Stands(r, "dropHome")
      /\ ~Stands(r, "vhost") /\ ~Stands(r, "dropVHost") /\ ~Stands(r, "pool") /\ ~Stands(r, "dropPool")
      /\ ~Stands(r, "import") /\ ~Stands(r, "schema") /\ ~Stands(r, "dropSchema")
      /\ ~Stands(r, "renewal") /\ ~Stands(r, "dropLineage")
  BY <1>1, SMT DEF StepNames, Drops, Place, Movers
<1>3. h.user = was.user /\ h.home = was.home
  BY <1>2, Zenon DEF Trace, UserTrace, HomeTrace
<1>4. /\ h.row = NoRow <=> was.row = NoRow
      /\ h.row # NoRow => h.row.id = was.row.id /\ h.row.uid = was.row.uid
  BY Zenon DEF Trace, RowTrace
<1>5. h.web = was.web /\ h.db = was.db /\ h.cert = was.cert /\ h.jobs = was.jobs
  BY <1>2, Zenon DEF Trace, RowsTrace
<1>6. h.vhost = was.vhost /\ h.pool = was.pool /\ h.schema = was.schema /\ h.lineage = was.lineage
  BY <1>2, Zenon DEF Trace, SystemTrace
<1> QED
  BY <1>3, <1>4, <1>5, <1>6, AsWhole, Zenon

(* A deletion has read which parts there are: where a part was not listed  *)
(* it is not there now, because no row of it is.                           *)
LEMMA WholeDeleted ==
  ASSUME NEW r \in Requests, Trace(r), Whole(found[r]), found[r] \in Host, pc[r] = "do",
         host[Name(r)] \in Host, Refers(host[Name(r)]),
         \A t \in StepNames : Stands(r, t) <=> Pos(r, t) > 0, Kind(r) = "delete"
  PROVE  Whole(host[Name(r)])
<1> DEFINE h == host[Name(r)] was == found[r] seen == snap[r]
<1>1. \A t : Pos(r, t) = DeletePos(seen, t)
  BY SMT DEF Pos, Movers
<1>2. /\ ~Stands(r, "user") /\ Stands(r, "dropUser") /\ Stands(r, "dropRow") /\ Stands(r, "dropHome")
      /\ ~Stands(r, "website") /\ ~Stands(r, "database")
      /\ ~Stands(r, "vhost") /\ ~Stands(r, "pool") /\ ~Stands(r, "import") /\ ~Stands(r, "schema")
      /\ Stands(r, "dropWebsite") <=> Stands(r, "dropVHost")
      /\ Stands(r, "dropWebsite") <=> Stands(r, "dropPool")
      /\ Stands(r, "dropDatabase") <=> Stands(r, "dropSchema")
  BY <1>1, SMT DEF StepNames, Drops, Place, DeletePos
<1>3. h.user = 0 /\ h.row = NoRow /\ h.home = NoHome
  BY <1>2, Zenon DEF Trace, UserTrace, RowTrace, HomeTrace
<1>4. {h.web, h.db, h.cert, h.jobs} = {0}
  BY <1>3, Zenon DEF Refers
<1>5. /\ h.web = (IF Stands(r, "dropWebsite") THEN 0 ELSE was.web)
      /\ h.db = (IF Stands(r, "dropDatabase") THEN 0 ELSE was.db)
  BY <1>2, Zenon DEF Trace, RowsTrace
<1>6. /\ h.vhost = IF Stands(r, "dropWebsite") THEN FALSE ELSE was.vhost
      /\ h.pool = IF Stands(r, "dropWebsite") THEN FALSE ELSE was.pool
      /\ h.schema = IF Stands(r, "dropDatabase") THEN "none" ELSE was.schema
  BY <1>2, Zenon DEF Trace, SystemTrace
<1>7. h.web = 0 /\ h.db = 0 /\ h.cert = 0
  BY <1>4
<1>8. /\ was.vhost = (was.web # 0) /\ was.pool = (was.web # 0)
      /\ (was.schema # "none") = (was.db # 0)
  BY Zenon DEF Whole
<1>9. h.vhost = (h.web # 0) /\ h.pool = (h.web # 0)
  BY <1>5, <1>6, <1>7, <1>8, Zenon
<1>10. (h.schema # "none") = (h.db # 0)
  BY <1>5, <1>6, <1>7, <1>8, Zenon
<1> QED
  BY <1>3, <1>4, <1>7, <1>9, <1>10, Zenon DEF Whole

LEMMA WholeAgain ==
  ASSUME IInv, NEW r \in Requests, Running(r), r \notin torn, Name(r) \notin damaged,
         \/ pc[r] = "do" /\ at[r] > Len(Steps(r))
         \/ pc[r] = "undo" /\ at[r] = 0 /\ ~dirty[r]
  PROVE  Whole(host[Name(r)])
<1>1. /\ Planned(r) /\ host[Name(r)] \in Host /\ Refers(host[Name(r)]) /\ Traced(r)
      /\ found[r] \in Host /\ Whole(found[r])
  BY Facts, Zenon
<1>2. Controlled /\ Kind(r) \in Kinds
  BY <1>1, WantedKinds, Zenon DEF Planned, Controlled
<1>3. Trace(r)
  BY <1>1, Zenon DEF Traced, Clean
<1>4. CASE pc[r] = "do" /\ at[r] > Len(Steps(r))
  <2>1. \A t \in StepNames : Stands(r, t) <=> Pos(r, t) > 0
    BY <1>2, <1>4, AllStand, Zenon
  <2>2. Kind(r) \in {"create", "adopt", "restore", "database", "delete"} \cup Movers
    BY <1>2, Zenon DEF Kinds, Makers
  <2>3. Kind(r) \in Movers => Whole(host[Name(r)])
    BY <1>1, <1>3, <1>4, <2>1, WholeMoved, Zenon
  <2>4. Kind(r) = "create" => Whole(host[Name(r)])
    BY <1>1, <1>3, <1>4, <2>1, WholeCreate, Zenon
  <2>5. Kind(r) = "adopt" => Whole(host[Name(r)])
    BY <1>1, <1>3, <1>4, <2>1, WholeAdopt, Zenon
  <2>6. Kind(r) = "restore" => Whole(host[Name(r)])
    BY <1>1, <1>3, <1>4, <2>1, WholeRestore, Zenon
  <2>7. Kind(r) = "database" => Whole(host[Name(r)])
    BY <1>1, <1>3, <1>4, <2>1, WholeDatabase, Zenon
  <2>8. Kind(r) = "delete" => Whole(host[Name(r)])
    BY <1>1, <1>3, <1>4, <2>1, WholeDeleted, Zenon
  <2> QED
    BY <2>2, <2>3, <2>4, <2>5, <2>6, <2>7, <2>8, Zenon
<1>5. CASE pc[r] = "undo" /\ at[r] = 0
  <2>1. \A t \in StepNames : ~Stands(r, t)
    BY <1>2, <1>5, NoneStands, Zenon
  <2> QED
    BY <1>1, <1>3, <2>1, NothingLeft, AsWhole, Zenon
<1> QED
  BY <1>4, <1>5

-----------------------------------------------------------------------------
(***************************************************************************)
(* A plan ends, and its name is whole or damaged.                          *)
(***************************************************************************)
LEMMA ReturnMoves ==
  ASSUME IInv, NEW r \in Requests, Return(r), ArchivesStay
  PROVE  PlansInv'
<1>0. /\ Ended(r, Len(Steps(r)))
      /\ damaged' = (IF r \in torn \/ pc'[r] \in {"inconsistent", "running"} THEN damaged \cup {Name(r)} ELSE damaged)
      /\ snap' = [snap EXCEPT ![r] = Nothing] /\ found' = [found EXCEPT ![r] = Nothing]
      /\ uid' = [uid EXCEPT ![r] = 0]
      /\ host' = host /\ nextId' = nextId /\ foreign' = foreign /\ want' = want /\ torn' = torn
  BY Zenon DEF Return
<1>1. Planned(r) /\ Name(r) \in Names
  BY Facts, Zenon
<1>2. SubscriptionTyped /\ PlansInv /\ Controlled
  BY <1>1, Zenon DEF IInv, TypeOK, PlansInv, Planned
<1>3. /\ lock = r /\ lock' = NoRequest /\ Running(r)
      /\ pc'[r] \in {Verdict(r, Len(Steps(r))), "running"}
  <2>1. pc \in [Requests -> PCs]
    BY <1>2, Zenon DEF Controlled, ControlTyped
  <2>2. lock = r => Running(r)
    BY <1>2, Zenon DEF PlansInv, Placed
  <2> QED
    BY <1>0, <2>1, <2>2, Zenon DEF Ended, Goto
<1>a. pc'[r] \in Verdicts
  BY <1>3, SMT DEF Verdict, Verdicts
<1>b. pc'[r] \notin {"new", "ready", "do", "undo", "refused"}
  BY <1>a, SMT DEF Verdicts
<1>c. ~Running(r)'
  BY <1>b, Zenon DEF Running
<1>5. /\ snap \in [Requests -> Host \cup {Nothing}] /\ found \in [Requests -> Host \cup {Nothing}]
      /\ uid \in [Requests -> Uids \cup {0}] /\ damaged \subseteq Names
  BY <1>2, Zenon DEF SubscriptionTyped
<1>d. /\ \A q \in Requests : q # r => snap'[q] = snap[q] /\ found'[q] = found[q] /\ uid'[q] = uid[q]
  BY <1>0, <1>5, Zenon
<1>4. Controlled' /\ OthersStay(r)
  BY <1>0, <1>2, <1>c, <1>d, ControlMoves, Zenon DEF Moves
<1>6. SubscriptionTyped'
  <2>1. ControlTyped(18)'
    BY <1>4, Zenon DEF Controlled
  <2>2. /\ snap' \in [Requests -> Host \cup {Nothing}] /\ found' \in [Requests -> Host \cup {Nothing}]
        /\ uid' \in [Requests -> Uids \cup {0}]
    BY <1>0, <1>5, Zenon
  <2>3. damaged' \subseteq Names
    BY <1>0, <1>1, <1>5, Zenon
  <2> QED
    BY <1>0, <1>2, <2>1, <2>2, <2>3, Zenon DEF SubscriptionTyped
<1>9. Placed(r)' /\ Read(r)' /\ Grounded(r)' /\ Traced(r)'
  <2>1. Placed(r)'
    BY <1>4, Zenon DEF Controlled
  <2>2. Read(r)'
    BY <1>b, <1>c, Zenon DEF Read
  <2>3. Grounded(r)' /\ Traced(r)'
    BY <1>b, <1>c, Zenon DEF Grounded, Traced, Clean
  <2> QED
    BY <2>1, <2>2, <2>3
<1>10. ASSUME NEW q \in Requests, q # r
       PROVE  Placed(q)' /\ Read(q)' /\ Grounded(q)' /\ Traced(q)'
  <2>1. Placed(q)' /\ pc'[q] = pc[q] /\ (Running(q)' <=> Running(q))
    BY <1>4, <1>10, Zenon DEF Controlled, OthersStay
  <2>2. ~Running(q)'
    BY <1>3, <2>1, RequestsAssumption, Zenon DEF Placed
  <2>3. Read(q)'
    <3>1. Read(q)
      BY <1>2, Zenon DEF PlansInv
    <3> QED
      BY <1>0, <1>d, <1>10, <2>1, <3>1, ReadKept, Zenon
  <2>4. Grounded(q)' /\ Traced(q)'
    BY <2>2, Zenon DEF Grounded, Traced, Clean, Running
  <2> QED
    BY <2>1, <2>3, <2>4
<1>e. Name(r) \notin damaged' => Whole(host[Name(r)])
  <2>1. SUFFICES ASSUME Name(r) \notin damaged'
                 PROVE  Whole(host[Name(r)])
    OBVIOUS
  <2>2. Name(r) \notin damaged /\ r \notin torn /\ pc'[r] \notin {"inconsistent", "running"}
    BY <1>0, <2>1, Zenon
  <2>3. Verdict(r, Len(Steps(r))) \notin {"inconsistent", "running"}
    BY <1>3, <2>2, Zenon
  <2>4. \/ pc[r] = "do" /\ at[r] > Len(Steps(r))
        \/ pc[r] = "undo" /\ at[r] = 0 /\ ~dirty[r]
    BY <2>3, SMT DEF Verdict
  <2> QED
    BY <1>3, <2>2, <2>4, WholeAgain, Zenon
<1>11. ASSUME NEW n \in Names
       PROVE  Refers(host[n])' /\ (n \notin damaged' => Whole(Before(n))')
  <2>1. Refers(host[n]) /\ (n \notin damaged => Whole(Before(n)))
    BY <1>2, Zenon DEF PlansInv
  <2>2. Before(n)' = host[n]
    BY <1>0, <1>3, Zenon DEF Before
  <2>3. n # Name(r) => Before(n) = host[n]
    BY <1>3, Zenon DEF Before
  <2>4. n \notin damaged' => n \notin damaged
    BY <1>0, Zenon
  <2>5. n \notin damaged' => Whole(host[n])
    BY <1>e, <2>1, <2>3, <2>4, Zenon
  <2>6. Whole(host[n]) => Whole(Before(n))'
    BY <2>2, Zenon DEF Whole
  <2> QED
    BY <1>0, <2>1, <2>5, <2>6, Zenon DEF Refers
<1>12. Users'
  BY <1>0, <1>2, Zenon DEF PlansInv, Users
<1>13. nextId' # 0
  BY <1>0, <1>2, Zenon DEF PlansInv
<1> QED
  BY <1>6, <1>9, <1>10, <1>11, <1>12, <1>13, Zenon DEF PlansInv

LEMMA RunMoves ==
  ASSUME IInv, NEW r \in Requests, Runs(r), ArchivesStay
  PROVE  PlansInv'
<1>1. CASE Start(r)
  BY <1>1, StartMoves, Zenon
<1>2. CASE Return(r)
  BY <1>2, ReturnMoves, Zenon
<1>3. CASE Do(r) \/ Fail(r) \/ Undo(r) \/ UndoFails(r) \/ StopAtCommit(r)
  <2>1. Preserved(r)
    BY <1>3, DoPreserves, FailPreserves, UndoPreserves, UndoFailsPreserves, StopPreserves, Zenon
  <2> QED
    BY <2>1, MovesOn, Zenon
<1> QED
  BY <1>1, <1>2, <1>3, Zenon DEF Runs

-----------------------------------------------------------------------------
(***************************************************************************)
(* A plan is prepared or refused, and a backup moves: nothing of the hosts *)
(* or of the plan that is running changes.                                 *)
(***************************************************************************)
LEMMA LessIsWellFounded ==
  \E R : IsWellFoundedOn(R, Nat) /\ \A x, y \in Nat : x < y => <<x, y>> \in R
<1>1. IsWellFoundedOn(OpToRel(<, Nat), Nat)
  BY NatLessThanWellFounded
<1>2. \A x, y \in Nat : x < y => <<x, y>> \in OpToRel(<, Nat)
  BY SMT DEF OpToRel
<1> QED
  BY <1>1, <1>2, Zenon

LEMMA MinIsThere ==
  ASSUME NEW S, S \subseteq Nat, S # {}
  PROVE  Min(S) \in S
<1>1. PICK R : IsWellFoundedOn(R, Nat) /\ \A x, y \in Nat : x < y => <<x, y>> \in R
  BY LessIsWellFounded
<1>2. IsWellFoundedOn(R, Nat)
  BY <1>1
<1>3. \E x \in S : \A y \in S : ~(<<y, x>> \in R)
  BY <1>2, WFMin
<1>5. PICK x \in S : \A y \in S : ~(<<y, x>> \in R)
  BY <1>3
<1>4. ASSUME NEW y \in S PROVE x =< y
  <2>1. ~(y < x)
    BY <1>1, <1>5, Zenon
  <2> QED
    BY <2>1, SMT
<1> QED
  BY <1>4, Zenon DEF Min

LEMMA PlansRest ==
  ASSUME IInv, NEW r \in Requests, Controlled', OthersStay(r), lock' = lock, host' = host, nextId' = nextId,
         want' = want, found' = found, torn' = torn, damaged' = damaged, SubscriptionTyped',
         \A q \in Requests \ {r} : snap'[q] = snap[q] /\ uid'[q] = uid[q],
         ~Running(r), ~Running(r)', Read(r)', ArchivesStay
  PROVE  PlansInv'
<1>1. PlansInv
  BY Zenon DEF IInv, TypeOK, PlansInv
<1>2. ASSUME NEW q \in Requests
      PROVE  Placed(q)' /\ Read(q)' /\ Grounded(q)' /\ Traced(q)'
  <2>1. Placed(q)'
    BY Zenon DEF Controlled
  <2>2. CASE q = r
    BY <2>1, <2>2, Zenon DEF Grounded, Traced, Clean, Running
  <2>3. CASE q # r
    <3>1. pc'[q] = pc[q] /\ at'[q] = at[q] /\ dirty'[q] = dirty[q] /\ (Running(q)' <=> Running(q))
          /\ snap'[q] = snap[q] /\ uid'[q] = uid[q]
      BY <2>3, Zenon DEF OthersStay
    <3>2. Read(q) /\ Grounded(q) /\ Traced(q)
      BY <1>1, Zenon DEF PlansInv
    <3>3. Read(q)'
      BY <3>1, <3>2, ReadKept, Zenon
    <3>4. Grounded(q)' /\ Traced(q)'
      BY <3>1, <3>2, StillKept, Zenon
    <3> QED
      BY <2>1, <3>3, <3>4
  <2> QED
    BY <2>2, <2>3
<1>3. ASSUME NEW n \in Names
      PROVE  Refers(host[n])' /\ (n \notin damaged' => Whole(Before(n))')
  <2>1. Refers(host[n]) /\ (n \notin damaged => Whole(Before(n)))
    BY <1>1, Zenon DEF PlansInv
  <2>2. Before(n)' = Before(n)
    BY Zenon DEF Before, Name
  <2> QED
    BY <2>1, <2>2, Zenon DEF Refers, Whole
<1>4. Users'
  BY <1>1, Zenon DEF PlansInv, Users
<1> QED
  BY <1>1, <1>2, <1>3, <1>4, Zenon DEF PlansInv

LEMMA RefuseMoves ==
  ASSUME IInv, NEW r \in Requests, Refuse(r), UNCHANGED shelf
  PROVE  PlansInv'
<1>1. /\ Refused(r) /\ host' = host /\ nextId' = nextId /\ foreign' = foreign /\ want' = want /\ snap' = snap
      /\ uid' = uid /\ found' = found /\ torn' = torn /\ damaged' = damaged /\ lock' = lock /\ archive' = archive
      /\ sealed' = sealed
  BY Zenon DEF Refuse, data, shelf, Refused
<1>2. SubscriptionTyped /\ Controlled /\ Read(r)
  BY Facts, Zenon DEF Planned
<1>3. pc'[r] = "refused" /\ pc[r] \in {"new", "ready"}
  BY <1>1, <1>2, Zenon DEF Refused, Goto, Controlled, ControlTyped
<1>4. ~Running(r) /\ ~Running(r)' /\ pc'[r] \notin {"ready", "do", "undo"}
  BY <1>3, SMT DEF Running
<1>5. Controlled' /\ OthersStay(r)
  BY <1>1, <1>2, ControlMoves, Zenon DEF Moves
<1>6. SubscriptionTyped'
  BY <1>1, <1>2, <1>5, Zenon DEF SubscriptionTyped, Controlled
<1>7. Read(r)'
  BY <1>4, Zenon DEF Read
<1>8. ArchivesStay
  BY <1>1, Zenon DEF ArchivesStay
<1> QED
  BY <1>1, <1>4, <1>5, <1>6, <1>7, <1>8, PlansRest, Zenon

LEMMA AcceptableHasRow ==
  ASSUME NEW w, NEW h, Acceptable(w, h), w.kind \in {"status", "quota", "database", "delete"}
  PROVE  h.row # NoRow
<1>1. CASE w.kind = "database"
  BY <1>1, SMT DEF Acceptable
<1>2. CASE w.kind = "status"
  BY <1>2, SMT DEF Acceptable, Movable
<1>3. CASE w.kind = "quota"
  BY <1>3, SMT DEF Acceptable, Limitable
<1>4. CASE w.kind = "delete"
  BY <1>4, SMT DEF Acceptable, Deletable
<1> QED
  BY <1>1, <1>2, <1>3, <1>4, Zenon

LEMMA PrepareMoves ==
  ASSUME IInv, NEW r \in Requests, PrepareAny(r)
  PROVE  PlansInv'
<1>0. /\ InTurn(r) /\ archive' = archive /\ sealed' = sealed
      /\ \E seen \in {host[Name(r)], archive[want[r].from]} : Prepare(r, seen)
      /\ Kind(r) = "restore" => want[r].from \in sealed /\ Prepare(r, archive[want[r].from])
      /\ Kind(r) # "restore" => Prepare(r, host[Name(r)])
  BY Zenon DEF PrepareAny, shelf, Inspectable
<1> DEFINE seen == IF Kind(r) = "restore" THEN archive[want[r].from] ELSE host[Name(r)]
           chooses == Kind(r) \in {"create", "adopt", "restore"}
<1>1. /\ Prepared(r) /\ Acceptable(want[r], host[Name(r)]) /\ (chooses => Free # {})
      /\ uid' = (IF chooses THEN [uid EXCEPT ![r] = Min(Free)] ELSE uid)
      /\ snap' = [snap EXCEPT ![r] = seen]
      /\ host' = host /\ nextId' = nextId /\ foreign' = foreign /\ want' = want /\ found' = found
      /\ torn' = torn /\ damaged' = damaged /\ lock' = lock
  BY <1>0, Zenon DEF Prepare, Prepared
<1>2. SubscriptionTyped /\ Controlled /\ host[Name(r)] \in Host
  BY Facts, Zenon DEF Planned
<1>3. pc'[r] = "ready" /\ pc[r] = "new"
  BY <1>1, <1>2, Zenon DEF Prepared, Goto, Controlled, ControlTyped
<1>4. ~Running(r) /\ ~Running(r)'
  BY <1>3, SMT DEF Running
<1>5. /\ snap \in [Requests -> Host \cup {Nothing}] /\ uid \in [Requests -> Uids \cup {0}]
      /\ foreign \subseteq Uids
  BY <1>2, Zenon DEF SubscriptionTyped
<1>6. Controlled' /\ OthersStay(r)
  BY <1>1, <1>2, <1>4, <1>5, ControlMoves, Zenon DEF Moves
<1>7. Kind(r) = "restore" => want[r].from \in sealed /\ archive[want[r].from] \in Host
  <2>1. \A b \in sealed : b \in Backups
    BY Zenon DEF IInv, TypeOK
  <2>2. \A b \in sealed : archive[b] \in Host
    BY <2>1, Zenon DEF IInv, Archived
  <2> QED
    BY <1>0, <2>2, Zenon
<1>8. seen \in Host
  BY <1>2, <1>7, Zenon
<1>9. chooses => Min(Free) \in Uids
  <2>1. Free \subseteq Uids
    BY Zenon DEF Free
  <2>2. Uids \subseteq Nat
    BY SubscriptionAssumption, SMT DEF Uids
  <2> QED
    BY <1>1, <2>1, <2>2, MinIsThere, Zenon
<1>10. /\ snap'[r] = seen /\ (chooses => uid'[r] = Min(Free))
       /\ \A q \in Requests \ {r} : snap'[q] = snap[q] /\ uid'[q] = uid[q]
       /\ snap' \in [Requests -> Host \cup {Nothing}] /\ uid' \in [Requests -> Uids \cup {0}]
  <2> HIDE DEF seen, chooses
  <2> QED
    BY <1>1, <1>5, <1>8, <1>9, Zenon
<1>11. SubscriptionTyped'
  BY <1>1, <1>2, <1>6, <1>10, Zenon DEF SubscriptionTyped, Controlled
<1>12. Read(r)'
  <2>1. Kind(r)' = Kind(r)
    BY <1>1, Zenon DEF Kind
  <2>2. Kind(r) \in Makers => uid'[r] \in Uids
    BY <1>9, <1>10, Zenon DEF Makers
  <2>3. Kind(r) \in Movers \cup {"database", "delete"} => snap'[r].row \in Row
    <3>1. Kind(r) \in Movers \cup {"database", "delete"} => host[Name(r)].row # NoRow
      <4>1. Acceptable(want[r], host[Name(r)]) /\ Kind(r) = want[r].kind
        BY <1>1, Zenon DEF Kind
      <4> QED
        BY <4>1, AcceptableHasRow, Zenon DEF Movers
    <3>2. Kind(r) \in Movers \cup {"database", "delete"} => Kind(r) # "restore"
      BY SMT DEF Movers
    <3>3. host[Name(r)].row # NoRow => host[Name(r)].row \in Row
      BY <1>2, Zenon DEF Host
    <3> QED
      BY <1>10, <3>1, <3>2, <3>3, Zenon
  <2>4. Kind(r) = "restore" => want'[r].from \in sealed' /\ snap'[r] = archive'[want'[r].from]
    BY <1>0, <1>1, <1>10, Zenon
  <2>5. Kind(r) = "delete" /\ want'[r].after \in Backups => want'[r].after \in sealed'
    <3>1. Kind(r) = "delete" /\ want[r].after \in Backups => job[want[r].after] = "complete"
      BY <1>0, Zenon DEF InTurn
    <3>2. \A b \in Backups : job[b] = "complete" => b \in sealed
      <4>1. \A b \in Backups : Archived(b)
        BY Zenon DEF IInv
      <4> QED
        BY <4>1, Zenon DEF Archived
    <3> QED
      BY <1>0, <1>1, <3>1, <3>2, Zenon
  <2>6. snap'[r] \in Host
    BY <1>8, <1>10, Zenon
  <2> QED
    BY <1>4, <2>1, <2>2, <2>3, <2>4, <2>5, <2>6, Zenon DEF Read
<1>13. ArchivesStay
  BY <1>0, Zenon DEF ArchivesStay
<1> QED
  BY <1>1, <1>4, <1>6, <1>10, <1>11, <1>12, <1>13, PlansRest, Zenon

(* A step of a backup leaves the plans alone, and what is complete.        *)
LEMMA PlansUntouched ==
  ASSUME IInv, UNCHANGED plans, ArchivesStay
  PROVE  PlansInv'
<1>1. /\ lock' = lock /\ pc' = pc /\ at' = at /\ dirty' = dirty
      /\ host' = host /\ nextId' = nextId /\ foreign' = foreign /\ want' = want /\ snap' = snap
      /\ uid' = uid /\ found' = found /\ torn' = torn /\ damaged' = damaged
  BY Zenon DEF plans, control, data
<1>2. PlansInv
  BY Zenon DEF IInv, TypeOK, PlansInv
<1>3. SubscriptionTyped'
  BY <1>1, <1>2, Zenon DEF PlansInv, SubscriptionTyped, ControlTyped
<1>4. ASSUME NEW q \in Requests
      PROVE  Placed(q)' /\ Read(q)' /\ Grounded(q)' /\ Traced(q)'
  <2>1. Placed(q) /\ Read(q) /\ Grounded(q) /\ Traced(q)
    BY <1>2, Zenon DEF PlansInv
  <2>2. (Running(q)' <=> Running(q)) /\ Last(q)' = Last(q)
    BY <1>1, SamePlan, Zenon DEF Running
  <2>3. Placed(q)'
    BY <1>1, <2>1, <2>2, Zenon DEF Placed
  <2>4. Read(q)'
    BY <1>1, <2>1, <2>2, ReadKept, Zenon
  <2>5. Grounded(q)' /\ Traced(q)'
    BY <1>1, <2>1, <2>2, StillKept, Zenon
  <2> QED
    BY <2>3, <2>4, <2>5
<1>5. ASSUME NEW n \in Names
      PROVE  Refers(host[n])' /\ (n \notin damaged' => Whole(Before(n))')
  <2>1. Refers(host[n]) /\ (n \notin damaged => Whole(Before(n)))
    BY <1>2, Zenon DEF PlansInv
  <2>2. Before(n)' = Before(n)
    BY <1>1, Zenon DEF Before, Name
  <2> QED
    BY <1>1, <2>1, <2>2, Zenon DEF Refers, Whole
<1>6. Users'
  BY <1>1, <1>2, Zenon DEF PlansInv, Users
<1> QED
  BY <1>1, <1>2, <1>3, <1>4, <1>5, <1>6, Zenon DEF PlansInv

-----------------------------------------------------------------------------
(***************************************************************************)
(* The shelf: a backup that does not move, and whose subscription no plan  *)
(* has changed unless it is mixed, stays as it is.                         *)
(***************************************************************************)
ShelfTyped ==
  /\ job \in [Backups -> Jobs]
  /\ book \in [Backups -> {"none", "running", "complete", "failed"}]
  /\ attached \in [Backups -> Nat]
  /\ read \in [Backups -> Row \cup {NoRow}]
  /\ archive \in [Backups -> Host \cup {Nothing}]
  /\ shot \in [Backups -> Host \cup {Nothing}]
  /\ sealed \subseteq Backups /\ mixed \subseteq Backups
Exclusive ==
  \A b, c \in Wanted : job[b] \in Working /\ job[c] \in Working /\ b # c => Subject(b) # Subject(c)
ShelfInv == ShelfTyped /\ Exclusive /\ \A b \in Backups : Archived(b) /\ Faithful(b)

LEMMA Halves ==
  /\ IInv <=> PlansInv /\ ShelfInv
  /\ IInv' <=> PlansInv' /\ ShelfInv'
BY Zenon DEF IInv, PlansInv, ShelfInv, TypeOK, ShelfTyped, Exclusive

(* The backups that are asked for and their subscriptions.                 *)
UsesIn(w, r, b) ==
  \/ w[r].kind = "restore" /\ w[r].from = b
  \/ w[r].kind = "delete" /\ w[r].after = b
WantedIn(w) == {b \in Backups : \E r \in Requests : UsesIn(w, r, b)}
SubjectIn(w, b) == w[CHOOSE r \in Requests : UsesIn(w, r, b)].name

LEMMA WantedStay ==
  ASSUME want' = want
  PROVE  Wanted' = Wanted /\ \A b : Subject(b)' = Subject(b)
<1>1. /\ Wanted = WantedIn(want)
      /\ Wanted' = WantedIn(want')
  BY DEF Wanted, WantedIn, Uses, UsesIn, Kind
<1>2. ASSUME NEW b
      PROVE  /\ Subject(b) = SubjectIn(want, b)
             /\ Subject(b)' = SubjectIn(want', b)
  BY DEF Subject, SubjectIn, Uses, UsesIn, Kind, Name
<1> QED
  BY <1>1, <1>2, Zenon

LEMMA SubjectIsName ==
  ASSUME want \in [Requests -> Request], NEW b \in Wanted
  PROVE  Subject(b) \in Names
<1>1. \E r \in Requests : Uses(r, b)
  BY Zenon DEF Wanted
<1>2. (CHOOSE r \in Requests : Uses(r, b)) \in Requests
  BY <1>1, Zenon
<1> QED
  BY <1>2, WantedKinds, Zenon DEF Subject

Still(c) ==
  /\ job'[c] = job[c] /\ read'[c] = read[c] /\ archive'[c] = archive[c] /\ shot'[c] = shot[c]
  /\ c \in sealed' <=> c \in sealed
  /\ c \in mixed => c \in mixed'

LEMMA StillShelved ==
  ASSUME NEW c, Archived(c), Faithful(c), want' = want, Still(c),
         job[c] \in Working /\ c \notin mixed' => host'[Subject(c)] = host[Subject(c)]
  PROVE  Archived(c)' /\ Faithful(c)'
<1>1. /\ job'[c] = job[c] /\ read'[c] = read[c] /\ archive'[c] = archive[c] /\ shot'[c] = shot[c]
      /\ c \in sealed' <=> c \in sealed
      /\ c \in mixed => c \in mixed'
  BY Zenon DEF Still
<1>2. Wanted' = Wanted /\ Subject(c)' = Subject(c)
  BY WantedStay, Zenon
<1>3. /\ Past(c, {"dumps", "lists", "sums"})' <=> Past(c, {"dumps", "lists", "sums"})
      /\ Past(c, {"lists", "sums"})' <=> Past(c, {"lists", "sums"})
      /\ Past(c, {"sums"})' <=> Past(c, {"sums"})
  BY <1>1, Zenon DEF Past
<1>4. Archived(c)'
  BY <1>1, <1>2, <1>3, Zenon DEF Archived
<1>5. Faithful(c)'
  <2>1. job[c] \in Working /\ c \notin mixed' => Now(c)' = Now(c)
    BY <1>2, Zenon DEF Now
  <2>2. Refers(shot[c])' <=> Refers(shot[c])
    BY <1>1, Zenon DEF Refers
  <2>3. Contents(archive[c])' = Contents(archive[c]) /\ Contents(shot[c])' = Contents(shot[c])
    BY <1>1, Zenon DEF Contents
  <2>4. ASSUME job[c] \in Working, c \notin mixed
        PROVE  /\ shot[c] = Now(c) /\ shot[c].row = read[c] /\ Refers(shot[c])
               /\ Past(c, {"dumps", "lists", "sums"}) => archive[c].home = shot[c].home
               /\ Past(c, {"lists", "sums"}) =>
                    archive[c].db = shot[c].db /\ (shot[c].db # 0 => archive[c].schema = shot[c].schema)
               /\ Past(c, {"sums"}) =>
                    archive[c].row = shot[c].row /\ archive[c].web = shot[c].web /\ archive[c].jobs = shot[c].jobs
    BY <2>4, Zenon DEF Faithful
  <2>5. c \in sealed /\ c \notin mixed => Contents(archive[c]) = Contents(shot[c])
    BY Zenon DEF Faithful
  <2> QED
    BY <1>1, <1>3, <2>1, <2>2, <2>3, <2>4, <2>5, Zenon DEF Faithful
<1> QED
  BY <1>4, <1>5

-----------------------------------------------------------------------------
(***************************************************************************)
(* The steps of a backup, one by one.                                      *)
(***************************************************************************)
Shelves(b) ==
  /\ UNCHANGED plans /\ ShelfTyped'
  /\ \A c \in Backups \ {b} : Still(c)
  /\ Archived(b)' /\ Faithful(b)'
  /\ job'[b] \in Working =>
       job[b] \in Working \/ \A c \in Wanted : Subject(c) = Subject(b) => job[c] \notin Working
  /\ b \in sealed => b \in sealed' /\ archive'[b] = archive[b]

LEMMA ShelfMoves ==
  ASSUME IInv, NEW b \in Backups, Shelves(b)
  PROVE  IInv'
<1>1. /\ UNCHANGED plans /\ want' = want /\ host' = host
      /\ ShelfTyped' /\ Archived(b)' /\ Faithful(b)'
      /\ \A c \in Backups \ {b} : Still(c)
  BY Zenon DEF Shelves, plans, data
<1>2. /\ \A c \in Backups : Archived(c) /\ Faithful(c)
      /\ sealed \subseteq Backups /\ Exclusive
  BY Zenon DEF IInv, TypeOK, Exclusive
<1>3. ASSUME NEW c \in Backups PROVE Archived(c)' /\ Faithful(c)'
  <2>1. CASE c = b
    BY <1>1, <2>1, Zenon
  <2>2. CASE c # b
    BY <1>1, <1>2, <2>2, StillShelved, Zenon
  <2> QED
    BY <2>1, <2>2
<1>4. ArchivesStay
  <2>1. ASSUME NEW c \in sealed PROVE c \in sealed' /\ archive'[c] = archive[c]
    <3>1. CASE c = b
      BY <3>1, Zenon DEF Shelves
    <3>2. CASE c # b
      BY <1>1, <1>2, <3>2, Zenon DEF Still
    <3> QED
      BY <3>1, <3>2
  <2> QED
    BY <2>1, Zenon DEF ArchivesStay
<1>5. Exclusive'
  <2>1. Wanted' = Wanted /\ \A c : Subject(c)' = Subject(c)
    BY <1>1, WantedStay, Zenon
  <2>2. \A c \in Wanted : c \in Backups
    BY Zenon DEF Wanted
  <2>3. ASSUME NEW c \in Wanted, NEW d \in Wanted, job'[c] \in Working, job'[d] \in Working, c # d
        PROVE  Subject(c) # Subject(d)
    <3>1. c # b => job[c] \in Working
      BY <1>1, <2>2, <2>3, Zenon DEF Still
    <3>2. d # b => job[d] \in Working
      BY <1>1, <2>2, <2>3, Zenon DEF Still
    <3>3. CASE job[c] \in Working /\ job[d] \in Working
      BY <1>2, <2>3, <3>3, Zenon DEF Exclusive
    <3>4. CASE c = b /\ job[c] \notin Working
      <4>1. \A e \in Wanted : Subject(e) = Subject(b) => job[e] \notin Working
        BY <2>3, <3>4, Zenon DEF Shelves
      <4> QED
        BY <2>3, <3>2, <3>4, <4>1, Zenon
    <3>5. CASE d = b /\ job[d] \notin Working
      <4>1. \A e \in Wanted : Subject(e) = Subject(b) => job[e] \notin Working
        BY <2>3, <3>5, Zenon DEF Shelves
      <4> QED
        BY <2>3, <3>1, <3>5, <4>1, Zenon
    <3> QED
      BY <3>1, <3>2, <3>3, <3>4, <3>5, Zenon
  <2> QED
    BY <2>1, <2>3, Zenon DEF Exclusive
<1> QED
  BY <1>1, <1>3, <1>4, <1>5, PlansUntouched, Halves, Zenon DEF ShelfInv

(* What the steps start from.                                              *)
LEMMA OnShelf ==
  ASSUME IInv, NEW b \in Backups
  PROVE  /\ ShelfTyped /\ Archived(b) /\ Faithful(b)
         /\ host \in [Names -> Host] /\ \A n \in Names : Refers(host[n])
         /\ b \in Wanted => Now(b) \in Host /\ Refers(Now(b))
         /\ NoRow \notin Row /\ NoHome \notin Home /\ Nothing \notin Host
<1>1. ShelfTyped /\ Archived(b) /\ Faithful(b)
  BY Halves, Zenon DEF ShelfInv
<1>2. SubscriptionTyped /\ \A n \in Names : Refers(host[n])
  BY Halves, Zenon DEF PlansInv
<1>3. host \in [Names -> Host] /\ want \in [Requests -> Request]
  BY <1>2, Zenon DEF SubscriptionTyped
<1>4. b \in Wanted => Subject(b) \in Names
  BY <1>3, SubjectIsName, Zenon
<1>5. b \in Wanted => Now(b) \in Host /\ Refers(Now(b))
  BY <1>2, <1>3, <1>4, Zenon DEF Now
<1>6. NoRow \notin Row /\ NoHome \notin Home /\ Nothing \notin Host
  BY SubscriptionAssumption, Zenon
<1> QED
  BY <1>1, <1>2, <1>3, <1>5, <1>6

(* One backup gets another label.                                          *)
LEMMA Relabelled ==
  ASSUME ShelfTyped, NEW b \in Backups, NEW label \in Jobs, Reached(b, label)
  PROVE  /\ job'[b] = label /\ job' \in [Backups -> Jobs]
         /\ \A c \in Backups \ {b} : job'[c] = job[c]
<1>1. job \in [Backups -> Jobs] /\ job' = [job EXCEPT ![b] = label]
  BY Zenon DEF ShelfTyped, Reached
<1> QED
  BY <1>1, Zenon

LEMMA Written ==
  ASSUME ShelfTyped, NEW b \in Backups, NEW contents, Writes(b, contents)
  PROVE  /\ archive'[b] = contents
         /\ contents \in Host \cup {Nothing} => archive' \in [Backups -> Host \cup {Nothing}]
         /\ \A c \in Backups \ {b} : archive'[c] = archive[c]
<1>1. archive \in [Backups -> Host \cup {Nothing}] /\ archive' = [archive EXCEPT ![b] = contents]
  BY Zenon DEF ShelfTyped, Writes
<1> QED
  BY <1>1, Zenon

LEMMA Labels ==
  /\ Working = {"files", "dumps", "lists", "sums", "finish"}
  /\ \A l \in {"idle", "looked", "files", "dumps", "lists", "sums", "finish", "complete", "failed"} : l \in Jobs
  /\ \A l \in Jobs : l \in {"idle", "looked", "complete", "failed"} <=> l \notin Working
BY SMT DEF Working, Jobs

LEMMA LookMoves ==
  ASSUME IInv, NEW b \in Backups, Look(b)
  PROVE  Shelves(b)
<1>1. /\ b \in Wanted /\ job[b] = "idle" /\ Now(b).row # NoRow /\ Reached(b, "looked")
      /\ read' = [read EXCEPT ![b] = Now(b).row] /\ UNCHANGED plans
      /\ book' = book /\ attached' = attached /\ archive' = archive /\ sealed' = sealed
      /\ shot' = shot /\ mixed' = mixed
  BY Zenon DEF Look, At
<1>2. /\ ShelfTyped /\ Archived(b) /\ Now(b) \in Host /\ NoRow \notin Row
  BY <1>1, OnShelf, Zenon
<1>3. /\ job'[b] = "looked" /\ job' \in [Backups -> Jobs] /\ \A c \in Backups \ {b} : job'[c] = job[c]
  BY <1>1, <1>2, Labels, Relabelled, Zenon
<1>4. Now(b).row \in Row
  BY <1>1, <1>2, Zenon DEF Host
<1>5. read'[b] \in Row /\ read' \in [Backups -> Row \cup {NoRow}] /\ \A c \in Backups \ {b} : read'[c] = read[c]
  BY <1>1, <1>2, <1>4, Zenon DEF ShelfTyped
<1>6. ShelfTyped'
  BY <1>1, <1>2, <1>3, <1>5, Zenon DEF ShelfTyped
<1>7. \A c \in Backups \ {b} : Still(c)
  BY <1>1, <1>3, <1>5, Zenon DEF Still
<1>8. b \notin sealed'
  BY <1>1, <1>2, SMT DEF Archived
<1>9. job'[b] \notin Working /\ job'[b] \notin {"finish", "complete", "idle"}
  BY <1>3, SMT DEF Working
<1>10. ~Past(b, {"dumps", "lists", "sums"})' /\ ~Past(b, {"lists", "sums"})' /\ ~Past(b, {"sums"})'
  BY <1>3, <1>8, SMT DEF Past
<1>11. b \in Wanted'
  <2>1. want' = want
    BY <1>1, Zenon DEF plans, data
  <2> QED
    BY <1>1, <2>1, WantedStay, Zenon
<1>12. Archived(b)'
  BY <1>3, <1>5, <1>8, <1>9, <1>10, <1>11, SMT DEF Archived
<1>13. Faithful(b)'
  BY <1>8, <1>9, Zenon DEF Faithful
<1> QED
  BY <1>1, <1>2, <1>6, <1>7, <1>8, <1>9, <1>12, <1>13, Zenon DEF Shelves

(* What the steps write into an archive.                                   *)
LEMMA WithHome ==
  ASSUME NEW h \in Host, NEW x \in Home, NEW g, g = [h EXCEPT !.home = x]
  PROVE  g \in Host /\ g.home = x /\ g.db = h.db
<1>1. g \in Host
  BY Zenon DEF Host
<1>2. g.home = x
  BY SMT DEF Host
<1>3. g.db = h.db
  BY SMT DEF Host
<1> QED
  BY <1>1, <1>2, <1>3

Dumped(h, id, s) == [h EXCEPT !.db = id, !.schema = s]
Described(h, x, w, j) == [h EXCEPT !.row = x, !.web = w, !.jobs = j]

LEMMA WithDump ==
  ASSUME NEW h \in Host, NEW id \in Nat, NEW s \in {"none", "empty", "data"}
  PROVE  LET g == Dumped(h, id, s) IN
         g \in Host /\ g.db = id /\ g.schema = s /\ g.home = h.home
<1> DEFINE g == Dumped(h, id, s)
<1>1. g \in Host
  BY Zenon DEF Host, Dumped
<1>2. g.db = id /\ g.schema = s /\ g.home = h.home
  BY SMT DEF Host, Dumped
<1> QED
  BY <1>1, <1>2

LEMMA WithLists ==
  ASSUME NEW h \in Host, NEW x \in Row, NEW w \in Nat, NEW j \in Nat
  PROVE  LET g == Described(h, x, w, j) IN
         /\ g \in Host /\ g.row = x /\ g.web = w /\ g.jobs = j
         /\ g.home = h.home /\ g.db = h.db /\ g.schema = h.schema
<1> DEFINE g == Described(h, x, w, j)
<1>1. g \in Host
  BY Zenon DEF Host, Described
<1>2. /\ g.row = x /\ g.web = w /\ g.jobs = j
      /\ g.home = h.home /\ g.db = h.db /\ g.schema = h.schema
  BY SMT DEF Host, Described
<1> QED
  BY <1>1, <1>2

LEMMA BlankIsHost == Blank \in Host /\ Blank.db = 0
BY SMT DEF Blank, Host

LEMMA BeginMoves ==
  ASSUME IInv, NEW b \in Backups, Begin(b)
  PROVE  Shelves(b)
<1>1. /\ job[b] = "looked" /\ \A c \in Wanted : Subject(c) = Subject(b) => job[c] \notin Working
      /\ Now(b).row # NoRow /\ Now(b).row.id = read[b].id /\ Reached(b, "files") /\ Writes(b, Blank)
      /\ book' = [book EXCEPT ![b] = "running"] /\ attached' = [attached EXCEPT ![b] = read[b].id]
      /\ shot' = [shot EXCEPT ![b] = Now(b)]
      /\ mixed' = (IF Touches(b) \/ Now(b).row # read[b] THEN mixed \cup {b} ELSE mixed)
      /\ UNCHANGED plans /\ read' = read /\ sealed' = sealed
  BY Zenon DEF Begin, At
<1>2. ShelfTyped /\ Archived(b) /\ (b \in Wanted => Now(b) \in Host /\ Refers(Now(b)))
  BY OnShelf, Zenon
<1>3. /\ job'[b] = "files" /\ job' \in [Backups -> Jobs] /\ \A c \in Backups \ {b} : job'[c] = job[c]
  BY <1>1, <1>2, Labels, Relabelled, Zenon
<1>4. b \in Wanted /\ b \notin sealed /\ read[b] \in Row
  BY <1>1, <1>2, SMT DEF Archived
<1>5. /\ archive'[b] = Blank /\ archive' \in [Backups -> Host \cup {Nothing}]
      /\ \A c \in Backups \ {b} : archive'[c] = archive[c]
  BY <1>1, <1>2, Written, BlankIsHost, Zenon
<1>6. /\ shot'[b] = Now(b) /\ shot' \in [Backups -> Host \cup {Nothing}]
      /\ \A c \in Backups \ {b} : shot'[c] = shot[c]
  BY <1>1, <1>2, <1>4, Zenon DEF ShelfTyped
<1>7. ShelfTyped'
  <2>1. read[b].id \in Nat
    BY <1>4, SMT DEF Row
  <2>2. attached' \in [Backups -> Nat]
    BY <1>1, <1>2, <2>1, Zenon DEF ShelfTyped
  <2>3. book' \in [Backups -> {"none", "running", "complete", "failed"}]
    BY <1>1, <1>2, Zenon DEF ShelfTyped
  <2>4. mixed' \subseteq Backups
    BY <1>1, <1>2, Zenon DEF ShelfTyped
  <2> QED
    BY <1>1, <1>2, <1>3, <1>5, <1>6, <2>2, <2>3, <2>4, Zenon DEF ShelfTyped
<1>8. \A c \in Backups \ {b} : Still(c)
  BY <1>1, <1>3, <1>5, <1>6, Zenon DEF Still
<1>9. b \notin sealed' /\ read'[b] = read[b]
  BY <1>1, <1>4
<1>10. ~Past(b, {"dumps", "lists", "sums"})' /\ ~Past(b, {"lists", "sums"})' /\ ~Past(b, {"sums"})'
  BY <1>3, <1>9, SMT DEF Past
<1>11. /\ want' = want /\ host' = host
  BY <1>1, Zenon DEF plans, data
<1>12. b \in Wanted' /\ Subject(b)' = Subject(b)
  BY <1>4, <1>11, WantedStay, Zenon
<1>13. Archived(b)'
  <2>1. archive'[b] \in Host /\ shot'[b] \in Host
    BY <1>2, <1>4, <1>5, <1>6, BlankIsHost, Zenon
  <2>2. archive'[b] = Blank'
    BY <1>5, Zenon DEF Blank
  <2> QED
    BY <1>3, <1>4, <1>9, <1>10, <1>12, <2>1, <2>2, SMT DEF Archived
<1>14. Faithful(b)'
  <2>1. Now(b)' = Now(b)
    BY <1>11, <1>12, Zenon DEF Now
  <2>2. b \notin mixed' => Now(b).row = read[b]
    BY <1>1, Zenon
  <2>3. Refers(shot[b])'
    BY <1>2, <1>4, <1>6, Zenon DEF Refers
  <2> QED
    BY <1>6, <1>9, <1>10, <2>1, <2>2, <2>3, Zenon DEF Faithful
<1> QED
  BY <1>1, <1>4, <1>7, <1>8, <1>13, <1>14, Zenon DEF Shelves

(* The steps between, in common: another label, another content.           *)
Continues(b, label, contents) ==
  /\ Reached(b, label) /\ label \in Working /\ contents \in Host
  /\ archive' = [archive EXCEPT ![b] = contents]
  /\ UNCHANGED <<plans, book, attached, read, shot, mixed>>
  /\ sealed' \subseteq Backups /\ sealed \subseteq sealed' /\ \A c \in Backups \ {b} : c \in sealed' => c \in sealed

LEMMA Continued ==
  ASSUME IInv, NEW b \in Backups, job[b] \in Working, NEW label, NEW contents, Continues(b, label, contents)
  PROVE  /\ ShelfTyped' /\ \A c \in Backups \ {b} : Still(c)
         /\ job'[b] = label /\ archive'[b] = contents /\ read'[b] = read[b] /\ shot'[b] = shot[b]
         /\ b \in mixed' <=> b \in mixed
         /\ Now(b)' = Now(b) /\ (Refers(shot[b])' <=> Refers(shot[b]))
         /\ b \in Wanted /\ b \in Wanted' /\ read[b] \in Row /\ shot[b] \in Host /\ archive[b] \in Host
         /\ UNCHANGED plans
         /\ Now(b) \in Host /\ Refers(Now(b))
<1>1. /\ Reached(b, label) /\ label \in Working /\ contents \in Host
      /\ archive' = [archive EXCEPT ![b] = contents]
      /\ UNCHANGED plans /\ book' = book /\ attached' = attached /\ read' = read /\ shot' = shot /\ mixed' = mixed
      /\ sealed' \subseteq Backups /\ sealed \subseteq sealed' /\ \A c \in Backups \ {b} : c \in sealed' => c \in sealed
  BY Zenon DEF Continues
<1>2. ShelfTyped /\ Archived(b) /\ (b \in Wanted => Now(b) \in Host /\ Refers(Now(b)))
  BY OnShelf, Zenon
<1>3. label \in Jobs
  BY <1>1, Zenon DEF Jobs
<1>4. job'[b] = label /\ job' \in [Backups -> Jobs] /\ \A c \in Backups \ {b} : job'[c] = job[c]
  BY <1>1, <1>2, <1>3, Relabelled, Zenon
<1>5. /\ archive'[b] = contents /\ archive' \in [Backups -> Host \cup {Nothing}]
      /\ \A c \in Backups \ {b} : archive'[c] = archive[c]
  BY <1>1, <1>2, Written, Zenon DEF Writes
<1>6. ShelfTyped'
  BY <1>1, <1>2, <1>4, <1>5, Zenon DEF ShelfTyped
<1>7. \A c \in Backups \ {b} : Still(c)
  BY <1>1, <1>4, <1>5, Zenon DEF Still
<1>8. want' = want /\ host' = host
  BY <1>1, Zenon DEF plans, data
<1>9. job[b] # "idle"
  BY SMT DEF Working
<1>10. b \in Wanted /\ read[b] \in Row /\ shot[b] \in Host /\ archive[b] \in Host
  BY <1>2, <1>9, Zenon DEF Archived
<1>11. b \in Wanted' /\ Subject(b)' = Subject(b)
  BY <1>8, <1>10, WantedStay, Zenon
<1>12. Now(b)' = Now(b)
  BY <1>8, <1>11, Zenon DEF Now
<1>13. Refers(shot[b])' <=> Refers(shot[b])
  BY <1>1, Zenon DEF Refers
<1> QED
  BY <1>1, <1>2, <1>4, <1>5, <1>6, <1>7, <1>10, <1>11, <1>12, <1>13, Zenon

(* From the label of a step to its part of the invariant.                  *)
LEMMA Unsealed ==
  ASSUME IInv, NEW b \in Backups, job[b] \in {"files", "dumps", "lists", "sums"}
  PROVE  b \notin sealed /\ job[b] \in Working
BY OnShelf, SMT DEF Archived, Working

LEMMA FilesMoves ==
  ASSUME IInv, NEW b \in Backups, Files(b)
  PROVE  Shelves(b)
<1> DEFINE g == [archive[b] EXCEPT !.home = Now(b).home]
<1>1. /\ job[b] = "files" /\ Now(b).home # NoHome /\ Reached(b, "dumps") /\ Writes(b, g)
      /\ UNCHANGED <<plans, book, attached, read, sealed, shot, mixed>>
  BY Zenon DEF Files, At
<1>2. b \notin sealed /\ job[b] \in Working
  BY <1>1, Unsealed, Zenon
<1>3. /\ Archived(b) /\ Faithful(b) /\ ShelfTyped /\ (b \in Wanted => Now(b) \in Host)
  BY OnShelf, Zenon
<1>4. b \in Wanted /\ archive[b] \in Host
  BY <1>1, <1>2, <1>3, SMT DEF Archived
<1>5. Now(b).home \in Home
  BY <1>1, <1>3, <1>4, Zenon DEF Host
<1>6. archive[b].db = 0
  BY <1>1, <1>3, BlankIsHost, Zenon DEF Archived
<1>e. g = [archive[b] EXCEPT !.home = Now(b).home]
  OBVIOUS
<1> HIDE DEF g
<1>7. g \in Host /\ g.home = Now(b).home /\ g.db = 0
  BY <1>4, <1>5, <1>6, <1>e, WithHome, SMT
<1>8. Continues(b, "dumps", g)
  BY <1>1, <1>3, <1>7, Labels, Zenon DEF Continues, Writes, ShelfTyped
<1>9. /\ ShelfTyped' /\ \A c \in Backups \ {b} : Still(c)
      /\ job'[b] = "dumps" /\ archive'[b] = g /\ read'[b] = read[b] /\ shot'[b] = shot[b]
      /\ b \in mixed' <=> b \in mixed
      /\ Now(b)' = Now(b) /\ (Refers(shot[b])' <=> Refers(shot[b]))
      /\ b \in Wanted' /\ read[b] \in Row /\ shot[b] \in Host /\ UNCHANGED plans
  BY <1>2, <1>8, Continued, Zenon
<1>10. b \notin sealed'
  BY <1>1, <1>2
<1>11. ~Past(b, {"lists", "sums"})' /\ ~Past(b, {"sums"})'
  BY <1>9, <1>10, SMT DEF Past
<1>12. Archived(b)'
  BY <1>5, <1>7, <1>9, <1>10, <1>11, SMT DEF Archived
<1>13. Faithful(b)'
  <2>1. ASSUME b \notin mixed
        PROVE  shot[b] = Now(b) /\ shot[b].row = read[b] /\ Refers(shot[b])
    BY <1>2, <1>3, <2>1, Zenon DEF Faithful
  <2> QED
    BY <1>7, <1>9, <1>10, <1>11, <2>1, Zenon DEF Faithful
<1> QED
  BY <1>2, <1>9, <1>12, <1>13, Zenon DEF Shelves

LEMMA DumpsMoves ==
  ASSUME IInv, NEW b \in Backups, Dumps(b)
  PROVE  Shelves(b)
<1> DEFINE listed == Now(b).db = read[b].id
           g == IF listed THEN [archive[b] EXCEPT !.db = read[b].id, !.schema = Now(b).schema] ELSE archive[b]
<1>1. /\ job[b] = "dumps" /\ (listed => Now(b).schema # "none") /\ Reached(b, "lists") /\ Writes(b, g)
      /\ UNCHANGED <<plans, book, attached, read, sealed, shot, mixed>>
  BY Zenon DEF Dumps, At
<1>2. b \notin sealed /\ job[b] \in Working
  BY <1>1, Unsealed, Zenon
<1>3. /\ Archived(b) /\ Faithful(b) /\ ShelfTyped /\ (b \in Wanted => Now(b) \in Host)
  BY OnShelf, Zenon
<1>4. b \in Wanted /\ archive[b] \in Host /\ read[b] \in Row
  BY <1>1, <1>2, <1>3, SMT DEF Archived
<1>5. Past(b, {"dumps", "lists", "sums"})
  BY <1>1, SMT DEF Past
<1>6. archive[b].db = 0 /\ archive[b].home \in Home
  BY <1>1, <1>3, <1>5, Zenon DEF Archived
<1>7. /\ g \in Host /\ g.home = archive[b].home
      /\ listed => g.db = read[b].id /\ g.schema = Now(b).schema
      /\ ~listed => g.db = 0
  <2>1. CASE listed
    <3>1. read[b].id \in Nat
      BY <1>4, SMT DEF Row
    <3>2. Now(b).schema \in {"none", "empty", "data"}
      BY <1>3, <1>4, SMT DEF Host
    <3>3. g = Dumped(archive[b], read[b].id, Now(b).schema)
      BY <2>1, Zenon DEF Dumped
    <3> HIDE DEF g
    <3> QED
      BY <1>4, <2>1, <3>1, <3>2, <3>3, WithDump, ZenonT(40)
  <2>2. CASE ~listed
    BY <1>4, <1>6, <2>2, Zenon
  <2> QED
    BY <2>1, <2>2
<1> HIDE DEF g
<1>8. Continues(b, "lists", g)
  BY <1>1, <1>3, <1>7, Labels, Zenon DEF Continues, Writes, ShelfTyped
<1>9. /\ ShelfTyped' /\ \A c \in Backups \ {b} : Still(c)
      /\ job'[b] = "lists" /\ archive'[b] = g /\ read'[b] = read[b] /\ shot'[b] = shot[b]
      /\ b \in mixed' <=> b \in mixed
      /\ Now(b)' = Now(b) /\ (Refers(shot[b])' <=> Refers(shot[b]))
      /\ b \in Wanted' /\ read[b] \in Row /\ shot[b] \in Host /\ UNCHANGED plans
  BY <1>2, <1>8, Continued, Zenon
<1>10. b \notin sealed'
  BY <1>1, <1>2
<1>11. ~Past(b, {"sums"})'
  BY <1>9, <1>10, SMT DEF Past
<1>a. g.db = 0 \/ g.schema # "none"
  BY <1>1, <1>7, Zenon
<1>12. Archived(b)'
  BY <1>a, <1>6, <1>7, <1>9, <1>10, <1>11, SMT DEF Archived
<1>13. Faithful(b)'
  <2>1. ASSUME b \notin mixed
        PROVE  /\ shot[b] = Now(b) /\ shot[b].row = read[b] /\ Refers(shot[b]) /\ archive[b].home = shot[b].home
               /\ g.db = shot[b].db /\ (shot[b].db # 0 => g.schema = shot[b].schema)
    <3>1. shot[b] = Now(b) /\ shot[b].row = read[b] /\ Refers(shot[b]) /\ archive[b].home = shot[b].home
      BY <1>2, <1>3, <1>5, <2>1, Zenon DEF Faithful
    <3>2. shot[b].db \in {0, read[b].id}
      <4>1. shot[b].row # NoRow
        BY <1>4, <3>1, SubscriptionAssumption, Zenon
      <4> QED
        BY <3>1, <4>1, Zenon DEF Refers
    <3>3. CASE listed
      BY <1>7, <3>1, <3>3, Zenon
    <3>4. CASE ~listed
      BY <1>7, <3>1, <3>2, <3>4, Zenon
    <3> QED
      BY <3>1, <3>3, <3>4
  <2> QED
    BY <1>7, <1>9, <1>10, <1>11, <2>1, Zenon DEF Faithful
<1> QED
  BY <1>2, <1>9, <1>12, <1>13, Zenon DEF Shelves

LEMMA ListsMoves ==
  ASSUME IInv, NEW b \in Backups, Lists(b)
  PROVE  Shelves(b)
<1> DEFINE Listed(owner) == IF owner = read[b].id THEN owner ELSE 0
           g == [archive[b] EXCEPT !.row = read[b], !.web = Listed(Now(b).web), !.jobs = Listed(Now(b).jobs)]
<1>1. /\ job[b] = "lists" /\ Reached(b, "sums") /\ Writes(b, g)
      /\ UNCHANGED <<plans, book, attached, read, sealed, shot, mixed>>
  BY Zenon DEF Lists, At
<1>2. b \notin sealed /\ job[b] \in Working
  BY <1>1, Unsealed, Zenon
<1>3. /\ Archived(b) /\ Faithful(b) /\ ShelfTyped /\ (b \in Wanted => Now(b) \in Host)
  BY OnShelf, Zenon
<1>4. b \in Wanted /\ archive[b] \in Host /\ read[b] \in Row
  BY <1>1, <1>2, <1>3, SMT DEF Archived
<1>5. Past(b, {"dumps", "lists", "sums"}) /\ Past(b, {"lists", "sums"})
  BY <1>1, SMT DEF Past
<1>6. archive[b].home \in Home /\ (archive[b].db = 0 \/ archive[b].schema # "none")
  BY <1>3, <1>5, Zenon DEF Archived
<1>7. /\ g \in Host /\ g.home = archive[b].home /\ g.db = archive[b].db /\ g.schema = archive[b].schema
      /\ g.row = read[b] /\ g.web = Listed(Now(b).web) /\ g.jobs = Listed(Now(b).jobs)
  <2>1. Now(b).web \in Nat /\ Now(b).jobs \in Nat
    BY <1>3, <1>4, SMT DEF Host
  <2>2. Listed(Now(b).web) \in Nat /\ Listed(Now(b).jobs) \in Nat
    BY <2>1, SMT
  <2>3. g = Described(archive[b], read[b], Listed(Now(b).web), Listed(Now(b).jobs))
    BY DEF Described
  <2> HIDE DEF Listed, g
  <2>4. ASSUME NEW w \in Nat, NEW j \in Nat, g = Described(archive[b], read[b], w, j)
        PROVE  /\ g \in Host /\ g.row = read[b] /\ g.web = w /\ g.jobs = j
               /\ g.home = archive[b].home /\ g.db = archive[b].db /\ g.schema = archive[b].schema
    BY <1>4, <2>4, WithLists, SMT
  <2> QED
    BY <2>2, <2>3, <2>4, Zenon
<1> HIDE DEF g
<1>8. Continues(b, "sums", g)
  BY <1>1, <1>3, <1>7, Labels, Zenon DEF Continues, Writes, ShelfTyped
<1>9. /\ ShelfTyped' /\ \A c \in Backups \ {b} : Still(c)
      /\ job'[b] = "sums" /\ archive'[b] = g /\ read'[b] = read[b] /\ shot'[b] = shot[b]
      /\ b \in mixed' <=> b \in mixed
      /\ Now(b)' = Now(b) /\ (Refers(shot[b])' <=> Refers(shot[b]))
      /\ b \in Wanted' /\ read[b] \in Row /\ shot[b] \in Host /\ UNCHANGED plans
  BY <1>2, <1>8, Continued, Zenon
<1>10. b \notin sealed'
  BY <1>1, <1>2
<1>12. Archived(b)'
  BY <1>6, <1>7, <1>9, <1>10, SMT DEF Archived
<1>13. Faithful(b)'
  <2>1. ASSUME b \notin mixed
        PROVE  /\ shot[b] = Now(b) /\ shot[b].row = read[b] /\ Refers(shot[b])
               /\ g.home = shot[b].home /\ g.db = shot[b].db /\ (shot[b].db # 0 => g.schema = shot[b].schema)
               /\ g.row = shot[b].row /\ g.web = shot[b].web /\ g.jobs = shot[b].jobs
    <3>1. /\ shot[b] = Now(b) /\ shot[b].row = read[b] /\ Refers(shot[b]) /\ archive[b].home = shot[b].home
          /\ archive[b].db = shot[b].db /\ (shot[b].db # 0 => archive[b].schema = shot[b].schema)
      BY <1>2, <1>3, <1>5, <2>1, Zenon DEF Faithful
    <3>2. shot[b].web \in {0, read[b].id} /\ shot[b].jobs \in {0, read[b].id}
      <4>1. shot[b].row # NoRow
        BY <1>4, <3>1, SubscriptionAssumption, Zenon
      <4> QED
        BY <3>1, <4>1, Zenon DEF Refers
    <3> QED
      BY <1>7, <3>1, <3>2, Zenon
  <2> QED
    BY <1>9, <1>10, <2>1, Zenon DEF Faithful
<1> QED
  BY <1>2, <1>9, <1>12, <1>13, Zenon DEF Shelves

LEMMA SealMoves ==
  ASSUME IInv, NEW b \in Backups, Seal(b)
  PROVE  Shelves(b)
<1>1. /\ job[b] = "sums" /\ Reached(b, "finish") /\ sealed' = sealed \cup {b}
      /\ UNCHANGED <<plans, book, attached, read, archive, shot, mixed>>
  BY Zenon DEF Seal, At
<1>2. b \notin sealed /\ job[b] \in Working
  BY <1>1, Unsealed, Zenon
<1>3. /\ Archived(b) /\ Faithful(b) /\ ShelfTyped
  BY OnShelf, Zenon
<1>4. archive[b] \in Host
  BY <1>1, <1>2, <1>3, SMT DEF Archived
<1>5. Past(b, {"dumps", "lists", "sums"}) /\ Past(b, {"lists", "sums"}) /\ Past(b, {"sums"})
  BY <1>1, SMT DEF Past
<1>6. archive[b].home \in Home /\ (archive[b].db = 0 \/ archive[b].schema # "none") /\ archive[b].row \in Row
  BY <1>3, <1>5, Zenon DEF Archived
<1>7. archive' = [archive EXCEPT ![b] = archive[b]]
  BY <1>1, <1>3, Zenon DEF ShelfTyped
<1>8. Continues(b, "finish", archive[b])
  BY <1>1, <1>3, <1>4, <1>7, Labels, Zenon DEF Continues, ShelfTyped
<1>9. /\ ShelfTyped' /\ \A c \in Backups \ {b} : Still(c)
      /\ job'[b] = "finish" /\ archive'[b] = archive[b] /\ read'[b] = read[b] /\ shot'[b] = shot[b]
      /\ b \in mixed' <=> b \in mixed
      /\ Now(b)' = Now(b) /\ (Refers(shot[b])' <=> Refers(shot[b]))
      /\ b \in Wanted' /\ read[b] \in Row /\ shot[b] \in Host /\ UNCHANGED plans
  BY <1>2, <1>8, Continued, Zenon
<1>10. b \in sealed'
  BY <1>1
<1>12. Archived(b)'
  BY <1>4, <1>6, <1>9, <1>10, SMT DEF Archived
<1>13. Faithful(b)'
  <2>1. ASSUME b \notin mixed
        PROVE  /\ shot[b] = Now(b) /\ shot[b].row = read[b] /\ Refers(shot[b])
               /\ archive[b].home = shot[b].home /\ archive[b].db = shot[b].db
               /\ shot[b].db # 0 => archive[b].schema = shot[b].schema
               /\ archive[b].row = shot[b].row /\ archive[b].web = shot[b].web /\ archive[b].jobs = shot[b].jobs
    BY <1>2, <1>3, <1>5, <2>1, Zenon DEF Faithful
  <2>2. b \notin mixed => Contents(archive[b]) = Contents(shot[b])
    BY <2>1, Zenon DEF Contents
  <2>3. Contents(archive[b])' = Contents(archive[b]) /\ Contents(shot[b])' = Contents(shot[b])
    BY <1>9, Zenon DEF Contents
  <2> QED
    BY <1>9, <2>1, <2>2, <2>3, Zenon DEF Faithful
<1> QED
  BY <1>2, <1>9, <1>12, <1>13, Zenon DEF Shelves

(* What is sealed stays as it is, whatever becomes of the call.            *)
LEMMA KeepsSealed ==
  ASSUME IInv, NEW b \in Backups, b \in sealed, want' = want, b \in sealed', archive'[b] = archive[b], shot'[b] = shot[b],
         b \in mixed' <=> b \in mixed, job'[b] \in {"complete", "failed"}
  PROVE  Archived(b)' /\ Faithful(b)'
<1>1. Archived(b) /\ Faithful(b)
  BY OnShelf, Zenon
<1>2. b \in Wanted' /\ archive[b] \in Host /\ shot[b] \in Host
  <2>1. b \in Wanted /\ archive[b] \in Host /\ shot[b] \in Host
    BY <1>1, Zenon DEF Archived
  <2> QED
    BY <2>1, WantedStay, Zenon
<1>3. archive[b].home \in Home /\ (archive[b].db = 0 \/ archive[b].schema # "none") /\ archive[b].row \in Row
  <2>1. Past(b, {"dumps", "lists", "sums"}) /\ Past(b, {"lists", "sums"}) /\ Past(b, {"sums"})
    BY Zenon DEF Past
  <2> QED
    BY <1>1, <2>1, Zenon DEF Archived
<1>4. Archived(b)'
  BY <1>2, <1>3, SMT DEF Archived, Working
<1>5. Faithful(b)'
  <2>1. b \notin mixed => Contents(archive[b]) = Contents(shot[b])
    BY <1>1, Zenon DEF Faithful
  <2>2. Contents(archive[b])' = Contents(archive[b]) /\ Contents(shot[b])' = Contents(shot[b])
    BY Zenon DEF Contents
  <2>3. job'[b] \notin Working
    BY SMT DEF Working
  <2> QED
    BY <2>1, <2>2, <2>3, Zenon DEF Faithful
<1> QED
  BY <1>4, <1>5

LEMMA FinishMoves ==
  ASSUME IInv, NEW b \in Backups, Finish(b)
  PROVE  Shelves(b)
<1>1. /\ job[b] = "finish" /\ Reached(b, "complete")
      /\ book' = [book EXCEPT ![b] = "complete"] /\ read' = [read EXCEPT ![b] = NoRow]
      /\ UNCHANGED plans /\ attached' = attached /\ archive' = archive /\ sealed' = sealed /\ shot' = shot
      /\ mixed' = mixed
  BY Zenon DEF Finish, At
<1>2. Archived(b) /\ ShelfTyped
  BY OnShelf, Zenon
<1>3. b \in sealed
  BY <1>1, <1>2, SMT DEF Archived
<1>4. job'[b] = "complete" /\ job' \in [Backups -> Jobs] /\ \A c \in Backups \ {b} : job'[c] = job[c]
  BY <1>1, <1>2, Labels, Relabelled, Zenon
<1>5. read' \in [Backups -> Row \cup {NoRow}] /\ \A c \in Backups \ {b} : read'[c] = read[c]
  BY <1>1, <1>2, Zenon DEF ShelfTyped
<1>6. ShelfTyped'
  <2>1. book' \in [Backups -> {"none", "running", "complete", "failed"}]
    BY <1>1, <1>2, Zenon DEF ShelfTyped
  <2> QED
    BY <1>1, <1>2, <1>4, <1>5, <2>1, Zenon DEF ShelfTyped
<1>7. \A c \in Backups \ {b} : Still(c)
  BY <1>1, <1>4, <1>5, Zenon DEF Still
<1>8. want' = want
  BY <1>1, Zenon DEF plans, data
<1>9. Archived(b)' /\ Faithful(b)'
  BY <1>1, <1>3, <1>4, <1>8, KeepsSealed, Zenon
<1>10. job[b] \in Working
  BY <1>1, Labels, SMT
<1> QED
  BY <1>1, <1>6, <1>7, <1>9, <1>10, Zenon DEF Shelves

LEMMA GiveUpMoves ==
  ASSUME IInv, NEW b \in Backups, GiveUp(b)
  PROVE  Shelves(b)
<1>1. /\ job[b] \in Working \cup {"looked"} /\ Reached(b, "failed")
      /\ book' = book \/ book' = [book EXCEPT ![b] = "failed"]
      /\ read' = [read EXCEPT ![b] = NoRow] /\ UNCHANGED plans /\ attached' = attached /\ sealed' = sealed
      /\ b \in sealed => archive' = archive /\ shot' = shot /\ mixed' = mixed
      /\ b \notin sealed => Writes(b, Nothing) /\ shot' = [shot EXCEPT ![b] = Nothing] /\ mixed' = mixed \ {b}
  BY Zenon DEF GiveUp
<1>2. Archived(b) /\ ShelfTyped
  BY OnShelf, Zenon
<1>3. job'[b] = "failed" /\ job' \in [Backups -> Jobs] /\ \A c \in Backups \ {b} : job'[c] = job[c]
  BY <1>1, <1>2, Labels, Relabelled, Zenon
<1>4. read' \in [Backups -> Row \cup {NoRow}] /\ \A c \in Backups \ {b} : read'[c] = read[c]
  BY <1>1, <1>2, Zenon DEF ShelfTyped
<1>5. /\ archive' \in [Backups -> Host \cup {Nothing}] /\ \A c \in Backups \ {b} : archive'[c] = archive[c]
      /\ shot' \in [Backups -> Host \cup {Nothing}] /\ \A c \in Backups \ {b} : shot'[c] = shot[c]
      /\ mixed' \subseteq Backups /\ \A c \in Backups \ {b} : c \in mixed => c \in mixed'
  <2>1. CASE b \in sealed
    BY <1>1, <1>2, <2>1, Zenon DEF ShelfTyped
  <2>2. CASE b \notin sealed
    <3>1. archive' \in [Backups -> Host \cup {Nothing}] /\ \A c \in Backups \ {b} : archive'[c] = archive[c]
      BY <1>1, <1>2, <2>2, Written, Zenon
    <3>2. shot' \in [Backups -> Host \cup {Nothing}] /\ \A c \in Backups \ {b} : shot'[c] = shot[c]
      BY <1>1, <1>2, <2>2, Zenon DEF ShelfTyped
    <3>3. mixed' \subseteq Backups /\ \A c \in Backups \ {b} : c \in mixed => c \in mixed'
      BY <1>1, <1>2, <2>2, Zenon DEF ShelfTyped
    <3> QED
      BY <3>1, <3>2, <3>3
  <2> QED
    BY <2>1, <2>2
<1>6. ShelfTyped'
  <2>1. book' \in [Backups -> {"none", "running", "complete", "failed"}]
    BY <1>1, <1>2, Zenon DEF ShelfTyped
  <2> QED
    BY <1>1, <1>2, <1>3, <1>4, <1>5, <2>1, Zenon DEF ShelfTyped
<1>7. \A c \in Backups \ {b} : Still(c)
  BY <1>1, <1>3, <1>4, <1>5, Zenon DEF Still
<1>8. want' = want
  BY <1>1, Zenon DEF plans, data
<1>9. job'[b] \notin Working /\ job'[b] \notin {"finish", "complete", "idle", "looked"}
  BY <1>3, SMT DEF Working
<1>10. Archived(b)' /\ Faithful(b)'
  <2>1. CASE b \in sealed
    BY <1>1, <1>3, <1>8, <2>1, KeepsSealed, Zenon
  <2>2. CASE b \notin sealed
    <3>1. b \in Wanted'
      <4>1. job[b] # "idle"
        BY <1>1, SMT DEF Working
      <4>2. b \in Wanted
        BY <1>2, <4>1, Zenon DEF Archived
      <4> QED
        BY <1>8, <4>2, WantedStay, Zenon
    <3>2. b \notin sealed'
      BY <1>1, <2>2
    <3>3. ~Past(b, {"dumps", "lists", "sums"})' /\ ~Past(b, {"lists", "sums"})' /\ ~Past(b, {"sums"})'
      BY <1>3, <3>2, SMT DEF Past
    <3> QED
      BY <1>3, <1>9, <3>1, <3>2, <3>3, SMT DEF Archived, Faithful
  <2> QED
    BY <2>1, <2>2
<1> QED
  BY <1>1, <1>6, <1>7, <1>9, <1>10, Zenon DEF Shelves

LEMMA BackupMoves ==
  ASSUME IInv, NEW b \in Backups, BackupStep(b)
  PROVE  IInv'
<1>1. Shelves(b)
  BY LookMoves, BeginMoves, FilesMoves, DumpsMoves, ListsMoves, SealMoves, FinishMoves, GiveUpMoves, Zenon
     DEF BackupStep
<1> QED
  BY <1>1, ShelfMoves, Zenon

-----------------------------------------------------------------------------
(***************************************************************************)
(* A plan moves on: the backups of its name that are being made are mixed  *)
(* from now on.                                                            *)
(***************************************************************************)
LEMMA RunsOwnName ==
  ASSUME IInv, NEW r \in Requests, Runs(r)
  PROVE  want' = want /\ \A n \in Names : n # Name(r) => host'[n] = host[n]
<1>1. CASE Start(r) \/ Return(r)
  <2>1. want' = want /\ host' = host
    BY <1>1, Zenon DEF Start, Return
  <2> QED
    BY <2>1
<1>2. CASE Do(r) \/ Fail(r) \/ Undo(r) \/ UndoFails(r) \/ StopAtCommit(r)
  <2>1. Preserved(r)
    BY <1>2, DoPreserves, FailPreserves, UndoPreserves, UndoFailsPreserves, StopPreserves, Zenon
  <2> QED
    BY <2>1, Zenon DEF Preserved, HostsKept
<1> QED
  BY <1>1, <1>2, Zenon DEF Runs

LEMMA PlanMoves ==
  ASSUME IInv, NEW r \in Requests, PlanStep(r)
  PROVE  IInv'
<1>1. /\ Runs(r) /\ attached' = [b \in Backups |-> Attachment(r, b)]
      /\ mixed' = mixed \cup {b \in Backups : job[b] \in Working /\ Subject(b) = Name(r)}
      /\ job' = job /\ book' = book /\ read' = read /\ archive' = archive /\ sealed' = sealed /\ shot' = shot
  BY Zenon DEF PlanStep
<1>2. ArchivesStay
  BY <1>1, Zenon DEF ArchivesStay
<1>3. PlansInv'
  BY <1>1, <1>2, RunMoves, Zenon
<1>4. want' = want /\ \A n \in Names : n # Name(r) => host'[n] = host[n]
  BY <1>1, RunsOwnName, Zenon
<1>5. ShelfInv /\ want \in [Requests -> Request] /\ Name(r) \in Names
  BY Halves, Facts, Zenon DEF PlansInv, SubscriptionTyped
<1>6. ShelfTyped'
  <2>1. ASSUME NEW b \in Backups PROVE Attachment(r, b) \in Nat
    <3>1. attached[b] \in Nat
      BY <1>5, Zenon DEF ShelfInv, ShelfTyped
    <3>2. host'[Name(r)].row # NoRow => host'[Name(r)].row.id \in Nat
      <4>1. host'[Name(r)] \in Host
        BY <1>3, <1>5, Zenon DEF PlansInv, SubscriptionTyped
      <4>2. host'[Name(r)].row # NoRow => host'[Name(r)].row \in Row
        BY <4>1, Zenon DEF Host
      <4> QED
        BY <4>2, SMT DEF Row
    <3>3. \/ Attachment(r, b) \in {0, attached[b]}
          \/ Attachment(r, b) = host'[Name(r)].row.id /\ host'[Name(r)].row # NoRow
      BY SMT DEF Attachment
    <3> QED
      BY <3>1, <3>2, <3>3, SMT
  <2>2. attached' \in [Backups -> Nat]
    BY <1>1, <2>1, Zenon
  <2>3. mixed' \subseteq Backups
    BY <1>1, <1>5, Zenon DEF ShelfInv, ShelfTyped
  <2> QED
    BY <1>1, <1>5, <2>2, <2>3, Zenon DEF ShelfInv, ShelfTyped
<1>7. ASSUME NEW b \in Backups PROVE Archived(b)' /\ Faithful(b)'
  <2>1. Archived(b) /\ Faithful(b)
    BY <1>5, Zenon DEF ShelfInv
  <2>2. Still(b)
    BY <1>1, Zenon DEF Still
  <2>3. job[b] \in Working /\ b \notin mixed' => host'[Subject(b)] = host[Subject(b)]
    <3>1. SUFFICES ASSUME job[b] \in Working, b \notin mixed'
                   PROVE  host'[Subject(b)] = host[Subject(b)]
      OBVIOUS
    <3>2. Subject(b) # Name(r)
      BY <1>1, <3>1, Zenon
    <3>3. b \in Wanted
      <4>1. job[b] # "idle"
        BY <3>1, SMT DEF Working
      <4> QED
        BY <2>1, <4>1, Zenon DEF Archived
    <3>4. Subject(b) \in Names
      BY <1>5, <3>3, SubjectIsName, Zenon
    <3> QED
      BY <1>4, <3>2, <3>4, Zenon
  <2> QED
    BY <1>4, <2>1, <2>2, <2>3, StillShelved, Zenon
<1>8. Exclusive'
  <2>1. Wanted' = Wanted /\ \A b : Subject(b)' = Subject(b)
    BY <1>4, WantedStay, Zenon
  <2> QED
    BY <1>1, <1>5, <2>1, Zenon DEF ShelfInv, Exclusive
<1> QED
  BY <1>3, <1>6, <1>7, <1>8, Halves, Zenon DEF ShelfInv

(* The moves that leave the shelf as it is.                                *)
LEMMA ShelfUntouched ==
  ASSUME IInv, UNCHANGED shelf, want' = want, host' = host
  PROVE  ShelfInv'
<1>1. /\ job' = job /\ book' = book /\ attached' = attached /\ read' = read /\ archive' = archive
      /\ sealed' = sealed /\ shot' = shot /\ mixed' = mixed
  BY Zenon DEF shelf
<1>2. ShelfInv
  BY Halves, Zenon
<1>3. ShelfTyped'
  BY <1>1, <1>2, Zenon DEF ShelfInv, ShelfTyped
<1>4. ASSUME NEW b \in Backups PROVE Archived(b)' /\ Faithful(b)'
  <2>1. Archived(b) /\ Faithful(b) /\ Still(b)
    BY <1>1, <1>2, Zenon DEF ShelfInv, Still
  <2> QED
    BY <2>1, StillShelved, Zenon
<1>5. Exclusive'
  <2>1. Wanted' = Wanted /\ \A b : Subject(b)' = Subject(b)
    BY WantedStay, Zenon
  <2> QED
    BY <1>1, <1>2, <2>1, Zenon DEF ShelfInv, Exclusive
<1> QED
  BY <1>3, <1>4, <1>5, Zenon DEF ShelfInv

LEMMA StutterMoves ==
  ASSUME IInv, UNCHANGED vars
  PROVE  IInv'
<1>1. UNCHANGED plans /\ UNCHANGED shelf
  BY Zenon DEF vars
<1>2. want' = want /\ host' = host /\ archive' = archive /\ sealed' = sealed
  BY <1>1, Zenon DEF plans, data, shelf
<1>3. ArchivesStay
  BY <1>2, Zenon DEF ArchivesStay
<1> QED
  BY <1>1, <1>2, <1>3, PlansUntouched, ShelfUntouched, Halves, Zenon

LEMMA IInvKept == IInv /\ [Next]_vars => IInv'
<1>1. SUFFICES ASSUME IInv, [Next]_vars PROVE IInv'
  OBVIOUS
<1>2. ASSUME NEW r \in Requests, PrepareAny(r) PROVE IInv'
  <2>1. UNCHANGED shelf
    BY <1>2, Zenon DEF PrepareAny
  <2>2. want' = want /\ host' = host
    BY <1>2, Zenon DEF PrepareAny, Prepare
  <2> QED
    BY <1>1, <1>2, <2>1, <2>2, PrepareMoves, ShelfUntouched, Halves, Zenon
<1>3. ASSUME NEW r \in Requests, Refuse(r), UNCHANGED shelf PROVE IInv'
  <2>1. want' = want /\ host' = host
    BY <1>3, Zenon DEF Refuse, data
  <2> QED
    BY <1>1, <1>3, <2>1, RefuseMoves, ShelfUntouched, Halves, Zenon
<1>4. ASSUME NEW r \in Requests, PlanStep(r) PROVE IInv'
  BY <1>1, <1>4, PlanMoves, Zenon
<1>5. ASSUME NEW b \in Backups, BackupStep(b) PROVE IInv'
  BY <1>1, <1>5, BackupMoves, Zenon
<1>6. CASE UNCHANGED vars
  BY <1>1, <1>6, StutterMoves, Zenon
<1> QED
  BY <1>1, <1>2, <1>3, <1>4, <1>5, <1>6, Zenon DEF Next

-----------------------------------------------------------------------------
(***************************************************************************)
(* At first the hosts are whole, and the archives that are there are what  *)
(* their subscriptions are.                                                *)
(***************************************************************************)
LEMMA WholeRefers ==
  ASSUME NEW h, Whole(h)
  PROVE  Refers(h)
BY Zenon DEF Whole, Refers

LEMMA InitPlans == Init => PlansInv
<1>1. SUFFICES ASSUME Init PROVE PlansInv
  OBVIOUS
<1>2. PICK s \in Scenarios : host = s.host /\ foreign = s.foreign /\ want = s.want
  BY <1>1, Zenon DEF Init
<1>3. s \in [host : [Names -> Host], foreign : SUBSET Uids, want : [Requests -> Request]]
  BY SubscriptionAssumption, Zenon
<1>4. host \in [Names -> Host] /\ foreign \subseteq Uids /\ want \in [Requests -> Request]
  BY <1>2, <1>3, SMT
<1>5. \A n \in Names : Whole(host[n])
  BY <1>2, SubscriptionAssumption, Zenon
<1>6. Users
  <2>1. \A n \in Names : \A m \in Names \ {n} : s.host[n].user = 0 \/ s.host[m].user # s.host[n].user
    BY SubscriptionAssumption, Zenon
  <2> QED
    BY <1>2, <2>1, Zenon DEF Users
<1>7. /\ lock = NoRequest /\ pc = [r \in Requests |-> "new"] /\ at = [r \in Requests |-> 1]
      /\ dirty = [r \in Requests |-> FALSE]
      /\ nextId = Cardinality(Names) + 1
      /\ snap = [r \in Requests |-> Nothing] /\ found = [r \in Requests |-> Nothing]
      /\ uid = [r \in Requests |-> 0] /\ torn = {} /\ damaged = {}
  BY <1>1, Zenon DEF Init, ControlInit
<1>8. nextId \in Nat /\ nextId # 0
  <2>1. Cardinality(Names) \in Nat
    BY SubscriptionAssumption, FS_CardinalityType, Zenon
  <2> QED
    BY <1>7, <2>1, SMT
<1>9. SubscriptionTyped
  <2>1. ControlTyped(18)
    BY <1>7, SMT DEF ControlTyped, PCs
  <2>2. snap \in [Requests -> Host \cup {Nothing}] /\ found \in [Requests -> Host \cup {Nothing}]
    BY <1>7, Zenon
  <2>3. uid \in [Requests -> Uids \cup {0}]
    BY <1>7, Zenon
  <2> QED
    BY <1>4, <1>7, <1>8, <2>1, <2>2, <2>3, Zenon DEF SubscriptionTyped
<1>10. ASSUME NEW r \in Requests PROVE Placed(r) /\ Read(r) /\ Grounded(r) /\ Traced(r)
  <2>1. pc[r] = "new" /\ at[r] = 1 /\ ~dirty[r] /\ lock # r
    BY <1>7, RequestsAssumption, Zenon
  <2>2. pc[r] \notin {"ready", "do", "undo"}
    BY <2>1, SMT
  <2>3. ~Running(r) /\ pc[r] # "do" /\ pc[r] # "undo"
    BY <2>2, Zenon DEF Running
  <2> QED
    BY <2>1, <2>2, <2>3, Zenon DEF Placed, Read, Grounded, Traced, Clean
<1>11. ASSUME NEW n \in Names PROVE Refers(host[n]) /\ (n \notin damaged => Whole(Before(n)))
  BY <1>5, <1>7, WholeRefers, Zenon DEF Before
<1> QED
  BY <1>6, <1>8, <1>9, <1>10, <1>11, Zenon DEF PlansInv

LEMMA InitShelf == BackupInit => ShelfInv
<1>1. SUFFICES ASSUME BackupInit PROVE ShelfInv
  OBVIOUS
<1>2. PlansInv /\ lock = NoRequest /\ damaged = {}
  BY <1>1, InitPlans, Zenon DEF BackupInit, Init, ControlInit
<1>3. /\ sealed = {b \in Kept \cap Wanted : host[Subject(b)].row # NoRow}
      /\ job = [b \in Backups |-> IF b \in sealed THEN "complete" ELSE "idle"]
      /\ book = [b \in Backups |-> IF b \in sealed THEN "complete" ELSE "none"]
      /\ attached = [b \in Backups |-> IF b \in sealed THEN host[Subject(b)].row.id ELSE 0]
      /\ read = [b \in Backups |-> NoRow]
      /\ archive = [b \in Backups |-> IF b \in sealed THEN host[Subject(b)] ELSE Nothing]
      /\ shot = archive /\ mixed = {}
  BY <1>1, Zenon DEF BackupInit
<1>4. sealed \subseteq Wanted /\ Wanted \subseteq Backups
  BY <1>3, Zenon DEF Wanted
<1>5. ASSUME NEW b \in sealed
      PROVE  /\ b \in Wanted /\ b \in Backups /\ host[Subject(b)] \in Host /\ host[Subject(b)].row \in Row
             /\ host[Subject(b)].home \in Home
             /\ host[Subject(b)].db = 0 \/ host[Subject(b)].schema # "none"
  <2>1. b \in Wanted /\ b \in Backups /\ host[Subject(b)].row # NoRow
    BY <1>3, <1>4, Zenon
  <2>2. Subject(b) \in Names /\ host[Subject(b)] \in Host
    BY <1>2, <2>1, SubjectIsName, Zenon DEF PlansInv, SubscriptionTyped
  <2>3. Whole(host[Subject(b)])
    <3>1. Before(Subject(b)) = host[Subject(b)]
      BY <1>2, Zenon DEF Before
    <3> QED
      BY <1>2, <2>2, <3>1, Zenon DEF PlansInv
  <2>4. host[Subject(b)].row \in Row
    BY <2>1, <2>2, Zenon DEF Host
  <2>5. host[Subject(b)].home \in Home
    <3>1. host[Subject(b)].home # NoHome
      BY <2>1, <2>3, Zenon DEF Whole
    <3> QED
      BY <2>2, <3>1, Zenon DEF Host
  <2>6. host[Subject(b)].db = 0 \/ host[Subject(b)].schema # "none"
    BY <2>3, Zenon DEF Whole
  <2> QED
    BY <2>1, <2>2, <2>4, <2>5, <2>6, Zenon
<1>6. ASSUME NEW b \in Backups
      PROVE  /\ b \in sealed => job[b] = "complete" /\ archive[b] = host[Subject(b)] /\ shot[b] = archive[b]
             /\ b \notin sealed => job[b] = "idle" /\ archive[b] = Nothing /\ shot[b] = archive[b]
  BY <1>3, Zenon
<1>7. ShelfTyped
  <2>1. job \in [Backups -> Jobs]
    BY <1>3, Labels, Zenon
  <2>2. book \in [Backups -> {"none", "running", "complete", "failed"}]
    BY <1>3, Zenon
  <2>3. attached \in [Backups -> Nat]
    <3>1. \A b \in sealed : host[Subject(b)].row.id \in Nat
      <4>1. \A x \in Row : x.id \in Nat
        BY SMT DEF Row
      <4> QED
        BY <1>5, <4>1, Zenon
    <3>2. ASSUME NEW b \in Backups PROVE (IF b \in sealed THEN host[Subject(b)].row.id ELSE 0) \in Nat
      BY <3>1, SMT
    <3> QED
      BY <1>3, <3>2, Zenon
  <2>4. read \in [Backups -> Row \cup {NoRow}]
    BY <1>3, Zenon
  <2>5. archive \in [Backups -> Host \cup {Nothing}]
    BY <1>3, <1>5, Zenon
  <2> QED
    BY <1>3, <1>4, <2>1, <2>2, <2>3, <2>4, <2>5, Zenon DEF ShelfTyped
<1>8. \A b \in Backups : job[b] \notin Working /\ job[b] \notin {"looked", "finish"}
  BY <1>6, SMT DEF Working
<1>9. Exclusive
  BY <1>4, <1>8, Zenon DEF Exclusive
<1>10. ASSUME NEW b \in Backups PROVE Archived(b) /\ Faithful(b)
  <2>1. CASE b \in sealed
    <3>1. job[b] = "complete" /\ archive[b] = host[Subject(b)] /\ shot[b] = archive[b]
      BY <1>6, <2>1, Zenon
    <3>2. /\ b \in Wanted /\ archive[b] \in Host /\ shot[b] \in Host /\ archive[b].row \in Row
          /\ archive[b].home \in Home /\ (archive[b].db = 0 \/ archive[b].schema # "none")
      BY <1>5, <2>1, <3>1, Zenon
    <3>3. Archived(b)
      BY <1>8, <2>1, <3>1, <3>2, SMT DEF Archived
    <3>4. Faithful(b)
      BY <1>8, <3>1, Zenon DEF Faithful
    <3> QED
      BY <3>3, <3>4
  <2>2. CASE b \notin sealed
    <3>1. job[b] = "idle"
      BY <1>6, <2>2, Zenon
    <3>2. ~Past(b, {"dumps", "lists", "sums"}) /\ ~Past(b, {"lists", "sums"}) /\ ~Past(b, {"sums"})
      BY <2>2, <3>1, SMT DEF Past
    <3> QED
      BY <1>8, <2>2, <3>1, <3>2, SMT DEF Archived, Faithful
  <2> QED
    BY <2>1, <2>2
<1> QED
  BY <1>7, <1>9, <1>10, Zenon DEF ShelfInv

LEMMA InitIInv == BackupInit => IInv
BY InitPlans, InitShelf, Halves, Zenon DEF BackupInit

-----------------------------------------------------------------------------
(***************************************************************************)
(* The invariant, from which the properties follow: what each plan has     *)
(* read and has made of the host, and what each archive has of it.         *)
(***************************************************************************)
THEOREM Invariance == Spec => []IInv
BY InitIInv, IInvKept, PTL DEF Spec

(***************************************************************************)
(* Type correctness, with the lock of the backups of one subscription: no  *)
(* two of them are being made at a time.                                   *)
(***************************************************************************)
THEOREM TypeCorrect == Spec => []TypeOK
<1>1. IInv => TypeOK
  BY Zenon DEF IInv
<1> QED
  BY <1>1, Invariance, PTL

LEMMA SettledWhole ==
  ASSUME IInv, NEW n \in Names, Settled(n)
  PROVE  Whole(host[n]) /\ (host[n].row # NoRow => host[n].row \in Row /\ host[n].user = host[n].row.uid)
<1>1. Before(n) = host[n]
  BY Zenon DEF Settled, Before
<1>2. Whole(host[n])
  BY <1>1, Zenon DEF Settled, IInv
<1>3. host[n] \in Host
  BY Zenon DEF IInv, TypeOK, SubscriptionTyped
<1>4. host[n].row # NoRow => host[n].row \in Row
  BY <1>3, Zenon DEF Host
<1> QED
  BY <1>2, <1>4, Zenon DEF Whole

(***************************************************************************)
(* A name on which no plan runs and that none has left damaged is a whole  *)
(* subscription or none, and no two have one UID.                          *)
(***************************************************************************)
THEOREM SubscriptionsAreWhole == Spec => []SubscriptionIsWhole
<1>1. ASSUME IInv PROVE SubscriptionIsWhole
  <2>1. ASSUME NEW n \in Names, Settled(n), host[n].row # NoRow, NEW m \in Names \ {n}, Settled(m), host[m].row # NoRow
        PROVE  host[m].row.uid # host[n].row.uid
    <3>1. host[n].row \in Row /\ host[n].user = host[n].row.uid /\ host[m].user = host[m].row.uid
      BY <1>1, <2>1, SettledWhole, Zenon
    <3>2. host[n].user # 0
      BY <3>1, SubscriptionAssumption, SMT DEF Row, Uids
    <3>3. host[n].user = 0 \/ host[m].user # host[n].user
      BY <1>1, <2>1, Zenon DEF IInv, Users
    <3> QED
      BY <3>1, <3>2, <3>3, Zenon
  <2>2. ASSUME NEW n \in Names, Settled(n) PROVE Whole(host[n])
    BY <1>1, <2>2, SettledWhole, Zenon
  <2> QED
    BY <2>1, <2>2, Zenon DEF SubscriptionIsWhole
<1> QED
  BY <1>1, Invariance, PTL

-----------------------------------------------------------------------------
(* Only its own call gives an operation its verdict.                       *)
LEMMA OnlyItReturns ==
  ASSUME IInv, Next, NEW r \in Requests, pc[r] \in {"do", "undo"}, pc'[r] \in Verdicts
  PROVE  Return(r)
<1>0. pc \in [Requests -> PCs] /\ pc'[r] # pc[r] /\ pc'[r] \notin {"ready", "refused", "do", "undo"}
  BY Zenon, SMT DEF IInv, TypeOK, SubscriptionTyped, ControlTyped, Verdicts
<1>1. ASSUME NEW q \in Requests, PrepareAny(q) \/ Refuse(q) PROVE FALSE
  <2>1. Prepared(q) \/ Refused(q)
    BY <1>1, Zenon DEF PrepareAny, Prepare, Refuse
  <2> QED
    BY <1>0, <2>1, Zenon DEF Prepared, Refused, Goto
<1>2. ASSUME NEW b \in Backups, BackupStep(b) PROVE FALSE
  <2>1. UNCHANGED plans
    BY <1>2, LookMoves, BeginMoves, FilesMoves, DumpsMoves, ListsMoves, SealMoves, FinishMoves, GiveUpMoves, Zenon
       DEF BackupStep, Shelves
  <2> QED
    BY <1>0, <2>1, Zenon DEF plans, control
<1>3. ASSUME NEW q \in Requests, PlanStep(q) PROVE Return(r)
  <2>1. Runs(q)
    BY <1>3, Zenon DEF PlanStep
  <2>2. CASE Start(q)
    BY <1>0, <2>2, Zenon DEF Start, Started, Goto
  <2>3. CASE Do(q) \/ Fail(q) \/ Undo(q) \/ UndoFails(q) \/ StopAtCommit(q)
    <3>1. pc' = pc \/ pc' = [pc EXCEPT ![q] = "undo"]
      BY <2>3, Zenon DEF Do, Advanced, Fail, Failed, Goto, Undo, Undid, UndoFails, DidNotUndo, StopAtCommit
    <3> QED
      BY <1>0, <3>1, Zenon
  <2>4. CASE Return(q)
    <3>1. pc' = [pc EXCEPT ![q] = Verdict(q, Len(Steps(q)))] \/ pc' = [pc EXCEPT ![q] = "running"]
      BY <2>4, Zenon DEF Return, Ended, Goto
    <3>2. q = r
      BY <1>0, <3>1, Zenon
    <3> QED
      BY <2>4, <3>2
  <2> QED
    BY <2>1, <2>2, <2>3, <2>4, Zenon DEF Runs
<1> QED
  BY <1>1, <1>2, <1>3, Zenon DEF Next

LEMMA ItsVerdict ==
  ASSUME IInv, NEW r \in Requests, Return(r)
  PROVE  /\ pc'[r] = "done" => pc[r] = "do" /\ at[r] > Len(Steps(r))
         /\ pc'[r] = "rolled_back" => pc[r] = "undo" /\ at[r] = 0 /\ ~dirty[r]
<1>1. pc \in [Requests -> PCs]
  BY Zenon DEF IInv, TypeOK, SubscriptionTyped, ControlTyped
<1>2. pc'[r] \in {Verdict(r, Len(Steps(r))), "running"}
  BY <1>1, Zenon DEF Return, Ended, Goto
<1> QED
  BY <1>2, SMT DEF Verdict

(* Two hosts are the same with all their parts.                            *)
Parts(h) ==
  [row |-> h.row, web |-> h.web, db |-> h.db, cert |-> h.cert, jobs |-> h.jobs, user |-> h.user,
   home |-> h.home, logs |-> h.logs, vhost |-> h.vhost, pool |-> h.pool, schema |-> h.schema,
   crontab |-> h.crontab, lineage |-> h.lineage, source |-> h.source]
LEMMA ItsParts ==
  ASSUME NEW h \in Host
  PROVE  h = Parts(h)
BY SMT DEF Host, Parts

LEMMA SameParts ==
  ASSUME NEW h \in Host, NEW g \in Host,
         h.row = g.row, h.web = g.web, h.db = g.db, h.cert = g.cert, h.jobs = g.jobs, h.user = g.user,
         h.home = g.home, h.logs = g.logs, h.vhost = g.vhost, h.pool = g.pool, h.schema = g.schema,
         h.crontab = g.crontab, h.lineage = g.lineage, h.source = g.source
  PROVE  h = g
<1>1. Parts(h) = Parts(g)
  BY Zenon DEF Parts
<1> QED
  BY <1>1, ItsParts, Zenon

SameButLogs(h, g) ==
  /\ h.row = g.row /\ h.web = g.web /\ h.db = g.db /\ h.cert = g.cert /\ h.jobs = g.jobs /\ h.user = g.user
  /\ h.home = g.home /\ h.vhost = g.vhost /\ h.pool = g.pool /\ h.schema = g.schema
  /\ h.crontab = g.crontab /\ h.lineage = g.lineage /\ h.source = g.source
WithLogs(h, x) == [h EXCEPT !.logs = x]

LEMMA LogsSet ==
  ASSUME NEW h \in Host, NEW x \in {"none", "empty", "full"}
  PROVE  WithLogs(h, x) \in Host /\ SameButLogs(WithLogs(h, x), h) /\ WithLogs(h, x).logs = x
<1>1. WithLogs(h, x) \in Host
  BY Zenon DEF Host, WithLogs
<1>2. SameButLogs(WithLogs(h, x), h) /\ WithLogs(h, x).logs = x
  BY SMT DEF Host, WithLogs, SameButLogs
<1> QED
  BY <1>1, <1>2

LEMMA TidiedLogs ==
  ASSUME NEW h \in Host
  PROVE  /\ Tidied(h) = WithLogs(h, IF h.logs = "full" THEN "full" ELSE "none")
         /\ Tidied(h) \in Host
         /\ SameButLogs(Tidied(h), h)
         /\ Tidied(h).logs = IF h.logs = "full" THEN "full" ELSE "none"
<1>1. Tidied(h) = WithLogs(h, IF h.logs = "full" THEN "full" ELSE "none")
  BY Zenon DEF Tidied, WithLogs
<1>2. CASE h.logs = "full"
  <2>1. Tidied(h) = WithLogs(h, "full")
    BY <1>1, <1>2, Zenon
  <2> QED
    BY <1>1, <1>2, <2>1, LogsSet, SMT
<1>3. CASE h.logs # "full"
  <2>1. Tidied(h) = WithLogs(h, "none")
    BY <1>1, <1>3, Zenon
  <2> QED
    BY <1>1, <1>3, <2>1, LogsSet, SMT
<1> QED
  BY <1>2, <1>3

LEMMA TidiedAlike ==
  ASSUME NEW h \in Host, NEW g \in Host, SameButLogs(h, g), h.logs = "full" <=> g.logs = "full"
  PROVE  Tidied(h) = Tidied(g)
<1>1. /\ Tidied(h) \in Host /\ SameButLogs(Tidied(h), h)
      /\ Tidied(h).logs = IF h.logs = "full" THEN "full" ELSE "none"
  BY TidiedLogs, Zenon
<1>2. /\ Tidied(g) \in Host /\ SameButLogs(Tidied(g), g)
      /\ Tidied(g).logs = IF g.logs = "full" THEN "full" ELSE "none"
  BY TidiedLogs, Zenon
<1>3. SameButLogs(Tidied(h), Tidied(g))
  BY <1>1, <1>2, Zenon DEF SameButLogs
<1>4. Tidied(h).logs = Tidied(g).logs
  <2>1. CASE h.logs = "full"
    <3>1. Tidied(h).logs = "full" /\ g.logs = "full" /\ Tidied(g).logs = "full"
      BY <1>1, <1>2, <2>1, SMT
    <3> QED
      BY <3>1
  <2>2. CASE h.logs # "full"
    <3>1. Tidied(h).logs = "none" /\ g.logs # "full" /\ Tidied(g).logs = "none"
      BY <1>1, <1>2, <2>2, SMT
    <3> QED
      BY <3>1
  <2> QED
    BY <2>1, <2>2
<1> QED
  BY <1>1, <1>2, <1>3, <1>4, SameParts, Zenon DEF SameButLogs

LEMMA RollsBack ==
  ASSUME IInv, NEW r \in Requests, pc[r] = "undo", at[r] = 0, ~dirty[r], r \notin torn, Name(r) \notin damaged,
         Kind(r) \in {"status", "quota"} => snap[r].row = found[r].row
  PROVE  Tidied(Left(r)) = Tidied(found[r])
<1> DEFINE h == host[Name(r)] was == found[r]
<1>1. Planned(r) /\ h \in Host /\ Traced(r) /\ was \in Host
  BY Facts, Zenon DEF Running
<1>2. Controlled
  BY <1>1, Zenon DEF Planned
<1>3. Trace(r)
  BY <1>1, Zenon DEF Traced, Clean
<1>4. \A t \in StepNames : ~Stands(r, t)
  BY <1>2, NoneStands, Zenon
<1>5. SameButLogs(h, was)
  <2>1. Kind(r) \notin Movers \/ snap[r].row = was.row
    BY Zenon DEF Movers
  <2> QED
    BY <1>3, <1>4, <2>1, NothingLeft, Zenon DEF SameButLogs
<1>6. /\ Kind(r) # "adopt" => (h.logs = "full" <=> was.logs = "full")
      /\ Kind(r) = "adopt" /\ was.logs # "full" => h.logs # "full"
  <2>1. ~Stands(r, "logs")
    BY <1>4, SMT DEF StepNames
  <2>2. LogsTrace(r) /\ pc[r] # "do"
    BY <1>3, SMT DEF Trace
  <2> QED
    BY <2>1, <2>2, Zenon DEF LogsTrace
<1>7. CASE Truncated(r)
  <2>1. Left(r) = WithLogs(h, "full") /\ was.logs = "full"
    BY <1>7, Zenon DEF Left, WithLogs, Truncated
  <2>2. Left(r) \in Host /\ SameButLogs(Left(r), h) /\ Left(r).logs = "full"
    <3>1. "full" \in {"none", "empty", "full"}
      OBVIOUS
    <3>2. WithLogs(h, "full") \in Host /\ SameButLogs(WithLogs(h, "full"), h) /\ WithLogs(h, "full").logs = "full"
      BY <1>1, <3>1, LogsSet
    <3> QED
      BY <2>1, <3>2, Zenon
  <2>3. SameButLogs(Left(r), was)
    BY <1>5, <2>2, Zenon DEF SameButLogs
  <2> QED
    BY <1>1, <2>1, <2>2, <2>3, TidiedAlike, Zenon
<1>8. CASE ~Truncated(r)
  <2>1. Left(r) = h
    BY <1>8, Zenon DEF Left
  <2>2. h.logs = "full" <=> was.logs = "full"
    BY <1>6, <1>8, Zenon DEF Truncated
  <2> QED
    BY <1>1, <1>5, <2>1, <2>2, TidiedAlike, Zenon
<1> QED
  BY <1>7, <1>8

(***************************************************************************)
(* An operation that is reported rolled_back leaves what it found, with    *)
(* the exceptions that Tidied and Left name.                               *)
(***************************************************************************)
THEOREM RollbackRestores == Spec => RolledBackRestores
<1>1. ASSUME IInv, [Next]_vars, NEW r \in Requests,
             pc[r] = "undo", pc'[r] = "rolled_back", r \notin torn, Name(r) \notin damaged,
             Kind(r) \in {"status", "quota"} => snap[r].row = found[r].row
      PROVE  Tidied(Left(r)) = Tidied(found[r])
  <2>1. CASE UNCHANGED vars
    <3>1. pc' = pc
      BY <2>1, Zenon DEF vars, plans, control
    <3> QED
      BY <1>1, <3>1, SMT
  <2>2. CASE Next
    <3>1. pc[r] \in {"do", "undo"} /\ pc'[r] \in Verdicts
      BY <1>1, Zenon DEF Verdicts
    <3>2. Return(r)
      BY <1>1, <2>2, <3>1, OnlyItReturns, Zenon
    <3>3. at[r] = 0 /\ ~dirty[r]
      BY <1>1, <3>2, ItsVerdict, Zenon
    <3> QED
      BY <1>1, <3>3, RollsBack, Zenon
  <2> QED
    BY <1>1, <2>1, <2>2
<1>2. IInv /\ [Next]_vars =>
        [\A r \in Requests :
           pc[r] = "undo" /\ pc'[r] = "rolled_back" /\ r \notin torn /\ Name(r) \notin damaged
           /\ (Kind(r) \in {"status", "quota"} => snap[r].row = found[r].row) =>
             Tidied(Left(r)) = Tidied(found[r])]_plans
  BY <1>1, Zenon
<1> QED
  BY <1>2, Invariance, PTL DEF Spec, RolledBackRestores

-----------------------------------------------------------------------------
(***************************************************************************)
(* A restore that has done all its steps has brought back what is in the   *)
(* archive, whatever was damaged before.                                   *)
(***************************************************************************)
LEMMA BringsBack ==
  ASSUME IInv, NEW r \in Requests, Kind(r) = "restore", pc[r] = "do", at[r] > Len(Steps(r))
  PROVE  LET h == host[Name(r)] IN
         /\ Contents(h) = Contents(snap[r])
         /\ h.row # NoRow /\ h.user = h.row.uid /\ h.home.owner = h.user
         /\ h.jobs # 0 => h.crontab
<1> DEFINE h == host[Name(r)] was == found[r] seen == snap[r]
<1>1. Planned(r) /\ h \in Host /\ Traced(r) /\ was \in Host
  BY Facts, Zenon DEF Running
<1>2. Controlled /\ Read(r) /\ Grounded(r) /\ Restores(r) /\ Trace(r)
  BY <1>1, Zenon DEF Planned, Traced
<1>3. \A t \in StepNames : Stands(r, t) <=> Pos(r, t) > 0
  BY <1>2, AllStand, Zenon
<1>4. \A t : Pos(r, t) = RestorePos(seen, t)
  BY SMT DEF Pos, Movers
<1>5. /\ Stands(r, "user") /\ Stands(r, "promote") /\ Stands(r, "record") /\ Stands(r, "chown")
      /\ ~Stands(r, "dropWebsite") /\ ~Stands(r, "dropDatabase") /\ ~Stands(r, "dropRow")
      /\ Stands(r, "import") <=> seen.db # 0
      /\ Stands(r, "database") <=> seen.db # 0
      /\ Stands(r, "website") <=> seen.web # 0
      /\ Stands(r, "jobs") <=> seen.jobs # 0
      /\ Stands(r, "crontab") <=> seen.jobs # 0
  BY <1>3, <1>4, SMT DEF RestorePos, Place, StepNames, Drops
<1>6. h.user = uid[r]
  BY <1>2, <1>5, Zenon DEF Trace, UserTrace
<1>7. h.row \in Row /\ h.row.uid = uid[r] /\ was.row = NoRow /\ h.row.quota = seen.row.quota
  BY <1>2, <1>5, Zenon DEF Trace, RowTrace
<1>8. h.home \in Home /\ h.home.owner = uid[r] /\ (h.home.docs = "none" <=> seen.home.docs = "none")
  <2>1. h.home \in Home
    BY <1>2, <1>5, Zenon DEF Grounded, Running
  <2> QED
    BY <1>2, <1>5, <2>1, Zenon DEF Trace, HomeTrace
<1>9. was.web = 0 /\ was.db = 0 /\ was.jobs = 0
  <2>1. Refers(was)
    BY <1>2, Zenon DEF Read, Running
  <2>2. {was.web, was.db, was.cert, was.jobs} = {0}
    BY <1>7, <2>1, Zenon DEF Refers
  <2> QED
    BY <2>2
<1>10. /\ h.web # 0 <=> seen.web # 0
       /\ h.db # 0 <=> seen.db # 0
       /\ h.jobs # 0 <=> seen.jobs # 0
  BY <1>2, <1>5, <1>9, Zenon DEF Trace, RowsTrace
<1>11. /\ seen.db # 0 => h.schema = seen.schema
       /\ seen.jobs # 0 => h.crontab = TRUE
  BY <1>2, <1>5, Zenon DEF Trace, SystemTrace
<1>12. seen.home \in Home
  BY <1>2, Zenon DEF Restores
<1>13. NoRow \notin Row /\ NoHome \notin Home
  BY SubscriptionAssumption, Zenon
<1>14. Contents(h) = Contents(seen)
  <2>1. (h.home # NoHome /\ h.home.docs # "none") = (seen.home # NoHome /\ seen.home.docs # "none")
    BY <1>8, <1>12, <1>13, Zenon
  <2>2. (h.web # 0) = (seen.web # 0) /\ (h.jobs # 0) = (seen.jobs # 0)
    BY <1>10, Zenon
  <2>3. (IF h.db = 0 THEN "none" ELSE h.schema) = (IF seen.db = 0 THEN "none" ELSE seen.schema)
    BY <1>10, <1>11, Zenon
  <2> QED
    BY <1>7, <2>1, <2>2, <2>3, Zenon DEF Contents
<1>15. h.row # NoRow
  BY <1>7, <1>13, Zenon
<1> QED
  BY <1>6, <1>7, <1>8, <1>10, <1>11, <1>14, <1>15, Zenon

(***************************************************************************)
(* A deletion that makes room for a restore has the archive it was to wait *)
(* for; and a restore that is done has brought back what the subscription  *)
(* had when its backup began, unless a plan disturbed that backup.         *)
(***************************************************************************)
THEOREM RestoresBringBack == Spec => RestoreBringsBack
<1>1. ASSUME IInv, NEW r \in Requests, Kind(r) = "delete", want[r].after \in Backups, pc[r] = "ready"
      PROVE  LET b == want[r].after IN
             Inspectable(b) /\ (b \notin mixed => Contents(archive[b]) = Contents(shot[b]))
  <2>1. want[r].after \in sealed
    BY <1>1, Zenon DEF IInv, Read
  <2>2. Faithful(want[r].after)
    BY <1>1, Zenon DEF IInv
  <2> QED
    BY <2>1, <2>2, Zenon DEF Inspectable, Faithful
<1>2. ASSUME IInv, [Next]_vars, NEW r \in Requests, Kind(r) = "restore", pc[r] = "do", pc'[r] = "done"
      PROVE  LET b == want[r].from h == host[Name(r)] IN
             /\ b \notin mixed => Contents(h) = Contents(shot[b])
             /\ h.row # NoRow /\ h.user = h.row.uid /\ h.home.owner = h.user
             /\ h.jobs # 0 => h.crontab
  <2>1. Next
    <3>1. CASE UNCHANGED vars
      <4>1. pc' = pc
        BY <3>1, Zenon DEF vars, plans, control
      <4> QED
        BY <1>2, <4>1, SMT
    <3> QED
      BY <1>2, <3>1
  <2>2. pc[r] \in {"do", "undo"} /\ pc'[r] \in Verdicts
    BY <1>2, Zenon DEF Verdicts
  <2>3. Return(r)
    BY <1>2, <2>1, <2>2, OnlyItReturns, Zenon
  <2>4. at[r] > Len(Steps(r))
    BY <1>2, <2>3, ItsVerdict, Zenon
  <2>5. /\ Contents(host[Name(r)]) = Contents(snap[r])
        /\ host[Name(r)].row # NoRow /\ host[Name(r)].user = host[Name(r)].row.uid
        /\ host[Name(r)].home.owner = host[Name(r)].user
        /\ host[Name(r)].jobs # 0 => host[Name(r)].crontab
    BY <1>2, <2>4, BringsBack, Zenon
  <2>6. want[r].from \in sealed /\ snap[r] = archive[want[r].from]
    BY <1>2, Zenon DEF IInv, Read
  <2>7. want[r].from \notin mixed => Contents(archive[want[r].from]) = Contents(shot[want[r].from])
    <3>1. want[r].from \in Backups
      BY <1>2, <2>6, Zenon DEF IInv, TypeOK
    <3>2. Faithful(want[r].from)
      BY <1>2, <3>1, Zenon DEF IInv
    <3> QED
      BY <2>6, <3>2, Zenon DEF Faithful
  <2> QED
    BY <2>5, <2>6, <2>7, Zenon
<1>3. IInv /\ [Next]_vars =>
        [\A r \in Requests :
           /\ Kind(r) = "delete" /\ want[r].after \in Backups /\ pc[r] = "ready" /\ pc'[r] = "do" =>
                LET b == want[r].after IN
                Inspectable(b) /\ (b \notin mixed => Contents(archive[b]) = Contents(shot[b]))
           /\ Kind(r) = "restore" /\ pc[r] = "do" /\ pc'[r] = "done" =>
                LET b == want[r].from h == host[Name(r)] IN
                /\ b \notin mixed => Contents(h) = Contents(shot[b])
                /\ h.row # NoRow /\ h.user = h.row.uid /\ h.home.owner = h.user
                /\ h.jobs # 0 => h.crontab]_vars
  BY <1>1, <1>2, Zenon
<1> QED
  BY <1>3, Invariance, PTL DEF Spec, RestoreBringsBack
=============================================================================
