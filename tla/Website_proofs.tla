---------------------------- MODULE Website_proofs ----------------------------
(***************************************************************************)
(* The properties of module Website, for any domains and settings, any     *)
(* number of requests and any websites to start from that BeforeAssumption *)
(* admits.                                                                 *)
(***************************************************************************)
EXTENDS Website, FiniteSetTheorems, TLAPS

Kind(r) == want[r].kind
Site(r) == want[r].site
AliasKinds == {"addAlias", "removeAlias"}
Switches == {"enable", "disable"}
Edits == AliasKinds \cup {"configure"}

StepNames == {"tree", "logs", "pool", "install", "insert", "remove", "removePool",
              "deleteLineage", "deleteCertificate", "deleteRow", "logDirectory", "write", "switch",
              "update"}
RowSteps == {"insert", "deleteRow", "update"}

(***************************************************************************)
(* The place of each step in the plans that have it, 0 in the others.      *)
(***************************************************************************)
Root(r) == IF RootOf(want[r].type) THEN 1 ELSE 0
Pool(r) == IF Kind(r) = "create" THEN IF want[r].type = "php" THEN 1 ELSE 0
           ELSE IF snap[r].type = "php" THEN 1 ELSE 0
Managed(r) == IF cert[r] THEN IF Site(r) \in Adopted THEN 1 ELSE 2 ELSE 0
Dir(r) == IF Kind(r) = "configure" THEN IF want[r].conf \in LogConfs THEN 1 ELSE 0 ELSE 0

Last(r) ==
  IF Kind(r) = "create" THEN Root(r) + Pool(r) + 3
  ELSE IF Kind(r) = "delete" THEN Pool(r) + Managed(r) + 2 ELSE Dir(r) + 2

CreatePos(r, s) ==
  CASE s = "tree" -> Root(r)
    [] s = "logs" -> Root(r) + 1
    [] s = "pool" -> IF want[r].type = "php" THEN Root(r) + 2 ELSE 0
    [] s = "install" -> Last(r) - 1
    [] s = "insert" -> Last(r)
    [] OTHER -> 0
DeletePos(r, s) ==
  CASE s = "remove" -> 1
    [] s = "removePool" -> IF snap[r].type = "php" THEN 2 ELSE 0
    [] s = "deleteLineage" -> IF cert[r] /\ Site(r) \notin Adopted THEN Pool(r) + 2 ELSE 0
    [] s = "deleteCertificate" -> IF cert[r] THEN Pool(r) + Managed(r) + 1 ELSE 0
    [] s = "deleteRow" -> Last(r)
    [] OTHER -> 0
ChangePos(r, s) ==
  CASE s = "logDirectory" -> Dir(r)
    [] s = "write" -> IF Kind(r) \in Edits THEN Dir(r) + 1 ELSE 0
    [] s = "switch" -> IF Kind(r) \in Switches THEN 1 ELSE 0
    [] s = "update" -> Dir(r) + 2
    [] OTHER -> 0
Pos(r, s) == IF Kind(r) = "create" THEN CreatePos(r, s)
             ELSE IF Kind(r) = "delete" THEN DeletePos(r, s) ELSE ChangePos(r, s)

(* The steps that have been done, and not been undone.                     *)
Running(r) == pc[r] \in {"do", "undo"}
Height(r) == IF pc[r] = "do" THEN at[r] - 1 ELSE at[r]
Stands(r, s) == 0 < Pos(r, s) /\ Pos(r, s) <= Height(r)

Placed(r) ==
  /\ lock = r <=> Running(r)
  /\ pc[r] \in {"new", "ready"} => at[r] = 1 /\ ~dirty[r]
  /\ pc[r] = "do" => at[r] \in 1..Last(r) + 1 /\ ~dirty[r]
  /\ pc[r] = "undo" => at[r] \in 0..Last(r)

(* What the checks of a preparation have established.                      *)
Read(r) ==
  pc[r] \in {"ready", "do", "undo"} /\ Kind(r) # "create" =>
    /\ snap[r] \in Row
    /\ Kind(r) \in Switches => (snap[r].enabled <=> Kind(r) = "disable")

(* A request inserts one row at most: these may still do so.               *)
MayInsert(r) ==
  \/ pc[r] \in {"new", "ready"}
  \/ pc[r] = "do" /\ (Kind(r) = "create" => at[r] <= Last(r))
  \/ pc[r] = "undo" /\ Kind(r) = "delete" /\ at[r] = Last(r)
Inserters == {r \in Requests : MayInsert(r)}

Typed ==
  /\ TypeOK
  /\ nextId + Cardinality(Inserters) <= MaxId + 1
  /\ \A r \in Requests : Placed(r) /\ Read(r)

(***************************************************************************)
(* A plan that runs, and of which nothing is torn and no undo has failed,  *)
(* has made of its site what its steps that stand make of the site it has  *)
(* found (origin).                                                         *)
(***************************************************************************)
Blank == [aliases |-> {}, conf |-> Default, tls |-> FALSE]
Created(r) ==
  /\ snap[r] \in Row /\ Rendered(snap[r]) = Blank /\ snap[r].enabled

CreateTrace(r) ==
  LET x == Here(r) o == origin[r] IN
  /\ IF Stands(r, "insert") THEN o.row = NoRow /\ x.row = snap[r] /\ Created(r) ELSE x.row = o.row
  /\ IF Stands(r, "install")
     THEN saved[r].file = o.file /\ saved[r].link = o.link /\ x.file = Blank /\ x.link = TRUE
     ELSE x.file = o.file /\ x.link = o.link
  /\ IF Stands(r, "pool") THEN saved[r].pool = o.pool ELSE x.pool = o.pool
  /\ x.lineage = o.lineage /\ x.certificate = o.certificate

(* A failed deletion may leave a row of a new id without aliases, a failed *)
(* update the settings of the row as they were read.                       *)
DeleteTrace(r) ==
  LET x == Here(r) o == origin[r] IN
  /\ IF Stands(r, "deleteRow") THEN o.row # NoRow /\ x.row = NoRow
     ELSE \/ x.row = o.row
          \/ /\ pc[r] = "undo" /\ o.row # NoRow /\ x.row # NoRow
             /\ x.row.aliases = {} /\ x.row.conf = snap[r].conf
  /\ IF Stands(r, "remove")
     THEN saved[r].file = o.file /\ saved[r].link = o.link /\ x.file = NoFile /\ x.link = FALSE
     ELSE x.file = o.file /\ x.link = o.link
  /\ ~Stands(r, "removePool") => x.pool = o.pool
  /\ ~Stands(r, "deleteLineage") => x.lineage = o.lineage
  /\ ~Stands(r, "deleteCertificate") => x.certificate = o.certificate

EditTrace(r) ==
  LET x == Here(r) o == origin[r] IN
  /\ IF Stands(r, "update")
     THEN /\ o.row # NoRow /\ x.row = Updated(r, o.row, Intended(r))
          /\ Kind(r) = "addAlias" => want[r].alias \notin o.row.aliases
          /\ Kind(r) = "removeAlias" => want[r].alias \in o.row.aliases
     ELSE \/ x.row = o.row
          \/ /\ Kind(r) = "configure" /\ pc[r] = "undo" /\ o.row # NoRow
             /\ x.row = [o.row EXCEPT !.conf = snap[r].conf]
  /\ IF Stands(r, "write")
     THEN saved[r].file = o.file /\ x.file = Rendered(Intended(r)) ELSE x.file = o.file
  /\ x.link = o.link /\ x.pool = o.pool /\ x.lineage = o.lineage /\ x.certificate = o.certificate

SwitchTrace(r) ==
  LET x == Here(r) o == origin[r] IN
  /\ IF Stands(r, "update") THEN o.row # NoRow /\ x.row = Updated(r, o.row, Intended(r))
     ELSE \/ x.row = o.row
          \/ /\ pc[r] = "undo" /\ o.row # NoRow /\ x.row = [o.row EXCEPT !.enabled = snap[r].enabled]
             /\ o.link = snap[r].enabled
  /\ IF Stands(r, "switch")
     THEN /\ saved[r].file = o.file /\ saved[r].link = o.link /\ o.file # NoFile
          /\ o.link = snap[r].enabled /\ x.link = ~snap[r].enabled
     ELSE x.link = o.link
  /\ x.file = o.file /\ x.pool = o.pool /\ x.lineage = o.lineage /\ x.certificate = o.certificate

Trace(r) ==
  /\ Kind(r) = "create" => CreateTrace(r)
  /\ Kind(r) = "delete" => DeleteTrace(r)
  /\ Kind(r) \in Edits => EditTrace(r)
  /\ Kind(r) \in Switches => SwitchTrace(r)
Traced(r) == Running(r) /\ r \notin torn /\ ~dirty[r] => Trace(r)

TraceInv == Typed /\ \A r \in Requests : Traced(r)

(***************************************************************************)
(* A plan that is not stale works on the row it has read.                  *)
(***************************************************************************)
FreshRead(r) ==
  r \notin stale =>
    /\ pc[r] = "ready" => Here(r).row = IF Kind(r) = "create" THEN NoRow ELSE snap[r]
    /\ Running(r) => origin[r].row = IF Kind(r) = "create" THEN NoRow ELSE snap[r]

(***************************************************************************)
(* Nothing is damaged yet.  A site no plan works on has a vhost for its    *)
(* row; so had the site that one works on when the plan began.             *)
(***************************************************************************)
Undamaged == torn = {} /\ \A r \in Requests : pc[r] # "inconsistent"
Idle(s) == \A r \in Requests : Running(r) => Site(r) # s

Matched(s, x) ==
  \/ x.file = Rendered(x.row)
  \/ x.file.conf = x.row.conf /\ x.row.aliases = {} /\ Relisted(s)

Tidy(s, x) ==
  /\ x.row # NoRow <=> x.file # NoFile
  /\ x.link => x.row # NoRow
  /\ x.row # NoRow /\ ~Relisted(s) => x.link = x.row.enabled
  /\ x.row # NoRow /\ stale = {} => Matched(s, x)

Tidied ==
  /\ \A s \in Sites : Idle(s) => Tidy(s, site[s])
  /\ \A r \in Requests : Running(r) /\ ~dirty[r] => Tidy(Site(r), origin[r])
VHostInv == TraceInv /\ (\A r \in Requests : FreshRead(r)) /\ (Undamaged => Tidied)

(***************************************************************************)
(* A creation that has not inserted its row has room for it in the quota,  *)
(* and so has a deletion that may put its row back.                        *)
(***************************************************************************)
HasRoom(r) ==
  /\ Kind(r) = "create" /\ pc[r] = "ready" => Cardinality(Rows) < Quota
  /\ Kind(r) \in {"create", "delete"} /\ Running(r) /\ Here(r).row = NoRow => Cardinality(Rows) < Quota
QuotaInv ==
  /\ Typed /\ \A r \in Requests : FreshRead(r)
  /\ Quota > 0 /\ stale = {} => Cardinality(Rows) <= Quota /\ \A r \in Requests : HasRoom(r)

-----------------------------------------------------------------------------
(* What a request asks for.                                                *)
LEMMA Wanted ==
  ASSUME TypeOK, NEW r \in Requests
  PROVE  /\ Kind(r) \in Kinds /\ Site(r) \in Sites /\ want[r].alias \in Aliases
         /\ want[r].conf \in Confs /\ want[r].type \in Types
         /\ Kind(r) \in {"create", "delete"} \cup Edits \cup Switches
<1>1. want[r] \in Request
  BY SMT DEF TypeOK
<1> QED
  BY <1>1, SMT DEF Request, Kind, Site, Kinds, Edits, AliasKinds, Switches

(* Parts of a plan joined.                                                 *)
LEMMA Joined ==
  ASSUME NEW a, NEW b, NEW c
  PROVE  <<a>> \o <<b>> = <<a, b>> /\ <<a>> \o <<b>> \o <<c>> = <<a, b, c>>
<1>1. ASSUME NEW s, s = <<a>> \o <<b>> PROVE s = <<a, b>>
  <2>1. Len(s) = 2 /\ s[1] = a /\ s[2] = b /\ s \in Seq({a, b})
    BY <1>1, SMT
  <2>2. s = [i \in 1..2 |-> s[i]]
    BY <2>1, SMT
  <2> QED
    BY <2>1, <2>2, SMT
<1>2. ASSUME NEW s, s = <<a, b>> \o <<c>> PROVE s = <<a, b, c>>
  <2>1. Len(s) = 3 /\ s[1] = a /\ s[2] = b /\ s[3] = c /\ s \in Seq({a, b, c})
    BY <1>2, SMT
  <2>2. s = [i \in 1..3 |-> s[i]]
    BY <2>1, SMT
  <2> QED
    BY <2>1, <2>2, SMT
<1>3. <<a>> \o <<b>> = <<a, b>>
  BY <1>1
<1> QED
  BY <1>2, <1>3, Zenon

LEMMA JoinedPairs ==
  ASSUME NEW a, NEW b, NEW c, NEW d
  PROVE  <<a, b>> \o <<c, d>> = <<a, b, c, d>>
<1>1. ASSUME NEW s, s = <<a, b>> \o <<c, d>> PROVE s = <<a, b, c, d>>
  <2>1. Len(s) = 4 /\ s[1] = a /\ s[2] = b /\ s[3] = c /\ s[4] = d /\ s \in Seq({a, b, c, d})
    BY <1>1, SMT
  <2>2. s = [i \in 1..4 |-> s[i]]
    BY <2>1, SMT
  <2> QED
    BY <2>1, <2>2, SMT
<1> QED
  BY <1>1, Zenon

(***************************************************************************)
(* Where each step of a plan stands: Pos is the inverse of Steps, for each *)
(* kind of request.                                                        *)
(***************************************************************************)
LEMMA StepPlaces ==
  ASSUME TypeOK, NEW r \in Requests
  PROVE  /\ Len(Steps(r)) = Last(r) /\ Last(r) \in 2..5
         /\ \A k \in 1..Last(r) : Steps(r)[k] \in StepNames /\ Pos(r, Steps(r)[k]) = k
         /\ \A s \in StepNames : Pos(r, s) \in 0..Last(r)
         /\ \A s \in StepNames : Pos(r, s) > 0 => Steps(r)[Pos(r, s)] = s
<1> USE DEF StepNames, Pos, CreatePos, DeletePos, ChangePos, Last, Root, Pool, Managed, Dir, Edits, AliasKinds,
            Switches
<1>1. CASE Kind(r) = "create"
  <2> DEFINE type == want[r].type
  <2>1. Steps(r) = (IF RootOf(type) THEN <<"tree">> ELSE <<>>) \o <<"logs">>
                   \o (IF type = "php" THEN <<"pool">> ELSE <<>>) \o <<"install", "insert">>
    BY <1>1, Zenon DEF Steps, Kind
  <2>2. CASE type = "static"
    <3>1. Steps(r) = <<"tree">> \o <<"logs">> \o <<>> \o <<"install", "insert">>
      BY <2>1, <2>2, Zenon DEF RootOf
    <3>2. /\ Len(Steps(r)) = 4
          /\ Steps(r)[1] = "tree" /\ Steps(r)[2] = "logs" /\ Steps(r)[3] = "install" /\ Steps(r)[4] = "insert"
      BY <3>1, SMT
    <3> QED
      BY <1>1, <2>2, <3>2, SMT DEF RootOf
  <2>3. CASE type = "php"
    <3>1. Steps(r) = <<"tree">> \o <<"logs">> \o <<"pool">> \o <<"install", "insert">>
      BY <2>1, <2>3, Zenon DEF RootOf
    <3>4. <<"tree">> \o <<"logs">> \o <<"pool">> = <<"tree", "logs", "pool">>
      BY Joined
    <3>3. Steps(r) = <<"tree", "logs", "pool">> \o <<"install", "insert">>
      BY <3>1, <3>4, Zenon
    <3>2. /\ Len(Steps(r)) = 5
          /\ Steps(r)[1] = "tree" /\ Steps(r)[2] = "logs" /\ Steps(r)[3] = "pool"
          /\ Steps(r)[4] = "install" /\ Steps(r)[5] = "insert"
      BY <3>3, SMT
    <3> QED
      BY <1>1, <2>3, <3>2, SMT DEF RootOf
  <2>4. CASE type = "proxy"
    <3>1. Steps(r) = <<>> \o <<"logs">> \o <<>> \o <<"install", "insert">>
      BY <2>1, <2>4, Zenon DEF RootOf
    <3>2. Len(Steps(r)) = 3 /\ Steps(r)[1] = "logs" /\ Steps(r)[2] = "install" /\ Steps(r)[3] = "insert"
      BY <3>1, SMT
    <3> QED
      BY <1>1, <2>4, <3>2, SMT DEF RootOf
  <2> QED
    BY <2>2, <2>3, <2>4, Wanted, Zenon DEF Types
<1>2. CASE Kind(r) = "delete"
  <2>1. Steps(r) = <<"remove">> \o (IF snap[r].type = "php" THEN <<"removePool">> ELSE <<>>)
                   \o (IF cert[r] /\ Site(r) \notin Adopted THEN <<"deleteLineage">> ELSE <<>>)
                   \o (IF cert[r] THEN <<"deleteCertificate">> ELSE <<>>) \o <<"deleteRow">>
    BY <1>2, Zenon DEF Steps, Kind, Site
  <2>2. CASE snap[r].type = "php" /\ cert[r] /\ Site(r) \notin Adopted
    <3>1. Steps(r) = <<"remove">> \o <<"removePool">> \o <<"deleteLineage">> \o <<"deleteCertificate">> \o <<"deleteRow">>
      BY <2>1, <2>2, Zenon
    <3>2. <<"remove">> \o <<"removePool">> \o <<"deleteLineage">> = <<"remove", "removePool", "deleteLineage">>
      BY Joined
    <3>3. Steps(r) = <<"remove", "removePool", "deleteLineage">> \o <<"deleteCertificate">> \o <<"deleteRow">>
      BY <3>1, <3>2, Zenon
    <3>4. /\ Len(Steps(r)) = 5
          /\ Steps(r)[1] = "remove" /\ Steps(r)[2] = "removePool" /\ Steps(r)[3] = "deleteLineage"
          /\ Steps(r)[4] = "deleteCertificate" /\ Steps(r)[5] = "deleteRow"
      BY <3>3, SMT
    <3> QED
      BY <1>2, <2>2, <3>4, SMT
  <2>3. CASE snap[r].type = "php" /\ cert[r] /\ Site(r) \in Adopted
    <3>1. Steps(r) = <<"remove">> \o <<"removePool">> \o <<>> \o <<"deleteCertificate">> \o <<"deleteRow">>
      BY <2>1, <2>3, Zenon
    <3>2. <<"remove">> \o <<"removePool">> = <<"remove", "removePool">>
      BY Joined
    <3>3. Steps(r) = <<"remove", "removePool">> \o <<>> \o <<"deleteCertificate">> \o <<"deleteRow">>
      BY <3>1, <3>2, Zenon
    <3>4. /\ Len(Steps(r)) = 4
          /\ Steps(r)[1] = "remove" /\ Steps(r)[2] = "removePool"
          /\ Steps(r)[3] = "deleteCertificate" /\ Steps(r)[4] = "deleteRow"
      BY <3>3, SMT
    <3> QED
      BY <1>2, <2>3, <3>4, SMT
  <2>4. CASE snap[r].type = "php" /\ ~cert[r]
    <3>1. Steps(r) = <<"remove">> \o <<"removePool">> \o <<>> \o <<>> \o <<"deleteRow">>
      BY <2>1, <2>4, Zenon
    <3>2. <<"remove">> \o <<"removePool">> = <<"remove", "removePool">>
      BY Joined
    <3>3. Steps(r) = <<"remove", "removePool">> \o <<>> \o <<>> \o <<"deleteRow">>
      BY <3>1, <3>2, Zenon
    <3>4. Len(Steps(r)) = 3 /\ Steps(r)[1] = "remove" /\ Steps(r)[2] = "removePool" /\ Steps(r)[3] = "deleteRow"
      BY <3>3, SMT
    <3> QED
      BY <1>2, <2>4, <3>4, SMT
  <2>5. CASE snap[r].type # "php" /\ cert[r] /\ Site(r) \notin Adopted
    <3>1. Steps(r) = <<"remove">> \o <<>> \o <<"deleteLineage">> \o <<"deleteCertificate">> \o <<"deleteRow">>
      BY <2>1, <2>5, Zenon
    <3>4. /\ Len(Steps(r)) = 4
          /\ Steps(r)[1] = "remove" /\ Steps(r)[2] = "deleteLineage"
          /\ Steps(r)[3] = "deleteCertificate" /\ Steps(r)[4] = "deleteRow"
      BY <3>1, SMT
    <3> QED
      BY <1>2, <2>5, <3>4, SMT
  <2>6. CASE snap[r].type # "php" /\ cert[r] /\ Site(r) \in Adopted
    <3>1. Steps(r) = <<"remove">> \o <<>> \o <<>> \o <<"deleteCertificate">> \o <<"deleteRow">>
      BY <2>1, <2>6, Zenon
    <3>4. /\ Len(Steps(r)) = 3
          /\ Steps(r)[1] = "remove" /\ Steps(r)[2] = "deleteCertificate" /\ Steps(r)[3] = "deleteRow"
      BY <3>1, SMT
    <3> QED
      BY <1>2, <2>6, <3>4, SMT
  <2>7. CASE snap[r].type # "php" /\ ~cert[r]
    <3>1. Steps(r) = <<"remove">> \o <<>> \o <<>> \o <<>> \o <<"deleteRow">>
      BY <2>1, <2>7, Zenon
    <3>2. Len(Steps(r)) = 2 /\ Steps(r)[1] = "remove" /\ Steps(r)[2] = "deleteRow"
      BY <3>1, SMT
    <3> QED
      BY <1>2, <2>7, <3>2, SMT
  <2> QED
    BY <2>2, <2>3, <2>4, <2>5, <2>6, <2>7
<1>3. CASE Kind(r) \in Edits
  <2>1. CASE Dir(r) = 0
    <3>0. Kind(r) \in AliasKinds \/ (Kind(r) = "configure" /\ want[r].conf \notin LogConfs)
      BY <1>3, <2>1, SMT
    <3>1. Steps(r) = <<"write", "update">> \/ Steps(r) = <<>> \o <<"write", "update">>
      BY <3>0, Zenon DEF Steps, Kind
    <3>2. Len(Steps(r)) = 2 /\ Steps(r)[1] = "write" /\ Steps(r)[2] = "update"
      BY <3>1, SMT
    <3> QED
      BY <1>3, <2>1, <3>2, SMT
  <2>2. CASE Kind(r) = "configure" /\ want[r].conf \in LogConfs
    <3>1. Steps(r) = <<"logDirectory">> \o <<"write", "update">>
      BY <2>2, Zenon DEF Steps, Kind
    <3>2. /\ Len(Steps(r)) = 3
          /\ Steps(r)[1] = "logDirectory" /\ Steps(r)[2] = "write" /\ Steps(r)[3] = "update"
      BY <3>1, SMT
    <3> QED
      BY <1>3, <2>2, <3>2, SMT
  <2>3. Dir(r) = 0 \/ (Kind(r) = "configure" /\ want[r].conf \in LogConfs)
    OBVIOUS
  <2> QED
    BY <2>1, <2>2, <2>3, Zenon
<1>4. CASE Kind(r) \in Switches
  <2>1. Steps(r) = <<"switch", "update">>
    BY <1>4, Zenon DEF Steps, Kind
  <2> QED
    BY <1>4, <2>1, SMT
<1> HIDE DEF StepNames, Pos, Last, Edits, Switches
<1> QED
  BY <1>1, <1>2, <1>3, <1>4, Wanted, Zenon

(* Two steps of a plan do not share a place, and each has its kind.        *)
LEMMA Apart ==
  ASSUME TypeOK, NEW r \in Requests
  PROVE  /\ \A s, t \in StepNames : Pos(r, s) > 0 /\ Pos(r, s) = Pos(r, t) => s = t
         /\ \A s \in StepNames : Pos(r, s) > 0 =>
              /\ Kind(r) = "create" => s \in {"tree", "logs", "pool", "install", "insert"}
              /\ Kind(r) = "delete" =>
                   s \in {"remove", "removePool", "deleteLineage", "deleteCertificate", "deleteRow"}
              /\ Kind(r) \in Edits => s \in {"logDirectory", "write", "update"}
              /\ Kind(r) \in Switches => s \in {"switch", "update"}
<1>1. \A s, t \in StepNames : Pos(r, s) > 0 /\ Pos(r, s) = Pos(r, t) => s = t
  BY StepPlaces, Zenon
<1>2. ASSUME NEW s \in StepNames, Pos(r, s) > 0, Kind(r) = "create"
      PROVE  s \in {"tree", "logs", "pool", "install", "insert"}
  BY <1>2, SMT DEF StepNames, Pos, CreatePos
<1>3. ASSUME NEW s \in StepNames, Pos(r, s) > 0, Kind(r) = "delete"
      PROVE  s \in {"remove", "removePool", "deleteLineage", "deleteCertificate", "deleteRow"}
  BY <1>3, SMT DEF StepNames, Pos, DeletePos
<1>4. ASSUME NEW s \in StepNames, Pos(r, s) > 0, Kind(r) \in Edits
      PROVE  s \in {"logDirectory", "write", "update"}
  BY <1>4, SMT DEF StepNames, Pos, ChangePos, Edits, AliasKinds, Switches
<1>5. ASSUME NEW s \in StepNames, Pos(r, s) > 0, Kind(r) \in Switches
      PROVE  s \in {"switch", "update"}
  BY <1>5, SMT DEF StepNames, Pos, ChangePos, Dir, Edits, AliasKinds, Switches
<1> QED
  BY <1>1, <1>2, <1>3, <1>4, <1>5, Zenon

(***************************************************************************)
(* What is asked for and what was read fix the plan.                       *)
(***************************************************************************)
SamePlan(r) == Kind(r) = "delete" => snap'[r] = snap[r] /\ cert'[r] = cert[r]

LEMMA PlanStays ==
  ASSUME want' = want, NEW r, SamePlan(r)
  PROVE  /\ Kind(r)' = Kind(r) /\ Site(r)' = Site(r) /\ Last(r)' = Last(r)
         /\ \A s : Pos(r, s)' = Pos(r, s)
<1>1. Kind(r)' = Kind(r) /\ Site(r)' = Site(r) /\ Root(r)' = Root(r) /\ Dir(r)' = Dir(r)
  BY DEF Kind, Site, Root, Dir
<1>2. CASE Kind(r) = "delete"
  <2>1. Last(r)' = Last(r)
    BY <1>1, <1>2, Zenon DEF SamePlan, Last, Pool, Managed
  <2> QED
    BY <1>1, <1>2, <2>1, Zenon DEF SamePlan, Pos, DeletePos, Pool, Managed
<1>3. CASE Kind(r) # "delete"
  <2>1. Last(r)' = Last(r)
    BY <1>1, <1>3, Zenon DEF Last, Pool
  <2> QED
    BY <1>1, <1>3, <2>1, Zenon DEF Pos, CreatePos, ChangePos
<1> QED
  BY <1>2, <1>3

(***************************************************************************)
(* The control of a plan: every operation stays within its plan, with the  *)
(* lock, and leaves the other requests where they are.                     *)
(***************************************************************************)
OthersStay(r) ==
  \A q \in Requests \ {r} :
    /\ pc'[q] = pc[q] /\ at'[q] = at[q] /\ dirty'[q] = dirty[q] /\ snap'[q] = snap[q]
    /\ cert'[q] = cert[q] /\ saved'[q] = saved[q] /\ origin'[q] = origin[q]

Control == /\ lock \in Requests \cup {NoRequest} /\ pc \in [Requests -> PCs]
           /\ at \in [Requests -> 0..7] /\ dirty \in [Requests -> BOOLEAN]

LEMMA ControlMoves ==
  ASSUME Typed, NEW r \in Requests, Operation(r)
  PROVE  Control' /\ want' = want /\ OthersStay(r) /\ \A q \in Requests : Placed(q)'
<1>1. /\ Control /\ snap \in [Requests -> Row \cup {NoRow}] /\ cert \in [Requests -> BOOLEAN]
      /\ saved \in [Requests -> SiteState] /\ origin \in [Requests -> SiteState]
      /\ \A q \in Requests : Placed(q) /\ Last(q) \in 2..5 /\ Len(Steps(q)) = Last(q)
      /\ NoRequest \notin Requests
  BY StepPlaces, NamesAssumption, Zenon DEF Typed, TypeOK, Control
<1>2. want' = want /\ OthersStay(r)
  <2> USE <1>1 DEF OthersStay, Control, Goto
  <2>1. CASE Prepare(r)
    BY <2>1, Zenon DEF Prepare
  <2>2. CASE PrepareRefused(r)
    BY <2>2, Zenon DEF PrepareRefused
  <2>3. CASE Start(r)
    BY <2>3, Zenon DEF Start
  <2>4. CASE Do(r)
    BY <2>4, SMT DEF Do, Put, Outdate
  <2>5. CASE Fail(r)
    BY <2>5, SMT DEF Fail
  <2>6. CASE Undo(r)
    BY <2>6, SMT DEF Undo
  <2>7. CASE UndoFails(r)
    BY <2>7, SMT DEF UndoFails
  <2>8. CASE Return(r)
    BY <2>8, SMT DEF Return
  <2> QED
    BY <2>1, <2>2, <2>3, <2>4, <2>5, <2>6, <2>7, <2>8, Zenon DEF Operation
<1>3. ASSUME NEW q \in Requests, SamePlan(q) PROVE Last(q)' = Last(q)
  BY <1>2, <1>3, PlanStays
<1>4. Control' /\ Placed(r)' /\ lock' \in {lock, r, NoRequest} /\ (lock' # lock => lock \in {r, NoRequest})
  <2> USE <1>1 DEF Control, Placed, Running, Goto
  <2>1. CASE Prepare(r)
    <3>1. pc[r] = "new" /\ pc' = [pc EXCEPT ![r] = "ready"] /\ UNCHANGED <<lock, at, dirty>>
      BY <2>1, Zenon DEF Prepare
    <3> QED
      BY <3>1, SMT DEF PCs, Verdicts
  <2>2. CASE PrepareRefused(r)
    BY <2>2, SMT DEF PrepareRefused, PCs, Verdicts
  <2>3. CASE Start(r)
    <3>1. Last(r)' = Last(r)
      BY <2>3, <1>3, Zenon DEF Start, SamePlan
    <3> QED
      BY <2>3, <3>1, SMT DEF Start, PCs, Verdicts
  <2>4. CASE Do(r)
    <3>1. SamePlan(r)
      <4>1. Kind(r) = "delete" => Steps(r)[at[r]] # "insert"
        BY <2>4, StepPlaces, Apart, SMTT(30) DEF Do, Typed, StepNames
      <4> QED
        BY <2>4, <4>1, Zenon DEF Do, SamePlan
    <3>2. Last(r)' = Last(r)
      BY <1>3, <3>1
    <3> QED
      BY <2>4, <3>2, SMTT(30) DEF Do, PCs, Verdicts
  <2>5. CASE Fail(r)
    <3>1. Last(r)' = Last(r)
      BY <2>5, <1>3, Zenon DEF Fail, SamePlan
    <3> QED
      BY <2>5, <3>1, SMT DEF Fail, PCs, Verdicts
  <2>6. CASE Undo(r)
    <3>1. Last(r)' = Last(r)
      BY <2>6, <1>3, Zenon DEF Undo, SamePlan
    <3> QED
      BY <2>6, <3>1, SMT DEF Undo, PCs, Verdicts
  <2>7. CASE UndoFails(r)
    <3>1. Last(r)' = Last(r)
      BY <2>7, <1>3, Zenon DEF UndoFails, SamePlan
    <3> QED
      BY <2>7, <3>1, SMT DEF UndoFails, PCs, Verdicts
  <2>8. CASE Return(r)
    BY <2>8, SMT DEF Return, PCs, Verdicts
  <2> QED
    BY <2>1, <2>2, <2>3, <2>4, <2>5, <2>6, <2>7, <2>8, Zenon DEF Operation
<1>5. ASSUME NEW q \in Requests \ {r} PROVE Placed(q)'
  <2>1. Last(q)' = Last(q)
    BY <1>2, <1>3, Zenon DEF OthersStay, SamePlan
  <2>2. lock' = q <=> lock = q
    BY <1>1, <1>4, SMT
  <2> QED
    BY <1>1, <1>2, <2>1, <2>2, Zenon DEF OthersStay, Placed, Running
<1> QED
  BY <1>2, <1>4, <1>5

(* Who works has the lock.                                                 *)
LEMMA Alone ==
  ASSUME Typed, NEW r \in Requests, Running(r)
  PROVE  \A q \in Requests \ {r} : ~Running(q)
<1> QED
  BY Zenon DEF Typed, Placed

-----------------------------------------------------------------------------
(***************************************************************************)
(* The next step of a plan is one of its steps, in its place.              *)
(***************************************************************************)
LEMMA StepIs ==
  ASSUME Typed, NEW r \in Requests, at[r] \in 1..Last(r)
  PROVE  Steps(r)[at[r]] \in StepNames /\ Pos(r, Steps(r)[at[r]]) = at[r]
<1> QED
  BY StepPlaces, Zenon DEF Typed

(***************************************************************************)
(* The last step of a creation inserts, that of a deletion deletes the row.*)
(***************************************************************************)
LEMMA LastStep ==
  ASSUME TypeOK, NEW r \in Requests
  PROVE  /\ \A s \in StepNames : s = "insert" /\ Pos(r, s) > 0 => Kind(r) = "create" /\ Pos(r, s) = Last(r)
         /\ \A s \in StepNames : s = "deleteRow" /\ Pos(r, s) > 0 => Kind(r) = "delete" /\ Pos(r, s) = Last(r)
<1>1. Kind(r) \in {"create", "delete"} \cup Edits \cup Switches
  BY Wanted
<1> QED
  BY <1>1, SMT DEF Pos, CreatePos, DeletePos, ChangePos

-----------------------------------------------------------------------------
(* What the step s of r makes of its site x, in the way forward ...        *)
After(r, s, x, y) ==
  /\ s \notin RowSteps => y.row = x.row
  /\ s \notin {"install", "remove", "write"} => y.file = x.file
  /\ s \notin {"install", "remove", "switch"} => y.link = x.link
  /\ s \notin {"pool", "removePool"} => y.pool = x.pool
  /\ s # "deleteLineage" => y.lineage = x.lineage
  /\ s # "deleteCertificate" => y.certificate = x.certificate
  /\ s = "install" => y.file = Blank /\ y.link = TRUE
  /\ s = "insert" => y.row = NewRow(r)
  /\ s = "remove" => y.file = NoFile /\ y.link = FALSE
  /\ s = "deleteRow" => y.row = NoRow
  /\ s = "write" => y.file = Rendered(Intended(r))
  /\ s = "switch" => y.link = ~x.link
  /\ s = "update" => y.row = Updated(r, x.row, Intended(r))

(* ... and what its undo does.                                             *)
Back(r, s, x, y) ==
  /\ s \notin RowSteps => y.row = x.row
  /\ s \notin ApacheSteps => y.file = x.file /\ y.link = x.link
  /\ s # "pool" => y.pool = x.pool
  /\ y.lineage = x.lineage /\ y.certificate = x.certificate
  /\ s = "pool" => y.pool = saved[r].pool
  /\ s \in ApacheSteps => y.file = saved[r].file
  /\ s \in ApacheSteps => y.link = IF s = "write" THEN x.link ELSE saved[r].link
  /\ s = "insert" => y.row = NoRow
  /\ s = "deleteRow" => y.row = Reinserted(r)
  /\ s = "update" => y.row = Reverted(r, x.row)

(* One column of a row written.                                            *)
LEMMA RowWritten ==
  ASSUME NEW row \in Row, NEW v
  PROVE  /\ v \in SUBSET Aliases => [row EXCEPT !.aliases = v] \in Row
         /\ v \in Confs => [row EXCEPT !.conf = v] \in Row
         /\ v \in BOOLEAN => [row EXCEPT !.enabled = v] \in Row
         /\ v \in 1..MaxId => [row EXCEPT !.id = v, !.aliases = {}] \in Row
         /\ row.aliases \in SUBSET Aliases /\ row.conf \in Confs /\ row.enabled \in BOOLEAN
         /\ row.tls \in BOOLEAN /\ row.type \in Types
<1> QED
  BY Zenon DEF Row

(* What an edit intends and writes is a row.                               *)
LEMMA Intends ==
  ASSUME TypeOK, NEW r \in Requests, Kind(r) \in Edits \cup Switches, snap[r] \in Row
  PROVE  /\ Intended(r) \in Row
         /\ \A row \in Row : Updated(r, row, Intended(r)) \in Row /\ Reverted(r, row) \in Row
<1>1. want[r].alias \in Aliases /\ want[r].conf \in Confs
  BY Wanted
<1>2. \A row \in Row, A \in SUBSET Aliases : [row EXCEPT !.aliases = A] \in Row
  BY RowWritten
<1>3. \A row \in Row : row.aliases \cup {want[r].alias} \in SUBSET Aliases /\ row.aliases \ {want[r].alias} \in SUBSET Aliases
  <2>1. \A A \in SUBSET Aliases : A \cup {want[r].alias} \in SUBSET Aliases /\ A \ {want[r].alias} \in SUBSET Aliases
    BY <1>1, SMT
  <2> QED
    BY <2>1, RowWritten, Zenon

<1>4. CASE Kind(r) = "addAlias"
  <2>1. Intended(r) = [snap[r] EXCEPT !.aliases = @ \cup {want[r].alias}]
    BY <1>4, Zenon DEF Intended, Kind
  <2>2. \A row : Updated(r, row, Intended(r)) = [row EXCEPT !.aliases = @ \cup {want[r].alias}] /\ Reverted(r, row) = [row EXCEPT !.aliases = @ \ {want[r].alias}]
    BY <1>4, Zenon DEF Updated, Reverted, Kind
  <2>3. Intended(r) \in Row
    <3>1. snap[r].aliases \cup {want[r].alias} \in SUBSET Aliases /\ snap[r].aliases \ {want[r].alias} \in SUBSET Aliases
      BY <1>3
    <3> QED
      BY <1>1, <2>1, <3>1, Zenon DEF Row
  <2>4. ASSUME NEW row \in Row PROVE Updated(r, row, Intended(r)) \in Row /\ Reverted(r, row) \in Row
    <3>1. row.aliases \cup {want[r].alias} \in SUBSET Aliases /\ row.aliases \ {want[r].alias} \in SUBSET Aliases
      BY <1>3
    <3>2. Intended(r).conf \in Confs /\ snap[r].conf \in Confs
      BY <2>3, RowWritten
    <3>3. [row EXCEPT !.aliases = @ \cup {want[r].alias}] \in Row
      BY <3>1, Zenon DEF Row
    <3>4. [row EXCEPT !.aliases = @ \ {want[r].alias}] \in Row
      BY <3>1, Zenon DEF Row
    <3> QED
      BY <2>2, <3>3, <3>4, Zenon
  <2> QED
    BY <2>3, <2>4

<1>5. CASE Kind(r) = "removeAlias"
  <2>1. Intended(r) = [snap[r] EXCEPT !.aliases = @ \ {want[r].alias}]
    BY <1>5, Zenon DEF Intended, Kind
  <2>2. \A row : Updated(r, row, Intended(r)) = [row EXCEPT !.aliases = @ \ {want[r].alias}] /\ Reverted(r, row) = [row EXCEPT !.aliases = @ \cup {want[r].alias}]
    BY <1>5, Zenon DEF Updated, Reverted, Kind
  <2>3. Intended(r) \in Row
    <3>1. snap[r].aliases \cup {want[r].alias} \in SUBSET Aliases /\ snap[r].aliases \ {want[r].alias} \in SUBSET Aliases
      BY <1>3
    <3> QED
      BY <1>1, <2>1, <3>1, Zenon DEF Row
  <2>4. ASSUME NEW row \in Row PROVE Updated(r, row, Intended(r)) \in Row /\ Reverted(r, row) \in Row
    <3>1. row.aliases \cup {want[r].alias} \in SUBSET Aliases /\ row.aliases \ {want[r].alias} \in SUBSET Aliases
      BY <1>3
    <3>2. Intended(r).conf \in Confs /\ snap[r].conf \in Confs
      BY <2>3, RowWritten
    <3>3. [row EXCEPT !.aliases = @ \ {want[r].alias}] \in Row
      BY <3>1, Zenon DEF Row
    <3>4. [row EXCEPT !.aliases = @ \cup {want[r].alias}] \in Row
      BY <3>1, Zenon DEF Row
    <3> QED
      BY <2>2, <3>3, <3>4, Zenon
  <2> QED
    BY <2>3, <2>4

<1>6. CASE Kind(r) = "configure"
  <2>1. Intended(r) = [snap[r] EXCEPT !.conf = want[r].conf]
    BY <1>6, Zenon DEF Intended, Kind
  <2>2. \A row : Updated(r, row, Intended(r)) = [row EXCEPT !.conf = Intended(r).conf] /\ Reverted(r, row) = [row EXCEPT !.conf = snap[r].conf]
    BY <1>6, Zenon DEF Updated, Reverted, Kind
  <2>3. Intended(r) \in Row
    <3>1. snap[r].aliases \cup {want[r].alias} \in SUBSET Aliases /\ snap[r].aliases \ {want[r].alias} \in SUBSET Aliases
      BY <1>3
    <3> QED
      BY <1>1, <2>1, <3>1, Zenon DEF Row
  <2>4. ASSUME NEW row \in Row PROVE Updated(r, row, Intended(r)) \in Row /\ Reverted(r, row) \in Row
    <3>1. row.aliases \cup {want[r].alias} \in SUBSET Aliases /\ row.aliases \ {want[r].alias} \in SUBSET Aliases
      BY <1>3
    <3>2. Intended(r).conf \in Confs /\ snap[r].conf \in Confs
      BY <2>3, RowWritten
    <3>3. [row EXCEPT !.conf = Intended(r).conf] \in Row
      BY <3>2, Zenon DEF Row
    <3>4. [row EXCEPT !.conf = snap[r].conf] \in Row
      BY <3>2, Zenon DEF Row
    <3> QED
      BY <2>2, <3>3, <3>4, Zenon
  <2> QED
    BY <2>3, <2>4

<1>7. CASE Kind(r) \in Switches
  <2>1. Intended(r) = [snap[r] EXCEPT !.enabled = (Kind(r) = "enable")]
    BY <1>7, Zenon DEF Intended, Kind, Switches
  <2>2. \A row : /\ Updated(r, row, Intended(r)) = [row EXCEPT !.enabled = Intended(r).enabled]
                 /\ Reverted(r, row) = [row EXCEPT !.enabled = snap[r].enabled]
    BY <1>7, Zenon DEF Updated, Reverted, Kind, Switches
  <2>3. (Kind(r) = "enable") \in BOOLEAN
    OBVIOUS
  <2>4. Intended(r) \in Row
    BY <2>1, <2>3, Zenon DEF Row
  <2>5. ASSUME NEW row \in Row PROVE Updated(r, row, Intended(r)) \in Row /\ Reverted(r, row) \in Row
    <3>1. Intended(r).enabled \in BOOLEAN /\ snap[r].enabled \in BOOLEAN
      BY <2>4, RowWritten
    <3>2. /\ [row EXCEPT !.enabled = Intended(r).enabled] \in Row
          /\ [row EXCEPT !.enabled = snap[r].enabled] \in Row
      BY <3>1, Zenon DEF Row
    <3> QED
      BY <2>2, <3>2, Zenon
  <2> QED
    BY <2>4, <2>5
<1> QED
  BY <1>4, <1>5, <1>6, <1>7, Zenon DEF Edits, AliasKinds

(* The vhost of a row is a file; that of a new site is always the same.    *)
LEMMA Renders ==
  /\ \A row \in Row : Rendered(row) \in File
  /\ Blank \in File /\ \A r : Rendered(NewRow(r)) = Blank
<1>1. ASSUME NEW row \in Row PROVE Rendered(row) \in File
  BY SMT DEF Row, File, Rendered
<1>2. Blank \in File
  BY NamesAssumption, SMT DEF Blank, File
<1>3. \A r : Rendered(NewRow(r)) = Blank
  BY SMT DEF Rendered, NewRow, Blank
<1> QED
  BY <1>1, <1>2, <1>3

-----------------------------------------------------------------------------
(***************************************************************************)
(* Each step does what After says, and leaves a site.                      *)
(***************************************************************************)
LEMMA DoneEffect ==
  ASSUME TypeOK, NEW r \in Requests, NEW s \in StepNames, Pos(r, s) > 0, NEW x \in SiteState, NEW y, y = Done(r, s, x),
         Kind(r) \in Edits \cup Switches => snap[r] \in Row,
         s = "insert" => nextId \in 1..MaxId, s = "update" => x.row \in Row
  PROVE  y \in SiteState /\ After(r, s, x, y)
<1>1. \A t \in {"write", "switch", "update"} : s = t => Kind(r) \in Edits \cup Switches
  BY Apart, Wanted, SMT
<1>2. CASE s = "tree"
  <2>1. y = [x EXCEPT !.tree = IF @ = "none" THEN "empty" ELSE @]
    BY <1>2, Zenon DEF Done
  <2>2. (IF x.tree = "none" THEN "empty" ELSE x.tree) \in {"none", "empty", "content"}
    BY <1>2, SMT DEF SiteState
  <2>3. y \in SiteState
    BY <2>1, <2>2, Zenon DEF SiteState
  <2>4. After(r, s, x, y)
    <3> HIDE DEF Blank
    <3> QED
      BY <1>2, <2>1, SMT DEF After, SiteState, RowSteps
  <2> QED
    BY <2>3, <2>4
<1>3. CASE s = "logs"
  <2>1. y = [x EXCEPT !.logs = "fresh"]
    BY <1>3, Zenon DEF Done
  <2>3. y \in SiteState
    BY <2>1, Zenon DEF SiteState
  <2>4. After(r, s, x, y)
    <3> HIDE DEF Blank
    <3> QED
      BY <1>3, <2>1, SMT DEF After, SiteState, RowSteps
  <2> QED
    BY <2>3, <2>4
<1>4. CASE s = "pool"
  <2>1. y = [x EXCEPT !.pool = TRUE]
    BY <1>4, Zenon DEF Done
  <2>3. y \in SiteState
    BY <2>1, Zenon DEF SiteState
  <2>4. After(r, s, x, y)
    <3> HIDE DEF Blank
    <3> QED
      BY <1>4, <2>1, SMT DEF After, SiteState, RowSteps
  <2> QED
    BY <2>3, <2>4
<1>5. CASE s = "install"
  <2>1. y = [x EXCEPT !.file = Blank, !.link = TRUE]
    BY <1>5, Renders, Zenon DEF Done
  <2>2. Blank \in File
    BY <1>5, Renders
  <2>3. y \in SiteState
    BY <2>1, <2>2, Zenon DEF SiteState
  <2>4. After(r, s, x, y)
    <3>1. /\ y.row = x.row /\ y.pool = x.pool /\ y.lineage = x.lineage /\ y.certificate = x.certificate
          /\ y.file = Blank
      BY <2>1, SMT DEF SiteState
    <3>2. y.link = TRUE
      BY <2>1, Zenon DEF SiteState
    <3> QED
      BY <1>5, <3>1, <3>2, Zenon DEF After, RowSteps
  <2> QED
    BY <2>3, <2>4
<1>6. CASE s = "insert"
  <2>1. y = [x EXCEPT !.row = NewRow(r)]
    BY <1>6, Zenon DEF Done
  <2>2. NewRow(r) \in Row
    BY <1>6, Wanted, NamesAssumption, SMT DEF NewRow, Row
  <2>3. y \in SiteState
    BY <2>1, <2>2, Zenon DEF SiteState
  <2>4. After(r, s, x, y)
    <3> HIDE DEF Blank
    <3> QED
      BY <1>6, <2>1, SMT DEF After, SiteState, RowSteps
  <2> QED
    BY <2>3, <2>4
<1>7. CASE s = "remove"
  <2>1. y = [x EXCEPT !.file = NoFile, !.link = FALSE]
    BY <1>7, Zenon DEF Done
  <2>3. y \in SiteState
    BY <2>1, Zenon DEF SiteState
  <2>4. After(r, s, x, y)
    <3>1. /\ y.row = x.row /\ y.pool = x.pool /\ y.lineage = x.lineage /\ y.certificate = x.certificate
          /\ y.file = NoFile
      BY <2>1, SMT DEF SiteState
    <3>2. y.link = FALSE
      BY <2>1, Zenon DEF SiteState
    <3> QED
      BY <1>7, <3>1, <3>2, Zenon DEF After, RowSteps
  <2> QED
    BY <2>3, <2>4
<1>8. CASE s = "removePool"
  <2>1. y = [x EXCEPT !.pool = FALSE]
    BY <1>8, Zenon DEF Done
  <2>3. y \in SiteState
    BY <2>1, Zenon DEF SiteState
  <2>4. After(r, s, x, y)
    <3> HIDE DEF Blank
    <3> QED
      BY <1>8, <2>1, SMT DEF After, SiteState, RowSteps
  <2> QED
    BY <2>3, <2>4
<1>9. CASE s = "deleteLineage"
  <2>1. y = [x EXCEPT !.lineage = FALSE]
    BY <1>9, Zenon DEF Done
  <2>3. y \in SiteState
    BY <2>1, Zenon DEF SiteState
  <2>4. After(r, s, x, y)
    <3> HIDE DEF Blank
    <3> QED
      BY <1>9, <2>1, SMT DEF After, SiteState, RowSteps
  <2> QED
    BY <2>3, <2>4
<1>10. CASE s = "deleteCertificate"
  <2>1. y = [x EXCEPT !.certificate = FALSE]
    BY <1>10, Zenon DEF Done
  <2>3. y \in SiteState
    BY <2>1, Zenon DEF SiteState
  <2>4. After(r, s, x, y)
    <3> HIDE DEF Blank
    <3> QED
      BY <1>10, <2>1, SMT DEF After, SiteState, RowSteps
  <2> QED
    BY <2>3, <2>4
<1>11. CASE s = "deleteRow"
  <2>1. y = [x EXCEPT !.row = NoRow]
    BY <1>11, Zenon DEF Done
  <2>3. y \in SiteState
    BY <2>1, Zenon DEF SiteState
  <2>4. After(r, s, x, y)
    <3> HIDE DEF Blank
    <3> QED
      BY <1>11, <2>1, SMT DEF After, SiteState, RowSteps
  <2> QED
    BY <2>3, <2>4
<1>12. CASE s = "write"
  <2>1. y = [x EXCEPT !.file = Rendered(Intended(r))]
    BY <1>12, Zenon DEF Done
  <2>2. Rendered(Intended(r)) \in File
    <3>1. Kind(r) \in Edits \cup Switches /\ snap[r] \in Row
      BY <1>1, <1>12, Wanted
    <3> QED
      BY <1>12, <3>1, Intends, Renders
  <2>3. y \in SiteState
    BY <2>1, <2>2, Zenon DEF SiteState
  <2>4. After(r, s, x, y)
    <3> HIDE DEF Blank
    <3> QED
      BY <1>12, <2>1, SMT DEF After, SiteState, RowSteps
  <2> QED
    BY <2>3, <2>4
<1>13. CASE s = "switch"
  <2>1. y = [x EXCEPT !.link = ~@]
    BY <1>13, Zenon DEF Done
  <2>2. (~x.link) \in BOOLEAN
    BY <1>13, SMT DEF SiteState
  <2>3. y \in SiteState
    BY <2>1, <2>2, Zenon DEF SiteState
  <2>4. After(r, s, x, y)
    <3> HIDE DEF Blank
    <3> QED
      BY <1>13, <2>1, SMT DEF After, SiteState, RowSteps
  <2> QED
    BY <2>3, <2>4
<1>14. CASE s = "update"
  <2>1. y = [x EXCEPT !.row = Updated(r, @, Intended(r))]
    BY <1>14, Zenon DEF Done
  <2>2. Updated(r, x.row, Intended(r)) \in Row
    <3>1. Kind(r) \in Edits \cup Switches /\ snap[r] \in Row
      BY <1>1, <1>14, Wanted
    <3> QED
      BY <1>14, <3>1, Intends
  <2>3. y \in SiteState
    BY <2>1, <2>2, Zenon DEF SiteState
  <2>4. After(r, s, x, y)
    <3> HIDE DEF Blank
    <3> QED
      BY <1>14, <2>1, SMT DEF After, SiteState, RowSteps
  <2> QED
    BY <2>3, <2>4
<1>15. CASE s = "logDirectory"
  <2>1. y = x
    BY <1>15, Zenon DEF Done
  <2>2. After(r, s, x, y)
    BY <1>15, <2>1, Zenon DEF After, RowSteps
  <2> QED
    BY <2>1, <2>2
<1> QED
  BY <1>2, <1>3, <1>4, <1>5, <1>6, <1>7, <1>8, <1>9, <1>10, <1>11, <1>12, <1>13, <1>14, <1>15, Zenon DEF StepNames

(* A step that fails half-way leaves a site, and its row alone.            *)
LEMMA TornEffect ==
  ASSUME TypeOK, NEW r \in Requests, NEW s \in StepNames, Pos(r, s) > 0, NEW x \in SiteState,
         NEW y \in TornBy(r, s, x), Kind(r) \in Edits \cup Switches => snap[r] \in Row
  PROVE  y \in SiteState /\ y.row = x.row
<1>1. CASE s \notin Transactional /\ y = Done(r, s, x)
  <2>1. s \notin {"insert", "update", "deleteRow"}
    BY <1>1, Zenon DEF Transactional
  <2>2. y \in SiteState /\ After(r, s, x, y)
    BY <1>1, <2>1, DoneEffect
  <2> QED
    BY <2>1, <2>2, Zenon DEF After, RowSteps
<1>2. CASE y = [x EXCEPT !.link = FALSE]
  <2>1. y \in SiteState
    BY <1>2, Zenon DEF SiteState
  <2>2. y.row = x.row
    BY <1>2, SMT DEF SiteState
  <2> QED
    BY <2>1, <2>2
<1>3. y \in (IF s \in Transactional THEN {} ELSE {Done(r, s, x)})
      \/ y \in (IF s = "remove" THEN {[x EXCEPT !.link = FALSE]} ELSE {})
  BY Zenon DEF TornBy
<1>4. y \in (IF s \in Transactional THEN {} ELSE {Done(r, s, x)}) => s \notin Transactional /\ y = Done(r, s, x)
  BY SMT
<1>5. y \in (IF s = "remove" THEN {[x EXCEPT !.link = FALSE]} ELSE {}) => y = [x EXCEPT !.link = FALSE]
  BY SMT
<1> QED
  BY <1>1, <1>2, <1>3, <1>4, <1>5, Zenon

(***************************************************************************)
(* Each undo does what Back says, and leaves a site.                       *)
(***************************************************************************)
LEMMA UndoneEffect ==
  ASSUME TypeOK, NEW r \in Requests, NEW s \in StepNames \ Irreversible, Pos(r, s) > 0,
         NEW x \in SiteState, NEW y, y = Undone(r, s, x),
         Kind(r) # "create" => snap[r] \in Row,
         s = "deleteRow" => nextId \in 1..MaxId, s = "update" => x.row \in Row
  PROVE  y \in SiteState /\ Back(r, s, x, y)
<1>1. /\ s = "update" => Kind(r) \in Edits \cup Switches
      /\ s = "deleteRow" => Kind(r) = "delete"
  BY Apart, Wanted, SMT
<1>2. saved[r] \in SiteState
  BY Zenon DEF TypeOK
<1>3. saved[r].pool \in BOOLEAN /\ saved[r].file \in File \cup {NoFile} /\ saved[r].link \in BOOLEAN
  BY <1>2, SMT DEF SiteState
<1>4. CASE s = "tree"
  <2>1. y = [x EXCEPT !.tree = "none"]
    BY <1>4, Zenon DEF Undone
  <2>3. y \in SiteState
    BY <2>1, Zenon DEF SiteState
  <2>4. Back(r, s, x, y)
    BY <1>4, <2>1, SMT DEF Back, SiteState, RowSteps, ApacheSteps
  <2> QED
    BY <2>3, <2>4
<1>5. CASE s = "logs"
  <2>1. y = [x EXCEPT !.logs = "none"]
    BY <1>5, Zenon DEF Undone
  <2>3. y \in SiteState
    BY <2>1, Zenon DEF SiteState
  <2>4. Back(r, s, x, y)
    BY <1>5, <2>1, SMT DEF Back, SiteState, RowSteps, ApacheSteps
  <2> QED
    BY <2>3, <2>4
<1>6. CASE s = "pool"
  <2>1. y = [x EXCEPT !.pool = saved[r].pool]
    BY <1>6, Zenon DEF Undone
  <2>3. y \in SiteState
    BY <1>3, <2>1, Zenon DEF SiteState
  <2>4. Back(r, s, x, y)
    BY <1>6, <2>1, SMT DEF Back, SiteState, RowSteps, ApacheSteps
  <2> QED
    BY <2>3, <2>4
<1>7. CASE s \in {"install", "remove", "switch"}
  <2>1. y = [x EXCEPT !.file = saved[r].file, !.link = saved[r].link]
    BY <1>7, Zenon DEF Undone
  <2>3. y \in SiteState
    BY <1>3, <2>1, Zenon DEF SiteState
  <2>4. Back(r, s, x, y)
    BY <1>7, <2>1, SMT DEF Back, SiteState, RowSteps, ApacheSteps
  <2> QED
    BY <2>3, <2>4
<1>8. CASE s = "write"
  <2>1. y = [x EXCEPT !.file = saved[r].file]
    BY <1>8, Zenon DEF Undone
  <2>3. y \in SiteState
    BY <1>3, <2>1, Zenon DEF SiteState
  <2>4. Back(r, s, x, y)
    BY <1>8, <2>1, SMT DEF Back, SiteState, RowSteps, ApacheSteps
  <2> QED
    BY <2>3, <2>4
<1>9. CASE s = "insert"
  <2>1. y = [x EXCEPT !.row = NoRow]
    BY <1>9, Zenon DEF Undone
  <2>3. y \in SiteState
    BY <2>1, Zenon DEF SiteState
  <2>4. Back(r, s, x, y)
    BY <1>9, <2>1, SMT DEF Back, SiteState, RowSteps, ApacheSteps
  <2> QED
    BY <2>3, <2>4
<1>10. CASE s = "deleteRow"
  <2>1. y = [x EXCEPT !.row = Reinserted(r)]
    BY <1>10, Zenon DEF Undone
  <2>2. Reinserted(r) \in Row
    <3>1. snap[r] \in Row /\ nextId \in 1..MaxId
      BY <1>1, <1>10
    <3> QED
      BY <3>1, Zenon DEF Reinserted, Row
  <2>3. y \in SiteState
    BY <2>2, <2>1, Zenon DEF SiteState
  <2>4. Back(r, s, x, y)
    BY <1>10, <2>1, SMT DEF Back, SiteState, RowSteps, ApacheSteps
  <2> QED
    BY <2>3, <2>4
<1>11. CASE s = "update"
  <2>1. y = [x EXCEPT !.row = Reverted(r, @)]
    BY <1>11, Zenon DEF Undone
  <2>2. Reverted(r, x.row) \in Row
    <3>1. Kind(r) \in Edits \cup Switches /\ Kind(r) # "create"
      BY <1>1, <1>11, Zenon DEF Edits, AliasKinds, Switches
    <3> QED
      BY <1>11, <3>1, Intends
  <2>3. y \in SiteState
    BY <2>2, <2>1, Zenon DEF SiteState
  <2>4. Back(r, s, x, y)
    BY <1>11, <2>1, SMT DEF Back, SiteState, RowSteps, ApacheSteps
  <2> QED
    BY <2>3, <2>4
<1>12. CASE s = "logDirectory"
  <2>1. y = x
    BY <1>12, Zenon DEF Undone
  <2>2. Back(r, s, x, y)
    BY <1>12, <2>1, Zenon DEF Back, RowSteps, ApacheSteps
  <2> QED
    BY <2>1, <2>2
<1> QED
  BY <1>4, <1>5, <1>6, <1>7, <1>8, <1>9, <1>10, <1>11, <1>12, Zenon DEF StepNames, Irreversible

-----------------------------------------------------------------------------
(* Who may still insert a row has an id for it.                            *)
LEMMA RoomLeft ==
  ASSUME Typed, NEW r \in Requests, MayInsert(r)
  PROVE  nextId \in 1..MaxId
<1>1. Inserters \subseteq Requests /\ r \in Inserters
  BY DEF Inserters
<1>2. IsFiniteSet(Inserters)
  BY <1>1, BoundsAssumption, FS_Subset
<1>3. Cardinality(Inserters) \in Nat /\ Cardinality(Inserters) # 0
  BY <1>1, <1>2, FS_CardinalityType, FS_EmptySet
<1> QED
  BY <1>3, BoundsAssumption, SMT DEF Typed, TypeOK

(* The room is left when nobody becomes one who may insert, and who has    *)
(* inserted is no longer one.                                              *)
LEMMA RoomStays ==
  ASSUME Typed, nextId' \in Nat, NEW r \in Requests,
         \A q \in Requests \ {r} : MayInsert(q)' = MayInsert(q),
         \/ nextId' = nextId /\ (MayInsert(r)' => MayInsert(r))
         \/ nextId' = nextId + 1 /\ MayInsert(r) /\ ~MayInsert(r)'
  PROVE  nextId' + Cardinality(Inserters') <= MaxId + 1
<1>1. IsFiniteSet(Inserters) /\ Inserters \subseteq Requests
  <2>1. Inserters \subseteq Requests
    BY DEF Inserters
  <2> QED
    BY <2>1, BoundsAssumption, FS_Subset
<1>2. Cardinality(Inserters) \in Nat /\ nextId \in Nat /\ nextId + Cardinality(Inserters) <= MaxId + 1
  BY <1>1, FS_CardinalityType, BoundsAssumption, SMT DEF Typed, TypeOK
<1>3. CASE nextId' = nextId /\ (MayInsert(r)' => MayInsert(r))
  <2>1. Inserters' \subseteq Inserters
    BY <1>3, Zenon DEF Inserters
  <2>2. Cardinality(Inserters') \in Nat /\ Cardinality(Inserters') <= Cardinality(Inserters)
    BY <1>1, <2>1, FS_Subset, FS_CardinalityType
  <2> QED
    BY <1>2, <1>3, <2>2, BoundsAssumption, SMT
<1>4. CASE nextId' = nextId + 1 /\ MayInsert(r) /\ ~MayInsert(r)'
  <2>1. Inserters' = Inserters \ {r} /\ r \in Inserters
    BY <1>4, Zenon DEF Inserters
  <2>2. Cardinality(Inserters') = Cardinality(Inserters) - 1
    BY <1>1, <2>1, FS_RemoveElement
  <2> QED
    BY <1>2, <1>4, <2>2, BoundsAssumption, SMT
<1> QED
  BY <1>3, <1>4

-----------------------------------------------------------------------------
(* What has been put on the site of r, and on no other.                    *)
LEMMA PutThere ==
  ASSUME TypeOK, NEW r \in Requests, NEW y \in SiteState, Put(r, y), want' = want
  PROVE  /\ site' \in [Sites -> SiteState] /\ Here(r)' = y
         /\ \A s \in Sites \ {Site(r)} : site'[s] = site[s]
<1>1. Site(r) \in Sites /\ site \in [Sites -> SiteState]
  BY Wanted, Zenon DEF TypeOK
<1>2. site' = [site EXCEPT ![Site(r)] = y] /\ Here(r)' = site'[Site(r)]
  BY Zenon DEF Put, Site, Here
<1> QED
  BY <1>1, <1>2, Zenon

(* The vhost and the pool that a step finds are kept for its undo.         *)
StepOf(r) == Steps(r)[at[r]]
Keeps(r) ==
  /\ saved' \in [Requests -> SiteState]
  /\ StepOf(r) \in ApacheSteps => saved'[r].file = Here(r).file /\ saved'[r].link = Here(r).link
  /\ StepOf(r) = "pool" => saved'[r].pool = Here(r).pool
  /\ StepOf(r) # "pool" => saved'[r].pool = saved[r].pool
  /\ StepOf(r) \notin ApacheSteps \cup {"pool"} => saved'[r] = saved[r]

LEMMA Does ==
  ASSUME Typed, NEW r \in Requests, Do(r)
  PROVE  /\ StepOf(r) \in StepNames /\ Pos(r, StepOf(r)) = at[r] /\ at[r] \in 1..Last(r)
         /\ Possible(r, StepOf(r), Here(r)) /\ pc[r] = "do"
         /\ Here(r) \in SiteState /\ Here(r)' \in SiteState /\ After(r, StepOf(r), Here(r), Here(r)')
         /\ site' \in [Sites -> SiteState] /\ \A s \in Sites \ {Site(r)} : site'[s] = site[s]
         /\ StepOf(r) = "insert" => nextId \in 1..MaxId /\ nextId' = nextId + 1
         /\ StepOf(r) # "insert" => nextId' = nextId /\ snap' = snap
         /\ at'[r] = at[r] + 1 /\ Keeps(r) /\ want' = want
         /\ snap' \in [Requests -> Row \cup {NoRow}]
         /\ StepOf(r) = "insert" => snap'[r] = NewRow(r) /\ NewRow(r) \in Row
<1> DEFINE step == StepOf(r)  x == Here(r)  y == Done(r, step, x)
<1>0. TypeOK /\ Placed(r) /\ Read(r)
  BY DEF Typed
<1>1. /\ pc[r] = "do" /\ at[r] <= Len(Steps(r)) /\ Possible(r, step, x) /\ Put(r, y) /\ want' = want
      /\ at' = [at EXCEPT ![r] = @ + 1]
      /\ saved' = IF step \in ApacheSteps \cup {"pool"}
                  THEN [saved EXCEPT ![r].pool = IF step = "pool" THEN Here(r).pool ELSE @,
                                     ![r].file = Here(r).file, ![r].link = Here(r).link]
                  ELSE saved
      /\ IF step = "insert"
         THEN nextId' = nextId + 1 /\ snap' = [snap EXCEPT ![r] = NewRow(r)]
         ELSE UNCHANGED <<nextId, snap>>
  BY Zenon DEF Do, StepOf
<1>2. at[r] \in 1..Last(r)
  <2>1. Len(Steps(r)) = Last(r) /\ Last(r) \in 2..5 /\ at[r] \in 1..Last(r) + 1
    BY <1>0, <1>1, StepPlaces, Zenon DEF Placed
  <2> QED
    BY <1>1, <2>1, SMT
<1>3. step \in StepNames /\ Pos(r, step) = at[r] /\ Pos(r, step) > 0
  BY <1>2, StepIs, SMT DEF StepOf
<1>4. x \in SiteState
  BY <1>0, Wanted, Zenon DEF TypeOK, Here, Site
<1>5. step = "insert" => nextId \in 1..MaxId
  <2>1. MayInsert(r)
    BY <1>1, <1>2, SMT DEF MayInsert
  <2> QED
    BY <2>1, RoomLeft
<1>6. step = "update" => x.row \in Row
  <2>1. step = "update" => SameRow(r, x)
    BY <1>1, Zenon DEF Possible
  <2>2. x.row \in Row \cup {NoRow}
    BY <1>4, SMT DEF SiteState
  <2> QED
    BY <2>1, <2>2, Zenon DEF SameRow
<1>7. Kind(r) \in Edits \cup Switches => snap[r] \in Row
  BY <1>0, <1>1, SMT DEF Read, Edits, Switches, AliasKinds
<1>8. y \in SiteState /\ After(r, step, x, y)
  <2> HIDE DEF y, step, x
  <2>1. y = Done(r, step, x)
    BY DEF y
  <2> QED
    BY <1>0, <1>3, <1>4, <1>5, <1>6, <1>7, <2>1, DoneEffect, Zenon
<1>9. /\ site' \in [Sites -> SiteState] /\ Here(r)' = y
      /\ \A s \in Sites \ {Site(r)} : site'[s] = site[s]
  <2> HIDE DEF y
  <2> QED
    BY <1>0, <1>1, <1>8, PutThere
<1>10. Keeps(r)
  <2>1. saved[r] \in SiteState /\ saved \in [Requests -> SiteState]
    BY <1>0, Zenon DEF TypeOK
  <2>2. CASE step \in ApacheSteps \cup {"pool"}
    <3> DEFINE new == [saved[r] EXCEPT !.pool = IF step = "pool" THEN x.pool ELSE @, !.file = x.file, !.link = x.link]
    <3>1. saved' = [saved EXCEPT ![r] = new]
      BY <1>1, <2>2
    <3>2. /\ x.pool \in BOOLEAN /\ x.file \in File \cup {NoFile} /\ x.link \in BOOLEAN
          /\ saved[r].pool \in BOOLEAN
      BY <1>4, <2>1, SMT DEF SiteState
    <3>3. (IF step = "pool" THEN x.pool ELSE saved[r].pool) \in BOOLEAN
      BY <3>2, Zenon
    <3>4. new \in SiteState
      BY <2>1, <3>2, <3>3, Zenon DEF SiteState
    <3>5. /\ new.file = x.file /\ new.link = x.link
          /\ new.pool = IF step = "pool" THEN x.pool ELSE saved[r].pool
      BY <2>1, Zenon DEF SiteState
    <3>6. saved'[r] = new /\ saved' \in [Requests -> SiteState]
      <4> HIDE DEF new
      <4> QED
        BY <2>1, <3>1, <3>4, Zenon
    <3> HIDE DEF new
    <3> QED
      BY <2>2, <3>5, <3>6, Zenon DEF Keeps, ApacheSteps
  <2>3. CASE step \notin ApacheSteps \cup {"pool"}
    BY <1>1, <2>1, <2>3, Zenon DEF Keeps
  <2> QED
    BY <2>2, <2>3
<1>11. at'[r] = at[r] + 1
  BY <1>0, <1>1, Zenon DEF TypeOK
<1>12. step = "insert" => NewRow(r) \in Row
  BY <1>5, Wanted, <1>0, NamesAssumption, SMT DEF NewRow, Row
<1>13. snap' \in [Requests -> Row \cup {NoRow}] /\ (step = "insert" => snap'[r] = NewRow(r))
  BY <1>0, <1>1, <1>12, Zenon DEF TypeOK
<1> HIDE DEF step, x, y
<1>14. After(r, step, x, Here(r)') /\ Here(r)' \in SiteState
  BY <1>8, <1>9, Zenon
<1>15. /\ step = "insert" => nextId' = nextId + 1
       /\ step # "insert" => nextId' = nextId /\ snap' = snap
  BY <1>1, Zenon
<1> QED
  BY <1>1, <1>2, <1>3, <1>4, <1>5, <1>9, <1>10, <1>11, <1>12, <1>13, <1>14, <1>15, Zenon DEF step, x
(* An undo, whether it is reported to have succeeded or not.               *)
LEMMA PutsBack ==
  ASSUME Typed, NEW r \in Requests, pc[r] = "undo", at[r] > 0, StepOf(r) \notin Irreversible,
         StepOf(r) \in ApacheSteps \/ Undoable(r, StepOf(r), Here(r)),
         Put(r, Undone(r, StepOf(r), Here(r))), want' = want
  PROVE  /\ StepOf(r) \in StepNames /\ Pos(r, StepOf(r)) = at[r] /\ at[r] \in 1..Last(r)
         /\ Here(r) \in SiteState /\ Here(r)' \in SiteState /\ Back(r, StepOf(r), Here(r), Here(r)')
         /\ site' \in [Sites -> SiteState] /\ \A s \in Sites \ {Site(r)} : site'[s] = site[s]
         /\ StepOf(r) = "deleteRow" => nextId \in 1..MaxId /\ Kind(r) = "delete" /\ at[r] = Last(r)
<1> DEFINE step == StepOf(r)  x == Here(r)  y == Undone(r, step, x)
<1>0. TypeOK /\ Placed(r) /\ Read(r)
  BY DEF Typed
<1>2. at[r] \in 1..Last(r)
  <2>1. Last(r) \in 2..5 /\ at[r] \in 0..Last(r)
    BY <1>0, StepPlaces, Zenon DEF Placed
  <2> QED
    BY <2>1, SMT
<1>3. step \in StepNames /\ Pos(r, step) = at[r] /\ Pos(r, step) > 0
  BY <1>2, StepIs, SMT DEF StepOf
<1>4. x \in SiteState
  BY <1>0, Wanted, Zenon DEF TypeOK, Here, Site
<1>5. step = "deleteRow" => nextId \in 1..MaxId /\ Kind(r) = "delete" /\ at[r] = Last(r)
  <2>1. step = "deleteRow" => Kind(r) = "delete" /\ at[r] = Last(r)
    BY <1>0, <1>3, LastStep, Zenon
  <2>2. step = "deleteRow" => MayInsert(r)
    BY <2>1, Zenon DEF MayInsert
  <2> QED
    BY <2>1, <2>2, RoomLeft
<1>6. step = "update" => x.row \in Row
  <2>1. step = "update" => SameRow(r, x)
    BY Zenon DEF Undoable, ApacheSteps
  <2>2. x.row \in Row \cup {NoRow}
    BY <1>4, SMT DEF SiteState
  <2> QED
    BY <2>1, <2>2, Zenon DEF SameRow
<1>7. Kind(r) # "create" => snap[r] \in Row
  BY <1>0, SMT DEF Read
<1>8. y \in SiteState /\ Back(r, step, x, y)
  <2> HIDE DEF y, step, x
  <2>1. y = Undone(r, step, x) /\ step \in StepNames \ Irreversible
    BY <1>3, Zenon DEF y, step
  <2>2. step = "deleteRow" => nextId \in 1..MaxId
    BY <1>5
  <2> QED
    BY <1>0, <1>3, <1>4, <2>2, <1>6, <1>7, <2>1, UndoneEffect, Zenon
<1>9. /\ site' \in [Sites -> SiteState] /\ Here(r)' = y
      /\ \A s \in Sites \ {Site(r)} : site'[s] = site[s]
  <2> HIDE DEF y
  <2>1. Put(r, y)
    BY Zenon DEF y
  <2> QED
    BY <1>0, <1>8, <2>1, PutThere
<1> HIDE DEF step, x, y
<1>14. Back(r, step, x, Here(r)') /\ Here(r)' \in SiteState
  BY <1>8, <1>9, Zenon
<1> QED
  BY <1>2, <1>3, <1>4, <1>5, <1>9, <1>14, Zenon DEF step, x

LEMMA Undoes ==
  ASSUME Typed, NEW r \in Requests, Undo(r)
  PROVE  /\ StepOf(r) \in StepNames \ Irreversible /\ Pos(r, StepOf(r)) = at[r] /\ at[r] \in 1..Last(r)
         /\ Undoable(r, StepOf(r), Here(r)) /\ pc[r] = "undo"
         /\ Here(r) \in SiteState /\ Here(r)' \in SiteState /\ Back(r, StepOf(r), Here(r), Here(r)')
         /\ site' \in [Sites -> SiteState] /\ \A s \in Sites \ {Site(r)} : site'[s] = site[s]
         /\ StepOf(r) = "deleteRow" =>
              nextId \in 1..MaxId /\ nextId' = nextId + 1 /\ Kind(r) = "delete" /\ at[r] = Last(r)
         /\ StepOf(r) # "deleteRow" => nextId' = nextId
         /\ at'[r] = at[r] - 1 /\ want' = want
<1>1. /\ pc[r] = "undo" /\ at[r] > 0 /\ StepOf(r) \notin Irreversible
      /\ Undoable(r, StepOf(r), Here(r)) /\ want' = want
      /\ Put(r, Undone(r, StepOf(r), Here(r)))
      /\ nextId' = IF StepOf(r) = "deleteRow" THEN nextId + 1 ELSE nextId
      /\ at' = [at EXCEPT ![r] = @ - 1]
  BY Zenon DEF Undo, StepOf
<1>2. at'[r] = at[r] - 1
  BY <1>1, Zenon DEF Typed, TypeOK
<1>3. /\ StepOf(r) \in StepNames /\ Pos(r, StepOf(r)) = at[r] /\ at[r] \in 1..Last(r)
      /\ Here(r) \in SiteState /\ Here(r)' \in SiteState /\ Back(r, StepOf(r), Here(r), Here(r)')
      /\ site' \in [Sites -> SiteState] /\ \A s \in Sites \ {Site(r)} : site'[s] = site[s]
      /\ StepOf(r) = "deleteRow" => nextId \in 1..MaxId /\ Kind(r) = "delete" /\ at[r] = Last(r)
  BY <1>1, PutsBack
<1> QED
  BY <1>1, <1>2, <1>3, Zenon

(***************************************************************************)
(* A step that fails may have torn its site, an undo that fails may have   *)
(* put back the vhost; neither has written the row.                        *)
(***************************************************************************)
RowKept(r) ==
  /\ site' \in [Sites -> SiteState] /\ \A s \in Sites \ {Site(r)} : site'[s] = site[s]
  /\ Here(r)' \in SiteState /\ Here(r)'.row = Here(r).row

LEMMA Fails ==
  ASSUME Typed, NEW r \in Requests, Fail(r)
  PROVE  /\ pc[r] = "do" /\ pc'[r] = "undo" /\ at'[r] = at[r] - 1 /\ RowKept(r)
         /\ UNCHANGED <<nextId, lock, want, snap, cert, saved, dirty, origin>>
         /\ \/ UNCHANGED <<site, torn, stale>>
            \/ torn' = torn \cup {r} /\ Outdate(r)
<1>0. TypeOK /\ Placed(r) /\ Read(r)
  BY DEF Typed
<1>1. /\ pc[r] = "do" /\ pc' = [pc EXCEPT ![r] = "undo"] /\ at' = [at EXCEPT ![r] = @ - 1]
      /\ UNCHANGED <<nextId, lock, want, snap, cert, saved, dirty, origin>>
      /\ \/ UNCHANGED <<site, torn, stale>>
         \/ /\ at[r] <= Len(Steps(r)) /\ Possible(r, StepOf(r), Here(r))
            /\ \E x \in TornBy(r, StepOf(r), Here(r)) \ {Here(r)} : Put(r, x)
            /\ torn' = torn \cup {r} /\ Outdate(r)
  BY Zenon DEF Fail, StepOf, Goto
<1>2. pc'[r] = "undo" /\ at'[r] = at[r] - 1
  BY <1>0, <1>1, Zenon DEF TypeOK
<1>3. Here(r) \in SiteState
  BY <1>0, Wanted, Zenon DEF TypeOK, Here, Site
<1>4. CASE UNCHANGED <<site, torn, stale>>
  <2>1. site' = site /\ want' = want
    BY <1>1, <1>4
  <2>2. Here(r)' = Here(r)
    BY <2>1 DEF Here
  <2>3. RowKept(r)
    BY <1>0, <1>3, <2>1, <2>2, Zenon DEF RowKept, TypeOK
  <2> QED
    BY <1>1, <1>2, <1>4, <2>3, Zenon
<1>5. CASE /\ at[r] <= Len(Steps(r)) /\ Possible(r, StepOf(r), Here(r))
           /\ \E x \in TornBy(r, StepOf(r), Here(r)) \ {Here(r)} : Put(r, x)
           /\ torn' = torn \cup {r} /\ Outdate(r)
  <2>1. PICK y \in TornBy(r, StepOf(r), Here(r)) : Put(r, y)
    BY <1>5, Zenon
  <2>2. StepOf(r) \in StepNames /\ Pos(r, StepOf(r)) > 0
    <3>1. Len(Steps(r)) = Last(r) /\ Last(r) \in 2..5 /\ at[r] \in 1..Last(r) + 1
      BY <1>0, <1>1, StepPlaces, Zenon DEF Placed
    <3>2. at[r] \in 1..Last(r)
      BY <1>5, <3>1, SMT
    <3> QED
      BY <3>2, StepIs, SMT DEF StepOf
  <2>3. Kind(r) \in Edits \cup Switches => snap[r] \in Row
    BY <1>0, <1>1, SMT DEF Read, Edits, Switches, AliasKinds
  <2>4. y \in SiteState /\ y.row = Here(r).row
    BY <1>0, <1>3, <2>1, <2>2, <2>3, TornEffect
  <2>5. /\ site' \in [Sites -> SiteState] /\ Here(r)' = y
        /\ \A s \in Sites \ {Site(r)} : site'[s] = site[s]
    BY <1>0, <1>1, <2>1, <2>4, PutThere
  <2>6. RowKept(r)
    BY <2>4, <2>5, Zenon DEF RowKept
  <2> QED
    BY <1>1, <1>2, <1>5, <2>6, Zenon
<1> QED
  BY <1>1, <1>4, <1>5

LEMMA UndoesInVain ==
  ASSUME Typed, NEW r \in Requests, UndoFails(r)
  PROVE  /\ pc[r] = "undo" /\ at'[r] = at[r] - 1 /\ dirty'[r] = TRUE /\ RowKept(r) /\ at[r] \in 1..Last(r)
         /\ UNCHANGED <<nextId, lock, want, pc, snap, cert, saved, torn, origin>>
         /\ UNCHANGED <<site, stale>> \/ Outdate(r)
<1>0. TypeOK /\ Placed(r) /\ Read(r)
  BY DEF Typed
<1>1. /\ pc[r] = "undo" /\ at[r] > 0 /\ at' = [at EXCEPT ![r] = @ - 1] /\ dirty' = [dirty EXCEPT ![r] = TRUE]
      /\ UNCHANGED <<nextId, lock, want, pc, snap, cert, saved, torn, origin>>
      /\ \/ UNCHANGED <<site, stale>>
         \/ StepOf(r) \in ApacheSteps /\ Put(r, Undone(r, StepOf(r), Here(r))) /\ Outdate(r)
  BY Zenon DEF UndoFails, StepOf
<1>2. at'[r] = at[r] - 1 /\ dirty'[r] = TRUE
  BY <1>0, <1>1, Zenon DEF TypeOK
<1>3. Here(r) \in SiteState
  BY <1>0, Wanted, Zenon DEF TypeOK, Here, Site
<1>4. at[r] \in 1..Last(r)
  <2>1. Last(r) \in 2..5 /\ at[r] \in 0..Last(r)
    BY <1>0, <1>1, StepPlaces, Zenon DEF Placed
  <2> QED
    BY <1>1, <2>1, SMT
<1>5. CASE UNCHANGED <<site, stale>>
  <2>1. site' = site /\ want' = want
    BY <1>1, <1>5
  <2>2. Here(r)' = Here(r)
    BY <2>1 DEF Here
  <2>3. RowKept(r)
    BY <1>0, <1>3, <2>1, <2>2, Zenon DEF RowKept, TypeOK
  <2> QED
    BY <1>1, <1>2, <1>4, <1>5, <2>3, Zenon
<1>6. CASE StepOf(r) \in ApacheSteps /\ Put(r, Undone(r, StepOf(r), Here(r))) /\ Outdate(r)
  <2>1. StepOf(r) \notin Irreversible
    BY <1>6, SMT DEF ApacheSteps, Irreversible
  <2>2. /\ Here(r)' \in SiteState /\ Back(r, StepOf(r), Here(r), Here(r)')
        /\ site' \in [Sites -> SiteState] /\ \A s \in Sites \ {Site(r)} : site'[s] = site[s]
    BY <1>1, <1>6, <2>1, PutsBack
  <2>3. StepOf(r) \notin RowSteps
    BY <1>6, SMT DEF ApacheSteps, RowSteps
  <2>4. RowKept(r)
    BY <2>2, <2>3, Zenon DEF RowKept, Back
  <2> QED
    BY <1>1, <1>2, <1>4, <1>6, <2>4, Zenon
<1> QED
  BY <1>1, <1>5, <1>6
-----------------------------------------------------------------------------
LEMMA NoSiteThere == NoSite \in SiteState
<1> QED
  BY Zenon DEF NoSite, SiteState

LEMMA TypedInit == ASSUME Init PROVE Typed
<1>1. TypeOK
  <2>1. site \in [Sites -> SiteState]
    BY BeforeAssumption, Zenon DEF Init
  <2>2. nextId \in 1..MaxId + 1
    <3>1. Cardinality(Sites) \in Nat /\ Cardinality(Requests) \in Nat
      BY BoundsAssumption, FS_CardinalityType
    <3> QED
      BY <3>1, BoundsAssumption, SMT DEF Init
  <2>3. want \in [Requests -> Request]
    BY BoundsAssumption, SMT DEF Init
  <2> QED
    BY <2>1, <2>2, <2>3, NoSiteThere, SMT DEF Init, TypeOK, PCs, Verdicts
<1>2. nextId + Cardinality(Inserters) <= MaxId + 1
  <2>1. Inserters \subseteq Requests
    BY DEF Inserters
  <2>2. Cardinality(Inserters) \in Nat /\ Cardinality(Inserters) <= Cardinality(Requests)
    BY <2>1, BoundsAssumption, FS_Subset, FS_CardinalityType
  <2>3. Cardinality(Sites) \in Nat /\ Cardinality(Requests) \in Nat
    BY BoundsAssumption, FS_CardinalityType
  <2> QED
    BY <2>2, <2>3, BoundsAssumption, SMT DEF Init
<1>3. ASSUME NEW r \in Requests PROVE Placed(r) /\ Read(r)
  BY <1>3, NamesAssumption, SMT DEF Init, Placed, Read, Running
<1> QED
  BY <1>1, <1>2, <1>3 DEF Typed

LEMMA TypedStep ==
  ASSUME Typed, NEW r \in Requests, Operation(r)
  PROVE  Typed'
<1>0. /\ TypeOK /\ NoSite \in SiteState
      /\ Control' /\ want' = want /\ OthersStay(r) /\ \A q \in Requests : Placed(q) /\ Placed(q)' /\ Read(q)
      /\ site \in [Sites -> SiteState] /\ nextId \in 1..MaxId + 1 /\ MaxId \in Nat
      /\ want \in [Requests -> Request] /\ snap \in [Requests -> Row \cup {NoRow}]
      /\ pc \in [Requests -> PCs] /\ at \in [Requests -> 0..7]
      /\ cert \in [Requests -> BOOLEAN] /\ saved \in [Requests -> SiteState]
      /\ stale \subseteq Requests /\ torn \subseteq Requests /\ origin \in [Requests -> SiteState]
      /\ Here(r) \in SiteState /\ Site(r) \in Sites
  <2>1. /\ TypeOK /\ \A q \in Requests : Placed(q) /\ Read(q)
    BY DEF Typed
  <2>2. Here(r) \in SiteState /\ Site(r) \in Sites
    BY <2>1, Wanted, Zenon DEF TypeOK, Here, Site
  <2>3. /\ site \in [Sites -> SiteState] /\ nextId \in 1..MaxId + 1
        /\ want \in [Requests -> Request] /\ snap \in [Requests -> Row \cup {NoRow}]
        /\ pc \in [Requests -> PCs] /\ at \in [Requests -> 0..7]
        /\ cert \in [Requests -> BOOLEAN] /\ saved \in [Requests -> SiteState]
        /\ stale \subseteq Requests /\ torn \subseteq Requests /\ origin \in [Requests -> SiteState]
    BY <2>1, Zenon DEF TypeOK
  <2>4. Control' /\ want' = want /\ OthersStay(r) /\ \A q \in Requests : Placed(q)'
    BY ControlMoves
  <2> QED
    BY <2>1, <2>2, <2>3, <2>4, BoundsAssumption, NoSiteThere
<1>1. ASSUME NEW q \in Requests \ {r}
      PROVE  Read(q)' /\ MayInsert(q)' = MayInsert(q)
  <2>1. /\ pc'[q] = pc[q] /\ at'[q] = at[q] /\ snap'[q] = snap[q] /\ cert'[q] = cert[q] /\ Kind(q)' = Kind(q)
    BY <1>0, Zenon DEF OthersStay, Kind
  <2>2. Last(q)' = Last(q)
    BY <1>0, <2>1, PlanStays DEF SamePlan
  <2> QED
    BY <1>0, <2>1, <2>2, Zenon DEF Read, MayInsert
<1>2. Kind(r)' = Kind(r)
  BY <1>0, Zenon DEF Kind
<1> DEFINE Data == /\ site \in [Sites -> SiteState] /\ nextId \in Nat /\ snap \in [Requests -> Row \cup {NoRow}]
                   /\ cert \in [Requests -> BOOLEAN] /\ saved \in [Requests -> SiteState]
                   /\ stale \subseteq Requests /\ torn \subseteq Requests
                   /\ origin \in [Requests -> SiteState]
           Room == \/ nextId' = nextId /\ (MayInsert(r)' => MayInsert(r))
                   \/ nextId' = nextId + 1 /\ MayInsert(r) /\ ~MayInsert(r)'
<1>3. Data' /\ Room /\ Read(r)'
  <2>a. Data /\ nextId + 1 \in Nat
    BY <1>0, SMT
  <2>1. CASE Prepare(r)
    <3>1. /\ pc[r] = "new" /\ pc' = [pc EXCEPT ![r] = "ready"] /\ snap' = [snap EXCEPT ![r] = Here(r).row]
          /\ cert' = [cert EXCEPT ![r] = Here(r).certificate] /\ Acceptable(want[r], Here(r).row)
          /\ UNCHANGED <<site, nextId, saved, stale, torn, origin>>
      BY <2>1, Zenon DEF Prepare, Goto
    <3>2. Here(r).row \in Row \cup {NoRow} /\ Here(r).certificate \in BOOLEAN
      BY <1>0, SMT DEF SiteState
    <3>3. Data'
      BY <1>0, <2>a, <3>1, <3>2, Zenon
    <3>4. /\ Kind(r) # "create" => Here(r).row # NoRow
          /\ Kind(r) \in Switches => Here(r).row.enabled # (Kind(r) = "enable")
      <4>1. Kind(r) \in Kinds
        BY <1>0, Wanted
      <4>2. CASE Kind(r) = "create"
        BY <4>2, SMT DEF Switches
      <4>3. CASE Kind(r) \in {"delete", "addAlias", "removeAlias", "configure"}
        <5>1. Here(r).row # NoRow
          BY <3>1, <4>3, Zenon DEF Acceptable, Kind
        <5> QED
          BY <4>3, <5>1, SMT DEF Switches
      <4>4. CASE Kind(r) \in Switches
        BY <3>1, <4>4, Zenon DEF Acceptable, Kind, Switches
      <4> QED
        BY <4>1, <4>2, <4>3, <4>4, SMT DEF Kinds, Switches
    <3>5. Read(r)'
      <4>1. snap'[r] = Here(r).row
        BY <1>0, <3>1, Zenon
      <4>2. Kind(r) \in Switches => (Here(r).row.enabled <=> Kind(r) = "disable")
        <5>1. Kind(r) \in Switches => Here(r).row \in Row
          BY <3>2, <3>4, SMT DEF Switches
        <5>2. Kind(r) \in Switches => Here(r).row.enabled \in BOOLEAN
          BY <5>1, RowWritten
        <5> QED
          BY <3>4, <5>2, SMT DEF Switches
      <4>3. Kind(r) # "create" => Here(r).row \in Row
        BY <3>2, <3>4, Zenon
      <4> QED
        BY <1>2, <4>1, <4>2, <4>3, Zenon DEF Read
    <3>6. Room
      BY <3>1, Zenon DEF MayInsert
    <3> QED
      BY <3>3, <3>5, <3>6
  <2>2. CASE PrepareRefused(r)
    <3>1. pc'[r] = "refused" /\ UNCHANGED <<site, nextId, snap, cert, saved, stale, torn, origin>>
      BY <1>0, <2>2, Zenon DEF PrepareRefused, Goto
    <3>2. Read(r)' /\ Room
      BY <3>1, SMT DEF Read, MayInsert
    <3> QED
      BY <2>a, <3>1, <3>2, Zenon
  <2>3. CASE Start(r)
    <3>1. /\ pc[r] = "ready" /\ pc'[r] = "do" /\ origin' = [origin EXCEPT ![r] = Here(r)]
          /\ UNCHANGED <<site, nextId, snap, cert, saved, stale, torn>>
      BY <1>0, <2>3, Zenon DEF Start, Goto
    <3>2. Data'
      BY <1>0, <2>a, <3>1, Zenon
    <3>3. Read(r)' /\ Room
      BY <1>0, <1>2, <3>1, Zenon DEF Read, MayInsert
    <3> QED
      BY <3>2, <3>3
  <2>4. CASE Do(r)
    <3>1. /\ pc' = pc /\ UNCHANGED <<cert, torn, origin>> /\ stale' = stale \cup {q \in Requests \ {r} : pc[q] = "ready"}
      BY <2>4, Zenon DEF Do, Outdate
    <3>2. /\ StepOf(r) \in StepNames /\ Pos(r, StepOf(r)) = at[r] /\ at[r] \in 1..Last(r) /\ pc[r] = "do"
          /\ site' \in [Sites -> SiteState]
          /\ StepOf(r) = "insert" => nextId \in 1..MaxId /\ nextId' = nextId + 1
          /\ StepOf(r) # "insert" => nextId' = nextId /\ snap' = snap
          /\ at'[r] = at[r] + 1 /\ Keeps(r)
          /\ snap' \in [Requests -> Row \cup {NoRow}]
      BY <2>4, Does, Zenon
    <3>3. Data'
      <4>1. stale' \subseteq Requests
        BY <1>0, <3>1, SMT
      <4>2. nextId' \in Nat
        BY <2>a, <3>2, Zenon
      <4> QED
        BY <2>a, <3>1, <3>2, <4>1, <4>2, Zenon DEF Keeps
    <3>4. StepOf(r) = "insert" => Kind(r) = "create" /\ at[r] = Last(r)
      <4>1. at[r] > 0
        BY <3>2, <1>0, StepPlaces, SMT
      <4> QED
        BY <1>0, <3>2, <4>1, LastStep, Zenon
    <3>5. Read(r)'
      BY <1>0, <1>2, <3>1, <3>2, <3>4, Zenon DEF Read
    <3>6. Room
      <4>1. Last(r)' = Last(r) /\ Last(r) \in 2..5
        <5>1. SamePlan(r)
          BY <3>1, <3>2, <3>4, Zenon DEF SamePlan
        <5> QED
          BY <1>0, <5>1, PlanStays, StepPlaces
      <4> QED
        BY <1>2, <3>1, <3>2, <3>4, <4>1, SMT DEF MayInsert
    <3> QED
      BY <3>3, <3>5, <3>6
  <2>5. CASE Fail(r)
    <3>1. /\ pc[r] = "do" /\ pc'[r] = "undo" /\ at'[r] = at[r] - 1 /\ RowKept(r)
          /\ UNCHANGED <<nextId, lock, want, snap, cert, saved, dirty, origin>>
          /\ \/ UNCHANGED <<site, torn, stale>>
             \/ torn' = torn \cup {r} /\ Outdate(r)
      BY <2>5, Fails
    <3>2. stale' \subseteq Requests /\ torn' \subseteq Requests
      BY <1>0, <3>1, SMT DEF Outdate
    <3>3. Data'
      BY <2>a, <3>1, <3>2, Zenon DEF RowKept
    <3>4. Read(r)' /\ Room
      BY <1>0, <1>2, <3>1, Zenon DEF Read, MayInsert
    <3> QED
      BY <3>3, <3>4
  <2>6. CASE Undo(r)
    <3>1. pc' = pc /\ UNCHANGED <<snap, cert, saved, torn, origin>> /\ stale' = stale \cup {q \in Requests \ {r} : pc[q] = "ready"}
      BY <2>6, Zenon DEF Undo, Outdate
    <3>2. /\ pc[r] = "undo" /\ at[r] \in 1..Last(r) /\ site' \in [Sites -> SiteState]
          /\ StepOf(r) = "deleteRow" =>
              nextId \in 1..MaxId /\ nextId' = nextId + 1 /\ Kind(r) = "delete" /\ at[r] = Last(r)
          /\ StepOf(r) # "deleteRow" => nextId' = nextId
          /\ at'[r] = at[r] - 1
      BY <2>6, Undoes
    <3>3. Data'
      <4>1. stale' \subseteq Requests
        BY <1>0, <3>1, SMT
      <4>2. nextId' \in Nat
        BY <2>a, <3>2, Zenon
      <4> QED
        BY <2>a, <3>1, <3>2, <4>1, <4>2, Zenon
    <3>4. Last(r)' = Last(r) /\ Last(r) \in 2..5
      BY <1>0, <3>1, PlanStays, StepPlaces DEF SamePlan
    <3>5. Read(r)'
      BY <1>0, <1>2, <3>1, Zenon DEF Read
    <3>6. Room
      BY <1>2, <3>1, <3>2, <3>4, SMT DEF MayInsert
    <3> QED
      BY <3>3, <3>5, <3>6
  <2>7. CASE UndoFails(r)
    <3>1. /\ pc[r] = "undo" /\ at'[r] = at[r] - 1 /\ RowKept(r) /\ at[r] \in 1..Last(r)
          /\ UNCHANGED <<nextId, lock, want, pc, snap, cert, saved, torn, origin>>
          /\ UNCHANGED <<site, stale>> \/ Outdate(r)
      BY <2>7, UndoesInVain
    <3>2. stale' \subseteq Requests
      BY <1>0, <3>1, SMT DEF Outdate
    <3>3. Data'
      BY <2>a, <3>1, <3>2, Zenon DEF RowKept
    <3>4. Last(r)' = Last(r) /\ Last(r) \in 2..5
      BY <1>0, <3>1, PlanStays, StepPlaces DEF SamePlan
    <3>5. Read(r)'
      BY <1>0, <1>2, <3>1, Zenon DEF Read
    <3>6. Room
      BY <1>2, <3>1, <3>4, SMT DEF MayInsert
    <3> QED
      BY <3>3, <3>5, <3>6
  <2>8. CASE Return(r)
    <3>1. /\ pc'[r] \in Verdicts
          /\ snap' = [snap EXCEPT ![r] = NoRow] /\ cert' = [cert EXCEPT ![r] = FALSE]
          /\ saved' = [saved EXCEPT ![r] = NoSite] /\ origin' = [origin EXCEPT ![r] = NoSite]
          /\ UNCHANGED <<site, nextId, stale, torn>>
      <4>1. pc'[r] \in Verdicts
        BY <1>0, <2>8, SMT DEF Return, Goto, Verdicts
      <4> QED
        BY <2>8, <4>1, Zenon DEF Return
    <3>2. Data'
      BY <1>0, <2>a, <3>1, Zenon
    <3>3. Read(r)' /\ Room
      BY <3>1, SMT DEF Read, MayInsert, Verdicts
    <3> QED
      BY <3>2, <3>3
  <2> HIDE DEF Data, Room
  <2> QED
    BY <2>1, <2>2, <2>3, <2>4, <2>5, <2>6, <2>7, <2>8, Zenon DEF Operation
<1>4. nextId' + Cardinality(Inserters') <= MaxId + 1
  BY <1>1, <1>3, RoomStays
<1>5. nextId' \in 1..MaxId + 1
  <2>1. Inserters' \subseteq Requests
    BY DEF Inserters
  <2>2. IsFiniteSet(Inserters')
    BY <2>1, BoundsAssumption, FS_Subset
  <2>3. Cardinality(Inserters') \in Nat
    BY <2>2, FS_CardinalityType
  <2>4. nextId' >= nextId /\ nextId' \in Nat
    BY <1>0, <1>3, SMT
  <2> QED
    BY <1>0, <1>4, <2>3, <2>4, SMT
<1>6. TypeOK'
  <2>1. want' \in [Requests -> Request]
    BY <1>0
  <2> QED
    BY <1>0, <1>3, <1>5, <2>1, Zenon DEF TypeOK, Control
<1>7. \A q \in Requests : Read(q)'
  BY <1>1, <1>3, Zenon
<1> QED
  BY <1>0, <1>4, <1>6, <1>7, Zenon DEF Typed

LEMMA TypedStutter == ASSUME Typed, UNCHANGED vars PROVE Typed'
<1>1. \A r \in Requests : Placed(r)' = Placed(r) /\ Read(r)' = Read(r) /\ MayInsert(r)' = MayInsert(r)
  <2> TAKE r \in Requests
  <2>1. want' = want /\ pc' = pc /\ at' = at /\ dirty' = dirty /\ lock' = lock /\ snap' = snap /\ cert' = cert
    BY DEF vars
  <2>2. Kind(r)' = Kind(r) /\ Last(r)' = Last(r)
    BY <2>1, PlanStays DEF SamePlan
  <2> QED
    BY <2>1, <2>2, Zenon DEF Placed, Read, MayInsert, Running
<1>2. Inserters' = Inserters
  BY <1>1, Zenon DEF Inserters
<1>3. TypeOK' = TypeOK
  BY Zenon DEF TypeOK, vars
<1> QED
  BY <1>1, <1>2, <1>3, Zenon DEF Typed, vars

LEMMA TypedAlways == Spec => []Typed
<1>1. Init => Typed
  BY TypedInit
<1>2. Typed /\ [Next]_vars => Typed'
  <2>1. ASSUME Typed, NEW r \in Requests, Operation(r) PROVE Typed'
    BY <2>1, TypedStep
  <2>2. ASSUME Typed, UNCHANGED vars PROVE Typed'
    BY <2>2, TypedStutter
  <2> QED
    BY <2>1, <2>2, Zenon DEF Next
<1> QED
  BY <1>1, <1>2, PTL DEF Spec

(***************************************************************************)
(* The websites are always of their types: in particular an operation      *)
(* stays within its plan, and the ids of rows never run out (the operations*)
(* of service.WebsiteService, run one after another by plan.Executor).     *)
(***************************************************************************)
THEOREM TypeCorrect == Spec => []TypeOK
<1>1. Typed => TypeOK
  BY DEF Typed
<1> QED
  BY <1>1, TypedAlways, PTL
-----------------------------------------------------------------------------
(* Each step that is done stands afterwards, each that is undone does not. *)
LEMMA StandsMore ==
  ASSUME Typed, NEW r \in Requests, Do(r)
  PROVE  /\ \A s \in StepNames : Stands(r, s)' <=> Stands(r, s) \/ s = StepOf(r)
         /\ ~Stands(r, StepOf(r))
<1>1. /\ StepOf(r) \in StepNames /\ Pos(r, StepOf(r)) = at[r] /\ at[r] \in 1..Last(r) /\ pc[r] = "do"
      /\ at'[r] = at[r] + 1 /\ want' = want /\ (StepOf(r) # "insert" => snap' = snap)
  BY Does
<1>2. pc' = pc /\ cert' = cert
  BY Zenon DEF Do
<1>3. TypeOK /\ Last(r) \in 2..5
  BY StepPlaces DEF Typed
<1>4. SamePlan(r)
  <2>1. at[r] > 0
    BY <1>1, <1>3, SMT
  <2>2. StepOf(r) = "insert" => Kind(r) = "create"
    BY <1>1, <1>3, <2>1, LastStep, Zenon
  <2> QED
    BY <1>1, <1>2, <2>2, Zenon DEF SamePlan
<1>5. \A s : Pos(r, s)' = Pos(r, s)
  BY <1>1, <1>4, PlanStays
<1>6. \A s \in StepNames : Pos(r, s) \in 0..Last(r)
  BY <1>3, StepPlaces
<1>7. \A s \in StepNames : Pos(r, s) = at[r] => s = StepOf(r)
  <2>1. at[r] > 0
    BY <1>1, <1>3, SMT
  <2> QED
    BY <1>1, <1>3, <2>1, Apart, Zenon
<1>8. Height(r) = at[r] - 1 /\ Height(r)' = at[r]
  <2>1. Height(r)' = at'[r] - 1
    BY <1>1, <1>2, Zenon DEF Height
  <2> QED
    BY <1>1, <1>3, <2>1, SMT DEF Height
<1>9. ASSUME NEW s \in StepNames
      PROVE  Stands(r, s)' <=> Stands(r, s) \/ s = StepOf(r)
  <2>1. Stands(r, s)' <=> 0 < Pos(r, s) /\ Pos(r, s) <= at[r]
    BY <1>5, <1>8, Zenon DEF Stands
  <2>2. Stands(r, s) <=> 0 < Pos(r, s) /\ Pos(r, s) <= at[r] - 1
    BY <1>8, Zenon DEF Stands
  <2>3. Pos(r, s) \in 0..Last(r)
    BY <1>6
  <2>4. s = StepOf(r) <=> Pos(r, s) = at[r]
    BY <1>1, <1>7
  <2> QED
    BY <1>1, <1>3, <2>1, <2>2, <2>3, <2>4, SMT
<1>10. ~Stands(r, StepOf(r))
  BY <1>1, <1>3, <1>8, SMT DEF Stands
<1> QED
  BY <1>9, <1>10

LEMMA StandsLess ==
  ASSUME Typed, NEW r \in Requests, Undo(r)
  PROVE  /\ \A s \in StepNames : Stands(r, s)' <=> Stands(r, s) /\ s # StepOf(r)
         /\ Stands(r, StepOf(r))
<1>1. /\ StepOf(r) \in StepNames /\ Pos(r, StepOf(r)) = at[r] /\ at[r] \in 1..Last(r) /\ pc[r] = "undo"
      /\ at'[r] = at[r] - 1 /\ want' = want
  BY Undoes
<1>2. pc' = pc /\ cert' = cert /\ snap' = snap
  BY Zenon DEF Undo
<1>3. TypeOK /\ Last(r) \in 2..5
  BY StepPlaces DEF Typed
<1>5. \A s : Pos(r, s)' = Pos(r, s)
  BY <1>1, <1>2, PlanStays DEF SamePlan
<1>6. \A s \in StepNames : Pos(r, s) \in 0..Last(r)
  BY <1>3, StepPlaces
<1>7. \A s \in StepNames : Pos(r, s) = at[r] => s = StepOf(r)
  <2>1. at[r] > 0
    BY <1>1, <1>3, SMT
  <2> QED
    BY <1>1, <1>3, <2>1, Apart, Zenon
<1>8. Height(r) = at[r] /\ Height(r)' = at[r] - 1
  <2>1. pc'[r] = "undo" /\ at'[r] = at[r] - 1
    BY <1>1, <1>2
  <2> QED
    BY <1>1, <2>1, SMT DEF Height
<1>9. ASSUME NEW s \in StepNames
      PROVE  Stands(r, s)' <=> Stands(r, s) /\ s # StepOf(r)
  <2>1. Stands(r, s)' <=> 0 < Pos(r, s) /\ Pos(r, s) <= at[r] - 1
    BY <1>5, <1>8, Zenon DEF Stands
  <2>2. Stands(r, s) <=> 0 < Pos(r, s) /\ Pos(r, s) <= at[r]
    BY <1>8, Zenon DEF Stands
  <2>3. Pos(r, s) \in 0..Last(r)
    BY <1>6
  <2>4. s = StepOf(r) <=> Pos(r, s) = at[r]
    BY <1>1, <1>7
  <2> QED
    BY <1>1, <1>3, <2>1, <2>2, <2>3, <2>4, SMT
<1>10. Stands(r, StepOf(r))
  BY <1>1, <1>3, <1>8, SMT DEF Stands
<1> QED
  BY <1>9, <1>10

(* The pool of a creation comes before its vhost, the switch before the    *)
(* update.                                                                 *)
LEMMA Order ==
  ASSUME Typed, NEW r \in Requests
  PROVE  /\ Kind(r) = "create" /\ Stands(r, "install") /\ Pos(r, "pool") > 0 => Stands(r, "pool")
         /\ Kind(r) \in Switches /\ Stands(r, "update") => Stands(r, "switch")
         /\ Kind(r) \in Edits /\ Stands(r, "update") => Stands(r, "write")
<1>1. Height(r) \in Int
  BY SMT DEF Height, Typed, TypeOK
<1>2. Kind(r) = "create" /\ Pos(r, "pool") > 0 => Pos(r, "pool") < Pos(r, "install")
  BY SMT DEF Pos, CreatePos, Last, Root, Pool
<1>3. Kind(r) \in Switches => Pos(r, "switch") = 1 /\ Pos(r, "update") = 2
  BY SMT DEF Pos, ChangePos, Switches, Dir
<1>4. Kind(r) \in Edits => Pos(r, "write") \in {1, 2} /\ Pos(r, "update") = Pos(r, "write") + 1
  BY SMT DEF Pos, ChangePos, Edits, AliasKinds, Dir
<1>5. Pos(r, "pool") \in Nat /\ Pos(r, "install") \in Nat
  <2>1. /\ Pos(r, "pool") \in 0..Last(r) /\ Pos(r, "install") \in 0..Last(r) /\ Last(r) \in 2..5
    BY StepPlaces, Zenon DEF Typed, StepNames
  <2> QED
    BY <2>1, SMT
<1> QED
  BY <1>1, <1>2, <1>3, <1>4, <1>5, SMT DEF Stands

(* The names of a website are assigned, its domain and its aliases.        *)
LEMMA Unassigned ==
  ASSUME TypeOK, NEW r \in Requests
  PROVE  /\ want[r].site \notin Assigned => Here(r).row = NoRow
         /\ want[r].alias \notin Assigned /\ Here(r).row # NoRow => want[r].alias \notin Here(r).row.aliases
<1>1. Site(r) \in Sites
  BY Wanted
<1>2. Here(r).row # NoRow => Site(r) \in Rows
  BY <1>1, Zenon DEF Here, Site, Rows
<1>3. Here(r).row # NoRow => Site(r) \in Assigned /\ Here(r).row.aliases \subseteq Assigned
  BY <1>2, SMT DEF Assigned, Here, Site
<1> QED
  BY <1>3, SMT DEF Site
-----------------------------------------------------------------------------
(* A step that is done keeps the trace of its plan, kind by kind.          *)
LEMMA TraceDo ==
  ASSUME Typed, NEW r \in Requests, Do(r), Trace(r)
  PROVE  Trace(r)'
<1> DEFINE s == StepOf(r)  x == Here(r)  o == origin[r]
<1>0. TypeOK /\ Kind(r)' = Kind(r) /\ want' = want /\ origin' = origin /\ pc' = pc /\ pc[r] = "do"
  <2>1. want' = want /\ origin' = origin /\ pc' = pc /\ pc[r] = "do"
    BY Zenon DEF Do
  <2>2. Kind(r)' = Kind(r)
    BY <2>1 DEF Kind
  <2> QED
    BY <2>1, <2>2 DEF Typed
<1>1. /\ s \in StepNames /\ Pos(r, s) = at[r] /\ Possible(r, s, x)
      /\ After(r, s, x, Here(r)') /\ Keeps(r)
      /\ s # "insert" => snap' = snap
      /\ s = "insert" => snap'[r] = NewRow(r) /\ NewRow(r) \in Row
      /\ Pos(r, s) > 0 /\ x \in SiteState
  <2>1. Pos(r, s) > 0
    <3>1. at[r] \in 1..Last(r) /\ Pos(r, s) = at[r]
      BY Does
    <3> QED
      BY <1>0, <3>1, StepPlaces, SMT
  <2> QED
    BY <2>1, Does
<1>2. /\ \A t \in StepNames : Stands(r, t)' <=> Stands(r, t) \/ t = s
      /\ ~Stands(r, s)
  BY StandsMore
<1>3. ~Stands(r, s) /\ \A t \in {"insert", "install", "pool", "deleteRow", "remove", "removePool", "deleteLineage",
               "deleteCertificate", "update", "logDirectory", "write", "switch"} :
       Stands(r, t)' <=> Stands(r, t) \/ t = s
  BY <1>2, Zenon DEF StepNames
<1>4. CASE Kind(r) = "create"
  <2>1. s \in {"tree", "logs", "pool", "install", "insert"}
    BY <1>0, <1>1, <1>4, Apart, Zenon
  <2>2. CreateTrace(r)
    BY <1>4, Zenon DEF Trace
  <2>3. s = "pool" => ~Stands(r, "install")
    BY <1>1, <1>3, <1>4, Order, Zenon
  <2>4. s = "insert" => x.row = NoRow
    <3>1. s = "insert" => want[r].site \notin Assigned
      BY <1>1, Zenon DEF Possible
    <3> QED
      BY <1>0, <3>1, Unassigned
  <2>5. s = "insert" => Created(r)'
    <3>1. s = "insert" => Rendered(NewRow(r)) = Blank /\ NewRow(r).enabled = TRUE
      BY Renders, SMT DEF NewRow
    <3> QED
      BY <1>1, <3>1, Zenon DEF Created
  <2>6. s # "insert" => Created(r)' = Created(r) /\ snap'[r] = snap[r]
    BY <1>1, Zenon DEF Created
  <2>7. CreateTrace(r)'
    <3>1. CASE s \in {"tree", "logs"}
      BY <1>0, <1>1, <1>3, <2>2, <2>6, <3>1, SMT DEF CreateTrace, After, Keeps, RowSteps, ApacheSteps
    <3>2. CASE s = "pool"
      BY <1>0, <1>1, <1>3, <2>2, <2>3, <2>6, <3>2, SMT DEF CreateTrace, After, Keeps, RowSteps, ApacheSteps
    <3>3. CASE s = "install"
      BY <1>0, <1>1, <1>3, <2>2, <2>6, <3>3, SMT DEF CreateTrace, After, Keeps, RowSteps, ApacheSteps
    <3>4. CASE s = "insert"
      BY <1>0, <1>1, <1>3, <2>2, <2>4, <2>5, <3>4, SMT DEF CreateTrace, After, Keeps, RowSteps, ApacheSteps
    <3> QED
      BY <2>1, <3>1, <3>2, <3>3, <3>4, Zenon
  <2> QED
    BY <1>0, <1>4, <2>7, SMT DEF Trace, Edits, AliasKinds, Switches
<1>5. CASE Kind(r) = "delete"
  <2>1. s \in {"remove", "removePool", "deleteLineage", "deleteCertificate", "deleteRow"}
    BY <1>0, <1>1, <1>5, Apart, Zenon
  <2>2. DeleteTrace(r) /\ snap' = snap
    BY <1>1, <1>5, <2>1, Zenon DEF Trace
  <2>3. s = "deleteRow" => x.row # NoRow
    BY <1>1, Zenon DEF Possible, SameRow
  <2>7. DeleteTrace(r)'
    <3>1. CASE s = "remove"
      BY <1>0, <1>1, <1>3, <2>2, <3>1, SMT DEF DeleteTrace, After, Keeps, RowSteps, ApacheSteps
    <3>2. CASE s \in {"removePool", "deleteLineage", "deleteCertificate"}
      BY <1>0, <1>1, <1>3, <2>2, <3>2, SMT DEF DeleteTrace, After, Keeps, RowSteps, ApacheSteps
    <3>3. CASE s = "deleteRow"
      BY <1>0, <1>1, <1>3, <2>2, <2>3, <3>3, SMT DEF DeleteTrace, After, Keeps, RowSteps, ApacheSteps
    <3> QED
      BY <2>1, <3>1, <3>2, <3>3, Zenon
  <2> QED
    BY <1>0, <1>5, <2>7, SMT DEF Trace, Edits, AliasKinds, Switches
<1>6. CASE Kind(r) \in Edits
  <2>1. s \in {"logDirectory", "write", "update"}
    BY <1>0, <1>1, <1>6, Apart, Zenon
  <2>2. EditTrace(r) /\ snap' = snap /\ Intended(r)' = Intended(r)
    <3>1. snap' = snap
      BY <1>1, <2>1, SMT
    <3> QED
      BY <1>0, <1>6, <3>1, Zenon DEF Trace, Intended
  <2>3. s = "update" =>
          /\ x.row # NoRow
          /\ Kind(r) = "addAlias" => want[r].alias \notin x.row.aliases
          /\ Kind(r) = "removeAlias" => want[r].alias \in x.row.aliases
    <3>1. s = "update" =>
            /\ SameRow(r, x)
            /\ want[r].kind = "addAlias" => want[r].alias \notin Assigned
            /\ want[r].kind = "removeAlias" => want[r].alias \in x.row.aliases
      BY <1>1, Zenon DEF Possible
    <3> QED
      BY <1>0, <3>1, Unassigned, Zenon DEF SameRow, Kind
  <2>4. \A row, target : Updated(r, row, target)' = Updated(r, row, target)
    BY <1>0 DEF Updated
  <2>7. EditTrace(r)'
    <3>1. CASE s = "write"
      BY <1>0, <1>1, <1>3, <2>2, <2>4, <3>1, SMT DEF EditTrace, After, Keeps, RowSteps, ApacheSteps
    <3>2. CASE s = "update"
      BY <1>0, <1>1, <1>3, <2>2, <2>3, <2>4, <3>2, SMT DEF EditTrace, After, Keeps, RowSteps, ApacheSteps
    <3>3. CASE s = "logDirectory"
      BY <1>0, <1>1, <1>3, <2>2, <2>4, <3>3, SMT DEF EditTrace, After, Keeps, RowSteps, ApacheSteps
    <3> QED
      BY <2>1, <3>1, <3>2, <3>3, Zenon
  <2> QED
    BY <1>0, <1>6, <2>7, SMT DEF Trace, Edits, AliasKinds, Switches
<1>7. CASE Kind(r) \in Switches
  <2>1. s \in {"switch", "update"}
    BY <1>0, <1>1, <1>7, Apart, Zenon
  <2>2. SwitchTrace(r) /\ snap' = snap /\ Intended(r)' = Intended(r)
    <3>1. snap' = snap
      BY <1>1, <2>1, SMT
    <3> QED
      BY <1>0, <1>7, <3>1, Zenon DEF Trace, Intended
  <2>3. /\ s = "update" => x.row # NoRow
        /\ s = "switch" => x.file # NoFile /\ x.link = snap[r].enabled
    <3>1. /\ s = "update" => SameRow(r, x)
          /\ s = "switch" => x.file # NoFile /\ Exists(x) = (want[r].kind = "disable")
      BY <1>1, Zenon DEF Possible
    <3>2. snap[r] \in Row /\ (snap[r].enabled <=> Kind(r) = "disable")
      BY <1>0, <1>7, SMT DEF Typed, Read, Switches
    <3>3. x.link \in BOOLEAN /\ snap[r].enabled \in BOOLEAN
      BY <1>1, <3>2, SMT DEF SiteState, Row
    <3> QED
      BY <3>1, <3>2, <3>3, SMT DEF SameRow, Exists, Kind
  <2>4. \A row, target : Updated(r, row, target)' = Updated(r, row, target)
    BY <1>0 DEF Updated
  <2>7. SwitchTrace(r)'
    <3>1. CASE s = "switch"
      BY <1>0, <1>1, <1>3, <2>2, <2>3, <2>4, <3>1, SMT DEF SwitchTrace, After, Keeps, RowSteps, ApacheSteps
    <3>2. CASE s = "update"
      BY <1>0, <1>1, <1>3, <2>2, <2>3, <2>4, <3>2, SMT DEF SwitchTrace, After, Keeps, RowSteps, ApacheSteps
    <3> QED
      BY <2>1, <3>1, <3>2, Zenon
  <2> QED
    BY <1>0, <1>7, <2>7, SMT DEF Trace, Edits, AliasKinds, Switches
<1> QED
  BY <1>0, <1>4, <1>5, <1>6, <1>7, Wanted, Zenon
(* A row that is written back is what it was, but for what was read.       *)
LEMMA WrittenBack ==
  ASSUME NEW row \in Row, NEW v, NEW w
  PROVE  /\ [row EXCEPT !.aliases = row.aliases] = row
         /\ [[row EXCEPT !.aliases = v] EXCEPT !.aliases = w] = [row EXCEPT !.aliases = w]
         /\ [[row EXCEPT !.conf = v] EXCEPT !.conf = w] = [row EXCEPT !.conf = w]
         /\ [[row EXCEPT !.enabled = v] EXCEPT !.enabled = w] = [row EXCEPT !.enabled = w]
         /\ [row EXCEPT !.aliases = v].aliases = v
<1>1. [row EXCEPT !.aliases = row.aliases] = row
  BY SMT DEF Row
<1>2. [row EXCEPT !.aliases = v].aliases = v
  BY SMT DEF Row
<1>3. /\ [[row EXCEPT !.aliases = v] EXCEPT !.aliases = w] = [row EXCEPT !.aliases = w]
      /\ [[row EXCEPT !.conf = v] EXCEPT !.conf = w] = [row EXCEPT !.conf = w]
      /\ [[row EXCEPT !.enabled = v] EXCEPT !.enabled = w] = [row EXCEPT !.enabled = w]
  BY Zenon DEF Row
<1> QED
  BY <1>1, <1>2, <1>3

LEMMA RevertsUpdate ==
  ASSUME TypeOK, NEW r \in Requests, NEW row \in Row, Kind(r) \in Edits \cup Switches,
         Kind(r) = "addAlias" => want[r].alias \notin row.aliases,
         Kind(r) = "removeAlias" => want[r].alias \in row.aliases,
         NEW new, new = Reverted(r, Updated(r, row, Intended(r)))
  PROVE  /\ Kind(r) \in AliasKinds => new = row
         /\ Kind(r) = "configure" => new = [row EXCEPT !.conf = snap[r].conf]
         /\ Kind(r) \in Switches => new = [row EXCEPT !.enabled = snap[r].enabled]
<1>1. CASE Kind(r) = "addAlias"
  <2> DEFINE A == row.aliases \cup {want[r].alias}
  <2>1. Updated(r, row, Intended(r)) = [row EXCEPT !.aliases = A]
    BY <1>1, Zenon DEF Updated, Kind
  <2>2. [row EXCEPT !.aliases = A].aliases = A
    BY WrittenBack
  <2>3. A \ {want[r].alias} = row.aliases
    BY <1>1, SMT
  <2>4. new = [[row EXCEPT !.aliases = A] EXCEPT !.aliases = @ \ {want[r].alias}]
    BY <1>1, <2>1, Zenon DEF Reverted, Kind
  <2>5. new = [[row EXCEPT !.aliases = A] EXCEPT !.aliases = row.aliases]
    BY <2>2, <2>3, <2>4, Zenon
  <2>6. [[row EXCEPT !.aliases = A] EXCEPT !.aliases = row.aliases] = [row EXCEPT !.aliases = row.aliases]
    BY WrittenBack
  <2>7. [row EXCEPT !.aliases = row.aliases] = row
    BY WrittenBack
  <2>8. new = row
    BY <2>5, <2>6, <2>7, Zenon
  <2> QED
    BY <1>1, <2>8, SMT DEF AliasKinds, Switches
<1>2. CASE Kind(r) = "removeAlias"
  <2> DEFINE A == row.aliases \ {want[r].alias}
  <2>1. Updated(r, row, Intended(r)) = [row EXCEPT !.aliases = A]
    BY <1>2, Zenon DEF Updated, Kind
  <2>2. [row EXCEPT !.aliases = A].aliases = A
    BY WrittenBack
  <2>3. A \cup {want[r].alias} = row.aliases
    BY <1>2, SMT
  <2>4. new = [[row EXCEPT !.aliases = A] EXCEPT !.aliases = @ \cup {want[r].alias}]
    BY <1>2, <2>1, Zenon DEF Reverted, Kind
  <2>5. new = [[row EXCEPT !.aliases = A] EXCEPT !.aliases = row.aliases]
    BY <2>2, <2>3, <2>4, Zenon
  <2>6. [[row EXCEPT !.aliases = A] EXCEPT !.aliases = row.aliases] = [row EXCEPT !.aliases = row.aliases]
    BY WrittenBack
  <2>7. [row EXCEPT !.aliases = row.aliases] = row
    BY WrittenBack
  <2>8. new = row
    BY <2>5, <2>6, <2>7, Zenon
  <2> QED
    BY <1>2, <2>8, SMT DEF AliasKinds, Switches
<1>3. CASE Kind(r) = "configure"
  <2>1. new = [[row EXCEPT !.conf = Intended(r).conf] EXCEPT !.conf = snap[r].conf]
    BY <1>3, Zenon DEF Reverted, Updated, Kind
  <2>2. new = [row EXCEPT !.conf = snap[r].conf]
    BY <2>1, Zenon DEF Row
  <2> QED
    BY <1>3, <2>2, SMT DEF AliasKinds, Switches
<1>4. CASE Kind(r) \in Switches
  <2>1. new = [[row EXCEPT !.enabled = Intended(r).enabled] EXCEPT !.enabled = snap[r].enabled]
    BY <1>4, Zenon DEF Reverted, Updated, Kind, Switches
  <2>2. new = [row EXCEPT !.enabled = snap[r].enabled]
    BY <2>1, Zenon DEF Row
  <2> QED
    BY <1>4, <2>2, SMT DEF AliasKinds, Switches
<1> QED
  BY <1>1, <1>2, <1>3, <1>4, Zenon DEF Edits, AliasKinds

(* A step that is undone keeps the trace of its plan.                      *)
LEMMA TraceUndo ==
  ASSUME Typed, NEW r \in Requests, Undo(r), Trace(r)
  PROVE  Trace(r)'
<1> DEFINE s == StepOf(r)  x == Here(r)  o == origin[r]
<1>0. /\ TypeOK /\ Kind(r)' = Kind(r) /\ pc[r] = "undo" /\ o \in SiteState
      /\ UNCHANGED <<want, origin, pc, snap, saved>> /\ Intended(r)' = Intended(r)
  <2>1. UNCHANGED <<want, origin, pc, snap, saved>> /\ pc[r] = "undo"
    BY Zenon DEF Undo
  <2>2. Kind(r)' = Kind(r) /\ Intended(r)' = Intended(r)
    BY <2>1 DEF Kind, Intended
  <2>3. TypeOK /\ o \in SiteState
    BY Zenon DEF Typed, TypeOK
  <2> QED
    BY <2>1, <2>2, <2>3
<1>1. /\ s \in StepNames \ Irreversible /\ Pos(r, s) = at[r] /\ Undoable(r, s, x)
      /\ Back(r, s, x, Here(r)') /\ Pos(r, s) > 0
      /\ s = "deleteRow" => nextId \in 1..MaxId
  <2>1. Pos(r, s) > 0
    <3>1. at[r] \in 1..Last(r) /\ Pos(r, s) = at[r]
      BY Undoes
    <3> QED
      BY <1>0, <3>1, StepPlaces, SMT
  <2> QED
    BY <2>1, Undoes
<1>2. /\ \A t \in StepNames : Stands(r, t)' <=> Stands(r, t) /\ t # s
      /\ Stands(r, s)
  BY StandsLess
<1>3. Stands(r, s) /\ \A t \in {"insert", "install", "pool", "deleteRow", "remove", "removePool", "deleteLineage",
               "deleteCertificate", "update", "logDirectory", "write", "switch"} :
       Stands(r, t)' <=> Stands(r, t) /\ t # s
  BY <1>2, Zenon DEF StepNames
<1>4. CASE Kind(r) = "create"
  <2>1. s \in {"tree", "logs", "pool", "install", "insert"}
    BY <1>0, <1>1, <1>4, Apart, Zenon
  <2>2. CreateTrace(r)
    BY <1>4, Zenon DEF Trace
  <2>3. Created(r)' = Created(r)
    BY <1>0, Zenon DEF Created
  <2>7. CreateTrace(r)'
    <3>1. CASE s \in {"tree", "logs"}
      BY <1>0, <1>1, <1>3, <2>2, <2>3, <3>1, SMT DEF CreateTrace, Back, RowSteps, ApacheSteps
    <3>2. CASE s = "pool"
      BY <1>0, <1>1, <1>3, <2>2, <2>3, <3>2, SMT DEF CreateTrace, Back, RowSteps, ApacheSteps
    <3>3. CASE s = "install"
      BY <1>0, <1>1, <1>3, <2>2, <2>3, <3>3, SMT DEF CreateTrace, Back, RowSteps, ApacheSteps
    <3>4. CASE s = "insert"
      BY <1>0, <1>1, <1>3, <2>2, <2>3, <3>4, SMT DEF CreateTrace, Back, RowSteps, ApacheSteps
    <3> QED
      BY <2>1, <3>1, <3>2, <3>3, <3>4, Zenon
  <2> QED
    BY <1>0, <1>4, <2>7, SMT DEF Trace, Edits, AliasKinds, Switches
<1>5. CASE Kind(r) = "delete"
  <2>1. s \in {"remove", "deleteRow"}
    <3>1. s \in {"remove", "removePool", "deleteLineage", "deleteCertificate", "deleteRow"}
      BY <1>0, <1>1, <1>5, Apart, Zenon
    <3> QED
      BY <1>1, <3>1, SMT DEF Irreversible
  <2>2. DeleteTrace(r)
    BY <1>5, Zenon DEF Trace
  <2>3. s = "deleteRow" =>
          Reinserted(r) # NoRow /\ Reinserted(r).aliases = {} /\ Reinserted(r).conf = snap[r].conf
    <3>1. snap[r] \in Row
      BY <1>0, <1>5, SMT DEF Typed, Read
    <3>2. s = "deleteRow" => Reinserted(r) \in Row
      BY <1>1, <3>1, Zenon DEF Reinserted, Row
    <3>3. Reinserted(r).aliases = {} /\ Reinserted(r).conf = snap[r].conf
      BY <3>1, SMT DEF Reinserted, Row
    <3> QED
      BY <3>2, <3>3, NamesAssumption, Zenon
  <2>7. DeleteTrace(r)'
    <3>1. CASE s = "remove"
      BY <1>0, <1>1, <1>3, <2>2, <3>1, SMT DEF DeleteTrace, Back, RowSteps, ApacheSteps
    <3>3. CASE s = "deleteRow"
      BY <1>0, <1>1, <1>3, <2>2, <2>3, <3>3, SMT DEF DeleteTrace, Back, RowSteps, ApacheSteps
    <3> QED
      BY <2>1, <3>1, <3>3, Zenon
  <2> QED
    BY <1>0, <1>5, <2>7, SMT DEF Trace, Edits, AliasKinds, Switches
<1>a. o.row # NoRow => o.row \in Row
  BY <1>0, SMT DEF SiteState
<1>b. \A row, target : Updated(r, row, target)' = Updated(r, row, target)
  BY <1>0 DEF Updated
<1>6. CASE Kind(r) \in Edits
  <2>1. s \in {"logDirectory", "write", "update"}
    BY <1>0, <1>1, <1>6, Apart, Zenon
  <2>2. EditTrace(r)
    BY <1>6, Zenon DEF Trace
  <2>3. s = "update" =>
          /\ Kind(r) \in AliasKinds => Reverted(r, x.row) = o.row
          /\ Kind(r) = "configure" => o.row # NoRow /\ Reverted(r, x.row) = [o.row EXCEPT !.conf = snap[r].conf]
    <3> HAVE s = "update"
    <3>1. /\ o.row # NoRow /\ x.row = Updated(r, o.row, Intended(r))
          /\ Kind(r) = "addAlias" => want[r].alias \notin o.row.aliases
          /\ Kind(r) = "removeAlias" => want[r].alias \in o.row.aliases
      BY <1>3, <2>2, Zenon DEF EditTrace
    <3>2. o.row \in Row /\ Reverted(r, x.row) = Reverted(r, Updated(r, o.row, Intended(r)))
      BY <1>a, <3>1, Zenon
    <3>3. Kind(r) \in Edits \cup Switches
      BY <1>6
    <3> QED
      BY <1>0, <3>1, <3>2, <3>3, RevertsUpdate
  <2>7. EditTrace(r)'
    <3>1. CASE s = "write"
      BY <1>0, <1>1, <1>3, <1>b, <2>2, <3>1, SMT DEF EditTrace, Back, RowSteps, ApacheSteps
    <3>2. CASE s = "update"
      BY <1>0, <1>1, <1>3, <1>6, <2>2, <2>3, <3>2, SMT DEF EditTrace, Back, RowSteps, ApacheSteps, Edits, AliasKinds
    <3>3. CASE s = "logDirectory"
      BY <1>0, <1>1, <1>3, <1>b, <2>2, <3>3, SMT DEF EditTrace, Back, RowSteps, ApacheSteps
    <3> QED
      BY <2>1, <3>1, <3>2, <3>3, Zenon
  <2> QED
    BY <1>0, <1>6, <2>7, SMT DEF Trace, Edits, AliasKinds, Switches
<1>7. CASE Kind(r) \in Switches
  <2>1. s \in {"switch", "update"}
    BY <1>0, <1>1, <1>7, Apart, Zenon
  <2>2. SwitchTrace(r)
    BY <1>7, Zenon DEF Trace
  <2>3. s = "update" => o.row # NoRow /\ Reverted(r, x.row) = [o.row EXCEPT !.enabled = snap[r].enabled]
    <3>1. s = "update" => o.row # NoRow /\ x.row = Updated(r, o.row, Intended(r))
      BY <1>3, <2>2, Zenon DEF SwitchTrace
    <3>2. Kind(r) # "addAlias" /\ Kind(r) # "removeAlias"
      BY <1>7, SMT DEF Switches
    <3> QED
      BY <1>0, <1>7, <1>a, <3>1, <3>2, RevertsUpdate, Zenon
  <2>4. s = "update" => Stands(r, "switch")
    BY <1>3, <1>7, Order, Zenon
  <2>7. SwitchTrace(r)'
    <3>1. CASE s = "switch"
      BY <1>0, <1>1, <1>3, <1>b, <2>2, <3>1, SMT DEF SwitchTrace, Back, RowSteps, ApacheSteps
    <3>2. CASE s = "update"
      BY <1>0, <1>1, <1>3, <2>2, <2>3, <2>4, <3>2, SMT DEF SwitchTrace, Back, RowSteps, ApacheSteps
    <3> QED
      BY <2>1, <3>1, <3>2, Zenon
  <2> QED
    BY <1>0, <1>7, <2>7, SMT DEF Trace, Edits, AliasKinds, Switches
<1> QED
  BY <1>0, <1>4, <1>5, <1>6, <1>7, Wanted, Zenon
-----------------------------------------------------------------------------
(* While a plan runs the others only prepare.                              *)
LEMMA Bystander ==
  ASSUME Typed, NEW r \in Requests, NEW q \in Requests \ {r}, Running(q), Operation(r)
  PROVE  /\ UNCHANGED <<site, nextId, torn, stale>> /\ pc[r] = "new" /\ pc'[r] \in {"ready", "refused"}
         /\ Prepare(r) \/ PrepareRefused(r)
<1>1. ~Running(r) /\ lock = q /\ NoRequest \notin Requests
  BY Alone, NamesAssumption, Zenon DEF Typed, Placed
<1>2. ~Start(r)
  BY <1>1, Zenon DEF Start
<1>3. ~Do(r) /\ ~Fail(r) /\ ~Undo(r) /\ ~UndoFails(r) /\ ~Return(r)
  BY <1>1, Zenon DEF Running, Do, Fail, Undo, UndoFails, Return
<1>4. pc \in [Requests -> PCs]
  BY Zenon DEF Typed, TypeOK
<1>5. ASSUME Prepare(r)
      PROVE  UNCHANGED <<site, nextId, torn, stale>> /\ pc[r] = "new" /\ pc'[r] = "ready"
  BY <1>4, <1>5, Zenon DEF Prepare, Goto
<1>6. ASSUME PrepareRefused(r)
      PROVE  UNCHANGED <<site, nextId, torn, stale>> /\ pc[r] = "new" /\ pc'[r] = "refused"
  BY <1>4, <1>6, Zenon DEF PrepareRefused, Goto
<1> QED
  BY <1>2, <1>3, <1>5, <1>6, Zenon DEF Operation

(* The trace depends on the request, its site and nothing else.            *)
LEMMA SameTrace ==
  ASSUME want' = want, NEW r, Here(r)' = Here(r), snap'[r] = snap[r], cert'[r] = cert[r],
         saved'[r] = saved[r], origin'[r] = origin[r], pc'[r] = pc[r], Height(r)' = Height(r)
  PROVE  Trace(r)' = Trace(r)
<1>1. Kind(r)' = Kind(r) /\ \A s : Pos(r, s)' = Pos(r, s)
  BY PlanStays DEF SamePlan
<1>2. ASSUME NEW s PROVE Stands(r, s)' = Stands(r, s)
  <2>1. Pos(r, s)' = Pos(r, s)
    BY <1>1
  <2> QED
    BY <2>1 DEF Stands
<1>3. Intended(r)' = Intended(r)
  BY DEF Intended
<1>4. Updated(r, origin[r].row, Intended(r))' = Updated(r, origin[r].row, Intended(r))
  BY <1>3 DEF Updated
<1>5. Created(r)' = Created(r)
  BY Zenon DEF Created
<1>6. CreateTrace(r)' = CreateTrace(r)
  BY <1>2, <1>5, Zenon DEF CreateTrace
<1>7. DeleteTrace(r)' = DeleteTrace(r)
  BY <1>2, Zenon DEF DeleteTrace
<1>8. EditTrace(r)' = EditTrace(r)
  BY <1>1, <1>2, <1>3, <1>4, Zenon DEF EditTrace
<1>9. SwitchTrace(r)' = SwitchTrace(r)
  BY <1>2, <1>4, Zenon DEF SwitchTrace
<1> QED
  BY <1>1, <1>6, <1>7, <1>8, <1>9, Zenon DEF Trace

(* When no step is done none stands.                                       *)
LEMMA NothingStands ==
  ASSUME Typed, NEW r \in Requests, Height(r) = 0
  PROVE  \A s \in StepNames : ~Stands(r, s)
<1>1. \A s \in StepNames : Pos(r, s) \in 0..Last(r) /\ Last(r) \in 2..5
  BY StepPlaces DEF Typed
<1> QED
  BY <1>1, SMT DEF Stands

LEMMA TraceStep ==
  ASSUME TraceInv, NEW r \in Requests, Operation(r)
  PROVE  \A q \in Requests : Traced(q)'
<1>0. /\ Typed /\ \A q \in Requests : Traced(q)
      /\ want' = want /\ OthersStay(r) /\ Placed(r)
      /\ pc \in [Requests -> PCs] /\ dirty \in [Requests -> BOOLEAN]
      /\ origin \in [Requests -> SiteState] /\ at \in [Requests -> 0..7]
  BY ControlMoves, Zenon DEF TraceInv, Typed, TypeOK
<1>1. ASSUME NEW q \in Requests \ {r} PROVE Traced(q)'
  <2>1. /\ pc'[q] = pc[q] /\ at'[q] = at[q] /\ dirty'[q] = dirty[q] /\ snap'[q] = snap[q]
        /\ cert'[q] = cert[q] /\ saved'[q] = saved[q] /\ origin'[q] = origin[q]
    BY <1>0, Zenon DEF OthersStay
  <2>2. CASE ~Running(q)
    BY <2>1, <2>2, Zenon DEF Traced, Running
  <2>3. CASE Running(q)
    <3>1. site' = site /\ torn' = torn
      BY <1>0, <2>3, Bystander
    <3>2. Here(q)' = Here(q) /\ Height(q)' = Height(q)
      BY <1>0, <2>1, <3>1, Zenon DEF Here, Height
    <3>3. Trace(q)' = Trace(q)
      BY <1>0, <2>1, <3>2, SameTrace
    <3> QED
      BY <1>0, <2>1, <3>1, <3>3, Zenon DEF Traced, Running
  <2> QED
    BY <2>2, <2>3
<1>2. Traced(r)'
  <2>1. CASE Prepare(r) \/ PrepareRefused(r)
    <3>1. pc'[r] \in {"ready", "refused"}
      BY <1>0, <2>1, Zenon DEF Prepare, PrepareRefused, Goto
    <3> QED
      BY <3>1, SMT DEF Traced, Running
  <2>3. CASE Start(r)
    <3>1. /\ pc[r] = "ready" /\ pc'[r] = "do" /\ origin'[r] = Here(r)
          /\ UNCHANGED <<site, want, snap, cert, at>>
      BY <1>0, <2>3, Zenon DEF Start, Goto
    <3>2. Height(r)' = 0
      <4>1. at'[r] = 1
        BY <1>0, <3>1, Zenon DEF Placed
      <4> QED
        BY <3>1, <4>1, SMT DEF Height
    <3>3. Typed'
      BY <1>0, TypedStep
    <3>4. \A s \in StepNames : ~Stands(r, s)'
      <4>1. \A s \in StepNames : Pos(r, s) \in 0..Last(r) /\ Last(r) \in 2..5
        BY <1>0, StepPlaces DEF Typed
      <4>2. \A s : Pos(r, s)' = Pos(r, s)
        BY <3>1, PlanStays DEF SamePlan
      <4> QED
        BY <3>2, <4>1, <4>2, SMT DEF Stands
    <3>5. Here(r)' = origin'[r]
      BY <3>1 DEF Here
    <3>6. ~Stands(r, "insert")' /\ ~Stands(r, "install")' /\ ~Stands(r, "pool")' /\ ~Stands(r, "deleteRow")'
          /\ ~Stands(r, "remove")' /\ ~Stands(r, "update")' /\ ~Stands(r, "write")' /\ ~Stands(r, "switch")'
      BY <3>4, Zenon DEF StepNames
    <3>7. Trace(r)'
      BY <3>5, <3>6, Zenon DEF Trace, CreateTrace, DeleteTrace, EditTrace, SwitchTrace
    <3> QED
      BY <3>7, Zenon DEF Traced
  <2>4. CASE Do(r)
    <3>1. UNCHANGED <<pc, dirty, torn>>
      BY <2>4, Zenon DEF Do
    <3>2. Trace(r) => Trace(r)'
      BY <1>0, <2>4, TraceDo
    <3> QED
      BY <1>0, <3>1, <3>2, Zenon DEF Traced, Running
  <2>5. CASE Fail(r)
    <3>1. /\ pc[r] = "do" /\ pc'[r] = "undo" /\ at'[r] = at[r] - 1
          /\ UNCHANGED <<want, snap, cert, saved, dirty, origin>>
          /\ (site' = site /\ torn' = torn) \/ r \in torn'
      <4>1. /\ pc[r] = "do" /\ pc'[r] = "undo" /\ at'[r] = at[r] - 1
            /\ UNCHANGED <<want, snap, cert, saved, dirty, origin>>
            /\ UNCHANGED <<site, torn, stale>> \/ torn' = torn \cup {r}
        BY <1>0, <2>5, Fails, Zenon
      <4> QED
        BY <4>1, SMT
    <3>2. CASE site' = site /\ torn' = torn
      <4>1. Here(r)' = Here(r) /\ Height(r)' = Height(r)
        BY <3>1, <3>2, Zenon DEF Here, Height
      <4>2. Kind(r)' = Kind(r) /\ \A s : Pos(r, s)' = Pos(r, s)
        BY <3>1, PlanStays DEF SamePlan
      <4>3. ASSUME NEW s PROVE Stands(r, s)' = Stands(r, s)
        <5>1. Pos(r, s)' = Pos(r, s)
          BY <4>2
        <5> QED
          BY <4>1, <5>1 DEF Stands
      <4>4. Trace(r) => Trace(r)'
        <5>1. Intended(r)' = Intended(r) /\ Created(r)' = Created(r)
          BY <3>1 DEF Intended, Created
        <5>2. Updated(r, origin[r].row, Intended(r))' = Updated(r, origin[r].row, Intended(r))
          BY <3>1, <5>1 DEF Updated
        <5>3. CreateTrace(r) => CreateTrace(r)'
          BY <3>1, <4>1, <4>3, <5>1, Zenon DEF CreateTrace
        <5>4. DeleteTrace(r) => DeleteTrace(r)'
          BY <3>1, <4>1, <4>3, Zenon DEF DeleteTrace
        <5>5. EditTrace(r) => EditTrace(r)'
          BY <3>1, <4>1, <4>2, <4>3, <5>1, <5>2, Zenon DEF EditTrace
        <5>6. SwitchTrace(r) => SwitchTrace(r)'
          BY <3>1, <4>1, <4>3, <5>1, <5>2, Zenon DEF SwitchTrace
        <5> QED
          BY <4>2, <5>3, <5>4, <5>5, <5>6, Zenon DEF Trace
      <4> QED
        BY <1>0, <3>1, <3>2, <4>4, Zenon DEF Traced, Running
    <3> QED
      BY <3>1, <3>2, Zenon DEF Traced
  <2>6. CASE Undo(r)
    <3>1. UNCHANGED <<pc, dirty, torn>>
      BY <2>6, Zenon DEF Undo
    <3>2. Trace(r) => Trace(r)'
      BY <1>0, <2>6, TraceUndo
    <3> QED
      BY <1>0, <3>1, <3>2, Zenon DEF Traced, Running
  <2>7. CASE UndoFails(r)
    <3>1. dirty'[r] = TRUE
      BY <1>0, <2>7, UndoesInVain
    <3> QED
      BY <3>1, Zenon DEF Traced
  <2>8. CASE Return(r)
    <3>1. pc'[r] \in Verdicts
      BY <1>0, <2>8, SMT DEF Return, Goto, Verdicts
    <3> QED
      BY <3>1, SMT DEF Traced, Running, Verdicts
  <2> QED
    BY <2>1, <2>3, <2>4, <2>5, <2>6, <2>7, <2>8, Zenon DEF Operation
<1> QED
  BY <1>1, <1>2

LEMMA TraceAlways == Spec => []TraceInv
<1>1. Init => TraceInv
  <2> HAVE Init
  <2>1. \A r \in Requests : pc[r] = "new"
    BY Zenon DEF Init
  <2> QED
    BY <2>1, TypedInit, SMT DEF TraceInv, Traced, Running
<1>2. TraceInv /\ [Next]_vars => TraceInv'
  <2>1. ASSUME TraceInv, NEW r \in Requests, Operation(r) PROVE TraceInv'
    <3>1. Typed'
      BY <2>1, TypedStep, Zenon DEF TraceInv
    <3> QED
      BY <2>1, <3>1, TraceStep, Zenon DEF TraceInv
  <2>2. ASSUME TraceInv, UNCHANGED vars PROVE TraceInv'
    <3>1. Typed'
      BY <2>2, TypedStutter DEF TraceInv
    <3>2. ASSUME NEW r \in Requests PROVE Traced(r)'
      <4>1. /\ UNCHANGED <<site, want, pc, snap, cert, at, saved, dirty, torn, origin>>
        BY <2>2 DEF vars
      <4>2. Here(r)' = Here(r) /\ Height(r)' = Height(r)
        BY <4>1 DEF Here, Height
      <4>3. Trace(r)' = Trace(r)
        BY <4>1, <4>2, SameTrace
      <4> QED
        BY <2>2, <4>1, <4>3, Zenon DEF TraceInv, Traced, Running
    <3> QED
      BY <3>1, <3>2, Zenon DEF TraceInv
  <2> QED
    BY <2>1, <2>2, Zenon DEF Next
<1> QED
  BY <1>1, <1>2, PTL DEF Spec

(***************************************************************************)
(* An operation that is reported as rolled back has left the service of    *)
(* its site as it found it, whatever else was prepared meanwhile (the Undo *)
(* of each step of the plans of service.WebsiteService).                   *)
(***************************************************************************)
THEOREM RollbackRestores == Spec => RolledBackRestores
<1>1. ASSUME TraceInv, [Next]_vars, NEW r \in Requests \ torn, pc[r] = "undo", pc'[r] = "rolled_back"
      PROVE  Service(Here(r)) = Service(origin[r])
  <2>1. PICK q \in Requests : Operation(q)
    <3>1. pc' # pc
      BY <1>1, SMT
    <3>2. Next
      BY <1>1, <3>1, Zenon DEF vars
    <3> QED
      BY <3>2, Zenon DEF Next
  <2>2. Typed /\ Traced(r) /\ TypeOK /\ Read(r)
    BY <1>1, Zenon DEF TraceInv, Typed
  <2>3. q = r
    <3>1. q # r => pc'[r] = pc[r]
      BY <2>1, <2>2, ControlMoves, Zenon DEF OthersStay
    <3> QED
      BY <1>1, <3>1, SMT
  <2>4. Return(r) /\ pc[r] = "undo" /\ at[r] = 0 /\ ~dirty[r]
    <3>1. pc \in [Requests -> PCs]
      BY <2>2, Zenon DEF TypeOK
    <3>2. Return(r)
      <4>1. ~Prepare(r) /\ ~PrepareRefused(r) /\ ~Start(r) /\ ~Do(r) /\ ~Fail(r)
        BY <1>1, Zenon DEF Prepare, PrepareRefused, Start, Do, Fail
      <4>2. ~Undo(r) /\ ~UndoFails(r)
        BY <1>1, SMT DEF Undo, UndoFails
      <4> QED
        BY <2>1, <2>3, <4>1, <4>2, Zenon DEF Operation
    <3> QED
      BY <1>1, <3>1, <3>2, SMT DEF Return, Goto
  <2>5. Trace(r)
    BY <1>1, <2>2, <2>4, Zenon DEF Traced, Running
  <2>6. \A s \in StepNames : ~Stands(r, s)
    <3>1. Height(r) = 0
      BY <2>4, SMT DEF Height
    <3> QED
      BY <2>2, <3>1, NothingStands
  <2>7. /\ ~Stands(r, "insert") /\ ~Stands(r, "install") /\ ~Stands(r, "pool") /\ ~Stands(r, "deleteRow")
        /\ ~Stands(r, "remove") /\ ~Stands(r, "update") /\ ~Stands(r, "write") /\ ~Stands(r, "switch")
        /\ ~Stands(r, "removePool") /\ ~Stands(r, "deleteLineage") /\ ~Stands(r, "deleteCertificate")
    BY <2>6, Zenon DEF StepNames
  <2> DEFINE x == Here(r) o == origin[r]
  <2>8. o.row # NoRow => o.row \in Row
    <3>1. o \in SiteState
      BY <2>2, Zenon DEF TypeOK
    <3> QED
      BY <3>1, SMT DEF SiteState
  <2>9. /\ x.row # NoRow <=> o.row # NoRow
        /\ x.file = o.file /\ x.link = o.link /\ x.pool = o.pool
        /\ x.lineage = o.lineage /\ x.certificate = o.certificate
    <3>1. CASE Kind(r) = "create"
      BY <2>5, <2>7, <3>1, Zenon DEF Trace, CreateTrace
    <3>2. CASE Kind(r) = "delete"
      BY <2>5, <2>7, <3>2, Zenon DEF Trace, DeleteTrace
    <3>3. CASE Kind(r) \in Edits
      <4>1. EditTrace(r)
        BY <2>5, <3>3, Zenon DEF Trace
      <4>2. snap[r].conf \in Confs
        <5>1. snap[r] \in Row
          BY <1>1, <2>2, <3>3, SMT DEF Read, Edits, AliasKinds
        <5> QED
          BY <5>1, RowWritten
      <4>3. o.row # NoRow => [o.row EXCEPT !.conf = snap[r].conf] # NoRow
        <5>1. o.row # NoRow => [o.row EXCEPT !.conf = snap[r].conf] \in Row
          BY <2>8, <4>2, Zenon DEF Row
        <5> QED
          BY <5>1, NamesAssumption, Zenon
      <4> QED
        BY <2>7, <4>1, <4>3, Zenon DEF EditTrace
    <3>4. CASE Kind(r) \in Switches
      <4>1. SwitchTrace(r)
        BY <2>5, <3>4, Zenon DEF Trace
      <4>2. snap[r].enabled \in BOOLEAN
        <5>1. snap[r] \in Row
          BY <1>1, <2>2, <3>4, SMT DEF Read, Switches
        <5> QED
          BY <5>1, RowWritten
      <4>3. o.row # NoRow => [o.row EXCEPT !.enabled = snap[r].enabled] # NoRow
        <5>1. o.row # NoRow => [o.row EXCEPT !.enabled = snap[r].enabled] \in Row
          BY <2>8, <4>2, Zenon DEF Row
        <5> QED
          BY <5>1, NamesAssumption, Zenon
      <4> QED
        BY <2>7, <4>1, <4>3, Zenon DEF SwitchTrace
    <3> QED
      BY <2>2, <3>1, <3>2, <3>3, <3>4, Wanted, Zenon
  <2>10. (x.row # NoRow) = (o.row # NoRow)
    BY <2>9
  <2> HIDE DEF x, o
  <2>11. Service(x) = Service(o)
    BY <2>9, <2>10, Zenon DEF Service
  <2> QED
    BY <2>11 DEF x, o
<1>2. TraceInv /\ [Next]_vars =>
        [\A r \in Requests \ torn : pc[r] = "undo" /\ pc'[r] = "rolled_back"
            => Service(Here(r)) = Service(origin[r])]_vars
  BY <1>1
<1> QED
  BY <1>2, TraceAlways, PTL DEF Spec, RolledBackRestores
-----------------------------------------------------------------------------
(***************************************************************************)
(* What stands when a plan has ended: all its steps, or none.              *)
(***************************************************************************)
Ended(r) == \/ pc[r] = "do" /\ at[r] > Len(Steps(r))
            \/ pc[r] = "undo" /\ at[r] = 0

LEMMA AllStand ==
  ASSUME Typed, NEW r \in Requests, pc[r] = "do", at[r] > Len(Steps(r))
  PROVE  /\ Kind(r) = "create" => Stands(r, "insert") /\ Stands(r, "install")
         /\ Kind(r) = "delete" => Stands(r, "remove") /\ Stands(r, "deleteRow")
         /\ Kind(r) \in Edits => Stands(r, "write") /\ Stands(r, "update")
         /\ Kind(r) \in Switches => Stands(r, "switch") /\ Stands(r, "update")
<1>1. TypeOK /\ Len(Steps(r)) = Last(r) /\ Last(r) \in 2..5 /\ at[r] \in 1..Last(r) + 1
  BY StepPlaces, Zenon DEF Typed, Placed
<1>2. Height(r) = Last(r)
  BY <1>1, SMT DEF Height
<1>3. ASSUME NEW s, Pos(r, s) \in 1..Last(r) PROVE Stands(r, s)
  BY <1>1, <1>2, <1>3, SMT DEF Stands
<1>4. CASE Kind(r) = "create"
  <2>1. Pos(r, "insert") = Last(r) /\ Pos(r, "install") = Last(r) - 1
    BY <1>4, Zenon DEF Pos, CreatePos
  <2>2. Pos(r, "insert") \in 1..Last(r) /\ Pos(r, "install") \in 1..Last(r)
    BY <1>1, <2>1, SMT
  <2> QED
    BY <1>3, <1>4, <2>2, SMT DEF Edits, AliasKinds, Switches
<1>5. CASE Kind(r) = "delete"
  <2>1. Pos(r, "remove") = 1 /\ Pos(r, "deleteRow") = Last(r)
    BY <1>5, SMT DEF Pos, DeletePos
  <2>2. Pos(r, "remove") \in 1..Last(r) /\ Pos(r, "deleteRow") \in 1..Last(r)
    BY <1>1, <2>1, SMT
  <2> QED
    BY <1>3, <1>5, <2>2, SMT DEF Edits, AliasKinds, Switches
<1>6. CASE Kind(r) \in Edits
  <2>1. Pos(r, "write") = Dir(r) + 1 /\ Pos(r, "update") = Dir(r) + 2 /\ Last(r) = Dir(r) + 2 /\ Dir(r) \in {0, 1}
    BY <1>6, SMT DEF Pos, ChangePos, Last, Dir, Edits, AliasKinds
  <2>2. Pos(r, "write") \in 1..Last(r) /\ Pos(r, "update") \in 1..Last(r)
    BY <1>1, <2>1, SMT
  <2> QED
    BY <1>3, <1>6, <2>2, SMT DEF Edits, AliasKinds, Switches
<1>7. CASE Kind(r) \in Switches
  <2>1. Pos(r, "switch") = 1 /\ Pos(r, "update") = 2
    BY <1>7, SMT DEF Pos, ChangePos, Switches, Dir
  <2>2. Pos(r, "switch") \in 1..Last(r) /\ Pos(r, "update") \in 1..Last(r)
    BY <1>1, <2>1, SMT
  <2> QED
    BY <1>3, <1>7, <2>2, SMT DEF Edits, AliasKinds, Switches
<1> QED
  BY <1>1, <1>4, <1>5, <1>6, <1>7, Wanted, Zenon

(* The columns an update leaves alone, and the one it sets.                *)
LEMMA Columns ==
  ASSUME TypeOK, NEW r \in Requests, NEW row \in Row, Kind(r) \in Edits \cup Switches, snap[r] \in Row,
         NEW new, new = Updated(r, row, Intended(r))
  PROVE  /\ new \in Row /\ new.tls = row.tls
         /\ Kind(r) \in Edits => new.enabled = row.enabled
         /\ Kind(r) \in Switches => /\ new.enabled = (Kind(r) = "enable")
                                    /\ new.aliases = row.aliases /\ new.conf = row.conf
<1>1. new \in Row
  BY Intends
<1>2. CASE Kind(r) = "addAlias"
  <2>1. new = [row EXCEPT !.aliases = @ \cup {want[r].alias}]
    BY <1>2, Zenon DEF Updated, Kind
  <2>2. new.tls = row.tls /\ new.enabled = row.enabled
    BY <2>1, SMT DEF Row
  <2> QED
    BY <1>1, <1>2, <2>2, SMT DEF Switches
<1>3. CASE Kind(r) = "removeAlias"
  <2>1. new = [row EXCEPT !.aliases = @ \ {want[r].alias}]
    BY <1>3, Zenon DEF Updated, Kind
  <2>2. new.tls = row.tls /\ new.enabled = row.enabled
    BY <2>1, SMT DEF Row
  <2> QED
    BY <1>1, <1>3, <2>2, SMT DEF Switches
<1>4. CASE Kind(r) = "configure"
  <2>1. new = [row EXCEPT !.conf = Intended(r).conf]
    BY <1>4, Zenon DEF Updated, Kind
  <2>2. new.tls = row.tls /\ new.enabled = row.enabled
    BY <2>1, SMT DEF Row
  <2> QED
    BY <1>1, <1>4, <2>2, SMT DEF Switches
<1>5. CASE Kind(r) \in Switches
  <2>1. new = [row EXCEPT !.enabled = Intended(r).enabled]
    BY <1>5, Zenon DEF Updated, Kind, Switches
  <2>2. new.tls = row.tls /\ new.enabled = Intended(r).enabled /\ new.aliases = row.aliases /\ new.conf = row.conf
    BY <2>1, SMT DEF Row
  <2>3. Intended(r) = [snap[r] EXCEPT !.enabled = (Kind(r) = "enable")]
    BY <1>5, Zenon DEF Intended, Kind, Switches
  <2>4. Intended(r).enabled = (Kind(r) = "enable")
    BY <2>3, Zenon DEF Row
  <2>5. Kind(r) \notin Edits
    BY <1>5, SMT DEF Edits, AliasKinds, Switches
  <2> QED
    BY <1>1, <2>2, <2>4, <2>5, Zenon
<1> QED
  BY <1>2, <1>3, <1>4, <1>5, Zenon DEF Edits, AliasKinds

(***************************************************************************)
(* A plan that has ended leaves a site that is tidy as it found one.       *)
(***************************************************************************)
LEMMA TidyEnd ==
  ASSUME Typed, NEW r \in Requests, Trace(r), Ended(r), NEW known \in BOOLEAN,
         known => ~(Kind(r) = "delete" /\ pc[r] = "undo"),
         origin[r].row # NoRow <=> origin[r].file # NoFile,
         origin[r].link => origin[r].row # NoRow,
         origin[r].row # NoRow /\ known => origin[r].link = origin[r].row.enabled
  PROVE  /\ Here(r).row # NoRow <=> Here(r).file # NoFile
         /\ Here(r).link => Here(r).row # NoRow
         /\ Here(r).row # NoRow /\ known => Here(r).link = Here(r).row.enabled
<1> DEFINE x == Here(r) o == origin[r]
<1>0. /\ TypeOK /\ Read(r) /\ Running(r) /\ o \in SiteState
      /\ \A row \in Row : row # NoRow /\ row.enabled \in BOOLEAN
      /\ \A file \in File : file # NoFile
  <2>1. TypeOK /\ Read(r) /\ o \in SiteState
    BY Zenon DEF Typed, TypeOK
  <2>2. \A row \in Row : row # NoRow /\ row.enabled \in BOOLEAN
    BY NamesAssumption, SMT DEF Row
  <2> QED
    BY <2>1, <2>2, NamesAssumption, Zenon DEF Running, Ended
<1>a. Kind(r) # "create" => snap[r] \in Row
  BY <1>0, SMT DEF Read, Running
<1>b. o.row # NoRow => o.row \in Row
  BY <1>0, SMT DEF SiteState
<1>1. CASE pc[r] = "do" /\ at[r] > Len(Steps(r))
  <2>0. /\ Kind(r) = "create" => Stands(r, "insert") /\ Stands(r, "install")
        /\ Kind(r) = "delete" => Stands(r, "remove") /\ Stands(r, "deleteRow")
        /\ Kind(r) \in Edits => Stands(r, "write") /\ Stands(r, "update")
        /\ Kind(r) \in Switches => Stands(r, "switch") /\ Stands(r, "update")
    BY <1>1, AllStand
  <2>1. CASE Kind(r) = "create"
    <3>1. x.row = snap[r] /\ Created(r) /\ x.file = Blank /\ x.link = TRUE
      BY <2>0, <2>1, Zenon DEF Trace, CreateTrace
    <3>2. x.row \in Row /\ x.file \in File /\ x.row.enabled = TRUE
      BY <1>0, <3>1, Renders, Zenon DEF Created
    <3> QED
      BY <1>0, <3>1, <3>2, Zenon
  <2>2. CASE Kind(r) = "delete"
    BY <2>0, <2>2, Zenon DEF Trace, DeleteTrace
  <2>3. CASE Kind(r) \in Edits
    <3>1. /\ o.row # NoRow /\ x.row = Updated(r, o.row, Intended(r))
          /\ x.file = Rendered(Intended(r)) /\ x.link = o.link
      BY <2>0, <2>3, Zenon DEF Trace, EditTrace
    <3>2. snap[r] \in Row
      BY <1>a, <2>3, SMT DEF Edits, AliasKinds
    <3>3. Kind(r) \in Edits \cup Switches /\ o.row \in Row
      BY <1>b, <2>3, <3>1
    <3>4. x.row \in Row /\ x.row.enabled = o.row.enabled
      BY <1>0, <2>3, <3>1, <3>2, <3>3, Columns
    <3>5. x.file \in File
      BY <1>0, <3>1, <3>2, <3>3, Intends, Renders
    <3> QED
      BY <1>0, <3>1, <3>4, <3>5, Zenon
  <2>4. CASE Kind(r) \in Switches
    <3>1. /\ o.row # NoRow /\ x.row = Updated(r, o.row, Intended(r))
          /\ x.file = o.file /\ o.file # NoFile /\ x.link = ~snap[r].enabled
      BY <2>0, <2>4, Zenon DEF Trace, SwitchTrace
    <3>2. snap[r] \in Row /\ (snap[r].enabled <=> Kind(r) = "disable")
      BY <1>0, <1>a, <2>4, SMT DEF Read, Running, Switches
    <3>3. Kind(r) \in Edits \cup Switches /\ o.row \in Row
      BY <1>b, <2>4, <3>1
    <3>4. x.row \in Row /\ x.row.enabled = (Kind(r) = "enable")
      BY <1>0, <2>4, <3>1, <3>2, <3>3, Columns
    <3>5. x.link = x.row.enabled
      <4>1. snap[r].enabled \in BOOLEAN
        BY <1>0, <3>2
      <4> QED
        BY <2>4, <3>1, <3>2, <3>4, <4>1, SMT DEF Switches
    <3> QED
      BY <1>0, <3>1, <3>4, <3>5, Zenon
  <2> QED
    BY <1>0, <2>1, <2>2, <2>3, <2>4, Wanted, Zenon
<1>2. CASE pc[r] = "undo" /\ at[r] = 0
  <2>0. /\ ~Stands(r, "insert") /\ ~Stands(r, "install") /\ ~Stands(r, "deleteRow")
        /\ ~Stands(r, "remove") /\ ~Stands(r, "update") /\ ~Stands(r, "write") /\ ~Stands(r, "switch")
    <3>1. Height(r) = 0
      BY <1>2, SMT DEF Height
    <3> QED
      BY <3>1, NothingStands, Zenon DEF StepNames
  <2>1. CASE Kind(r) = "create"
    BY <2>0, <2>1, Zenon DEF Trace, CreateTrace
  <2>2. CASE Kind(r) = "delete"
    BY <1>2, <2>0, <2>2, Zenon DEF Trace, DeleteTrace
  <2>3. CASE Kind(r) \in Edits
    <3>1. /\ \/ x.row = o.row
             \/ o.row # NoRow /\ x.row = [o.row EXCEPT !.conf = snap[r].conf]
          /\ x.file = o.file /\ x.link = o.link
      BY <2>0, <2>3, Zenon DEF Trace, EditTrace
    <3>2. snap[r].conf \in Confs
      <4>1. snap[r] \in Row
        BY <1>a, <2>3, SMT DEF Edits, AliasKinds
      <4> QED
        BY <4>1, RowWritten
    <3>3. o.row # NoRow => /\ [o.row EXCEPT !.conf = snap[r].conf] \in Row
                           /\ [o.row EXCEPT !.conf = snap[r].conf].enabled = o.row.enabled
      BY <1>b, <3>2, Zenon DEF Row
    <3> QED
      BY <1>0, <3>1, <3>3, Zenon
  <2>4. CASE Kind(r) \in Switches
    <3>1. /\ \/ x.row = o.row
             \/ /\ o.row # NoRow /\ x.row = [o.row EXCEPT !.enabled = snap[r].enabled]
                /\ o.link = snap[r].enabled
          /\ x.file = o.file /\ x.link = o.link
      BY <2>0, <2>4, Zenon DEF Trace, SwitchTrace
    <3>2. snap[r].enabled \in BOOLEAN
      BY <1>0, <1>a, <2>4, SMT DEF Switches
    <3>3. o.row # NoRow => /\ [o.row EXCEPT !.enabled = snap[r].enabled] \in Row
                           /\ [o.row EXCEPT !.enabled = snap[r].enabled].enabled = snap[r].enabled
      BY <1>b, <3>2, Zenon DEF Row
    <3> QED
      BY <1>0, <3>1, <3>3, Zenon
  <2> QED
    BY <1>0, <2>1, <2>2, <2>3, <2>4, Wanted, Zenon
<1> QED
  BY <1>1, <1>2 DEF Ended
-----------------------------------------------------------------------------
(* A verdict stays, and with it what it says.                              *)
LEMMA VerdictsStay ==
  ASSUME Typed, NEW r \in Requests, Operation(r)
  PROVE  /\ \A q \in Requests : pc[q] \in Verdicts => pc'[q] = pc[q]
         /\ Undamaged' => Undamaged
         /\ \A s : Relisted(s) => Relisted(s)'
         /\ stale \subseteq stale'
<1>1. want' = want /\ OthersStay(r) /\ pc \in [Requests -> PCs]
  BY ControlMoves, Zenon DEF Typed, TypeOK
<1>2. pc[r] \notin Verdicts
  BY SMT DEF Operation, Prepare, PrepareRefused, Start, Do, Fail, Undo, UndoFails, Return, Verdicts
<1>3. \A q \in Requests : pc[q] \in Verdicts => pc'[q] = pc[q]
  BY <1>1, <1>2, Zenon DEF OthersStay
<1>4. torn \subseteq torn' /\ stale \subseteq stale'
  BY SMT DEF Operation, Prepare, PrepareRefused, Start, Do, Fail, Undo, UndoFails, Return, Outdate
<1>5. Undamaged' => Undamaged
  <2>1. \A q \in Requests : pc[q] = "inconsistent" => pc'[q] = "inconsistent"
    BY <1>3, SMT DEF Verdicts
  <2>2. torn' = {} => torn = {}
    BY <1>4, SMT
  <2> QED
    BY <2>1, <2>2, Zenon DEF Undamaged
<1>6. ASSUME NEW s, Relisted(s) PROVE Relisted(s)'
  <2>1. PICK q \in Requests : want[q].site = s /\ want[q].kind = "delete" /\ pc[q] = "rolled_back"
    BY <1>6, Zenon DEF Relisted
  <2>2. pc'[q] = "rolled_back"
    BY <1>3, <2>1, SMT DEF Verdicts
  <2> QED
    BY <1>1, <2>1, <2>2, Zenon DEF Relisted
<1> QED
  BY <1>3, <1>4, <1>5, <1>6

(***************************************************************************)
(* Where a property of sites, of a domain and of what is there, is checked *)
(* again: when a plan starts, for what it has found, and when it ends, for *)
(* what it leaves.  In between its site is not idle.                       *)
(***************************************************************************)
LEMMA Ends ==
  ASSUME Typed, NEW r \in Requests, Return(r), Undamaged'
  PROVE  /\ Ended(r) /\ Running(r) /\ ~dirty[r] /\ ~Running(r)' /\ site' = site
         /\ pc[r] = "undo" => pc'[r] = "rolled_back"
<1>1. pc \in [Requests -> PCs] /\ Placed(r)
  BY Zenon DEF Typed, TypeOK
<1>2. /\ \/ pc[r] = "do" /\ at[r] > Len(Steps(r)) /\ pc'[r] = "done"
         \/ pc[r] = "undo" /\ at[r] = 0 /\ pc'[r] = IF dirty[r] THEN "inconsistent" ELSE "rolled_back"
      /\ site' = site
  BY <1>1, Zenon DEF Return, Goto
<1>3. ~dirty[r]
  <2>1. pc'[r] # "inconsistent"
    BY Zenon DEF Undamaged
  <2> QED
    BY <1>1, <1>2, <2>1, Zenon DEF Placed
<1>4. pc'[r] \in {"done", "rolled_back"}
  BY <1>2, <1>3, SMT
<1> QED
  BY <1>2, <1>3, <1>4, SMT DEF Ended, Running

(* Plans do not start, nor end, but one at a time.                         *)
LEMMA Idles ==
  ASSUME Typed, NEW r \in Requests, Operation(r)
  PROVE  \/ /\ Prepare(r) \/ PrepareRefused(r)
            /\ site' = site /\ ~Running(r)' /\ ~Running(r) /\ \A s : Idle(s)' <=> Idle(s)
         \/ /\ Start(r) /\ site' = site /\ Running(r)' /\ \A s : Idle(s)
            /\ origin'[r] = Here(r) /\ \A q \in Requests \ {r} : ~Running(q)'
         \/ /\ Running(r) /\ Running(r)' /\ origin'[r] = origin[r] /\ (dirty[r] => dirty'[r])
            /\ \A s : Idle(s)' <=> s # Site(r)
            /\ \A s \in Sites \ {Site(r)} : site'[s] = site[s] /\ Idle(s)
            /\ \A q \in Requests \ {r} : ~Running(q)'
         \/ /\ Return(r) /\ Running(r) /\ ~Running(r)' /\ site' = site
            /\ \A q \in Requests \ {r} : ~Running(q) /\ ~Running(q)'
<1>0. /\ want' = want /\ OthersStay(r) /\ pc \in [Requests -> PCs] /\ Placed(r)
      /\ origin \in [Requests -> SiteState]
  BY ControlMoves, Zenon DEF Typed, TypeOK
<1>1. \A q \in Requests \ {r} : Running(q)' <=> Running(q)
  BY <1>0, Zenon DEF OthersStay, Running
<1>2. \A q \in Requests : Site(q)' = Site(q)
  BY <1>0, Zenon DEF Site
<1>3. CASE Prepare(r) \/ PrepareRefused(r)
  <2>1. site' = site /\ pc[r] = "new" /\ pc'[r] \in {"ready", "refused"}
    BY <1>0, <1>3, Zenon DEF Prepare, PrepareRefused, Goto
  <2>2. ~Running(r) /\ ~Running(r)'
    BY <2>1, SMT DEF Running
  <2>3. \A s : Idle(s)' <=> Idle(s)
    BY <1>1, <1>2, <2>2, Zenon DEF Idle
  <2> QED
    BY <1>3, <2>1, <2>2, <2>3
<1>4. CASE Start(r)
  <2>1. site' = site /\ lock = NoRequest /\ pc'[r] = "do" /\ origin'[r] = Here(r)
    BY <1>0, <1>4, Zenon DEF Start, Goto
  <2>2. \A q \in Requests : ~Running(q)
    BY <2>1, NamesAssumption, Zenon DEF Typed, Placed
  <2> QED
    BY <1>1, <1>4, <2>1, <2>2, Zenon DEF Idle, Running
<1>5. CASE Do(r) \/ Fail(r) \/ Undo(r) \/ UndoFails(r)
  <2>1. Running(r)
    BY <1>5, Zenon DEF Running, Do, Fail, Undo, UndoFails
  <2>2. pc'[r] \in {"do", "undo"} /\ origin' = origin /\ (dirty[r] => dirty'[r])
    BY <1>0, <1>5, SMT DEF Do, Fail, Undo, UndoFails, Goto, Typed, TypeOK
  <2>3. \A s \in Sites \ {Site(r)} : site'[s] = site[s]
    BY <1>5, Does, Fails, Undoes, UndoesInVain, Zenon DEF RowKept
  <2>4. \A q \in Requests \ {r} : ~Running(q) /\ ~Running(q)'
    BY <1>1, <2>1, Alone
  <2>5. \A s : (Idle(s) <=> s # Site(r)) /\ (Idle(s)' <=> s # Site(r))
    BY <1>2, <2>1, <2>2, <2>4, Zenon DEF Idle, Running
  <2> QED
    BY <2>1, <2>2, <2>3, <2>4, <2>5, Zenon DEF Running
<1>6. CASE Return(r)
  <2>1. Running(r) /\ site' = site /\ pc'[r] \in Verdicts
    BY <1>0, <1>6, SMT DEF Return, Goto, Verdicts, Running
  <2>2. ~Running(r)'
    BY <2>1, SMT DEF Running, Verdicts
  <2> QED
    BY <1>1, <1>6, <2>1, <2>2, Alone, Zenon
<1> QED
  BY <1>3, <1>4, <1>5, <1>6, Zenon DEF Operation

-----------------------------------------------------------------------------
(* Who changes a site outdates the plans that wait; the rest is as it was. *)
LEMMA Outdates ==
  ASSUME Typed, NEW r \in Requests, Operation(r)
  PROVE  \/ site' = site
         \/ Running(r) /\ stale' = stale \cup {q \in Requests \ {r} : pc[q] = "ready"}
<1>1. CASE Do(r) \/ Undo(r)
  BY <1>1, Zenon DEF Do, Undo, Outdate, Running
<1>2. CASE Fail(r)
  BY <1>2, Fails, Zenon DEF Outdate, Running
<1>3. CASE UndoFails(r)
  BY <1>3, UndoesInVain, Zenon DEF Outdate, Running
<1>4. CASE Prepare(r) \/ PrepareRefused(r) \/ Start(r) \/ Return(r)
  BY <1>4, Zenon DEF Prepare, PrepareRefused, Start, Return
<1> QED
  BY <1>1, <1>2, <1>3, <1>4, Zenon DEF Operation

LEMMA FreshStep ==
  ASSUME Typed, \A q \in Requests : FreshRead(q), NEW r \in Requests, Operation(r)
  PROVE  \A q \in Requests : FreshRead(q)'
<1>0. /\ want' = want /\ OthersStay(r) /\ stale \subseteq stale' /\ TypeOK
      /\ pc \in [Requests -> PCs] /\ snap \in [Requests -> Row \cup {NoRow}]
      /\ origin \in [Requests -> SiteState]
  <2>1. want' = want /\ OthersStay(r) /\ stale \subseteq stale'
    BY ControlMoves, VerdictsStay
  <2> QED
    BY <2>1, Zenon DEF Typed, TypeOK
<1>1. \A q \in Requests : Kind(q)' = Kind(q)
  BY <1>0, Zenon DEF Kind
<1>2. ASSUME NEW q \in Requests \ {r}, q \notin stale' PROVE FreshRead(q)'
  <2>1. /\ pc'[q] = pc[q] /\ snap'[q] = snap[q] /\ origin'[q] = origin[q] /\ q \notin stale
        /\ Running(q)' <=> Running(q)
    BY <1>0, <1>2, SMT DEF OthersStay, Running
  <2>2. pc[q] = "ready" => Here(q)' = Here(q)
    <3>1. pc[q] = "ready" => site' = site
      BY <1>2, Outdates, SMT
    <3> QED
      BY <1>0, <3>1, Zenon DEF Here
  <2> QED
    BY <1>1, <2>1, <2>2, Zenon DEF FreshRead
<1>3. ASSUME r \notin stale' PROVE FreshRead(r)'
  <2>0. FreshRead(r) /\ r \notin stale
    BY <1>0, <1>3, SMT
  <2>1. CASE Prepare(r)
    <3>1. /\ pc'[r] = "ready" /\ snap'[r] = Here(r).row /\ site' = site /\ Acceptable(want[r], Here(r).row)
      BY <1>0, <2>1, Zenon DEF Prepare, Goto
    <3>2. Kind(r) = "create" => Here(r).row = NoRow
      <4>1. Kind(r) = "create" => want[r].site \notin Assigned
        BY <3>1, Zenon DEF Acceptable, Kind
      <4> QED
        BY <1>0, <4>1, Unassigned
    <3>3. Here(r)' = Here(r)
      BY <1>0, <3>1 DEF Here
    <3>4. ~Running(r)'
      BY <3>1, SMT DEF Running
    <3> QED
      BY <1>1, <3>1, <3>2, <3>3, <3>4, Zenon DEF FreshRead
  <2>2. CASE Start(r)
    <3>1. pc[r] = "ready" /\ pc'[r] = "do" /\ snap' = snap /\ origin'[r] = Here(r)
      BY <1>0, <2>2, Zenon DEF Start, Goto
    <3>2. pc'[r] # "ready"
      BY <3>1, SMT
    <3> QED
      BY <1>1, <2>0, <3>1, <3>2, Zenon DEF FreshRead
  <2>3. CASE Do(r) \/ Fail(r) \/ Undo(r) \/ UndoFails(r)
    <3>1. Running(r) /\ pc'[r] \in {"do", "undo"} /\ origin' = origin
      BY <1>0, <2>3, SMT DEF Do, Fail, Undo, UndoFails, Goto, Running
    <3>2. Kind(r) # "create" => snap'[r] = snap[r]
      <4>1. CASE Do(r)
        <5>1. StepOf(r) \in StepNames /\ Pos(r, StepOf(r)) = at[r] /\ at[r] \in 1..Last(r)
          BY <4>1, Does
        <5>2. Pos(r, StepOf(r)) > 0
          BY <1>0, <5>1, StepPlaces, SMT
        <5>3. StepOf(r) = "insert" => Kind(r) = "create"
          BY <1>0, <5>1, <5>2, LastStep, Zenon
        <5> QED
          BY <4>1, <5>3, Does, Zenon
      <4>2. CASE Fail(r) \/ Undo(r) \/ UndoFails(r)
        BY <4>2, Zenon DEF Fail, Undo, UndoFails
      <4> QED
        BY <2>3, <4>1, <4>2
    <3>3. pc'[r] # "ready"
      BY <3>1, SMT
    <3> QED
      BY <1>1, <2>0, <3>1, <3>2, <3>3, Zenon DEF FreshRead
  <2>4. CASE PrepareRefused(r) \/ Return(r)
    <3>1. pc'[r] \in Verdicts
      BY <1>0, <2>4, SMT DEF PrepareRefused, Return, Goto, Verdicts
    <3> QED
      BY <3>1, SMT DEF FreshRead, Running, Verdicts
  <2> QED
    BY <2>1, <2>2, <2>3, <2>4, Zenon DEF Operation
<1>4. ASSUME NEW q, q \in stale' PROVE FreshRead(q)'
  BY <1>4, Zenon DEF FreshRead
<1>5. \A q \in Requests \ {r} : FreshRead(q)'
  BY <1>2, <1>4
<1>6. FreshRead(r)'
  BY <1>3, <1>4
<1> QED
  BY <1>5, <1>6

(***************************************************************************)
(* A fresh plan that has ended leaves the vhost of the row it leaves, if   *)
(* it has found that.                                                      *)
(***************************************************************************)
LEMMA MatchedEnd ==
  ASSUME Typed, NEW r \in Requests, Trace(r), Ended(r), r \notin stale, FreshRead(r),
         NEW relisted \in BOOLEAN, Kind(r) = "delete" /\ pc[r] = "undo" => relisted,
         Here(r).row # NoRow,
         origin[r].row # NoRow =>
           \/ origin[r].file = Rendered(origin[r].row)
           \/ origin[r].file.conf = origin[r].row.conf /\ origin[r].row.aliases = {} /\ relisted
  PROVE  \/ Here(r).file = Rendered(Here(r).row)
         \/ Here(r).file.conf = Here(r).row.conf /\ Here(r).row.aliases = {} /\ relisted
<1> DEFINE x == Here(r) o == origin[r]
<1>0. TypeOK /\ Read(r) /\ Running(r) /\ o \in SiteState
  <2>1. TypeOK /\ Read(r) /\ o \in SiteState
    BY Zenon DEF Typed, TypeOK
  <2> QED
    BY <2>1, Zenon DEF Running, Ended
<1>a. Kind(r) # "create" => snap[r] \in Row /\ o.row = snap[r] /\ o.row # NoRow
  <2>1. Kind(r) # "create" => snap[r] \in Row
    BY <1>0, SMT DEF Read, Running
  <2>2. Kind(r) # "create" => o.row = snap[r]
    BY <1>0, Zenon DEF FreshRead
  <2> QED
    BY <2>1, <2>2, NamesAssumption, Zenon
<1>b. \A row : Rendered(row).conf = row.conf
  BY SMT DEF Rendered
<1>1. CASE pc[r] = "do" /\ at[r] > Len(Steps(r))
  <2>0. /\ Kind(r) = "create" => Stands(r, "insert") /\ Stands(r, "install")
        /\ Kind(r) = "delete" => Stands(r, "remove") /\ Stands(r, "deleteRow")
        /\ Kind(r) \in Edits => Stands(r, "write") /\ Stands(r, "update")
        /\ Kind(r) \in Switches => Stands(r, "switch") /\ Stands(r, "update")
    BY <1>1, AllStand
  <2>1. CASE Kind(r) = "create"
    BY <2>0, <2>1, Zenon DEF Trace, CreateTrace, Created
  <2>2. CASE Kind(r) = "delete"
    BY <2>0, <2>2, Zenon DEF Trace, DeleteTrace
  <2>3. CASE Kind(r) \in Edits
    <3>1. x.row = Updated(r, o.row, Intended(r)) /\ x.file = Rendered(Intended(r))
      BY <2>0, <2>3, Zenon DEF Trace, EditTrace
    <3>2. snap[r] \in Row /\ o.row = snap[r]
      BY <1>a, <2>3, SMT DEF Edits, AliasKinds
    <3>3. Updated(r, snap[r], Intended(r)) = Intended(r)
      <4>1. CASE Kind(r) \in AliasKinds
        BY <4>1, Zenon DEF Updated, Intended, Kind, AliasKinds
      <4>2. CASE Kind(r) = "configure"
        <5>1. Intended(r) = [snap[r] EXCEPT !.conf = want[r].conf]
          BY <4>2, Zenon DEF Intended, Kind
        <5>2. Updated(r, snap[r], Intended(r)) = [snap[r] EXCEPT !.conf = Intended(r).conf]
          BY <4>2, Zenon DEF Updated, Kind
        <5>3. Intended(r).conf = want[r].conf
          BY <3>2, <5>1, Zenon DEF Row
        <5> QED
          BY <5>1, <5>2, <5>3, Zenon
      <4> QED
        BY <2>3, <4>1, <4>2, Zenon DEF Edits
    <3> QED
      BY <3>1, <3>2, <3>3, Zenon
  <2>4. CASE Kind(r) \in Switches
    <3>1. x.row = Updated(r, o.row, Intended(r)) /\ x.file = o.file
      BY <2>0, <2>4, Zenon DEF Trace, SwitchTrace
    <3>2. snap[r] \in Row /\ o.row = snap[r] /\ o.row # NoRow
      BY <1>a, <2>4, SMT DEF Switches
    <3>3. x.row.aliases = o.row.aliases /\ x.row.conf = o.row.conf /\ x.row.tls = o.row.tls
      <4>1. Kind(r) \in Edits \cup Switches
        BY <2>4
      <4> QED
        BY <1>0, <2>4, <3>1, <3>2, <4>1, Columns
    <3>4. Rendered(x.row) = Rendered(o.row)
      BY <3>3 DEF Rendered
    <3> QED
      BY <3>1, <3>2, <3>3, <3>4, Zenon
  <2> QED
    BY <1>0, <2>1, <2>2, <2>3, <2>4, Wanted, Zenon
<1>2. CASE pc[r] = "undo" /\ at[r] = 0
  <2>0. /\ ~Stands(r, "insert") /\ ~Stands(r, "install") /\ ~Stands(r, "deleteRow")
        /\ ~Stands(r, "remove") /\ ~Stands(r, "update") /\ ~Stands(r, "write") /\ ~Stands(r, "switch")
    <3>1. Height(r) = 0
      BY <1>2, SMT DEF Height
    <3> QED
      BY <3>1, NothingStands, Zenon DEF StepNames
  <2>1. CASE Kind(r) = "create"
    BY <2>0, <2>1, Zenon DEF Trace, CreateTrace
  <2>2. CASE Kind(r) = "delete"
    <3>1. /\ x.file = o.file
          /\ x.row = o.row \/ (x.row.aliases = {} /\ x.row.conf = snap[r].conf)
      BY <1>2, <2>0, <2>2, Zenon DEF Trace, DeleteTrace
    <3>2. o.row = snap[r] /\ o.row # NoRow
      BY <1>a, <2>2, SMT
    <3>3. o.file.conf = o.row.conf
      BY <1>b, <3>2, Zenon
    <3> QED
      BY <1>2, <2>2, <3>1, <3>2, <3>3, Zenon
  <2>3. CASE Kind(r) \in Edits
    <3>1. /\ x.row = o.row \/ x.row = [o.row EXCEPT !.conf = snap[r].conf]
          /\ x.file = o.file
      BY <2>0, <2>3, Zenon DEF Trace, EditTrace
    <3>2. snap[r] \in Row /\ o.row = snap[r]
      BY <1>a, <2>3, SMT DEF Edits, AliasKinds
    <3>3. [snap[r] EXCEPT !.conf = snap[r].conf] = snap[r]
      BY <3>2, SMT DEF Row
    <3>4. x.row = o.row
      BY <3>1, <3>2, <3>3, Zenon
    <3> QED
      BY <3>1, <3>4, Zenon
  <2>4. CASE Kind(r) \in Switches
    <3>1. /\ x.row = o.row \/ x.row = [o.row EXCEPT !.enabled = snap[r].enabled]
          /\ x.file = o.file
      BY <2>0, <2>4, Zenon DEF Trace, SwitchTrace
    <3>2. snap[r] \in Row /\ o.row = snap[r]
      BY <1>a, <2>4, SMT DEF Switches
    <3>3. [snap[r] EXCEPT !.enabled = snap[r].enabled] = snap[r]
      BY <3>2, SMT DEF Row
    <3>4. x.row = o.row
      BY <3>1, <3>2, <3>3, Zenon
    <3> QED
      BY <3>1, <3>4, Zenon
  <2> QED
    BY <1>0, <2>1, <2>2, <2>3, <2>4, Wanted, Zenon
<1> QED
  BY <1>1, <1>2 DEF Ended

LEMMA VHostStep ==
  ASSUME VHostInv, TraceInv', NEW r \in Requests, Operation(r)
  PROVE  VHostInv'
<1>f. Typed /\ \A q \in Requests : FreshRead(q)
  BY Zenon DEF VHostInv, TraceInv
<1>g. \A q \in Requests : FreshRead(q)'
  BY <1>f, FreshStep
<1> SUFFICES ASSUME Undamaged' PROVE Tidied'
  BY <1>g, Zenon DEF VHostInv
<1>0. /\ Typed /\ Tidied /\ Traced(r) /\ torn = {}
      /\ want' = want /\ OthersStay(r) /\ \A s : Relisted(s) => Relisted(s)'
      /\ Site(r) \in Sites /\ (stale' = {} => stale = {})
  <2>1. Typed /\ Traced(r)
    BY DEF VHostInv, TraceInv
  <2>2. Undamaged /\ want' = want /\ OthersStay(r) /\ \A s : Relisted(s) => Relisted(s)'
    BY <2>1, VerdictsStay, ControlMoves
  <2>3. stale' = {} => stale = {}
    BY <2>1, VerdictsStay, SMT
  <2> QED
    BY <2>1, <2>2, <2>3, Wanted, Zenon DEF VHostInv, Undamaged, Typed
<1>1. \A s \in Sites : Idle(s) => Tidy(s, site[s])
  BY <1>0 DEF Tidied
<1>2. \A q \in Requests : Running(q) /\ ~dirty[q] => Tidy(Site(q), origin[q])
  BY <1>0 DEF Tidied
<1>3. ASSUME NEW s \in Sites, Idle(s), site'[s] = site[s]
      PROVE  Tidy(s, site[s])'
  <2> DEFINE x == site[s]
  <2>1. Tidy(s, x)
    BY <1>1, <1>3
  <2>2. x' = x
    BY <1>3
  <2> QED
    BY <1>0, <2>1, <2>2, Zenon DEF Tidy, Matched
<1>4. ASSUME NEW q \in Requests, Running(q), ~dirty[q], origin'[q] = origin[q]
      PROVE  Tidy(Site(q), origin[q])'
  <2>1. Tidy(Site(q), origin[q]) /\ Site(q)' = Site(q)
    BY <1>0, <1>2, <1>4 DEF Site
  <2> QED
    BY <1>0, <1>4, <2>1, Zenon DEF Tidy, Matched
<1>5. CASE /\ site' = site /\ ~Running(r)' /\ \A s : Idle(s)' <=> Idle(s)
  <2>1. ASSUME NEW s \in Sites, Idle(s)' PROVE Tidy(s, site[s])'
    BY <1>3, <1>5, <2>1
  <2>2. ASSUME NEW q \in Requests, Running(q)', ~dirty'[q] PROVE Tidy(Site(q), origin[q])'
    <3>1. q # r
      BY <1>5, <2>2
    <3>2. Running(q) /\ ~dirty[q] /\ origin'[q] = origin[q]
      BY <1>0, <2>2, <3>1, Zenon DEF OthersStay, Running
    <3> QED
      BY <1>4, <3>2
  <2> QED
    BY <2>1, <2>2, Zenon DEF Tidied
<1>6. CASE /\ Start(r) /\ site' = site /\ \A s : Idle(s)
           /\ origin'[r] = Here(r) /\ \A q \in Requests \ {r} : ~Running(q)'
  <2>1. ASSUME NEW s \in Sites PROVE Tidy(s, site[s])'
    BY <1>3, <1>6
  <2>2. Tidy(Site(r), origin[r])'
    <3>1. Tidy(Site(r), Here(r))
      BY <1>0, <1>1, <1>6 DEF Here, Site
    <3>2. Site(r)' = Site(r)
      BY <1>0 DEF Site
    <3> QED
      BY <1>0, <1>6, <3>1, <3>2, Zenon DEF Tidy, Matched
  <2> QED
    BY <1>6, <2>1, <2>2, Zenon DEF Tidied
<1>7. CASE /\ Running(r) /\ Running(r)' /\ origin'[r] = origin[r] /\ (dirty[r] => dirty'[r])
           /\ \A s : Idle(s)' <=> s # Site(r)
           /\ \A s \in Sites \ {Site(r)} : site'[s] = site[s] /\ Idle(s)
           /\ \A q \in Requests \ {r} : ~Running(q)'
  <2>1. ASSUME NEW s \in Sites, Idle(s)' PROVE Tidy(s, site[s])'
    BY <1>3, <1>7, <2>1
  <2>2. ~dirty'[r] => Tidy(Site(r), origin[r])'
    BY <1>4, <1>7
  <2> QED
    BY <1>7, <2>1, <2>2, Zenon DEF Tidied
<1>8. CASE /\ Return(r) /\ Running(r) /\ ~Running(r)' /\ site' = site
           /\ \A q \in Requests \ {r} : ~Running(q) /\ ~Running(q)'
  <2>0. Ended(r) /\ ~dirty[r] /\ (pc[r] = "undo" => pc'[r] = "rolled_back")
    BY <1>0, <1>8, Ends
  <2>1. ASSUME NEW s \in Sites, s # Site(r) PROVE Tidy(s, site[s])'
    <3>1. Idle(s)
      BY <1>8, <2>1, Zenon DEF Idle
    <3> QED
      BY <1>3, <1>8, <3>1
  <2>2. Tidy(Site(r), Here(r))'
    <3> DEFINE known == ~Relisted(Site(r))'
    <3>1. Trace(r)
      BY <1>0, <1>8, <2>0, Zenon DEF Traced
    <3>2. Tidy(Site(r), origin[r])
      BY <1>2, <1>8, <2>0
    <3>3. known => ~(Kind(r) = "delete" /\ pc[r] = "undo")
      BY <1>0, <2>0, Zenon DEF Relisted, Kind, Site
    <3>4. /\ origin[r].row # NoRow <=> origin[r].file # NoFile
          /\ origin[r].link => origin[r].row # NoRow
          /\ origin[r].row # NoRow /\ known => origin[r].link = origin[r].row.enabled
      <4>1. Relisted(Site(r)) => ~known
        <5>1. Site(r)' = Site(r)
          BY <1>0 DEF Site
        <5>2. \A q \in Requests : pc[q] = "rolled_back" => pc'[q] = "rolled_back"
          BY <1>0, VerdictsStay, SMT DEF Verdicts
        <5> QED
          BY <1>0, <5>1, <5>2, SMT DEF Relisted
      <4> HIDE DEF known
      <4> QED
        BY <3>2, <4>1, Zenon DEF Tidy
    <3>5. known \in BOOLEAN
      BY DEF Relisted
    <3>a. Here(r)' = Here(r) /\ Site(r)' = Site(r)
      BY <1>0, <1>8 DEF Here, Site
    <3>6. /\ Here(r).row # NoRow <=> Here(r).file # NoFile
          /\ Here(r).link => Here(r).row # NoRow
          /\ Here(r).row # NoRow /\ known => Here(r).link = Here(r).row.enabled
      <4> HIDE DEF known
      <4> QED
        BY <1>0, <2>0, <3>1, <3>3, <3>4, <3>5, TidyEnd
    <3>7. ASSUME Here(r).row # NoRow, stale' = {}
          PROVE  \/ Here(r).file = Rendered(Here(r).row)
                 \/ Here(r).file.conf = Here(r).row.conf /\ Here(r).row.aliases = {} /\ Relisted(Site(r))'
      <4> DEFINE relisted == Relisted(Site(r))'
      <4>1. relisted \in BOOLEAN
        BY DEF Relisted
      <4>2. Kind(r) = "delete" /\ pc[r] = "undo" => relisted
        BY <3>3
      <4>3. r \notin stale /\ FreshRead(r)
        BY <1>0, <1>f, <3>7, SMT
      <4>4. origin[r].row # NoRow =>
             \/ origin[r].file = Rendered(origin[r].row)
             \/ origin[r].file.conf = origin[r].row.conf /\ origin[r].row.aliases = {} /\ relisted
        <5>1. Relisted(Site(r)) => relisted
          <6>1. Site(r)' = Site(r)
            BY <1>0 DEF Site
          <6>2. \A q \in Requests : pc[q] = "rolled_back" => pc'[q] = "rolled_back"
            BY <1>0, VerdictsStay, SMT DEF Verdicts
          <6> QED
            BY <1>0, <6>1, <6>2, SMT DEF Relisted
        <5> HIDE DEF relisted
        <5> QED
          BY <1>0, <3>2, <3>7, <5>1, Zenon DEF Tidy, Matched
      <4> HIDE DEF relisted
      <4>5. \/ Here(r).file = Rendered(Here(r).row)
            \/ Here(r).file.conf = Here(r).row.conf /\ Here(r).row.aliases = {} /\ relisted
        BY <1>0, <2>0, <3>1, <3>7, <4>1, <4>2, <4>3, <4>4, MatchedEnd
      <4> QED
        BY <4>5 DEF relisted
    <3> QED
      BY <3>6, <3>7, <3>a, Zenon DEF Tidy, Matched
  <2>3. Tidy(Site(r), site[Site(r)])'
    BY <1>0, <2>2 DEF Here, Site
  <2>4. \A s \in Sites : Tidy(s, site[s])'
    <3>1. Site(r)' = Site(r)
      BY <1>0 DEF Site
    <3>2. ASSUME NEW s \in Sites, s = Site(r) PROVE Tidy(s, site[s])'
      BY <2>3, <3>1, <3>2, Zenon
    <3> QED
      BY <2>1, <3>2, Zenon
  <2> QED
    BY <1>8, <2>4, Zenon DEF Tidied
<1> QED
  BY <1>0, <1>5, <1>6, <1>7, <1>8, Idles, Zenon

LEMMA VHostAlways == Spec => []VHostInv
<1>1. ASSUME Init PROVE VHostInv
  <2>1. TraceInv
    <3>1. \A r \in Requests : pc[r] = "new"
      BY <1>1, Zenon DEF Init
    <3> QED
      BY <1>1, <3>1, TypedInit, SMT DEF TraceInv, Traced, Running
  <2>2. ASSUME NEW s \in Sites PROVE Tidy(s, site[s])
    <3>1. site[s] \in SiteState /\ InOrder(site[s])
      BY <1>1, BeforeAssumption, Zenon DEF Init
    <3>2. site[s].row # NoRow => Rendered(site[s].row) # NoFile
      <4>1. site[s].row # NoRow => site[s].row \in Row
        BY <3>1, SMT DEF SiteState
      <4> QED
        BY <4>1, Renders, NamesAssumption, Zenon
    <3> QED
      BY <3>1, <3>2, Zenon DEF InOrder, Tidy, Matched
  <2>3. \A r \in Requests : ~Running(r)
    BY <1>1, SMT DEF Init, Running
  <2>4. \A r \in Requests : FreshRead(r)
    BY <1>1, SMT DEF Init, FreshRead, Running
  <2> QED
    BY <2>1, <2>2, <2>3, <2>4, Zenon DEF VHostInv, Tidied
<1>2. ASSUME VHostInv, TraceInv', UNCHANGED vars PROVE VHostInv'
  <2>1. Tidied => Tidied'
    BY <1>2 DEF vars, Tidied, Tidy, Matched, Idle, Running, Site, Relisted
  <2>2. Undamaged' => Undamaged
    BY <1>2, Zenon DEF vars, Undamaged
  <2>3. \A r \in Requests : FreshRead(r) => FreshRead(r)'
    BY <1>2 DEF vars, FreshRead, Running, Kind, Here
  <2> QED
    BY <1>2, <2>1, <2>2, <2>3, Zenon DEF VHostInv
<1>3. VHostInv /\ TraceInv' /\ [Next]_vars => VHostInv'
  BY <1>2, VHostStep, Zenon DEF Next
<1> QED
  BY <1>1, <1>3, TraceAlways, PTL DEF Spec

(* When nothing runs every site is idle.                                   *)
LEMMA SettledIsIdle ==
  ASSUME Typed, Settled
  PROVE  Undamaged /\ \A s : Idle(s)
<1> QED
  BY NamesAssumption, Zenon DEF Typed, Placed, Settled, Undamaged, Idle

(***************************************************************************)
(* Whatever plans overlap, a domain has a vhost exactly when it has a row, *)
(* and, unless a delete of it was rolled back, a link exactly when its row *)
(* says enabled (the order of the steps of the plans of                    *)
(* service.WebsiteService, and the checks made again inside them).         *)
(***************************************************************************)
THEOREM VHostOfRow == Spec => []RowHasVHost
<1>1. ASSUME VHostInv, Settled, NEW s \in Sites
      PROVE  /\ (site[s].row # NoRow) = (site[s].file # NoFile)
             /\ site[s].link => site[s].row # NoRow
             /\ site[s].row # NoRow /\ ~Relisted(s) => site[s].link = site[s].row.enabled
  <2>1. Undamaged /\ Idle(s)
    BY <1>1, SettledIsIdle, Zenon DEF VHostInv, TraceInv
  <2>2. Tidy(s, site[s])
    BY <1>1, <2>1, Zenon DEF VHostInv, Tidied
  <2>3. (site[s].row # NoRow) = (site[s].file # NoFile)
    BY <2>2 DEF Tidy
  <2> QED
    BY <2>2, <2>3, Zenon DEF Tidy
<1>2. VHostInv => RowHasVHost
  BY <1>1, Zenon DEF RowHasVHost
<1> QED
  BY <1>2, VHostAlways, PTL

(***************************************************************************)
(* While no plan was prepared from a state another one has changed since,  *)
(* every vhost is the rendering of its row; only a delete that was rolled  *)
(* back has lost the aliases of the row (the vhost and the row are written *)
(* by two steps, from one reading).                                        *)
(***************************************************************************)
THEOREM FreshVHostOfRow == Spec => []FreshVHostMatchesRow
<1>1. ASSUME VHostInv, Settled, stale = {}, NEW s \in Rows
      PROVE  \/ site[s].file = Rendered(site[s].row)
             \/ /\ site[s].file.conf = site[s].row.conf /\ site[s].row.aliases = {}
                /\ Relisted(s)
  <2>1. Undamaged /\ Idle(s) /\ s \in Sites /\ site[s].row # NoRow
    BY <1>1, SettledIsIdle, Zenon DEF VHostInv, TraceInv, Rows
  <2>2. Tidy(s, site[s])
    BY <1>1, <2>1, Zenon DEF VHostInv, Tidied
  <2> QED
    BY <1>1, <2>1, <2>2, Zenon DEF Tidy, Matched
<1>2. VHostInv => FreshVHostMatchesRow
  BY <1>1, Zenon DEF FreshVHostMatchesRow
<1> QED
  BY <1>2, VHostAlways, PTL
-----------------------------------------------------------------------------
(* How many rows there are when the row of one site has changed.           *)
LEMMA RowsCounted ==
  ASSUME Typed, NEW r \in Requests, want' = want, \A s \in Sites \ {Site(r)} : site'[s] = site[s]
  PROVE  /\ Cardinality(Rows) \in Nat
         /\ (Here(r)'.row = NoRow <=> Here(r).row = NoRow) => Cardinality(Rows)' = Cardinality(Rows)
         /\ Here(r).row = NoRow /\ Here(r)'.row # NoRow => Cardinality(Rows)' = Cardinality(Rows) + 1
         /\ Here(r).row # NoRow /\ Here(r)'.row = NoRow => Cardinality(Rows)' = Cardinality(Rows) - 1
<1>1. Site(r) \in Sites /\ Here(r) = site[Site(r)] /\ Here(r)' = site'[Site(r)]
  BY Wanted DEF Typed, Here, Site
<1>2. IsFiniteSet(Rows)
  <2>1. Rows \subseteq Sites
    BY DEF Rows
  <2> QED
    BY <2>1, BoundsAssumption, FS_Subset
<1>3. Cardinality(Rows) \in Nat
  BY <1>2, FS_CardinalityType
<1>4. ASSUME Here(r)'.row = NoRow <=> Here(r).row = NoRow PROVE Cardinality(Rows)' = Cardinality(Rows)
  <2>1. Rows' = Rows
    BY <1>1, <1>4, SMT DEF Rows
  <2> QED
    BY <2>1
<1>5. ASSUME Here(r).row = NoRow, Here(r)'.row # NoRow PROVE Cardinality(Rows)' = Cardinality(Rows) + 1
  <2>1. Rows' = Rows \cup {Site(r)} /\ Site(r) \notin Rows
    BY <1>1, <1>5, SMT DEF Rows
  <2> QED
    BY <1>2, <2>1, FS_AddElement
<1>6. ASSUME Here(r).row # NoRow, Here(r)'.row = NoRow PROVE Cardinality(Rows)' = Cardinality(Rows) - 1
  <2>1. Rows' = Rows \ {Site(r)} /\ Site(r) \in Rows
    BY <1>1, <1>6, SMT DEF Rows
  <2> QED
    BY <1>2, <2>1, FS_RemoveElement
<1> QED
  BY <1>3, <1>4, <1>5, <1>6

LEMMA QuotaStep ==
  ASSUME QuotaInv, NEW r \in Requests, Operation(r)
  PROVE  QuotaInv'
<1>0. /\ Typed /\ Typed' /\ (\A q \in Requests : FreshRead(q)) /\ \A q \in Requests : FreshRead(q)'
  <2>1. Typed /\ \A q \in Requests : FreshRead(q)
    BY Zenon DEF QuotaInv
  <2> QED
    BY <2>1, TypedStep, FreshStep
<1> SUFFICES ASSUME Quota > 0, stale' = {}
             PROVE  Cardinality(Rows)' <= Quota /\ \A q \in Requests : HasRoom(q)'
  BY <1>0, Zenon DEF QuotaInv
<1>1. /\ want' = want /\ OthersStay(r) /\ stale = {} /\ pc \in [Requests -> PCs] /\ TypeOK
      /\ Cardinality(Rows) <= Quota /\ \A q \in Requests : HasRoom(q)
  <2>1. want' = want /\ OthersStay(r) /\ stale \subseteq stale'
    BY <1>0, ControlMoves, VerdictsStay
  <2>2. stale = {}
    BY <2>1, SMT
  <2> QED
    BY <1>0, <2>1, <2>2, Zenon DEF QuotaInv, Typed, TypeOK
<1>2. \A q \in Requests : Kind(q)' = Kind(q)
  BY <1>1, Zenon DEF Kind
<1>q. Quota \in Nat
  BY BoundsAssumption
<1>3. CASE site' = site /\ (Running(r)' => Running(r) \/ Start(r))
  <2>1. Cardinality(Rows)' = Cardinality(Rows)
    BY <1>3 DEF Rows
  <2>2. ASSUME NEW q \in Requests PROVE HasRoom(q)'
    <3>1. Here(q)' = Here(q)
      BY <1>1, <1>3 DEF Here
    <3>2. CASE q # r
      BY <1>1, <1>2, <2>1, <3>1, <3>2, Zenon DEF OthersStay, HasRoom, Running
    <3>3. CASE q = r
      <4>1. ASSUME Kind(r) = "create", pc'[r] = "ready" PROVE Cardinality(Rows) < Quota
        <5>1. Prepare(r)
          <6>1. ~Do(r) /\ ~Undo(r) /\ ~UndoFails(r)
            BY <4>1, SMT DEF Do, Undo, UndoFails
          <6>2. ~PrepareRefused(r) /\ ~Start(r) /\ ~Fail(r) /\ ~Return(r)
            BY <1>1, <4>1, SMT DEF PrepareRefused, Start, Fail, Return, Goto
          <6> QED
            BY <6>1, <6>2, Zenon DEF Operation
        <5> QED
          BY <4>1, <5>1, Zenon DEF Prepare, Acceptable, Kind
      <4>2. ASSUME Kind(r) \in {"create", "delete"}, Running(r)', Here(r).row = NoRow
            PROVE  Cardinality(Rows) < Quota
        <5>1. CASE Running(r)
          BY <1>1, <4>2, <5>1, Zenon DEF HasRoom
        <5>2. CASE Start(r)
          <6>1. pc[r] = "ready" /\ r \notin stale
            BY <1>1, <5>2, SMT DEF Start
          <6>2. Kind(r) = "create"
            <7>1. Kind(r) = "delete" => snap[r] \in Row
              BY <1>0, <6>1, SMT DEF Typed, Read
            <7>2. Kind(r) = "delete" => Here(r).row = snap[r]
              BY <1>0, <6>1, SMT DEF FreshRead
            <7> QED
              BY <4>2, <7>1, <7>2, NamesAssumption, SMT
          <6> QED
            BY <1>1, <6>1, <6>2, Zenon DEF HasRoom
        <5> QED
          BY <1>3, <4>2, <5>1, <5>2
      <4>3. HasRoom(r)'
        BY <1>2, <2>1, <3>1, <3>3, <4>1, <4>2, Zenon DEF HasRoom
      <4> QED
        BY <3>3, <4>3
    <3> QED
      BY <3>2, <3>3
  <2> QED
    BY <1>1, <2>1, <2>2
<1>4. CASE /\ Running(r) /\ \A q \in Requests \ {r} : pc[q] # "ready"
           /\ Do(r) \/ Fail(r) \/ Undo(r) \/ UndoFails(r)
  <2>1. /\ \A s \in Sites \ {Site(r)} : site'[s] = site[s]
        /\ pc'[r] \in {"do", "undo"}
    <3>1. \A s \in Sites \ {Site(r)} : site'[s] = site[s]
      BY <1>0, <1>4, Does, Fails, Undoes, UndoesInVain, Zenon DEF RowKept
    <3>2. pc'[r] \in {"do", "undo"}
      BY <1>1, <1>4, SMT DEF Do, Fail, Undo, UndoFails, Goto
    <3> QED
      BY <3>1, <3>2
  <2>2. ASSUME NEW q \in Requests \ {r} PROVE HasRoom(q)'
    <3>1. pc'[q] = pc[q] /\ pc[q] # "ready" /\ ~Running(q)
      BY <1>0, <1>1, <1>4, Alone, Zenon DEF OthersStay
    <3> QED
      BY <3>1, Zenon DEF HasRoom, Running
  <2>3. /\ Cardinality(Rows) \in Nat
        /\ (Here(r)'.row = NoRow <=> Here(r).row = NoRow) => Cardinality(Rows)' = Cardinality(Rows)
        /\ Here(r).row = NoRow /\ Here(r)'.row # NoRow => Cardinality(Rows)' = Cardinality(Rows) + 1
        /\ Here(r).row # NoRow /\ Here(r)'.row = NoRow => Cardinality(Rows)' = Cardinality(Rows) - 1
    BY <1>0, <1>1, <2>1, RowsCounted
  <2>4. Here(r).row = NoRow /\ Here(r)'.row # NoRow => Kind(r) \in {"create", "delete"}
    <3>1. CASE Do(r)
      <4>1. /\ StepOf(r) \in StepNames /\ Pos(r, StepOf(r)) > 0 /\ After(r, StepOf(r), Here(r), Here(r)')
            /\ Possible(r, StepOf(r), Here(r))
        <5>1. at[r] \in 1..Last(r) /\ Pos(r, StepOf(r)) = at[r]
          BY <1>0, <3>1, Does
        <5>2. Pos(r, StepOf(r)) > 0
          BY <1>1, <5>1, StepPlaces, SMT
        <5> QED
          BY <1>0, <3>1, <5>2, Does
      <4>2. StepOf(r) \in {"insert", "deleteRow"} => Kind(r) \in {"create", "delete"}
        BY <1>1, <4>1, LastStep, SMT
      <4>3. StepOf(r) = "update" => Here(r).row # NoRow
        BY <4>1, Zenon DEF Possible, SameRow
      <4>4. StepOf(r) \notin RowSteps => Here(r)'.row = Here(r).row
        BY <4>1, Zenon DEF After
      <4> QED
        BY <4>2, <4>3, <4>4, SMT DEF RowSteps
    <3>2. CASE Undo(r)
      <4>1. /\ StepOf(r) \in StepNames /\ Pos(r, StepOf(r)) > 0 /\ Back(r, StepOf(r), Here(r), Here(r)')
            /\ Undoable(r, StepOf(r), Here(r))
        <5>1. at[r] \in 1..Last(r) /\ Pos(r, StepOf(r)) = at[r]
          BY <1>0, <3>2, Undoes
        <5>2. Pos(r, StepOf(r)) > 0
          BY <1>1, <5>1, StepPlaces, SMT
        <5> QED
          BY <1>0, <3>2, <5>2, Undoes
      <4>2. StepOf(r) \in {"insert", "deleteRow"} => Kind(r) \in {"create", "delete"}
        BY <1>1, <4>1, LastStep, SMT
      <4>3. StepOf(r) = "update" => Here(r).row # NoRow
        BY <4>1, Zenon DEF Undoable, SameRow
      <4>4. StepOf(r) \notin RowSteps => Here(r)'.row = Here(r).row
        BY <4>1, Zenon DEF Back
      <4> QED
        BY <4>2, <4>3, <4>4, SMT DEF RowSteps
    <3>3. CASE Fail(r)
      BY <1>0, <3>3, Fails, Zenon DEF RowKept
    <3>4. CASE UndoFails(r)
      BY <1>0, <3>4, UndoesInVain, Zenon DEF RowKept
    <3> QED
      BY <1>4, <3>1, <3>2, <3>3, <3>4
  <2>5. Here(r).row = NoRow /\ Kind(r) \in {"create", "delete"} => Cardinality(Rows) < Quota
    BY <1>1, <1>4, Zenon DEF HasRoom
  <2>6. Cardinality(Rows)' <= Quota
    BY <1>1, <1>q, <2>3, <2>4, <2>5, SMT
  <2>7. HasRoom(r)'
    <3>1. pc'[r] # "ready"
      BY <2>1, SMT
    <3>2. Kind(r) \in {"create", "delete"} /\ Here(r)'.row = NoRow => Cardinality(Rows)' < Quota
      BY <1>1, <1>q, <2>3, <2>5, SMT
    <3> QED
      BY <1>2, <3>1, <3>2, Zenon DEF HasRoom
  <2> QED
    BY <2>2, <2>6, <2>7
<1>5. \/ site' = site /\ (Running(r)' => Running(r) \/ Start(r))
      \/ Running(r) /\ (\A q \in Requests \ {r} : pc[q] # "ready") /\ (Do(r) \/ Fail(r) \/ Undo(r) \/ UndoFails(r))
  <2>1. CASE site' = site
    <3>1. Running(r)' => Running(r) \/ Start(r)
      BY <1>0, Idles
    <3> QED
      BY <2>1, <3>1
  <2>2. CASE /\ site' # site /\ Running(r) /\ stale' = stale \cup {q \in Requests \ {r} : pc[q] = "ready"}
    <3>1. \A q \in Requests \ {r} : pc[q] # "ready"
      BY <2>2, SMT
    <3>2. Do(r) \/ Fail(r) \/ Undo(r) \/ UndoFails(r)
      BY <2>2, Zenon DEF Operation, Prepare, PrepareRefused, Start, Return
    <3> QED
      BY <2>2, <3>1, <3>2
  <2> QED
    BY <1>0, <2>1, <2>2, Outdates
<1> QED
  BY <1>3, <1>4, <1>5

(***************************************************************************)
(* While every plan is fresh the quota of websites is kept, although       *)
(* ensureWebsiteQuota looks at preparation only: who changes the number of *)
(* websites outdates the plans that wait.                                  *)
(***************************************************************************)
THEOREM QuotaOfFreshPlans == Spec => []FreshQuotaKept
<1>1. ASSUME Init PROVE QuotaInv
  <2>1. Typed
    BY <1>1, TypedInit
  <2>2. \A r \in Requests : FreshRead(r) /\ HasRoom(r)
    BY <1>1, SMT DEF Init, FreshRead, HasRoom, Running
  <2>3. Quota > 0 => Cardinality(Rows) <= Quota
    BY <1>1, BeforeAssumption, Zenon DEF Init, Rows
  <2> QED
    BY <2>1, <2>2, <2>3, Zenon DEF QuotaInv
<1>2. ASSUME QuotaInv, UNCHANGED vars PROVE QuotaInv'
  <2>1. Typed'
    BY <1>2, TypedStutter DEF QuotaInv
  <2>2. \A r \in Requests : (FreshRead(r)' <=> FreshRead(r)) /\ (HasRoom(r)' <=> HasRoom(r))
    BY <1>2 DEF vars, FreshRead, HasRoom, Running, Kind, Here, Rows
  <2>3. Cardinality(Rows)' = Cardinality(Rows) /\ stale' = stale
    BY <1>2 DEF vars, Rows
  <2> QED
    BY <1>2, <2>1, <2>2, <2>3, Zenon DEF QuotaInv
<1>3. QuotaInv /\ [Next]_vars => QuotaInv'
  BY <1>2, QuotaStep, Zenon DEF Next
<1>4. QuotaInv => FreshQuotaKept
  BY Zenon DEF QuotaInv, FreshQuotaKept
<1> QED
  BY <1>1, <1>3, <1>4, PTL DEF Spec
=============================================================================
