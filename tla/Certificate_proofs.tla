------------------------- MODULE Certificate_proofs -------------------------
(***************************************************************************)
(* The invariants of module Certificate, for any names, any number of      *)
(* calls and any sites to start from that BeforeAssumption admits.         *)
(***************************************************************************)
EXTENDS Certificate, FiniteSetTheorems, TLAPS

StepNames == {"http", "issue", "inspect", "https", "flag", "name", "record", "refresh", "reload",
              "check", "vhost", "switch"}
Issuers == {"enable", "addName", "removeName"}
Aliasing == {"addAlias", "removeAlias"}

(* The vhost, or the link, that a reconciliation has to put right.         *)
FileDrifts(c) == snap[c].file # Rendered(snap[c].row)
LinkDrifts(c) == Exists(snap[c]) # snap[c].row.enabled

(* The place of each step in the calls that have it, 0 in the others.      *)
Pos(c, s) ==
  CASE s = "http" -> IF Kind(c) \in Issuers \cup {"disable"} THEN 1 ELSE 0
    [] s = "issue" -> IF Kind(c) \in Issuers THEN 2 ELSE IF Kind(c) = "renew" THEN 1 ELSE 0
    [] s = "inspect" -> IF Kind(c) \in Issuers THEN 3 ELSE IF Kind(c) = "renew" THEN 2 ELSE 0
    [] s = "https" -> IF Kind(c) \in Issuers THEN 4 ELSE 0
    [] s = "flag" -> IF Kind(c) = "enable" THEN 5 ELSE IF Kind(c) = "disable" THEN 2 ELSE 0
    [] s = "name" -> IF Kind(c) \in {"addName", "removeName"} THEN 5
                     ELSE IF Kind(c) \in Aliasing THEN 2 ELSE 0
    [] s = "record" -> IF Kind(c) \in Issuers THEN 6 ELSE 0
    [] s = "check" -> IF Kind(c) = "enable" THEN 7 ELSE 0
    [] s = "refresh" -> IF Kind(c) = "renew" THEN 3 ELSE 0
    [] s = "reload" -> IF Kind(c) = "renew" THEN 4 ELSE 0
    [] s = "vhost" -> IF Kind(c) \in Aliasing \/ (Kind(c) = "reconcile" /\ FileDrifts(c)) THEN 1 ELSE 0
    [] s = "switch" -> IF Kind(c) = "reconcile" /\ LinkDrifts(c)
                       THEN (IF FileDrifts(c) THEN 2 ELSE 1) ELSE 0

Last(c) ==
  CASE Kind(c) = "enable" -> 7
    [] Kind(c) \in {"addName", "removeName"} -> 6
    [] Kind(c) = "renew" -> 4
    [] Kind(c) \in Aliasing \cup {"disable"} -> 2
    [] Kind(c) = "reconcile" -> (IF FileDrifts(c) THEN 1 ELSE 0) + (IF LinkDrifts(c) THEN 1 ELSE 0)

(* Done on the way forward; still in place on the way back.                *)
Did(c, s) == 0 < Pos(c, s) /\ Pos(c, s) < at[c]
Stands(c, s) == 0 < Pos(c, s) /\ Pos(c, s) <= at[c]

Placed(c) ==
  /\ pc[c] \in {"idle", "wait"} => at[c] = 1
  /\ pc[c] = "run" => at[c] \in 1..Last(c) + 1
  /\ pc[c] = "undo" => at[c] \in 0..Last(c)
  /\ pc[c] = "undo" /\ Kind(c) \in TLSKinds =>
       at[c] \in 0..(IF Kind(c) \in Issuers THEN 1 ELSE 0)

(* Each call orders a certificate once at most, and checks it once.        *)
Counted(c) ==
  /\ c \in issued \cup renewed => pc[c] \in {"run", "undo", "ok", "failed", "crashed"}
  /\ c \in issued /\ pc[c] = "run" => Did(c, "issue")
  /\ c \in renewed /\ pc[c] = "run" => Did(c, "check")
SerialCounts ==
  site.lineage # NoLineage => site.lineage.serial <= 1 + Cardinality(issued) + Cardinality(renewed)

Typed == TypeOK /\ SerialCounts /\ \A c \in Callers : Placed(c) /\ Counted(c)

(* Whatever a call may still install or refer to, there is a lineage for   *)
(* it: there was one when the call has read it, or the call has issued it. *)
Backed(c) ==
  /\ snap[c].lineage # NoLineage => site.lineage # NoLineage
  /\ snap[c].row.ssl => site.lineage # NoLineage
  /\ saved[c].file # NoFile /\ saved[c].file.tls => site.lineage # NoLineage
  /\ pc[c] = "run" /\ Did(c, "issue") => site.lineage # NoLineage
  /\ pc[c] \in {"wait", "run"} /\ Kind(c) = "renew" => snap[c].lineage # NoLineage

BackedInv == Typed /\ NothingWithoutLineage /\ \A c \in Callers : Backed(c)

(* A call that has not overlapped with another has the site for itself.    *)
Alone(c) ==
  pc[c] \in Active /\ c \notin overlapped => \A d \in Callers \ {c} : pc[d] \notin Active

(* The checks before the first step, of what the call has read.            *)
Admitted(c) ==
  LET row == snap[c].row IN
  /\ Kind(c) = "addName" => row.ssl /\ call[c].alias \notin row.aliases
  /\ Kind(c) = "removeName" => row.ssl /\ call[c].alias \in row.aliases
  /\ Kind(c) = "renew" => snap[c].lineage # NoLineage
  /\ Kind(c) = "addAlias" => ~row.ssl /\ call[c].alias \notin row.aliases
  /\ Kind(c) = "removeAlias" => ~row.ssl /\ call[c].alias \in row.aliases

(* The lineage after the step "issue".                                     *)
Has(c) ==
  /\ c \in issued \cup kept
  /\ site.lineage # NoLineage
  /\ site.lineage.sans = IF Kind(c) = "renew" THEN snap[c].lineage.sans ELSE Names(c)
  /\ c \notin issued => /\ Kind(c) = "enable" /\ snap[c].lineage # NoLineage
                        /\ site.lineage.sans = snap[c].lineage.sans

(* The site a call leaves behind on its way forward: what it has found,    *)
(* changed by each of its steps so far.                                    *)
Forward(c) ==
  LET x == snap[c] IN
  /\ site.row.ssl = IF Did(c, "flag") THEN Kind(c) = "enable" ELSE x.row.ssl
  /\ site.row.aliases = IF Did(c, "name") THEN Names(c) ELSE x.row.aliases
  /\ site.row.enabled = x.row.enabled
  /\ site.file = IF Did(c, "https") THEN VHost(c, "https")
                 ELSE IF Did(c, "http") THEN VHost(c, "http")
                 ELSE IF Did(c, "vhost") THEN VHost(c, "vhost") ELSE x.file
  /\ site.link = IF Did(c, "switch") THEN x.row.enabled ELSE x.link
  /\ IF Did(c, "issue") THEN Has(c) ELSE site.lineage = x.lineage
  /\ Did(c, "inspect") /\ Kind(c) # "enable" => got[c] = site.lineage.serial
  /\ IF Did(c, "record")
     THEN site.record # NoRecord /\ (Kind(c) # "enable" => site.record = New(c))
     ELSE IF Did(c, "refresh") THEN site.record # NoRecord => site.record.serial = got[c]
     ELSE site.record = x.record
  /\ Did(c, "http") \/ Did(c, "vhost") => saved[c].file = x.file
  /\ Did(c, "switch") => saved[c].link = x.link

(* On its way back a TLS call undoes the plain vhost at most.              *)
TLSBack(c) ==
  LET x == snap[c] IN
  /\ \/ Kind(c) # "disable" /\ Has(c)
     \/ site.lineage = x.lineage
  /\ c \notin issued \cup kept => site.lineage = x.lineage
  /\ \/ site.row = x.row
     \/ /\ Kind(c) \in Issuers /\ Has(c)
        /\ Kind(c) # "enable" => site.row.ssl = x.row.ssl
        /\ site.row.aliases \in {x.row.aliases, Names(c)}
  /\ \/ site.file \in {x.file, VHost(c, "http")}
     \/ site.file = VHost(c, "https") /\ Kind(c) \in Issuers /\ Has(c)
  /\ at[c] = 1 => saved[c].file = x.file
  /\ c \notin issued \cup kept \cup torn =>
       /\ site.row = x.row /\ site.link = x.link /\ site.record = x.record
       /\ at[c] = 0 => site.file = x.file \/ (Kind(c) = "disable" /\ site.file = VHost(c, "http"))

(* A plan undoes every step.                                               *)
PlanBack(c) ==
  LET x == snap[c] IN
  /\ site.lineage = x.lineage /\ site.record = x.record
  /\ site.row.ssl = x.row.ssl /\ site.row.enabled = x.row.enabled
  /\ \/ site.row.aliases = IF Stands(c, "name") THEN Names(c) ELSE x.row.aliases
     \/ c \in torn /\ Kind(c) \in Aliasing
  /\ \/ site.file = IF Stands(c, "vhost") THEN VHost(c, "vhost") ELSE x.file
     \/ c \in torn /\ site.file \in {VHost(c, "vhost"), x.file}
  /\ \/ site.link = IF Stands(c, "switch") THEN x.row.enabled ELSE x.link
     \/ c \in torn
  /\ Stands(c, "vhost") => saved[c].file = x.file
  /\ Stands(c, "switch") => saved[c].link = x.link

Tracked(c) ==
  /\ Alone(c)
  /\ pc[c] \in Active => Admitted(c)
  /\ c \notin overlapped =>
       /\ pc[c] \in {"wait", "run"} => Forward(c)
       /\ pc[c] = "undo" /\ Kind(c) \in TLSKinds => TLSBack(c)
       /\ pc[c] = "undo" /\ Kind(c) \in PlanKinds => PlanBack(c)

TrackInv == BackedInv /\ \A c \in Callers : Tracked(c)

(* Between calls that do not overlap, and at the start of each, the names  *)
(* of the vhost and of the row are covered.                                *)
Covered(x) == FileCovered(x) /\ RowCovered(x)
CoverInv ==
  /\ TrackInv
  /\ overlapped = {} /\ ~(\E c \in Callers : Shrunk(c)) =>
       /\ Calm => Covered(site)
       /\ \A c \in Callers : pc[c] \in Active => Covered(snap[c])

(* What a step leaves of the site.                                         *)
SameBut(written) ==
  /\ "ssl" \notin written => site'.row.ssl = site.row.ssl
  /\ "aliases" \notin written => site'.row.aliases = site.row.aliases
  /\ "enabled" \notin written => site'.row.enabled = site.row.enabled
  /\ "file" \notin written => site'.file = site.file
  /\ "link" \notin written => site'.link = site.link
  /\ "lineage" \notin written => site'.lineage = site.lineage
  /\ "record" \notin written => site'.record = site.record

(* The effect of the step s of c.                                          *)
StepDone(c, s) ==
  /\ s \in {"http", "https", "vhost"} => SameBut({"file"}) /\ site'.file = VHost(c, s)
  /\ s = "switch" => SameBut({"link"}) /\ site'.link = snap[c].row.enabled
  /\ s = "issue" =>
       \/ /\ SameBut({"lineage"}) /\ issued' = issued \cup {c} /\ kept' = kept
          /\ site'.lineage # NoLineage /\ site'.lineage.sans = Asked(c)
       \/ SameBut({}) /\ issued' = issued /\ kept' = kept \cup {c} /\ MayKeep(c)
  /\ s = "check" => /\ SameBut({"lineage"})
                    /\ \/ site'.lineage = site.lineage
                       \/ /\ site.lineage # NoLineage /\ site'.lineage # NoLineage
                          /\ site'.lineage.sans = site.lineage.sans
  /\ s = "inspect" => SameBut({}) /\ got'[c] = site.lineage.serial
  /\ s = "flag" => SameBut({"ssl"}) /\ (site'.row.ssl <=> Kind(c) = "enable")
  /\ s = "name" => /\ SameBut({"aliases"})
                   /\ site'.row.aliases = IF Kind(c) \in {"addName", "addAlias"}
                                          THEN site.row.aliases \cup {call[c].alias}
                                          ELSE site.row.aliases \ {call[c].alias}
  /\ s = "record" => /\ SameBut({"record"}) /\ site'.record # NoRecord
                     /\ Kind(c) # "enable" => site'.record = New(c)
  /\ s = "refresh" => /\ SameBut({"record"})
                      /\ site.record = NoRecord => site'.record = NoRecord
                      /\ site'.record # NoRecord => site'.record.serial = got[c]
  /\ s = "reload" => SameBut({})
  /\ s # "issue" => issued' = issued /\ kept' = kept
  /\ s # "check" => renewed' = renewed
  /\ s # "inspect" => got'[c] = got[c]
  /\ s \in {"http", "vhost"} => saved'[c].file = site.file
  /\ s \notin {"http", "vhost"} => saved'[c].file = saved[c].file
  /\ s = "switch" => saved'[c].link = site.link

(* The types that a step of the call c may change.                         *)
SerialsInOrder ==
  site'.lineage # NoLineage => site'.lineage.serial <= 1 + Cardinality(issued') + Cardinality(renewed')
DataTyped ==
  /\ site' \in Site /\ SerialsInOrder
  /\ saved' \in [Callers -> [file : File \cup {NoFile}, link : BOOLEAN]]
  /\ got' \in [Callers -> Serials]
  /\ issued' \subseteq Callers /\ kept' \subseteq Callers /\ renewed' \subseteq Callers

OwnData(c) ==
  /\ \A d \in Callers \ {c} : saved'[d] = saved[d] /\ got'[d] = got[d]
  /\ issued' \in {issued, issued \cup {c}}
  /\ kept' \in {kept, kept \cup {c}}
  /\ renewed' \in {renewed, renewed \cup {c}}


(* The control of the other calls, and its types.                          *)
OwnControl(c) ==
  /\ call' = call
  /\ \A d \in Callers \ {c} : pc'[d] = pc[d] /\ at'[d] = at[d] /\ snap'[d] = snap[d]
  /\ overlapped \subseteq overlapped' /\ torn' \in {torn, torn \cup {c}}
ControlTyped ==
  /\ lock' \in Callers \cup {NoCaller} /\ call' \in [Callers -> Call]
  /\ pc' \in [Callers -> PCs] /\ at' \in [Callers -> 0..8] /\ snap' \in [Callers -> Site]
  /\ overlapped' \subseteq Callers /\ torn' \subseteq Callers

(* What an undone step puts back.                                          *)
StepUndone(c, s) ==
  /\ s \in {"http", "vhost", "switch", "name"}
  /\ s \in {"http", "vhost"} => SameBut({"file"}) /\ site'.file = saved[c].file
  /\ s = "switch" => SameBut({"link"}) /\ site'.link = saved[c].link
  /\ s = "name" => /\ SameBut({"aliases"})
                   /\ site'.row.aliases = IF Kind(c) = "addAlias"
                                          THEN site.row.aliases \ {call[c].alias}
                                          ELSE site.row.aliases \cup {call[c].alias}

(* What a failure at the present step may do.                              *)
StepFailed(c) ==
  \/ SameBut({}) /\ issued' = issued /\ kept' = kept
  \/ /\ SameBut({"lineage"}) /\ issued' = issued \cup {c} /\ kept' = kept /\ c \notin issued
     /\ site'.lineage # NoLineage /\ site'.lineage.sans = Asked(c)
     /\ Pos(c, "issue") = at[c]
  \/ /\ SameBut({"lineage"}) /\ issued' = issued /\ kept' = kept
     /\ site.lineage # NoLineage /\ site'.lineage # NoLineage
     /\ site'.lineage.sans = site.lineage.sans
     /\ Pos(c, "check") = at[c] /\ at[c] = 7 /\ Kind(c) = "enable"

(* The kind of a call, its name and what it has read.                      *)
LEMMA Kinds ==
  ASSUME TypeOK, NEW c \in Callers
  PROVE  /\ Kind(c) \in TLSKinds \cup PlanKinds /\ call[c].alias \in Aliases
         /\ snap[c] \in Site /\ snap[c].row \in Row
<1> QED
  BY SMT DEF TypeOK, Kind, Call, Site

(* The steps of a reconciliation are the drifts.                           *)
LEMMA ReconcileSteps ==
  ASSUME NEW c, Kind(c) = "reconcile"
  PROVE  Steps(c) = (IF FileDrifts(c) THEN <<"vhost">> ELSE <<>>)
                    \o (IF LinkDrifts(c) THEN <<"switch">> ELSE <<>>)
<1> QED
  BY SMT DEF Steps, FileDrifts, LinkDrifts

(* Two steps joined.                                                       *)
LEMMA Joined ==
  ASSUME NEW s, NEW a, NEW b, s = <<a>> \o <<b>>
  PROVE  Len(s) = 2 /\ s[1] = a /\ s[2] = b
<1> QED
  BY SMT

(***************************************************************************)
(* Where each step of a call stands: Pos is the inverse of Steps, for each *)
(* kind of call.                                                           *)
(***************************************************************************)
LEMMA StepPlaces ==
  ASSUME TypeOK, NEW c \in Callers
  PROVE  /\ Len(Steps(c)) = Last(c) /\ Last(c) \in 0..7
         /\ \A k \in 1..Last(c) : Steps(c)[k] \in StepNames /\ Pos(c, Steps(c)[k]) = k
         /\ \A s \in StepNames : Pos(c, s) \in 0..Last(c)
<1>1. Kind(c) \in TLSKinds \cup PlanKinds
  BY Kinds
<1>2. CASE Kind(c) = "enable"
  <2>1. Steps(c) = <<"http", "issue", "inspect", "https", "flag", "record", "check">>
    BY <1>2, Zenon DEF Steps
  <2>2. Last(c) = 7
    BY <1>2, SMT DEF Last, Issuers, Aliasing
  <2> QED
    BY <1>2, <2>1, <2>2, SMT DEF StepNames, Pos, Issuers, Aliasing
<1>3. CASE Kind(c) = "disable"
  <2>1. Steps(c) = <<"http", "flag">>
    BY <1>3, Zenon DEF Steps
  <2>2. Last(c) = 2
    BY <1>3, SMT DEF Last, Issuers, Aliasing
  <2> QED
    BY <1>3, <2>1, <2>2, SMT DEF StepNames, Pos, Issuers, Aliasing
<1>4. CASE Kind(c) \in {"addName", "removeName"}
  <2>1. Steps(c) = <<"http", "issue", "inspect", "https", "name", "record">>
    BY <1>4, Zenon DEF Steps
  <2>2. Last(c) = 6
    BY <1>4, SMT DEF Last, Issuers, Aliasing
  <2> QED
    BY <1>4, <2>1, <2>2, SMT DEF StepNames, Pos, Issuers, Aliasing
<1>5. CASE Kind(c) = "renew"
  <2>1. Steps(c) = <<"issue", "inspect", "refresh", "reload">>
    BY <1>5, Zenon DEF Steps
  <2>2. Last(c) = 4
    BY <1>5, SMT DEF Last, Issuers, Aliasing
  <2> QED
    BY <1>5, <2>1, <2>2, SMT DEF StepNames, Pos, Issuers, Aliasing
<1>6. CASE Kind(c) \in {"addAlias", "removeAlias"}
  <2>1. Steps(c) = <<"vhost", "name">>
    BY <1>6, Zenon DEF Steps
  <2>2. Last(c) = 2
    BY <1>6, SMT DEF Last, Issuers, Aliasing
  <2> QED
    BY <1>6, <2>1, <2>2, SMT DEF StepNames, Pos, Issuers, Aliasing
<1>7. CASE Kind(c) = "reconcile"
  <2>1. Last(c) = (IF FileDrifts(c) THEN 1 ELSE 0) + (IF LinkDrifts(c) THEN 1 ELSE 0)
    BY <1>7, SMT DEF Last, Issuers, Aliasing
  <2>2. CASE FileDrifts(c) /\ LinkDrifts(c)
    <3>1. Steps(c) = <<"vhost">> \o <<"switch">>
      BY <1>7, <2>2, ReconcileSteps, Zenon
    <3>2. Len(Steps(c)) = 2 /\ Steps(c)[1] = "vhost" /\ Steps(c)[2] = "switch"
      BY <3>1, Joined, Zenon
    <3>3. Last(c) = 2
      BY <2>1, <2>2, SMT
    <3> QED
      BY <1>7, <2>2, <3>2, <3>3, SMT DEF StepNames, Pos, Issuers, Aliasing
  <2>3. CASE FileDrifts(c) /\ ~LinkDrifts(c)
    <3>1. Steps(c) = <<"vhost">> /\ Last(c) = 1
      BY <1>7, <2>1, <2>3, ReconcileSteps, SMT
    <3> QED
      BY <1>7, <2>3, <3>1, SMT DEF StepNames, Pos, Issuers, Aliasing
  <2>4. CASE ~FileDrifts(c) /\ LinkDrifts(c)
    <3>1. Steps(c) = <<"switch">> /\ Last(c) = 1
      BY <1>7, <2>1, <2>4, ReconcileSteps, SMT
    <3> QED
      BY <1>7, <2>4, <3>1, SMT DEF StepNames, Pos, Issuers, Aliasing
  <2>5. CASE ~FileDrifts(c) /\ ~LinkDrifts(c)
    <3>1. Steps(c) = <<>> /\ Last(c) = 0
      BY <1>7, <2>1, <2>5, ReconcileSteps, SMT
    <3> QED
      BY <1>7, <2>5, <3>1, SMT DEF StepNames, Pos, Issuers, Aliasing
  <2> QED
    BY <2>2, <2>3, <2>4, <2>5
<1> QED
  BY <1>1, <1>2, <1>3, <1>4, <1>5, <1>6, <1>7, SMT DEF TLSKinds, PlanKinds

(* Two steps of a call do not share a place.                               *)
LEMMA Apart ==
  ASSUME NEW c, NEW s \in StepNames, NEW t \in StepNames, Pos(c, s) > 0, Pos(c, s) = Pos(c, t)
  PROVE  s = t
<1> QED
  BY SMT DEF StepNames, Pos, Issuers, Aliasing

(***************************************************************************)
(* What follows from the call and from what it has read stays while they   *)
(* do.                                                                     *)
(***************************************************************************)
LEMMA SameCall ==
  ASSUME NEW c, call' = call, snap'[c] = snap[c]
  PROVE  /\ Kind(c)' = Kind(c) /\ Names(c)' = Names(c) /\ Last(c)' = Last(c)
         /\ \A s : Pos(c, s)' = Pos(c, s) /\ VHost(c, s)' = VHost(c, s)
         /\ Admitted(c)' <=> Admitted(c)
<1>1. Kind(c)' = Kind(c)
  BY DEF Kind
<1>2. FileDrifts(c)' = FileDrifts(c) /\ LinkDrifts(c)' = LinkDrifts(c)
  BY SMT DEF FileDrifts, LinkDrifts, Rendered, Exists
<1>3. Names(c)' = Names(c)
  BY <1>1, Zenon DEF Names
<1>4. Last(c)' = Last(c)
  BY <1>1, <1>2, Zenon DEF Last
<1>5. ASSUME NEW s PROVE Pos(c, s)' = Pos(c, s) /\ VHost(c, s)' = VHost(c, s)
  BY <1>1, <1>2, <1>3, Zenon DEF Pos, VHost, Rendered
<1>6. Admitted(c)' <=> Admitted(c)
  BY <1>1, SMT DEF Admitted
<1> QED
  BY <1>1, <1>3, <1>4, <1>5, <1>6


(* The vhost file written.                                                 *)
LEMMA FileWritten ==
  ASSUME site \in Site, NEW v \in File \cup {NoFile}, site' = [site EXCEPT !.file = v]
  PROVE  site' \in Site /\ SameBut({"file"}) /\ site'.file = v
<1>1. site' \in Site
  BY Zenon DEF Site
<1>2. /\ site'.file = v
      /\ site'.row = site.row /\ site'.link = site.link /\ site'.lineage = site.lineage /\ site'.record = site.record
  BY SMT DEF Site
<1> QED
  BY <1>1, <1>2, SMT DEF SameBut

(* The link written.                                                       *)
LEMMA LinkWritten ==
  ASSUME site \in Site, NEW v \in BOOLEAN, site' = [site EXCEPT !.link = v]
  PROVE  site' \in Site /\ SameBut({"link"}) /\ site'.link = v
<1>1. site' \in Site
  BY Zenon DEF Site
<1>2. /\ site'.link = v
      /\ site'.row = site.row /\ site'.file = site.file /\ site'.lineage = site.lineage /\ site'.record = site.record
  BY SMT DEF Site
<1> QED
  BY <1>1, <1>2, SMT DEF SameBut

(* The lineage written.                                                    *)
LEMMA LineageWritten ==
  ASSUME site \in Site, NEW v \in Issue \cup {NoLineage}, site' = [site EXCEPT !.lineage = v]
  PROVE  site' \in Site /\ SameBut({"lineage"}) /\ site'.lineage = v
<1>1. site' \in Site
  BY Zenon DEF Site
<1>2. /\ site'.lineage = v
      /\ site'.row = site.row /\ site'.file = site.file /\ site'.link = site.link /\ site'.record = site.record
  BY SMT DEF Site
<1> QED
  BY <1>1, <1>2, SMT DEF SameBut

(* The certificate row written.                                            *)
LEMMA RecordWritten ==
  ASSUME site \in Site, NEW v \in Issue \cup {NoRecord}, site' = [site EXCEPT !.record = v]
  PROVE  site' \in Site /\ SameBut({"record"}) /\ site'.record = v
<1>1. site' \in Site
  BY Zenon DEF Site
<1>2. /\ site'.record = v
      /\ site'.row = site.row /\ site'.file = site.file /\ site'.link = site.link /\ site'.lineage = site.lineage
  BY SMT DEF Site
<1> QED
  BY <1>1, <1>2, SMT DEF SameBut

(* The flag of the row written.                                            *)
LEMMA SSLWritten ==
  ASSUME site \in Site, NEW v \in BOOLEAN, site' = [site EXCEPT !.row.ssl = v]
  PROVE  site' \in Site /\ SameBut({"ssl"}) /\ site'.row.ssl = v
<1> DEFINE row == [site.row EXCEPT !.ssl = v]
<1>1. site.row \in Row
  BY SMT DEF Site
<1>2. row \in Row
  BY <1>1, Zenon DEF Row
<1>3. row.ssl = v /\ row.aliases = site.row.aliases /\ row.enabled = site.row.enabled
  BY <1>1, SMT DEF Row
<1>4. site' = [site EXCEPT !.row = row]
  BY Zenon
<1> HIDE DEF row
<1>5. site' \in Site
  BY <1>2, <1>4, Zenon DEF Site
<1>6. /\ site'.row = row
      /\ site'.file = site.file /\ site'.link = site.link /\ site'.lineage = site.lineage
      /\ site'.record = site.record
  BY <1>4, SMT DEF Site
<1> QED
  BY <1>3, <1>5, <1>6, SMT DEF SameBut

(* The names of the row written.                                           *)
LEMMA AliasesWritten ==
  ASSUME site \in Site, NEW v \in SUBSET Aliases, site' = [site EXCEPT !.row.aliases = v]
  PROVE  site' \in Site /\ SameBut({"aliases"}) /\ site'.row.aliases = v
<1> DEFINE row == [site.row EXCEPT !.aliases = v]
<1>1. site.row \in Row
  BY SMT DEF Site
<1>2. row \in Row
  BY <1>1, Zenon DEF Row
<1>3. row.aliases = v /\ row.ssl = site.row.ssl /\ row.enabled = site.row.enabled
  BY <1>1, SMT DEF Row
<1>4. site' = [site EXCEPT !.row = row]
  BY Zenon
<1> HIDE DEF row
<1>5. site' \in Site
  BY <1>2, <1>4, Zenon DEF Site
<1>6. /\ site'.row = row
      /\ site'.file = site.file /\ site'.link = site.link /\ site'.lineage = site.lineage
      /\ site'.record = site.record
  BY <1>4, SMT DEF Site
<1> QED
  BY <1>3, <1>5, <1>6, SMT DEF SameBut


(* The names a call wants and the vhosts it renders.                       *)
LEMMA NamesTyped ==
  ASSUME TypeOK, NEW c \in Callers
  PROVE  /\ Names(c) \in SUBSET Aliases
         /\ VHost(c, "http") \in File /\ VHost(c, "https") \in File
         /\ Kind(c) \in PlanKinds => VHost(c, "vhost") \in File
         /\ ~VHost(c, "http").tls /\ VHost(c, "https").tls
         /\ VHost(c, "http").aliases = Names(c) /\ VHost(c, "https").aliases = Names(c)
<1>1. /\ snap[c].row.aliases \in SUBSET Aliases /\ snap[c].row.ssl \in BOOLEAN
      /\ call[c].alias \in Aliases
  BY Kinds, SMT DEF Row
<1>2. Names(c) \in SUBSET Aliases
  BY <1>1, SMT DEF Names
<1>3. /\ VHost(c, "http") = [aliases |-> Names(c), tls |-> FALSE]
      /\ VHost(c, "https") = [aliases |-> Names(c), tls |-> TRUE]
  BY Zenon DEF VHost
<1>4. ASSUME Kind(c) \in PlanKinds
      PROVE  VHost(c, "vhost") = [aliases |-> IF Kind(c) = "reconcile" THEN snap[c].row.aliases ELSE Names(c),
                                  tls |-> snap[c].row.ssl]
  <2>1. CASE Kind(c) = "reconcile"
    BY <2>1, Zenon DEF VHost, Rendered
  <2>2. CASE Kind(c) # "reconcile"
    BY <2>2, Zenon DEF VHost
  <2> QED
    BY <2>1, <2>2
<1>5. Kind(c) \in PlanKinds => VHost(c, "vhost") \in File
  BY <1>1, <1>2, <1>4, SMT DEF File
<1>6. VHost(c, "http") \in File /\ VHost(c, "https") \in File
  <2>1. [aliases |-> Names(c), tls |-> FALSE] \in File /\ [aliases |-> Names(c), tls |-> TRUE] \in File
    BY <1>2, SMT DEF File
  <2> QED
    BY <1>3, <2>1, Zenon
<1>7. /\ ~VHost(c, "http").tls /\ VHost(c, "https").tls
      /\ VHost(c, "http").aliases = Names(c) /\ VHost(c, "https").aliases = Names(c)
  BY <1>3, SMT
<1> QED
  BY <1>2, <1>5, <1>6, <1>7

(* The step a running call is at.                                          *)
LEMMA Current ==
  ASSUME Typed, NEW c \in Callers, pc[c] = "run", at[c] <= Last(c)
  PROVE  /\ Steps(c)[at[c]] \in StepNames
         /\ Pos(c, Steps(c)[at[c]]) = at[c]
         /\ \A s \in StepNames : Did(c, s) => s # Steps(c)[at[c]]
<1>1. at[c] \in 1..Last(c) /\ TypeOK
  BY StepPlaces, SMT DEF Typed, Placed, TypeOK
<1> QED
  BY <1>1, StepPlaces, SMT DEF Did

(***************************************************************************)
(* There is a serial left for a call that has not ordered, or not checked: *)
(* the bound on serials cuts nothing off.                                  *)
(***************************************************************************)
LEMMA NextSerialOK ==
  ASSUME Typed, NEW i \in SUBSET Callers, NEW r \in SUBSET Callers,
         Cardinality(i) + Cardinality(r) = Cardinality(issued) + Cardinality(renewed) + 1
  PROVE  /\ NextSerial \in Serials
         /\ NextSerial <= 1 + Cardinality(i) + Cardinality(r)
<1>1. IsFiniteSet(Callers) /\ issued \subseteq Callers /\ renewed \subseteq Callers
  BY CallersAssumption, SMT DEF Typed, TypeOK
<1>2. Cardinality(Callers) \in Nat
  BY <1>1, FS_CardinalityType
<1>3. ASSUME NEW s \in SUBSET Callers PROVE Cardinality(s) \in Nat /\ Cardinality(s) <= Cardinality(Callers)
  <2>1. IsFiniteSet(s) /\ Cardinality(s) <= Cardinality(Callers)
    BY <1>1, FS_Subset, Zenon
  <2> QED
    BY <2>1, FS_CardinalityType
<1>4. /\ Cardinality(i) \in Nat /\ Cardinality(i) <= Cardinality(Callers)
      /\ Cardinality(r) \in Nat /\ Cardinality(r) <= Cardinality(Callers)
      /\ Cardinality(issued) \in Nat /\ Cardinality(renewed) \in Nat
  BY <1>1, <1>3, Zenon
<1>5. CASE site.lineage = NoLineage
  BY <1>2, <1>4, <1>5, SMT DEF NextSerial, Serials
<1>6. CASE site.lineage # NoLineage
  <2>1. site.lineage.serial \in Nat /\ site.lineage.serial <= 1 + Cardinality(issued) + Cardinality(renewed)
    BY <1>2, <1>6, SMT DEF Typed, TypeOK, SerialCounts, Site, Issue, Serials
  <2>2. NextSerial = site.lineage.serial + 1
    BY <1>6 DEF NextSerial
  <2> QED
    BY <1>2, <1>4, <2>1, <2>2, SMT DEF Serials
<1> QED
  BY <1>5, <1>6

(* One more caller among those that have.                                  *)
LEMMA OneMore ==
  ASSUME NEW s \in SUBSET Callers, NEW c \in Callers, c \notin s
  PROVE  /\ s \cup {c} \in SUBSET Callers /\ Cardinality(s \cup {c}) = Cardinality(s) + 1
         /\ Cardinality(s) \in Nat
<1>1. IsFiniteSet(s)
  BY CallersAssumption, FS_Subset, Zenon
<1>2. Cardinality(s) \in Nat
  BY <1>1, FS_CardinalityType, Zenon
<1>3. Cardinality(s \cup {c}) = Cardinality(s) + 1
  BY <1>1, FS_AddElement, Zenon
<1> QED
  BY <1>2, <1>3

(* certbot replaces the lineage.                                           *)
LEMMA NewLineage ==
  ASSUME Typed, NEW sans \in SUBSET Aliases, site' = Issuing(sans),
         NextSerial \in Serials, NextSerial <= 1 + Cardinality(issued') + Cardinality(renewed')
  PROVE  /\ site' \in Site /\ SameBut({"lineage"}) /\ SerialsInOrder
         /\ site'.lineage # NoLineage /\ site'.lineage.sans = sans
<1> DEFINE new == [sans |-> sans, serial |-> NextSerial]
<1>1. new \in Issue /\ new.sans = sans /\ new.serial = NextSerial
  BY SMT DEF Issue
<1>2. new # NoLineage
  BY <1>1, NothingAssumption
<1>3. site' = [site EXCEPT !.lineage = new]
  BY DEF Issuing
<1> HIDE DEF new
<1>4. site' \in Site /\ SameBut({"lineage"}) /\ site'.lineage = new
  BY <1>1, <1>3, LineageWritten, Zenon DEF Typed, TypeOK
<1> QED
  BY <1>1, <1>2, <1>4, SMT DEF SerialsInOrder

(* An order, of a call that has not ordered before.                        *)
LEMMA Reissue ==
  ASSUME Typed, NEW c \in Callers, c \notin issued, Asked(c) \in SUBSET Aliases, Replaces(c)
  PROVE  /\ site' \in Site /\ SameBut({"lineage"}) /\ SerialsInOrder
         /\ site'.lineage # NoLineage /\ site'.lineage.sans = Asked(c)
<1>1. /\ issued \in SUBSET Callers /\ renewed \in SUBSET Callers
      /\ site' = Issuing(Asked(c)) /\ issued' = issued \cup {c} /\ renewed' = renewed
  BY SMT DEF Typed, TypeOK, Replaces
<1>2. issued' \in SUBSET Callers /\ Cardinality(issued') = Cardinality(issued) + 1 /\ Cardinality(issued) \in Nat
  BY <1>1, OneMore
<1>3. Cardinality(renewed) \in Nat
  BY <1>1, CallersAssumption, FS_Subset, FS_CardinalityType
<1>4. NextSerial \in Serials /\ NextSerial <= 1 + Cardinality(issued') + Cardinality(renewed)
  <2>1. Cardinality(issued') + Cardinality(renewed) = Cardinality(issued) + Cardinality(renewed) + 1
    BY <1>2, <1>3, SMT
  <2> QED
    BY <1>1, <1>2, <2>1, NextSerialOK
<1> QED
  BY <1>1, <1>4, NewLineage

(* A renewal, by a call that has not checked before.                       *)
LEMMA Renewal ==
  ASSUME Typed, NEW c \in Callers, c \notin renewed, Renews(c)
  PROVE  /\ site' \in Site /\ SameBut({"lineage"}) /\ SerialsInOrder
         /\ site.lineage # NoLineage /\ site'.lineage # NoLineage
         /\ site'.lineage.sans = site.lineage.sans
<1>1. /\ issued \in SUBSET Callers /\ renewed \in SUBSET Callers /\ site.lineage # NoLineage
      /\ site' = Issuing(site.lineage.sans) /\ renewed' = renewed \cup {c} /\ issued' = issued
  BY SMT DEF Typed, TypeOK, Renews
<1>2. renewed' \in SUBSET Callers /\ Cardinality(renewed') = Cardinality(renewed) + 1 /\ Cardinality(renewed) \in Nat
  BY <1>1, OneMore
<1>3. Cardinality(issued) \in Nat
  BY <1>1, CallersAssumption, FS_Subset, FS_CardinalityType
<1>4. NextSerial \in Serials /\ NextSerial <= 1 + Cardinality(issued) + Cardinality(renewed')
  <2>1. Cardinality(issued) + Cardinality(renewed') = Cardinality(issued) + Cardinality(renewed) + 1
    BY <1>2, <1>3, SMT
  <2> QED
    BY <1>1, <1>2, <2>1, NextSerialOK
<1>5. site.lineage.sans \in SUBSET Aliases
  BY <1>1, SMT DEF Typed, TypeOK, Site, Issue
<1> QED
  BY <1>1, <1>4, <1>5, NewLineage

(* certbot keeps it.                                                       *)
LEMMA Unwritten ==
  ASSUME Typed, UNCHANGED <<site, issued, renewed>>
  PROVE  site' \in Site /\ SerialsInOrder /\ SameBut({})
<1> QED
  BY SMT DEF Typed, TypeOK, SerialsInOrder, SerialCounts, SameBut

(* Writes besides those of certbot leave the serials in order.             *)
LEMMA KeptSerials ==
  ASSUME Typed, site'.lineage = site.lineage, UNCHANGED <<issued, kept, renewed>>
  PROVE  SerialsInOrder /\ issued' \subseteq Callers /\ kept' \subseteq Callers /\ renewed' \subseteq Callers
<1> QED
  BY SMT DEF Typed, TypeOK, SerialsInOrder, SerialCounts

(***************************************************************************)
(* A step of Apache writes the file or the link, and keeps what it has     *)
(* found.                                                                  *)
(***************************************************************************)
LEMMA ApplyEffect ==
  ASSUME Typed, NEW c \in Callers, NEW s \in StepNames, s = Steps(c)[at[c]], Pos(c, s) > 0, Apply(c)
  PROVE  StepDone(c, s) /\ DataTyped /\ OwnData(c)
<1>1. /\ TypeOK /\ site \in Site /\ got \in [Callers -> Serials] /\ snap[c].row \in Row
      /\ saved \in [Callers -> [file : File \cup {NoFile}, link : BOOLEAN]]
  BY Kinds DEF Typed, TypeOK
<1>2. /\ s \in ApacheSteps /\ site' = Applied(c, s) /\ UNCHANGED <<got, issued, kept, renewed>>
      /\ saved' = IF s = "https" THEN saved
                  ELSE [saved EXCEPT ![c].file = IF s = "switch" THEN @ ELSE site.file,
                                     ![c].link = site.link]
  BY Zenon DEF Apply
<1>3. site.file \in File \cup {NoFile} /\ site.link \in BOOLEAN
  BY <1>1, SMT DEF Site
<1>4. /\ saved' \in [Callers -> [file : File \cup {NoFile}, link : BOOLEAN]]
      /\ \A d \in Callers \ {c} : saved'[d] = saved[d]
      /\ s \in {"http", "vhost"} => saved'[c].file = site.file
      /\ s \notin {"http", "vhost"} => saved'[c].file = saved[c].file
      /\ s = "switch" => saved'[c].link = site.link
  <2>1. CASE s = "https"
    BY <1>1, <1>2, <2>1, SMT
  <2>2. CASE s # "https"
    <3> DEFINE file == IF s = "switch" THEN saved[c].file ELSE site.file
    <3>1. file \in File \cup {NoFile}
      BY <1>1, <1>3, SMT
    <3>2. saved' = [saved EXCEPT ![c] = [saved[c] EXCEPT !.file = file, !.link = site.link]]
      BY <1>1, <1>2, <2>2, Zenon
    <3> DEFINE one == [saved[c] EXCEPT !.file = file, !.link = site.link]
    <3>3. saved[c] \in [file : File \cup {NoFile}, link : BOOLEAN]
      BY <1>1, SMT
    <3> HIDE DEF file
    <3>4. one \in [file : File \cup {NoFile}, link : BOOLEAN]
      BY <1>3, <3>1, <3>3, Zenon
    <3>5. one.file = file /\ one.link = site.link
      BY <3>3, SMT
    <3> HIDE DEF one
    <3>6. saved'[c] = one /\ \A d \in Callers \ {c} : saved'[d] = saved[d]
      BY <1>1, <3>2, SMT DEF one
    <3>7. saved' \in [Callers -> [file : File \cup {NoFile}, link : BOOLEAN]]
      BY <1>1, <3>2, <3>4, SMT DEF one
    <3> QED
      BY <1>2, <2>2, <3>5, <3>6, <3>7, SMT DEF file, ApacheSteps
  <2> QED
    BY <2>1, <2>2
<1>5. CASE s = "switch"
  <2>1. site' = [site EXCEPT !.link = snap[c].row.enabled] /\ snap[c].row.enabled \in BOOLEAN
    BY <1>1, <1>2, <1>5, SMT DEF Applied, Row
  <2>2. site' \in Site /\ SameBut({"link"}) /\ site'.link = snap[c].row.enabled
    BY <1>1, <2>1, LinkWritten, Zenon
  <2>3. SerialsInOrder /\ issued' \subseteq Callers /\ kept' \subseteq Callers /\ renewed' \subseteq Callers
    BY <1>2, <2>2, KeptSerials, SMT DEF SameBut
  <2> QED
    BY <1>1, <1>2, <1>4, <1>5, <2>2, <2>3, SMT DEF StepDone, DataTyped, OwnData
<1>6. CASE s # "switch"
  <2>1. s = "vhost" => Kind(c) \in PlanKinds
    BY SMT DEF Pos, Aliasing, PlanKinds
  <2>2. site' = [site EXCEPT !.file = VHost(c, s)] /\ VHost(c, s) \in File
    BY <1>1, <1>2, <1>6, <2>1, NamesTyped, SMT DEF Applied, ApacheSteps
  <2>3. site' \in Site /\ SameBut({"file"}) /\ site'.file = VHost(c, s)
    BY <1>1, <2>2, FileWritten, Zenon
  <2>4. SerialsInOrder /\ issued' \subseteq Callers /\ kept' \subseteq Callers /\ renewed' \subseteq Callers
    BY <1>2, <2>3, KeptSerials, SMT DEF SameBut
  <2> QED
    BY <1>1, <1>2, <1>4, <1>6, <2>3, <2>4, SMT DEF StepDone, DataTyped, OwnData, ApacheSteps
<1> QED
  BY <1>5, <1>6

(* certbot is asked for names of the site.                                 *)
LEMMA AskedTyped ==
  ASSUME BackedInv, NEW c \in Callers, pc[c] = "run"
  PROVE  Asked(c) \in SUBSET Aliases
<1>1. TypeOK
  BY DEF BackedInv, Typed
<1>2. CASE Kind(c) = "renew"
  <2>1. site.lineage # NoLineage
    BY <1>2, SMT DEF BackedInv, Backed
  <2> QED
    BY <1>1, <1>2, <2>1, SMT DEF Asked, TypeOK, Site, Issue
<1>3. CASE Kind(c) # "renew"
  BY <1>1, <1>3, NamesTyped, SMT DEF Asked
<1> QED
  BY <1>2, <1>3

(* A run of certbot: the call has not ordered before.                      *)
LEMMA CertbotEffect ==
  ASSUME BackedInv, NEW c \in Callers, NEW s \in StepNames, s = Steps(c)[at[c]],
         pc[c] = "run", Pos(c, s) = at[c], Certbot(c)
  PROVE  StepDone(c, s) /\ DataTyped /\ OwnData(c)
<1>1. Typed /\ TypeOK /\ s = "issue" /\ UNCHANGED <<saved, got>>
  BY SMT DEF BackedInv, Typed, Certbot
<1>2. c \notin issued
  BY <1>1, SMT DEF Typed, Counted, Did, TypeOK
<1>3. CASE Replaces(c)
  <2>1. issued' = issued \cup {c} /\ UNCHANGED <<kept, renewed>>
    BY <1>3 DEF Replaces
  <2> QED
    BY <1>1, <1>2, <1>3, <2>1, AskedTyped, Reissue, SMT DEF StepDone, DataTyped, OwnData, TypeOK
<1>4. CASE Keeps(c)
  <2>1. MayKeep(c) /\ kept' = kept \cup {c} /\ UNCHANGED <<site, issued, renewed>>
    BY <1>4 DEF Keeps
  <2> QED
    BY <1>1, <2>1, Unwritten, SMT DEF StepDone, DataTyped, OwnData, TypeOK
<1> QED
  BY <1>3, <1>4 DEF Certbot

(* The check of the renewal: the call has not checked before.              *)
LEMMA CheckEffect ==
  ASSUME BackedInv, NEW c \in Callers, NEW s \in StepNames, s = Steps(c)[at[c]],
         pc[c] = "run", Pos(c, s) = at[c], Check(c)
  PROVE  StepDone(c, s) /\ DataTyped /\ OwnData(c)
<1>1. Typed /\ TypeOK /\ s = "check" /\ UNCHANGED <<saved, got>>
  BY SMT DEF BackedInv, Typed, Check
<1>2. c \notin renewed
  BY <1>1, SMT DEF Typed, Counted, Did, TypeOK
<1>3. CASE Renews(c)
  <2>1. renewed' = renewed \cup {c} /\ UNCHANGED <<issued, kept>>
    BY <1>3 DEF Renews
  <2> QED
    BY <1>1, <1>2, <1>3, <2>1, Renewal, SMT DEF StepDone, DataTyped, OwnData, TypeOK
<1>4. CASE UNCHANGED <<site, issued, kept, renewed>>
  <2>1. SameBut({"lineage"}) /\ site'.lineage = site.lineage
    BY <1>4, SMT DEF SameBut
  <2> QED
    BY <1>1, <1>4, <2>1, Unwritten, SMT DEF StepDone, DataTyped, OwnData, TypeOK
<1> QED
  BY <1>3, <1>4 DEF Check

(* The expiry read is that of the lineage.                                 *)
LEMMA ExpiryEffect ==
  ASSUME Typed, NEW c \in Callers, NEW s \in StepNames, s = Steps(c)[at[c]], ReadExpiry(c)
  PROVE  StepDone(c, s) /\ DataTyped /\ OwnData(c)
<1>1. /\ TypeOK /\ s = "inspect" /\ UNCHANGED <<site, saved, issued, kept, renewed>>
      /\ site.lineage # NoLineage /\ got' = [got EXCEPT ![c] = site.lineage.serial]
  BY SMT DEF Typed, ReadExpiry
<1>2. site.lineage.serial \in Serials
  BY <1>1, SMT DEF TypeOK, Site, Issue
<1>3. /\ got' \in [Callers -> Serials] /\ got'[c] = site.lineage.serial
      /\ \A d \in Callers \ {c} : got'[d] = got[d]
  BY <1>1, <1>2, SMT DEF TypeOK
<1> QED
  BY <1>1, <1>3, Unwritten, SMT DEF StepDone, DataTyped, OwnData, TypeOK


(* The certificate row a call would write.                                 *)
LEMMA NewTyped ==
  ASSUME TypeOK, NEW c \in Callers
  PROVE  New(c) \in Issue /\ New(c) # NoRecord
<1>1. Names(c) \in SUBSET Aliases /\ got[c] \in Serials
  BY NamesTyped, SMT DEF TypeOK
<1>2. New(c) \in Issue
  BY <1>1, SMT DEF New, Issue
<1> QED
  BY <1>2, NothingAssumption

(* The writes of the database.                                             *)
LEMMA RecordEffect ==
  ASSUME Typed, NEW c \in Callers, NEW s \in StepNames, s = Steps(c)[at[c]], Pos(c, s) > 0, Record(c)
  PROVE  StepDone(c, s) /\ DataTyped /\ OwnData(c)
<1>1. /\ TypeOK /\ site \in Site /\ got[c] \in Serials
      /\ site.row.aliases \in SUBSET Aliases /\ site.record \in Issue \cup {NoRecord}
      /\ call[c].alias \in Aliases
  BY Kinds, SMT DEF Typed, TypeOK, Site, Row
<1>2. /\ s \in {"flag", "name", "record", "refresh", "reload"}
      /\ site' = Recorded(c, s) /\ UNCHANGED <<saved, got, issued, kept, renewed>>
  BY SMT DEF Record
<1>3. ASSUME site' \in Site, site'.lineage = site.lineage
      PROVE  DataTyped /\ OwnData(c)
  <2>1. SerialsInOrder /\ issued' \subseteq Callers /\ kept' \subseteq Callers /\ renewed' \subseteq Callers
    BY <1>2, <1>3, KeptSerials
  <2> QED
    BY <1>1, <1>2, <1>3, <2>1, SMT DEF DataTyped, OwnData, TypeOK
<1>4. CASE s = "flag"
  <2>1. (Kind(c) = "enable") \in BOOLEAN
    BY SMT
  <2>2. site' = [site EXCEPT !.row.ssl = (Kind(c) = "enable")]
    BY <1>2, <1>4, Zenon DEF Recorded
  <2>3. site' \in Site /\ SameBut({"ssl"}) /\ site'.row.ssl = (Kind(c) = "enable")
    BY <1>1, <2>1, <2>2, SSLWritten, Zenon
  <2>4. DataTyped /\ OwnData(c)
    BY <1>3, <2>3, SMT DEF SameBut
  <2>5. SameBut({"ssl"}) /\ (site'.row.ssl <=> Kind(c) = "enable")
    BY <2>3, Zenon
  <2> QED
    BY <1>2, <1>4, <2>4, <2>5, SMT DEF StepDone
<1>5. CASE s = "name"
  <2> DEFINE names == IF Kind(c) \in {"addName", "addAlias"}
                      THEN site.row.aliases \cup {call[c].alias}
                      ELSE site.row.aliases \ {call[c].alias}
  <2>1. names \in SUBSET Aliases
    BY <1>1, SMT
  <2>2. Kind(c) \in {"addName", "addAlias", "removeName", "removeAlias"}
    BY <1>5, SMT DEF Pos, Aliasing
  <2>3. site' = [site EXCEPT !.row.aliases = names]
    <3>1. CASE Kind(c) \in {"addName", "addAlias"}
      BY <1>2, <1>5, <3>1, Zenon DEF Recorded
    <3>2. CASE Kind(c) \in {"removeName", "removeAlias"}
      <4>1. Kind(c) \notin {"addName", "addAlias"}
        BY <3>2, SMT
      <4> QED
        BY <1>2, <1>5, <3>2, <4>1, Zenon DEF Recorded
    <3> QED
      BY <2>2, <3>1, <3>2, SMT
  <2> HIDE DEF names
  <2>4. site' \in Site /\ SameBut({"aliases"}) /\ site'.row.aliases = names
    BY <1>1, <2>1, <2>3, AliasesWritten, Zenon
  <2>5. DataTyped /\ OwnData(c)
    BY <1>3, <2>4, SMT DEF SameBut
  <2> QED
    BY <1>2, <1>5, <2>4, <2>5, SMT DEF StepDone, names
<1>6. CASE s = "record"
  <2> DEFINE new == IF Kind(c) = "enable" /\ site.record # NoRecord THEN site.record ELSE New(c)
  <2>1. /\ new \in Issue \cup {NoRecord} /\ new # NoRecord
        /\ Kind(c) # "enable" => new = New(c)
    BY <1>1, NewTyped, SMT
  <2>2. site' = [site EXCEPT !.record = new]
    BY <1>2, <1>6, Zenon DEF Recorded
  <2> HIDE DEF new
  <2>3. site' \in Site /\ SameBut({"record"}) /\ site'.record = new
    BY <1>1, <2>1, <2>2, RecordWritten, Zenon
  <2>4. DataTyped /\ OwnData(c)
    BY <1>3, <2>3, SMT DEF SameBut
  <2> QED
    BY <1>2, <1>6, <2>1, <2>3, <2>4, SMT DEF StepDone
<1>7. CASE s = "refresh"
  <2> DEFINE new == IF site.record = NoRecord THEN site.record
                    ELSE [site.record EXCEPT !.serial = got[c]]
  <2>1. /\ new \in Issue \cup {NoRecord}
        /\ site.record = NoRecord => new = NoRecord
        /\ new # NoRecord => new.serial = got[c]
    <3>1. CASE site.record = NoRecord
      BY <1>1, <3>1, SMT
    <3>2. CASE site.record # NoRecord
      BY <1>1, <3>2, SMT DEF Issue
    <3> QED
      BY <3>1, <3>2
  <2>2. site' = [site EXCEPT !.record = new]
    BY <1>2, <1>7, Zenon DEF Recorded
  <2> HIDE DEF new
  <2>3. site' \in Site /\ SameBut({"record"}) /\ site'.record = new
    BY <1>1, <2>1, <2>2, RecordWritten, Zenon
  <2>4. DataTyped /\ OwnData(c)
    BY <1>3, <2>3, SMT DEF SameBut
  <2> QED
    BY <1>2, <1>7, <2>1, <2>3, <2>4, SMT DEF StepDone
<1>8. CASE s = "reload"
  <2>1. site' = site
    BY <1>2, <1>8, Zenon DEF Recorded
  <2>2. DataTyped /\ OwnData(c) /\ SameBut({})
    BY <1>1, <1>3, <2>1, SMT DEF SameBut
  <2> QED
    BY <1>2, <1>8, <2>2, SMT DEF StepDone
<1> QED
  BY <1>2, <1>4, <1>5, <1>6, <1>7, <1>8, SMT

(* Each step does what StepDone says, and only that.                       *)
LEMMA DoEffect ==
  ASSUME BackedInv, NEW c \in Callers, Do(c)
  PROVE  /\ Steps(c)[at[c]] \in StepNames /\ Pos(c, Steps(c)[at[c]]) = at[c]
         /\ at[c] \in 1..Last(c)
         /\ StepDone(c, Steps(c)[at[c]]) /\ DataTyped /\ OwnData(c)
<1> DEFINE s == Steps(c)[at[c]]
<1>1. Typed /\ TypeOK /\ pc[c] = "run" /\ at[c] <= Len(Steps(c))
  BY DEF Do, BackedInv, Typed
<1>2. Len(Steps(c)) = Last(c) /\ Last(c) \in 0..7
  BY <1>1, StepPlaces
<1>3. at[c] \in 1..Last(c)
  BY <1>1, <1>2, SMT DEF Typed, Placed, TypeOK
<1>4. s \in StepNames /\ Pos(c, s) = at[c] /\ Pos(c, s) > 0
  BY <1>1, <1>2, <1>3, Current, SMT
<1>5. StepDone(c, s) /\ DataTyped /\ OwnData(c)
  <2>1. CASE Apply(c)
    BY <1>1, <1>4, <2>1, ApplyEffect, Zenon
  <2>2. CASE Certbot(c)
    BY <1>1, <1>4, <2>2, CertbotEffect, Zenon
  <2>3. CASE ReadExpiry(c)
    BY <1>1, <1>4, <2>3, ExpiryEffect, Zenon
  <2>4. CASE Record(c)
    BY <1>1, <1>4, <2>4, RecordEffect, Zenon
  <2>5. CASE Check(c)
    BY <1>1, <1>4, <2>5, CheckEffect, Zenon
  <2> QED
    BY <2>1, <2>2, <2>3, <2>4, <2>5 DEF Do
<1> QED
  BY <1>3, <1>4, <1>5


(***************************************************************************)
(* A failure leaves the site alone, or certbot has issued before it was    *)
(* stopped.                                                                *)
(***************************************************************************)
LEMMA FailEffect ==
  ASSUME BackedInv, NEW c \in Callers, Fail(c)
  PROVE  StepFailed(c) /\ DataTyped /\ OwnData(c)
<1>1. Typed /\ TypeOK /\ pc[c] = "run" /\ UNCHANGED <<saved, got>>
  BY DEF Fail, BackedInv, Typed
<1>2. CASE UNCHANGED <<site, issued, kept, renewed>>
  BY <1>1, <1>2, Unwritten, SMT DEF StepFailed, DataTyped, OwnData, TypeOK
<1>3. CASE at[c] <= Len(Steps(c)) /\ Steps(c)[at[c]] = "issue" /\ Replaces(c)
  <2>1. at[c] <= Last(c)
    BY <1>1, <1>3, StepPlaces
  <2>2. "issue" \in StepNames /\ Pos(c, "issue") = at[c]
    BY <1>1, <1>3, <2>1, Current, SMT
  <2>3. c \notin issued
    BY <1>1, <2>2, SMT DEF Typed, Counted, Did, TypeOK
  <2>4. issued' = issued \cup {c} /\ UNCHANGED <<kept, renewed>>
    BY <1>3 DEF Replaces
  <2> QED
    BY <1>1, <1>3, <2>2, <2>3, <2>4, AskedTyped, Reissue, SMT
       DEF StepFailed, DataTyped, OwnData, TypeOK
<1>4. CASE at[c] <= Len(Steps(c)) /\ Steps(c)[at[c]] = "check" /\ Renews(c)
  <2>1. at[c] <= Last(c)
    BY <1>1, <1>4, StepPlaces
  <2>2. "check" \in StepNames /\ Pos(c, "check") = at[c]
    BY <1>1, <1>4, <2>1, Current, SMT
  <2>3. c \notin renewed
    BY <1>1, <2>2, SMT DEF Typed, Counted, Did, TypeOK
  <2>4. renewed' = renewed \cup {c} /\ UNCHANGED <<issued, kept>>
    BY <1>4 DEF Renews
  <2>5. at[c] = 7 /\ Kind(c) = "enable"
    <3>1. at[c] > 0
      BY <1>1, <2>1, SMT DEF Typed, Placed, TypeOK
    <3> QED
      BY <2>2, <3>1, SMT DEF Pos
  <2> QED
    BY <1>1, <1>4, <2>2, <2>3, <2>4, <2>5, Renewal, SMT
       DEF StepFailed, DataTyped, OwnData, TypeOK
<1> QED
  BY <1>2, <1>3, <1>4 DEF Fail

(* A TLS call undoes its plain vhost only, a plan each of its steps.       *)
LEMMA UndonePlace ==
  ASSUME Typed, NEW c \in Callers, pc[c] = "undo", at[c] > 0
  PROVE  /\ at[c] \in 1..Last(c)
         /\ Steps(c)[at[c]] \in StepNames /\ Pos(c, Steps(c)[at[c]]) = at[c]
         /\ Steps(c)[at[c]] \in {"http", "vhost", "switch", "name"}
         /\ Kind(c) \in TLSKinds => Steps(c)[at[c]] = "http" /\ at[c] = 1 /\ Kind(c) \in Issuers
         /\ Steps(c)[at[c]] = "name" => Kind(c) \in Aliasing
<1> DEFINE s == Steps(c)[at[c]]
<1>1. TypeOK /\ Placed(c) /\ at[c] \in 0..8 /\ Kind(c) \in TLSKinds \cup PlanKinds
  BY Kinds, SMT DEF Typed, TypeOK
<1>2. at[c] \in 1..Last(c)
  BY <1>1, StepPlaces, SMT DEF Placed
<1>3. s \in StepNames /\ Pos(c, s) = at[c]
  BY <1>1, <1>2, StepPlaces
<1>4. CASE Kind(c) \in TLSKinds
  <2>1. at[c] = 1 /\ Kind(c) \in Issuers
    BY <1>1, <1>2, <1>4, SMT DEF Placed
  <2> HIDE DEF s
  <2>2. s = "http"
    BY <1>3, <2>1, SMT DEF Pos, StepNames, Issuers, Aliasing
  <2> QED
    BY <1>2, <1>3, <2>1, <2>2 DEF s
<1>5. CASE Kind(c) \in PlanKinds
  <2> HIDE DEF s
  <2>1. s \in {"vhost", "switch", "name"} /\ Kind(c) \notin TLSKinds
    BY <1>2, <1>3, <1>5, SMT DEF Pos, StepNames, Issuers, Aliasing, PlanKinds, TLSKinds
  <2>2. s = "name" => Kind(c) \in Aliasing
    BY <1>2, <1>3, <1>5, SMT DEF Pos, Aliasing, PlanKinds
  <2> QED
    BY <1>2, <1>3, <2>1, <2>2, SMT DEF s
<1> QED
  BY <1>1, <1>4, <1>5

(* A step undone puts back what it has found.                              *)
LEMMA UndoEffect ==
  ASSUME Typed, NEW c \in Callers, Undo(c)
  PROVE  StepUndone(c, Steps(c)[at[c]]) /\ DataTyped /\ OwnData(c)
<1> DEFINE s == Steps(c)[at[c]]
<1>1. /\ TypeOK /\ site \in Site /\ pc[c] = "undo" /\ at[c] > 0
      /\ site' = Undone(c, s) /\ UNCHANGED <<saved, got, issued, kept, renewed>>
  BY SMT DEF Undo, Typed, TypeOK
<1>2. s \in {"http", "vhost", "switch", "name"}
  BY <1>1, UndonePlace
<1>3. /\ saved[c].file \in File \cup {NoFile} /\ saved[c].link \in BOOLEAN
      /\ site.row.aliases \in SUBSET Aliases /\ call[c].alias \in Aliases
  BY <1>1, Kinds, SMT DEF TypeOK, Site, Row
<1> HIDE DEF s
<1>4. ASSUME site' \in Site, site'.lineage = site.lineage
      PROVE  DataTyped /\ OwnData(c)
  <2>1. SerialsInOrder /\ issued' \subseteq Callers /\ kept' \subseteq Callers /\ renewed' \subseteq Callers
    BY <1>1, <1>4, KeptSerials
  <2> QED
    BY <1>1, <1>4, <2>1, SMT DEF DataTyped, OwnData, TypeOK
<1>5. CASE s \in {"http", "vhost"}
  <2>1. site' = [site EXCEPT !.file = saved[c].file]
    BY <1>1, <1>5, Zenon DEF Undone
  <2>2. site' \in Site /\ SameBut({"file"}) /\ site'.file = saved[c].file
    BY <1>1, <1>3, <2>1, FileWritten, Zenon
  <2> QED
    BY <1>2, <1>4, <1>5, <2>2, SMT DEF StepUndone, SameBut, s
<1>6. CASE s = "switch"
  <2>1. site' = [site EXCEPT !.link = saved[c].link]
    BY <1>1, <1>6, Zenon DEF Undone
  <2>2. site' \in Site /\ SameBut({"link"}) /\ site'.link = saved[c].link
    BY <1>1, <1>3, <2>1, LinkWritten, Zenon
  <2> QED
    BY <1>2, <1>4, <1>6, <2>2, SMT DEF StepUndone, SameBut, s
<1>7. CASE s = "name"
  <2> DEFINE names == IF Kind(c) = "addAlias" THEN site.row.aliases \ {call[c].alias}
                      ELSE site.row.aliases \cup {call[c].alias}
  <2>1. site' = [site EXCEPT !.row.aliases = names]
    BY <1>1, <1>7, Zenon DEF Undone
  <2>2. names \in SUBSET Aliases
    BY <1>3, SMT
  <2> HIDE DEF names
  <2>3. site' \in Site /\ SameBut({"aliases"}) /\ site'.row.aliases = names
    BY <1>1, <2>1, <2>2, AliasesWritten, Zenon
  <2> QED
    BY <1>2, <1>4, <1>7, <2>3, SMT DEF StepUndone, SameBut, s, names
<1> QED
  BY <1>2, <1>5, <1>6, <1>7, SMT

(* Nothing but the control of calls changes.                               *)
LEMMA Untouched ==
  ASSUME Typed, NEW c \in Callers, UNCHANGED <<site, saved, got, issued, kept, renewed>>
  PROVE  SameBut({}) /\ DataTyped /\ OwnData(c)
<1> QED
  BY Unwritten, SMT DEF DataTyped, OwnData, Typed, TypeOK

(* The steps of a call leave the places of the others alone.               *)
LEMMA OthersKept ==
  ASSUME NEW c \in Callers, NEW d \in Callers \ {c}, OwnControl(c), OwnData(c), Placed(d), Counted(d)
  PROVE  Placed(d)' /\ Counted(d)'
<1>1. /\ call' = call /\ pc'[d] = pc[d] /\ at'[d] = at[d] /\ snap'[d] = snap[d]
      /\ d \in issued' => d \in issued
      /\ d \in renewed' => d \in renewed
  BY SMT DEF OwnControl, OwnData
<1>2. /\ Kind(d)' = Kind(d) /\ Last(d)' = Last(d) /\ \A s : Pos(d, s)' = Pos(d, s)
  BY <1>1, SameCall
<1>3. Placed(d)'
  BY <1>1, <1>2, SMT DEF Placed
<1>4. (Did(d, "issue")' <=> Did(d, "issue")) /\ (Did(d, "check")' <=> Did(d, "check"))
  BY <1>1, <1>2, SMT DEF Did
<1>5. Counted(d)'
  BY <1>1, <1>4, SMT DEF Counted
<1> QED
  BY <1>3, <1>5

(* The types after a step, from those of its parts.                        *)
LEMMA TypedFrom ==
  ASSUME Typed, NEW c \in Callers, OwnControl(c), ControlTyped, DataTyped, OwnData(c),
         Placed(c)', Counted(c)'
  PROVE  Typed'
<1>1. TypeOK' /\ SerialCounts'
  BY SMT DEF ControlTyped, DataTyped, TypeOK, SerialsInOrder, SerialCounts
<1>2. ASSUME NEW d \in Callers PROVE Placed(d)' /\ Counted(d)'
  <2>1. CASE d = c
    BY <2>1
  <2>2. CASE d # c
    BY <2>2, OthersKept DEF Typed
  <2> QED
    BY <2>1, <2>2
<1> QED
  BY <1>1, <1>2 DEF Typed


(* A call that begins has read the site as it is.                          *)
LEMMA BeginTyped ==
  ASSUME Typed, NEW c \in Callers, Begin(c)
  PROVE  Typed' /\ OwnControl(c) /\ OwnData(c) /\ SameBut({}) /\ snap'[c] = site
<1>1. /\ TypeOK /\ Placed(c) /\ Counted(c) /\ pc[c] = "idle"
      /\ UNCHANGED <<site, lock, call, at, saved, got, torn, issued, kept, renewed>>
      /\ snap' = [snap EXCEPT ![c] = site]
      /\ pc' = [pc EXCEPT ![c] = IF Kind(c) \in PlanKinds THEN "wait" ELSE "run"]
  BY DEF Begin, Goto, Typed
<1>2. overlapped \subseteq overlapped' /\ overlapped' \subseteq Callers
  BY <1>1, SMT DEF Begin, TypeOK
<1>3. DataTyped /\ OwnData(c) /\ SameBut({})
  BY <1>1, Untouched
<1>4. OwnControl(c) /\ snap'[c] = site /\ pc'[c] = IF Kind(c) \in PlanKinds THEN "wait" ELSE "run"
  BY <1>1, <1>2, SMT DEF OwnControl, TypeOK
<1>5. ControlTyped
  BY <1>1, <1>2, SMT DEF ControlTyped, TypeOK, PCs, Active
<1>6. at'[c] = 1 /\ c \notin issued' /\ c \notin renewed'
  BY <1>1, SMT DEF Placed, Counted
<1>7. Last(c)' \in Nat
  <2>1. Kind(c)' \in TLSKinds \cup PlanKinds
    BY <1>1, Kinds DEF Kind
  <2> QED
    BY <2>1, SMT DEF Last, Issuers, Aliasing, TLSKinds, PlanKinds
<1>8. Placed(c)'
  BY <1>4, <1>6, <1>7, SMT DEF Placed
<1>9. Counted(c)'
  BY <1>6 DEF Counted
<1> QED
  BY <1>3, <1>4, <1>5, <1>8, <1>9, TypedFrom, Zenon

(* The steps that only move the control of a call.                         *)
Passes(c) == Refuse(c) \/ Start(c) \/ LockTimesOut(c) \/ Return(c) \/ UndoFails(c) \/ GiveUp(c) \/ Crash(c)

(* The steps that move only the control keep the types.                    *)
LEMMA PassTyped ==
  ASSUME Typed, NEW c \in Callers, Passes(c)
  PROVE  Typed' /\ OwnControl(c) /\ OwnData(c) /\ SameBut({}) /\ snap' = snap
<1>1. /\ TypeOK /\ Placed(c) /\ Counted(c)
      /\ UNCHANGED <<site, call, snap, saved, got, overlapped, issued, kept, renewed>>
  BY SMT DEF Passes, Refuse, Start, LockTimesOut, Return, UndoFails, GiveUp, Crash, Typed
<1>2. DataTyped /\ OwnData(c) /\ SameBut({})
  BY <1>1, Untouched
<1>3. Last(c) \in 0..7 /\ Last(c)' = Last(c) /\ Kind(c)' = Kind(c)
  <2>1. snap'[c] = snap[c]
    BY <1>1
  <2> QED
    BY <1>1, <2>1, StepPlaces, SameCall
<1>4. /\ Did(c, "issue")' <=> (0 < Pos(c, "issue") /\ Pos(c, "issue") < at'[c])
      /\ Did(c, "check")' <=> (0 < Pos(c, "check") /\ Pos(c, "check") < at'[c])
  <2>1. snap'[c] = snap[c]
    BY <1>1
  <2>2. Pos(c, "issue")' = Pos(c, "issue") /\ Pos(c, "check")' = Pos(c, "check")
    BY <1>1, <2>1, SameCall
  <2> QED
    BY <2>2 DEF Did
<1>5. CASE Refuse(c) \/ LockTimesOut(c) \/ Crash(c)
  <2>1. /\ pc'[c] \in {"refused", "failed", "crashed"} /\ pc' \in [Callers -> PCs]
        /\ \A d \in Callers \ {c} : pc'[d] = pc[d]
        /\ lock' \in Callers \cup {NoCaller} /\ UNCHANGED <<at, torn>>
        /\ pc'[c] = "refused" => pc[c] = "idle"
        /\ pc'[c] = "failed" => pc[c] = "wait"
    BY <1>1, <1>5, SMT DEF Refuse, LockTimesOut, Crash, Goto, TypeOK, PCs, Active
  <2>2. OwnControl(c) /\ ControlTyped
    BY <1>1, <2>1, SMT DEF OwnControl, ControlTyped, TypeOK
  <2>3. Placed(c)'
    BY <2>1, SMT DEF Placed
  <2>4. Counted(c)'
    BY <1>1, <1>5, SMT DEF Counted, Refuse, LockTimesOut, Crash, Goto, TypeOK
  <2> QED
    BY <1>1, <1>2, <2>2, <2>3, <2>4, TypedFrom, Zenon
<1>6. CASE Start(c)
  <2>1. /\ pc[c] = "wait" /\ pc' = [pc EXCEPT ![c] = "run"] /\ lock' = c /\ UNCHANGED <<at, torn>>
    BY <1>6 DEF Start, Goto
  <2>2. OwnControl(c) /\ ControlTyped /\ pc'[c] = "run"
    BY <1>1, <2>1, SMT DEF OwnControl, ControlTyped, TypeOK, PCs, Active
  <2>3. Placed(c)'
    BY <1>1, <1>3, <2>1, <2>2, SMT DEF Placed
  <2>4. Counted(c)'
    BY <1>1, <2>1, SMT DEF Counted
  <2> QED
    BY <1>1, <1>2, <2>2, <2>3, <2>4, TypedFrom, Zenon
<1>7. CASE Return(c) \/ GiveUp(c)
  <2>1. /\ pc[c] \in {"run", "undo"} /\ pc'[c] \in {"ok", "failed"} /\ pc' \in [Callers -> PCs]
        /\ \A d \in Callers \ {c} : pc'[d] = pc[d]
        /\ lock' \in Callers \cup {NoCaller} /\ at' = [at EXCEPT ![c] = 1] /\ UNCHANGED torn
    BY <1>1, <1>7, SMT DEF Return, GiveUp, Goto, TypeOK, PCs, Active
  <2>2. OwnControl(c) /\ ControlTyped
    BY <1>1, <2>1, SMT DEF OwnControl, ControlTyped, TypeOK
  <2>3. Placed(c)' /\ Counted(c)'
    BY <2>1, SMT DEF Placed, Counted
  <2> QED
    BY <1>1, <1>2, <2>2, <2>3, TypedFrom, Zenon
<1>8. CASE UndoFails(c)
  <2>1. /\ pc[c] = "undo" /\ pc' = pc /\ lock' = lock /\ torn' = torn \cup {c}
        /\ at[c] > 0 /\ at' = [at EXCEPT ![c] = @ - 1] /\ at[c] \in 0..Last(c)
    BY <1>1, <1>8, SMT DEF UndoFails, Placed
  <2>2. at'[c] = at[c] - 1 /\ at' \in [Callers -> 0..8]
    BY <1>1, <1>3, <2>1, SMT DEF TypeOK
  <2>3. OwnControl(c) /\ ControlTyped
    BY <1>1, <2>1, <2>2, SMT DEF OwnControl, ControlTyped, TypeOK
  <2>4. Placed(c)'
    BY <1>1, <1>3, <2>1, <2>2, SMT DEF Placed
  <2>5. Counted(c)'
    BY <1>1, <2>1, SMT DEF Counted
  <2> QED
    BY <1>1, <1>2, <2>3, <2>4, <2>5, TypedFrom, Zenon
<1> QED
  BY <1>5, <1>6, <1>7, <1>8 DEF Passes

(* So does a step forward.                                                 *)
LEMMA DoTyped ==
  ASSUME BackedInv, NEW c \in Callers, Do(c)
  PROVE  Typed' /\ OwnControl(c) /\ snap' = snap /\ pc' = pc /\ at'[c] = at[c] + 1
<1> DEFINE s == Steps(c)[at[c]]
<1>1. /\ Typed /\ TypeOK /\ Placed(c) /\ Counted(c) /\ pc[c] = "run"
      /\ at' = [at EXCEPT ![c] = @ + 1]
      /\ UNCHANGED <<lock, call, pc, snap, overlapped, torn>>
  BY DEF Do, BackedInv, Typed
<1>2. /\ s \in StepNames /\ Pos(c, s) = at[c] /\ at[c] \in 1..Last(c)
      /\ StepDone(c, s) /\ DataTyped /\ OwnData(c)
  BY DoEffect, Zenon
<1>3. Last(c) \in 0..7
  BY <1>1, StepPlaces
<1>4. at'[c] = at[c] + 1 /\ at' \in [Callers -> 0..8]
  BY <1>1, <1>2, <1>3, SMT DEF TypeOK
<1>5. OwnControl(c) /\ ControlTyped
  BY <1>1, <1>4, SMT DEF OwnControl, ControlTyped, TypeOK
<1>6. /\ Last(c)' = Last(c) /\ snap'[c] = snap[c]
      /\ Pos(c, "issue")' = Pos(c, "issue") /\ Pos(c, "check")' = Pos(c, "check")
  <2>1. snap'[c] = snap[c]
    BY <1>1
  <2> QED
    BY <1>1, <2>1, SameCall
<1>7. Placed(c)'
  BY <1>1, <1>2, <1>3, <1>4, <1>6, SMT DEF Placed
<1>8. /\ c \in issued' => c \in issued \/ s = "issue"
      /\ c \in renewed' => c \in renewed \/ s = "check"
  BY <1>2, SMT DEF StepDone
<1> HIDE DEF s
<1>9. c \in issued' => 0 < Pos(c, "issue") /\ Pos(c, "issue") < at'[c]
  <2>1. CASE c \in issued
    <3>1. 0 < Pos(c, "issue") /\ Pos(c, "issue") < at[c]
      BY <1>1, <2>1 DEF Counted, Did
    <3>2. Pos(c, "issue") \in Nat
      BY <1>1, StepPlaces, SMT DEF StepNames
    <3> QED
      BY <1>2, <1>4, <3>1, <3>2, SMT
  <2>2. CASE s = "issue"
    BY <1>2, <1>4, <2>2, SMT
  <2> QED
    BY <1>8, <2>1, <2>2
<1>10. c \in renewed' => 0 < Pos(c, "check") /\ Pos(c, "check") < at'[c]
  <2>1. CASE c \in renewed
    <3>1. 0 < Pos(c, "check") /\ Pos(c, "check") < at[c]
      BY <1>1, <2>1 DEF Counted, Did
    <3>2. Pos(c, "check") \in Nat
      BY <1>1, StepPlaces, SMT DEF StepNames
    <3> QED
      BY <1>2, <1>4, <3>1, <3>2, SMT
  <2>2. CASE s = "check"
    BY <1>2, <1>4, <2>2, SMT
  <2> QED
    BY <1>8, <2>1, <2>2
<1>11. Counted(c)'
  BY <1>1, <1>6, <1>9, <1>10, SMT DEF Counted, Did
<1> QED
  BY <1>1, <1>2, <1>4, <1>5, <1>7, <1>11, TypedFrom, Zenon

(* Where the undo starts, for each kind of call.                           *)
LEMMA UndoneFromPlaced ==
  ASSUME Typed, NEW c \in Callers, Fail(c)
  PROVE  /\ UndoneFrom(c) \in 0..Last(c)
         /\ Kind(c) \in TLSKinds => UndoneFrom(c) \in 0..(IF Kind(c) \in Issuers THEN 1 ELSE 0)
         /\ Kind(c) \in PlanKinds => UndoneFrom(c) = at[c] - 1
         /\ Kind(c) = "enable" => UndoneFrom(c) = IF at[c] = 2 THEN 1 ELSE 0
         /\ Kind(c) \in {"addName", "removeName"} => UndoneFrom(c) = IF at[c] > 1 THEN 1 ELSE 0
<1>1. /\ Kind(c) \in TLSKinds \cup PlanKinds /\ Last(c) \in 0..7 /\ at[c] \in 1..Last(c) + 1
  BY Kinds, StepPlaces, SMT DEF Fail, Typed, Placed
<1>2. /\ Kind(c) = "enable" => UndoneFrom(c) = IF at[c] = 2 THEN 1 ELSE 0
      /\ Kind(c) \in {"addName", "removeName"} => UndoneFrom(c) = IF at[c] > 1 THEN 1 ELSE 0
      /\ Kind(c) \in {"disable", "renew"} => UndoneFrom(c) = 0
      /\ Kind(c) \in PlanKinds => UndoneFrom(c) = at[c] - 1
  BY SMT DEF UndoneFrom, PlanKinds
<1>3. Kind(c) \in Issuers => Last(c) = IF Kind(c) = "enable" THEN 7 ELSE 6
  BY SMT DEF Last, Issuers, Aliasing
<1> QED
  BY <1>1, <1>2, <1>3, SMT DEF TLSKinds, PlanKinds, Issuers

(* A failure keeps the types.                                              *)
LEMMA FailTyped ==
  ASSUME BackedInv, NEW c \in Callers, Fail(c)
  PROVE  /\ Typed' /\ OwnControl(c) /\ snap' = snap /\ pc'[c] = "undo" /\ at'[c] = UndoneFrom(c)
         /\ overlapped' = overlapped /\ torn' = torn
<1>1. /\ Typed /\ TypeOK /\ Placed(c) /\ Counted(c) /\ pc[c] = "run"
      /\ at' = [at EXCEPT ![c] = UndoneFrom(c)] /\ pc' = [pc EXCEPT ![c] = "undo"]
      /\ UNCHANGED <<lock, call, snap, saved, got, overlapped, torn>>
  BY DEF Fail, Goto, BackedInv, Typed
<1>2. DataTyped /\ OwnData(c)
  BY FailEffect
<1>3. UndoneFrom(c) \in 0..7
  BY <1>1, StepPlaces, UndoneFromPlaced, SMT
<1>4. at'[c] = UndoneFrom(c) /\ pc'[c] = "undo" /\ at' \in [Callers -> 0..8]
  BY <1>1, <1>3, SMT DEF TypeOK
<1>5. OwnControl(c) /\ ControlTyped
  BY <1>1, <1>4, SMT DEF OwnControl, ControlTyped, TypeOK, PCs, Active
<1>6. Last(c)' = Last(c) /\ Kind(c)' = Kind(c)
  <2>1. snap'[c] = snap[c]
    BY <1>1
  <2> QED
    BY <1>1, <2>1, SameCall
<1>7. Placed(c)'
  BY <1>1, <1>4, <1>6, UndoneFromPlaced, SMT DEF Placed
<1>8. Counted(c)'
  BY <1>4, SMT DEF Counted
<1> QED
  BY <1>1, <1>2, <1>4, <1>5, <1>7, <1>8, TypedFrom, Zenon

(* So does a step back.                                                    *)
LEMMA UndoTyped ==
  ASSUME Typed, NEW c \in Callers, Undo(c)
  PROVE  Typed' /\ OwnControl(c) /\ snap' = snap /\ pc' = pc /\ at'[c] = at[c] - 1
<1>1. /\ TypeOK /\ Placed(c) /\ Counted(c) /\ pc[c] = "undo" /\ at[c] > 0
      /\ at' = [at EXCEPT ![c] = @ - 1]
      /\ UNCHANGED <<lock, call, pc, snap, saved, got, overlapped, torn, issued, kept, renewed>>
  BY DEF Undo, Typed
<1>2. DataTyped /\ OwnData(c)
  BY UndoEffect
<1>3. Last(c) \in 0..7 /\ at[c] \in 1..Last(c)
  BY <1>1, StepPlaces, UndonePlace
<1>4. at'[c] = at[c] - 1 /\ at' \in [Callers -> 0..8]
  BY <1>1, <1>3, SMT DEF TypeOK
<1>5. OwnControl(c) /\ ControlTyped
  BY <1>1, <1>4, SMT DEF OwnControl, ControlTyped, TypeOK
<1>6. Last(c)' = Last(c) /\ Kind(c)' = Kind(c)
  <2>1. snap'[c] = snap[c]
    BY <1>1
  <2> QED
    BY <1>1, <2>1, SameCall
<1>7. Placed(c)'
  BY <1>1, <1>3, <1>4, <1>6, SMT DEF Placed
<1>8. Counted(c)'
  BY <1>1, SMT DEF Counted
<1> QED
  BY <1>1, <1>2, <1>4, <1>5, <1>7, <1>8, TypedFrom, Zenon


(* A lineage that stays backs the other calls as before.                   *)
LEMMA OthersBacked ==
  ASSUME NEW c \in Callers, NEW d \in Callers \ {c}, OwnControl(c), OwnData(c), Backed(d),
         site.lineage # NoLineage => site'.lineage # NoLineage
  PROVE  Backed(d)'
<1>1. /\ call' = call /\ pc'[d] = pc[d] /\ at'[d] = at[d] /\ snap'[d] = snap[d] /\ saved'[d] = saved[d]
  BY SMT DEF OwnControl, OwnData
<1>2. Kind(d)' = Kind(d) /\ Pos(d, "issue")' = Pos(d, "issue")
  BY <1>1, SameCall
<1>3. Did(d, "issue")' <=> Did(d, "issue")
  BY <1>1, <1>2, SMT DEF Did
<1> QED
  BY <1>1, <1>2, <1>3, SMT DEF Backed

(* The invariant after a step, from its parts.                             *)
LEMMA BackedFrom ==
  ASSUME BackedInv, NEW c \in Callers, OwnControl(c), OwnData(c), Typed', Backed(c)',
         NothingWithoutLineage', site.lineage # NoLineage => site'.lineage # NoLineage
  PROVE  BackedInv'
<1>1. ASSUME NEW d \in Callers PROVE Backed(d)'
  <2>1. CASE d = c
    BY <2>1
  <2>2. CASE d # c
    BY <2>2, OthersBacked DEF BackedInv
  <2> QED
    BY <2>1, <2>2
<1> QED
  BY <1>1 DEF BackedInv

(* A site that stays refers to what it referred to.                        *)
LEMMA SameNothing ==
  ASSUME NothingWithoutLineage, SameBut({})
  PROVE  NothingWithoutLineage' /\ (site.lineage # NoLineage => site'.lineage # NoLineage)
<1> QED
  BY SMT DEF NothingWithoutLineage, RefersToNothing, SameBut

(* What a call has just read is backed, because the site is.               *)
LEMMA BeginBacked ==
  ASSUME BackedInv, NEW c \in Callers, Begin(c)
  PROVE  BackedInv'
<1>1. Typed /\ Backed(c) /\ NothingWithoutLineage
  BY DEF BackedInv
<1>2. Typed' /\ OwnControl(c) /\ OwnData(c) /\ SameBut({}) /\ snap'[c] = site
  BY <1>1, BeginTyped
<1>3. /\ Accepted(c) /\ UNCHANGED <<site, call, at, saved>> /\ at[c] = 1
  BY <1>1, SMT DEF Begin, Typed, Placed
<1>4. Kind(c)' = Kind(c)
  BY <1>3 DEF Kind
<1>5. ~Did(c, "issue")'
  BY <1>3, SMT DEF Did, Pos
<1>6. Kind(c) = "renew" => site.lineage # NoLineage
  BY <1>3, SMT DEF Accepted
<1>7. Backed(c)'
  BY <1>1, <1>2, <1>3, <1>4, <1>5, <1>6, SMT DEF Backed, NothingWithoutLineage, RefersToNothing
<1> QED
  BY <1>1, <1>2, <1>7, SameNothing, BackedFrom

(* The steps that move only the control keep it so.                        *)
LEMMA PassBacked ==
  ASSUME BackedInv, NEW c \in Callers, Passes(c)
  PROVE  BackedInv'
<1>1. Typed /\ Placed(c) /\ Backed(c) /\ NothingWithoutLineage
  BY DEF BackedInv, Typed
<1>2. Typed' /\ OwnControl(c) /\ OwnData(c) /\ SameBut({}) /\ snap' = snap
  BY <1>1, PassTyped
<1>3. /\ UNCHANGED <<site, call, saved>> /\ pc \in [Callers -> PCs]
  BY <1>1, SMT
     DEF Passes, Refuse, Start, LockTimesOut, Return, UndoFails, GiveUp, Crash, Typed,
         TypeOK
<1>4. pc'[c] \in {"wait", "run"} => pc[c] = "wait" /\ at'[c] = at[c] /\ at[c] = 1
  BY <1>1, <1>3, SMT
     DEF Passes, Refuse, Start, LockTimesOut, Return, UndoFails, GiveUp, Crash, Goto, Placed
<1>5. Kind(c)' = Kind(c)
  BY <1>3 DEF Kind
<1>6. pc'[c] = "run" => ~Did(c, "issue")'
  BY <1>4, SMT DEF Did, Pos
<1>7. Backed(c)'
  BY <1>1, <1>2, <1>3, <1>4, <1>5, <1>6, SMT DEF Backed
<1> QED
  BY <1>1, <1>2, <1>7, SameNothing, BackedFrom

(***************************************************************************)
(* A TLS vhost, the flag and the certificate row come after certbot in the *)
(* order of the steps.                                                     *)
(***************************************************************************)
LEMMA Issued ==
  ASSUME BackedInv, NEW c \in Callers, pc[c] = "run",
         \/ Pos(c, "https") = at[c] \/ Pos(c, "record") = at[c]
         \/ Pos(c, "flag") = at[c] /\ Kind(c) = "enable",
         at[c] > 0
  PROVE  Did(c, "issue") /\ site.lineage # NoLineage
<1>1. Did(c, "issue")
  BY SMT DEF Did, Pos, Issuers
<1> QED
  BY <1>1 DEF BackedInv, Backed

(* A step forward installs only what a lineage backs.                      *)
LEMMA DoBacked ==
  ASSUME BackedInv, NEW c \in Callers, Do(c)
  PROVE  BackedInv' /\ (site.lineage # NoLineage => site'.lineage # NoLineage)
<1> DEFINE s == Steps(c)[at[c]]
<1>1. Typed /\ TypeOK /\ Backed(c) /\ NothingWithoutLineage /\ pc[c] = "run"
  BY DEF BackedInv, Typed, Do
<1>2. /\ s \in StepNames /\ Pos(c, s) = at[c] /\ at[c] \in 1..Last(c) /\ StepDone(c, s) /\ OwnData(c)
  BY DoEffect, Zenon
<1>3. /\ Typed' /\ OwnControl(c) /\ snap' = snap /\ pc' = pc /\ at'[c] = at[c] + 1
  BY DoTyped
<1>4. Last(c) \in 0..7 /\ at[c] > 0
  BY <1>1, <1>2, StepPlaces, SMT
<1> HIDE DEF s
<1>5. site.lineage # NoLineage => site'.lineage # NoLineage
  BY <1>2, SMT DEF StepDone, SameBut, StepNames
<1>6. site'.file # site.file => site'.file # NoFile /\ (site'.file.tls => site.lineage # NoLineage)
  <2>1. CASE s = "http"
    BY <1>1, <1>2, <2>1, NamesTyped, NothingAssumption, SMT DEF StepDone
  <2>2. CASE s = "https"
    <3>1. site.lineage # NoLineage
      BY <1>1, <1>2, <1>4, <2>2, Issued, SMT
    <3> QED
      BY <1>1, <1>2, <2>2, <3>1, NamesTyped, NothingAssumption, SMT DEF StepDone
  <2>3. CASE s = "vhost"
    <3>1. Kind(c) \in PlanKinds
      BY <1>2, <1>4, <2>3, SMT DEF Pos, Aliasing, PlanKinds
    <3>2. VHost(c, "vhost").tls = snap[c].row.ssl
      <4>1. CASE Kind(c) = "reconcile"
        <5>1. VHost(c, "vhost") = [aliases |-> snap[c].row.aliases, tls |-> snap[c].row.ssl]
          BY <4>1, Zenon DEF VHost, Rendered
        <5> QED
          BY <5>1
      <4>2. CASE Kind(c) # "reconcile"
        <5>1. VHost(c, "vhost") = [aliases |-> Names(c), tls |-> snap[c].row.ssl]
          BY <4>2, Zenon DEF VHost
        <5> QED
          BY <5>1
      <4> QED
        BY <4>1, <4>2
    <3> QED
      BY <1>1, <1>2, <2>3, <3>1, <3>2, NamesTyped, NothingAssumption, SMT DEF StepDone, Backed
  <2>4. CASE s \notin {"http", "https", "vhost"}
    BY <1>2, <2>4, SMT DEF StepDone, SameBut, StepNames
  <2> QED
    BY <2>1, <2>2, <2>3, <2>4, SMT
<1>7. site'.row.ssl => site.row.ssl \/ site.lineage # NoLineage
  <2>1. CASE s = "flag"
    <3>1. site'.row.ssl <=> Kind(c) = "enable"
      BY <1>2, <2>1, SMT DEF StepDone
    <3>2. CASE Kind(c) = "enable"
      BY <1>1, <1>2, <1>4, <2>1, <3>2, Issued, SMT
    <3> QED
      BY <3>1, <3>2
  <2>2. CASE s # "flag"
    <3>1. site'.row.ssl = site.row.ssl
      BY <1>2, <2>2, SMT DEF StepDone, SameBut, StepNames
    <3> QED
      BY <3>1, Zenon
  <2> QED
    BY <2>1, <2>2
<1>8. site'.record # NoRecord => site.record # NoRecord \/ site.lineage # NoLineage
  <2>1. CASE s = "record"
    BY <1>1, <1>2, <1>4, <2>1, Issued, SMT
  <2>2. CASE s # "record"
    BY <1>2, <2>2, SMT DEF StepDone, SameBut, StepNames
  <2> QED
    BY <2>1, <2>2
<1>9. NothingWithoutLineage'
  BY <1>1, <1>5, <1>6, <1>7, <1>8, SMT DEF NothingWithoutLineage, RefersToNothing
<1>10. /\ Kind(c)' = Kind(c) /\ Pos(c, "issue")' = Pos(c, "issue") /\ call' = call
  <2>1. snap'[c] = snap[c] /\ call' = call
    BY <1>3 DEF OwnControl
  <2> QED
    BY <2>1, SameCall
<1>11. Did(c, "issue")' => Did(c, "issue") \/ Pos(c, "issue") = at[c]
  <2>1. Pos(c, "issue") \in Int /\ at[c] \in Int
    <3>1. Pos(c, "issue") \in 0..Last(c)
      BY <1>1, StepPlaces, SMT DEF StepNames
    <3> QED
      BY <1>1, <1>4, <3>1, SMT DEF TypeOK
  <2> QED
    BY <1>3, <1>10, <2>1, SMT DEF Did
<1>12. Did(c, "issue")' => site'.lineage # NoLineage
  <2>1. CASE Did(c, "issue")
    BY <1>1, <1>5, <2>1 DEF Backed
  <2>2. CASE Pos(c, "issue") = at[c]
    <3>1. s = "issue"
      BY <1>2, <1>4, <2>2, Apart, SMT DEF StepNames
    <3> QED
      BY <1>2, <1>5, <3>1, SMT DEF StepDone, MayKeep
  <2> QED
    BY <1>11, <2>1, <2>2
<1>13. saved'[c].file = saved[c].file \/ saved'[c].file = site.file
  BY <1>2, SMT DEF StepDone
<1>14. Backed(c)'
  <2>1. /\ snap'[c].lineage # NoLineage => site'.lineage # NoLineage
        /\ snap'[c].row.ssl => site'.lineage # NoLineage
        /\ pc'[c] \in {"wait", "run"} /\ Kind(c)' = "renew" => snap'[c].lineage # NoLineage
    BY <1>1, <1>3, <1>5, <1>10, SMT DEF Backed
  <2>2. saved'[c].file # NoFile /\ saved'[c].file.tls => site'.lineage # NoLineage
    BY <1>1, <1>5, <1>13, SMT DEF Backed, NothingWithoutLineage, RefersToNothing
  <2> QED
    BY <1>12, <2>1, <2>2, Zenon DEF Backed
<1> QED
  BY <1>2, <1>3, <1>5, <1>9, <1>14, BackedFrom

(* A failure takes no lineage away.                                        *)
LEMMA FailBacked ==
  ASSUME BackedInv, NEW c \in Callers, Fail(c)
  PROVE  BackedInv' /\ (site.lineage # NoLineage => site'.lineage # NoLineage)
<1>1. Typed /\ Backed(c) /\ NothingWithoutLineage
  BY DEF BackedInv
<1>2. StepFailed(c) /\ OwnData(c)
  BY FailEffect
<1>3. /\ Typed' /\ OwnControl(c) /\ snap' = snap /\ pc'[c] = "undo" /\ saved' = saved
  BY FailTyped DEF Fail
<1>4. /\ site.lineage # NoLineage => site'.lineage # NoLineage
      /\ NothingWithoutLineage'
  BY <1>1, <1>2, SMT DEF StepFailed, SameBut, NothingWithoutLineage, RefersToNothing
<1>5. Backed(c)'
  BY <1>1, <1>3, <1>4, SMT DEF Backed
<1> QED
  BY <1>2, <1>3, <1>4, <1>5, BackedFrom

(* The undo puts back a vhost that a lineage still backs.                  *)
LEMMA UndoBacked ==
  ASSUME BackedInv, NEW c \in Callers, Undo(c)
  PROVE  BackedInv'
<1>1. Typed /\ Backed(c) /\ NothingWithoutLineage /\ pc[c] = "undo"
  BY DEF BackedInv, Undo
<1>2. StepUndone(c, Steps(c)[at[c]]) /\ OwnData(c)
  BY <1>1, UndoEffect
<1>3. /\ Typed' /\ OwnControl(c) /\ snap' = snap /\ pc' = pc /\ saved' = saved
  BY <1>1, UndoTyped DEF Undo
<1>4. /\ site'.lineage = site.lineage /\ site'.row.ssl = site.row.ssl /\ site'.record = site.record
      /\ site'.file \in {site.file, saved[c].file}
  BY <1>2, SMT DEF StepUndone, SameBut
<1>5. NothingWithoutLineage'
  BY <1>1, <1>4, SMT DEF NothingWithoutLineage, RefersToNothing, Backed
<1>6. Backed(c)'
  BY <1>1, <1>3, <1>4, SMT DEF Backed
<1> QED
  BY <1>2, <1>3, <1>4, <1>5, <1>6, BackedFrom


(* The actions by what they touch.                                         *)
LEMMA Operations ==
  ASSUME NEW c, Operation(c)
  PROVE  Begin(c) \/ Passes(c) \/ Do(c) \/ Fail(c) \/ Undo(c)
<1> QED
  BY Zenon DEF Operation, Passes

(* BackedInv is inductive.                                                 *)
LEMMA BackedStep ==
  ASSUME BackedInv, [Next]_vars
  PROVE  BackedInv'
<1>1. CASE UNCHANGED vars
  <2>1. /\ UNCHANGED <<site, lock, call, pc, at, snap, saved, got, overlapped, torn, issued, kept, renewed>>
    BY <1>1 DEF vars
  <2>2. TypeOK' /\ SerialCounts' /\ NothingWithoutLineage'
    BY <2>1, SMT
       DEF BackedInv, Typed, TypeOK, SerialCounts, NothingWithoutLineage, RefersToNothing
  <2>3. ASSUME NEW c \in Callers PROVE Placed(c)' /\ Counted(c)' /\ Backed(c)'
    <3>1. snap'[c] = snap[c] /\ saved'[c] = saved[c]
      BY <2>1
    <3>2. /\ Kind(c)' = Kind(c) /\ Last(c)' = Last(c)
          /\ Pos(c, "issue")' = Pos(c, "issue") /\ Pos(c, "check")' = Pos(c, "check")
      BY <2>1, <3>1, SameCall
    <3>3. (Did(c, "issue")' <=> Did(c, "issue")) /\ (Did(c, "check")' <=> Did(c, "check"))
      BY <2>1, <3>2, SMT DEF Did
    <3>4. Placed(c) /\ Counted(c) /\ Backed(c)
      BY DEF BackedInv, Typed
    <3> QED
      BY <2>1, <3>1, <3>2, <3>3, <3>4, SMT DEF Placed, Counted, Backed
  <2> QED
    BY <2>2, <2>3 DEF BackedInv, Typed
<1>2. ASSUME NEW c \in Callers, Operation(c) PROVE BackedInv'
  <2>1. CASE Begin(c)
    BY <2>1, BeginBacked
  <2>2. CASE Passes(c)
    BY <2>2, PassBacked
  <2>3. CASE Do(c)
    BY <2>3, DoBacked
  <2>4. CASE Fail(c)
    BY <2>4, FailBacked
  <2>5. CASE Undo(c)
    BY <2>5, UndoBacked
  <2> QED
    BY <1>2, <2>1, <2>2, <2>3, <2>4, <2>5, Operations
<1> QED
  BY <1>1, <1>2 DEF Next

(* It holds at the start: the types.                                       *)
LEMMA InitTyped ==
  ASSUME Init
  PROVE  Typed
<1>1. /\ site \in Before /\ lock = NoCaller /\ call \in [Callers -> Menu]
      /\ pc = [c \in Callers |-> "idle"] /\ at = [c \in Callers |-> 1]
      /\ snap = [c \in Callers |-> site]
      /\ saved = [c \in Callers |-> [file |-> NoFile, link |-> FALSE]]
      /\ got = [c \in Callers |-> 0]
      /\ overlapped = {} /\ torn = {} /\ issued = {} /\ kept = {} /\ renewed = {}
  BY DEF Init
<1>2. site \in Site /\ call \in [Callers -> Call]
  BY <1>1, CallsAssumption, SMT
<1>3. [file |-> NoFile, link |-> FALSE] \in [file : File \cup {NoFile}, link : BOOLEAN]
  BY SMT
<1>4. saved \in [Callers -> [file : File \cup {NoFile}, link : BOOLEAN]]
  BY <1>1, <1>3, Zenon
<1>5. 0 \in Serials
  BY CallersAssumption, FS_CardinalityType, SMT DEF Serials
<1>6. TypeOK
  BY <1>1, <1>2, <1>4, <1>5, SMT DEF TypeOK, PCs, Active
<1>7. SerialCounts
  <2>1. Cardinality(issued) = 0 /\ Cardinality(renewed) = 0
    BY <1>1, FS_EmptySet
  <2>2. site.lineage # NoLineage => site.lineage.serial <= 1
    BY <1>1, BeforeAssumption, Zenon
  <2> QED
    BY <2>1, <2>2, SMT DEF SerialCounts
<1>8. ASSUME NEW c \in Callers PROVE Placed(c) /\ Counted(c)
  BY <1>1, SMT DEF Placed, Counted
<1> QED
  BY <1>6, <1>7, <1>8 DEF Typed

(* It holds at the start: BeforeAssumption says the rest.                  *)
LEMMA InitBacked ==
  ASSUME Init
  PROVE  BackedInv
<1>1. Typed
  BY InitTyped
<1>2. NothingWithoutLineage
  BY BeforeAssumption, Zenon DEF Init, NothingWithoutLineage
<1>3. ASSUME NEW c \in Callers PROVE Backed(c)
  <2>1. snap[c] = site /\ pc[c] = "idle" /\ saved[c].file = NoFile
    BY SMT DEF Init
  <2> QED
    BY <1>2, <2>1, SMT DEF Backed, NothingWithoutLineage, RefersToNothing
<1> QED
  BY <1>1, <1>2, <1>3 DEF BackedInv

(***************************************************************************)
(* BackedInv is an invariant: whatever overlaps, fails or crashes, there   *)
(* is a lineage for all that a call may still install, refer to or put     *)
(* back.                                                                   *)
(***************************************************************************)
THEOREM Backing == Spec => []BackedInv
<1>1. Init => BackedInv
  BY InitBacked
<1>2. BackedInv /\ [Next]_vars => BackedInv'
  BY BackedStep
<1> QED
  BY <1>1, <1>2, PTL DEF Spec

(***************************************************************************)
(* The type invariant (Certificate, TypeOK). It says that the serials      *)
(* never run out too.                                                      *)
(***************************************************************************)
THEOREM TypeCorrect == Spec => []TypeOK
<1>1. BackedInv => TypeOK
  BY DEF BackedInv, Typed
<1> QED
  BY <1>1, Backing, PTL

(***************************************************************************)
(* At no moment does the vhost, the row or the certificate table refer to  *)
(* a certificate that certbot has not issued (service/ssl.go issues before *)
(* it installs, and neither undoHTTP nor the executor can put back a TLS   *)
(* vhost without a lineage).                                               *)
(***************************************************************************)
THEOREM NothingDangles == Spec => []NothingWithoutLineage
<1>1. BackedInv => NothingWithoutLineage
  BY DEF BackedInv
<1> QED
  BY <1>1, Backing, PTL


(* What has not been done when a step is at hand.                          *)
LEMMA Order ==
  ASSUME BackedInv, NEW c \in Callers, pc[c] = "run", NEW s \in StepNames,
         Pos(c, s) = at[c], at[c] \in 1..Last(c)
  PROVE  /\ s \in {"http", "vhost"} => \A t \in StepNames : ~Did(c, t)
         /\ s # "switch" => ~Did(c, "switch")
         /\ s = "issue" => ~Did(c, "issue") /\ ~Did(c, "inspect")
         /\ s = "inspect" => ~Did(c, "refresh")
         /\ s = "https" => ~Did(c, "https")
         /\ s = "record" => ~Did(c, "refresh")
         /\ s # "reload" => ~Did(c, "refresh")
         /\ s # "check" => ~Did(c, "record")
         /\ ~Did(c, s)
<1>1. Kind(c) \in TLSKinds \cup PlanKinds /\ Last(c) \in 0..7 /\ at[c] \in 0..7
  BY Kinds, StepPlaces, SMT DEF BackedInv, Typed, TypeOK
<1>2. s \in {"http", "vhost"} => at[c] = 1
  BY SMT DEF Pos, Issuers, Aliasing
<1>3. ASSUME NEW t \in StepNames, at[c] = 1 PROVE ~Did(c, t)
  <2>1. Pos(c, t) \in Int
    BY StepPlaces, SMT DEF BackedInv, Typed
  <2> QED
    BY <1>3, <2>1, SMT DEF Did
<1>4. s # "switch" => ~Did(c, "switch")
  BY <1>1, SMT DEF Did, Pos, Issuers, Aliasing, StepNames
<1>5. s \in {"issue", "inspect"} => ~Did(c, "inspect") /\ ~Did(c, "refresh")
  BY <1>1, SMT DEF Did, Pos, Issuers, Aliasing, StepNames
<1>6. s # "reload" => ~Did(c, "refresh")
  BY <1>1, SMT DEF Did, Pos, Issuers, Aliasing, StepNames
<1>7. s # "check" => ~Did(c, "record")
  <2>1. Kind(c) \in Issuers => Last(c) = IF Kind(c) = "enable" THEN 7 ELSE 6
    BY SMT DEF Last, Issuers, Aliasing
  <2> QED
    BY <1>1, <2>1, SMT DEF Did, Pos, Issuers, Aliasing, StepNames
<1>8. ~Did(c, s)
  BY <1>1, SMT DEF Did
<1> QED
  BY <1>2, <1>3, <1>4, <1>5, <1>6, <1>7, <1>8, SMT

(* A step forward is one more that is done.                                *)
LEMMA DidNext ==
  ASSUME BackedInv, NEW c \in Callers, Do(c), NEW t \in StepNames
  PROVE  Did(c, t)' <=> Did(c, t) \/ t = Steps(c)[at[c]]
<1> DEFINE s == Steps(c)[at[c]]
<1>1. /\ TypeOK /\ s \in StepNames /\ Pos(c, s) = at[c] /\ at[c] \in 1..Last(c)
  BY DoEffect, Zenon DEF BackedInv, Typed
<1>2. /\ OwnControl(c) /\ snap' = snap /\ at'[c] = at[c] + 1
  BY DoTyped
<1>3. Pos(c, t)' = Pos(c, t)
  BY <1>2, SameCall DEF OwnControl
<1>4. Pos(c, t) \in 0..Last(c) /\ Last(c) \in 0..7
  BY <1>1, StepPlaces
<1> HIDE DEF s
<1>5. at[c] \in Int /\ Pos(c, t) \in Int /\ at[c] > 0
  BY <1>1, <1>4, SMT
<1>6. t = s <=> Pos(c, t) = at[c]
  BY <1>1, <1>5, Apart, SMT
<1>7. Did(c, t)' <=> 0 < Pos(c, t) /\ Pos(c, t) < at[c] + 1
  BY <1>2, <1>3 DEF Did
<1>8. Did(c, t)' <=> Did(c, t) \/ t = s
  BY <1>5, <1>6, <1>7, SMT DEF Did
<1> QED
  BY <1>8 DEF s

(***************************************************************************)
(* The names a call wants, against those it has read: an added name was    *)
(* not there, a removed one was.                                           *)
(***************************************************************************)
LEMMA NamesFollow ==
  ASSUME TypeOK, NEW c \in Callers, Admitted(c)
  PROVE  /\ Kind(c) \in {"addName", "addAlias"} => /\ Names(c) = snap[c].row.aliases \cup {call[c].alias}
                                                   /\ call[c].alias \notin snap[c].row.aliases
         /\ Kind(c) \in {"removeName", "removeAlias"} => /\ Names(c) = snap[c].row.aliases \ {call[c].alias}
                                                         /\ call[c].alias \in snap[c].row.aliases
         /\ Kind(c) \in {"enable", "disable", "renew", "reconcile"} => Names(c) = snap[c].row.aliases
<1> QED
  BY Kinds, SMT DEF Names, Admitted

(***************************************************************************)
(* A call that has the site for itself has changed it by its steps so far, *)
(* one step later too.                                                     *)
(***************************************************************************)
LEMMA DoForward ==
  ASSUME BackedInv, NEW c \in Callers, Do(c), Admitted(c), Forward(c)
  PROVE  Forward(c)'
<1> DEFINE s == Steps(c)[at[c]]
<1>1. /\ Typed /\ TypeOK /\ pc[c] = "run"
  BY DEF BackedInv, Typed, Do
<1>2. /\ s \in StepNames /\ Pos(c, s) = at[c] /\ at[c] \in 1..Last(c) /\ StepDone(c, s) /\ OwnData(c)
  BY DoEffect, Zenon
<1>3. /\ call' = call /\ snap' = snap /\ snap'[c] = snap[c]
  BY DoTyped DEF OwnControl
<1>4. \A t \in StepNames : Did(c, t)' <=> Did(c, t) \/ t = s
  BY DidNext
<1>5. /\ Kind(c)' = Kind(c) /\ Names(c)' = Names(c) /\ \A t : VHost(c, t)' = VHost(c, t)
  BY <1>3, SameCall
<1> HIDE DEF s
<1>6. /\ s \in {"http", "vhost"} => \A t \in StepNames : ~Did(c, t)
      /\ s # "switch" => ~Did(c, "switch")
      /\ s = "issue" => ~Did(c, "issue") /\ ~Did(c, "inspect")
      /\ s = "inspect" => ~Did(c, "refresh")
      /\ s = "https" => ~Did(c, "https")
      /\ s # "reload" => ~Did(c, "refresh")
      /\ s # "check" => ~Did(c, "record")
      /\ ~Did(c, s)
  BY <1>1, <1>2, Order
<1>7. site'.row.ssl = IF Did(c, "flag")' THEN Kind(c)' = "enable" ELSE snap'[c].row.ssl
  <2>1. CASE s = "flag"
    <3>1. site'.row.ssl <=> Kind(c) = "enable"
      BY <1>2, <2>1, SMT DEF StepDone
    <3>2. site'.row.ssl \in BOOLEAN
      BY DoTyped, SMT DEF Typed, TypeOK, Site, Row
    <3>3. (Kind(c) = "enable") \in BOOLEAN
      BY SMT
    <3>4. site'.row.ssl = (Kind(c) = "enable")
      BY <3>1, <3>2, <3>3, Zenon
    <3>5. Did(c, "flag")'
      BY <1>2, <1>4, <2>1
    <3> QED
      BY <1>5, <3>4, <3>5, Zenon
  <2>2. CASE s # "flag"
    <3>1. site'.row.ssl = site.row.ssl
      BY <1>2, <2>2, SMT DEF StepDone, SameBut, StepNames
    <3>2. Did(c, "flag")' <=> Did(c, "flag")
      BY <1>4, <2>2, SMT DEF StepNames
    <3>3. site.row.ssl = IF Did(c, "flag") THEN Kind(c) = "enable" ELSE snap[c].row.ssl
      BY DEF Forward
    <3> QED
      BY <1>3, <1>5, <3>1, <3>2, <3>3, Zenon
  <2> QED
    BY <2>1, <2>2
<1>8. site'.row.aliases = IF Did(c, "name")' THEN Names(c)' ELSE snap'[c].row.aliases
  <2>1. CASE s = "name"
    <3>1. Kind(c) \in {"addName", "addAlias", "removeName", "removeAlias"}
      BY <1>2, <2>1, SMT DEF Pos, Aliasing
    <3>2. site.row.aliases = snap[c].row.aliases
      BY <1>6, <2>1, SMT DEF Forward
    <3>3. site'.row.aliases = IF Kind(c) \in {"addName", "addAlias"}
                              THEN site.row.aliases \cup {call[c].alias}
                              ELSE site.row.aliases \ {call[c].alias}
      BY <1>2, <2>1, Zenon DEF StepDone
    <3>4. site'.row.aliases = Names(c)
      <4>1. CASE Kind(c) \in {"addName", "addAlias"}
        BY <1>1, <3>2, <3>3, <4>1, NamesFollow, Zenon
      <4>2. CASE Kind(c) \in {"removeName", "removeAlias"}
        <5>1. Kind(c) \notin {"addName", "addAlias"}
          BY <4>2, SMT
        <5> QED
          BY <1>1, <3>2, <3>3, <4>2, <5>1, NamesFollow, Zenon
      <4> QED
        BY <3>1, <4>1, <4>2, SMT
    <3> QED
      BY <1>2, <1>4, <1>5, <2>1, <3>4
  <2>2. CASE s # "name"
    <3>1. site'.row.aliases = site.row.aliases
      BY <1>2, <2>2, SMT DEF StepDone, SameBut, StepNames
    <3>2. Did(c, "name")' <=> Did(c, "name")
      BY <1>4, <2>2, SMT DEF StepNames
    <3> QED
      BY <1>3, <1>5, <3>1, <3>2, SMT DEF Forward
  <2> QED
    BY <2>1, <2>2
<1>9. site'.row.enabled = snap'[c].row.enabled
  <2>1. site'.row.enabled = site.row.enabled
    BY <1>2, SMT DEF StepDone, SameBut, StepNames
  <2> QED
    BY <1>3, <2>1 DEF Forward
<1>10. site'.file = IF Did(c, "https")' THEN VHost(c, "https")'
                    ELSE IF Did(c, "http")' THEN VHost(c, "http")'
                    ELSE IF Did(c, "vhost")' THEN VHost(c, "vhost")' ELSE snap'[c].file
  <2>1. CASE s \in {"http", "https", "vhost"}
    <3>1. site'.file = VHost(c, s)
      BY <1>2, <2>1, SMT DEF StepDone
    <3> QED
      BY <1>4, <1>5, <1>6, <2>1, <3>1, SMT DEF StepNames
  <2>2. CASE s \notin {"http", "https", "vhost"}
    <3>1. site'.file = site.file
      BY <1>2, <2>2, SMT DEF StepDone, SameBut, StepNames
    <3>2. /\ Did(c, "http")' <=> Did(c, "http")
          /\ Did(c, "https")' <=> Did(c, "https")
          /\ Did(c, "vhost")' <=> Did(c, "vhost")
      BY <1>4, <2>2, SMT DEF StepNames
    <3> QED
      BY <1>3, <1>5, <3>1, <3>2, SMT DEF Forward
  <2> QED
    BY <2>1, <2>2
<1>11. site'.link = IF Did(c, "switch")' THEN snap'[c].row.enabled ELSE snap'[c].link
  <2>1. CASE s = "switch"
    BY <1>2, <1>3, <1>4, <2>1, SMT DEF StepDone
  <2>2. CASE s # "switch"
    <3>1. site'.link = site.link
      BY <1>2, <2>2, SMT DEF StepDone, SameBut, StepNames
    <3>2. Did(c, "switch")' <=> Did(c, "switch")
      BY <1>4, <2>2, SMT DEF StepNames
    <3> QED
      BY <1>3, <3>1, <3>2, SMT DEF Forward
  <2> QED
    BY <2>1, <2>2
<1>12. IF Did(c, "issue")' THEN Has(c)' ELSE site'.lineage = snap'[c].lineage
  <2>1. CASE s = "issue"
    <3>1. site.lineage = snap[c].lineage /\ Did(c, "issue")'
      BY <1>2, <1>4, <1>6, <2>1, SMT DEF Forward
    <3>2. \/ issued' = issued \cup {c} /\ site'.lineage # NoLineage /\ site'.lineage.sans = Asked(c)
          \/ site'.lineage = site.lineage /\ issued' = issued /\ kept' = kept \cup {c} /\ MayKeep(c)
      BY <1>2, <2>1, SMT DEF StepDone, SameBut
    <3>3. Asked(c) = IF Kind(c) = "renew" THEN snap[c].lineage.sans ELSE Names(c)
      BY <3>1 DEF Asked
    <3>4. Has(c)'
      BY <1>3, <1>5, <3>1, <3>2, <3>3, SMT DEF Has, MayKeep
    <3> QED
      BY <3>1, <3>4
  <2>2. CASE s = "check"
    <3>1. Did(c, "issue") /\ Did(c, "issue")'
      <4>1. Did(c, "issue")
        BY <1>2, <2>2, SMT DEF Did, Pos, Issuers
      <4> QED
        BY <1>4, <4>1, SMT DEF StepNames
    <3>2. Has(c)
      BY <3>1 DEF Forward
    <3>3. /\ issued' = issued /\ kept' = kept /\ site'.lineage # NoLineage
          /\ site'.lineage.sans = site.lineage.sans
      BY <1>2, <2>2, <3>2, SMT DEF StepDone, Has
    <3>4. Has(c)'
      BY <1>3, <1>5, <3>2, <3>3, SMT DEF Has
    <3> QED
      BY <3>1, <3>4
  <2>3. CASE s \notin {"issue", "check"}
    <3>1. site'.lineage = site.lineage /\ issued' = issued /\ kept' = kept
      BY <1>2, <2>3, SMT DEF StepDone, SameBut, StepNames
    <3>2. Did(c, "issue")' <=> Did(c, "issue")
      BY <1>4, <2>3, SMT DEF StepNames
    <3>3. Has(c)' <=> Has(c)
      BY <1>3, <1>5, <3>1, SMT DEF Has
    <3> QED
      BY <1>3, <3>1, <3>2, <3>3, SMT DEF Forward
  <2> QED
    BY <2>1, <2>2, <2>3
<1>13. Did(c, "inspect")' /\ Kind(c)' # "enable" => got'[c] = site'.lineage.serial
  <2>1. CASE s = "inspect"
    BY <1>2, <2>1, SMT DEF StepDone, SameBut
  <2>2. CASE s # "inspect"
    <3>1. got'[c] = got[c] /\ (Did(c, "inspect")' <=> Did(c, "inspect"))
      BY <1>2, <1>4, <2>2, SMT DEF StepDone, StepNames
    <3>2. s = "check" => Kind(c) = "enable"
      BY <1>2, SMT DEF Pos
    <3>3. Did(c, "inspect") /\ s # "check" => site'.lineage = site.lineage
      BY <1>2, <1>6, SMT DEF StepDone, SameBut, StepNames
    <3> QED
      BY <1>5, <3>1, <3>2, <3>3, SMT DEF Forward
  <2> QED
    BY <2>1, <2>2
<1>14. IF Did(c, "record")'
       THEN site'.record # NoRecord /\ (Kind(c)' # "enable" => site'.record = New(c)')
       ELSE IF Did(c, "refresh")' THEN site'.record # NoRecord => site'.record.serial = got'[c]
       ELSE site'.record = snap'[c].record
  <2>1. CASE s = "record"
    <3>1. /\ Did(c, "record")' /\ site'.record # NoRecord
          /\ Kind(c) # "enable" => site'.record = New(c)
          /\ got'[c] = got[c]
      BY <1>2, <1>4, <2>1, SMT DEF StepDone
    <3>2. New(c)' = New(c)
      BY <1>5, <3>1 DEF New
    <3> QED
      BY <1>5, <3>1, <3>2
  <2>2. CASE s = "refresh"
    <3>1. ~Did(c, "record")' /\ Did(c, "refresh")'
      BY <1>4, <1>6, <2>2, SMT DEF StepNames
    <3>2. site'.record # NoRecord => site'.record.serial = got'[c]
      BY <1>2, <2>2, SMT DEF StepDone
    <3> QED
      BY <3>1, <3>2
  <2>3. CASE s = "check"
    <3>1. /\ Did(c, "record")' <=> Did(c, "record")
          /\ Did(c, "refresh")' <=> Did(c, "refresh")
          /\ site'.record = site.record /\ got'[c] = got[c]
      BY <1>2, <1>4, <2>3, SMT DEF StepDone, SameBut, StepNames
    <3>2. New(c)' = New(c)
      BY <1>5, <3>1 DEF New
    <3> QED
      BY <1>3, <1>5, <3>1, <3>2, SMT DEF Forward
  <2>4. CASE s \notin {"record", "refresh", "check"}
    <3>1. /\ ~Did(c, "record")' /\ (Did(c, "refresh")' <=> Did(c, "refresh"))
          /\ site'.record = site.record
      BY <1>2, <1>4, <1>6, <2>4, SMT DEF StepDone, SameBut, StepNames
    <3>2. Did(c, "refresh") => got'[c] = got[c]
      BY <1>2, <1>6, SMT DEF StepDone, StepNames
    <3> QED
      BY <1>3, <1>6, <2>4, <3>1, <3>2, SMT DEF Forward
  <2> QED
    BY <2>1, <2>2, <2>3, <2>4, SMT
<1>15. Did(c, "http")' \/ Did(c, "vhost")' => saved'[c].file = snap'[c].file
  <2>1. CASE s \in {"http", "vhost"}
    <3>1. saved'[c].file = site.file
      BY <1>2, <2>1, SMT DEF StepDone
    <3> QED
      BY <1>3, <1>6, <2>1, <3>1, SMT DEF Forward, StepNames
  <2>2. CASE s \notin {"http", "vhost"}
    BY <1>2, <1>3, <1>4, <2>2, SMT DEF Forward, StepDone, StepNames
  <2> QED
    BY <2>1, <2>2
<1>16. Did(c, "switch")' => saved'[c].link = snap'[c].link
  BY <1>2, <1>3, <1>4, <1>6, SMT DEF Forward, StepDone, StepNames
<1> QED
  BY <1>7, <1>8, <1>9, <1>10, <1>11, <1>12, <1>13, <1>14, <1>15, <1>16, Zenon DEF Forward


(* Nothing changes that the progress of the call c depends on.             *)
Rests(c) ==
  /\ site' = site /\ call' = call
  /\ snap'[c] = snap[c] /\ at'[c] = at[c] /\ saved'[c] = saved[c] /\ got'[c] = got[c]
  /\ c \in issued' <=> c \in issued
  /\ c \in kept' <=> c \in kept
  /\ c \in torn' <=> c \in torn

(* A call whose data rests keeps its progress.                             *)
LEMMA Resting ==
  ASSUME NEW c, Rests(c)
  PROVE  (Forward(c)' <=> Forward(c)) /\ (TLSBack(c)' <=> TLSBack(c)) /\ (PlanBack(c)' <=> PlanBack(c))
<1>1. /\ Kind(c)' = Kind(c) /\ Names(c)' = Names(c)
      /\ \A s : Pos(c, s)' = Pos(c, s) /\ VHost(c, s)' = VHost(c, s)
  BY SameCall DEF Rests
<1>2. \A s : (Did(c, s)' <=> Did(c, s)) /\ (Stands(c, s)' <=> Stands(c, s))
  BY <1>1, Zenon DEF Did, Stands, Rests
<1>3. New(c)' = New(c)
  BY <1>1, Zenon DEF New, Rests
<1>4. (Has(c)' <=> Has(c)) /\ (MayKeep(c)' <=> MayKeep(c))
  BY <1>1, SMT DEF Has, MayKeep, Rests
<1>5. Forward(c)' <=> Forward(c)
  <2>1. /\ Did(c, "flag")' <=> Did(c, "flag")
        /\ Did(c, "name")' <=> Did(c, "name")
        /\ Did(c, "https")' <=> Did(c, "https")
        /\ Did(c, "http")' <=> Did(c, "http")
        /\ Did(c, "vhost")' <=> Did(c, "vhost")
        /\ Did(c, "switch")' <=> Did(c, "switch")
        /\ Did(c, "issue")' <=> Did(c, "issue")
        /\ Did(c, "inspect")' <=> Did(c, "inspect")
        /\ Did(c, "record")' <=> Did(c, "record")
        /\ Did(c, "refresh")' <=> Did(c, "refresh")
    BY <1>2
  <2> QED
    BY <1>1, <1>3, <1>4, <2>1, SMT DEF Forward, Rests
<1>6. TLSBack(c)' <=> TLSBack(c)
  BY <1>1, <1>4, SMT DEF TLSBack, Rests
<1>7. PlanBack(c)' <=> PlanBack(c)
  BY <1>1, <1>2, SMT DEF PlanBack, Rests
<1> QED
  BY <1>5, <1>6, <1>7

(* Rows are equal field by field.                                          *)
LEMMA SameRow ==
  ASSUME TypeOK, NEW c \in Callers,
         site.row.ssl = snap[c].row.ssl, site.row.aliases = snap[c].row.aliases,
         site.row.enabled = snap[c].row.enabled
  PROVE  site.row = snap[c].row
<1>1. site.row \in Row /\ snap[c].row \in Row
  BY SMT DEF TypeOK, Site
<1> QED
  BY <1>1, SMT DEF Row

(* What a failed TLS call has left behind when its undo starts.            *)
LEMMA FailTLSBack ==
  ASSUME BackedInv, NEW c \in Callers, Fail(c), Kind(c) \in TLSKinds, Forward(c)
  PROVE  TLSBack(c)'
<1>1. /\ Typed /\ TypeOK /\ pc[c] = "run" /\ at[c] \in 1..Last(c)
  BY StepPlaces, SMT DEF BackedInv, Typed, TypeOK, Placed, Fail, TLSKinds, PlanKinds
<1>2. /\ call' = call /\ snap' = snap /\ snap'[c] = snap[c] /\ saved' = saved /\ got' = got
      /\ at'[c] = UndoneFrom(c)
  BY FailTyped DEF OwnControl, Fail
<1>3. StepFailed(c)
  BY FailEffect
<1>4. /\ Kind(c)' = Kind(c) /\ Names(c)' = Names(c) /\ \A t : VHost(c, t)' = VHost(c, t)
  BY <1>2, SameCall
<1>5. /\ site'.row.ssl = site.row.ssl /\ site'.row.aliases = site.row.aliases
      /\ site'.row.enabled = site.row.enabled
      /\ site'.file = site.file /\ site'.link = site.link /\ site'.record = site.record
  BY <1>3, SMT DEF StepFailed, SameBut
<1>6. site'.row = site.row
  <2>1. site.row \in Row /\ site'.row \in Row
    BY <1>1, FailTyped, SMT DEF Typed, TypeOK, Site
  <2> QED
    BY <1>5, <2>1, SMT DEF Row
<1>7. /\ Did(c, "issue") => Has(c) /\ Has(c)' /\ c \in issued' \cup kept'
      /\ ~Did(c, "issue") => /\ site.lineage = snap[c].lineage
                             /\ Has(c)' \/ site'.lineage = snap[c].lineage
                             /\ c \notin issued' => site'.lineage = snap[c].lineage
  <2>1. CASE Did(c, "issue")
    <3>1. Has(c)
      BY <2>1 DEF Forward
    <3>2. /\ issued' = issued /\ kept' = kept /\ site'.lineage # NoLineage
          /\ site'.lineage.sans = site.lineage.sans
      <4>1. Pos(c, "issue") # at[c]
        BY <1>1, <2>1, SMT DEF Did, TypeOK
      <4> QED
        BY <1>3, <3>1, <4>1, SMT DEF StepFailed, SameBut, Has
    <3>3. Has(c)'
      BY <1>2, <1>4, <3>1, <3>2, SMT DEF Has
    <3> QED
      BY <2>1, <3>1, <3>2, <3>3, SMT DEF Has
  <2>2. CASE ~Did(c, "issue")
    <3>1. site.lineage = snap[c].lineage
      BY <2>2 DEF Forward
    <3>2. Asked(c) = IF Kind(c) = "renew" THEN snap[c].lineage.sans ELSE Names(c)
      BY <3>1 DEF Asked
    <3>3. ~(at[c] = 7 /\ Kind(c) = "enable")
      BY <2>2, SMT DEF Did, Pos, Issuers
    <3>4. \/ site'.lineage = site.lineage
          \/ /\ issued' = issued \cup {c} /\ site'.lineage # NoLineage
             /\ site'.lineage.sans = Asked(c)
      BY <1>3, <3>3, SMT DEF StepFailed, SameBut
    <3> QED
      BY <1>2, <1>4, <2>2, <3>1, <3>2, <3>4, SMT DEF Has
  <2> QED
    BY <2>1, <2>2
<1>8. /\ Kind(c) \in Issuers => Last(c) = IF Kind(c) = "enable" THEN 7 ELSE 6
      /\ Kind(c) = "renew" => Last(c) = 4
      /\ Kind(c) = "disable" => Last(c) = 2
  BY SMT DEF Last, Issuers, Aliasing
<1>9. /\ Did(c, "flag") => Kind(c) = "enable" /\ Did(c, "issue")
      /\ Did(c, "name") => Kind(c) \in Issuers /\ Kind(c) # "enable" /\ Did(c, "issue")
      /\ Did(c, "https") => Kind(c) \in Issuers /\ Did(c, "issue")
      /\ ~Did(c, "vhost") /\ ~Did(c, "switch")
      /\ Did(c, "record") => Did(c, "issue")
      /\ Did(c, "refresh") => Did(c, "issue") /\ Kind(c) = "renew"
  BY <1>1, <1>8, SMT DEF Did, Pos, Issuers, Aliasing, TLSKinds
<1>10. \/ site.row = snap[c].row
       \/ /\ Kind(c) \in Issuers /\ Did(c, "issue")
          /\ Kind(c) # "enable" => site.row.ssl = snap[c].row.ssl
          /\ site.row.aliases \in {snap[c].row.aliases, Names(c)}
  <2>1. CASE ~Did(c, "flag") /\ ~Did(c, "name")
    BY <1>1, <2>1, SameRow, Zenon DEF Forward
  <2>2. CASE Did(c, "flag") \/ Did(c, "name")
    <3>1. Kind(c) \in Issuers /\ Did(c, "issue")
      BY <1>9, <2>2, SMT DEF Issuers
    <3>2. site.row.aliases \in {snap[c].row.aliases, Names(c)}
      BY SMT DEF Forward
    <3>3. Kind(c) # "enable" => site.row.ssl = snap[c].row.ssl
      <4>1. Kind(c) # "enable" => ~Did(c, "flag")
        BY <1>9
      <4> QED
        BY <4>1, Zenon DEF Forward
    <3> QED
      BY <3>1, <3>2, <3>3
  <2> QED
    BY <2>1, <2>2
<1>11. at'[c] = 1 => saved[c].file = snap[c].file
  <2>1. UndoneFrom(c) = 1 => Kind(c) \in Issuers /\ at[c] > 1
    <3>1. Kind(c) \in {"disable", "renew"} => UndoneFrom(c) = 0
      BY UndoneFromPlaced, <1>1, SMT DEF Issuers, TLSKinds
    <3> QED
      BY <1>1, <3>1, UndoneFromPlaced, SMT DEF Issuers, TLSKinds
  <2>2. Kind(c) \in Issuers /\ at[c] > 1 => Did(c, "http")
    BY SMT DEF Did, Pos
  <2> QED
    BY <1>2, <2>1, <2>2, Zenon DEF Forward
<1>12. ASSUME c \notin issued' \cup kept'
       PROVE  /\ site.row = snap[c].row /\ site.link = snap[c].link /\ site.record = snap[c].record
              /\ at'[c] = 0 => site.file = snap[c].file \/ (Kind(c) = "disable" /\ site.file = VHost(c, "http"))
  <2>1. ~Did(c, "issue")
    BY <1>7, <1>12
  <2>2. site.row = snap[c].row
    BY <1>10, <2>1
  <2>3. site.link = snap[c].link /\ site.record = snap[c].record
    BY <1>9, <2>1, Zenon DEF Forward
  <2>4. at'[c] = 0 /\ Kind(c) # "disable" => ~Did(c, "http")
    <3>1. CASE Kind(c) = "renew"
      BY <3>1, SMT DEF Did, Pos, Issuers
    <3>2. CASE Kind(c) \in Issuers
      <4>1. at[c] \in Int /\ (at[c] > 2 => Did(c, "issue"))
        BY <1>1, <3>2, SMT DEF Did, Pos, TypeOK
      <4>2. Did(c, "http") => at[c] > 1
        BY <1>1, <3>2, SMT DEF Did, Pos, TypeOK
      <4>3. at[c] = 2 => UndoneFrom(c) = 1
        BY <1>1, <3>2, UndoneFromPlaced, SMT DEF Issuers
      <4> QED
        BY <1>2, <2>1, <4>1, <4>2, <4>3, SMT
    <3> QED
      BY <3>1, <3>2, SMT DEF TLSKinds, Issuers
  <2>5. site.file = snap[c].file \/ (Did(c, "http") /\ site.file = VHost(c, "http"))
    BY <1>9, <2>1, Zenon DEF Forward
  <2> QED
    BY <2>2, <2>3, <2>4, <2>5, SMT
<1>13. site.file \in {snap[c].file, VHost(c, "http")} \/ (site.file = VHost(c, "https") /\ Did(c, "https"))
  BY <1>9, SMT DEF Forward
<1>14. (Kind(c)' # "disable" /\ Has(c)') \/ site'.lineage = snap'[c].lineage
  <2>1. CASE Kind(c) = "disable"
    <3>1. Pos(c, "issue") = 0 /\ at[c] \in 1..2
      BY <1>1, <1>8, <2>1, SMT DEF Pos, Issuers
    <3>2. ~Did(c, "issue") /\ site'.lineage = site.lineage
      BY <1>3, <2>1, <3>1, SMT DEF StepFailed, SameBut, Did
    <3> QED
      BY <1>2, <1>7, <3>2
  <2>2. CASE Kind(c) # "disable"
    BY <1>2, <1>4, <1>7, <2>2
  <2> QED
    BY <2>1, <2>2
<1>15. c \notin issued' \cup kept' => site'.lineage = snap'[c].lineage
  BY <1>2, <1>7
<1>16. \/ site'.row = snap'[c].row
       \/ /\ Kind(c)' \in Issuers /\ Has(c)'
          /\ Kind(c)' # "enable" => site'.row.ssl = snap'[c].row.ssl
          /\ site'.row.aliases \in {snap'[c].row.aliases, Names(c)'}
  BY <1>2, <1>4, <1>6, <1>7, <1>10, Zenon
<1>17. \/ site'.file \in {snap'[c].file, VHost(c, "http")'}
       \/ site'.file = VHost(c, "https")' /\ Kind(c)' \in Issuers /\ Has(c)'
  BY <1>2, <1>4, <1>5, <1>7, <1>9, <1>13, Zenon
<1>18. c \notin issued' \cup kept' \cup torn' => c \notin issued' \cup kept'
  OBVIOUS
<1> QED
  BY <1>2, <1>4, <1>5, <1>6, <1>11, <1>12, <1>14, <1>15, <1>16, <1>17, <1>18, Zenon DEF TLSBack


(* The steps of plans.                                                     *)
LEMMA PlanPlaces ==
  ASSUME NEW c, Kind(c) \in PlanKinds
  PROVE  /\ \A s \in StepNames \ {"vhost", "switch", "name"} : Pos(c, s) = 0
         /\ Pos(c, "name") > 0 => Kind(c) \in Aliasing
         /\ Kind(c) \in Aliasing \cup {"reconcile"} /\ Kind(c) \notin TLSKinds
<1> QED
  BY SMT DEF StepNames, Pos, Issuers, Aliasing, PlanKinds, TLSKinds

(* A plan that fails has to take back what it has done.                    *)
LEMMA FailPlanBack ==
  ASSUME BackedInv, NEW c \in Callers, Fail(c), Kind(c) \in PlanKinds, Forward(c)
  PROVE  PlanBack(c)'
<1>1. Typed /\ TypeOK /\ pc[c] = "run" /\ at[c] \in 1..Last(c) + 1 /\ Last(c) \in 0..7
  BY StepPlaces, SMT DEF BackedInv, Typed, Placed, Fail
<1>2. /\ call' = call /\ snap' = snap /\ snap'[c] = snap[c] /\ saved' = saved /\ torn' = torn
      /\ at'[c] = at[c] - 1
  BY FailTyped, UndoneFromPlaced, <1>1 DEF OwnControl, Fail
<1>3. /\ Kind(c)' = Kind(c) /\ Names(c)' = Names(c)
      /\ \A t : VHost(c, t)' = VHost(c, t) /\ Pos(c, t)' = Pos(c, t)
  BY <1>2, SameCall
<1>4. /\ \A s \in StepNames \ {"vhost", "switch", "name"} : Pos(c, s) = 0
  BY PlanPlaces
<1>5. Pos(c, "issue") = 0 /\ \A s \in StepNames \ {"vhost", "switch", "name"} : ~Did(c, s)
  BY <1>4, SMT DEF StepNames, Did
<1>6. SameBut({})
  <2>1. Kind(c) # "enable" /\ Pos(c, "issue") # at[c]
    BY <1>1, <1>5, SMT DEF PlanKinds
  <2> QED
    BY <2>1, FailEffect, Zenon DEF StepFailed
<1>7. /\ site'.row.ssl = site.row.ssl /\ site'.row.aliases = site.row.aliases
      /\ site'.row.enabled = site.row.enabled /\ site'.lineage = site.lineage
      /\ site'.file = site.file /\ site'.link = site.link /\ site'.record = site.record
  BY <1>6, SMT DEF SameBut
<1>8. \A s \in StepNames : Stands(c, s)' <=> Did(c, s)
  <2>1. TAKE s \in StepNames
  <2>2. Pos(c, s) \in Int /\ at[c] \in Int
    BY <1>1, StepPlaces, SMT DEF TypeOK
  <2> QED
    BY <1>2, <1>3, <2>2, SMT DEF Stands, Did
<1>9. /\ Stands(c, "name")' <=> Did(c, "name")
      /\ Stands(c, "vhost")' <=> Did(c, "vhost")
      /\ Stands(c, "switch")' <=> Did(c, "switch")
  BY <1>8, SMT DEF StepNames
<1>10. ~Did(c, "flag") /\ ~Did(c, "http") /\ ~Did(c, "https") /\ ~Did(c, "issue") /\ ~Did(c, "record")
       /\ ~Did(c, "refresh")
  BY <1>5, SMT DEF StepNames
<1> QED
  BY <1>2, <1>3, <1>7, <1>9, <1>10, SMT DEF Forward, PlanBack

(* The plain vhost is taken back, or its restore fails.                    *)
LEMMA UndoTLSBack ==
  ASSUME Typed, NEW c \in Callers, Undo(c) \/ UndoFails(c), Kind(c) \in TLSKinds, TLSBack(c)
  PROVE  TLSBack(c)'
<1>1. /\ TypeOK /\ pc[c] = "undo" /\ at[c] > 0
      /\ at' = [at EXCEPT ![c] = @ - 1]
      /\ call' = call /\ snap' = snap /\ snap'[c] = snap[c] /\ saved' = saved
      /\ issued' = issued /\ kept' = kept
  BY DEF Undo, UndoFails, Typed
<1>2. Steps(c)[at[c]] = "http" /\ at[c] = 1
  BY <1>1, UndonePlace
<1>3. at'[c] = 0
  BY <1>1, <1>2, SMT DEF TypeOK
<1>4. /\ Kind(c)' = Kind(c) /\ Names(c)' = Names(c) /\ \A t : VHost(c, t)' = VHost(c, t)
  BY <1>1, SameCall
<1>5. /\ site'.row = site.row /\ site'.lineage = site.lineage
      /\ site'.link = site.link /\ site'.record = site.record
      /\ \/ site'.file = snap[c].file /\ torn' = torn
         \/ site'.file = site.file /\ torn' = torn \cup {c}
  <2>1. CASE Undo(c)
    <3>1. site' = [site EXCEPT !.file = saved[c].file] /\ torn' = torn
      BY <1>2, <2>1, Zenon DEF Undo, Undone
    <3>2. saved[c].file = snap[c].file
      BY <1>2 DEF TLSBack
    <3> QED
      BY <1>1, <3>1, <3>2, SMT DEF TypeOK, Site
  <2>2. CASE UndoFails(c)
    BY <2>2 DEF UndoFails
  <2> QED
    BY <2>1, <2>2
<1>6. /\ Has(c)' <=> Has(c)
      /\ MayKeep(c)' <=> MayKeep(c)
  BY <1>1, <1>4, <1>5, SMT DEF Has, MayKeep
<1> QED
  BY <1>1, <1>3, <1>4, <1>5, <1>6, SMT DEF TLSBack

(* A plan takes back one step, or its restore fails.                       *)
LEMMA UndoPlanBack ==
  ASSUME Typed, NEW c \in Callers, Undo(c) \/ UndoFails(c), Kind(c) \in PlanKinds, Admitted(c), PlanBack(c)
  PROVE  PlanBack(c)'
<1> DEFINE s == Steps(c)[at[c]]
<1>1. /\ TypeOK /\ pc[c] = "undo" /\ at[c] > 0
      /\ at' = [at EXCEPT ![c] = @ - 1]
      /\ call' = call /\ snap' = snap /\ snap'[c] = snap[c] /\ saved' = saved
  BY DEF Undo, UndoFails, Typed
<1>2. /\ at[c] \in 1..Last(c) /\ s \in StepNames /\ Pos(c, s) = at[c]
      /\ s = "name" => Kind(c) \in Aliasing
  BY <1>1, UndonePlace, Zenon
<1>3. at'[c] = at[c] - 1
  BY <1>1, SMT DEF TypeOK
<1>4. /\ Kind(c)' = Kind(c) /\ Names(c)' = Names(c)
      /\ \A t : VHost(c, t)' = VHost(c, t) /\ Pos(c, t)' = Pos(c, t)
  BY <1>1, SameCall
<1> HIDE DEF s
<1>5. ASSUME NEW t \in StepNames
      PROVE  Stands(c, t)' <=> Stands(c, t) /\ t # s
  <2>1. Pos(c, t) \in Int /\ at[c] \in Int /\ at[c] > 0
    <3>1. Pos(c, t) \in 0..Last(c) /\ Last(c) \in 0..7
      BY <1>1, StepPlaces
    <3> QED
      BY <1>1, <1>2, <3>1, SMT
  <2>2. t = s <=> Pos(c, t) = at[c]
    BY <1>2, <2>1, Apart, SMT
  <2>3. Stands(c, t)' <=> 0 < Pos(c, t) /\ Pos(c, t) <= at[c] - 1
    BY <1>3, <1>4 DEF Stands
  <2> QED
    BY <2>1, <2>2, <2>3, SMT DEF Stands
<1>6. Stands(c, s)
  BY <1>1, <1>2, SMT DEF Stands
<1>7. /\ Stands(c, "name")' <=> Stands(c, "name") /\ "name" # s
      /\ Stands(c, "vhost")' <=> Stands(c, "vhost") /\ "vhost" # s
      /\ Stands(c, "switch")' <=> Stands(c, "switch") /\ "switch" # s
  BY <1>5, SMT DEF StepNames
<1>8. CASE UndoFails(c)
  <2>1. site' = site /\ torn' = torn \cup {c}
    BY <1>8 DEF UndoFails
  <2>2. c \in torn'
    BY <2>1
  <2>3. Stands(c, "name") => Kind(c) \in Aliasing
    BY PlanPlaces DEF Stands
  <2> QED
    BY <1>1, <1>4, <1>7, <2>1, <2>2, <2>3, SMT DEF PlanBack
<1>9. CASE Undo(c)
  <2>1. StepUndone(c, s) /\ torn' = torn
    BY <1>9, UndoEffect DEF Undo, s
  <2>2. CASE s = "vhost"
    <3>1. /\ SameBut({"file"}) /\ site'.file = snap[c].file
      BY <1>6, <2>1, <2>2, SMT DEF StepUndone, PlanBack
    <3> QED
      BY <1>1, <1>4, <1>7, <2>1, <2>2, <3>1, SMT DEF PlanBack, SameBut
  <2>3. CASE s = "switch"
    <3>1. /\ SameBut({"link"}) /\ site'.link = snap[c].link
      BY <1>6, <2>1, <2>3, SMT DEF StepUndone, PlanBack
    <3> QED
      BY <1>1, <1>4, <1>7, <2>1, <2>3, <3>1, SMT DEF PlanBack, SameBut
  <2>4. CASE s = "name"
    <3>1. /\ SameBut({"aliases"})
          /\ site'.row.aliases = IF Kind(c) = "addAlias" THEN site.row.aliases \ {call[c].alias}
                                 ELSE site.row.aliases \cup {call[c].alias}
      BY <2>1, <2>4, SMT DEF StepUndone
    <3>2. site'.row.aliases = snap[c].row.aliases \/ (c \in torn /\ Kind(c) \in Aliasing)
      <4>1. Kind(c) \in Aliasing
        BY <1>2, <2>4
      <4>2. CASE c \in torn
        BY <4>1, <4>2
      <4>3. CASE c \notin torn
        <5>1. site.row.aliases = Names(c)
          BY <1>6, <2>4, <4>3 DEF PlanBack
        <5>2. CASE Kind(c) = "addAlias"
          BY <1>1, <3>1, <5>1, <5>2, NamesFollow, SMT
        <5>3. CASE Kind(c) = "removeAlias"
          BY <1>1, <3>1, <5>1, <5>3, NamesFollow, SMT
        <5> QED
          BY <4>1, <5>2, <5>3, SMT DEF Aliasing
      <4> QED
        BY <4>2, <4>3
    <3> QED
      BY <1>1, <1>4, <1>7, <2>1, <2>4, <3>1, <3>2, SMT DEF PlanBack, SameBut
  <2> QED
    BY <2>1, <2>2, <2>3, <2>4, PlanPlaces, <1>2, <1>1, SMT DEF StepUndone, Pos, Issuers, PlanKinds
<1> QED
  BY <1>8, <1>9


(***************************************************************************)
(* The actions besides Begin: nobody overlaps anew, and calls that are not *)
(* active leave the site alone.                                            *)
(***************************************************************************)
LEMMA Moves ==
  ASSUME BackedInv, NEW c \in Callers, Passes(c) \/ Do(c) \/ Fail(c) \/ Undo(c)
  PROVE  /\ overlapped' = overlapped /\ snap' = snap /\ OwnControl(c) /\ OwnData(c)
         /\ pc'[c] \in Active => pc[c] \in Active
         /\ pc[c] \notin Active => site' = site
<1>1. TypeOK /\ Typed
  BY DEF BackedInv, Typed
<1>2. snap' = snap /\ OwnControl(c) /\ OwnData(c)
  BY <1>1, PassTyped, DoTyped, FailTyped, UndoTyped, DoEffect, FailEffect, UndoEffect, Zenon
<1>3. overlapped' = overlapped
  BY SMT DEF Passes, Refuse, Start, LockTimesOut, Return, UndoFails, GiveUp, Crash, Do, Fail, Undo
<1>4. CASE Passes(c)
  BY <1>1, <1>2, <1>3, <1>4, SMT
     DEF Passes, Refuse, Start, LockTimesOut, Return, UndoFails, GiveUp, Crash, Goto, TypeOK, Active
<1>5. CASE Do(c) \/ Fail(c) \/ Undo(c)
  <2>1. pc[c] \in Active
    BY <1>5, SMT DEF Do, Fail, Undo, Active
  <2> QED
    BY <1>2, <1>3, <2>1
<1> QED
  BY <1>4, <1>5

(***************************************************************************)
(* A call that begins marks itself and the others, or is alone with the    *)
(* site as it has read it.                                                 *)
(***************************************************************************)
LEMMA BeginTracked ==
  ASSUME TrackInv, NEW c \in Callers, Begin(c), NEW d \in Callers
  PROVE  Tracked(d)'
<1> DEFINE others == {e \in Callers \ {c} : pc[e] \in Active}
<1>1. /\ BackedInv /\ Typed /\ TypeOK /\ Tracked(d) /\ Tracked(c)
  BY DEF TrackInv, BackedInv, Typed
<1>2. /\ pc[c] = "idle" /\ Accepted(c)
      /\ overlapped' = overlapped \cup others \cup (IF others = {} THEN {} ELSE {c})
      /\ UNCHANGED <<site, lock, call, at, saved, got, torn, issued, kept, renewed>>
      /\ pc' = [pc EXCEPT ![c] = IF Kind(c) \in PlanKinds THEN "wait" ELSE "run"]
  BY DEF Begin, Goto
<1>3. OwnControl(c) /\ snap'[c] = site
  BY <1>1, BeginTyped
<1>4. /\ pc'[c] \in {"wait", "run"} /\ \A e \in Callers \ {c} : pc'[e] = pc[e]
  BY <1>1, <1>2, SMT DEF TypeOK
<1>5. \A e \in Callers \ {c} : pc[e] \in Active => e \in overlapped'
  BY <1>2, SMT
<1>6. c \notin overlapped' => \A e \in Callers \ {c} : pc[e] \notin Active
  BY <1>2, SMT
<1> HIDE DEF others
<1>7. CASE d = c
  <2>1. Alone(c)'
    BY <1>4, <1>6, SMT DEF Alone
  <2>2. Kind(c)' = Kind(c)
    BY <1>2 DEF Kind
  <2>3. Admitted(c)'
    <3>1. /\ Kind(c) = "addName" => site.row.ssl /\ call[c].alias \notin site.row.aliases
          /\ Kind(c) = "removeName" => site.row.ssl /\ call[c].alias \in site.row.aliases
          /\ Kind(c) = "renew" => site.lineage # NoLineage
          /\ Kind(c) = "addAlias" => ~site.row.ssl /\ call[c].alias \notin site.row.aliases
          /\ Kind(c) = "removeAlias" => ~site.row.ssl /\ call[c].alias \in site.row.aliases
      BY <1>2, Zenon DEF Accepted
    <3>2. call' = call
      BY <1>2
    <3> QED
      BY <1>3, <2>2, <3>1, <3>2, Zenon DEF Admitted
  <2>4. at'[c] = 1
    BY <1>1, <1>2, SMT DEF Typed, Placed
  <2>5. \A t \in StepNames : ~Did(c, t)'
    <3>1. TAKE t \in StepNames
    <3>2. Pos(c, t)' \in Int
      BY SMT DEF StepNames, Pos
    <3>3. Did(c, t)' <=> 0 < Pos(c, t)' /\ Pos(c, t)' < 1
      BY <2>4 DEF Did
    <3> QED
      BY <3>2, <3>3, SMT
  <2>6. Forward(c)'
    BY <1>2, <1>3, <2>5, SMT DEF Forward, StepNames
  <2> QED
    BY <1>4, <1>7, <2>1, <2>3, <2>6, SMT DEF Tracked
<1>8. CASE d # c
  <2>1. pc'[d] = pc[d] /\ snap'[d] = snap[d] /\ call' = call
    BY <1>3, <1>8 DEF OwnControl
  <2>2. pc[d] \in Active => d \in overlapped'
    BY <1>5, <1>8
  <2>3. Alone(d)'
    BY <2>1, <2>2 DEF Alone
  <2>4. pc'[d] \in Active => Admitted(d)'
    BY <1>1, <2>1, SameCall DEF Tracked
  <2> QED
    BY <2>1, <2>2, <2>3, <2>4, SMT DEF Tracked, Active
<1> QED
  BY <1>7, <1>8

(* While one call works, the others overlap it or do not work.             *)
LEMMA OthersTracked ==
  ASSUME TrackInv, NEW c \in Callers, Passes(c) \/ Do(c) \/ Fail(c) \/ Undo(c), NEW d \in Callers \ {c}
  PROVE  Tracked(d)'
<1>1. BackedInv /\ Tracked(d)
  BY DEF TrackInv
<1>2. /\ overlapped' = overlapped /\ snap' = snap /\ OwnControl(c) /\ OwnData(c)
      /\ pc'[c] \in Active => pc[c] \in Active
      /\ pc[c] \notin Active => site' = site
  BY <1>1, Moves
<1>3. /\ call' = call /\ pc'[d] = pc[d] /\ at'[d] = at[d] /\ snap'[d] = snap[d]
      /\ saved'[d] = saved[d] /\ got'[d] = got[d]
      /\ d \in issued' <=> d \in issued
      /\ d \in kept' <=> d \in kept
      /\ d \in torn' <=> d \in torn
      /\ \A e \in Callers \ {c} : pc'[e] = pc[e]
  BY <1>2, SMT DEF OwnControl, OwnData
<1>4. Alone(d)'
  BY <1>1, <1>2, <1>3, SMT DEF Tracked, Alone
<1>5. Kind(d)' = Kind(d) /\ (Admitted(d)' <=> Admitted(d))
  BY <1>3, SameCall
<1>6. CASE pc[d] \in Active /\ d \notin overlapped
  <2>1. pc[c] \notin Active
    BY <1>1, <1>6 DEF Tracked, Alone
  <2>2. Rests(d)
    BY <1>2, <1>3, <2>1 DEF Rests
  <2>3. (Forward(d)' <=> Forward(d)) /\ (TLSBack(d)' <=> TLSBack(d)) /\ (PlanBack(d)' <=> PlanBack(d))
    BY <2>2, Resting
  <2> QED
    BY <1>1, <1>2, <1>3, <1>4, <1>5, <2>3, SMT DEF Tracked
<1>7. CASE ~(pc[d] \in Active /\ d \notin overlapped)
  BY <1>1, <1>2, <1>3, <1>4, <1>5, <1>7, SMT DEF Tracked, Active
<1> QED
  BY <1>6, <1>7

(* The call that works keeps track of what it has changed.                 *)
LEMMA OwnTracked ==
  ASSUME TrackInv, NEW c \in Callers, Passes(c) \/ Do(c) \/ Fail(c) \/ Undo(c)
  PROVE  Tracked(c)'
<1>1. BackedInv /\ Typed /\ TypeOK /\ Tracked(c) /\ Kind(c) \in TLSKinds \cup PlanKinds
  BY Kinds DEF TrackInv, BackedInv, Typed
<1>2. /\ overlapped' = overlapped /\ snap' = snap /\ OwnControl(c) /\ OwnData(c)
      /\ pc'[c] \in Active => pc[c] \in Active
  BY <1>1, Moves
<1>3. /\ call' = call /\ snap'[c] = snap[c] /\ \A e \in Callers \ {c} : pc'[e] = pc[e]
  BY <1>2 DEF OwnControl
<1>4. Alone(c)'
  BY <1>1, <1>2, <1>3, SMT DEF Tracked, Alone
<1>5. Kind(c)' = Kind(c) /\ (Admitted(c)' <=> Admitted(c))
  BY <1>3, SameCall
<1>6. pc'[c] \in Active => Admitted(c) /\ Admitted(c)'
  BY <1>1, <1>2, <1>5 DEF Tracked
<1>7. ASSUME c \notin overlapped
      PROVE  /\ pc'[c] \in {"wait", "run"} => Forward(c)'
             /\ pc'[c] = "undo" /\ Kind(c) \in TLSKinds => TLSBack(c)'
             /\ pc'[c] = "undo" /\ Kind(c) \in PlanKinds => PlanBack(c)'
  <2>1. CASE Do(c)
    <3>1. pc[c] = "run" /\ pc' = pc
      BY <2>1 DEF Do
    <3>2. Admitted(c) /\ Forward(c)
      BY <1>1, <1>7, <3>1, SMT DEF Tracked, Active
    <3>3. Forward(c)'
      BY <1>1, <2>1, <3>2, DoForward
    <3> QED
      BY <3>1, <3>3, SMT
  <2>2. CASE Fail(c)
    <3>1. pc[c] = "run" /\ pc'[c] = "undo"
      BY <1>1, <2>2, FailTyped DEF Fail
    <3>2. Forward(c)
      BY <1>1, <1>7, <3>1, SMT DEF Tracked
    <3> QED
      BY <1>1, <2>2, <3>1, <3>2, FailTLSBack, FailPlanBack, SMT
  <2>3. CASE Undo(c) \/ UndoFails(c)
    <3>1. pc[c] = "undo" /\ pc' = pc
      BY <2>3 DEF Undo, UndoFails
    <3>2. /\ Admitted(c)
          /\ Kind(c) \in TLSKinds => TLSBack(c)
          /\ Kind(c) \in PlanKinds => PlanBack(c)
      BY <1>1, <1>7, <3>1, SMT DEF Tracked, Active
    <3>3. /\ Kind(c) \in TLSKinds => TLSBack(c)'
          /\ Kind(c) \in PlanKinds => PlanBack(c)'
      BY <1>1, <2>3, <3>2, UndoTLSBack, UndoPlanBack, Zenon
    <3> QED
      BY <3>1, <3>3, SMT
  <2>4. CASE Start(c)
    <3>1. pc[c] = "wait" /\ pc'[c] = "run" /\ Rests(c)
      BY <1>1, <2>4, SMT DEF Start, Goto, Rests, TypeOK
    <3>2. Forward(c)
      BY <1>1, <1>7, <3>1, SMT DEF Tracked
    <3>3. Forward(c)'
      BY <3>1, <3>2, Resting
    <3> QED
      BY <3>1, <3>3, SMT
  <2>5. CASE Refuse(c) \/ LockTimesOut(c) \/ Return(c) \/ GiveUp(c) \/ Crash(c)
    <3>1. pc'[c] \in {"refused", "failed", "ok", "crashed"}
      BY <1>1, <2>5, SMT DEF Refuse, LockTimesOut, Return, GiveUp, Crash, Goto, TypeOK
    <3> QED
      BY <3>1, SMT
  <2> QED
    BY <2>1, <2>2, <2>3, <2>4, <2>5 DEF Passes
<1> QED
  BY <1>2, <1>4, <1>5, <1>6, <1>7, Zenon DEF Tracked

(* TrackInv is inductive.                                                  *)
LEMMA TrackStep ==
  ASSUME TrackInv, [Next]_vars
  PROVE  TrackInv'
<1>1. BackedInv'
  BY BackedStep DEF TrackInv
<1>2. CASE UNCHANGED vars
  <2>1. UNCHANGED <<site, lock, call, pc, at, snap, saved, got, overlapped, torn, issued, kept, renewed>>
    BY <1>2 DEF vars
  <2>2. ASSUME NEW c \in Callers PROVE Tracked(c)'
    <3>1. Rests(c) /\ snap'[c] = snap[c]
      BY <2>1 DEF Rests
    <3>2. /\ (Forward(c)' <=> Forward(c)) /\ (TLSBack(c)' <=> TLSBack(c))
          /\ (PlanBack(c)' <=> PlanBack(c))
          /\ Kind(c)' = Kind(c) /\ (Admitted(c)' <=> Admitted(c))
      BY <2>1, <3>1, Resting, SameCall
    <3>3. Alone(c)' <=> Alone(c)
      BY <2>1, Zenon DEF Alone
    <3>4. Tracked(c)
      BY DEF TrackInv
    <3> QED
      BY <2>1, <3>2, <3>3, <3>4, Zenon DEF Tracked
  <2> QED
    BY <1>1, <2>2 DEF TrackInv
<1>3. ASSUME NEW c \in Callers, Operation(c) PROVE TrackInv'
  <2>1. ASSUME NEW d \in Callers PROVE Tracked(d)'
    <3>1. CASE Begin(c)
      BY <3>1, BeginTracked
    <3>2. CASE Passes(c) \/ Do(c) \/ Fail(c) \/ Undo(c)
      BY <3>2, OthersTracked, OwnTracked, Zenon
    <3> QED
      BY <1>3, <3>1, <3>2, Operations
  <2> QED
    BY <1>1, <2>1 DEF TrackInv
<1> QED
  BY <1>2, <1>3 DEF Next

(* It holds at the start, when nobody works.                               *)
LEMMA InitTracked ==
  ASSUME Init
  PROVE  TrackInv
<1>1. BackedInv
  BY InitBacked
<1>2. ASSUME NEW c \in Callers PROVE Tracked(c)
  <2>1. pc[c] = "idle"
    BY DEF Init
  <2> QED
    BY <2>1, SMT DEF Tracked, Alone, Active
<1> QED
  BY <1>1, <1>2 DEF TrackInv

(***************************************************************************)
(* TrackInv is an invariant: a call that has overlapped with no other has  *)
(* changed the site by exactly the steps it has done, or has still to take *)
(* back.                                                                   *)
(***************************************************************************)
THEOREM Tracking == Spec => []TrackInv
<1>1. Init => TrackInv
  BY InitTracked
<1>2. TrackInv /\ [Next]_vars => TrackInv'
  BY TrackStep
<1> QED
  BY <1>1, <1>2, PTL DEF Spec


(* A call ends well by Return only.                                        *)
LEMMA OnlyReturns ==
  ASSUME TrackInv, [Next]_vars, NEW c \in Callers, pc[c] = "run", pc'[c] = "ok"
  PROVE  Return(c)
<1>1. BackedInv /\ Typed /\ TypeOK
  BY DEF TrackInv, BackedInv, Typed
<1>2. pc' # pc
  BY SMT
<1>3. PICK d \in Callers : Operation(d)
  BY <1>2 DEF Next, vars
<1>4. OwnControl(d)
  BY <1>1, <1>3, Operations, BeginTyped, Moves, Zenon
<1>5. d = c
  BY <1>4, SMT DEF OwnControl
<1> QED
  BY <1>1, <1>3, <1>5, SMT
     DEF Operation, Begin, Refuse, Start, LockTimesOut, Do, Fail, Undo, UndoFails,
     GiveUp, Crash, Goto, TypeOK

(* An undo ends by GiveUp only.                                            *)
LEMMA OnlyGivesUp ==
  ASSUME TrackInv, [Next]_vars, NEW c \in Callers, pc[c] = "undo", pc'[c] = "failed"
  PROVE  GiveUp(c)
<1>1. BackedInv /\ Typed /\ TypeOK
  BY DEF TrackInv, BackedInv, Typed
<1>2. pc' # pc
  BY SMT
<1>3. PICK d \in Callers : Operation(d)
  BY <1>2 DEF Next, vars
<1>4. OwnControl(d)
  BY <1>1, <1>3, Operations, BeginTyped, Moves, Zenon
<1>5. d = c
  BY <1>4, SMT DEF OwnControl
<1> QED
  BY <1>1, <1>3, <1>5, SMT
     DEF Operation, Begin, Refuse, Start, LockTimesOut, Return, Do, Fail, Undo,
     UndoFails, Crash, Goto, TypeOK

(* The vhosts a call renders.                                              *)
LEMMA Drawn ==
  ASSUME TypeOK, NEW c \in Callers
  PROVE  /\ VHost(c, "http") = [aliases |-> Names(c), tls |-> FALSE]
         /\ VHost(c, "https") = [aliases |-> Names(c), tls |-> TRUE]
         /\ Kind(c) \in Aliasing => VHost(c, "vhost") = [aliases |-> Names(c), tls |-> snap[c].row.ssl]
         /\ Kind(c) = "reconcile" => VHost(c, "vhost") = Rendered(snap[c].row)
<1>1. VHost(c, "http") = [aliases |-> Names(c), tls |-> FALSE]
  BY Zenon DEF VHost
<1>2. VHost(c, "https") = [aliases |-> Names(c), tls |-> TRUE]
  BY Zenon DEF VHost
<1>3. Kind(c) \in Aliasing => VHost(c, "vhost") = [aliases |-> Names(c), tls |-> snap[c].row.ssl]
  <2>1. Kind(c) \in Aliasing => Kind(c) # "reconcile"
    BY SMT DEF Aliasing
  <2> QED
    BY <2>1, Zenon DEF VHost
<1>4. Kind(c) = "reconcile" => VHost(c, "vhost") = Rendered(snap[c].row)
  BY Zenon DEF VHost
<1> QED
  BY <1>1, <1>2, <1>3, <1>4

(***************************************************************************)
(* After the last step vhost, row, lineage and certificate row agree, for  *)
(* each kind of call.                                                      *)
(***************************************************************************)
LEMMA Agreement ==
  ASSUME TypeOK, NEW c \in Callers, Admitted(c), Forward(c), at[c] = Last(c) + 1
  PROVE  /\ Kind(c) # "renew" => site.file = Rendered(site.row)
         /\ Kind(c) \in Issuers => site.record # NoRecord /\ site.row.aliases = site.lineage.sans
         /\ Kind(c) \in {"addName", "removeName"} => site.record = site.lineage
         /\ Kind(c) = "renew" /\ site.record # NoRecord =>
              site.record.serial = site.lineage.serial
<1>1. Kind(c) \in TLSKinds \cup PlanKinds
  BY Kinds
<1>2. \A t \in StepNames : Did(c, t) <=> Pos(c, t) > 0
  <2>1. TAKE t \in StepNames
  <2>2. Pos(c, t) \in 0..Last(c) /\ Last(c) \in 0..7
    BY StepPlaces
  <2> QED
    BY <2>2, SMT DEF Did
<1>3. ASSUME Kind(c) \in Issuers
      PROVE  /\ site.file = Rendered(site.row)
             /\ site.record # NoRecord /\ site.row.aliases = site.lineage.sans
             /\ Kind(c) # "enable" => site.record = site.lineage
  <2>1. /\ Did(c, "issue") /\ Did(c, "inspect") /\ Did(c, "https") /\ Did(c, "record")
        /\ Did(c, "flag") <=> Kind(c) = "enable"
        /\ Did(c, "name") <=> Kind(c) # "enable"
    BY <1>2, <1>3, SMT DEF StepNames, Pos, Issuers, Aliasing
  <2>2. /\ site.lineage # NoLineage /\ site.lineage.sans = Names(c)
        /\ Kind(c) # "enable" => got[c] = site.lineage.serial
        /\ site.record # NoRecord /\ (Kind(c) # "enable" => site.record = New(c))
        /\ site.file = VHost(c, "https")
    BY <1>3, <2>1, SMT DEF Forward, Has, Issuers
  <2>3. site.row.aliases = Names(c)
    BY <1>3, <2>1, NamesFollow, SMT DEF Forward
  <2>4. site.row.ssl = TRUE
    <3>1. CASE Kind(c) = "enable"
      <4>1. site.row.ssl = (Kind(c) = "enable")
        BY <2>1, <3>1, Zenon DEF Forward
      <4> QED
        BY <3>1, <4>1, Zenon
    <3>2. CASE Kind(c) # "enable"
      <4>1. site.row.ssl = snap[c].row.ssl
        BY <2>1, <3>2, Zenon DEF Forward
      <4>2. snap[c].row.ssl
        BY <1>3, <3>2, SMT DEF Admitted, Issuers
      <4>3. snap[c].row.ssl \in BOOLEAN
        BY Kinds, SMT DEF Row
      <4> QED
        BY <4>1, <4>2, <4>3, Zenon
    <3> QED
      BY <3>1, <3>2
  <2>5. site.file = [aliases |-> Names(c), tls |-> TRUE]
    BY <2>2, Drawn
  <2>6. site.file = Rendered(site.row)
    BY <2>3, <2>4, <2>5, Zenon DEF Rendered
  <2>7. Kind(c) # "enable" => New(c) = site.lineage
    <3>1. site.lineage \in Issue
      BY <2>2, SMT DEF TypeOK, Site
    <3> QED
      BY <2>2, <3>1, SMT DEF New, Issue
  <2> QED
    BY <2>2, <2>3, <2>6, <2>7
<1>4. ASSUME Kind(c) = "disable" PROVE site.file = Rendered(site.row)
  <2>1. Did(c, "http") /\ Did(c, "flag") /\ ~Did(c, "https") /\ ~Did(c, "name")
    BY <1>2, <1>4, SMT DEF StepNames, Pos, Issuers, Aliasing
  <2>2. site.file = [aliases |-> Names(c), tls |-> FALSE] /\ site.row.aliases = Names(c)
    BY <1>4, <2>1, Drawn, NamesFollow, SMT DEF Forward
  <2>3. site.row.ssl = FALSE
    <3>1. site.row.ssl = (Kind(c) = "enable")
      BY <2>1, Zenon DEF Forward
    <3>2. Kind(c) # "enable"
      BY <1>4
    <3> QED
      BY <3>1, <3>2, Zenon
  <2> QED
    BY <2>2, <2>3, Zenon DEF Rendered
<1>5. ASSUME Kind(c) \in Aliasing PROVE site.file = Rendered(site.row)
  <2>1. Did(c, "vhost") /\ Did(c, "name") /\ ~Did(c, "https") /\ ~Did(c, "http") /\ ~Did(c, "flag")
    BY <1>2, <1>5, SMT DEF StepNames, Pos, Issuers, Aliasing
  <2>2. /\ site.file = [aliases |-> Names(c), tls |-> snap[c].row.ssl]
        /\ site.row.aliases = Names(c) /\ site.row.ssl = snap[c].row.ssl
    BY <1>5, <2>1, Drawn, Zenon DEF Forward
  <2> QED
    BY <2>2, Zenon DEF Rendered
<1>6. ASSUME Kind(c) = "reconcile" PROVE site.file = Rendered(site.row)
  <2>1. /\ ~Did(c, "name") /\ ~Did(c, "https") /\ ~Did(c, "http") /\ ~Did(c, "flag")
        /\ Did(c, "vhost") <=> FileDrifts(c)
    BY <1>2, <1>6, SMT DEF StepNames, Pos, Issuers, Aliasing
  <2>2. site.row.aliases = snap[c].row.aliases /\ site.row.ssl = snap[c].row.ssl
    BY <2>1, Zenon DEF Forward
  <2>3. Rendered(site.row) = Rendered(snap[c].row)
    BY <2>2, Zenon DEF Rendered
  <2>4. CASE FileDrifts(c)
    BY <1>6, <2>1, <2>3, <2>4, Drawn, Zenon DEF Forward
  <2>5. CASE ~FileDrifts(c)
    BY <2>1, <2>3, <2>5, Zenon DEF Forward, FileDrifts
  <2> QED
    BY <2>4, <2>5
<1>7. ASSUME Kind(c) = "renew", site.record # NoRecord
      PROVE  site.record.serial = site.lineage.serial
  <2>1. Did(c, "inspect") /\ Did(c, "refresh") /\ ~Did(c, "record")
    BY <1>2, <1>7, SMT DEF StepNames, Pos, Issuers, Aliasing
  <2> QED
    BY <1>7, <2>1, Zenon DEF Forward
<1>8. Kind(c) \in Issuers \/ Kind(c) = "disable" \/ Kind(c) \in Aliasing \/ Kind(c) = "reconcile"
      \/ Kind(c) = "renew"
  BY <1>1, SMT DEF TLSKinds, PlanKinds, Issuers, Aliasing
<1> QED
  BY <1>3, <1>4, <1>5, <1>6, <1>7, <1>8, SMT DEF Issuers

(***************************************************************************)
(* A call that returns nil, and has not overlapped with another, leaves    *)
(* the vhost, the row, the lineage and the certificate row in agreement,   *)
(* whatever failed before it and whichever site it began with              *)
(* (SSLService.Enable, Disable and ReconcileAliases, the deploy hook, the  *)
(* alias and reconcile plans).                                             *)
(***************************************************************************)
THEOREM SuccessIsAgreement == Spec => SuccessAgrees
<1>1. ASSUME TrackInv, [Next]_vars, NEW c \in Callers \ overlapped, pc[c] = "run", pc'[c] = "ok"
      PROVE  /\ Kind(c) # "renew" => site.file = Rendered(site.row)
             /\ Kind(c) \in {"enable", "addName", "removeName"} =>
                  site.record # NoRecord /\ site.row.aliases = site.lineage.sans
             /\ Kind(c) \in {"addName", "removeName"} => site.record = site.lineage
             /\ Kind(c) = "renew" /\ site.record # NoRecord =>
                  site.record.serial = site.lineage.serial
  <2>1. Return(c)
    BY <1>1, OnlyReturns
  <2>2. TypeOK /\ Placed(c) /\ Tracked(c)
    BY <1>1 DEF TrackInv, BackedInv, Typed
  <2>3. Admitted(c) /\ Forward(c)
    BY <1>1, <2>2, SMT DEF Tracked, Active
  <2>4. at[c] = Last(c) + 1
    <3>1. at[c] > Last(c) /\ at[c] \in 1..Last(c) + 1 /\ Last(c) \in 0..7
      BY <1>1, <2>1, <2>2, StepPlaces DEF Return, Placed
    <3> QED
      BY <3>1, SMT
  <2> QED
    BY <2>2, <2>3, <2>4, Agreement DEF Issuers
<1>2. TrackInv /\ [Next]_vars =>
        [\A c \in Callers \ overlapped : pc[c] = "run" /\ pc'[c] = "ok" =>
           /\ Kind(c) # "renew" => site.file = Rendered(site.row)
           /\ Kind(c) \in {"enable", "addName", "removeName"} =>
                site.record # NoRecord /\ site.row.aliases = site.lineage.sans
           /\ Kind(c) \in {"addName", "removeName"} => site.record = site.lineage
           /\ Kind(c) = "renew" /\ site.record # NoRecord =>
                site.record.serial = site.lineage.serial]_vars
  BY <1>1
<1> QED
  BY <1>2, Tracking, PTL DEF Spec, SuccessAgrees

(* After the undo the site is as it was read.                              *)
LEMMA Restored ==
  ASSUME TypeOK, NEW c \in Callers \ (overlapped \cup torn \cup issued \cup kept), Tracked(c),
         pc[c] = "undo", at[c] = 0
  PROVE  \/ site = snap[c]
         \/ Kind(c) = "disable" /\ site = [snap[c] EXCEPT !.file = VHost(c, "http")]
<1>1. Kind(c) \in TLSKinds \cup PlanKinds
  BY Kinds
<1>2. /\ site.row = snap[c].row /\ site.link = snap[c].link
      /\ site.file = snap[c].file \/ (Kind(c) = "disable" /\ site.file = VHost(c, "http"))
      /\ site.lineage = snap[c].lineage /\ site.record = snap[c].record
  <2>1. CASE Kind(c) \in TLSKinds
    <3>1. TLSBack(c)
      BY <2>1, SMT DEF Tracked
    <3> QED
      BY <3>1, SMT DEF TLSBack
  <2>2. CASE Kind(c) \in PlanKinds
    <3>1. PlanBack(c)
      BY <2>2, SMT DEF Tracked
    <3>2. \A s \in StepNames : ~Stands(c, s)
      <4>1. TAKE s \in StepNames
      <4>2. Pos(c, s) \in 0..Last(c) /\ Last(c) \in 0..7
        BY StepPlaces
      <4> QED
        BY <4>2, SMT DEF Stands
    <3>3. ~Stands(c, "name") /\ ~Stands(c, "vhost") /\ ~Stands(c, "switch")
      BY <3>2, SMT DEF StepNames
    <3>4. /\ site.row.ssl = snap[c].row.ssl /\ site.row.enabled = snap[c].row.enabled
          /\ site.row.aliases = snap[c].row.aliases
          /\ site.file = snap[c].file /\ site.link = snap[c].link
          /\ site.lineage = snap[c].lineage /\ site.record = snap[c].record
      BY <3>1, <3>3, Zenon DEF PlanBack
    <3> QED
      BY <3>4, SameRow
  <2> QED
    BY <1>1, <2>1, <2>2
<1>3. site \in Site /\ snap[c] \in Site
  BY SMT DEF TypeOK
<1> QED
  BY <1>2, <1>3, SMT DEF Site

(***************************************************************************)
(* A failing Enable that certbot had not answered, a failing addition or   *)
(* removal of a name for which it had not issued, and a failing plan leave *)
(* the site as they found it (undoHTTP and the executor's undo); a failing *)
(* Disable leaves it so or with the plain vhost.  Not if the call          *)
(* overlapped or a restore failed; nothing is said of a call that certbot  *)
(* had answered, after which Enable does not undo.                         *)
(***************************************************************************)
THEOREM FailureIsRestored == Spec => FailureRestores
<1>1. ASSUME TrackInv, [Next]_vars, NEW c \in Callers \ (overlapped \cup torn \cup issued \cup kept),
             pc[c] = "undo", pc'[c] = "failed"
      PROVE  \/ site = snap[c]
             \/ Kind(c) = "disable" /\ site = [snap[c] EXCEPT !.file = VHost(c, "http")]
  <2>1. at[c] = 0
    BY <1>1, OnlyGivesUp DEF GiveUp
  <2> QED
    BY <1>1, <2>1, Restored DEF TrackInv, BackedInv, Typed
<1>2. TrackInv /\ [Next]_vars =>
        [\A c \in Callers \ (overlapped \cup torn \cup issued \cup kept) :
           pc[c] = "undo" /\ pc'[c] = "failed" =>
             \/ site = snap[c]
             \/ Kind(c) = "disable" /\ site = [snap[c] EXCEPT !.file = VHost(c, "http")]]_vars
  BY <1>1
<1> QED
  BY <1>2, Tracking, PTL DEF Spec, FailureRestores


(* Nothing has taken a name of the row, or of the vhost, that c has read.  *)
Unshrunk(c) ==
  c \in issued /\ Kind(c) # "renew" =>
    /\ snap[c].row.aliases \subseteq Names(c)
    /\ snap[c].file # NoFile => snap[c].file.aliases \subseteq Names(c)

(***************************************************************************)
(* The names certbot was asked for cover the vhosts of a call that enables *)
(* TLS or changes the names.                                               *)
(***************************************************************************)
LEMMA HasCovers ==
  ASSUME TypeOK, NEW c \in Callers, Has(c), Covered(snap[c]), Unshrunk(c), Kind(c) \in Issuers,
         site.row.aliases \in {snap[c].row.aliases, Names(c)},
         site.file \in {snap[c].file, VHost(c, "http"), VHost(c, "https")}
  PROVE  Covered(site)
<1>1. /\ site.lineage.sans = Names(c)
      /\ c \notin issued => site.lineage.sans = snap[c].lineage.sans /\ Kind(c) = "enable"
  BY SMT DEF Has, Issuers
<1>2. VHost(c, "http").aliases = Names(c) /\ VHost(c, "https").aliases = Names(c)
  BY NamesTyped
<1>3. CASE c \in issued
  <2>1. /\ snap[c].row.aliases \subseteq Names(c)
        /\ snap[c].file # NoFile => snap[c].file.aliases \subseteq Names(c)
    BY <1>3, SMT DEF Unshrunk, Issuers
  <2> QED
    BY <1>1, <1>2, <2>1, SMT DEF Covered, FileCovered, RowCovered
<1>4. CASE c \notin issued
  <2>1. Names(c) = snap[c].row.aliases
    BY <1>1, <1>4, Zenon DEF Names
  <2> QED
    BY <1>1, <1>2, <1>4, <2>1, SMT DEF Covered, FileCovered, RowCovered
<1> QED
  BY <1>3, <1>4

(***************************************************************************)
(* A call stopped on its way forward leaves the names covered, unless      *)
(* certbot has taken one away.                                             *)
(***************************************************************************)
LEMMA ForwardCovered ==
  ASSUME TypeOK, NEW c \in Callers, Admitted(c), Forward(c), Covered(snap[c]), Unshrunk(c)
  PROVE  Covered(site)
<1>1. Kind(c) \in TLSKinds \cup PlanKinds /\ at[c] \in Int
  BY Kinds, SMT DEF TypeOK
<1>2. CASE Kind(c) \in Issuers
  <2>1. /\ Did(c, "flag") => Kind(c) = "enable" /\ Did(c, "issue")
        /\ Did(c, "name") => Did(c, "issue")
        /\ Did(c, "https") => Did(c, "issue")
        /\ ~Did(c, "vhost")
    BY <1>1, <1>2, SMT DEF Did, Pos, Issuers, Aliasing
  <2>2. /\ site.row.aliases \in {snap[c].row.aliases, Names(c)}
        /\ site.file \in {snap[c].file, VHost(c, "http"), VHost(c, "https")}
    BY <2>1, SMT DEF Forward
  <2>3. CASE Did(c, "issue")
    <3>1. Has(c)
      BY <2>3 DEF Forward
    <3> QED
      BY <1>2, <2>2, <3>1, HasCovers
  <2>4. CASE ~Did(c, "issue")
    <3>1. /\ site.lineage = snap[c].lineage
          /\ site.row.ssl = snap[c].row.ssl /\ site.row.aliases = snap[c].row.aliases
          /\ site.file \in {snap[c].file, VHost(c, "http")}
      <4>1. ~Did(c, "flag") /\ ~Did(c, "name") /\ ~Did(c, "https")
        BY <2>1, <2>4
      <4>2. /\ site.lineage = snap[c].lineage
            /\ site.row.ssl = snap[c].row.ssl /\ site.row.aliases = snap[c].row.aliases
        BY <2>4, <4>1, Zenon DEF Forward
      <4>3. site.file \in {snap[c].file, VHost(c, "http")}
        BY <2>1, <4>1, SMT DEF Forward
      <4> QED
        BY <4>2, <4>3
    <3>2. ~VHost(c, "http").tls
      BY NamesTyped
    <3> QED
      BY <3>1, <3>2, SMT DEF Covered, FileCovered, RowCovered
  <2> QED
    BY <2>3, <2>4
<1>3. CASE Kind(c) = "renew"
  <2>1. ~Did(c, "flag") /\ ~Did(c, "name") /\ ~Did(c, "https") /\ ~Did(c, "http") /\ ~Did(c, "vhost")
    BY <1>1, <1>3, SMT DEF Did, Pos, Issuers, Aliasing
  <2>2. /\ site.file = snap[c].file
        /\ site.row.ssl = snap[c].row.ssl /\ site.row.aliases = snap[c].row.aliases
    BY <2>1, Zenon DEF Forward
  <2>3. site.lineage.sans = snap[c].lineage.sans
    BY <1>3, SMT DEF Forward, Has
  <2> QED
    BY <2>2, <2>3, SMT DEF Covered, FileCovered, RowCovered
<1>4. CASE Kind(c) = "disable"
  <2>1. ~Did(c, "name") /\ ~Did(c, "https") /\ ~Did(c, "vhost") /\ ~Did(c, "issue")
    BY <1>1, <1>4, SMT DEF Did, Pos, Issuers, Aliasing
  <2>2. /\ site.file \in {snap[c].file, VHost(c, "http")} /\ ~VHost(c, "http").tls
        /\ site.row.aliases = snap[c].row.aliases /\ site.lineage = snap[c].lineage
    BY <2>1, NamesTyped, SMT DEF Forward
  <2>3. site.row.ssl => snap[c].row.ssl
    <3>1. CASE Did(c, "flag")
      <4>1. site.row.ssl = (Kind(c) = "enable")
        BY <3>1, Zenon DEF Forward
      <4>2. Kind(c) # "enable"
        BY <1>4
      <4> QED
        BY <4>1, <4>2, Zenon
    <3>2. CASE ~Did(c, "flag")
      <4>1. site.row.ssl = snap[c].row.ssl
        BY <3>2, Zenon DEF Forward
      <4> QED
        BY <4>1, Zenon
    <3> QED
      BY <3>1, <3>2
  <2> QED
    BY <2>2, <2>3, SMT DEF Covered, FileCovered, RowCovered
<1>5. CASE Kind(c) \in PlanKinds
  <2>1. \A s \in StepNames \ {"vhost", "switch", "name"} : ~Did(c, s)
    BY <1>5, PlanPlaces, SMT DEF Did
  <2>2. ~Did(c, "https") /\ ~Did(c, "http") /\ ~Did(c, "issue") /\ ~Did(c, "flag")
    BY <2>1, SMT DEF StepNames
  <2>3. /\ site.file \in {snap[c].file, VHost(c, "vhost")}
        /\ site.lineage = snap[c].lineage
        /\ Did(c, "name") => Kind(c) \in Aliasing
        /\ ~Did(c, "name") => site.row.aliases = snap[c].row.aliases
    <3>1. Did(c, "name") => Kind(c) \in Aliasing
      BY <1>5, PlanPlaces DEF Did
    <3>2. site.file \in {snap[c].file, VHost(c, "vhost")}
      BY <2>2, SMT DEF Forward
    <3> QED
      BY <2>2, <3>1, <3>2, Zenon DEF Forward
  <2>4. site.row.ssl = snap[c].row.ssl
    BY <2>2, Zenon DEF Forward
  <2>5. CASE Kind(c) \in Aliasing
    <3>1. ~snap[c].row.ssl
      BY <2>5, SMT DEF Admitted, Aliasing
    <3>2. VHost(c, "vhost") = [aliases |-> Names(c), tls |-> snap[c].row.ssl]
      BY <2>5, Drawn
    <3>3. VHost(c, "vhost").tls = snap[c].row.ssl
      BY <3>2
    <3>4. ~VHost(c, "vhost").tls /\ ~site.row.ssl
      BY <2>4, <3>1, <3>3, Zenon
    <3> QED
      BY <2>3, <3>4, SMT DEF Covered, FileCovered, RowCovered
  <2>6. CASE Kind(c) = "reconcile"
    <3>1. VHost(c, "vhost") = [aliases |-> snap[c].row.aliases, tls |-> snap[c].row.ssl]
      BY <2>6, Drawn DEF Rendered
    <3>2. Kind(c) \notin Aliasing
      BY <2>6, SMT DEF Aliasing
    <3> QED
      BY <2>3, <2>4, <3>1, <3>2, SMT DEF Covered, FileCovered, RowCovered
  <2> QED
    BY <1>5, <2>5, <2>6, PlanPlaces, SMT
<1> QED
  BY <1>1, <1>2, <1>3, <1>4, <1>5, SMT DEF TLSKinds, Issuers

(* So does one that is taken back, or stopped on the way.                  *)
LEMMA BackCovered ==
  ASSUME TypeOK, NEW c \in Callers, Admitted(c), Covered(snap[c]), Unshrunk(c),
         Kind(c) \in TLSKinds => TLSBack(c), Kind(c) \in PlanKinds => PlanBack(c)
  PROVE  Covered(site)
<1>1. CASE Kind(c) \in TLSKinds
  <2>1. TLSBack(c)
    BY <1>1
  <2>2. ~VHost(c, "http").tls
    BY NamesTyped
  <2>3. CASE Kind(c) \in Issuers /\ Has(c)
    <3>1. /\ site.row.aliases \in {snap[c].row.aliases, Names(c)}
          /\ site.file \in {snap[c].file, VHost(c, "http"), VHost(c, "https")}
      BY <2>1, SMT DEF TLSBack
    <3> QED
      BY <2>3, <3>1, HasCovers
  <2>4. CASE ~(Kind(c) \in Issuers /\ Has(c))
    <3>1. site.row = snap[c].row /\ site.file \in {snap[c].file, VHost(c, "http")}
      BY <2>1, <2>4, Zenon DEF TLSBack
    <3>2. site.lineage = snap[c].lineage \/ site.lineage.sans = snap[c].lineage.sans
      <4>1. CASE Has(c)
        <5>2. Kind(c) \notin Issuers
          BY <2>4, <4>1
        <5>3. CASE Kind(c) = "renew"
          BY <4>1, <5>3 DEF Has
        <5>4. CASE Kind(c) = "disable"
          BY <2>1, <5>4 DEF TLSBack
        <5> QED
          BY <1>1, <5>2, <5>3, <5>4, SMT DEF TLSKinds, Issuers
      <4>2. CASE ~Has(c)
        BY <2>1, <4>2 DEF TLSBack
      <4> QED
        BY <4>1, <4>2
    <3> QED
      BY <2>2, <3>1, <3>2, SMT DEF Covered, FileCovered, RowCovered
  <2> QED
    BY <2>3, <2>4
<1>2. CASE Kind(c) \in PlanKinds
  <2>1. PlanBack(c)
    BY <1>2
  <2>2. Stands(c, "name") => Kind(c) \in Aliasing
    BY <1>2, PlanPlaces DEF Stands
  <2>3. /\ site.lineage = snap[c].lineage
        /\ site.file \in {snap[c].file, VHost(c, "vhost")}
        /\ Kind(c) \notin Aliasing => site.row.aliases = snap[c].row.aliases
    BY <2>1, <2>2, SMT DEF PlanBack
  <2>4. site.row.ssl = snap[c].row.ssl
    BY <2>1 DEF PlanBack
  <2>5. CASE Kind(c) \in Aliasing
    <3>1. ~snap[c].row.ssl
      BY <2>5, SMT DEF Admitted, Aliasing
    <3>2. VHost(c, "vhost") = [aliases |-> Names(c), tls |-> snap[c].row.ssl]
      BY <2>5, Drawn
    <3>3. VHost(c, "vhost").tls = snap[c].row.ssl
      BY <3>2
    <3>4. ~VHost(c, "vhost").tls /\ ~site.row.ssl
      BY <2>4, <3>1, <3>3, Zenon
    <3> QED
      BY <2>3, <3>4, SMT DEF Covered, FileCovered, RowCovered
  <2>6. CASE Kind(c) = "reconcile"
    <3>1. VHost(c, "vhost") = [aliases |-> snap[c].row.aliases, tls |-> snap[c].row.ssl]
      BY <2>6, Drawn DEF Rendered
    <3>2. Kind(c) \notin Aliasing
      BY <2>6, SMT DEF Aliasing
    <3> QED
      BY <2>3, <2>4, <3>1, <3>2, SMT DEF Covered, FileCovered, RowCovered
  <2> QED
    BY <1>2, <2>5, <2>6, PlanPlaces, SMT
<1> QED
  BY <1>1, <1>2, Kinds


(* So does a call that ends in any way.                                    *)
LEMMA EndsCovered ==
  ASSUME CoverInv, NEW c \in Callers, pc[c] \in Active, overlapped = {}, Unshrunk(c), Covered(snap[c])
  PROVE  Covered(site)
<1>1. TypeOK /\ Tracked(c)
  BY DEF CoverInv, TrackInv, BackedInv, Typed
<1>2. Admitted(c) /\ c \notin overlapped
  BY <1>1, SMT DEF Tracked
<1>3. CASE pc[c] \in {"wait", "run"}
  BY <1>1, <1>2, <1>3, ForwardCovered DEF Tracked
<1>4. CASE pc[c] = "undo"
  <2>1. Kind(c) \in TLSKinds => TLSBack(c)
    BY <1>1, <1>2, <1>4 DEF Tracked
  <2>2. Kind(c) \in PlanKinds => PlanBack(c)
    BY <1>1, <1>2, <1>4 DEF Tracked
  <2> QED
    BY <1>1, <1>2, <2>1, <2>2, BackCovered
<1> QED
  BY <1>3, <1>4, SMT DEF Active

(* A call that succeeds leaves the names covered always.                   *)
LEMMA ReturnCovered ==
  ASSUME CoverInv, NEW c \in Callers, Return(c), overlapped = {}, Covered(snap[c])
  PROVE  Covered(site)
<1>1. /\ TypeOK /\ Placed(c) /\ Tracked(c) /\ pc[c] = "run"
  BY DEF CoverInv, TrackInv, BackedInv, Typed, Return
<1>2. Admitted(c) /\ Forward(c)
  BY <1>1, SMT DEF Tracked, Active
<1>3. CASE Kind(c) \in Issuers
  <2>1. at[c] = Last(c) + 1
    <3>1. at[c] > Last(c) /\ at[c] \in 1..Last(c) + 1 /\ Last(c) \in 0..7
      BY <1>1, StepPlaces DEF Return, Placed
    <3> QED
      BY <3>1, SMT
  <2>2. site.file = Rendered(site.row) /\ site.row.aliases = site.lineage.sans
    BY <1>1, <1>2, <1>3, <2>1, Agreement, SMT DEF Issuers
  <2>3. site.file.aliases = site.lineage.sans
    BY <2>2, SMT DEF Rendered
  <2> QED
    BY <2>2, <2>3, SMT DEF Covered, FileCovered, RowCovered
<1>4. CASE Kind(c) \notin Issuers
  <2>1. Unshrunk(c)
    <3>1. c \in issued => Did(c, "issue")
      BY <1>1 DEF CoverInv, TrackInv, BackedInv, Typed, Counted
    <3>2. Did(c, "issue") => Kind(c) = "renew"
      BY <1>4, SMT DEF Did, Pos
    <3> QED
      BY <3>1, <3>2 DEF Unshrunk
  <2> QED
    BY <1>1, <1>2, <2>1, ForwardCovered
<1> QED
  BY <1>3, <1>4

(* A call without others begins with a site whose names are covered.       *)
LEMMA BeginCovers ==
  ASSUME CoverInv, NEW c \in Callers, Begin(c), TrackInv'
  PROVE  CoverInv'
<1>1. TypeOK /\ Typed
  BY DEF CoverInv, TrackInv, BackedInv, Typed
<1>2. OwnControl(c) /\ snap'[c] = site /\ site' = site /\ issued' = issued
  BY <1>1, BeginTyped DEF Begin
<1>3. /\ pc[c] = "idle" /\ pc'[c] \in Active
      /\ overlapped' = {} => overlapped = {} /\ \A d \in Callers \ {c} : pc[d] \notin Active
  <2>1. /\ pc[c] = "idle" /\ pc' = [pc EXCEPT ![c] = IF Kind(c) \in PlanKinds THEN "wait" ELSE "run"]
    BY DEF Begin, Goto
  <2>2. pc'[c] \in Active
    BY <1>1, <2>1, SMT DEF TypeOK, Active
  <2>3. overlapped' = {} => overlapped = {} /\ \A d \in Callers \ {c} : pc[d] \notin Active
    BY SMT DEF Begin
  <2> QED
    BY <2>1, <2>2, <2>3
<1>4. ASSUME overlapped' = {}, ~(\E d \in Callers : Shrunk(d)')
      PROVE  /\ ~Calm'
             /\ \A d \in Callers : pc'[d] \in Active => Covered(snap'[d])
  <2>1. ~Calm'
    BY <1>3, Zenon DEF Calm
  <2>2. Calm
    BY <1>3, <1>4, SMT DEF Calm, Active
  <2>3. \A d \in Callers \ {c} : Shrunk(d) => Shrunk(d)'
    <3>1. TAKE d \in Callers \ {c}
    <3>2. pc'[d] = pc[d] /\ snap'[d] = snap[d] /\ call' = call
      BY <1>2 DEF OwnControl
    <3>3. Kind(d)' = Kind(d) /\ Names(d)' = Names(d)
      BY <3>2, SameCall
    <3> QED
      BY <1>2, <3>2, <3>3, SMT DEF Shrunk
  <2>4. ~Shrunk(c)
    BY <1>3, SMT DEF Shrunk
  <2>5. ~(\E d \in Callers : Shrunk(d))
    BY <1>4, <2>3, <2>4
  <2>6. Covered(site)
    BY <1>3, <1>4, <2>2, <2>5 DEF CoverInv
  <2>7. ASSUME NEW d \in Callers, pc'[d] \in Active PROVE Covered(snap'[d])
    <3>1. d = c
      BY <1>2, <1>3, <1>4, <2>7 DEF OwnControl
    <3> QED
      BY <1>2, <2>6, <3>1
  <2> QED
    BY <2>1, <2>7
<1> QED
  BY <1>4 DEF CoverInv

(* The end of a call leaves it so for the next.                            *)
LEMMA MoveCovers ==
  ASSUME CoverInv, NEW c \in Callers, Passes(c) \/ Do(c) \/ Fail(c) \/ Undo(c), TrackInv'
  PROVE  CoverInv'
<1>1. TypeOK /\ Typed /\ BackedInv
  BY DEF CoverInv, TrackInv, BackedInv, Typed
<1>2. /\ overlapped' = overlapped /\ snap' = snap /\ OwnControl(c) /\ OwnData(c)
      /\ pc'[c] \in Active => pc[c] \in Active
      /\ pc[c] \notin Active => site' = site
  BY <1>1, Moves
<1>3. call' = call /\ (\A d \in Callers \ {c} : pc'[d] = pc[d]) /\ issued \subseteq issued'
  BY <1>2, SMT DEF OwnControl, OwnData
<1>4. \A d \in Callers : snap'[d] = snap[d] /\ Kind(d)' = Kind(d) /\ Names(d)' = Names(d)
  BY <1>2, <1>3, SameCall
<1>5. pc[c] \in {"failed", "crashed"} => pc'[c] = pc[c]
  BY SMT
     DEF Passes, Refuse, Start, LockTimesOut, Return, UndoFails, GiveUp, Crash, Do, Fail,
         Undo, Active
<1>6. ASSUME NEW d \in Callers, Shrunk(d) PROVE Shrunk(d)'
  <2>1. pc'[d] = pc[d]
    BY <1>3, <1>5, <1>6, SMT DEF Shrunk
  <2> QED
    BY <1>3, <1>4, <1>6, <2>1, SMT DEF Shrunk
<1>7. ASSUME overlapped' = {}, ~(\E d \in Callers : Shrunk(d)')
      PROVE  /\ Calm' => Covered(site')
             /\ \A d \in Callers : pc'[d] \in Active => Covered(snap'[d])
  <2>1. overlapped = {} /\ ~(\E d \in Callers : Shrunk(d))
    BY <1>2, <1>6, <1>7
  <2>2. /\ Calm => Covered(site)
        /\ \A d \in Callers : pc[d] \in Active => Covered(snap[d])
    BY <2>1 DEF CoverInv
  <2>3. ASSUME NEW d \in Callers, pc'[d] \in Active PROVE Covered(snap'[d])
    <3>1. pc[d] \in Active
      BY <1>2, <1>3, <2>3
    <3> QED
      BY <1>4, <2>2, <3>1
  <2>4. ASSUME Calm' PROVE Covered(site')
    <3>1. CASE pc[c] \in Active
      <4>1. pc'[c] \notin Active
        BY <2>4 DEF Calm
      <4>2. /\ LockTimesOut(c) \/ Return(c) \/ GiveUp(c) \/ Crash(c)
            /\ pc'[c] \in {"ok", "failed", "crashed"} /\ site' = site /\ issued' = issued
            /\ pc'[c] = "ok" <=> Return(c)
        <5>1. /\ ~Refuse(c) /\ ~Start(c) /\ ~UndoFails(c) /\ ~Do(c) /\ ~Fail(c) /\ ~Undo(c)
          BY <1>1, <3>1, <4>1, SMT
             DEF Refuse, Start, UndoFails, Do, Fail, Undo, Goto, Active, TypeOK
        <5>2. LockTimesOut(c) \/ Return(c) \/ GiveUp(c) \/ Crash(c)
          BY <5>1 DEF Passes
        <5> QED
          BY <1>1, <5>2, SMT DEF LockTimesOut, Return, GiveUp, Crash, Goto, TypeOK
      <4>3. CASE pc'[c] \in {"failed", "crashed"}
        <5>1. ~Shrunk(c)' /\ c \in Callers
          BY <1>7
        <5>2. Unshrunk(c)
          BY <1>4, <4>2, <4>3, <5>1, SMT DEF Shrunk, Unshrunk
        <5>3. Covered(site)
          BY <2>1, <2>2, <3>1, <5>2, EndsCovered
        <5> QED
          BY <4>2, <5>3
      <4>4. CASE pc'[c] = "ok"
        <5>1. Return(c)
          BY <4>2, <4>4
        <5>2. Covered(site)
          BY <2>1, <2>2, <3>1, <5>1, ReturnCovered
        <5> QED
          BY <4>2, <5>2
      <4> QED
        BY <4>2, <4>3, <4>4
    <3>2. CASE pc[c] \notin Active
      <4>1. Calm
        BY <1>3, <2>4, <3>2 DEF Calm
      <4> QED
        BY <1>2, <2>2, <3>2, <4>1
    <3> QED
      BY <3>1, <3>2
  <2> QED
    BY <2>3, <2>4
<1> QED
  BY <1>7 DEF CoverInv

(* CoverInv is inductive.                                                  *)
LEMMA CoverStep ==
  ASSUME CoverInv, [Next]_vars
  PROVE  CoverInv'
<1>1. TrackInv'
  BY TrackStep DEF CoverInv
<1>2. CASE UNCHANGED vars
  <2>1. UNCHANGED <<site, lock, call, pc, at, snap, saved, got, overlapped, torn, issued, kept, renewed>>
    BY <1>2 DEF vars
  <2>2. \A d \in Callers : Shrunk(d)' <=> Shrunk(d)
    <3>1. TAKE d \in Callers
    <3>2. snap'[d] = snap[d]
      BY <2>1
    <3>3. Kind(d)' = Kind(d) /\ Names(d)' = Names(d)
      BY <2>1, <3>2, SameCall
    <3> QED
      BY <2>1, <3>2, <3>3, SMT DEF Shrunk
  <2>3. Calm' <=> Calm
    BY <2>1 DEF Calm
  <2> QED
    BY <1>1, <2>1, <2>2, <2>3, Zenon DEF CoverInv
<1>3. ASSUME NEW c \in Callers, Operation(c) PROVE CoverInv'
  BY <1>1, <1>3, Operations, BeginCovers, MoveCovers, Zenon
<1> QED
  BY <1>2, <1>3 DEF Next

(* It holds at the start by BeforeAssumption.                              *)
LEMMA InitCovers ==
  ASSUME Init
  PROVE  CoverInv
<1>1. TrackInv
  BY InitTracked
<1>2. \A c \in Callers : pc[c] = "idle"
  BY DEF Init
<1>3. site \in Before
  BY DEF Init
<1>4. Covered(site)
  <2>1. CASE site.lineage = NoLineage
    <3>1. RefersToNothing(site)
      BY <1>3, <2>1, BeforeAssumption
    <3> QED
      BY <3>1, SMT DEF RefersToNothing, Covered, FileCovered, RowCovered
  <2>2. CASE site.lineage # NoLineage
    BY <1>3, <2>2, BeforeAssumption, Zenon DEF Covered
  <2> QED
    BY <2>1, <2>2
<1>5. \A c \in Callers : pc[c] \notin Active
  BY <1>2, SMT DEF Active
<1> QED
  BY <1>1, <1>4, <1>5 DEF CoverInv

(***************************************************************************)
(* CoverInv is an invariant: between calls that do not overlap the names   *)
(* of the vhost and of the row are covered.                                *)
(***************************************************************************)
THEOREM Coverage == Spec => []CoverInv
<1>1. Init => CoverInv
  BY InitCovers
<1>2. CoverInv /\ [Next]_vars => CoverInv'
  BY CoverStep
<1> QED
  BY <1>1, <1>2, PTL DEF Spec

(***************************************************************************)
(* While no calls overlap, and none has failed after certbot had taken a   *)
(* name away, Apache never serves a name over TLS that the certificate     *)
(* does not cover, whatever fails, is undone or crashes (SSLService issues *)
(* for the names of the vhost before it installs it).                      *)
(***************************************************************************)
THEOREM ServedIsCovered == Spec => []ServedNamesAreCovered
<1>1. CoverInv => ServedNamesAreCovered
  BY DEF CoverInv, ServedNamesAreCovered, Covered
<1> QED
  BY <1>1, Coverage, PTL
=============================================================================
