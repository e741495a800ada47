----------------------------- MODULE Certificate -----------------------------
(***************************************************************************)
(* TLS of one website: service.SSLService (Enable, Disable and             *)
(* ReconcileAliases), the renewal by certbot with CertificateService's     *)
(* deploy hook, and the two kinds of plan that write the same vhost, the   *)
(* alias plan of a site without TLS and ReconcileService.                  *)
(*                                                                         *)
(* The TLS calls take no lock and write no journal: each is a sequence of  *)
(* steps with error paths of its own.  Plans take the operation lock and   *)
(* are undone by the executor.  A call to Apache is one step here (its     *)
(* inside is module Apache); so is a run of certbot.                       *)
(***************************************************************************)
EXTENDS Naturals, Sequences, FiniteSets

CONSTANTS Aliases,     \* names of the site besides its primary domain
          Callers,     \* operations users and timers start, at any time
          NoCaller,
          Menu,        \* the calls they may make
          Before,      \* the states of the site to start from
          NoFile, NoLineage, NoRecord

TLSKinds == {"enable", "disable", "addName", "removeName", "renew"}
PlanKinds == {"addAlias", "removeAlias", "reconcile"}
Call == [kind : TLSKinds \cup PlanKinds, alias : Aliases]

Serials == 0..2 * Cardinality(Callers) + 1
Row == [ssl : BOOLEAN, aliases : SUBSET Aliases, enabled : BOOLEAN]
File == [aliases : SUBSET Aliases, tls : BOOLEAN]
Issue == [sans : SUBSET Aliases, serial : Serials]
Site == [row : Row, file : File \cup {NoFile}, link : BOOLEAN,
         lineage : Issue \cup {NoLineage}, record : Issue \cup {NoRecord}]

ASSUME CallersAssumption == IsFiniteSet(Callers) /\ NoCaller \notin Callers
ASSUME CallsAssumption == Menu \subseteq Call /\ Before \subseteq Site
ASSUME NothingAssumption == NoFile \notin File /\ NoLineage \notin Issue /\ NoRecord \notin Issue

(***************************************************************************)
(* What a site refers to, and which names it serves, or would once it is   *)
(* written as its row says.  Calls start from sites where both are in      *)
(* order; the serial counts from their certificate.                        *)
(***************************************************************************)
RefersToNothing(x) == /\ x.file # NoFile => ~x.file.tls
                      /\ ~x.row.ssl
                      /\ x.record = NoRecord
FileCovered(x) == x.file # NoFile /\ x.file.tls => x.file.aliases \subseteq x.lineage.sans
RowCovered(x) == x.row.ssl => x.row.aliases \subseteq x.lineage.sans

ASSUME BeforeAssumption ==
  \A x \in Before : IF x.lineage = NoLineage THEN RefersToNothing(x)
                    ELSE FileCovered(x) /\ RowCovered(x) /\ x.lineage.serial <= 1

VARIABLES
  site,      \* the row, the vhost and its link, certbot's lineage, and the
             \* row of the table certificates
  lock,      \* the plan that runs
  call,      \* call[c]: what c asks for
  pc,        \* pc[c]: how far it is
  at,        \* at[c]: the next step to do, or to undo
  snap,      \* snap[c]: the site as c has read it
  saved,     \* saved[c]: file and link the Apache step of c has found
  got,       \* got[c]: the expiry c has read from the lineage
  overlapped,\* history: calls that ran while another one did
  torn,      \* history: calls that had to restore the vhost and failed to
  issued,    \* history: calls whose order of a certificate changed the lineage
  kept,      \* history: calls whose order certbot answered with the lineage it had
  renewed    \* history: calls whose check of the renewal changed the lineage

vars == <<site, lock, call, pc, at, snap, saved, got, overlapped, torn, issued, kept, renewed>>

Active == {"wait", "run", "undo"}
PCs == Active \cup {"idle", "ok", "failed", "refused", "crashed"}

TypeOK ==
  /\ site \in Site
  /\ lock \in Callers \cup {NoCaller}
  /\ call \in [Callers -> Call]
  /\ pc \in [Callers -> PCs]
  /\ at \in [Callers -> 0..8]
  /\ snap \in [Callers -> Site]
  /\ saved \in [Callers -> [file : File \cup {NoFile}, link : BOOLEAN]]
  /\ got \in [Callers -> Serials]
  /\ overlapped \subseteq Callers /\ torn \subseteq Callers
  /\ issued \subseteq Callers /\ kept \subseteq Callers /\ renewed \subseteq Callers

-----------------------------------------------------------------------------
Kind(c) == call[c].kind
Rendered(row) == [aliases |-> row.aliases, tls |-> row.ssl]

(* apachectl configtest: a linked TLS vhost needs its certificate files.   *)
Loads(x) == x.link => x.file # NoFile /\ (x.file.tls => x.lineage # NoLineage)
Exists(x) == x.link /\ x.file # NoFile

(* The names c wants the site to have; they follow from what it has read.  *)
Names(c) ==
  CASE Kind(c) \in {"addName", "addAlias"} -> snap[c].row.aliases \cup {call[c].alias}
    [] Kind(c) \in {"removeName", "removeAlias"} -> snap[c].row.aliases \ {call[c].alias}
    [] OTHER -> snap[c].row.aliases

(* Mutant: the TLS vhost is installed before the certificate is issued.    *)
StepsTLSFirst(c) ==
  CASE Kind(c) = "enable" -> <<"http", "flag", "issue", "inspect", "https", "record", "check">>
    [] Kind(c) = "disable" -> <<"http", "flag">>
    [] Kind(c) \in {"addName", "removeName"} -> <<"http", "issue", "inspect", "https", "name", "record">>
    [] Kind(c) = "renew" -> <<"issue", "inspect", "refresh", "reload">>
    [] Kind(c) \in {"addAlias", "removeAlias"} -> <<"vhost", "name">>
    [] Kind(c) = "reconcile" -> <<"vhost">>

(* Mutant: the SANs and the expiry are not recorded.                       *)
StepsUnrecorded(c) ==
  CASE Kind(c) = "enable" -> <<"http", "issue", "inspect", "https", "flag", "record", "check">>
    [] Kind(c) = "disable" -> <<"http", "flag">>
    [] Kind(c) \in {"addName", "removeName"} -> <<"http", "issue", "inspect", "https", "name">>
    [] Kind(c) = "renew" -> <<"issue", "inspect", "refresh", "reload">>
    [] Kind(c) \in {"addAlias", "removeAlias"} -> <<"vhost", "name">>
    [] Kind(c) = "reconcile" -> <<"vhost", "switch">>

(***************************************************************************)
(* The steps of each call.  Checks of DNS and of the challenge path change *)
(* nothing: an error of theirs is an error of "issue".  The last step of   *)
(* Enable, the check of the renewal, need not be asked for.  A             *)
(* reconciliation has a step for each drift found when it was prepared.    *)
(***************************************************************************)
Steps(c) ==
  CASE Kind(c) = "enable" -> <<"http", "issue", "inspect", "https", "flag", "record", "check">>
    [] Kind(c) = "disable" -> <<"http", "flag">>
    [] Kind(c) \in {"addName", "removeName"} -> <<"http", "issue", "inspect", "https", "name", "record">>
    [] Kind(c) = "renew" -> <<"issue", "inspect", "refresh", "reload">>
    [] Kind(c) \in {"addAlias", "removeAlias"} -> <<"vhost", "name">>
    [] Kind(c) = "reconcile" ->
         (IF snap[c].file # Rendered(snap[c].row) THEN <<"vhost">> ELSE <<>>)
         \o (IF Exists(snap[c]) # snap[c].row.enabled THEN <<"switch">> ELSE <<>>)

Init ==
  /\ site \in Before
  /\ lock = NoCaller
  /\ call \in [Callers -> Menu]
  /\ pc = [c \in Callers |-> "idle"]
  /\ at = [c \in Callers |-> 1]
  /\ snap = [c \in Callers |-> site]
  /\ saved = [c \in Callers |-> [file |-> NoFile, link |-> FALSE]]
  /\ got = [c \in Callers |-> 0]
  /\ overlapped = {} /\ torn = {} /\ issued = {} /\ kept = {} /\ renewed = {}

Goto(c, label) == pc' = [pc EXCEPT ![c] = label]

-----------------------------------------------------------------------------
(* The checks before the first step, on the row that c has just read.      *)
Accepted(c) ==
  LET row == site.row IN
  CASE Kind(c) = "enable" -> row.enabled
    [] Kind(c) = "disable" -> TRUE
    [] Kind(c) = "addName" -> row.ssl /\ call[c].alias \notin row.aliases
    [] Kind(c) = "removeName" -> row.ssl /\ call[c].alias \in row.aliases
    [] Kind(c) = "renew" -> site.lineage # NoLineage
    [] Kind(c) = "addAlias" -> ~row.ssl /\ call[c].alias \notin row.aliases
    [] Kind(c) = "removeAlias" -> ~row.ssl /\ call[c].alias \in row.aliases
    [] Kind(c) = "reconcile" -> site.file # Rendered(row) \/ Exists(site) # row.enabled

Begin(c) ==
  LET others == {d \in Callers \ {c} : pc[d] \in Active} IN
  /\ pc[c] = "idle"
  /\ Accepted(c)
  /\ snap' = [snap EXCEPT ![c] = site]
  /\ overlapped' = overlapped \cup others \cup (IF others = {} THEN {} ELSE {c})
  /\ Goto(c, IF Kind(c) \in PlanKinds THEN "wait" ELSE "run")
  /\ UNCHANGED <<site, lock, call, at, saved, got, torn, issued, kept, renewed>>

(* A check fails, or a read of the database does.                          *)
Refuse(c) ==
  /\ pc[c] = "idle"
  /\ Goto(c, "refused")
  /\ UNCHANGED <<site, lock, call, at, snap, saved, got, overlapped, torn, issued, kept, renewed>>

Start(c) ==
  /\ pc[c] = "wait"
  /\ lock = NoCaller
  /\ lock' = c
  /\ Goto(c, "run")
  /\ UNCHANGED <<site, call, at, snap, saved, got, overlapped, torn, issued, kept, renewed>>

LockTimesOut(c) ==
  /\ pc[c] = "wait"
  /\ Goto(c, "failed")
  /\ UNCHANGED <<site, lock, call, at, snap, saved, got, overlapped, torn, issued, kept, renewed>>

-----------------------------------------------------------------------------
(***************************************************************************)
(* Apache.Apply and SetVHostEnabled: the configuration is tested before    *)
(* the change and after it, and a change that fails is taken back.         *)
(***************************************************************************)
VHost(c, step) ==
  CASE step = "http" -> [aliases |-> Names(c), tls |-> FALSE]
    [] step = "https" -> [aliases |-> Names(c), tls |-> TRUE]
    [] step = "vhost" /\ Kind(c) = "reconcile" -> Rendered(snap[c].row)
    [] step = "vhost" /\ Kind(c) # "reconcile" -> [aliases |-> Names(c), tls |-> snap[c].row.ssl]

Applied(c, step) ==
  IF step = "switch" THEN [site EXCEPT !.link = snap[c].row.enabled]
                     ELSE [site EXCEPT !.file = VHost(c, step)]

ApacheSteps == {"http", "https", "vhost", "switch"}

Apply(c) ==
  LET step == Steps(c)[at[c]] IN
  /\ step \in ApacheSteps
  /\ Loads(site)
  /\ step = "switch" => site.file # NoFile /\ Exists(site) # snap[c].row.enabled
  /\ Loads(Applied(c, step))
  /\ site' = Applied(c, step)
  /\ saved' = IF step = "https" THEN saved
              ELSE [saved EXCEPT ![c].file = IF step = "switch" THEN @ ELSE site.file,
                                 ![c].link = site.link]
  /\ UNCHANGED <<got, issued, kept, renewed>>

(* Mutant: certbot is asked for the names the row has, not the new ones.   *)
AskedBefore(c) == IF Kind(c) = "renew" THEN site.lineage.sans ELSE snap[c].row.aliases

(***************************************************************************)
(* An order of a certificate replaces the lineage; without --force-renewal *)
(* certbot may also keep one that has exactly the names asked for.         *)
(***************************************************************************)
Asked(c) == IF Kind(c) = "renew" THEN site.lineage.sans ELSE Names(c)
NextSerial == IF site.lineage = NoLineage THEN 1 ELSE site.lineage.serial + 1
Issuing(sans) == [site EXCEPT !.lineage = [sans |-> sans, serial |-> NextSerial]]
MayKeep(c) == /\ Kind(c) = "enable" /\ site.lineage # NoLineage
              /\ site.lineage.sans = Names(c)

Replaces(c) == site' = Issuing(Asked(c)) /\ issued' = issued \cup {c} /\ UNCHANGED <<kept, renewed>>
Keeps(c) == MayKeep(c) /\ kept' = kept \cup {c} /\ UNCHANGED <<site, issued, renewed>>

Certbot(c) ==
  /\ Steps(c)[at[c]] = "issue"
  /\ Replaces(c) \/ Keeps(c)
  /\ UNCHANGED <<saved, got>>

(***************************************************************************)
(* The check at the end of Enable is a dry run, unless the configuration   *)
(* names a server: then it renews the lineage with the names it has, and   *)
(* nothing records the new expiry.                                         *)
(***************************************************************************)
Renews(c) ==
  /\ site.lineage # NoLineage
  /\ site' = Issuing(site.lineage.sans)
  /\ renewed' = renewed \cup {c}
  /\ UNCHANGED <<issued, kept>>

Check(c) ==
  /\ Steps(c)[at[c]] = "check"
  /\ Renews(c) \/ UNCHANGED <<site, issued, kept, renewed>>
  /\ UNCHANGED <<saved, got>>

ReadExpiry(c) ==
  /\ Steps(c)[at[c]] = "inspect"
  /\ site.lineage # NoLineage
  /\ got' = [got EXCEPT ![c] = site.lineage.serial]
  /\ UNCHANGED <<site, saved, issued, kept, renewed>>

(***************************************************************************)
(* The writes of the database.  A certificate row that is already there    *)
(* makes Enable's INSERT fail on the UNIQUE lineage, which Enable ignores; *)
(* ReconcileAliases updates it.                                            *)
(***************************************************************************)
New(c) == [sans |-> Names(c), serial |-> got[c]]

Recorded(c, step) ==
  LET row == site.row a == call[c].alias IN
  CASE step = "flag" -> [site EXCEPT !.row.ssl = (Kind(c) = "enable")]
    [] step = "name" /\ Kind(c) \in {"addName", "addAlias"} -> [site EXCEPT !.row.aliases = @ \cup {a}]
    [] step = "name" /\ Kind(c) \in {"removeName", "removeAlias"} -> [site EXCEPT !.row.aliases = @ \ {a}]
    [] step = "record" -> [site EXCEPT !.record =
                             IF Kind(c) = "enable" /\ @ # NoRecord THEN @ ELSE New(c)]
    [] step = "refresh" -> [site EXCEPT !.record =
                             IF @ = NoRecord THEN @ ELSE [@ EXCEPT !.serial = got[c]]]
    [] step = "reload" -> site

Record(c) ==
  LET step == Steps(c)[at[c]] IN
  /\ step \in {"flag", "name", "record", "refresh", "reload"}
  /\ step = "name" => (call[c].alias \in site.row.aliases) = (Kind(c) \in {"removeName", "removeAlias"})
  /\ site' = Recorded(c, step)
  /\ UNCHANGED <<saved, got, issued, kept, renewed>>

Do(c) ==
  /\ pc[c] = "run"
  /\ at[c] <= Len(Steps(c))
  /\ Apply(c) \/ Certbot(c) \/ ReadExpiry(c) \/ Record(c) \/ Check(c)
  /\ at' = [at EXCEPT ![c] = @ + 1]
  /\ UNCHANGED <<lock, call, pc, snap, overlapped, torn>>

Return(c) ==
  /\ pc[c] = "run"
  /\ at[c] > Len(Steps(c))
  /\ lock' = IF lock = c THEN NoCaller ELSE lock
  /\ at' = [at EXCEPT ![c] = 1]
  /\ Goto(c, "ok")
  /\ UNCHANGED <<site, call, snap, saved, got, overlapped, torn, issued, kept, renewed>>

-----------------------------------------------------------------------------
(* Mutant: a failure of certbot leaves the plain vhost.                    *)
UndoneFromForgetsCertbot(c) ==
  CASE Kind(c) = "enable" -> 0
    [] Kind(c) \in {"addName", "removeName"} -> IF at[c] > 1 THEN 1 ELSE 0
    [] Kind(c) \in {"disable", "renew"} -> 0
    [] Kind(c) \in PlanKinds -> at[c] - 1

(***************************************************************************)
(* Where undoing starts after an error at step at[c]: Enable calls         *)
(* undoHTTP only if the challenge or certbot fails, ReconcileAliases after *)
(* any later error, Disable and the hook never; the executor undoes every  *)
(* completed step.                                                         *)
(***************************************************************************)
UndoneFrom(c) ==
  CASE Kind(c) = "enable" -> IF at[c] = 2 THEN 1 ELSE 0
    [] Kind(c) \in {"addName", "removeName"} -> IF at[c] > 1 THEN 1 ELSE 0
    [] Kind(c) \in {"disable", "renew"} -> 0
    [] Kind(c) \in PlanKinds -> at[c] - 1

(***************************************************************************)
(* A step returns an error.  A run of certbot may have replaced the        *)
(* lineage by then, when it was stopped at the deadline.  In a plan also   *)
(* the journal may fail, after the last step.                              *)
(***************************************************************************)
Fail(c) ==
  /\ pc[c] = "run"
  /\ at[c] <= Len(Steps(c)) \/ Kind(c) \in PlanKinds
  /\ \/ UNCHANGED <<site, issued, kept, renewed>>
     \/ at[c] <= Len(Steps(c)) /\ Steps(c)[at[c]] = "issue" /\ Replaces(c)
     \/ at[c] <= Len(Steps(c)) /\ Steps(c)[at[c]] = "check" /\ Renews(c)
  /\ at' = [at EXCEPT ![c] = UndoneFrom(c)]
  /\ Goto(c, "undo")
  /\ UNCHANGED <<lock, call, snap, saved, got, overlapped, torn>>

(* The restore of an Apache step puts file and link back as it found them, *)
(* before the configuration is tested again.                               *)
Undone(c, step) ==
  LET a == call[c].alias IN
  CASE step \in {"http", "vhost"} -> [site EXCEPT !.file = saved[c].file]
    [] step = "switch" -> [site EXCEPT !.link = saved[c].link]
    [] step = "name" -> [site EXCEPT !.row.aliases =
                           IF Kind(c) = "addAlias" THEN @ \ {a} ELSE @ \cup {a}]

Undo(c) ==
  LET step == Steps(c)[at[c]] IN
  /\ pc[c] = "undo"
  /\ at[c] > 0
  /\ site' = Undone(c, step)
  /\ at' = [at EXCEPT ![c] = @ - 1]
  /\ UNCHANGED <<lock, call, pc, snap, saved, got, overlapped, torn, issued, kept, renewed>>

(* Mutant: a restore that fails is counted twice.                          *)
UndoFailsOverruns(c) ==
  /\ pc[c] = "undo"
  /\ UNCHANGED site
  /\ torn' = torn \cup {c}
  /\ at' = [at EXCEPT ![c] = @ - 1]
  /\ UNCHANGED <<lock, call, pc, snap, saved, got, overlapped, issued, kept, renewed>>

(* The restore fails before it has put anything back (when it fails later, *)
(* it has done what Undo does); SSLService ignores the error.              *)
UndoFails(c) ==
  /\ pc[c] = "undo"
  /\ at[c] > 0
  /\ UNCHANGED site
  /\ torn' = torn \cup {c}
  /\ at' = [at EXCEPT ![c] = @ - 1]
  /\ UNCHANGED <<lock, call, pc, snap, saved, got, overlapped, issued, kept, renewed>>

GiveUp(c) ==
  /\ pc[c] = "undo"
  /\ at[c] = 0
  /\ lock' = IF lock = c THEN NoCaller ELSE lock
  /\ at' = [at EXCEPT ![c] = 1]
  /\ Goto(c, "failed")
  /\ UNCHANGED <<site, call, snap, saved, got, overlapped, torn, issued, kept, renewed>>

Crash(c) ==
  /\ pc[c] \in Active
  /\ lock' = IF lock = c THEN NoCaller ELSE lock
  /\ Goto(c, "crashed")
  /\ UNCHANGED <<site, call, at, snap, saved, got, overlapped, torn, issued, kept, renewed>>

Operation(c) ==
  \/ Begin(c) \/ Refuse(c) \/ Start(c) \/ LockTimesOut(c) \/ Do(c) \/ Return(c)
  \/ Fail(c) \/ Undo(c) \/ UndoFails(c) \/ GiveUp(c) \/ Crash(c)

Next == \E c \in Callers : Operation(c)

Spec == Init /\ [][Next]_vars

-----------------------------------------------------------------------------
(***************************************************************************)
(* At no moment, whatever calls overlap, fail or crash, does the vhost,    *)
(* the row or the certificate table refer to a certificate certbot has not *)
(* issued: Apache would not start (the order of Enable; docs/project-      *)
(* specification.md section 11 names it as the problem of the first        *)
(* design).                                                                *)
(***************************************************************************)
NothingWithoutLineage == site.lineage = NoLineage => RefersToNothing(site)

Calm == \A c \in Callers : pc[c] \notin Active

(* c failed after certbot had issued for fewer names than the row or the   *)
(* vhost had that c found: the vhost that is put back, or installed for    *)
(* that row by a later reconciliation, serves the others too.              *)
Shrunk(c) ==
  /\ c \in issued /\ pc[c] \in {"failed", "crashed"} /\ Kind(c) # "renew"
  /\ \/ ~(snap[c].row.aliases \subseteq Names(c))
     \/ snap[c].file # NoFile /\ ~(snap[c].file.aliases \subseteq Names(c))

(***************************************************************************)
(* While no calls overlap, Apache never serves a name over TLS that the    *)
(* certificate does not cover, not even after a failure, an undo or a      *)
(* crash (Enable and ReconcileAliases issue for the names of the vhost     *)
(* before they install it); the one exception is a call that failed after  *)
(* certbot had taken away a name (Shrunk).                                 *)
(***************************************************************************)
ServedNamesAreCovered ==
  Calm /\ overlapped = {} /\ ~(\E c \in Callers : Shrunk(c)) => FileCovered(site)

(***************************************************************************)
(* A call that returns nil, and has not overlapped with another, leaves    *)
(* everything in agreement whatever failed before it: the vhost is the     *)
(* rendering of the row; after TLS calls a TLS site has a certificate row, *)
(* and after a change of the names that row is exactly the certificate.    *)
(***************************************************************************)
SuccessAgrees ==
  [][\A c \in Callers \ overlapped : pc[c] = "run" /\ pc'[c] = "ok" =>
       /\ Kind(c) # "renew" => site.file = Rendered(site.row)
       /\ Kind(c) \in {"enable", "addName", "removeName"} =>
            site.record # NoRecord /\ site.row.aliases = site.lineage.sans
       /\ Kind(c) \in {"addName", "removeName"} => site.record = site.lineage
       /\ Kind(c) = "renew" /\ site.record # NoRecord =>
            site.record.serial = site.lineage.serial]_vars

(***************************************************************************)
(* An addition or a removal of a name, an Enable and a plan that fail      *)
(* leave the site as they found it (undoHTTP and the executor), a Disable  *)
(* that fails leaves it so or with the plain vhost (it has no undo).  Not  *)
(* a call that overlapped, or whose restore failed too; and not one that   *)
(* certbot had answered, with a new certificate or with the one it kept:   *)
(* from there on Enable returns its errors without undoing, and leaves the *)
(* plain vhost, or a TLS vhost the row does not know of.                   *)
(***************************************************************************)
FailureRestores ==
  [][\A c \in Callers \ (overlapped \cup torn \cup issued \cup kept) :
       pc[c] = "undo" /\ pc'[c] = "failed" =>
         \/ site = snap[c]
         \/ Kind(c) = "disable" /\ site = [snap[c] EXCEPT !.file = VHost(c, "http")]]_vars
=============================================================================
