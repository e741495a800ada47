------------------------------- MODULE Ui -------------------------------
(***************************************************************************)
(* The terminal interface (internal/ui) as its one Update loop sees it: the *)
(* model m, the reads in flight with the generation that replaces them      *)
(* (opSlot), the confirmation popup, and the changes a confirmed popup      *)
(* starts (steppedCmd): a worker that applies the change and reports on a   *)
(* channel, and the goroutines that carry its messages to Update.           *)
(*                                                                          *)
(* The lists are abstracted to the entry under their cursor: the            *)
(* subscription selected, and the domain selected in the list shown.        *)
(* A list that is loaded, filtered or changed by another provctl process    *)
(* may leave any entry under the cursor.  Four changes stand for all, which *)
(* differ in how their target is found and in what follows success: toggle  *)
(* (and TLS, PHP, the state of a subscription), deleteSite (and reconcile), *)
(* deleteSub and setSSH.  The editor and the forms take keys and change     *)
(* nothing else: a popup opens straight from the picker or the workspace.   *)
(* Escape during a change makes it fail, which it may at any time.  Left    *)
(* out: quitting, the other reads (they use the same slots and change no    *)
(* selection), and two goroutines that wait for one channel handing over    *)
(* its messages in another order.                                           *)
(***************************************************************************)
EXTENDS Naturals, FiniteSets

CONSTANTS
    Subs,       \* the subscriptions
    DomainsOf,  \* DomainsOf[s]: the domains subscription s may have
    None,       \* no entry, no change
    Operations, \* the changes the user may confirm, in the order of their keys
    Events,     \* progress messages of a change between its first and its last
    ChanCap,    \* capacity of a progress channel
    MaxReads    \* fresh reads in flight, when the user starts one

Domains == UNION {DomainsOf[s] : s \in Subs}
Max == Events + 2   \* messages of a change: start, events, result

ASSUME UiAssumption ==
    /\ DomainsOf \in [Subs -> SUBSET Domains]
    /\ None \notin Subs \union Domains \union Operations
    /\ Operations \subseteq Nat
    /\ Events \in Nat \ {0} /\ ChanCap \in Nat \ {0} /\ MaxReads \in Nat \ {0}

VARIABLES
    m,        \* appModel
    reads,    \* reads in flight: asked, answered and not yet in Update
    ops,      \* the confirmed changes: worker, captured selection, outcome
    chan,     \* chan[o]: messages sent to and received from o's channel
    waiting   \* waiting[o]: goroutines blocked on o's channel

vars == <<m, reads, ops, chan, waiting>>
running == <<ops, chan, waiting>>

NoConfirm == [kind |-> "none", shown |-> None]
NoProgress == [op |-> None, pending |-> None]

(***************************************************************************)
(* opSlot: a slot's generation grows whenever its read is replaced or       *)
(* dropped; the reads started before are then stale, and whose domains they *)
(* ask for no longer matters.                                               *)
(***************************************************************************)
Invalidated(slot, rs) ==
    {IF r.slot = slot THEN [r EXCEPT !.current = FALSE, !.sub = None, !.moved = FALSE] ELSE r : r \in rs}

Stale(r) == ~r.current

Request(slot, sub) ==
    [slot |-> slot, sub |-> sub, current |-> TRUE, moved |-> FALSE]

\* Mutant: a read does not replace the one before.
StartedBesides(slot, sub, rs) == rs \union {Request(slot, sub)}
Started(slot, sub, rs) == Invalidated(slot, rs) \union {Request(slot, sub)}

\* A bound of the model, on what the user starts.
HasRoom == Cardinality({r \in reads : ~Stale(r)}) < MaxReads

\* Mutant: the reads in flight are forgotten.
SelectionReadsKept(rs) == rs
SelectionReads(rs) == Invalidated("sites", rs)

\* The deletions of a domain whose confirming key the selection has not moved since.
StillSteady(mm) == IF mm.sub = m.sub THEN mm.steady ELSE {}

\* clearSelectionDetails: the selection changes together with what is shown ...
Cleared(mm, rs) ==
    /\ m' = [mm EXCEPT !.list = None, !.site = None, !.strayed = FALSE, !.steady = StillSteady(mm)]
    /\ reads' = SelectionReads(rs)

\* ... or changes under it; moved and strayed remember that it did, since the
\* request of a read or since the list came, until it is back.
Kept(mm) ==
    /\ m' = [mm EXCEPT !.strayed = mm.list \notin {None, mm.sub} /\ (mm.strayed \/ mm.sub # m.sub),
                       !.steady = StillSteady(mm)]
    /\ reads' = {[r EXCEPT !.moved = /\ r.slot = "sites" /\ ~Stale(r) /\ r.sub # mm.sub
                                     /\ @ \/ mm.sub # m.sub] : r \in reads}

NoChange == [phase |-> "idle", kind |-> "none", sub |-> None, target |-> "none",
             failed |-> FALSE, raced |-> FALSE]

Init ==
    /\ m = [sub |-> None, list |-> None, site |-> None, strayed |-> FALSE, steady |-> {},
            workspace |-> FALSE, confirm |-> NoConfirm, progress |-> NoProgress]
    /\ reads = {Request("subs", None)}
    /\ ops = [o \in Operations |-> NoChange]
    /\ chan = [o \in Operations |-> [sent |-> 0, received |-> 0]]
    /\ waiting = [o \in Operations |-> 0]

(***************************************************************************)
(* Keys.  A running change takes every key, then an open confirmation.       *)
(***************************************************************************)
\* Mutant: a change that failed no longer takes the keys.
IdleOnceFailed == m.progress.op = None \/ m.progress.pending # None
Idle == m.progress = NoProgress

Free == Idle /\ m.confirm = NoConfirm
InPicker == Free /\ ~m.workspace
InWorkspace == Free /\ m.workspace

\* j, k in the picker: another subscription, so nothing is shown of it yet.
MoveCursor ==
    /\ InPicker /\ m.sub # None
    /\ \E s \in Subs \ {m.sub} : Cleared([m EXCEPT !.sub = s], reads)
    /\ UNCHANGED running

\* m.list is the subscription whose domains are listed; the selection may have
\* left it since they were asked for.
Listed(mm, s, d, left) == [mm EXCEPT !.list = s, !.site = d, !.strayed = left]

\* j, k in the workspace; a filter there may also hide every domain.
MoveSiteCursor ==
    /\ InWorkspace /\ m.list # None
    /\ \E d \in DomainsOf[m.list] \union {None} : m' = [m EXCEPT !.site = d]
    /\ UNCHANGED <<reads, running>>

\* enter in the picker: the workspace opens and its domains are asked for;
\* what was shown stays until they come.
Open ==
    /\ InPicker /\ m.sub # None /\ HasRoom
    /\ m' = [m EXCEPT !.workspace = TRUE]
    /\ reads' = Started("sites", m.sub, reads)
    /\ UNCHANGED running

\* s, in the workspace.
BackToPicker ==
    /\ InWorkspace
    /\ m' = [m EXCEPT !.workspace = FALSE]
    /\ UNCHANGED <<reads, running>>

\* r, in the picker or the workspace.
Refresh ==
    /\ Free /\ HasRoom
    /\ reads' = Started("subs", None, reads)
    /\ UNCHANGED <<m, running>>

\* / in the picker, what is typed after it, and esc.
FilterKey ==
    /\ InPicker
    /\ \E s \in Subs \union {None} : Kept([m EXCEPT !.sub = s])
    /\ UNCHANGED running

Asked(kind, name) ==
    name # None /\ m' = [m EXCEPT !.confirm = [kind |-> kind, shown |-> name]]

\* askConfirm: the popup shows the name selected now.
Ask ==
    /\ \/ InWorkspace /\ Asked("toggle", m.site)
       \/ InWorkspace /\ Asked("deleteSite", m.site)
       \/ InPicker /\ Asked("setSSH", m.sub)
       \/ InPicker /\ Asked("deleteSub", m.sub)
    /\ UNCHANGED <<reads, running>>

Cancel ==
    /\ Idle /\ m.confirm # NoConfirm
    /\ m' = [m EXCEPT !.confirm = NoConfirm]
    /\ UNCHANGED <<reads, running>>

(***************************************************************************)
(* A change: confirmed, worked on, reported.                                *)
(***************************************************************************)
InFlight == {o \in Operations : ops[o].phase \in {"running", "applied", "sent"}}
Races(o, os) == [p \in Operations |->
                   IF InFlight # {} /\ p \in InFlight \union {o}
                   THEN [os[p] EXCEPT !.raced = TRUE] ELSE os[p]]

\* What the selection of this moment is to the popup.
Target ==
    LET name == IF m.confirm.kind \in {"toggle", "deleteSite"} THEN m.site ELSE m.sub IN
    IF m.sub = None \/ name = None THEN "none"
    ELSE IF name = m.confirm.shown THEN "shown" ELSE "other"

CanSend(o) == chan[o].sent - chan[o].received < ChanCap
Sent(o) == chan' = [chan EXCEPT ![o].sent = @ + 1]

\* y, or the name typed: the command keeps the model, and so the selection,
\* as it is at this key.  Its first message finds room in the channel, and
\* the goroutine of the command waits for it.
RunConfirmed(o) ==
    /\ Idle /\ m.confirm # NoConfirm
    /\ ops[o].phase = "idle" /\ \A p \in Operations : p < o => ops[p].phase # "idle"
    /\ m' = [m EXCEPT !.confirm = NoConfirm,
                      !.steady = @ \union (IF m.confirm.kind = "deleteSite" THEN {o} ELSE {})]
    /\ ops' = Races(o, [ops EXCEPT ![o] =
                [@ EXCEPT !.phase = "running", !.kind = m.confirm.kind, !.target = Target,
                          !.sub = IF m.confirm.kind = "deleteSite" THEN m.sub ELSE None]])
    /\ Sent(o)
    /\ waiting' = [waiting EXCEPT ![o] = 1]
    /\ UNCHANGED reads

\* The progress of the plan; a full channel blocks.
Report(o) ==
    /\ ops[o].phase = "running" /\ chan[o].sent <= Events /\ CanSend(o)
    /\ Sent(o)
    /\ UNCHANGED <<m, reads, ops, waiting>>

\* Deletions and SSH changes compare their target with the popup before they
\* run; the other changes take what is selected.
Confirmed(op) ==
    /\ op.target # "none"
    /\ op.kind \in {"deleteSite", "deleteSub", "setSSH"} => op.target = "shown"

\* The service call, and the list some changes read after it.  Whatever it was
\* asked it may fail, be cancelled, or succeed and then fail to read the list; of
\* a failure only that it is one is looked at.
Apply(o) ==
    /\ ops[o].phase = "running" /\ chan[o].sent = Events + 1
    /\ \/ /\ Confirmed(ops[o])
          /\ ops' = [ops EXCEPT ![o].phase = "applied", ![o].target = "none"]
       \/ ops' = [ops EXCEPT ![o] = [NoChange EXCEPT !.phase = "applied", !.failed = TRUE,
                                                     !.raced = ops[o].raced]]
    /\ UNCHANGED <<m, reads, chan, waiting>>

Finish(o) ==
    /\ ops[o].phase = "applied" /\ CanSend(o)
    /\ Sent(o)
    /\ ops' = [ops EXCEPT ![o].phase = "sent"]
    /\ UNCHANGED <<m, reads, waiting>>

(***************************************************************************)
(* Update.                                                                  *)
(***************************************************************************)
\* waitProgress: a goroutine takes message n of o's channel to Update, and p is
\* the change whose next message is then waited for: of None, no message comes.
Taken(o, n, p) ==
    /\ waiting[o] > 0 /\ chan[o].received < chan[o].sent
    /\ n = chan[o].received + 1
    /\ chan' = [chan EXCEPT ![o].received = n]
    /\ waiting' = [w \in Operations |->
                    (waiting[w] - IF w = o THEN 1 ELSE 0) + IF w = p THEN 1 ELSE 0]

ProgressStart(o) ==
    /\ Taken(o, 1, o)
    /\ m' = [m EXCEPT !.progress = [op |-> o, pending |-> None], !.confirm = NoConfirm]
    /\ UNCHANGED <<reads, ops>>

\* Mutant: a step does not ask for the next message.
ProgressStepDeaf(o) ==
    /\ \E n \in 2..(Max - 1) : Taken(o, n, None)
    /\ UNCHANGED <<m, reads, ops>>

\* A step waits for the next message of the change that is shown now.
ProgressStep(o) ==
    /\ \E n \in 2..(Max - 1) : Taken(o, n, m.progress.op)
    /\ UNCHANGED <<m, reads, ops>>

\* The result handlers, from the model mm with the popup closed.
Handled(o, mm) ==
    LET op == ops[o] IN
    /\ ops' = [ops EXCEPT ![o] = [NoChange EXCEPT !.phase = "handled"]]
    /\ \/ /\ op.failed
          /\ m' = mm /\ UNCHANGED reads
       \/ /\ ~op.failed /\ op.kind = "toggle"
          /\ m' = [mm EXCEPT !.confirm = NoConfirm]
          /\ reads' = Started("sites", mm.sub, reads)
       \/ /\ ~op.failed /\ op.kind = "deleteSite"
          /\ \E d \in DomainsOf[op.sub] \union {None} : m' = Listed(mm, op.sub, d, o \notin m.steady)
          /\ UNCHANGED reads
       \/ /\ ~op.failed /\ op.kind = "deleteSub"
          /\ Cleared([mm EXCEPT !.workspace = FALSE], Started("subs", None, reads))
       \/ /\ ~op.failed /\ op.kind = "setSSH"
          /\ \E s \in Subs \union {None} : Kept([mm EXCEPT !.sub = s])

\* A failure waits for the user under its checklist; anything else closes it.
Result(o) ==
    /\ Taken(o, Max, None)
    /\ \/ /\ m.progress.op # None /\ ops[o].failed
          /\ m' = [m EXCEPT !.progress.pending = o, !.steady = @ \ {o}]
          /\ ops' = [ops EXCEPT ![o] = [@ EXCEPT !.phase = "pending", !.target = "none",
                                                  !.sub = None]]
          /\ UNCHANGED reads
       \/ /\ ~(m.progress.op # None /\ ops[o].failed)
          /\ Handled(o, [m EXCEPT !.progress = NoProgress, !.steady = @ \ {o}])

\* enter or esc on a failed checklist: the result goes through Update again.
Dismiss ==
    /\ m.progress.pending # None
    /\ Handled(m.progress.pending, [m EXCEPT !.progress = NoProgress])
    /\ UNCHANGED <<chan, waiting>>

\* Mutant: the details stay when the selected entry is gone.
SubscriptionsLoadedQuietly(s, rs) == m' = [m EXCEPT !.sub = s] /\ reads' = rs

SubscriptionsLoaded(s, rs) ==
    IF s # m.sub THEN Cleared([m EXCEPT !.sub = s], rs)
    ELSE reads' = rs /\ UNCHANGED m

WebsitesLoaded(r, d) ==
    /\ m' = Listed(m, r.sub, d, r.moved)
    /\ reads' = reads \ {r}

\* An answer comes to Update, with whatever the repository held when it was
\* read.  A stale one, or one that failed, was cancelled, timed out or had no
\* subscription to ask for, changes the status line at most.
Loaded(r) ==
    /\ \/ reads' = reads \ {r} /\ UNCHANGED m
       \/ /\ ~Stale(r) /\ r.slot = "subs"
          /\ \E s \in Subs \union {None} : SubscriptionsLoaded(s, reads \ {r})
       \/ /\ ~Stale(r) /\ r.slot = "sites" /\ r.sub # None
          /\ \E d \in DomainsOf[r.sub] \union {None} : WebsitesLoaded(r, d)
    /\ UNCHANGED running

Key == \/ MoveCursor \/ MoveSiteCursor \/ Open \/ BackToPicker \/ Refresh
       \/ FilterKey \/ Ask \/ Cancel \/ Dismiss
       \/ \E o \in Operations : RunConfirmed(o)

Work(o) == Report(o) \/ Apply(o) \/ Finish(o)
Update(o) == ProgressStart(o) \/ ProgressStep(o) \/ Result(o)

Next ==
    \/ Key
    \/ \E o \in Operations : Work(o) \/ Update(o)
    \/ \E r \in reads : Loaded(r)

Spec == Init /\ [][Next]_vars

(***************************************************************************)
(* Properties.                                                              *)
(***************************************************************************)
\* A slot has at most one read that is not stale, a channel holds no more than
\* its capacity, and a pending failure belongs to a checklist.
TypeOK ==
    /\ m.sub \in Subs \union {None}
    /\ m.site # None => m.list # None /\ m.site \in DomainsOf[m.list]
    /\ m.progress.op \in Operations \union {None}
    /\ m.progress.pending \in Operations \union {None}
    /\ m.progress.op = None => m.progress.pending = None
    /\ m.steady \subseteq InFlight
    /\ \A o \in Operations :
         chan[o].received <= chan[o].sent /\ chan[o].sent - chan[o].received <= ChanCap
    /\ \A r, s \in reads : r.slot = s.slot /\ r.current /\ s.current => r = s

\* An answer that Update would take is for the subscription selected now:
\* neither a late answer nor a list that came back without the selected entry
\* shows one subscription's domains under another.  Excepted is what moves the
\* selection and keeps its details: a filter, the list after an SSH change.
ReadsFollowSelection ==
    \A r \in reads : r.slot = "sites" /\ ~Stale(r) /\ ~r.moved => r.sub = m.sub

\* The domains listed are those of the subscription selected, through late
\* answers, replaced reads, lists without the selected entry and the list a
\* deletion brings with its result: a key in the workspace means the row it is
\* on.  Excepted is the list the selection was moved under (strayed): by what
\* keeps the details, as above, or, for the list of a deletion, by anything that
\* moved the selection since the deletion was confirmed.
ListFollowsSelection == m.list # None /\ ~m.strayed => m.list = m.sub

\* A failed change is on the screen until the user has dismissed it, unless a
\* second change was confirmed before the checklist of the first came up.
FailureIsShown ==
    \A o \in Operations :
      ops[o].phase = "pending" /\ ~ops[o].raced => m.progress.pending = o

\* A worker is never left alone with its channel: until its result has come to
\* Update somebody waits for the next message, so a full channel cannot block it
\* for ever and the result is not lost.  Excepted as above.
SomebodyListens ==
    \A o \in Operations :
      ops[o].phase \in {"running", "applied", "sent"} /\ ~ops[o].raced => waiting[o] > 0
=============================================================================
