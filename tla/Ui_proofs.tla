----------------------------- MODULE Ui_proofs -----------------------------
(***************************************************************************)
(* The invariants of module Ui, for any subscriptions and domains, any     *)
(* number of changes and of their messages, and any capacity of their      *)
(* channels.                                                               *)
(***************************************************************************)
EXTENDS Ui, TLAPS

Slots == {"subs", "sites"}
Phases == {"idle", "running", "applied", "sent", "pending", "handled"}
Kinds == {"toggle", "deleteSite", "deleteSub", "setSSH", "none"}
Targets == {"none", "shown", "other"}

Model == [sub : Subs \union {None}, list : Subs \union {None}, site : Domains \union {None},
          strayed : BOOLEAN, steady : SUBSET Operations, workspace : BOOLEAN,
          confirm : [kind : Kinds, shown : Subs \union Domains \union {None}],
          progress : [op : Operations \union {None}, pending : Operations \union {None}]]
Read == [slot : Slots, sub : Subs \union {None}, current : BOOLEAN, moved : BOOLEAN]
Change == [phase : Phases, kind : Kinds, sub : Subs \union {None}, target : Targets,
           failed : BOOLEAN, raced : BOOLEAN]

Typed ==
    /\ m \in Model
    /\ reads \subseteq Read
    /\ ops \in [Operations -> Change]
    /\ chan \in [Operations -> [sent : Nat, received : Nat]]
    /\ waiting \in [Operations -> Nat]

(* What is shown belongs together: the domain under the cursor is of the   *)
(* list, the list of the selection, and a failure is pending only under a  *)
(* checklist.                                                              *)
ShownOK ==
    /\ m.site # None => m.list # None /\ m.site \in DomainsOf[m.list]
    /\ m.progress.op = None => m.progress.pending = None
    /\ ListFollowsSelection

OneRead == \A r, s \in reads : r.slot = s.slot /\ r.current /\ s.current => r = s

(* The messages of a change, by its phase.                                 *)
Counted(o) ==
    /\ chan[o].received <= chan[o].sent /\ chan[o].sent - chan[o].received <= ChanCap
    /\ ops[o].phase = "idle" => chan[o].sent = 0
    /\ ops[o].phase = "running" => chan[o].sent \in 1..(Events + 1)
    /\ ops[o].phase = "applied" => chan[o].sent = Events + 1
    /\ ops[o].phase = "sent" => chan[o].sent = Max /\ chan[o].received < Max
    /\ ops[o].phase \in {"pending", "handled"} => chan[o].received = Max /\ chan[o].sent = Max

(* What the command has captured, and what it has made of it.              *)
Captured(o) ==
    LET op == ops[o] IN
    /\ op.phase = "running" /\ op.kind = "deleteSite" /\ op.target # "none" => op.sub \in Subs
    /\ op.phase \in {"applied", "sent"} /\ op.kind = "deleteSite" /\ ~op.failed => op.sub \in Subs
    /\ op.phase = "pending" => op.failed
    /\ m.progress.pending = o => op.phase = "pending"

Working(o) == ops[o].phase \in {"running", "applied", "sent"}

(* A change during which no other was confirmed has the screen for itself. *)
Alone(o) ==
    (Working(o) \/ ops[o].phase = "pending") /\ ~ops[o].raced =>
      \A p \in Operations \ {o} : ~Working(p)

Attended(o) ==
    /\ Working(o) /\ ~ops[o].raced =>
         /\ waiting[o] > 0
         /\ m.progress.pending = None
         /\ m.progress.op = IF chan[o].received = 0 THEN None ELSE o
    /\ ops[o].phase = "pending" /\ ~ops[o].raced => m.progress.pending = o

(* A deletion since whose key the selection has not moved is under way, for *)
(* the subscription selected.                                              *)
SteadyOK == \A o \in m.steady : Working(o) /\ (ops[o].sub # None => ops[o].sub = m.sub)

ChangeOK(o) == Counted(o) /\ Captured(o) /\ Alone(o) /\ Attended(o)

IInv ==
    /\ Typed
    /\ ShownOK
    /\ OneRead
    /\ ReadsFollowSelection
    /\ \A o \in Operations : ChangeOK(o)
    /\ SteadyOK

(* The reads in flight, for a selection.                                   *)
One(rs) == \A r, s \in rs : r.slot = s.slot /\ r.current /\ s.current => r = s
Follows(rs, sub) == \A r \in rs : r.slot = "sites" /\ ~Stale(r) /\ ~r.moved => r.sub = sub
ReadsOK(rs, sub) == rs \subseteq Read /\ One(rs) /\ Follows(rs, sub)
MovedReads(old, new) ==
    {[r EXCEPT !.moved = /\ r.slot = "sites" /\ ~Stale(r) /\ r.sub # new
                         /\ @ \/ new # old] : r \in reads}

(* The screen: the model and the reads that will change it.                *)
Together(mm) ==
    /\ mm.site # None => mm.list # None /\ mm.site \in DomainsOf[mm.list]
    /\ mm.progress.op = None => mm.progress.pending = None
    /\ mm.list # None /\ ~mm.strayed => mm.list = mm.sub
ScreenOK(mm, rs) == mm \in Model /\ ReadsOK(rs, mm.sub) /\ Together(mm)

(* A model that comes next: what was steady is, unless the selection moved. *)
Remembers(mm, steady) == mm.steady \subseteq steady /\ (mm.sub = m.sub \/ mm.steady = {})

(* Steps that touch no change and no checklist.                            *)
Quiet == UNCHANGED running /\ m'.progress = m.progress

(* The last answer of a deletion names the subscription it listed, which is *)
(* the one selected if the selection has not moved.                        *)
Answers(o) ==
    ~ops[o].failed /\ ops[o].kind = "deleteSite" =>
      ops[o].sub \in Subs /\ (o \in m.steady => ops[o].sub = m.sub)

(* Nobody else's change or channel is touched.                             *)
Others(p) ==
    \A q \in Operations \ {p} :
      ops'[q] = ops[q] /\ chan'[q] = chan[q] /\ waiting'[q] = waiting[q]
Counts(o, sent, received) == chan'[o].sent = sent /\ chan'[o].received = received

(* The changes and their channels.                                         *)
RunningOK ==
    /\ ops \in [Operations -> Change]
    /\ chan \in [Operations -> [sent : Nat, received : Nat]]
    /\ waiting \in [Operations -> Nat]
    /\ \A o \in Operations : ChangeOK(o)


(* What the assumption on the constants says of single entries.            *)
LEMMA DomainsAreDomains ==
  /\ \A s \in Subs : DomainsOf[s] \subseteq Domains
  /\ None \notin Subs /\ None \notin Operations
<1> QED
  BY UiAssumption, SMT

(* A read that is still current is of another slot.                        *)
LEMMA InvalidatedReads ==
  ASSUME NEW slot \in Slots, NEW rs \in SUBSET Read
  PROVE  /\ Invalidated(slot, rs) \subseteq Read
         /\ \A r \in Invalidated(slot, rs) : r.current => r \in rs /\ r.slot # slot
<1>1. SUFFICES ASSUME NEW r \in Invalidated(slot, rs)
               PROVE  r \in Read /\ (r.current => r \in rs /\ r.slot # slot)
  BY SMT
<1>2. PICK q \in rs :
        r = IF q.slot = slot THEN [q EXCEPT !.current = FALSE, !.sub = None, !.moved = FALSE] ELSE q
  BY <1>1, Zenon DEF Invalidated
<1>3. q \in Read
  BY <1>2, SMT
<1>4. CASE q.slot = slot
  <2>1. r = [q EXCEPT !.current = FALSE, !.sub = None, !.moved = FALSE]
    BY <1>2, <1>4, SMT
  <2>2. r \in Read
    BY <2>1, <1>3, Zenon DEF Read
  <2>3. ~r.current
    BY <2>1, <1>3, SMT DEF Read
  <2> QED
    BY <2>2, <2>3
<1>5. CASE q.slot # slot
  BY <1>2, <1>3, <1>5, SMT
<1> QED
  BY <1>4, <1>5

(* Dropping a slot's reads keeps the rest in order.                        *)
LEMMA InvalidatedOK ==
  ASSUME NEW slot \in Slots, NEW rs, NEW sub, ReadsOK(rs, sub)
  PROVE  ReadsOK(Invalidated(slot, rs), sub)
<1>1. rs \in SUBSET Read
  BY SMT DEF ReadsOK
<1>2. Invalidated(slot, rs) \subseteq Read
  BY <1>1, InvalidatedReads, SMT
<1>3. \A r \in Invalidated(slot, rs) : r.current => r \in rs
  BY <1>1, InvalidatedReads, SMT
<1> QED
  BY <1>2, <1>3, SMT DEF ReadsOK, One, Follows, Stale

(* After the list reads are dropped the selection may be any.              *)
LEMMA SelectionReadsOK ==
  ASSUME NEW rs, NEW sub, NEW new, ReadsOK(rs, sub)
  PROVE  ReadsOK(SelectionReads(rs), new)
<1>1. ReadsOK(Invalidated("sites", rs), sub)
  BY InvalidatedOK, SMT DEF Slots
<1>2. \A r \in Invalidated("sites", rs) : r.current => r.slot # "sites"
  BY InvalidatedReads, SMT DEF ReadsOK, Slots
<1> QED
  BY <1>1, <1>2, SMT DEF SelectionReads, ReadsOK, Follows, Stale

(***************************************************************************)
(* A fresh read of the list asks for the selection, and is the only one of *)
(* its slot.                                                               *)
(***************************************************************************)
LEMMA StartedOK ==
  ASSUME NEW rs, NEW sub \in Subs \union {None}, ReadsOK(rs, sub),
         NEW slot \in Slots, NEW asked \in Subs \union {None}, slot = "sites" => asked = sub
  PROVE  ReadsOK(Started(slot, asked, rs), sub)
<1>1. ReadsOK(Invalidated(slot, rs), sub)
  BY InvalidatedOK, SMT
<1>2. \A r \in Invalidated(slot, rs) : r.current => r.slot # slot
  BY InvalidatedReads, SMT DEF ReadsOK
<1>3. /\ Request(slot, asked) \in Read /\ Request(slot, asked).slot = slot
      /\ Request(slot, asked).sub = asked /\ Request(slot, asked).current
  BY SMT DEF Request, Read
<1> QED
  BY <1>1, <1>2, <1>3, SMT DEF Started, ReadsOK, One, Follows, Stale

(* An answer that has come leaves the others in order.                     *)
LEMMA FewerOK ==
  ASSUME NEW rs, NEW sub, NEW r, ReadsOK(rs, sub)
  PROVE  ReadsOK(rs \ {r}, sub)
<1> QED
  BY SMT DEF ReadsOK, One, Follows

(* A selection that moves under a read marks it.                           *)
LEMMA MovedReadsOK ==
  ASSUME NEW old, NEW new, ReadsOK(reads, old)
  PROVE  ReadsOK(MovedReads(old, new), new)
<1> DEFINE Gone(q) == /\ q.slot = "sites" /\ ~Stale(q) /\ q.sub # new
                      /\ q.moved \/ new # old
           M(q) == [q EXCEPT !.moved = Gone(q)]
<1>1. ASSUME NEW q \in reads
      PROVE  /\ M(q) \in Read /\ M(q).slot = q.slot /\ M(q).current = q.current
             /\ M(q).sub = q.sub
             /\ q.slot = "sites" /\ ~Stale(q) /\ ~M(q).moved =>
                  q.sub = new \/ (~q.moved /\ new = old)
  <2>1. q \in Read /\ Gone(q) \in BOOLEAN
    BY <1>1, SMT DEF ReadsOK
  <2>2. q.slot = "sites" /\ ~Stale(q) /\ ~Gone(q) =>
          q.sub = new \/ (q.moved = FALSE /\ new = old)
    BY <2>1, SMT DEF Read
  <2> HIDE DEF Gone
  <2> QED
    BY <2>1, <2>2, SMT DEF Read
<1>2. MovedReads(old, new) = {M(q) : q \in reads}
  BY DEF MovedReads
<1> HIDE DEF M, Gone
<1>3. MovedReads(old, new) \subseteq Read
  BY <1>1, <1>2, SMT
<1>4. One(MovedReads(old, new))
  BY <1>1, <1>2, SMT DEF One, ReadsOK
<1>5. Follows(MovedReads(old, new), new)
  BY <1>1, <1>2, SMT DEF Follows, ReadsOK, Stale
<1> QED
  BY <1>3, <1>4, <1>5 DEF ReadsOK


(* The part of the invariant that is about the screen.                     *)
LEMMA ScreenIsOK ==
  IInv => ScreenOK(m, reads)
<1> QED
  BY SMT DEF IInv, Typed, OneRead, ReadsFollowSelection, ShownOK, ListFollowsSelection, ScreenOK,
             ReadsOK, One, Follows, Together

(* Closing the checklist changes nothing of what is shown.                 *)
LEMMA WithoutProgress ==
  ASSUME NEW rs, ScreenOK(m, rs), NEW left \in SUBSET m.steady
  PROVE  LET mm == [m EXCEPT !.progress = NoProgress, !.steady = left] IN
         ScreenOK(mm, rs) /\ mm.progress = NoProgress /\ mm.sub = m.sub /\ mm.steady = left
<1>2. m \in Model /\ ReadsOK(rs, m.sub)
  BY DEF ScreenOK
<1>3. NoProgress.pending = None
  BY SMT DEF NoProgress
<1>4. left \in SUBSET Operations
  BY <1>2, SMT DEF Model
<1>1. [m EXCEPT !.progress = NoProgress, !.steady = left] \in Model
  BY <1>2, <1>4, Zenon DEF Model, NoProgress
<1> QED
  BY <1>1, <1>2, <1>3, SMT DEF Model, ScreenOK, Together

(* clearSelectionDetails: nothing is shown, no list read is current.       *)
LEMMA ClearedEffect ==
  ASSUME NEW mm \in Model, NEW rs, NEW sub, ReadsOK(rs, sub), Cleared(mm, rs),
         mm.progress.op = None => mm.progress.pending = None
  PROVE  ScreenOK(m', reads') /\ m'.progress = mm.progress /\ Remembers(m', mm.steady)
<1> DEFINE steady == StillSteady(mm)
<1>1. m' = [mm EXCEPT !.list = None, !.site = None, !.strayed = FALSE, !.steady = steady]
  BY Zenon DEF Cleared
<1>5. /\ steady \in SUBSET Operations /\ steady \subseteq mm.steady
      /\ mm.sub = m.sub \/ steady = {}
  BY SMT DEF Model, StillSteady
<1> HIDE DEF steady
<1>2. m' \in Model
  BY <1>1, <1>5, Zenon DEF Model
<1>3. /\ m'.progress = mm.progress /\ m'.site = None /\ m'.list = None
      /\ m'.sub = mm.sub /\ m'.steady = steady
  BY <1>1, SMT DEF Model
<1>4. ReadsOK(reads', m'.sub)
  BY SelectionReadsOK, Zenon DEF Cleared
<1> QED
  BY <1>2, <1>3, <1>4, <1>5, SMT DEF ScreenOK, Together, Remembers

(* The selection moves and its details stay.                               *)
LEMMA KeptEffect ==
  ASSUME NEW mm, ScreenOK(mm, reads), mm.sub = m.sub,
         NEW s \in Subs \union {None}, Kept([mm EXCEPT !.sub = s])
  PROVE  ScreenOK(m', reads') /\ m'.progress = mm.progress /\ Remembers(m', mm.steady)
<1> DEFINE n == [mm EXCEPT !.sub = s]
<1> DEFINE strayed == n.list \notin {None, n.sub} /\ (n.strayed \/ n.sub # m.sub)
<1> DEFINE steady == StillSteady(n)
<1>1. m' = [n EXCEPT !.strayed = strayed, !.steady = steady]
  BY Zenon DEF Kept
<1>5. reads' = MovedReads(m.sub, n.sub)
  BY Zenon DEF Kept, MovedReads
<1>2. mm \in Model
  BY DEF ScreenOK
<1>3. n \in Model
  BY <1>2, Zenon DEF Model
<1>4. /\ n.progress = mm.progress /\ n.sub = s /\ n.list = mm.list /\ n.site = mm.site
      /\ n.strayed = mm.strayed /\ n.steady = mm.steady
  BY <1>2, SMT DEF Model
<1>7. strayed \in BOOLEAN /\ (strayed <=> mm.list \notin {None, s} /\ (mm.strayed \/ s # m.sub))
  BY <1>4, Zenon
<1>8. /\ steady \in SUBSET Operations /\ steady \subseteq mm.steady
      /\ s = m.sub \/ steady = {}
  BY <1>2, <1>4, SMT DEF Model, StillSteady
<1> HIDE DEF strayed, steady, n
<1>9. m' \in Model
  BY <1>1, <1>3, <1>7, <1>8, Zenon DEF Model
<1>10. /\ m'.progress = mm.progress /\ m'.sub = s /\ m'.list = mm.list /\ m'.site = mm.site
       /\ m'.strayed = strayed /\ m'.steady = steady
  BY <1>1, <1>3, <1>4, SMT DEF Model
<1>6. ReadsOK(reads', m'.sub)
  BY <1>4, <1>5, <1>10, MovedReadsOK, SMT DEF ScreenOK
<1>11. Together(mm)
  BY DEF ScreenOK
<1>12. Together(m')
  BY <1>7, <1>10, <1>11, SMT DEF Together
<1> QED
  BY <1>6, <1>8, <1>9, <1>10, <1>12, Zenon DEF ScreenOK, Remembers

(* A list of domains is shown.                                             *)
LEMMA ListedEffect ==
  ASSUME NEW mm, NEW s \in Subs, NEW d \in DomainsOf[s] \union {None},
         NEW left \in BOOLEAN, ~left => s = mm.sub,
         NEW rs, ScreenOK(mm, rs), NEW rest, rest = rs \/ \E r : rest = rs \ {r}
  PROVE  LET l == Listed(mm, s, d, left) IN
         /\ ScreenOK(l, rest)
         /\ l.progress = mm.progress /\ l.sub = mm.sub /\ l.steady = mm.steady
<1>1. mm \in Model
  BY DEF ScreenOK
<1>2. d \in Domains \union {None} /\ s # None
  BY DomainsAreDomains, SMT
<1>3. Listed(mm, s, d, left) \in Model
  BY <1>1, <1>2, Zenon DEF Listed, Model
<1>4. LET l == Listed(mm, s, d, left) IN
      /\ l.progress = mm.progress /\ l.sub = mm.sub /\ l.list = s /\ l.site = d
      /\ l.strayed = left /\ l.steady = mm.steady
  BY <1>1, SMT DEF Listed, Model
<1>5. ReadsOK(rest, mm.sub)
  BY FewerOK, Zenon DEF ScreenOK
<1>6. Together(mm)
  BY DEF ScreenOK
<1>7. Together(Listed(mm, s, d, left))
  BY <1>2, <1>4, <1>6, SMT DEF Together
<1> QED
  BY <1>3, <1>4, <1>5, <1>7, Zenon DEF ScreenOK

(* A read is started for the selection of the model.                       *)
LEMMA StartedEffect ==
  ASSUME ScreenOK(m, reads), NEW slot \in Slots, NEW asked \in Subs \union {None},
         slot = "sites" => asked = m.sub
  PROVE  ReadsOK(Started(slot, asked, reads), m.sub)
<1>1. ReadsOK(reads, m.sub) /\ m.sub \in Subs \union {None}
  BY SMT DEF ScreenOK, Model
<1> QED
  BY <1>1, StartedOK, SMT

(* The result handlers keep the screen in order, and close the checklist.  *)
LEMMA HandledEffect ==
  ASSUME ScreenOK(m, reads), NEW o \in Operations, Answers(o),
         NEW left \in SUBSET m.steady,
         Handled(o, [m EXCEPT !.progress = NoProgress, !.steady = left])
  PROVE  /\ ScreenOK(m', reads') /\ m'.progress = NoProgress /\ Remembers(m', left)
         /\ ops' = [ops EXCEPT ![o] = [NoChange EXCEPT !.phase = "handled"]]
<1> DEFINE op == ops[o]
<1> DEFINE mm == [m EXCEPT !.progress = NoProgress, !.steady = left]
<1>1. ops' = [ops EXCEPT ![o] = [NoChange EXCEPT !.phase = "handled"]]
  BY Zenon DEF Handled
<1>2. \/ m' = mm /\ UNCHANGED reads
      \/ m' = [mm EXCEPT !.confirm = NoConfirm] /\ reads' = Started("sites", mm.sub, reads)
      \/ /\ ~op.failed /\ op.kind = "deleteSite"
         /\ \E d \in DomainsOf[op.sub] \union {None} :
              m' = Listed(mm, op.sub, d, o \notin m.steady) /\ UNCHANGED reads
      \/ Cleared([mm EXCEPT !.workspace = FALSE], Started("subs", None, reads))
      \/ \E s \in Subs \union {None} : Kept([mm EXCEPT !.sub = s])
  BY Zenon DEF Handled
<1>3. ScreenOK(mm, reads) /\ mm.progress = NoProgress /\ mm.sub = m.sub /\ mm.steady = left
  BY WithoutProgress
<1>4. mm \in Model
  BY <1>3 DEF ScreenOK
<1> HIDE DEF mm
<1>5. CASE m' = mm /\ UNCHANGED reads
  BY <1>1, <1>3, <1>5, Zenon DEF Remembers
<1>6. CASE m' = [mm EXCEPT !.confirm = NoConfirm] /\ reads' = Started("sites", mm.sub, reads)
  <2>1. ReadsOK(reads', m.sub)
    BY <1>3, <1>4, <1>6, StartedEffect, SMT DEF Slots, Model
  <2>2. m' \in Model
    BY <1>4, <1>6, Zenon DEF Model, NoConfirm, Kinds
  <2>3. /\ m'.progress = NoProgress /\ m'.sub = mm.sub /\ m'.list = mm.list /\ m'.site = mm.site
        /\ m'.strayed = mm.strayed /\ m'.steady = mm.steady
    BY <1>3, <1>4, <1>6, SMT DEF Model
  <2> QED
    BY <1>1, <1>3, <2>1, <2>2, <2>3, SMT DEF ScreenOK, Together, Remembers
<1>7. CASE /\ ~op.failed /\ op.kind = "deleteSite"
           /\ \E d \in DomainsOf[op.sub] \union {None} :
                m' = Listed(mm, op.sub, d, o \notin m.steady) /\ UNCHANGED reads
  <2> DEFINE away == o \notin m.steady
  <2>1. op.sub \in Subs /\ away \in BOOLEAN /\ (~away => op.sub = mm.sub)
    BY <1>3, <1>7, Zenon DEF Answers
  <2>2. PICK d \in DomainsOf[op.sub] \union {None} :
                m' = Listed(mm, op.sub, d, away) /\ UNCHANGED reads
    BY <1>7
  <2> HIDE DEF away
  <2>3. LET l == Listed(mm, op.sub, d, away) IN
        /\ ScreenOK(l, reads)
        /\ l.progress = mm.progress /\ l.sub = mm.sub /\ l.steady = mm.steady
    BY <1>3, <2>1, <2>2, ListedEffect, Zenon
  <2> QED
    BY <1>1, <1>3, <2>2, <2>3, Zenon DEF Remembers
<1>8. CASE Cleared([mm EXCEPT !.workspace = FALSE], Started("subs", None, reads))
  <2>1. [mm EXCEPT !.workspace = FALSE] \in Model
    BY <1>4, Zenon DEF Model
  <2>2. /\ [mm EXCEPT !.workspace = FALSE].progress = NoProgress
        /\ [mm EXCEPT !.workspace = FALSE].steady = left
    BY <1>3, <1>4, SMT DEF Model
  <2>3. ReadsOK(Started("subs", None, reads), m.sub)
    BY StartedEffect, SMT DEF Slots
  <2>4. NoProgress.op = None => NoProgress.pending = None
    BY SMT DEF NoProgress
  <2> QED
    BY <1>1, <1>8, <2>1, <2>2, <2>3, <2>4, ClearedEffect, Zenon
<1>9. CASE \E s \in Subs \union {None} : Kept([mm EXCEPT !.sub = s])
  BY <1>1, <1>3, <1>9, KeptEffect, Zenon
<1> QED
  BY <1>2, <1>5, <1>6, <1>7, <1>8, <1>9

(***************************************************************************)
(* A message comes only from a worker, and the last only from one that has *)
(* sent it.                                                                *)
(***************************************************************************)
LEMMA Messenger ==
  ASSUME Typed, \A o \in Operations : Counted(o),
         NEW p \in Operations, NEW n \in 1..Max, NEW w, Taken(p, n, w)
  PROVE  /\ chan[p].received < chan[p].sent /\ n = chan[p].received + 1
         /\ Working(p)
         /\ n = Max => ops[p].phase = "sent"
<1> QED
  BY SMT, UiAssumption DEF Typed, Counted, Taken, Working, Max, Change, Phases

(* A change that has been applied without failing knows its subscription.  *)
LEMMA AnswersIfSent ==
  ASSUME NEW o \in Operations, Captured(o), SteadyOK,
         ops[o].phase \in {"applied", "sent", "pending"}
  PROVE  Answers(o)
<1> QED
  BY DomainsAreDomains, SMT DEF Captured, Answers, SteadyOK


(* A result handled long after its worker: nothing steady is dropped.      *)
LEMMA SameSteady ==
  ASSUME m \in Model
  PROVE  [m EXCEPT !.progress = NoProgress, !.steady = m.steady] = [m EXCEPT !.progress = NoProgress]
<1> DEFINE closed == [m EXCEPT !.progress = NoProgress]
<1>1. closed \in Model
  BY Zenon DEF Model, NoProgress
<1>2. closed.steady = m.steady
  BY SMT DEF Model
<1>3. closed = [closed EXCEPT !.steady = closed.steady]
  <2> HIDE DEF closed
  <2> QED
    BY <1>1, Zenon DEF Model
<1> QED
  BY <1>2, <1>3, Zenon

(* So does another selection, by a key or by a list.                       *)
LEMMA SelectedEffect ==
  ASSUME ScreenOK(m, reads), NEW s \in Subs \union {None}, NEW rs, ReadsOK(rs, m.sub),
         Cleared([m EXCEPT !.sub = s], rs)
  PROVE  ScreenOK(m', reads') /\ m'.progress = m.progress /\ Remembers(m', m.steady)
<1>1. m \in Model /\ (m.progress.op = None => m.progress.pending = None)
  BY SMT DEF ScreenOK, Together
<1>2. [m EXCEPT !.sub = s] \in Model
  BY <1>1, Zenon DEF Model
<1>3. /\ [m EXCEPT !.sub = s].progress = m.progress
      /\ [m EXCEPT !.sub = s].steady = m.steady
  BY <1>1, SMT DEF Model
<1> QED
  BY <1>1, <1>2, <1>3, ClearedEffect, Zenon

(* Every step keeps the screen in order.                                   *)
LEMMA ScreenStep ==
  ASSUME IInv, [Next]_vars
  PROVE  ScreenOK(m', reads')
<1>m. /\ ScreenOK(m, reads) /\ m \in Model /\ ReadsOK(reads, m.sub)
      /\ (m.progress.op = None => m.progress.pending = None)
      /\ (m.list # None /\ ~m.strayed => m.list = m.sub)
  BY ScreenIsOK, SMT DEF ScreenOK, Together
<1>1. CASE MoveCursor
  <2>1. PICK s \in Subs : Cleared([m EXCEPT !.sub = s], reads)
    BY <1>1, Zenon DEF MoveCursor
  <2> QED
    BY <1>m, <2>1, SelectedEffect, Zenon
<1>2. CASE MoveSiteCursor
  <2>1. PICK d \in DomainsOf[m.list] \union {None} : m' = [m EXCEPT !.site = d]
    BY <1>2, Zenon DEF MoveSiteCursor
  <2>2. m.list \in Subs /\ m.list # None /\ d \in Domains \union {None} /\ reads' = reads
    BY <1>2, <1>m, DomainsAreDomains, SMT DEF MoveSiteCursor, Model
  <2>3. m' \in Model
    BY <1>m, <2>1, <2>2, Zenon DEF Model
  <2>4. /\ m'.progress = m.progress /\ m'.sub = m.sub /\ m'.list = m.list /\ m'.site = d
        /\ m'.strayed = m.strayed
    BY <1>m, <2>1, SMT DEF Model
  <2> QED
    BY <1>m, <2>2, <2>3, <2>4, SMT DEF ScreenOK, Together
<1>3. CASE Open
  <2>1. m' = [m EXCEPT !.workspace = TRUE] /\ reads' = Started("sites", m.sub, reads)
    BY <1>3 DEF Open
  <2>2. m' \in Model
    BY <1>m, <2>1, Zenon DEF Model
  <2>3. /\ m'.progress = m.progress /\ m'.sub = m.sub /\ m'.list = m.list /\ m'.site = m.site
        /\ m'.strayed = m.strayed
    BY <1>m, <2>1, SMT DEF Model
  <2>4. ReadsOK(reads', m.sub)
    BY <1>m, <2>1, StartedEffect, SMT DEF Slots, Model
  <2> QED
    BY <1>m, <2>2, <2>3, <2>4, SMT DEF ScreenOK, Together
<1>4. CASE BackToPicker
  <2>1. m' = [m EXCEPT !.workspace = FALSE] /\ reads' = reads
    BY <1>4 DEF BackToPicker
  <2>2. m' \in Model
    BY <1>m, <2>1, Zenon DEF Model
  <2>3. /\ m'.progress = m.progress /\ m'.sub = m.sub /\ m'.list = m.list /\ m'.site = m.site
        /\ m'.strayed = m.strayed
    BY <1>m, <2>1, SMT DEF Model
  <2> QED
    BY <1>m, <2>1, <2>2, <2>3, SMT DEF ScreenOK, Together
<1>5. CASE Refresh
  <2>1. m' = m /\ reads' = Started("subs", None, reads)
    BY <1>5 DEF Refresh
  <2> QED
    BY <1>m, <2>1, StartedEffect, SMT DEF Slots, ScreenOK
<1>6. CASE FilterKey
  BY <1>6, <1>m, KeptEffect, Zenon DEF FilterKey
<1>7. CASE Ask
  <2>1. PICK kind \in Kinds, name \in {m.sub, m.site} :
          m' = [m EXCEPT !.confirm = [kind |-> kind, shown |-> name]] /\ reads' = reads
    BY <1>7, Zenon DEF Ask, Asked, Kinds
  <2>2. name \in Subs \union Domains \union {None}
    BY <1>m, SMT DEF Model
  <2>3. m' \in Model
    BY <1>m, <2>1, <2>2, Zenon DEF Model
  <2>4. /\ m'.progress = m.progress /\ m'.sub = m.sub /\ m'.list = m.list /\ m'.site = m.site
        /\ m'.strayed = m.strayed
    BY <1>m, <2>1, SMT DEF Model
  <2> QED
    BY <1>m, <2>1, <2>3, <2>4, SMT DEF ScreenOK, Together
<1>8. CASE Cancel
  <2>1. m' = [m EXCEPT !.confirm = NoConfirm] /\ reads' = reads
    BY <1>8 DEF Cancel
  <2>2. m' \in Model
    BY <1>m, <2>1, Zenon DEF Model, NoConfirm, Kinds
  <2>3. /\ m'.progress = m.progress /\ m'.sub = m.sub /\ m'.list = m.list /\ m'.site = m.site
        /\ m'.strayed = m.strayed
    BY <1>m, <2>1, SMT DEF Model
  <2> QED
    BY <1>m, <2>1, <2>2, <2>3, SMT DEF ScreenOK, Together
<1>9. CASE Dismiss
  <2>1. m.progress.pending \in Operations
    BY <1>9, <1>m, SMT DEF Dismiss, Model
  <2>2. Captured(m.progress.pending)
    BY <2>1 DEF IInv, ChangeOK
  <2>5. ops[m.progress.pending].phase = "pending"
    BY <2>1, <2>2, SMT DEF Captured
  <2>3. Answers(m.progress.pending)
    BY <2>1, <2>2, <2>5, AnswersIfSent, SMT DEF IInv, Captured
  <2>4. Handled(m.progress.pending, [m EXCEPT !.progress = NoProgress, !.steady = m.steady])
    BY <1>9, <1>m, SameSteady DEF Dismiss
  <2> QED
    BY <1>m, <2>1, <2>3, <2>4, HandledEffect, Zenon
<1>10. ASSUME NEW p \in Operations, RunConfirmed(p) PROVE ScreenOK(m', reads')
  <2> DEFINE steady == m.steady \union (IF m.confirm.kind = "deleteSite" THEN {p} ELSE {})
  <2>1. m' = [m EXCEPT !.confirm = NoConfirm, !.steady = steady] /\ reads' = reads
    BY <1>10, Zenon DEF RunConfirmed
  <2>4. steady \in SUBSET Operations
    BY <1>m, SMT DEF Model
  <2> HIDE DEF steady
  <2>2. m' \in Model
    BY <1>m, <2>1, <2>4, Zenon DEF Model, NoConfirm, Kinds
  <2>3. /\ m'.progress = m.progress /\ m'.sub = m.sub /\ m'.list = m.list /\ m'.site = m.site
        /\ m'.strayed = m.strayed
    BY <1>m, <2>1, SMT DEF Model
  <2> QED
    BY <1>m, <2>1, <2>2, <2>3, SMT DEF ScreenOK, Together
<1>11. ASSUME NEW p \in Operations, Report(p) PROVE ScreenOK(m', reads')
  BY <1>11, <1>m, SMT DEF Report
<1>12. ASSUME NEW p \in Operations, Apply(p) PROVE ScreenOK(m', reads')
  BY <1>12, <1>m, SMT DEF Apply
<1>13. ASSUME NEW p \in Operations, Finish(p) PROVE ScreenOK(m', reads')
  BY <1>13, <1>m, SMT DEF Finish
<1>14. ASSUME NEW p \in Operations, ProgressStart(p) PROVE ScreenOK(m', reads')
  <2>1. /\ m' = [m EXCEPT !.progress = [op |-> p, pending |-> None], !.confirm = NoConfirm]
        /\ reads' = reads
    BY <1>14 DEF ProgressStart
  <2>2. m' \in Model
    BY <1>m, <2>1, Zenon DEF Model, NoConfirm, Kinds
  <2>3. /\ m'.progress.pending = None /\ m'.sub = m.sub /\ m'.list = m.list /\ m'.site = m.site
        /\ m'.strayed = m.strayed
    BY <1>m, <2>1, SMT DEF Model
  <2> QED
    BY <1>m, <2>1, <2>2, <2>3, SMT DEF ScreenOK, Together
<1>15. ASSUME NEW p \in Operations, ProgressStep(p) PROVE ScreenOK(m', reads')
  BY <1>15, <1>m, SMT DEF ProgressStep
<1>16. ASSUME NEW p \in Operations, Result(p) PROVE ScreenOK(m', reads')
  <2>1. Taken(p, Max, None)
    BY <1>16 DEF Result
  <2>2. Max \in 1..Max
    BY UiAssumption, SMT DEF Max
  <2>3. ops[p].phase = "sent"
    BY <2>1, <2>2, Messenger, Zenon DEF IInv, ChangeOK
  <2>4. Answers(p)
    BY <2>3, AnswersIfSent, SMT DEF IInv, ChangeOK
  <2> DEFINE left == m.steady \ {p}
  <2>7. left \in SUBSET m.steady /\ left \in SUBSET Operations
    BY <1>m, SMT DEF Model
  <2>8. \/ Handled(p, [m EXCEPT !.progress = NoProgress, !.steady = left])
        \/ /\ m.progress.op # None /\ UNCHANGED reads
           /\ m' = [m EXCEPT !.progress.pending = p, !.steady = left]
    BY <1>16, Zenon DEF Result
  <2> HIDE DEF left
  <2>5. CASE Handled(p, [m EXCEPT !.progress = NoProgress, !.steady = left])
    BY <1>m, <2>4, <2>5, <2>7, HandledEffect, Zenon
  <2>6. CASE /\ m.progress.op # None /\ UNCHANGED reads
             /\ m' = [m EXCEPT !.progress.pending = p, !.steady = left]
    <3>1. m' \in Model
      BY <1>m, <2>6, <2>7, Zenon DEF Model
    <3>2. /\ m'.progress.op = m.progress.op /\ m'.sub = m.sub /\ m'.list = m.list /\ m'.site = m.site
          /\ m'.strayed = m.strayed
      BY <1>m, <2>6, SMT DEF Model
    <3> QED
      BY <1>m, <2>6, <3>1, <3>2, SMT DEF ScreenOK, Together
  <2> QED
    BY <2>5, <2>6, <2>8
<1>17. ASSUME NEW r \in reads, Loaded(r) PROVE ScreenOK(m', reads')
  <2>1. ReadsOK(reads \ {r}, m.sub)
    BY <1>m, FewerOK DEF ScreenOK
  <2>2. CASE reads' = reads \ {r} /\ UNCHANGED m
    BY <1>m, <2>1, <2>2, SMT DEF ScreenOK
  <2>3. CASE \E s \in Subs \union {None} : Cleared([m EXCEPT !.sub = s], reads \ {r})
    BY <1>m, <2>1, <2>3, SelectedEffect, Zenon
  <2>4. CASE /\ ~Stale(r) /\ r.slot = "sites" /\ r.sub # None
             /\ \E d \in DomainsOf[r.sub] \union {None} :
                  m' = Listed(m, r.sub, d, r.moved) /\ reads' = reads \ {r}
    <3>1. r.sub \in Subs /\ r.moved \in BOOLEAN /\ (~r.moved => r.sub = m.sub)
      BY <1>m, <2>4, SMT DEF ScreenOK, ReadsOK, Read, Follows
    <3>2. PICK d \in DomainsOf[r.sub] \union {None} :
                  m' = Listed(m, r.sub, d, r.moved) /\ reads' = reads \ {r}
      BY <2>4
    <3>3. ScreenOK(Listed(m, r.sub, d, r.moved), reads \ {r})
      BY <1>m, <3>1, ListedEffect, Zenon
    <3> QED
      BY <3>2, <3>3, Zenon
  <2> QED
    BY <1>17, <2>2, <2>3, <2>4, Zenon DEF Loaded, SubscriptionsLoaded, WebsitesLoaded
<1>18. CASE UNCHANGED vars
  BY <1>18, <1>m, SMT DEF vars
<1> QED
  BY <1>1, <1>2, <1>3, <1>4, <1>5, <1>6, <1>7, <1>8, <1>9, <1>10, <1>11, <1>12, <1>13,
     <1>14, <1>15, <1>16, <1>17, <1>18
     DEF Next, Key, Work, Update

(* A message sent.                                                         *)
LEMMA SentEffect ==
  ASSUME Typed, NEW p \in Operations, Sent(p)
  PROVE  /\ chan' \in [Operations -> [sent : Nat, received : Nat]]
         /\ Counts(p, chan[p].sent + 1, chan[p].received)
         /\ \A q \in Operations \ {p} : chan'[q] = chan[q]
<1> QED
  BY SMT DEF Typed, Sent, Counts

(* A message taken: only its own waiter is used up.                        *)
LEMMA TakenEffect ==
  ASSUME Typed, NEW p \in Operations, NEW n, NEW w, Taken(p, n, w)
  PROVE  /\ chan' \in [Operations -> [sent : Nat, received : Nat]]
         /\ waiting' \in [Operations -> Nat]
         /\ Counts(p, chan[p].sent, chan[p].received + 1)
         /\ \A q \in Operations \ {p} : chan'[q] = chan[q] /\ waiting'[q] >= waiting[q]
         /\ w = p => waiting'[p] > 0
<1>1. chan \in [Operations -> [sent : Nat, received : Nat]] /\ waiting \in [Operations -> Nat]
  BY DEF Typed
<1>2. /\ waiting[p] > 0 /\ n = chan[p].received + 1
      /\ chan' = [chan EXCEPT ![p].received = n]
      /\ waiting' = [q \in Operations |->
                      (waiting[q] - IF q = p THEN 1 ELSE 0) + IF q = w THEN 1 ELSE 0]
  BY DEF Taken
<1>3. /\ chan' \in [Operations -> [sent : Nat, received : Nat]]
      /\ Counts(p, chan[p].sent, chan[p].received + 1)
      /\ \A q \in Operations \ {p} : chan'[q] = chan[q]
  BY <1>1, <1>2, SMT DEF Counts
<1>4. ASSUME NEW q \in Operations
      PROVE  waiting'[q] \in Nat /\ (q # p => waiting'[q] >= waiting[q]) /\ (q = p /\ w = p => waiting'[q] > 0)
  BY <1>1, <1>2, SMT
<1>5. waiting' \in [Operations -> Nat]
  BY <1>2, <1>4, SMT
<1> QED
  BY <1>3, <1>4, <1>5, SMT

(* The target is captured from a selected subscription.                    *)
LEMMA TargetTyped ==
  ASSUME Typed
  PROVE  Target \in Targets /\ (Target # "none" => m.sub \in Subs)
<1> QED
  BY SMT DEF Typed, Model, Target, Targets

(***************************************************************************)
(* RunConfirmed field by field: a change that is not marked as raced found *)
(* nobody at work.                                                         *)
(***************************************************************************)
LEMMA RunEffect ==
  ASSUME Typed, NEW p \in Operations, RunConfirmed(p)
  PROVE  /\ ops' \in [Operations -> Change]
         /\ ops'[p].phase = "running"
         /\ ops'[p].kind = "deleteSite" /\ ops'[p].target # "none" => ops'[p].sub \in Subs
         /\ m.confirm.kind = "deleteSite" => ops'[p].sub = m.sub
         /\ \A q \in Operations \ {p} :
              /\ ops'[q].phase = ops[q].phase /\ ops'[q].kind = ops[q].kind
              /\ ops'[q].sub = ops[q].sub /\ ops'[q].target = ops[q].target
              /\ ops'[q].failed = ops[q].failed
              /\ ~ops'[q].raced => ~ops[q].raced /\ ~Working(q)
         /\ ~ops'[p].raced => \A q \in Operations : ~Working(q)
<1> DEFINE captured == IF m.confirm.kind = "deleteSite" THEN m.sub ELSE None
<1> DEFINE run == [ops[p] EXCEPT !.phase = "running", !.kind = m.confirm.kind, !.target = Target,
                                 !.sub = captured]
<1> DEFINE new == [ops EXCEPT ![p] = run]
<1>1. ops' = Races(p, new)
  BY Zenon DEF RunConfirmed
<1>2. ops \in [Operations -> Change] /\ m \in Model
  BY DEF Typed
<1>3. captured \in Subs \union {None} /\ m.confirm.kind \in Kinds
  BY <1>2, SMT DEF Model
<1>4. Target \in Targets /\ (Target # "none" => m.sub \in Subs)
  BY TargetTyped
<1> HIDE DEF captured
<1>5. ops[p] \in Change
  BY <1>2, SMT
<1>6. run \in Change
  BY <1>3, <1>4, <1>5, Zenon DEF Change, Phases
<1>7. /\ run.phase = "running" /\ run.raced = ops[p].raced
      /\ run.kind = m.confirm.kind /\ run.sub = captured /\ run.target = Target
  BY <1>5, SMT DEF Change
<1>8. run.kind = "deleteSite" /\ run.target # "none" => run.sub \in Subs
  BY <1>4, <1>7, SMT DEF captured
<1>18. m.confirm.kind = "deleteSite" => run.sub = m.sub
  BY <1>7, Zenon DEF captured
<1> HIDE DEF run
<1>9. new \in [Operations -> Change] /\ new[p] = run /\ \A q \in Operations \ {p} : new[q] = ops[q]
  BY <1>2, <1>6, SMT
<1> HIDE DEF new
<1>10. ops' = [q \in Operations |-> IF InFlight # {} /\ q \in InFlight \union {p}
                                    THEN [new[q] EXCEPT !.raced = TRUE] ELSE new[q]]
  BY <1>1, Zenon DEF Races
<1>11. ASSUME NEW q \in Operations
       PROVE  /\ ops'[q] \in Change
              /\ ops'[q].phase = new[q].phase /\ ops'[q].kind = new[q].kind
              /\ ops'[q].sub = new[q].sub /\ ops'[q].target = new[q].target
              /\ ops'[q].failed = new[q].failed
              /\ ~ops'[q].raced => /\ ~new[q].raced
                                   /\ ~(InFlight # {} /\ q \in InFlight \union {p})
  <2>1. new[q] \in Change
    BY <1>9, SMT
  <2>2. [new[q] EXCEPT !.raced = TRUE] \in Change
    BY <2>1, Zenon DEF Change
  <2>3. CASE InFlight # {} /\ q \in InFlight \union {p}
    <3>1. ops'[q] = [new[q] EXCEPT !.raced = TRUE]
      BY <1>10, <2>3, Zenon
    <3> QED
      BY <2>1, <2>2, <3>1, SMT DEF Change
  <2>4. CASE ~(InFlight # {} /\ q \in InFlight \union {p})
    <3>1. ops'[q] = new[q]
      BY <1>10, <2>4, Zenon
    <3> QED
      BY <2>1, <2>4, <3>1, SMT
  <2> QED
    BY <2>3, <2>4
<1>12. ops' \in [Operations -> Change]
  BY <1>10, <1>11, SMT
<1>13. \A q \in Operations : q \in InFlight <=> Working(q)
  BY Zenon DEF InFlight, Working
<1>14. InFlight # {} <=> \E q \in Operations : Working(q)
  BY <1>13, SMT DEF InFlight
<1>15. ASSUME NEW q \in Operations \ {p}
       PROVE  /\ ops'[q].phase = ops[q].phase /\ ops'[q].kind = ops[q].kind
              /\ ops'[q].sub = ops[q].sub /\ ops'[q].target = ops[q].target
              /\ ops'[q].failed = ops[q].failed
              /\ ~ops'[q].raced => ~ops[q].raced /\ ~Working(q)
  <2>1. new[q] = ops[q]
    BY <1>9
  <2> QED
    BY <1>11, <1>13, <1>14, <2>1, Zenon
<1>16. ~ops'[p].raced => \A q \in Operations : ~Working(q)
  BY <1>11, <1>14, SMT
<1>17. /\ ops'[p].phase = "running"
       /\ ops'[p].kind = run.kind /\ ops'[p].target = run.target /\ ops'[p].sub = run.sub
  BY <1>7, <1>9, <1>11, Zenon
<1> QED
  BY <1>8, <1>12, <1>15, <1>16, <1>17, <1>18, Zenon

(* Apply field by field.                                                   *)
LEMMA ApplyEffect ==
  ASSUME Typed, NEW p \in Operations, Apply(p)
  PROVE  /\ ops' \in [Operations -> Change] /\ Others(p) /\ chan'[p] = chan[p]
         /\ ops'[p].phase = "applied" /\ ops'[p].raced = ops[p].raced
         /\ \/ /\ Confirmed(ops[p])
               /\ ops'[p].kind = ops[p].kind /\ ops'[p].sub = ops[p].sub
            \/ ops'[p].failed /\ ops'[p].sub = None
<1> DEFINE done == [ops[p] EXCEPT !.phase = "applied", !.target = "none"]
           failed == [NoChange EXCEPT !.phase = "applied", !.failed = TRUE, !.raced = ops[p].raced]
<1>1. ops \in [Operations -> Change] /\ ops[p] \in Change
  BY SMT DEF Typed
<1>2. UNCHANGED chan /\ UNCHANGED waiting
  BY DEF Apply
<1>3. /\ done \in Change /\ done.phase = "applied" /\ done.raced = ops[p].raced
      /\ done.kind = ops[p].kind /\ done.sub = ops[p].sub
  <2>1. done \in Change
    BY <1>1, Zenon DEF Change, Phases, Targets
  <2> QED
    BY <1>1, <2>1, SMT DEF Change
<1>4. /\ failed \in Change /\ failed.phase = "applied" /\ failed.raced = ops[p].raced
      /\ failed.failed /\ failed.sub = None
  <2>1. ops[p].raced \in BOOLEAN
    BY <1>1, SMT DEF Change
  <2>2. failed.phase = "applied" /\ failed.raced = ops[p].raced /\ failed.failed /\ failed.sub = None
    BY SMT DEF NoChange
  <2>3. NoChange \in Change
    BY Zenon DEF Change, NoChange, Phases, Kinds, Targets
  <2>4. failed \in Change
    BY <2>1, <2>3, Zenon DEF Change, Phases
  <2> QED
    BY <2>2, <2>4
<1>5. \/ Confirmed(ops[p]) /\ ops' = [ops EXCEPT ![p] = done]
      \/ ops' = [ops EXCEPT ![p] = failed]
  BY Zenon DEF Apply
<1> HIDE DEF done, failed
<1>6. CASE Confirmed(ops[p]) /\ ops' = [ops EXCEPT ![p] = done]
  <2>1. ops' \in [Operations -> Change] /\ ops'[p] = done
        /\ \A q \in Operations \ {p} : ops'[q] = ops[q]
    BY <1>1, <1>3, <1>6, SMT
  <2> QED
    BY <1>2, <1>3, <1>6, <2>1, Zenon DEF Others
<1>7. CASE ops' = [ops EXCEPT ![p] = failed]
  <2>1. ops' \in [Operations -> Change] /\ ops'[p] = failed
        /\ \A q \in Operations \ {p} : ops'[q] = ops[q]
    BY <1>1, <1>4, <1>7, SMT
  <2> QED
    BY <1>2, <1>4, <2>1, Zenon DEF Others
<1> QED
  BY <1>5, <1>6, <1>7

(* The result is sent.                                                     *)
LEMMA FinishEffect ==
  ASSUME Typed, NEW p \in Operations, ops' = [ops EXCEPT ![p].phase = "sent"]
  PROVE  /\ ops' \in [Operations -> Change]
         /\ \A q \in Operations \ {p} : ops'[q] = ops[q]
         /\ ops'[p].phase = "sent" /\ ops'[p].kind = ops[p].kind /\ ops'[p].sub = ops[p].sub
         /\ ops'[p].target = ops[p].target
         /\ ops'[p].failed = ops[p].failed /\ ops'[p].raced = ops[p].raced
<1>1. ops \in [Operations -> Change] /\ ops[p] \in Change
  BY SMT DEF Typed
<1>2. ops' = [ops EXCEPT ![p] = [ops[p] EXCEPT !.phase = "sent"]]
  BY Zenon
<1>3. [ops[p] EXCEPT !.phase = "sent"] \in Change
  BY <1>1, Zenon DEF Change, Phases
<1>4. ops'[p] = [ops[p] EXCEPT !.phase = "sent"]
  BY <1>1, <1>2, Zenon
<1>5. ops' \in [Operations -> Change] /\ \A q \in Operations \ {p} : ops'[q] = ops[q]
  BY <1>1, <1>2, <1>3, SMT
<1> QED
  BY <1>1, <1>4, <1>5, SMT DEF Change

(* The result is kept for the user.                                        *)
LEMMA PendingEffect ==
  ASSUME Typed, NEW p \in Operations,
         ops' = [ops EXCEPT ![p] = [@ EXCEPT !.phase = "pending", !.target = "none",
                                              !.sub = None]]
  PROVE  /\ ops' \in [Operations -> Change]
         /\ \A q \in Operations \ {p} : ops'[q] = ops[q]
         /\ ops'[p].phase = "pending"
         /\ ops'[p].failed = ops[p].failed /\ ops'[p].raced = ops[p].raced
<1> DEFINE new == [ops[p] EXCEPT !.phase = "pending", !.target = "none", !.sub = None]
<1>1. ops \in [Operations -> Change] /\ ops[p] \in Change
  BY SMT DEF Typed
<1>2. ops' = [ops EXCEPT ![p] = new]
  BY Zenon
<1>3. new \in Change
  BY <1>1, Zenon DEF Change, Phases, Targets
<1>4. /\ new.phase = "pending"
      /\ new.failed = ops[p].failed /\ new.raced = ops[p].raced
  BY <1>1, SMT DEF Change
<1> HIDE DEF new
<1>5. ops'[p] = new
  BY <1>1, <1>2, Zenon
<1>6. ops' \in [Operations -> Change] /\ \A q \in Operations \ {p} : ops'[q] = ops[q]
  BY <1>1, <1>2, <1>3, SMT
<1> QED
  BY <1>4, <1>5, <1>6, Zenon

(* The record of a change that is not under way.                           *)
LEMMA NoChangeTyped ==
  /\ NoChange \in Change /\ NoChange.phase = "idle"
  /\ [NoChange EXCEPT !.phase = "handled"] \in Change
  /\ [NoChange EXCEPT !.phase = "handled"].phase = "handled"
<1>1. NoChange \in Change
  BY Zenon DEF NoChange, Change, Phases, Kinds, Targets
<1>2. [NoChange EXCEPT !.phase = "handled"] \in Change
  BY <1>1, Zenon DEF Change, Phases
<1>3. NoChange.phase = "idle"
  BY SMT DEF NoChange
<1> QED
  BY <1>1, <1>2, <1>3, SMT DEF Change

(* The result has been handled.                                            *)
LEMMA HandledChange ==
  ASSUME Typed, NEW p \in Operations,
         ops' = [ops EXCEPT ![p] = [NoChange EXCEPT !.phase = "handled"]]
  PROVE  /\ ops' \in [Operations -> Change]
         /\ \A q \in Operations \ {p} : ops'[q] = ops[q]
         /\ ops'[p].phase = "handled"
<1> DEFINE new == [NoChange EXCEPT !.phase = "handled"]
<1>1. ops \in [Operations -> Change] /\ ops' = [ops EXCEPT ![p] = new]
  BY Zenon DEF Typed
<1>2. new \in Change /\ new.phase = "handled"
  BY NoChangeTyped
<1> HIDE DEF new
<1>3. ops'[p] = new /\ \A q \in Operations \ {p} : ops'[q] = ops[q]
  BY <1>1, SMT
<1>4. ops' \in [Operations -> Change]
  BY <1>1, <1>2, SMT
<1> QED
  BY <1>2, <1>3, <1>4, Zenon

(* Without a checklist nothing is pending.                                 *)
LEMMA IdleShowsNothing ==
  ASSUME Idle
  PROVE  m.progress.op = None /\ m.progress.pending = None
<1> QED
  BY SMT DEF Idle, NoProgress

(***************************************************************************)
(* RunConfirmed keeps the invariant of the changes: an unraced change      *)
(* starts alone, and no failure is pending then.                           *)
(***************************************************************************)
LEMMA RunOK ==
  ASSUME IInv, NEW p \in Operations, RunConfirmed(p)
  PROVE  RunningOK'
<1>1. Typed /\ \A o \in Operations : ChangeOK(o)
  BY DEF IInv
<1>2. /\ ops[p].phase = "idle" /\ Sent(p) /\ waiting' = [waiting EXCEPT ![p] = 1]
      /\ m.progress.op = None /\ m.progress.pending = None
  BY IdleShowsNothing DEF RunConfirmed
<1>3. m'.progress = m.progress
  BY <1>1, SMT DEF RunConfirmed, Typed, Model
<1>4. /\ chan' \in [Operations -> [sent : Nat, received : Nat]]
      /\ Counts(p, chan[p].sent + 1, chan[p].received)
      /\ \A q \in Operations \ {p} : chan'[q] = chan[q]
  BY <1>1, <1>2, SentEffect
<1>5. waiting' \in [Operations -> Nat] /\ waiting'[p] = 1
  BY <1>1, <1>2, SMT DEF Typed
<1>6. /\ chan[p].sent = 0 /\ chan[p].received = 0
  BY <1>1, <1>2, SMT DEF ChangeOK, Counted, Typed
<1>7. ASSUME NEW o \in Operations PROVE Counted(o)'
  <2>1. CASE o = p
    BY <1>1, <1>4, <1>6, <2>1, RunEffect, UiAssumption, SMT DEF Counted, Counts
  <2>2. CASE o # p
    BY <1>1, <1>4, <2>2, RunEffect, SMT DEF Counted, ChangeOK
  <2> QED
    BY <2>1, <2>2
<1>8. ASSUME NEW o \in Operations PROVE Captured(o)'
  <2>1. CASE o = p
    <3>1. m.progress.pending # p
      BY <1>1, <1>2, DomainsAreDomains, SMT DEF ChangeOK, Captured
    <3> QED
      BY <1>1, <1>3, <2>1, <3>1, RunEffect, SMT DEF Captured
  <2>2. CASE o # p
    BY <1>1, <1>3, <2>2, RunEffect, SMT DEF Captured, ChangeOK
  <2> QED
    BY <2>1, <2>2
<1>9. ASSUME NEW o \in Operations PROVE Alone(o)' /\ Attended(o)'
  <2>1. CASE o = p
    BY <1>1, <1>2, <1>3, <1>4, <1>5, <1>6, <2>1, RunEffect, SMT
       DEF Alone, Attended, Working, Counts
  <2>2. CASE o # p
    <3>1. ops[o].phase = "pending" => ops[o].raced
      BY <1>1, <1>2, DomainsAreDomains, SMT DEF ChangeOK, Attended
    <3> QED
      BY <1>1, <2>2, <3>1, RunEffect, SMT DEF Alone, Attended, Working
  <2> QED
    BY <2>1, <2>2
<1> QED
  BY <1>1, <1>4, <1>5, <1>7, <1>8, <1>9, RunEffect DEF RunningOK, ChangeOK

(* So does a key or an answer that touches neither change nor checklist.   *)
LEMMA QuietOK ==
  ASSUME IInv, Quiet
  PROVE  RunningOK'
<1> QED
  BY SMT DEF IInv, Typed, Quiet, running, RunningOK, ChangeOK, Counted, Captured, Alone, Attended,
             Working

(* So does Report.                                                         *)
LEMMA ReportOK ==
  ASSUME IInv, NEW p \in Operations, Report(p)
  PROVE  RunningOK'
<1>1. Typed /\ \A o \in Operations : ChangeOK(o)
  BY DEF IInv
<1>2. /\ ops[p].phase = "running" /\ chan[p].sent <= Events /\ CanSend(p) /\ Sent(p)
      /\ UNCHANGED <<m, ops, waiting>>
  BY DEF Report
<1>3. /\ chan' \in [Operations -> [sent : Nat, received : Nat]]
      /\ Counts(p, chan[p].sent + 1, chan[p].received)
      /\ \A q \in Operations \ {p} : chan'[q] = chan[q]
  BY <1>1, <1>2, SentEffect
<1>4. ASSUME NEW o \in Operations PROVE Counted(o)'
  BY <1>1, <1>2, <1>3, UiAssumption, SMT DEF Counted, ChangeOK, Counts, CanSend, Typed
<1>5. ASSUME NEW o \in Operations PROVE Captured(o)' /\ Alone(o)' /\ Attended(o)'
  BY <1>1, <1>2, <1>3, SMT DEF Captured, Alone, Attended, ChangeOK, Working, Counts
<1> QED
  BY <1>1, <1>2, <1>3, <1>4, <1>5, SMT DEF RunningOK, ChangeOK, Typed

(* So does Apply: what acts has compared its target with the popup.        *)
LEMMA ApplyOK ==
  ASSUME IInv, NEW p \in Operations, Apply(p)
  PROVE  RunningOK'
<1>1. Typed /\ \A o \in Operations : ChangeOK(o)
  BY DEF IInv
<1>2. /\ ops[p].phase = "running" /\ chan[p].sent = Events + 1 /\ UNCHANGED <<m, chan, waiting>>
  BY DEF Apply
<1>3. ASSUME NEW o \in Operations PROVE Counted(o)'
  BY <1>1, <1>2, ApplyEffect, UiAssumption, SMT DEF Counted, ChangeOK, Others
<1>4. ASSUME NEW o \in Operations PROVE Captured(o)'
  <2>1. CASE o = p
    <3>1. m.progress.pending # p
      BY <1>1, <1>2, SMT DEF ChangeOK, Captured
    <3>2. ops[p].kind = "deleteSite" /\ ops[p].target # "none" => ops[p].sub \in Subs
      BY <1>1, <1>2, SMT DEF ChangeOK, Captured
    <3> QED
      BY <1>1, <1>2, <2>1, <3>1, <3>2, ApplyEffect, SMT DEF Captured, Confirmed
  <2>2. CASE o # p
    BY <1>1, <1>2, <2>2, ApplyEffect, SMT DEF Captured, ChangeOK, Others
  <2> QED
    BY <2>1, <2>2
<1>5. ASSUME NEW o \in Operations PROVE Alone(o)' /\ Attended(o)'
  BY <1>1, <1>2, ApplyEffect, SMT DEF Alone, Attended, ChangeOK, Working, Others
<1> QED
  BY <1>1, <1>2, <1>3, <1>4, <1>5, ApplyEffect, SMT DEF RunningOK, ChangeOK, Typed

(* So does Finish.                                                         *)
LEMMA FinishOK ==
  ASSUME IInv, NEW p \in Operations, Finish(p)
  PROVE  RunningOK'
<1>1. Typed /\ \A o \in Operations : ChangeOK(o)
  BY DEF IInv
<1>2. /\ ops[p].phase = "applied" /\ CanSend(p) /\ Sent(p) /\ UNCHANGED <<m, waiting>>
      /\ ops' = [ops EXCEPT ![p].phase = "sent"]
  BY DEF Finish
<1>3. /\ chan' \in [Operations -> [sent : Nat, received : Nat]]
      /\ Counts(p, chan[p].sent + 1, chan[p].received)
      /\ \A q \in Operations \ {p} : chan'[q] = chan[q]
  BY <1>1, <1>2, SentEffect
<1>4. ASSUME NEW o \in Operations PROVE Counted(o)'
  BY <1>1, <1>2, <1>3, FinishEffect, UiAssumption, SMT
     DEF Counted, ChangeOK, Counts, CanSend, Typed, Max
<1>5. ASSUME NEW o \in Operations PROVE Captured(o)'
  BY <1>1, <1>2, FinishEffect, SMT DEF Captured, ChangeOK
<1>6. ASSUME NEW o \in Operations PROVE Alone(o)' /\ Attended(o)'
  BY <1>1, <1>2, <1>3, FinishEffect, SMT DEF Alone, Attended, ChangeOK, Working, Counts
<1>7. ops' \in [Operations -> Change]
  BY <1>1, <1>2, FinishEffect, Zenon
<1>8. waiting' \in [Operations -> Nat]
  BY <1>1, <1>2, SMT DEF Typed
<1> QED
  BY <1>3, <1>4, <1>5, <1>6, <1>7, <1>8, Zenon DEF RunningOK, ChangeOK


(***************************************************************************)
(* So does ProgressStart: the only worker whose message can take the       *)
(* checklist away from an unraced change is its own.                       *)
(***************************************************************************)
LEMMA ProgressStartOK ==
  ASSUME IInv, NEW p \in Operations, ProgressStart(p)
  PROVE  RunningOK'
<1>1. Typed /\ \A o \in Operations : ChangeOK(o)
  BY DEF IInv
<1>2. /\ Taken(p, 1, p) /\ UNCHANGED ops
      /\ m' = [m EXCEPT !.progress = [op |-> p, pending |-> None], !.confirm = NoConfirm]
  BY DEF ProgressStart
<1>3. /\ chan' \in [Operations -> [sent : Nat, received : Nat]]
      /\ waiting' \in [Operations -> Nat] /\ waiting'[p] > 0
      /\ Counts(p, chan[p].sent, chan[p].received + 1)
      /\ \A q \in Operations \ {p} : chan'[q] = chan[q] /\ waiting'[q] >= waiting[q]
  BY <1>1, <1>2, TakenEffect
<1>4. chan[p].received = 0 /\ chan[p].sent > 0 /\ Working(p)
  <2>1. 1 \in 1..Max
    BY UiAssumption, SMT DEF Max
  <2> QED
    BY <1>1, <1>2, <2>1, Messenger, SMT DEF ChangeOK, Typed
<1>5. m'.progress.op = p /\ m'.progress.pending = None
  BY <1>1, <1>2, SMT DEF Typed, Model
<1>6. ASSUME NEW o \in Operations PROVE Counted(o)'
  BY <1>1, <1>2, <1>3, <1>4, UiAssumption, SMT DEF Counted, ChangeOK, Counts, Typed, Max, Working
<1>7. ASSUME NEW o \in Operations PROVE Captured(o)'
  BY <1>1, <1>2, <1>5, DomainsAreDomains, SMT DEF Captured, ChangeOK
<1>8. ASSUME NEW o \in Operations PROVE Alone(o)' /\ Attended(o)'
  <2>1. CASE o = p
    BY <1>1, <1>2, <1>3, <1>4, <1>5, <2>1, SMT DEF Alone, Attended, ChangeOK, Working, Counts
  <2>2. CASE o # p
    BY <1>1, <1>2, <1>4, <2>2, SMT DEF Alone, Attended, ChangeOK, Working
  <2> QED
    BY <2>1, <2>2
<1> QED
  BY <1>1, <1>2, <1>3, <1>6, <1>7, <1>8, SMT DEF RunningOK, ChangeOK, Typed

(***************************************************************************)
(* So does ProgressStep: the checklist of an unraced worker is its own, so *)
(* the next message it waits for is its own too.                           *)
(***************************************************************************)
LEMMA ProgressStepOK ==
  ASSUME IInv, NEW p \in Operations, ProgressStep(p)
  PROVE  RunningOK'
<1>1. Typed /\ \A o \in Operations : ChangeOK(o)
  BY DEF IInv
<1>2. PICK n \in 2..(Max - 1) : Taken(p, n, m.progress.op)
  BY DEF ProgressStep
<1>3. UNCHANGED <<m, ops>>
  BY DEF ProgressStep
<1>4. /\ chan' \in [Operations -> [sent : Nat, received : Nat]]
      /\ waiting' \in [Operations -> Nat]
      /\ m.progress.op = p => waiting'[p] > 0
      /\ Counts(p, chan[p].sent, chan[p].received + 1)
      /\ \A q \in Operations \ {p} : chan'[q] = chan[q] /\ waiting'[q] >= waiting[q]
  BY <1>1, <1>2, TakenEffect
<1>5. /\ chan[p].received > 0 /\ chan[p].received + 1 < Max
      /\ chan[p].received < chan[p].sent /\ Working(p)
  <2>1. n \in 1..Max
    BY UiAssumption, SMT DEF Max
  <2> QED
    BY <1>1, <1>2, <2>1, Messenger, UiAssumption, SMT DEF ChangeOK, Typed, Max
<1>6. ASSUME NEW o \in Operations PROVE Counted(o)'
  BY <1>1, <1>3, <1>4, <1>5, UiAssumption, SMT DEF Counted, ChangeOK, Counts, Typed, Max, Working
<1>7. ASSUME NEW o \in Operations PROVE Captured(o)' /\ Alone(o)'
  BY <1>1, <1>3, SMT DEF Captured, Alone, ChangeOK, Working
<1>8. ASSUME NEW o \in Operations PROVE Attended(o)'
  <2>1. CASE o = p
    BY <1>1, <1>3, <1>4, <1>5, <2>1, SMT DEF Attended, ChangeOK, Working, Counts, Typed
  <2>2. CASE o # p
    BY <1>1, <1>3, <1>4, <1>5, <2>2, SMT DEF Alone, Attended, ChangeOK, Working, Typed
  <2> QED
    BY <2>1, <2>2
<1> QED
  BY <1>1, <1>3, <1>4, <1>6, <1>7, <1>8, SMT DEF RunningOK, ChangeOK, Typed

(* So does Result: a failed change whose checklist is up stays on it.      *)
LEMMA ResultOK ==
  ASSUME IInv, NEW p \in Operations, Result(p)
  PROVE  RunningOK'
<1>1. Typed /\ \A o \in Operations : ChangeOK(o)
  BY DEF IInv
<1>2. Taken(p, Max, None)
  BY DEF Result
<1>3. /\ chan' \in [Operations -> [sent : Nat, received : Nat]]
      /\ waiting' \in [Operations -> Nat]
      /\ Counts(p, chan[p].sent, chan[p].received + 1)
      /\ \A q \in Operations \ {p} : chan'[q] = chan[q] /\ waiting'[q] >= waiting[q]
  BY <1>1, <1>2, TakenEffect
<1>4. /\ chan[p].received + 1 = Max /\ chan[p].sent = Max /\ chan[p].received > 0
      /\ ops[p].phase = "sent" /\ Working(p)
  <2>1. Max \in 1..Max
    BY UiAssumption, SMT DEF Max
  <2>2. chan[p].received + 1 = Max /\ ops[p].phase = "sent" /\ Working(p)
    BY <1>1, <1>2, <2>1, Messenger, SMT DEF ChangeOK
  <2> QED
    BY <1>1, <2>2, UiAssumption, SMT DEF ChangeOK, Counted, Typed, Max
<1>5. ~ops[p].raced => m.progress.op = p
  BY <1>1, <1>4, SMT DEF ChangeOK, Attended, Typed
<1>6. \A o \in Operations \ {p} : Working(o) => ops[o].raced
  BY <1>1, <1>4, SMT DEF ChangeOK, Alone
<1>7. \A o \in Operations \ {p} : ops[o].phase = "pending" => ops[o].raced
  BY <1>1, <1>4, SMT DEF ChangeOK, Alone
<1>8. CASE /\ ops[p].failed /\ m' = [m EXCEPT !.progress.pending = p, !.steady = @ \ {p}]
           /\ ops' = [ops EXCEPT ![p] = [@ EXCEPT !.phase = "pending", !.target = "none",
                                                   !.sub = None]]
  <2>1. m'.progress.pending = p
    BY <1>1, <1>8, SMT DEF Typed, Model
  <2>2. /\ ops' \in [Operations -> Change]
        /\ \A q \in Operations \ {p} : ops'[q] = ops[q]
        /\ ops'[p].phase = "pending"
        /\ ops'[p].failed = ops[p].failed /\ ops'[p].raced = ops[p].raced
    BY <1>1, <1>8, PendingEffect, Zenon
  <2>3. ASSUME NEW o \in Operations PROVE Counted(o)'
    BY <1>1, <1>3, <1>4, <2>2, UiAssumption, SMT DEF Counted, ChangeOK, Counts, Typed, Max
  <2>4. ASSUME NEW o \in Operations PROVE Captured(o)'
    BY <1>1, <1>8, <2>1, <2>2, SMT DEF Captured, ChangeOK
  <2>5. ASSUME NEW o \in Operations PROVE Alone(o)' /\ Attended(o)'
    BY <1>1, <1>4, <1>6, <1>7, <2>1, <2>2, SMT DEF Alone, Attended, ChangeOK, Working
  <2> QED
    BY <1>3, <2>2, <2>3, <2>4, <2>5, Zenon DEF RunningOK, ChangeOK
<1>9. CASE /\ ~(m.progress.op # None /\ ops[p].failed)
           /\ Handled(p, [m EXCEPT !.progress = NoProgress, !.steady = @ \ {p}])
  <2>1. ScreenOK(m, reads) /\ Answers(p)
    BY <1>1, <1>4, ScreenIsOK, AnswersIfSent, SMT DEF IInv, ChangeOK
  <2>8. Handled(p, [m EXCEPT !.progress = NoProgress, !.steady = m.steady \ {p}])
    BY <1>9
  <2>2. /\ m'.progress = NoProgress
        /\ ops' = [ops EXCEPT ![p] = [NoChange EXCEPT !.phase = "handled"]]
    <3>1. m.steady \ {p} \in SUBSET m.steady
      BY SMT
    <3> QED
      BY <2>1, <2>8, <3>1, HandledEffect, Zenon
  <2>3. m'.progress.pending = None
    BY <2>2, SMT DEF NoProgress
  <2>4. /\ ops' \in [Operations -> Change]
        /\ \A q \in Operations \ {p} : ops'[q] = ops[q]
        /\ ops'[p].phase = "handled"
    BY <1>1, <2>2, HandledChange, Zenon
  <2>5. ASSUME NEW o \in Operations PROVE Counted(o)'
    BY <1>1, <1>3, <1>4, <2>4, UiAssumption, SMT DEF Counted, ChangeOK, Counts, Typed, Max
  <2>6. ASSUME NEW o \in Operations PROVE Captured(o)'
    BY <1>1, <2>3, <2>4, DomainsAreDomains, SMT DEF Captured, ChangeOK
  <2>7. ASSUME NEW o \in Operations PROVE Alone(o)' /\ Attended(o)'
    BY <1>1, <1>4, <1>6, <1>7, <2>4, SMT DEF Alone, Attended, ChangeOK, Working
  <2> QED
    BY <1>3, <2>4, <2>5, <2>6, <2>7, Zenon DEF RunningOK, ChangeOK
<1> QED
  BY <1>8, <1>9, Zenon DEF Result

(* So does Dismiss.                                                        *)
LEMMA DismissOK ==
  ASSUME IInv, Dismiss
  PROVE  RunningOK'
<1> DEFINE p == m.progress.pending
<1>1. Typed /\ \A o \in Operations : ChangeOK(o)
  BY DEF IInv
<1>2. /\ p \in Operations /\ p # None /\ UNCHANGED <<chan, waiting>>
      /\ Handled(p, [m EXCEPT !.progress = NoProgress])
  BY <1>1, SMT DEF Dismiss, Typed, Model
<1>3. m.progress.pending = p
  OBVIOUS
<1> HIDE DEF p
<1>4. ops[p].phase = "pending"
  BY <1>1, <1>2, <1>3, SMT DEF ChangeOK, Captured
<1>5. ScreenOK(m, reads) /\ Answers(p)
  BY <1>1, <1>2, <1>4, ScreenIsOK, AnswersIfSent, SMT DEF IInv, ChangeOK
<1>12. Handled(p, [m EXCEPT !.progress = NoProgress, !.steady = m.steady])
  BY <1>1, <1>2, SameSteady DEF Typed
<1>6. /\ m'.progress = NoProgress
      /\ ops' = [ops EXCEPT ![p] = [NoChange EXCEPT !.phase = "handled"]]
  <2>1. m.steady \in SUBSET m.steady
    BY SMT
  <2> QED
    BY <1>2, <1>5, <1>12, <2>1, HandledEffect, Zenon
<1>7. m'.progress.pending = None
  BY <1>6, SMT DEF NoProgress
<1>8. /\ ops' \in [Operations -> Change]
      /\ \A q \in Operations \ {p} : ops'[q] = ops[q]
      /\ ops'[p].phase = "handled"
  BY <1>1, <1>2, <1>6, HandledChange, Zenon
<1>9. ASSUME NEW o \in Operations PROVE Counted(o)'
  BY <1>1, <1>2, <1>4, <1>8, SMT DEF Counted, ChangeOK
<1>10. ASSUME NEW o \in Operations PROVE Captured(o)'
  BY <1>1, <1>7, <1>8, DomainsAreDomains, SMT DEF Captured, ChangeOK
<1>11. ASSUME NEW o \in Operations PROVE Alone(o)' /\ Attended(o)'
  <2>1. Working(o) => ops[o].raced
    BY <1>1, <1>2, <1>3, SMT DEF ChangeOK, Attended
  <2>2. ops[o].phase = "pending" /\ ~ops[o].raced => o = p
    BY <1>1, <1>3, SMT DEF ChangeOK, Attended
  <2> QED
    BY <1>1, <1>2, <1>8, <2>1, <2>2, SMT DEF Alone, Attended, ChangeOK, Working
<1> QED
  BY <1>1, <1>2, <1>8, <1>9, <1>10, <1>11, SMT DEF RunningOK, ChangeOK, Typed


(* The steps together.                                                     *)
LEMMA RunningStep ==
  ASSUME IInv, [Next]_vars
  PROVE  RunningOK'
<1>t. m \in Model /\ ScreenOK(m, reads) /\ ReadsOK(reads, m.sub)
  BY ScreenIsOK DEF ScreenOK
<1>1. CASE MoveCursor
  <2>1. PICK s \in Subs : Cleared([m EXCEPT !.sub = s], reads)
    BY <1>1, Zenon DEF MoveCursor
  <2>2. m'.progress = m.progress
    BY <1>t, <2>1, SelectedEffect, Zenon
  <2> QED
    BY <1>1, <2>2, QuietOK DEF Quiet, MoveCursor
<1>2. CASE MoveSiteCursor
  <2>1. UNCHANGED running /\ m'.progress = m.progress
    BY <1>2, <1>t, SMT DEF MoveSiteCursor, running, Model
  <2> QED
    BY <2>1, QuietOK DEF Quiet
<1>3. CASE Open
  <2>1. UNCHANGED running /\ m'.progress = m.progress
    BY <1>3, <1>t, SMT DEF Open, running, Model
  <2> QED
    BY <2>1, QuietOK DEF Quiet
<1>4. CASE BackToPicker
  <2>1. UNCHANGED running /\ m'.progress = m.progress
    BY <1>4, <1>t, SMT DEF BackToPicker, running, Model
  <2> QED
    BY <2>1, QuietOK DEF Quiet
<1>5. CASE Refresh
  <2>1. UNCHANGED running /\ m'.progress = m.progress
    BY <1>5, <1>t, SMT DEF Refresh, running, Model
  <2> QED
    BY <2>1, QuietOK DEF Quiet
<1>6. CASE FilterKey
  <2>1. m'.progress = m.progress
    BY <1>6, ScreenIsOK, KeptEffect, Zenon DEF FilterKey
  <2>2. m'.progress = m.progress
    BY <2>1
  <2> QED
    BY <1>6, <2>2, QuietOK DEF Quiet, FilterKey
<1>7. CASE Ask
  <2>1. UNCHANGED running /\ m'.progress = m.progress
    BY <1>7, <1>t, SMT DEF Ask, Asked, running, Model
  <2> QED
    BY <2>1, QuietOK DEF Quiet
<1>8. CASE Cancel
  <2>1. UNCHANGED running /\ m'.progress = m.progress
    BY <1>8, <1>t, SMT DEF Cancel, running, Model
  <2> QED
    BY <2>1, QuietOK DEF Quiet
<1>9. CASE Dismiss
  BY <1>9, DismissOK
<1>10. ASSUME NEW p \in Operations, RunConfirmed(p) PROVE RunningOK'
  BY <1>10, RunOK
<1>11. ASSUME NEW p \in Operations, Report(p) PROVE RunningOK'
  BY <1>11, ReportOK
<1>12. ASSUME NEW p \in Operations, Apply(p) PROVE RunningOK'
  BY <1>12, ApplyOK
<1>13. ASSUME NEW p \in Operations, Finish(p) PROVE RunningOK'
  BY <1>13, FinishOK
<1>14. ASSUME NEW p \in Operations, ProgressStart(p) PROVE RunningOK'
  BY <1>14, ProgressStartOK
<1>15. ASSUME NEW p \in Operations, ProgressStep(p) PROVE RunningOK'
  BY <1>15, ProgressStepOK
<1>16. ASSUME NEW p \in Operations, Result(p) PROVE RunningOK'
  BY <1>16, ResultOK
<1>17. ASSUME NEW r \in reads, Loaded(r) PROVE RunningOK'
  <2>1. CASE m' = m
    BY <1>17, <2>1, QuietOK DEF Quiet, Loaded
  <2>2. CASE \E s \in Subs \union {None} : Cleared([m EXCEPT !.sub = s], reads \ {r})
    <3>2. ReadsOK(reads \ {r}, m.sub)
      BY <1>t, FewerOK
    <3>1. m'.progress = m.progress
      BY <1>t, <2>2, <3>2, SelectedEffect, Zenon
    <3> QED
      BY <1>17, <3>1, QuietOK DEF Quiet, Loaded
  <2>3. CASE \E d : m' = Listed(m, r.sub, d, r.moved)
    <3>1. m'.progress = m.progress
      BY <1>t, <2>3, SMT DEF Listed, Model
    <3> QED
      BY <1>17, <3>1, QuietOK DEF Quiet, Loaded
  <2> QED
    BY <1>17, <2>1, <2>2, <2>3, Zenon DEF Loaded, SubscriptionsLoaded, WebsitesLoaded
<1>18. CASE UNCHANGED vars
  BY <1>18, QuietOK, Zenon DEF Quiet, vars, running
<1> QED
  BY <1>1, <1>2, <1>3, <1>4, <1>5, <1>6, <1>7, <1>8, <1>9, <1>10, <1>11, <1>12, <1>13,
     <1>14, <1>15, <1>16, <1>17, <1>18
     DEF Next, Key, Work, Update

(***************************************************************************)
(* What was steady stays so while the selection stays, the deletion is     *)
(* under way and its subscription is the one it captured.                  *)
(***************************************************************************)
LEMMA SteadyKept ==
  ASSUME IInv, Remembers(m', m.steady),
         \A o \in m'.steady : Working(o)' /\ ops'[o].sub \in {ops[o].sub, None}
  PROVE  SteadyOK'
<1> QED
  BY SMT DEF IInv, SteadyOK, Remembers

(* Steps that leave the changes as they are.                               *)
LEMMA SteadyQuiet ==
  ASSUME IInv, Remembers(m', m.steady), UNCHANGED ops
  PROVE  SteadyOK'
<1>1. \A o \in m.steady : Working(o)
  BY DEF IInv, SteadyOK
<1>2. \A o \in m'.steady : Working(o)' /\ ops'[o].sub \in {ops[o].sub, None}
  BY <1>1, SMT DEF Remembers, Working
<1> QED
  BY <1>2, SteadyKept

(* Every step keeps what is steady in order.                               *)
LEMMA SteadyStep ==
  ASSUME IInv, [Next]_vars
  PROVE  SteadyOK'
<1>m. /\ Typed /\ ScreenOK(m, reads) /\ m \in Model /\ ReadsOK(reads, m.sub)
      /\ (m.progress.op = None => m.progress.pending = None)
      /\ \A o \in m.steady : Working(o) /\ (ops[o].sub # None => ops[o].sub = m.sub)
      /\ m.steady \subseteq Operations
  BY ScreenIsOK, SMT DEF ScreenOK, Together, IInv, SteadyOK, Model
<1>1. CASE MoveCursor
  <2>1. PICK s \in Subs : Cleared([m EXCEPT !.sub = s], reads)
    BY <1>1, Zenon DEF MoveCursor
  <2>2. Remembers(m', m.steady)
    BY <1>m, <2>1, SelectedEffect, Zenon
  <2> QED
    BY <1>1, <2>2, SteadyQuiet, Zenon DEF MoveCursor, running
<1>2. CASE MoveSiteCursor \/ Open \/ BackToPicker \/ Refresh \/ Ask \/ Cancel
  <2>1. m'.steady = m.steady /\ m'.sub = m.sub /\ UNCHANGED ops
    BY <1>2, <1>m, SMT DEF MoveSiteCursor, Open, BackToPicker, Refresh, Ask, Asked, Cancel,
                           running, Model
  <2> QED
    BY <2>1, SteadyQuiet, Zenon DEF Remembers
<1>6. CASE FilterKey
  <2>1. Remembers(m', m.steady)
    BY <1>6, <1>m, KeptEffect, Zenon DEF FilterKey
  <2> QED
    BY <1>6, <2>1, SteadyQuiet, Zenon DEF FilterKey, running
<1>9. CASE Dismiss
  <2> DEFINE p == m.progress.pending
  <2>1. p \in Operations
    BY <1>9, <1>m, SMT DEF Dismiss, Model
  <2>2. Captured(p)
    BY <2>1, Zenon DEF IInv, ChangeOK
  <2>3. ops[p].phase = "pending"
    BY <2>1, <2>2, SMT DEF Captured
  <2>4. Answers(p)
    BY <2>1, <2>2, <2>3, AnswersIfSent, Zenon DEF IInv
  <2>5. Handled(p, [m EXCEPT !.progress = NoProgress, !.steady = m.steady])
    BY <1>9, <1>m, SameSteady DEF Dismiss
  <2> HIDE DEF p
  <2>6. /\ Remembers(m', m.steady)
        /\ ops' = [ops EXCEPT ![p] = [NoChange EXCEPT !.phase = "handled"]]
    BY <1>m, <2>1, <2>4, <2>5, HandledEffect, Zenon
  <2>7. p \notin m'.steady
    BY <1>m, <2>3, <2>6, SMT DEF Working, Remembers
  <2>8. \A o \in m'.steady : Working(o)' /\ ops'[o].sub \in {ops[o].sub, None}
    BY <1>m, <2>1, <2>6, <2>7, HandledChange, SMT DEF Working, Remembers
  <2> QED
    BY <2>6, <2>8, SteadyKept
<1>10. ASSUME NEW p \in Operations, RunConfirmed(p) PROVE SteadyOK'
  <2> DEFINE fresh == IF m.confirm.kind = "deleteSite" THEN {p} ELSE {}
  <2>1. m' = [m EXCEPT !.confirm = NoConfirm, !.steady = m.steady \union fresh]
    BY <1>10, Zenon DEF RunConfirmed
  <2>2. m'.steady = m.steady \union fresh /\ m'.sub = m.sub
    BY <1>m, <2>1, SMT DEF Model
  <2>3. ops[p].phase = "idle"
    BY <1>10 DEF RunConfirmed
  <2>4. p \notin m.steady
    BY <1>m, <2>3, SMT DEF Working
  <2>5. ASSUME NEW o \in m.steady PROVE Working(o)' /\ ops'[o].sub = ops[o].sub
    BY <1>m, <1>10, <2>4, <2>5, RunEffect, SMT DEF Working
  <2>6. ASSUME NEW o \in fresh PROVE Working(o)' /\ ops'[o].sub = m.sub
    <3>1. o = p /\ m.confirm.kind = "deleteSite"
      BY <2>6, SMT
    <3> QED
      BY <1>m, <1>10, <3>1, RunEffect, SMT DEF Working
  <2> HIDE DEF fresh
  <2> QED
    BY <1>m, <2>2, <2>5, <2>6, SMT DEF SteadyOK
<1>11. ASSUME NEW p \in Operations, Report(p) \/ ProgressStep(p) PROVE SteadyOK'
  BY <1>11, SteadyQuiet, Zenon DEF Report, ProgressStep, Remembers
<1>12. ASSUME NEW p \in Operations, Apply(p) PROVE SteadyOK'
  <2>1. m' = m
    BY <1>12, SMT DEF Apply
  <2>2. \A o \in m'.steady : Working(o)' /\ ops'[o].sub \in {ops[o].sub, None}
    BY <1>m, <1>12, <2>1, ApplyEffect, SMT DEF Working, Others
  <2> QED
    BY <2>1, <2>2, SteadyKept, Zenon DEF Remembers
<1>13. ASSUME NEW p \in Operations, Finish(p) PROVE SteadyOK'
  <2>1. m' = m /\ ops' = [ops EXCEPT ![p].phase = "sent"]
    BY <1>13, Zenon DEF Finish
  <2>2. \A o \in m'.steady : Working(o)' /\ ops'[o].sub \in {ops[o].sub, None}
    BY <1>m, <2>1, FinishEffect, SMT DEF Working
  <2> QED
    BY <2>1, <2>2, SteadyKept, Zenon DEF Remembers
<1>14. ASSUME NEW p \in Operations, ProgressStart(p) PROVE SteadyOK'
  <2>1. m'.steady = m.steady /\ m'.sub = m.sub /\ UNCHANGED ops
    BY <1>14, <1>m, SMT DEF ProgressStart, Model
  <2> QED
    BY <2>1, SteadyQuiet, Zenon DEF Remembers
<1>16. ASSUME NEW p \in Operations, Result(p) PROVE SteadyOK'
  <2> DEFINE left == m.steady \ {p}
  <2>1. Taken(p, Max, None)
    BY <1>16 DEF Result
  <2>2. Max \in 1..Max
    BY UiAssumption, SMT DEF Max
  <2>3. ops[p].phase = "sent"
    BY <2>1, <2>2, Messenger, Zenon DEF IInv, ChangeOK
  <2>4. Answers(p)
    BY <2>3, AnswersIfSent, SMT DEF IInv, ChangeOK
  <2>5. left \in SUBSET m.steady
    BY SMT
  <2>6. \/ Handled(p, [m EXCEPT !.progress = NoProgress, !.steady = left])
        \/ /\ m' = [m EXCEPT !.progress.pending = p, !.steady = left]
           /\ ops' = [ops EXCEPT ![p] = [@ EXCEPT !.phase = "pending", !.target = "none",
                                                  !.sub = None]]
    BY <1>16, Zenon DEF Result
  <2>7. Remembers(m', left) /\ \A q \in Operations \ {p} : ops'[q] = ops[q]
    <3> HIDE DEF left
    <3>1. CASE Handled(p, [m EXCEPT !.progress = NoProgress, !.steady = left])
      <4>1. /\ Remembers(m', left)
            /\ ops' = [ops EXCEPT ![p] = [NoChange EXCEPT !.phase = "handled"]]
        BY <1>m, <2>4, <2>5, <3>1, HandledEffect, Zenon
      <4> QED
        BY <1>m, <4>1, HandledChange, Zenon
    <3>2. CASE /\ m' = [m EXCEPT !.progress.pending = p, !.steady = left]
               /\ ops' = [ops EXCEPT ![p] = [@ EXCEPT !.phase = "pending", !.target = "none",
                                                      !.sub = None]]
      <4>1. m'.steady = left /\ m'.sub = m.sub
        BY <1>m, <3>2, SMT DEF Model
      <4>2. \A q \in Operations \ {p} : ops'[q] = ops[q]
        BY <1>m, <3>2, PendingEffect, Zenon
      <4> QED
        BY <4>1, <4>2, Zenon DEF Remembers
    <3> QED
      BY <2>6, <3>1, <3>2
  <2>8. Remembers(m', m.steady) /\ p \notin m'.steady
    BY <2>7, SMT DEF Remembers
  <2>9. \A o \in m'.steady : Working(o)' /\ ops'[o].sub \in {ops[o].sub, None}
    BY <1>m, <2>7, <2>8, SMT DEF Working, Remembers
  <2> QED
    BY <2>8, <2>9, SteadyKept
<1>17. ASSUME NEW r \in reads, Loaded(r) PROVE SteadyOK'
  <2>1. UNCHANGED ops
    BY <1>17, Zenon DEF Loaded, running
  <2>2. CASE m' = m
    BY <2>1, <2>2, SteadyQuiet, Zenon DEF Remembers
  <2>3. CASE \E s \in Subs \union {None} : Cleared([m EXCEPT !.sub = s], reads \ {r})
    <3>1. ReadsOK(reads \ {r}, m.sub)
      BY <1>m, FewerOK
    <3>2. Remembers(m', m.steady)
      BY <1>m, <2>3, <3>1, SelectedEffect, Zenon
    <3> QED
      BY <2>1, <3>2, SteadyQuiet
  <2>4. CASE \E d : m' = Listed(m, r.sub, d, r.moved)
    <3>1. m'.steady = m.steady /\ m'.sub = m.sub
      BY <1>m, <2>4, SMT DEF Listed, Model
    <3> QED
      BY <2>1, <3>1, SteadyQuiet, Zenon DEF Remembers
  <2> QED
    BY <1>17, <2>2, <2>3, <2>4, Zenon DEF Loaded, SubscriptionsLoaded, WebsitesLoaded
<1>18. CASE UNCHANGED vars
  BY <1>18, SteadyQuiet, Zenon DEF vars, Remembers
<1> QED
  BY <1>1, <1>2, <1>6, <1>9, <1>10, <1>11, <1>12, <1>13, <1>14, <1>16, <1>17, <1>18
     DEF Next, Key, Work, Update

(* The three parts are the invariant.                                      *)
LEMMA Joined ==
  ScreenOK(m, reads) /\ RunningOK /\ SteadyOK => IInv
<1> QED
  BY SMT DEF IInv, Typed, OneRead, ReadsFollowSelection, ShownOK, ListFollowsSelection, ScreenOK,
             ReadsOK, One, Follows, Together, RunningOK

(* Every step keeps the invariant.                                         *)
LEMMA Inductive ==
  IInv /\ [Next]_vars => IInv'
<1>1. SUFFICES ASSUME IInv, [Next]_vars PROVE IInv'
  OBVIOUS
<1>2. ScreenOK(m', reads') /\ RunningOK' /\ SteadyOK'
  BY <1>1, ScreenStep, RunningStep, SteadyStep
<1>3. (ScreenOK(m, reads) /\ RunningOK /\ SteadyOK)' => IInv'
  BY Joined, PTL
<1> QED
  BY <1>2, <1>3

(* It holds at the start.                                                  *)
LEMMA Initial ==
  Init => IInv
<1>1. SUFFICES ASSUME Init PROVE ScreenOK(m, reads) /\ RunningOK /\ SteadyOK
  BY Joined
<1>2. m \in Model
  BY <1>1, Zenon DEF Init, Model, NoConfirm, NoProgress, Kinds
<1>3. /\ m.site = None /\ m.sub = None /\ m.list = None /\ m.steady = {}
      /\ m.progress.pending = None
  BY <1>1, SMT DEF Init, NoProgress
<1>4. Request("subs", None) \in Read /\ Request("subs", None).slot = "subs"
  BY SMT DEF Request, Read, Slots
<1>5. ReadsOK(reads, m.sub)
  BY <1>1, <1>4, SMT DEF Init, ReadsOK, One, Follows, Stale
<1>6. ScreenOK(m, reads)
  BY <1>2, <1>3, <1>5, SMT DEF ScreenOK, Together
<1>7. /\ ops \in [Operations -> Change]
      /\ \A o \in Operations : ops[o].phase = "idle"
  BY <1>1, NoChangeTyped, SMT DEF Init
<1>8. /\ chan \in [Operations -> [sent : Nat, received : Nat]]
      /\ waiting \in [Operations -> Nat]
      /\ \A o \in Operations : chan[o].sent = 0 /\ chan[o].received = 0
  BY <1>1, SMT DEF Init
<1>9. ASSUME NEW o \in Operations PROVE Counted(o)
  BY <1>7, <1>8, UiAssumption, SMT DEF Counted
<1>10. ASSUME NEW o \in Operations PROVE Captured(o) /\ Alone(o) /\ Attended(o)
  BY <1>3, <1>7, DomainsAreDomains, SMT DEF Captured, Alone, Attended, Working
<1>11. RunningOK
  BY <1>7, <1>8, <1>9, <1>10, Zenon DEF RunningOK, ChangeOK
<1>12. SteadyOK
  BY <1>3, Zenon DEF SteadyOK
<1> QED
  BY <1>6, <1>11, <1>12

(* The invariant, which the theorems below share.                          *)
THEOREM UiInvariant ==
  Spec => []IInv
<1> QED
  BY Initial, Inductive, PTL DEF Spec

(***************************************************************************)
(* Every reachable state is in its type: the domain under the cursor is of *)
(* the list shown, a slot has one current read at most (opSlot), a         *)
(* progress channel never holds more than its capacity, a failure is       *)
(* pending only under a checklist.                                         *)
(***************************************************************************)
THEOREM TypeCorrect ==
  Spec => []TypeOK
<1>1. IInv => TypeOK
  <2> SUFFICES ASSUME IInv PROVE TypeOK
    OBVIOUS
  <2>1. m.steady \subseteq InFlight
    BY SMT DEF IInv, Typed, Model, SteadyOK, Working, InFlight
  <2> QED
    BY <2>1, SMT DEF IInv, Typed, Model, ShownOK, OneRead, ChangeOK, Counted, TypeOK
<1> QED
  BY UiInvariant, <1>1, PTL

(***************************************************************************)
(* An answer that Update would take is for the subscription selected now,  *)
(* unless a filter or the list after an SSH change moved the selection     *)
(* under it (clearSelectionDetails, opSlot).                               *)
(***************************************************************************)
THEOREM AnswersFollowSelection ==
  Spec => []ReadsFollowSelection
<1>1. IInv => ReadsFollowSelection
  BY DEF IInv
<1> QED
  BY UiInvariant, <1>1, PTL

(***************************************************************************)
(* The domains listed are those of the subscription selected: the answer   *)
(* of a read, and the list a deletion brings with its result, unless the   *)
(* selection moved under the list or after the deletion was confirmed      *)
(* (websitesLoadedMsg, websiteDeletedMsg, subscriptionsLoadedMsg).         *)
(***************************************************************************)
THEOREM ListedIsSelected ==
  Spec => []ListFollowsSelection
<1>1. IInv => ListFollowsSelection
  BY DEF IInv, ShownOK
<1> QED
  BY UiInvariant, <1>1, PTL

(***************************************************************************)
(* A failed change stays pending on the screen until it is dismissed, for  *)
(* a change during which no other was confirmed (the progressResult        *)
(* handler).                                                               *)
(***************************************************************************)
THEOREM FailuresAreShown ==
  Spec => []FailureIsShown
<1>1. IInv => FailureIsShown
  BY SMT DEF IInv, ChangeOK, Attended, FailureIsShown
<1> QED
  BY UiInvariant, <1>1, PTL

(***************************************************************************)
(* While a worker is at work some goroutine waits for its next message     *)
(* (waitProgress), for a change during which no other was confirmed.       *)
(***************************************************************************)
THEOREM WorkersAreHeard ==
  Spec => []SomebodyListens
<1>1. IInv => SomebodyListens
  BY SMT DEF IInv, ChangeOK, Attended, Working, SomebodyListens
<1> QED
  BY UiInvariant, <1>1, PTL
=============================================================================
