---------------------------- MODULE PhpFpm_proofs ----------------------------
(***************************************************************************)
(* The invariants of module PhpFpm, for any versions and sites, any number *)
(* of requests and any sites to start from.                                *)
(***************************************************************************)
EXTENDS PhpFpm, TLAPS

StepNames == {"apply", "vhost", "insert", "drop", "deleteRow", "remove", "release", "record"}

(* The place of each step in the plans that have it, 0 in the others.      *)
Waits(r) == Kind(r) = "set" /\ waits[r]
Pos(r, s) ==
  CASE s = "apply" -> IF Kind(r) = "create" THEN 1 ELSE IF Kind(r) = "delete" THEN 0
                      ELSE IF waits[r] THEN 3 ELSE 1
    [] s = "vhost" -> IF Kind(r) = "create" THEN 2 ELSE IF Kind(r) = "delete" THEN 1
                      ELSE IF waits[r] THEN 4 ELSE 2
    [] s = "insert" -> IF Kind(r) = "create" THEN 3 ELSE 0
    [] s = "drop" -> IF Kind(r) = "delete" THEN 2 ELSE 0
    [] s = "deleteRow" -> IF Kind(r) = "delete" THEN 3 ELSE 0
    [] s = "remove" -> IF Waits(r) THEN 1 ELSE 0
    [] s = "release" -> IF Waits(r) THEN 2 ELSE 0
    [] s = "record" -> IF Kind(r) = "set" THEN IF waits[r] THEN 5 ELSE 3 ELSE 0

Last(r) == IF Waits(r) THEN 5 ELSE 3

(* The steps that have been done, and not been undone.                     *)
Running(r) == pc[r] \in {"do", "undo"}
Height(r) == IF pc[r] = "do" THEN at[r] - 1 ELSE at[r]
Stands(r, s) == 0 < Pos(r, s) /\ Pos(r, s) <= Height(r)

(* The new pool is installed, or is about to be verified.                  *)
Applied(r) == Stands(r, "apply") \/ r \in verifying

Placed(r) ==
  /\ lock = r <=> Running(r)
  /\ pc[r] \in {"new", "ready"} => at[r] = 1 /\ ~dirty[r]
  /\ pc[r] = "do" => at[r] \in 1..Last(r) + 1 /\ ~dirty[r]
  /\ pc[r] = "undo" => at[r] \in 0..Last(r)
Verified(r) == r \in verifying => pc[r] = "do" /\ at[r] = Pos(r, "apply")

(* What the checks of a preparation have established.                      *)
Read(r) ==
  /\ pc[r] \in {"ready", "do", "undo"} /\ Kind(r) # "create" => snap[r] \in Row
  /\ pc[r] \in {"ready", "do", "undo"} /\ Kind(r) = "set" => snap[r].version # want[r].version

Typed == TypeOK /\ \A r \in Requests : Placed(r) /\ Verified(r) /\ Read(r)

(***************************************************************************)
(* The files: a site has the pool its row asks for, except the one of the  *)
(* plan that runs, which has what the steps so far have made of it.        *)
(***************************************************************************)
Recorded(s) == IF row[s] = NoRow THEN {} ELSE {row[s].version}

Files(r) ==
  LET s == Site(r) IN
  /\ Kind(r) = "create" =>
       IF Stands(r, "insert")
       THEN row[s] # NoRow /\ row[s].version = Default /\ PoolsOf(s) = {Default} /\ ~had[r]
       ELSE IF Applied(r)
       THEN PoolsOf(s) = Recorded(s) \cup {Default} /\ (had[r] <=> Default \in Recorded(s))
       ELSE PoolsOf(s) = Recorded(s)
  /\ Kind(r) = "delete" =>
       /\ PoolsOf(s) = IF Stands(r, "drop") THEN {} ELSE Recorded(s)
       /\ Stands(r, "deleteRow") => row[s] = NoRow
  /\ Kind(r) = "set" =>
       IF Stands(r, "remove")
       THEN /\ row[s] # NoRow /\ row[s].version = IF Stands(r, "record") THEN New(r) ELSE Old(r)
            /\ PoolsOf(s) = IF Applied(r) THEN {New(r)} ELSE {}
            /\ Applied(r) => ~had[r]
       ELSE PoolsOf(s) = Recorded(s)

Idle(s) == \A r \in Requests : lock = r => Site(r) # s
FilesOK ==
  /\ \A s \in Sites : Idle(s) => PoolsOf(s) = Recorded(s)
  /\ \A r \in Requests : lock = r /\ ~dirty[r] => Files(r)

FilesInv == Typed /\ (Undamaged => FilesOK)

(***************************************************************************)
(* The masters, until something is undone.                                 *)
(***************************************************************************)
Calm == Undamaged /\ undone = {} /\ contested = {}

OnePool == \A s \in Sites : \A u, v \in PoolsOf(s) : u = v
MastersRun == \A v \in Versions \ up : pool[v] = {} /\ v \notin Spare
PoolsAreServed == \A v \in up \ reloading : pool[v] \subseteq listens[v]
SocketsAreFree == \A v \in Versions : \A u \in Versions \ {v} : pool[v] \cap listens[u] = {}

(* A rollback that is about to move a pool back, or to end inconsistent.   *)
Backing(r) ==
  /\ pc[r] = "undo"
  /\ \/ Kind(r) = "set" /\ at[r] > 0
     \/ Kind(r) = "delete" /\ (at[r] = 2 \/ dirty[r])

(* A socket without its pool goes with the next reload, or is what failed  *)
(* creations and such rollbacks leave.                                     *)
Leftover(s, v) ==
  \/ v \in reloading
  \/ v = Default /\ row[s] = NoRow
  \/ \E r \in Requests : Backing(r) /\ Site(r) = s
NoLeftovers == \A v \in Versions : \A s \in listens[v] \ pool[v] : Leftover(s, v)

(* Nobody listens where a switch is about to install a pool.               *)
SocketIsFree(r) ==
  pc[r] = "do" /\ ~Applied(r) /\ Kind(r) = "set" /\ Stands(r, "release") =>
    \A v \in Versions : Site(r) \notin listens[v]

SocketsOK ==
  /\ OnePool /\ MastersRun /\ PoolsAreServed /\ SocketsAreFree /\ NoLeftovers
  /\ \A r \in Requests : SocketIsFree(r)

SocketInv == FilesInv /\ (Calm => SocketsOK)

-----------------------------------------------------------------------------
(* What a request asks for, by its kind.                                   *)
LEMMA Wanted ==
  ASSUME TypeOK, NEW r \in Requests
  PROVE  /\ Kind(r) \in {"create", "delete", "set"} /\ Site(r) \in Sites /\ New(r) \in Versions
         /\ Kind(r) = "set" => New(r) = want[r].version
         /\ Kind(r) # "set" => New(r) = Default
<1>1. want[r] \in Request
  BY SMT DEF TypeOK
<1>2. CASE want[r] \in [kind : {"create", "delete"}, site : Sites]
  BY <1>2, PhpFpmAssumption, SMT DEF Kind, Site, New
<1>3. CASE want[r] \in [kind : {"set"}, site : Sites, version : Versions]
  BY <1>3, SMT DEF Kind, Site, New
<1> QED
  BY <1>1, <1>2, <1>3, Zenon DEF Request

(* A plan of two steps and three more.                                     *)
LEMMA Joined ==
  ASSUME NEW s, NEW a, NEW b, NEW c, NEW d, NEW e, s = <<a, b>> \o <<c, d, e>>
  PROVE  Len(s) = 5 /\ s[1] = a /\ s[2] = b /\ s[3] = c /\ s[4] = d /\ s[5] = e
<1> QED
  BY SMT

(***************************************************************************)
(* Where each step of a plan stands: Pos is the inverse of Steps, for each *)
(* kind of request.                                                        *)
(***************************************************************************)
LEMMA StepPlaces ==
  ASSUME TypeOK, NEW r \in Requests
  PROVE  /\ Len(Steps(r)) = Last(r) /\ Last(r) \in 1..5
         /\ \A k \in 1..Last(r) : Steps(r)[k] \in StepNames /\ Pos(r, Steps(r)[k]) = k
         /\ \A s \in StepNames : Pos(r, s) \in 0..Last(r)
<1> USE DEF StepNames, Pos, Last, Waits
<1>1. CASE Kind(r) = "create"
  <2>1. Steps(r) = <<"apply", "vhost", "insert">>
    BY <1>1, Zenon DEF Steps
  <2> QED
    BY <1>1, <2>1, SMT
<1>2. CASE Kind(r) = "delete"
  <2>1. Steps(r) = <<"vhost", "drop", "deleteRow">>
    BY <1>2, Zenon DEF Steps
  <2> QED
    BY <1>2, <2>1, SMT
<1>3. CASE Kind(r) = "set" /\ waits[r]
  <2>1. Steps(r) = <<"remove", "release">> \o <<"apply", "vhost", "record">>
    BY <1>3, Zenon DEF Steps
  <2>2. /\ Len(Steps(r)) = 5 /\ Steps(r)[1] = "remove" /\ Steps(r)[2] = "release" /\ Steps(r)[3] = "apply"
        /\ Steps(r)[4] = "vhost" /\ Steps(r)[5] = "record"
    BY <2>1, Joined, SMT
  <2> QED
    BY <1>3, <2>2, SMT
<1>4. CASE Kind(r) = "set" /\ ~waits[r]
  <2>1. Steps(r) = <<>> \o <<"apply", "vhost", "record">>
    BY <1>4, Zenon DEF Steps
  <2>2. Steps(r) = <<"apply", "vhost", "record">>
    BY <2>1, SMT
  <2> QED
    BY <1>4, <2>2, SMT
<1> QED
  BY <1>1, <1>2, <1>3, <1>4, Wanted, Zenon

(* Two steps of a plan do not share a place.                               *)
LEMMA Apart ==
  ASSUME NEW r, NEW s \in StepNames, NEW t \in StepNames, Pos(r, s) > 0, Pos(r, s) = Pos(r, t)
  PROVE  s = t
<1> QED
  BY SMT DEF StepNames, Pos, Waits

(* What fixes the plan of a request.                                       *)
LEMMA SamePlan ==
  ASSUME want' = want, NEW r, waits'[r] = waits[r]
  PROVE  /\ Kind(r)' = Kind(r) /\ Last(r)' = Last(r) /\ Steps(r)' = Steps(r)
         /\ \A s : Pos(r, s)' = Pos(r, s)
<1>1. Kind(r)' = Kind(r)
  BY DEF Kind
<1>2. Waits(r)' = Waits(r)
  BY <1>1, Zenon DEF Waits
<1> QED
  BY <1>1, <1>2, Zenon DEF Last, Steps, Pos

LEMMA SameTask ==
  ASSUME want' = want
  PROVE  \A r : Kind(r)' = Kind(r) /\ Site(r)' = Site(r) /\ New(r)' = New(r)
<1> QED
  BY Zenon DEF Kind, Site, New

(***************************************************************************)
(* The control of a plan: the moves of module PlanControl stay within the  *)
(* plan, with the lock, and leave the other requests where they are.       *)
(***************************************************************************)
Moves(r) ==
  \/ Prepared(r) \/ Refused(r) \/ Started(r) \/ Advanced(r, Len(Steps(r))) \/ Failed(r)
  \/ Undid(r) \/ DidNotUndo(r) \/ Ended(r, Len(Steps(r)))
OthersStay(r) ==
  \A q \in Requests \ {r} :
    pc'[q] = pc[q] /\ at'[q] = at[q] /\ dirty'[q] = dirty[q] /\ (Running(q)' <=> Running(q))

LEMMA ControlMoves ==
  ASSUME Typed, NEW r \in Requests, want' = want, Moves(r),
         \A q \in Requests : waits'[q] = waits[q] \/ (q = r /\ Prepared(r))
  PROVE  ControlTyped(6)' /\ OthersStay(r) /\ \A q \in Requests : Placed(q)'
<1>1. /\ lock \in Requests \cup {NoRequest} /\ pc \in [Requests -> PCs]
      /\ at \in [Requests -> 0..6] /\ dirty \in [Requests -> BOOLEAN]
      /\ \A q \in Requests : Placed(q) /\ Last(q) \in 1..5 /\ Len(Steps(q)) = Last(q)
      /\ NoRequest \notin Requests
  BY StepPlaces, RequestsAssumption, Zenon DEF Typed, TypeOK, ControlTyped
<1>2. /\ pc' = [pc EXCEPT ![r] = pc'[r]] /\ at' = [at EXCEPT ![r] = at'[r]]
      /\ dirty' = [dirty EXCEPT ![r] = dirty'[r]]
      /\ pc'[r] \in PCs /\ at'[r] \in 0..6 /\ dirty'[r] \in BOOLEAN
      /\ Placed(r)' /\ lock' \in {lock, r, NoRequest} /\ (lock' = r => lock \in {r, NoRequest})
      /\ (lock' = NoRequest => lock \in {r, NoRequest})
  <2> USE <1>1 DEF Placed, Running, Goto
  <2>1. CASE Prepared(r)
    BY <2>1, SMT DEF Prepared, PCs, Verdicts
  <2> SUFFICES ASSUME ~Prepared(r), Last(r)' = Last(r) PROVE <1>2!:
    BY <2>1, SamePlan, Zenon
  <2>2. CASE Refused(r)
    BY <2>2, SMT DEF Refused, PCs, Verdicts
  <2>3. CASE Started(r)
    BY <2>3, SMT DEF Started, PCs, Verdicts
  <2>4. CASE Advanced(r, Len(Steps(r)))
    BY <2>4, SMT DEF Advanced, PCs, Verdicts
  <2>5. CASE Failed(r)
    BY <2>5, SMT DEF Failed, PCs, Verdicts
  <2>6. CASE Undid(r)
    BY <2>6, SMT DEF Undid, PCs, Verdicts
  <2>7. CASE DidNotUndo(r)
    BY <2>7, SMT DEF DidNotUndo, PCs, Verdicts
  <2>8. CASE Ended(r, Len(Steps(r)))
    BY <2>8, SMT DEF Ended, Verdict, PCs, Verdicts
  <2> QED
    BY <2>2, <2>3, <2>4, <2>5, <2>6, <2>7, <2>8, Zenon DEF Moves
<1>3. ControlTyped(6)'
  <2>1. pc' \in [Requests -> PCs] /\ at' \in [Requests -> 0..6] /\ dirty' \in [Requests -> BOOLEAN]
    BY <1>1, <1>2, Zenon
  <2>2. lock' \in Requests \cup {NoRequest}
    BY <1>1, <1>2, SMT
  <2> QED
    BY <2>1, <2>2, Zenon DEF ControlTyped
<1>4. OthersStay(r)
  BY <1>1, <1>2, SMT DEF OthersStay, Running
<1>5. ASSUME NEW q \in Requests \ {r} PROVE Placed(q)'
  <2>1. lock' = q <=> lock = q
    BY <1>1, <1>2, SMT
  <2>2. Last(q)' = Last(q)
    BY SamePlan, Zenon
  <2> QED
    BY <1>1, <1>4, <2>1, <2>2, SMT DEF OthersStay, Placed
<1> QED
  BY <1>2, <1>3, <1>4, <1>5

-----------------------------------------------------------------------------
(* The types without the control.                                          *)
ServersTyped ==
  /\ pool \in [Versions -> SUBSET Sites] /\ listens \in [Versions -> SUBSET Sites]
  /\ up \subseteq Versions /\ reloading \subseteq up /\ left \subseteq Sites
  /\ \A v \in Versions \ up : listens[v] = {}
  /\ \A v, u \in Versions : v # u => listens[v] \cap listens[u] = {}
RowsTyped == row \in [Sites -> Row \cup {NoRow}] /\ nextId \in Nat
PlansTyped ==
  /\ snap \in [Requests -> Row \cup {NoRow}]
  /\ waits \in [Requests -> BOOLEAN] /\ had \in [Requests -> BOOLEAN]
  /\ contested \subseteq Requests /\ torn \subseteq Requests /\ undone \subseteq Requests

LEMMA Types ==
  TypeOK <=> /\ ControlTyped(6) /\ RowsTyped /\ ServersTyped /\ PlansTyped
             /\ want \in [Requests -> Request] /\ verifying \subseteq {r \in Requests : pc[r] = "do"}
<1> QED
  BY Zenon DEF TypeOK, RowsTyped, ServersTyped, PlansTyped

(* The step a plan is at.                                                  *)
LEMMA StepIs ==
  ASSUME Typed, NEW r \in Requests, Running(r), at[r] > 0, at[r] <= Len(Steps(r))
  PROVE  /\ Step(r) \in StepNames /\ Pos(r, Step(r)) = at[r]
         /\ \A s \in StepNames : Pos(r, s) = at[r] => Step(r) = s
         /\ Step(r) = "insert" => Kind(r) = "create"
         /\ Step(r) \in {"drop", "deleteRow"} => Kind(r) = "delete"
         /\ Step(r) = "record" => Kind(r) = "set"
         /\ Step(r) \in {"remove", "release"} => Waits(r) /\ Kind(r) = "set"
         /\ Step(r) = "apply" => Kind(r) \in {"create", "set"}
<1>1. at[r] \in 1..Last(r)
  <2>1. at[r] \in 0..6 /\ Len(Steps(r)) = Last(r)
    BY StepPlaces, Zenon DEF Typed, TypeOK, ControlTyped
  <2> QED
    BY <2>1, SMT
<1>2. Step(r) \in StepNames /\ Pos(r, Step(r)) = at[r]
  BY <1>1, StepPlaces, Zenon DEF Step, Typed
<1>3. Kind(r) \in {"create", "delete", "set"}
  BY Wanted, Zenon DEF Typed
<1>4. \A s \in StepNames : Pos(r, s) = at[r] => Step(r) = s
  BY <1>1, <1>2, Apart, SMT
<1> QED
  BY <1>1, <1>2, <1>3, <1>4, SMT DEF StepNames, Pos, Waits

LEMMA OldVersion ==
  ASSUME Typed, NEW r \in Requests, pc[r] \in {"ready", "do", "undo"}, Kind(r) # "create"
  PROVE  snap[r] \in Row /\ Old(r) \in Versions
<1>1. snap[r] \in Row
  BY Zenon DEF Typed, Read
<1> QED
  BY <1>1, SMT DEF Row, Old

(* One pool is written or removed.                                         *)
LEMMA PoolWritten ==
  ASSUME pool \in [Versions -> SUBSET Sites], NEW v \in Versions, NEW s \in Sites
  PROVE  With(v, s) \in [Versions -> SUBSET Sites] /\ Without(v, s) \in [Versions -> SUBSET Sites]
<1> QED
  BY SMT DEF With, Without

(* A master is signalled, or not.                                          *)
LEMMA SignalTyped ==
  ASSUME ServersTyped, NEW v \in Versions, pool' \in [Versions -> SUBSET Sites],
         Reloaded(v) \/ PerhapsReloaded(v)
  PROVE  ServersTyped'
<1>1. up' = up /\ listens' = listens /\ left' = left /\ reloading' \subseteq reloading \cup ({v} \cap up')
  BY SMT DEF Reloaded, PerhapsReloaded
<1> QED
  BY <1>1, SMT DEF ServersTyped

LEMMA RereadTyped ==
  ASSUME Typed, NEW v \in Versions, Reread(v)
  PROVE  ServersTyped'
<1> DEFINE taken == \E u \in Versions \ {v} : pool[v] \cap listens[u] # {}
<1>1. ServersTyped /\ v \in reloading
  BY Types, Zenon DEF Typed, Reread
<1>2. CASE taken \/ ~ConfigTest(v, pool[v])
  <2>1. /\ reloading' = reloading \ {v} /\ up' = up \ {v} /\ pool' = pool
        /\ listens' = [listens EXCEPT ![v] = {}] /\ left' = left \cup listens[v]
    BY <1>2, Zenon DEF Reread
  <2> QED
    BY <1>1, <2>1, SMT DEF ServersTyped
<1>3. CASE ~taken /\ ConfigTest(v, pool[v])
  <2>1. /\ reloading' = reloading \ {v} /\ up' = up /\ pool' = pool
        /\ listens' = [listens EXCEPT ![v] = pool[v]] /\ left' = left \ pool[v]
    BY <1>3, Zenon DEF Reread
  <2> QED
    BY <1>1, <1>3, <2>1, SMT DEF ServersTyped
<1> QED
  BY <1>2, <1>3

(***************************************************************************)
(* The rest of Typed goes with the control: a plan that waits for its      *)
(* socket is at the step that installs the pool, and what a preparation    *)
(* has read stays.                                                         *)
(***************************************************************************)
LEMMA NotVerifying ==
  ASSUME Typed, NEW r \in Requests, pc[r] # "do" \/ at[r] # Pos(r, "apply")
  PROVE  r \notin verifying
<1> QED
  BY Zenon DEF Typed, Verified

LEMMA NotThere ==
  ASSUME Typed, NEW r \in Requests, Running(r), at[r] > 0, at[r] <= Len(Steps(r)), Step(r) # "apply"
  PROVE  r \notin verifying
<1> QED
  BY StepIs, NotVerifying, Zenon DEF StepNames

LEMMA Kept ==
  ASSUME Typed, NEW r \in Requests, want' = want, Moves(r), waits' = waits,
         verifying' \subseteq verifying \ {r},
         \A q \in Requests : snap'[q] = snap[q] \/ pc'[q] \notin {"ready", "do", "undo"},
         pc'[r] \in {"ready", "do", "undo"} => pc[r] \in {"ready", "do", "undo"},
         RowsTyped', ServersTyped', PlansTyped'
  PROVE  Typed'
<1>1. ControlTyped(6)' /\ OthersStay(r) /\ \A q \in Requests : Placed(q)'
  BY ControlMoves, Zenon
<1>2. ASSUME NEW q \in Requests PROVE Verified(q)'
  <2>1. CASE q = r
    BY <2>1, Zenon DEF Verified
  <2>2. CASE q # r
    <3>1. pc'[q] = pc[q] /\ at'[q] = at[q] /\ Pos(q, "apply")' = Pos(q, "apply") /\ Verified(q)
      BY <1>1, <2>2, SamePlan, Zenon DEF OthersStay, Typed
    <3> QED
      BY <3>1, Zenon DEF Verified
  <2> QED
    BY <2>1, <2>2
<1>3. ASSUME NEW q \in Requests PROVE Read(q)'
  <2>1. pc'[q] \in {"ready", "do", "undo"} => pc[q] \in {"ready", "do", "undo"}
    BY <1>1, Zenon DEF OthersStay
  <2>2. Read(q) /\ Kind(q)' = Kind(q)
    BY SameTask, Zenon DEF Typed
  <2> QED
    BY <2>1, <2>2, Zenon DEF Read
<1>4. TypeOK'
  <2>1. want' \in [Requests -> Request] /\ verifying \subseteq Requests
    BY Zenon DEF Typed, TypeOK
  <2>2. verifying' \subseteq {q \in Requests : pc'[q] = "do"}
    BY <1>2, <2>1, Zenon DEF Verified
  <2> QED
    BY <1>1, <2>1, <2>2, Zenon DEF TypeOK, RowsTyped, ServersTyped, PlansTyped
<1> QED
  BY <1>1, <1>2, <1>3, <1>4, Zenon DEF Typed

-----------------------------------------------------------------------------
(* Every operation keeps the types.                                        *)
LEMMA PrepareTyped ==
  ASSUME Typed, NEW r \in Requests, Prepare(r)
  PROVE  Typed'
<1>1. /\ want' = want /\ Prepared(r) /\ Moves(r) /\ verifying' = verifying
      /\ UNCHANGED <<row, nextId, servers, had, contested, torn, undone>>
      /\ snap' = [snap EXCEPT ![r] = row[Site(r)]]
      /\ waits' = [waits EXCEPT ![r] = row[Site(r)] # NoRow /\ Site(r) \in pool[row[Site(r)].version]]
      /\ IF Kind(r) = "create" THEN row[Site(r)] = NoRow ELSE row[Site(r)] # NoRow
      /\ Kind(r) = "set" => row[Site(r)].version # want[r].version
  BY Zenon DEF Prepare, Moves
<1>2. /\ RowsTyped /\ ServersTyped /\ PlansTyped /\ want \in [Requests -> Request]
      /\ Site(r) \in Sites /\ verifying \subseteq Requests
  BY Types, Wanted, Zenon DEF Typed
<1>3. \A q \in Requests \ {r} : waits'[q] = waits[q] /\ snap'[q] = snap[q]
  BY <1>1, <1>2, Zenon DEF PlansTyped
<1>4. ControlTyped(6)' /\ OthersStay(r) /\ \A q \in Requests : Placed(q)'
  BY <1>1, <1>3, ControlMoves, Zenon
<1>5. pc[r] = "new" /\ pc'[r] = "ready" /\ r \notin verifying
  <2>1. pc[r] = "new" /\ pc'[r] = "ready"
    BY <1>1, SMT DEF Prepared, Goto, Typed, TypeOK, ControlTyped
  <2> QED
    BY <2>1, NotVerifying
<1>6. snap'[r] = row[Site(r)] /\ row[Site(r)] \in Row \cup {NoRow}
  BY <1>1, <1>2, Zenon DEF PlansTyped, RowsTyped
<1>7. ASSUME NEW q \in Requests PROVE Verified(q)'
  <2>1. CASE q = r
    BY <1>1, <1>5, <2>1, Zenon DEF Verified
  <2>2. CASE q # r
    <3>1. pc'[q] = pc[q] /\ at'[q] = at[q] /\ Pos(q, "apply")' = Pos(q, "apply") /\ Verified(q)
      BY <1>1, <1>3, <1>4, <2>2, SamePlan, Zenon DEF OthersStay, Typed
    <3> QED
      BY <1>1, <3>1, Zenon DEF Verified
  <2> QED
    BY <2>1, <2>2
<1>8. ASSUME NEW q \in Requests PROVE Read(q)'
  <2>1. Kind(q)' = Kind(q) /\ want' = want
    BY <1>1, SameTask, Zenon
  <2>2. CASE q = r
    BY <1>1, <1>6, <2>1, <2>2, Zenon DEF Read
  <2>3. CASE q # r
    <3>1. pc'[q] = pc[q] /\ snap'[q] = snap[q] /\ Read(q)
      BY <1>3, <1>4, <2>3, Zenon DEF OthersStay, Typed
    <3> QED
      BY <2>1, <3>1, Zenon DEF Read
  <2> QED
    BY <2>2, <2>3
<1>9. RowsTyped' /\ ServersTyped'
  BY <1>1, <1>2, Zenon DEF RowsTyped, ServersTyped, servers
<1>10. PlansTyped'
  BY <1>1, <1>2, <1>6, Zenon DEF PlansTyped
<1>11. verifying' \subseteq {q \in Requests : pc'[q] = "do"}
  BY <1>1, <1>2, <1>7, Zenon DEF Verified
<1>12. TypeOK'
  BY <1>1, <1>2, <1>4, <1>9, <1>10, <1>11, Zenon DEF TypeOK, RowsTyped, ServersTyped, PlansTyped
<1> QED
  BY <1>4, <1>7, <1>8, <1>12, Zenon DEF Typed

(* A move that leaves data alone, by a plan that does not wait.            *)
LEMMA DataStays ==
  ASSUME Typed, NEW r \in Requests, Moves(r), UNCHANGED data, r \notin verifying,
         pc'[r] \in {"ready", "do", "undo"} => pc[r] \in {"ready", "do", "undo"}
  PROVE  Typed'
<1>1. /\ want' = want /\ waits' = waits /\ verifying' = verifying /\ snap' = snap
      /\ UNCHANGED <<row, nextId, had, contested, torn, undone, pool, up, listens, left, reloading>>
  BY Zenon DEF data, servers
<1>2. RowsTyped /\ ServersTyped /\ PlansTyped /\ verifying \subseteq Requests
  BY Types, Zenon DEF Typed
<1>3. RowsTyped' /\ ServersTyped' /\ PlansTyped'
  BY <1>1, <1>2, Zenon DEF RowsTyped, ServersTyped, PlansTyped
<1> QED
  BY <1>1, <1>3, Kept, SMT

LEMMA IdleTyped ==
  ASSUME Typed, NEW r \in Requests, Refuse(r) \/ Start(r)
  PROVE  Typed'
<1>1. pc[r] \in {"new", "ready"} /\ Moves(r) /\ UNCHANGED data
  BY SMT DEF Refuse, Start, Refused, Started, Moves
<1>2. pc'[r] \in {"ready", "do", "undo"} => pc[r] = "ready"
  BY SMT DEF Refuse, Start, Refused, Started, Goto, Typed, TypeOK, ControlTyped
<1>3. r \notin verifying
  BY <1>1, NotVerifying, Zenon
<1> QED
  BY <1>1, <1>2, <1>3, DataStays, Zenon

LEMMA ApplyPoolTyped ==
  ASSUME Typed, NEW r \in Requests, ApplyPool(r)
  PROVE  Typed'
<1>1. /\ UNCHANGED control /\ want' = want /\ waits' = waits /\ snap' = snap /\ UNCHANGED <<row, nextId, torn, undone>>
      /\ pc[r] = "do" /\ at[r] <= Len(Steps(r)) /\ Step(r) = "apply"
      /\ had' = [had EXCEPT ![r] = Site(r) \in pool[New(r)]]
      /\ pool' = With(New(r), Site(r)) /\ Reloaded(New(r))
      /\ verifying' = verifying \cup {r} /\ contested' \in {contested, contested \cup {r}}
  BY SMT DEF ApplyPool
<1>2. /\ RowsTyped /\ ServersTyped /\ PlansTyped /\ ControlTyped(6) /\ want \in [Requests -> Request]
      /\ Site(r) \in Sites /\ New(r) \in Versions /\ verifying \subseteq Requests /\ at[r] \in 0..6
  BY Types, Wanted, Zenon DEF Typed, ControlTyped
<1>3. at[r] = Pos(r, "apply")
  <2>1. at[r] > 0
    BY <1>1, <1>2, SMT DEF Typed, Placed
  <2> QED
    BY <1>1, <2>1, StepIs, Zenon DEF Running
<1>4. ServersTyped'
  BY <1>1, <1>2, PoolWritten, SignalTyped, Zenon DEF ServersTyped
<1>5. RowsTyped' /\ PlansTyped'
  BY <1>1, <1>2, SMT DEF RowsTyped, PlansTyped
<1>6. \A q \in Requests : Placed(q)' /\ Read(q)' /\ Pos(q, "apply")' = Pos(q, "apply") /\ Verified(q)
  <2>1. \A q \in Requests : Placed(q) /\ Read(q) /\ Verified(q)
    BY Zenon DEF Typed
  <2>2. \A q \in Requests : Last(q)' = Last(q) /\ Kind(q)' = Kind(q) /\ Pos(q, "apply")' = Pos(q, "apply")
    BY <1>1, SamePlan, Zenon
  <2> QED
    BY <1>1, <2>1, <2>2, Zenon DEF Placed, Read, Running, control
<1>7. ControlTyped(6)' /\ pc' = pc /\ at' = at
  BY <1>1, <1>2, Zenon DEF ControlTyped, control
<1>8. \A q \in Requests : Verified(q)'
  BY <1>1, <1>3, <1>6, <1>7, SMT DEF Verified
<1>9. verifying' \subseteq {q \in Requests : pc'[q] = "do"}
  BY <1>1, <1>2, <1>8, Zenon DEF Verified
<1>10. TypeOK'
  BY <1>1, <1>2, <1>4, <1>5, <1>7, <1>9, Zenon DEF TypeOK, RowsTyped, ServersTyped, PlansTyped
<1> QED
  BY <1>6, <1>8, <1>10, Zenon DEF Typed

LEMMA RereadKeeps ==
  ASSUME Typed, NEW v \in Versions, Reread(v)
  PROVE  Typed'
<1>1. UNCHANGED <<control, row, nextId, pool, want, snap, waits, had, verifying, contested, torn, undone>>
  BY Zenon DEF Reread
<1>2. /\ pc' = pc /\ at' = at /\ lock' = lock /\ dirty' = dirty /\ want' = want /\ waits' = waits /\ snap' = snap
      /\ verifying' = verifying /\ ControlTyped(6)'
  BY <1>1, Zenon DEF control, Typed, TypeOK, ControlTyped
<1>3. \A q \in Requests : Last(q)' = Last(q) /\ Kind(q)' = Kind(q) /\ Pos(q, "apply")' = Pos(q, "apply")
  BY <1>2, SamePlan, Zenon
<1>4. \A q \in Requests : Placed(q)' /\ Read(q)' /\ Verified(q)'
  <2>1. \A q \in Requests : Placed(q) /\ Read(q) /\ Verified(q)
    BY Zenon DEF Typed
  <2> QED
    BY <1>2, <1>3, <2>1, Zenon DEF Placed, Read, Verified, Running
<1>5. TypeOK'
  <2>1. ServersTyped'
    BY RereadTyped
  <2>2. RowsTyped /\ PlansTyped /\ want \in [Requests -> Request] /\ verifying \subseteq {q \in Requests : pc[q] = "do"}
    BY Types, Zenon DEF Typed
  <2> QED
    BY <1>1, <1>2, <2>1, <2>2, Zenon DEF TypeOK, RowsTyped, ServersTyped, PlansTyped
<1> QED
  BY <1>4, <1>5, Zenon DEF Typed

LEMMA DoTyped ==
  ASSUME Typed, NEW r \in Requests, Do(r)
  PROVE  Typed'
<1>1. pc[r] = "do" /\ at[r] <= Len(Steps(r)) /\ at[r] > 0 /\ Running(r)
  BY SMT DEF Do, Typed, Placed, Running
<1>2. /\ RowsTyped /\ ServersTyped /\ PlansTyped
      /\ Site(r) \in Sites /\ New(r) \in Versions /\ verifying \subseteq Requests
  BY Types, Wanted, Zenon DEF Typed
<1>3. CASE \E step \in {"remove", "drop"} : RemovePool(r, step)
  <2>1. /\ Step(r) \in {"remove", "drop"} /\ Moves(r) /\ pc' = pc /\ want' = want /\ waits' = waits /\ snap' = snap
        /\ verifying' = verifying /\ UNCHANGED <<row, nextId, had, contested, torn, undone>>
        /\ pool' = Without(Old(r), Site(r)) /\ Reloaded(Old(r))
    BY <1>3, Zenon DEF RemovePool, Moves, Advanced
  <2>2. Kind(r) # "create" /\ r \notin verifying
    BY <1>1, <2>1, StepIs, NotThere, SMT
  <2>3. Old(r) \in Versions
    BY <1>1, <2>2, OldVersion, Zenon
  <2>4. ServersTyped'
    BY <1>2, <2>1, <2>3, PoolWritten, SignalTyped, Zenon DEF ServersTyped
  <2>5. RowsTyped' /\ PlansTyped'
    BY <1>2, <2>1, SMT DEF RowsTyped, PlansTyped
  <2> QED
    BY <1>1, <2>1, <2>2, <2>4, <2>5, Kept, SMT
<1>4. CASE Release(r) \/ VHost(r)
  <2>1. Step(r) \in {"release", "vhost"} /\ Moves(r) /\ pc' = pc /\ UNCHANGED data
    BY <1>4, Zenon DEF Release, VHost, Moves, Advanced
  <2>2. r \notin verifying
    BY <1>1, <2>1, NotThere, SMT
  <2> QED
    BY <1>1, <2>1, <2>2, DataStays, SMT
<1>5. CASE Verify(r)
  <2>1. /\ Moves(r) /\ pc' = pc /\ want' = want /\ waits' = waits /\ snap' = snap /\ verifying' = verifying \ {r}
        /\ UNCHANGED <<row, nextId, pool, up, listens, left, reloading, had, contested, torn, undone>>
    BY <1>5, Zenon DEF Verify, Moves, Advanced, servers
  <2>2. RowsTyped' /\ ServersTyped' /\ PlansTyped'
    BY <1>2, <2>1, Zenon DEF RowsTyped, ServersTyped, PlansTyped
  <2> QED
    BY <1>1, <2>1, <2>2, Kept, SMT
<1>6. CASE Record(r)
  <2>1. /\ Step(r) \in {"insert", "record", "deleteRow"} /\ Moves(r) /\ pc' = pc /\ want' = want /\ waits' = waits
        /\ snap' = snap /\ verifying' = verifying /\ UNCHANGED <<pool, up, listens, left, reloading, had, contested, torn, undone>>
    BY <1>6, Zenon DEF Record, Moves, Advanced, servers
  <2>2. r \notin verifying
    BY <1>1, <2>1, NotThere, SMT
  <2>3. ServersTyped' /\ PlansTyped'
    BY <1>2, <2>1, SMT DEF ServersTyped, PlansTyped
  <2>4. RowsTyped'
    <3>1. CASE Step(r) = "insert"
      <4>1. row' = [row EXCEPT ![Site(r)] = [id |-> nextId, version |-> Default]] /\ nextId' = nextId + 1
        BY <1>6, <3>1, SMT DEF Record
      <4> QED
        BY <1>2, <4>1, PhpFpmAssumption, SMT DEF RowsTyped, Row
    <3>2. CASE Step(r) = "record"
      <4>1. row' = [row EXCEPT ![Site(r)].version = New(r)] /\ nextId' = nextId /\ row[Site(r)] # NoRow
        BY <1>6, <3>2, SMT DEF Record, IsRow
      <4> QED
        BY <1>2, <4>1, SMT DEF RowsTyped, Row
    <3>3. CASE Step(r) = "deleteRow"
      <4>1. row' = [row EXCEPT ![Site(r)] = NoRow] /\ nextId' = nextId
        BY <1>6, <3>3, SMT DEF Record
      <4> QED
        BY <1>2, <4>1, SMT DEF RowsTyped
    <3> QED
      BY <2>1, <3>1, <3>2, <3>3, Zenon
  <2> QED
    BY <1>1, <2>1, <2>2, <2>3, <2>4, Kept, SMT
<1> QED
  BY <1>3, <1>4, <1>5, <1>6, Zenon DEF Do

LEMMA FailTyped ==
  ASSUME Typed, NEW r \in Requests, Fail(r)
  PROVE  Typed'
<1>1. pc[r] = "do" /\ Moves(r)
  BY Zenon DEF Fail, FailClean, ApplyFails, RemoveFails, Moves, Failed
<1>2. /\ RowsTyped /\ ServersTyped /\ PlansTyped
      /\ Site(r) \in Sites /\ New(r) \in Versions /\ verifying \subseteq Requests
  BY Types, Wanted, Zenon DEF Typed
<1>3. CASE FailClean(r)
  <2>1. r \notin verifying /\ UNCHANGED data
    BY <1>3, Zenon DEF FailClean
  <2> QED
    BY <1>1, <2>1, DataStays, SMT
<1>4. CASE ApplyFails(r)
  <2>1. /\ want' = want /\ waits' = waits /\ snap' = snap /\ verifying' = verifying \ {r}
        /\ UNCHANGED <<row, nextId, had, contested, undone>> /\ PerhapsReloaded(New(r))
        /\ pool' \in {With(New(r), Site(r)), Without(New(r), Site(r))} /\ torn' \in {torn, torn \cup {r}}
    BY <1>4, SMT DEF ApplyFails
  <2>2. pool' \in [Versions -> SUBSET Sites]
    BY <1>2, <2>1, PoolWritten, SMT DEF ServersTyped
  <2>3. ServersTyped'
    BY <1>2, <2>1, <2>2, SignalTyped, Zenon
  <2>4. RowsTyped' /\ PlansTyped'
    BY <1>2, <2>1, SMT DEF RowsTyped, PlansTyped
  <2> QED
    BY <1>1, <2>1, <2>3, <2>4, Kept, SMT
<1>5. CASE RemoveFails(r)
  <2>1. /\ Failed(r) /\ want' = want /\ waits' = waits /\ snap' = snap /\ verifying' = verifying
        /\ at[r] <= Len(Steps(r)) /\ Step(r) \in {"remove", "drop"}
        /\ UNCHANGED <<row, nextId, had, contested, undone>> /\ PerhapsReloaded(Old(r))
        /\ pool' \in {pool, Without(Old(r), Site(r))} /\ torn' \in {torn, torn \cup {r}}
    BY <1>5, SMT DEF RemoveFails
  <2>2. at[r] > 0 /\ Running(r)
    BY <1>1, SMT DEF Typed, Placed, Running
  <2>3. Kind(r) # "create" /\ r \notin verifying
    BY <2>1, <2>2, StepIs, NotThere, SMT
  <2>4. Old(r) \in Versions
    BY <1>1, <2>3, OldVersion, Zenon
  <2>5. pool' \in [Versions -> SUBSET Sites]
    BY <1>2, <2>1, <2>4, PoolWritten, SMT DEF ServersTyped
  <2>6. ServersTyped'
    BY <1>2, <2>1, <2>4, <2>5, SignalTyped, Zenon
  <2>7. RowsTyped' /\ PlansTyped'
    BY <1>2, <2>1, SMT DEF RowsTyped, PlansTyped
  <2> QED
    BY <1>1, <2>1, <2>3, <2>6, <2>7, Kept, SMT
<1> QED
  BY <1>3, <1>4, <1>5, Zenon DEF Fail

(* What the undo of a pool step writes.                                    *)
LEMMA RestoredTyped ==
  ASSUME Typed, NEW r \in Requests, Running(r), at[r] > 0, at[r] <= Len(Steps(r)), Step(r) \in {"apply", "remove"}
  PROVE  Restored(r) \in [Versions -> SUBSET Sites] /\ Touched(r) \in Versions
<1>1. ServersTyped /\ Site(r) \in Sites /\ New(r) \in Versions
  BY Types, Wanted, Zenon DEF Typed
<1>2. CASE Step(r) = "apply"
  <2>1. Restored(r) \in {With(New(r), Site(r)), Without(New(r), Site(r))} /\ Touched(r) = New(r)
    BY <1>2, SMT DEF Restored, Touched
  <2> QED
    BY <1>1, <2>1, PoolWritten, SMT DEF ServersTyped
<1>3. CASE Step(r) = "remove"
  <2>1. Restored(r) = With(Old(r), Site(r)) /\ Touched(r) = Old(r)
    BY <1>3, SMT DEF Restored, Touched
  <2>2. Old(r) \in Versions
    BY <1>3, StepIs, OldVersion, SMT DEF Running
  <2> QED
    BY <1>1, <2>1, <2>2, PoolWritten, SMT DEF ServersTyped
<1> QED
  BY <1>2, <1>3

LEMMA UndoTyped ==
  ASSUME Typed, NEW r \in Requests, Undo(r) \/ UndoFails(r)
  PROVE  Typed'
<1>1. pc[r] = "undo" /\ at[r] > 0 /\ pc' = pc /\ Moves(r) /\ r \notin verifying
  <2>1. pc[r] = "undo" /\ at[r] > 0 /\ pc' = pc /\ Moves(r)
    BY Zenon DEF Undo, UndoFails, UndoPool, UndoRow, UndoNothing, Undid, DidNotUndo, Moves
  <2> QED
    BY <2>1, NotVerifying, SMT
<1>2. /\ RowsTyped /\ ServersTyped /\ PlansTyped /\ Site(r) \in Sites
  BY Types, Wanted, Zenon DEF Typed
<1>3. Running(r) /\ at[r] <= Len(Steps(r))
  <2>1. Len(Steps(r)) = Last(r) /\ at[r] \in 0..Last(r)
    BY <1>1, StepPlaces, Zenon DEF Typed, Placed
  <2> QED
    BY <1>1, <2>1, StepPlaces, SMT DEF Running, Typed
<1>4. CASE UndoPool(r)
  <2>1. /\ Step(r) \in {"apply", "remove"} /\ pool' = Restored(r) /\ Reloaded(Touched(r))
        /\ undone' = undone \cup {r} /\ UNCHANGED <<row, nextId, want, snap, waits, had, verifying, contested, torn>>
    BY <1>4, Zenon DEF UndoPool
  <2>2. ServersTyped'
    BY <1>1, <1>2, <1>3, <2>1, RestoredTyped, SignalTyped, Zenon
  <2>3. RowsTyped' /\ PlansTyped'
    BY <1>2, <2>1, SMT DEF RowsTyped, PlansTyped
  <2> QED
    BY <1>1, <2>1, <2>2, <2>3, Kept, SMT
<1>5. CASE UndoRow(r)
  <2>1. /\ Step(r) \in {"insert", "record", "deleteRow"}
        /\ UNCHANGED <<pool, up, listens, left, reloading, want, snap, waits, had, verifying, contested, torn, undone>>
    BY <1>5, Zenon DEF UndoRow, servers
  <2>2. ServersTyped' /\ PlansTyped'
    BY <1>2, <2>1, SMT DEF ServersTyped, PlansTyped
  <2>3. RowsTyped'
    <3>1. CASE Step(r) = "insert"
      <4>1. row' = [row EXCEPT ![Site(r)] = NoRow] /\ nextId' = nextId
        BY <1>5, <3>1, SMT DEF UndoRow
      <4> QED
        BY <1>2, <4>1, SMT DEF RowsTyped
    <3>2. CASE Step(r) = "record"
      <4>1. row' = [row EXCEPT ![Site(r)].version = Old(r)] /\ row[Site(r)] # NoRow /\ nextId' = nextId
        BY <1>5, <3>2, SMT DEF UndoRow, IsRow
      <4>2. Old(r) \in Versions
        BY <1>1, <1>3, <3>2, StepIs, OldVersion, SMT
      <4> QED
        BY <1>2, <4>1, <4>2, SMT DEF RowsTyped, Row
    <3>3. CASE Step(r) = "deleteRow"
      <4>1. row' = [row EXCEPT ![Site(r)] = [id |-> nextId, version |-> Old(r)]] /\ nextId' = nextId + 1
        BY <1>5, <3>3, SMT DEF UndoRow
      <4>2. Old(r) \in Versions
        BY <1>1, <1>3, <3>3, StepIs, OldVersion, SMT
      <4> QED
        BY <1>2, <4>1, <4>2, SMT DEF RowsTyped, Row
    <3> QED
      BY <2>1, <3>1, <3>2, <3>3, Zenon
  <2> QED
    BY <1>1, <2>1, <2>2, <2>3, Kept, SMT
<1>6. CASE UndoNothing(r)
  <2>1. UNCHANGED data
    BY <1>6, Zenon DEF UndoNothing
  <2> QED
    BY <1>1, <2>1, DataStays, SMT
<1>7. CASE UndoFails(r)
  <2>1. /\ UNCHANGED <<row, nextId, up, listens, left, reloading, want, snap, waits, had, verifying, contested, torn>>
        /\ \/ Step(r) \in {"apply", "remove"} /\ pool' \in {pool, Restored(r)} /\ undone' = undone \cup {r}
           \/ pool' = pool /\ undone' = undone
    BY <1>7, Zenon DEF UndoFails
  <2>2. pool' \in [Versions -> SUBSET Sites]
    BY <1>2, <1>3, <1>1, <2>1, RestoredTyped, SMT DEF ServersTyped
  <2>3. ServersTyped' /\ RowsTyped'
    BY <1>2, <2>1, <2>2, Zenon DEF ServersTyped, RowsTyped
  <2>4. PlansTyped'
    BY <1>2, <2>1, SMT DEF PlansTyped
  <2> QED
    BY <1>1, <2>1, <2>3, <2>4, Kept, SMT
<1> QED
  BY <1>4, <1>5, <1>6, <1>7, Zenon DEF Undo

LEMMA ReturnTyped ==
  ASSUME Typed, NEW r \in Requests, Return(r)
  PROVE  Typed'
<1>1. /\ Ended(r, Len(Steps(r))) /\ Moves(r) /\ snap' = [snap EXCEPT ![r] = NoRow] /\ had' = [had EXCEPT ![r] = FALSE]
      /\ verifying' = verifying \ {r}
      /\ UNCHANGED <<row, nextId, pool, up, listens, left, reloading, want, waits, contested, torn, undone>>
  BY Zenon DEF Return, Moves, servers
<1>2. RowsTyped /\ ServersTyped /\ PlansTyped /\ pc \in [Requests -> PCs]
  BY Types, Zenon DEF Typed, ControlTyped
<1>3. pc'[r] \notin {"ready", "do", "undo"}
  BY <1>1, <1>2, SMT DEF Ended, Goto, Verdict
<1>4. \A q \in Requests \ {r} : snap'[q] = snap[q]
  BY <1>1, <1>2, Zenon DEF PlansTyped
<1>5. RowsTyped' /\ ServersTyped'
  BY <1>1, <1>2, Zenon DEF RowsTyped, ServersTyped
<1>6. PlansTyped'
  BY <1>1, <1>2, SMT DEF PlansTyped
<1> QED
  BY <1>1, <1>3, <1>4, <1>5, <1>6, Kept, SMT

LEMMA TypedInit == ASSUME Init PROVE Typed
<1>1. PICK first \in Before :
        /\ row = [s \in Sites |-> IF first[s] = NoRow THEN NoRow ELSE [id |-> 1, version |-> first[s]]]
        /\ pool = [v \in Versions |-> {s \in Sites : first[s] = v}]
  BY Zenon DEF Init
<1>2. \A s \in Sites : first[s] \in Versions \cup {NoRow}
  BY PhpFpmAssumption, Zenon
<1>3. RowsTyped
  BY <1>1, <1>2, SMT DEF RowsTyped, Row, Init
<1>4. ServersTyped
  <2>1. pool \in [Versions -> SUBSET Sites] /\ \A u, v \in Versions : u # v => pool[u] \cap pool[v] = {}
    BY <1>1, SMT
  <2>2. up = {v \in Versions : ConfigTest(v, pool[v])} /\ listens = pool /\ left = {} /\ reloading = {}
    BY Zenon DEF Init
  <2> QED
    BY <2>1, <2>2, SMT DEF ServersTyped, ConfigTest
<1>5. PlansTyped /\ want \in [Requests -> Request] /\ verifying = {} /\ ControlTyped(6)
  BY PhpFpmAssumption, SMT DEF Init, PlansTyped, ControlInit, ControlTyped, PCs
<1>6. TypeOK
  BY <1>3, <1>4, <1>5, Types, SMT
<1>7. \A r \in Requests : pc[r] = "new" /\ at[r] = 1 /\ ~dirty[r] /\ lock # r
  BY RequestsAssumption, Zenon DEF Init, ControlInit
<1>8. \A r \in Requests : Placed(r) /\ Verified(r) /\ Read(r)
  BY <1>5, <1>7, Zenon DEF Placed, Verified, Read, Running
<1> QED
  BY <1>6, <1>8, Zenon DEF Typed

LEMMA TypedStep == Typed /\ [Next]_vars => Typed'
<1> SUFFICES ASSUME Typed, [Next]_vars PROVE Typed'
  OBVIOUS
<1>1. CASE \E v \in Versions : Reread(v)
  BY <1>1, RereadKeeps, Zenon
<1>2. CASE \E r \in Requests : Operation(r)
  BY <1>2, PrepareTyped, IdleTyped, ApplyPoolTyped, DoTyped, FailTyped, UndoTyped, ReturnTyped, Zenon DEF Operation
<1>3. CASE UNCHANGED vars
  <2>1. UNCHANGED <<lock, pc, at, dirty, row, nextId, pool, up, listens, left, reloading, want, snap, waits, had,
                    verifying, contested, torn, undone>>
    BY <1>3, Zenon DEF vars, control, data, servers
  <2>2. \A r \in Requests : Placed(r)' /\ Verified(r)' /\ Read(r)'
    <3>1. \A r \in Requests : Last(r)' = Last(r) /\ Kind(r)' = Kind(r) /\ Pos(r, "apply")' = Pos(r, "apply")
      BY <2>1, SamePlan, Zenon
    <3> QED
      BY <2>1, <3>1, Zenon DEF Typed, Placed, Verified, Read, Running
  <2>3. TypeOK'
    BY <2>1, Zenon DEF Typed, TypeOK, ControlTyped
  <2> QED
    BY <2>2, <2>3, Zenon DEF Typed
<1> QED
  BY <1>1, <1>2, <1>3, Zenon DEF Next

(***************************************************************************)
(* Every reachable state is typed; in particular no two masters listen on  *)
(* one socket, and one that has given up on none.                          *)
(***************************************************************************)
THEOREM TypeCorrect == Spec => []TypeOK
<1>1. Init => Typed
  BY TypedInit
<1>2. Typed => TypeOK
  BY DEF Typed
<1> QED
  BY <1>1, <1>2, TypedStep, PTL DEF Spec

-----------------------------------------------------------------------------
(* How high a plan stands, in the terms of its kind.                       *)
LEMMA Heights ==
  ASSUME NEW r
  PROVE  /\ Kind(r) = "create" =>
              /\ Stands(r, "apply") <=> Height(r) >= 1
              /\ Stands(r, "insert") <=> Height(r) >= 3
              /\ ~Stands(r, "release")
         /\ Kind(r) = "delete" =>
              /\ Stands(r, "drop") <=> Height(r) >= 2
              /\ Stands(r, "deleteRow") <=> Height(r) >= 3
         /\ Waits(r) =>
              /\ Stands(r, "remove") <=> Height(r) >= 1
              /\ Stands(r, "release") <=> Height(r) >= 2
              /\ Stands(r, "apply") <=> Height(r) >= 3
              /\ Stands(r, "record") <=> Height(r) >= 5
<1> QED
  BY SMT DEF Stands, Pos, Waits

LEMMA Course ==
  ASSUME Typed, NEW r \in Requests, Operation(r)
  PROVE  /\ want' = want /\ OthersStay(r)
         /\ \A q \in Requests \ {r} : waits'[q] = waits[q]
         /\ waits'[r] = waits[r] \/ Prepare(r)
         /\ pc[r] \in {"new", "ready", "do", "undo"}
         /\ pc[r] \in {"do", "undo"} => pc'[r] \notin {"new", "ready", "refused"}
         /\ torn \subseteq torn' /\ undone \subseteq undone' /\ contested \subseteq contested'
<1>1. /\ want' = want /\ (waits' = waits \/ Prepare(r)) /\ (Moves(r) \/ UNCHANGED control)
      /\ torn \subseteq torn' /\ undone \subseteq undone' /\ contested \subseteq contested'
  <2>1. CASE Prepare(r)
    BY <2>1, SMT DEF Prepare, Moves
  <2>2. CASE Refuse(r) \/ Start(r)
    BY <2>2, SMT DEF Refuse, Start, Moves, data
  <2>3. CASE ApplyPool(r)
    BY <2>3, SMT DEF ApplyPool
  <2>4. CASE Do(r)
    BY <2>4, SMT DEF Do, RemovePool, Release, Verify, VHost, Record, Moves, data
  <2>5. CASE Fail(r)
    BY <2>5, SMT DEF Fail, FailClean, ApplyFails, RemoveFails, Moves, data
  <2>6. CASE Undo(r) \/ UndoFails(r)
    BY <2>6, SMT DEF Undo, UndoPool, UndoRow, UndoNothing, UndoFails, Moves, data
  <2>7. CASE Return(r)
    BY <2>7, SMT DEF Return, Moves
  <2> QED
    BY <2>1, <2>2, <2>3, <2>4, <2>5, <2>6, <2>7, Zenon DEF Operation
<1>2. \A q \in Requests \ {r} : waits'[q] = waits[q]
  BY <1>1, Zenon DEF Prepare, Typed, TypeOK
<1>3. OthersStay(r)
  <2>1. CASE UNCHANGED control
    BY <2>1, Zenon DEF control, OthersStay, Running
  <2>2. CASE Moves(r)
    <3>1. Prepare(r) => Prepared(r)
      BY Zenon DEF Prepare
    <3> QED
      BY <1>1, <1>2, <2>2, <3>1, ControlMoves, Zenon
  <2> QED
    BY <1>1, <2>1, <2>2
<1>4. pc \in [Requests -> PCs] /\ (lock = r => Running(r))
  BY Zenon DEF Typed, TypeOK, ControlTyped, Placed
<1>5. pc[r] \in {"new", "ready", "do", "undo"}
  BY <1>4, SMT DEF Operation, Prepare, Refuse, Start, ApplyPool, Do, Fail, FailClean, ApplyFails, RemoveFails, Undo, UndoFails,
       Return, Prepared, Refused, Started, Failed, DidNotUndo, Ended, Running
<1>6. pc[r] \in {"do", "undo"} => pc'[r] \notin {"new", "ready", "refused"}
  <2>1. CASE UNCHANGED control
    BY <2>1, SMT DEF control
  <2>2. CASE Moves(r)
    BY <1>4, <2>2, SMT DEF Moves, Prepared, Refused, Started, Advanced, Failed, Undid, DidNotUndo, Ended, Verdict, Goto
  <2> QED
    BY <1>1, <2>1, <2>2
<1> QED
  BY <1>1, <1>2, <1>3, <1>5, <1>6

(* Damage stays.                                                           *)
LEMMA Damage ==
  ASSUME Typed, NEW r \in Requests, Operation(r), Undamaged'
  PROVE  Undamaged
<1>1. torn = {}
  BY Course, SMT DEF Undamaged
<1>2. ASSUME NEW q \in Requests PROVE pc[q] \notin {"inconsistent", "running"}
  BY Course, SMT DEF Undamaged, OthersStay
<1>3. Blind = {}
  <2>1. SUFFICES ASSUME NEW q \in Blind PROVE FALSE
    OBVIOUS
  <2>2. q \in Requests /\ Kind(q) = "set" /\ ~waits[q] /\ pc[q] \notin {"new", "ready", "refused"}
    BY <2>1, Zenon DEF Blind
  <2>3. pc'[q] \notin {"new", "ready", "refused"}
    BY <2>2, Course, SMT DEF OthersStay
  <2>4. waits'[q] = waits[q]
    BY <2>2, Course, SMT DEF Prepare, Prepared
  <2>5. Kind(q)' = Kind(q)
    BY Course, SameTask, Zenon
  <2> QED
    BY <2>2, <2>3, <2>4, <2>5, Zenon DEF Undamaged, Blind
<1> QED
  BY <1>1, <1>2, <1>3, Zenon DEF Undamaged

(* The pools of a site, when one is written or removed.                    *)
LEMMA PoolChange ==
  ASSUME pool \in [Versions -> SUBSET Sites], NEW v \in Versions, NEW s \in Sites
  PROVE  /\ s \in pool[v] <=> v \in PoolsOf(s)
         /\ pool' = With(v, s) =>
              PoolsOf(s)' = PoolsOf(s) \cup {v} /\ \A t \in Sites \ {s} : PoolsOf(t)' = PoolsOf(t)
         /\ pool' = Without(v, s) =>
              PoolsOf(s)' = PoolsOf(s) \ {v} /\ \A t \in Sites \ {s} : PoolsOf(t)' = PoolsOf(t)
<1> QED
  BY SMT DEF PoolsOf, With, Without

LEMMA PoolSame ==
  ASSUME pool' = pool
  PROVE  \A s : PoolsOf(s)' = PoolsOf(s)
<1> QED
  BY Zenon DEF PoolsOf

LEMMA RowChange ==
  ASSUME row \in [Sites -> Row \cup {NoRow}], NEW s \in Sites, NEW x, row' = [row EXCEPT ![s] = x]
  PROVE  row'[s] = x /\ \A t \in Sites \ {s} : Recorded(t)' = Recorded(t)
<1> QED
  BY SMT DEF Recorded

LEMMA RowSame ==
  ASSUME row' = row
  PROVE  \A s : Recorded(s)' = Recorded(s)
<1> QED
  BY Zenon DEF Recorded


-----------------------------------------------------------------------------
(* The same heights after a step.                                          *)
LEMMA HeightsThen ==
  ASSUME NEW r, want' = want, waits'[r] = waits[r]
  PROVE  /\ Kind(r) = "create" =>
              /\ Stands(r, "apply")' <=> Height(r)' >= 1
              /\ Stands(r, "insert")' <=> Height(r)' >= 3
              /\ ~Stands(r, "release")'
         /\ Kind(r) = "delete" =>
              /\ Stands(r, "drop")' <=> Height(r)' >= 2
              /\ Stands(r, "deleteRow")' <=> Height(r)' >= 3
         /\ Waits(r) =>
              /\ Stands(r, "remove")' <=> Height(r)' >= 1
              /\ Stands(r, "release")' <=> Height(r)' >= 2
              /\ Stands(r, "apply")' <=> Height(r)' >= 3
              /\ Stands(r, "record")' <=> Height(r)' >= 5
<1>1. \A s : Pos(r, s)' = Pos(r, s)
  BY SamePlan, Zenon
<1>2. \A s : Stands(r, s)' <=> 0 < Pos(r, s) /\ Pos(r, s) <= Height(r)'
  BY <1>1, Zenon DEF Stands
<1> QED
  BY <1>2, SMT DEF Pos, Waits

(* The plan that runs, as long as nothing is damaged.                      *)
LEMMA Busy ==
  ASSUME FilesInv, NEW r \in Requests, Running(r), Undamaged
  PROVE  lock = r /\ (~dirty[r] => Files(r)) /\ (Kind(r) = "set" => Waits(r))
<1>1. lock = r
  BY Zenon DEF FilesInv, Typed, Placed
<1>2. ~dirty[r] => Files(r)
  BY <1>1, Zenon DEF FilesInv, FilesOK
<1>3. Kind(r) = "set" => Waits(r)
  BY SMT DEF Undamaged, Blind, Running, Waits
<1> QED
  BY <1>1, <1>2, <1>3

(* How high it is: each step counts once it is done.                       *)
LEMMA Climb ==
  ASSUME Typed, NEW r \in Requests
  PROVE  /\ at[r] \in Nat
         /\ pc[r] = "do" => Height(r) = at[r] - 1
         /\ pc[r] = "undo" => Height(r) = at[r]
         /\ pc[r] = "do" /\ pc'[r] = "do" /\ at'[r] = at[r] => Height(r)' = Height(r)
         /\ \A n : Advanced(r, n) => Height(r)' = at[r] /\ pc'[r] = "do"
         /\ Failed(r) => Height(r)' = at[r] - 1 /\ pc'[r] = "undo"
         /\ Undid(r) => Height(r)' = at[r] - 1 /\ pc'[r] = "undo"
<1>1. pc \in [Requests -> PCs] /\ at \in [Requests -> 0..6]
  BY Zenon DEF Typed, TypeOK, ControlTyped
<1> QED
  BY <1>1, SMT DEF Height, Advanced, Failed, Undid, Goto

(* An operation changes the pool and the row of its own site only.         *)
OwnSite(r) ==
  \A t \in Sites \ {Site(r)} : PoolsOf(t)' = PoolsOf(t) /\ row'[t] = row[t]

LEMMA OwnSiteOnly ==
  ASSUME Typed, NEW r \in Requests, Operation(r)
  PROVE  OwnSite(r)
<1>1. /\ Site(r) \in Sites /\ New(r) \in Versions /\ pool \in [Versions -> SUBSET Sites]
      /\ row \in [Sites -> Row \cup {NoRow}] /\ Len(Steps(r)) = Last(r) /\ at[r] \in Nat
  BY Wanted, StepPlaces, Climb, Zenon DEF Typed, TypeOK
<1>2. CASE pool' = pool /\ row' = row
  BY <1>2, PoolSame, Zenon DEF OwnSite
<1>3. ASSUME NEW v \in Versions, row' = row, pool' \in {pool, With(v, Site(r)), Without(v, Site(r))}
      PROVE  OwnSite(r)
  <2>1. \A t \in Sites \ {Site(r)} : PoolsOf(t)' = PoolsOf(t)
    BY <1>1, <1>3, PoolSame, PoolChange, SMT
  <2> QED
    BY <1>3, <2>1, Zenon DEF OwnSite
<1>4. CASE Prepare(r) \/ Refuse(r) \/ Start(r) \/ Release(r) \/ Verify(r) \/ VHost(r) \/ FailClean(r) \/ UndoNothing(r) \/ Return(r)
  BY <1>2, <1>4, Zenon DEF Prepare, Refuse, Start, Release, Verify, VHost, FailClean, UndoNothing, Return, data, servers
<1>5. CASE ApplyPool(r)
  BY <1>1, <1>3, <1>5, SMT DEF ApplyPool
<1>6. CASE ApplyFails(r)
  <2>1. row' = row /\ pool' \in {With(New(r), Site(r)), Without(New(r), Site(r))}
    BY <1>6, SMT DEF ApplyFails
  <2> QED
    BY <1>1, <1>3, <2>1, SMT
<1>7. CASE at[r] > 0 /\ at[r] <= Len(Steps(r)) /\ Running(r)
           /\ (RemovePool(r, "remove") \/ RemovePool(r, "drop") \/ RemoveFails(r))
  <2>1. Step(r) \in {"remove", "drop"} /\ row' = row /\ pool' \in {pool, Without(Old(r), Site(r))}
    BY <1>7, SMT DEF RemovePool, RemoveFails
  <2>2. Kind(r) # "create"
    BY <1>7, <2>1, StepIs, SMT
  <2>3. Old(r) \in Versions
    BY <1>7, <2>2, OldVersion, SMT DEF Running
  <2> QED
    BY <1>3, <2>1, <2>3, SMT
<1>8. CASE at[r] > 0 /\ at[r] <= Len(Steps(r)) /\ Running(r) /\ (UndoPool(r) \/ UndoFails(r))
  <2>1. row' = row /\ (pool' = pool \/ (Step(r) \in {"apply", "remove"} /\ pool' \in {pool, Restored(r)}))
    BY <1>8, SMT DEF UndoPool, UndoFails
  <2>2. CASE Step(r) = "apply"
    <3>1. Restored(r) \in {With(New(r), Site(r)), Without(New(r), Site(r))}
      BY <2>2, SMT DEF Restored
    <3> QED
      BY <1>1, <1>3, <2>1, <3>1, SMT
  <2>3. CASE Step(r) = "remove"
    <3>1. Restored(r) = With(Old(r), Site(r))
      BY <2>3, SMT DEF Restored
    <3>2. Old(r) \in Versions
      BY <1>8, <2>3, StepIs, OldVersion, SMT DEF Running
    <3> QED
      BY <1>3, <2>1, <3>1, <3>2, SMT
  <2> QED
    BY <1>2, <2>1, <2>2, <2>3, SMT
<1>9. CASE Record(r) \/ UndoRow(r)
  <2>1. pool' = pool /\ \A t \in Sites \ {Site(r)} : row'[t] = row[t]
    BY <1>1, <1>9, SMT DEF Record, UndoRow, servers
  <2> QED
    BY <2>1, PoolSame, Zenon DEF OwnSite
<1>10. pc[r] = "do" => at[r] > 0
  BY SMT DEF Typed, Placed
<1>11. pc[r] = "undo" => at[r] <= Len(Steps(r))
  BY <1>1, SMT DEF Typed, Placed
<1> QED
  BY <1>4, <1>5, <1>6, <1>7, <1>8, <1>9, <1>10, <1>11, SMT
     DEF Operation, Do, Fail, Undo, UndoFails, DidNotUndo, RemoveFails, Failed, Running

(* What the running plan has made of its files, when nothing is written.   *)
LEMMA FilesKept ==
  ASSUME want' = want, NEW q, waits'[q] = waits[q], pool' = pool, row' = row, snap'[q] = snap[q], had'[q] = had[q],
         q \in verifying' <=> q \in verifying, Height(q)' = Height(q), Files(q)
  PROVE  Files(q)'
<1>1. /\ \A s : Pos(q, s)' = Pos(q, s)
      /\ Kind(q)' = Kind(q) /\ Site(q)' = Site(q) /\ New(q)' = New(q)
  BY SamePlan, SameTask, Zenon
<1>2. \A s : Stands(q, s)' <=> Stands(q, s)
  BY <1>1, Zenon DEF Stands
<1>3. PoolsOf(Site(q))' = PoolsOf(Site(q)) /\ Recorded(Site(q))' = Recorded(Site(q)) /\ Old(q)' = Old(q)
  BY <1>1, PoolSame, RowSame, Zenon DEF PoolsOf, Recorded, Old
<1>4. Applied(q)' <=> Applied(q)
  BY <1>2, Zenon DEF Applied
<1> QED
  BY <1>1, <1>2, <1>3, <1>4, SMT DEF Files

(***************************************************************************)
(* The invariant of the files, for a step of the plan that has the lock:   *)
(* the other sites stay as they are, and this one is as the plan says.     *)
(***************************************************************************)
LEMMA FilesFrame ==
  ASSUME FilesInv, NEW r \in Requests, Operation(r), Typed', lock = r, lock' \in {r, NoRequest},
         Undamaged' /\ lock' = r /\ ~dirty'[r] => Files(r)',
         Undamaged' /\ lock' = NoRequest => PoolsOf(Site(r))' = Recorded(Site(r))'
  PROVE  FilesInv'
<1>1. SUFFICES ASSUME Undamaged' PROVE FilesOK'
  BY Zenon DEF FilesInv
<1>2. Undamaged /\ OwnSite(r) /\ NoRequest \notin Requests
  BY <1>1, Damage, OwnSiteOnly, RequestsAssumption, Zenon DEF FilesInv
<1>3. \A q \in Requests : Site(q)' = Site(q) /\ Site(q) \in Sites
  BY Course, SameTask, Wanted, Zenon DEF FilesInv, Typed
<1>4. ASSUME NEW s \in Sites, Idle(s)'
      PROVE  PoolsOf(s)' = Recorded(s)'
  <2>1. CASE s = Site(r)
    <3>1. lock' = NoRequest
      BY <1>3, <1>4, <2>1, Zenon DEF Idle
    <3>2. Site(r)' = s
      BY <1>3, <2>1, Zenon
    <3> QED
      BY <1>1, <3>1, <3>2, Zenon DEF Recorded, PoolsOf
  <2>2. CASE s # Site(r)
    <3>1. PoolsOf(s) = Recorded(s)
      BY <1>2, <2>2, Zenon DEF FilesInv, FilesOK, Idle
    <3> QED
      BY <1>2, <2>2, <3>1, Zenon DEF OwnSite, Recorded
  <2> QED
    BY <2>1, <2>2
<1>5. \A q \in Requests : lock' = q /\ ~dirty'[q] => Files(q)'
  BY <1>1, <1>2, Zenon
<1> QED
  BY <1>4, <1>5, Zenon DEF FilesOK

(* A step of somebody else, or of a master.                                *)
LEMMA FilesElsewhere ==
  ASSUME FilesInv, Typed', Undamaged' => Undamaged, want' = want, lock' = lock, pool' = pool, row' = row,
         \A q \in Requests : lock = q =>
            /\ waits'[q] = waits[q] /\ snap'[q] = snap[q] /\ had'[q] = had[q] /\ (q \in verifying' <=> q \in verifying)
            /\ Height(q)' = Height(q) /\ dirty'[q] = dirty[q]
  PROVE  FilesInv'
<1>1. SUFFICES ASSUME Undamaged' PROVE FilesOK'
  BY Zenon DEF FilesInv
<1>2. Undamaged
  BY <1>1
<1>3. \A q \in Requests : Site(q)' = Site(q)
  BY SameTask, Zenon
<1>4. ASSUME NEW s \in Sites, Idle(s)'
      PROVE  PoolsOf(s)' = Recorded(s)'
  <2>1. PoolsOf(s) = Recorded(s)
    BY <1>2, <1>3, <1>4, Zenon DEF FilesInv, FilesOK, Idle
  <2> QED
    BY <2>1, PoolSame, RowSame, Zenon DEF PoolsOf, Recorded
<1>5. ASSUME NEW q \in Requests, lock' = q, ~dirty'[q] PROVE Files(q)'
  <2>1. Files(q)
    BY <1>2, <1>5, Zenon DEF FilesInv, FilesOK
  <2> QED
    BY <1>5, <2>1, FilesKept, Zenon
<1> QED
  BY <1>4, <1>5, Zenon DEF FilesOK

(* Operations that do not have the lock yet.                               *)
LEMMA FilesIdle ==
  ASSUME FilesInv, Typed', NEW r \in Requests, Prepare(r) \/ Refuse(r)
  PROVE  FilesInv'
<1>1. Operation(r) /\ pc[r] \in {"new", "ready"}
  BY SMT DEF Operation, Prepare, Refuse, Prepared, Refused
<1>2. want' = want /\ OthersStay(r) /\ (Undamaged' => Undamaged) /\ \A q \in Requests \ {r} : waits'[q] = waits[q]
  BY <1>1, Course, Damage, Zenon DEF FilesInv
<1>3. lock # r
  BY <1>1, SMT DEF FilesInv, Typed, Placed, Running
<1>4. snap \in [Requests -> Row \cup {NoRow}]
  BY Zenon DEF FilesInv, Typed, TypeOK
<1>5. lock' = lock /\ pool' = pool /\ row' = row /\ had' = had /\ verifying' = verifying
  BY Zenon DEF Prepare, Refuse, Prepared, Refused, data, servers
<1>6. \A q \in Requests \ {r} : snap'[q] = snap[q] /\ Height(q)' = Height(q) /\ dirty'[q] = dirty[q]
  BY <1>2, <1>4, Zenon DEF Prepare, Refuse, data, OthersStay, Height
<1> QED
  BY <1>2, <1>3, <1>5, <1>6, FilesElsewhere, Zenon

LEMMA FilesReread ==
  ASSUME FilesInv, Typed', (\E v \in Versions : Reread(v)) \/ UNCHANGED vars
  PROVE  FilesInv'
<1>1. UNCHANGED <<lock, pc, at, dirty, row, pool, want, snap, waits, had, verifying, torn>>
  BY Zenon DEF Reread, vars, data, servers, control
<1>2. Undamaged' => Undamaged
  BY <1>1, Zenon DEF Undamaged, Blind, Kind
<1>3. \A q \in Requests : Height(q)' = Height(q)
  BY <1>1, Zenon DEF Height
<1> QED
  BY <1>1, <1>2, <1>3, FilesElsewhere, Zenon

LEMMA FilesStart ==
  ASSUME FilesInv, Typed', NEW r \in Requests, Start(r)
  PROVE  FilesInv'
<1>1. /\ want' = want /\ waits' = waits /\ pool' = pool /\ row' = row /\ verifying' = verifying /\ at' = at /\ pc[r] = "ready"
      /\ lock = NoRequest /\ lock' = r /\ Operation(r) /\ torn' = torn
  BY Zenon DEF Start, Started, data, servers, Operation
<1>2. pc'[r] = "do" /\ at[r] = 1 /\ r \notin verifying
  <2>1. pc'[r] = "do"
    BY SMT DEF Start, Started, Goto, FilesInv, Typed, TypeOK, ControlTyped
  <2> QED
    BY <1>1, <2>1, NotVerifying, SMT DEF FilesInv, Typed, Placed
<1>3. SUFFICES ASSUME Undamaged' PROVE FilesOK'
  BY Zenon DEF FilesInv
<1>4. Undamaged /\ NoRequest \notin Requests
  BY <1>1, <1>3, Damage, RequestsAssumption, Zenon DEF FilesInv
<1>5. \A s \in Sites : PoolsOf(s) = Recorded(s)
  BY <1>1, <1>4, Zenon DEF FilesInv, FilesOK, Idle
<1>6. \A s \in Sites : PoolsOf(s)' = Recorded(s)'
  BY <1>1, <1>5, Zenon DEF PoolsOf, Recorded
<1>7. Files(r)'
  <2>1. Height(r)' = 0 /\ Site(r)' = Site(r) /\ Site(r) \in Sites
    <3>1. Site(r)' = Site(r) /\ Site(r) \in Sites
      BY <1>1, SameTask, Wanted, Zenon DEF FilesInv, Typed
    <3> QED
      BY <1>1, <1>2, <3>1, SMT DEF Height
  <2>2. \A s \in StepNames : ~Stands(r, s)'
    <3>1. \A s \in StepNames : Pos(r, s)' \in 0..Last(r)'
      <4>1. \A s \in StepNames : Pos(r, s) \in 0..Last(r) /\ Pos(r, s)' = Pos(r, s)
        BY <1>1, StepPlaces, SamePlan, Zenon DEF FilesInv, Typed
      <4> QED
        BY <1>1, <4>1, SamePlan, Zenon
    <3> QED
      BY <2>1, <3>1, SMT DEF Stands
  <2>3. ~Applied(r)'
    BY <1>1, <1>2, <2>2, Zenon DEF Applied, StepNames
  <2>4. PoolsOf(Site(r))' = Recorded(Site(r))'
    BY <1>6, <2>1, Zenon DEF PoolsOf, Recorded
  <2> QED
    BY <2>2, <2>3, <2>4, Zenon DEF Files, StepNames
<1> QED
  BY <1>1, <1>4, <1>6, <1>7, Zenon DEF FilesOK

(* What a step of the running plan leaves alone, for its files.            *)
LEMMA Frame ==
  ASSUME Typed, NEW r \in Requests, want' = want, waits' = waits, snap' = snap
  PROVE  /\ Kind(r)' = Kind(r) /\ Site(r)' = Site(r) /\ New(r)' = New(r) /\ Old(r)' = Old(r)
         /\ Site(r) \in Sites /\ New(r) \in Versions /\ Kind(r) \in {"create", "delete", "set"}
         /\ pool \in [Versions -> SUBSET Sites] /\ row \in [Sites -> Row \cup {NoRow}]
         /\ pool' = pool => PoolsOf(Site(r))' = PoolsOf(Site(r))
         /\ row' = row => Recorded(Site(r))' = Recorded(Site(r)) /\ row'[Site(r)'] = row[Site(r)]
         /\ \A v \in Versions : Site(r) \in pool[v] <=> v \in PoolsOf(Site(r))
         /\ \A v \in Versions : pool' = With(v, Site(r)) => PoolsOf(Site(r))' = PoolsOf(Site(r)) \cup {v}
         /\ \A v \in Versions : pool' = Without(v, Site(r)) => PoolsOf(Site(r))' = PoolsOf(Site(r)) \ {v}
<1>1. Kind(r)' = Kind(r) /\ Site(r)' = Site(r) /\ New(r)' = New(r) /\ Old(r)' = Old(r)
  BY SameTask, Zenon DEF Old
<1>2. /\ Site(r) \in Sites /\ New(r) \in Versions /\ Kind(r) \in {"create", "delete", "set"}
      /\ pool \in [Versions -> SUBSET Sites] /\ row \in [Sites -> Row \cup {NoRow}]
  BY Wanted, Zenon DEF Typed, TypeOK
<1>3. \A q : PoolsOf(q)' = {v \in Versions : q' \in pool'[v]}
  BY Zenon DEF PoolsOf
<1>4. pool' = pool => PoolsOf(Site(r))' = PoolsOf(Site(r))
  BY <1>1, Zenon DEF PoolsOf
<1>5. row' = row => Recorded(Site(r))' = Recorded(Site(r)) /\ row'[Site(r)'] = row[Site(r)]
  BY <1>1, Zenon DEF Recorded
<1>6. \A v \in Versions : Site(r) \in pool[v] <=> v \in PoolsOf(Site(r))
  BY Zenon DEF PoolsOf
<1>7. ASSUME NEW v \in Versions, pool' = With(v, Site(r)) PROVE PoolsOf(Site(r))' = PoolsOf(Site(r)) \cup {v}
  BY <1>1, <1>2, <1>7, SMT DEF PoolsOf, With
<1>8. ASSUME NEW v \in Versions, pool' = Without(v, Site(r)) PROVE PoolsOf(Site(r))' = PoolsOf(Site(r)) \ {v}
  BY <1>1, <1>2, <1>8, SMT DEF PoolsOf, Without
<1> QED
  BY <1>1, <1>2, <1>4, <1>5, <1>6, <1>7, <1>8, Zenon

LEMMA FilesOfPlan ==
  ASSUME FilesInv, NEW r \in Requests, Operation(r), Typed', Running(r), lock' = lock,
         Undamaged /\ Undamaged' /\ ~dirty'[r] => Files(r)'
  PROVE  FilesInv'
<1>1. lock = r /\ lock' = r /\ r # NoRequest
  BY RequestsAssumption, SMT DEF FilesInv, Typed, Placed
<1>2. Undamaged' => Undamaged
  BY Damage, Zenon DEF FilesInv
<1> QED
  BY <1>1, <1>2, FilesFrame, SMT

LEMMA FilesRemove ==
  ASSUME FilesInv, Typed', NEW r \in Requests, NEW step \in {"remove", "drop"}, pc[r] = "do", at[r] <= Len(Steps(r)),
         RemovePool(r, step)
  PROVE  FilesInv'
<1>1. /\ want' = want /\ waits' = waits /\ snap' = snap /\ row' = row /\ verifying' = verifying
      /\ lock' = lock /\ dirty' = dirty /\ Step(r) = step /\ Advanced(r, Len(Steps(r)))
      /\ Site(r) \in pool[Old(r)] /\ pool' = Without(Old(r), Site(r)) /\ Operation(r)
  BY Zenon DEF RemovePool, Advanced, Operation, Do
<1>2. Typed /\ Running(r) /\ at[r] > 0 /\ at[r] \in Nat /\ lock = r
  BY Climb, SMT DEF FilesInv, Typed, Placed, Running
<1>3. SUFFICES ASSUME Undamaged, ~dirty'[r] PROVE Files(r)'
  BY <1>1, <1>2, FilesOfPlan, Zenon
<1>4. Files(r) /\ (Kind(r) = "set" => Waits(r))
  BY <1>1, <1>2, <1>3, Busy, Zenon
<1>5. Height(r) = at[r] - 1 /\ Height(r)' = at[r]
  BY <1>1, <1>2, Climb, Zenon
<1>6. r \notin verifying
  BY <1>1, <1>2, NotThere, SMT
<1>7. /\ step = "remove" => Kind(r) = "set" /\ at[r] = 1
      /\ step = "drop" => Kind(r) = "delete" /\ at[r] = 2
  BY <1>1, <1>2, StepIs, SMT DEF Pos
<1>8. Old(r) \in Versions
  BY <1>1, <1>2, <1>7, OldVersion, SMT
<1>9. CASE step = "remove"
  <2>1. ~Stands(r, "remove") /\ Stands(r, "remove")' /\ ~Stands(r, "apply")' /\ ~Stands(r, "record")'
    BY <1>1, <1>4, <1>5, <1>7, <1>9, Heights, HeightsThen, SMT
  <2>2. row[Site(r)] # NoRow /\ row[Site(r)].version = Old(r) /\ PoolsOf(Site(r))' = {}
    <3>1. PoolsOf(Site(r)) = Recorded(Site(r)) /\ Old(r) \in PoolsOf(Site(r))
      BY <1>1, <1>2, <1>4, <1>7, <1>8, <1>9, <2>1, Frame, SMT DEF Files
    <3>2. PoolsOf(Site(r))' = PoolsOf(Site(r)) \ {Old(r)}
      BY <1>1, <1>2, <1>8, Frame, Zenon
    <3> QED
      BY <3>1, <3>2, SMT DEF Recorded
  <2>3. ~Applied(r)'
    BY <1>1, <1>6, <2>1, Zenon DEF Applied
  <2> QED
    BY <1>1, <1>2, <1>7, <1>9, <2>1, <2>2, <2>3, Frame, SMT DEF Files
<1>10. CASE step = "drop"
  <2>1. ~Stands(r, "drop") /\ Stands(r, "drop")' /\ ~Stands(r, "deleteRow")'
    BY <1>1, <1>5, <1>7, <1>10, Heights, HeightsThen, SMT
  <2>2. PoolsOf(Site(r))' = {}
    <3>1. PoolsOf(Site(r)) = Recorded(Site(r)) /\ Old(r) \in PoolsOf(Site(r))
      BY <1>1, <1>2, <1>4, <1>7, <1>8, <1>10, <2>1, Frame, SMT DEF Files
    <3>2. PoolsOf(Site(r))' = PoolsOf(Site(r)) \ {Old(r)}
      BY <1>1, <1>2, <1>8, Frame, Zenon
    <3> QED
      BY <3>1, <3>2, SMT DEF Recorded
  <2> QED
    BY <1>1, <1>2, <1>7, <1>10, <2>1, <2>2, Frame, SMT DEF Files
<1> QED
  BY <1>9, <1>10

(* A step forward or back is the one of the plan, and no other.            *)
LEMMA OneMore ==
  ASSUME Typed, NEW r \in Requests, want' = want, waits' = waits, Running(r), at[r] > 0, at[r] <= Len(Steps(r)),
         \/ Height(r) = at[r] - 1 /\ Height(r)' = at[r]
         \/ Height(r) = at[r] /\ Height(r)' = at[r] - 1
  PROVE  /\ \A s \in StepNames \ {Step(r)} : Stands(r, s)' <=> Stands(r, s)
         /\ \A s : s = Step(r) => (Stands(r, s) <=> Height(r) = at[r]) /\ (Stands(r, s)' <=> Height(r)' = at[r])
<1>1. Step(r) \in StepNames /\ Pos(r, Step(r)) = at[r] /\ \A s \in StepNames \ {Step(r)} : Pos(r, s) # at[r]
  BY StepIs, Zenon
<1>2. at[r] \in Nat /\ \A s \in StepNames : Pos(r, s) \in Nat
  BY Climb, StepPlaces, SMT DEF Typed
<1>3. \A s : Stands(r, s)' <=> 0 < Pos(r, s) /\ Pos(r, s) <= Height(r)'
  <2>1. \A s : Pos(r, s)' = Pos(r, s)
    BY SamePlan, Zenon
  <2> QED
    BY <2>1, Zenon DEF Stands
<1>4. ASSUME NEW s \in StepNames \ {Step(r)} PROVE Stands(r, s)' <=> Stands(r, s)
  <2>1. Pos(r, s) \in Nat /\ Pos(r, s) # at[r]
    BY <1>1, <1>2, <1>4
  <2> QED
    BY <1>2, <1>3, <2>1, SMT DEF Stands
<1>5. ASSUME NEW s, s = Step(r) PROVE (Stands(r, s) <=> Height(r) = at[r]) /\ (Stands(r, s)' <=> Height(r)' = at[r])
  <2>1. Pos(r, s) = at[r]
    BY <1>1, <1>5
  <2> QED
    BY <1>2, <1>3, <2>1, SMT DEF Stands
<1> QED
  BY <1>4, <1>5

(* The steps that write no file and no row.                                *)
LEMMA FilesQuiet ==
  ASSUME FilesInv, Typed', NEW r \in Requests, Operation(r), Running(r), at[r] > 0, at[r] <= Len(Steps(r)),
         \/ pc[r] = "do" /\ Advanced(r, Len(Steps(r)))
         \/ pc[r] = "undo" /\ Undid(r),
         pool' = pool, row' = row, want' = want, waits' = waits, snap' = snap, had' = had,
         \/ Step(r) \in {"release", "vhost"} /\ verifying' = verifying
         \/ Step(r) = "apply" /\ r \in verifying /\ verifying' = verifying \ {r}
  PROVE  FilesInv'
<1>1. Typed /\ lock' = lock /\ dirty' = dirty
  BY Zenon DEF FilesInv, Advanced, Undid
<1>2. SUFFICES ASSUME Undamaged, ~dirty'[r] PROVE Files(r)'
  BY <1>1, FilesOfPlan, Zenon
<1>3. Files(r)
  BY <1>1, <1>2, Busy, Zenon
<1>4. \/ Height(r) = at[r] - 1 /\ Height(r)' = at[r]
      \/ Height(r) = at[r] /\ Height(r)' = at[r] - 1
  BY <1>1, Climb, Zenon
<1>5. \A s \in StepNames \ {Step(r)} : Stands(r, s)' <=> Stands(r, s)
  BY <1>1, <1>4, OneMore, Zenon
<1>6. Applied(r)' <=> Applied(r)
  <2>1. CASE Step(r) \in {"release", "vhost"} /\ verifying' = verifying
    BY <1>5, <2>1, SMT DEF Applied, StepNames
  <2>2. CASE Step(r) = "apply" /\ r \in verifying /\ verifying' = verifying \ {r}
    <3>1. pc[r] = "do"
      BY <1>1, <2>2, NotVerifying, Zenon
    <3>2. Height(r)' = at[r]
      BY <1>1, <3>1, Climb, SMT
    <3>3. Stands(r, "apply")'
      BY <1>1, <1>4, <2>2, <3>2, OneMore, Zenon
    <3> QED
      BY <2>2, <3>3, Zenon DEF Applied
  <2> QED
    BY <2>1, <2>2
<1>7. \A s \in {"insert", "drop", "deleteRow", "remove", "record"} : Stands(r, s)' <=> Stands(r, s)
  BY <1>5, SMT DEF StepNames
<1>8. PoolsOf(Site(r))' = PoolsOf(Site(r)) /\ Recorded(Site(r))' = Recorded(Site(r)) /\ row'[Site(r)'] = row[Site(r)]
  BY <1>1, Frame, Zenon
<1>9. Kind(r)' = Kind(r) /\ Site(r)' = Site(r) /\ New(r)' = New(r) /\ Old(r)' = Old(r)
  BY <1>1, Frame, Zenon
<1> QED
  BY <1>3, <1>6, <1>7, <1>8, <1>9, SMT DEF Files

LEMMA FilesApply ==
  ASSUME FilesInv, Typed', NEW r \in Requests, ApplyPool(r)
  PROVE  FilesInv'
<1>1. /\ want' = want /\ waits' = waits /\ snap' = snap /\ row' = row /\ UNCHANGED control
      /\ pc[r] = "do" /\ at[r] <= Len(Steps(r)) /\ Step(r) = "apply" /\ r \notin verifying
      /\ had' = [had EXCEPT ![r] = Site(r) \in pool[New(r)]]
      /\ pool' = With(New(r), Site(r)) /\ verifying' = verifying \cup {r} /\ Operation(r)
  BY Zenon DEF ApplyPool, Operation
<1>2. Typed /\ Running(r) /\ at[r] > 0 /\ at[r] \in Nat /\ lock' = lock /\ dirty' = dirty /\ pc' = pc /\ at' = at
  BY <1>1, Climb, SMT DEF FilesInv, Typed, Placed, Running, control
<1>3. SUFFICES ASSUME Undamaged, ~dirty'[r] PROVE Files(r)'
  BY <1>1, <1>2, FilesOfPlan, Zenon
<1>4. Files(r) /\ (Kind(r) = "set" => Waits(r))
  BY <1>2, <1>3, Busy, Zenon
<1>5. Height(r) = at[r] - 1 /\ Height(r)' = at[r] - 1
  BY <1>1, <1>2, Climb, SMT
<1>6. /\ Kind(r) \in {"create", "set"}
      /\ Kind(r) = "create" => at[r] = 1
      /\ Kind(r) = "set" => at[r] = 3
  <2>1. Kind(r) \in {"create", "set"} /\ Pos(r, "apply") = at[r]
    BY <1>1, <1>2, StepIs, Zenon
  <2> QED
    BY <1>4, <2>1, SMT DEF Pos, Waits
<1>7. /\ PoolsOf(Site(r))' = PoolsOf(Site(r)) \cup {New(r)} /\ (had'[r] <=> New(r) \in PoolsOf(Site(r)))
      /\ Recorded(Site(r))' = Recorded(Site(r)) /\ row'[Site(r)'] = row[Site(r)]
  <2>1. had'[r] = (Site(r) \in pool[New(r)])
    BY <1>1, <1>2, Zenon DEF Typed, TypeOK
  <2> QED
    BY <1>1, <1>2, <2>1, Frame, Zenon
<1>8. Applied(r)'
  BY <1>1, SMT DEF Applied
<1>9. CASE Kind(r) = "create"
  <2>1. ~Stands(r, "insert") /\ ~Stands(r, "insert")' /\ ~Stands(r, "apply")
    BY <1>1, <1>5, <1>6, <1>9, Heights, HeightsThen, SMT
  <2>2. PoolsOf(Site(r)) = Recorded(Site(r)) /\ New(r) = Default
    BY <1>1, <1>2, <1>4, <1>9, <2>1, Wanted, SMT DEF Files, Applied, Typed
  <2> QED
    BY <1>1, <1>2, <1>7, <1>8, <1>9, <2>1, <2>2, Frame, SMT DEF Files
<1>10. CASE Kind(r) = "set"
  <2>1. Stands(r, "remove") /\ Stands(r, "remove")' /\ ~Stands(r, "apply") /\ ~Stands(r, "record") /\ ~Stands(r, "record")'
    BY <1>1, <1>4, <1>5, <1>6, <1>10, Heights, HeightsThen, SMT
  <2>2. row[Site(r)] # NoRow /\ row[Site(r)].version = Old(r) /\ PoolsOf(Site(r)) = {}
    BY <1>1, <1>4, <1>10, <2>1, SMT DEF Files, Applied
  <2> QED
    BY <1>1, <1>2, <1>7, <1>8, <1>10, <2>1, <2>2, Frame, SMT DEF Files
<1> QED
  BY <1>6, <1>9, <1>10

LEMMA FilesRecord ==
  ASSUME FilesInv, Typed', NEW r \in Requests, pc[r] = "do", at[r] <= Len(Steps(r)), Record(r)
  PROVE  FilesInv'
<1>1. /\ want' = want /\ waits' = waits /\ snap' = snap /\ pool' = pool /\ verifying' = verifying /\ had' = had
      /\ lock' = lock /\ dirty' = dirty /\ Advanced(r, Len(Steps(r))) /\ Operation(r)
      /\ \/ Step(r) = "insert" /\ row[Site(r)] = NoRow
            /\ row' = [row EXCEPT ![Site(r)] = [id |-> nextId, version |-> Default]]
         \/ Step(r) = "record" /\ IsRow(r) /\ row' = [row EXCEPT ![Site(r)].version = New(r)]
         \/ Step(r) = "deleteRow" /\ row' = [row EXCEPT ![Site(r)] = NoRow]
  BY Zenon DEF Record, Advanced, Operation, Do, servers
<1>2. Typed /\ Running(r) /\ at[r] > 0 /\ at[r] \in Nat
  BY Climb, SMT DEF FilesInv, Typed, Placed, Running
<1>3. SUFFICES ASSUME Undamaged, ~dirty'[r] PROVE Files(r)'
  BY <1>1, <1>2, FilesOfPlan, Zenon
<1>4. Files(r) /\ (Kind(r) = "set" => Waits(r))
  BY <1>1, <1>2, <1>3, Busy, Zenon
<1>5. Height(r) = at[r] - 1 /\ Height(r)' = at[r]
  BY <1>1, <1>2, Climb, Zenon
<1>6. r \notin verifying
  BY <1>1, <1>2, NotThere, SMT
<1>7. /\ Kind(r)' = Kind(r) /\ Site(r)' = Site(r) /\ New(r)' = New(r) /\ Old(r)' = Old(r)
      /\ Site(r) \in Sites /\ row \in [Sites -> Row \cup {NoRow}] /\ PoolsOf(Site(r))' = PoolsOf(Site(r))
      /\ New(r) \in Versions
  BY <1>1, <1>2, Frame, Zenon
<1>8. CASE Step(r) = "insert"
  <2>1. Kind(r) = "create" /\ at[r] = 3
    BY <1>1, <1>2, <1>8, StepIs, SMT DEF Pos
  <2>2. ~Stands(r, "insert") /\ Stands(r, "insert")' /\ Stands(r, "apply")
    BY <1>1, <1>5, <2>1, Heights, HeightsThen, SMT
  <2>3. /\ row[Site(r)] = NoRow /\ row'[Site(r)] = [id |-> nextId, version |-> Default]
        /\ row'[Site(r)] # NoRow /\ row'[Site(r)].version = Default
    <3>1. row[Site(r)] = NoRow /\ row'[Site(r)] = [id |-> nextId, version |-> Default]
      BY <1>1, <1>7, <1>8, SMT
    <3>2. nextId \in Nat
      BY <1>2, Zenon DEF Typed, TypeOK
    <3> QED
      BY <3>1, <3>2, PhpFpmAssumption, SMT DEF Row
  <2>4. PoolsOf(Site(r)) = {Default} /\ ~had[r]
    BY <1>4, <2>1, <2>2, <2>3, SMT DEF Files, Applied, Recorded
  <2> QED
    BY <1>1, <1>7, <2>1, <2>2, <2>3, <2>4, SMT DEF Files
<1>9. CASE Step(r) = "record"
  <2>1. Kind(r) = "set" /\ at[r] = 5
    BY <1>1, <1>2, <1>4, <1>9, StepIs, SMT DEF Pos, Waits
  <2>2. Stands(r, "remove") /\ Stands(r, "remove")' /\ Stands(r, "apply") /\ Stands(r, "apply")' /\ Stands(r, "record")'
    BY <1>1, <1>4, <1>5, <2>1, Heights, HeightsThen, SMT
  <2>3. row'[Site(r)] # NoRow /\ row'[Site(r)].version = New(r)
    <3>1. row[Site(r)] \in Row /\ row' = [row EXCEPT ![Site(r)].version = New(r)]
      BY <1>1, <1>7, <1>9, SMT DEF IsRow
    <3>2. row'[Site(r)] \in Row /\ row'[Site(r)].version = New(r)
      BY <1>7, <3>1, SMT DEF Row
    <3> QED
      BY <3>2, PhpFpmAssumption, SMT
  <2>4. PoolsOf(Site(r)) = {New(r)} /\ ~had[r]
    BY <1>4, <2>1, <2>2, SMT DEF Files, Applied
  <2> QED
    BY <1>1, <1>7, <2>1, <2>2, <2>3, <2>4, SMT DEF Files, Applied
<1>10. CASE Step(r) = "deleteRow"
  <2>1. Kind(r) = "delete" /\ at[r] = 3
    BY <1>1, <1>2, <1>10, StepIs, SMT DEF Pos
  <2>2. Stands(r, "drop") /\ Stands(r, "drop")'
    BY <1>1, <1>5, <2>1, Heights, HeightsThen, SMT
  <2>3. row'[Site(r)] = NoRow
    BY <1>1, <1>7, <1>10, SMT
  <2>4. PoolsOf(Site(r)) = {}
    BY <1>4, <2>1, <2>2, SMT DEF Files
  <2> QED
    BY <1>1, <1>7, <2>1, <2>2, <2>3, <2>4, SMT DEF Files
<1> QED
  BY <1>1, <1>8, <1>9, <1>10

(* A step that has failed: the plan turns back at the same height.         *)
LEMMA FilesFail ==
  ASSUME FilesInv, Typed', NEW r \in Requests, Fail(r)
  PROVE  FilesInv'
<1>1. /\ pc[r] = "do" /\ Failed(r) /\ Operation(r) /\ lock' = lock /\ dirty' = dirty
      /\ want' = want /\ waits' = waits /\ snap' = snap /\ row' = row /\ had' = had
  BY Zenon DEF Fail, FailClean, ApplyFails, RemoveFails, Failed, Operation, data
<1>2. Typed /\ Running(r) /\ at[r] > 0 /\ at[r] \in Nat
  BY <1>1, Climb, SMT DEF FilesInv, Typed, Placed, Running
<1>3. SUFFICES ASSUME Undamaged, Undamaged', ~dirty'[r] PROVE Files(r)'
  BY <1>1, <1>2, FilesOfPlan, Zenon
<1>4. Files(r) /\ (Kind(r) = "set" => Waits(r))
  BY <1>1, <1>2, <1>3, Busy, Zenon
<1>5. Height(r) = at[r] - 1 /\ Height(r)' = at[r] - 1
  BY <1>1, <1>2, Climb, Zenon
<1>6. CASE FailClean(r) \/ RemoveFails(r)
  <2>1. verifying' = verifying /\ pool' = pool
    <3>1. CASE FailClean(r)
      BY <3>1, Zenon DEF FailClean, data, servers
    <3>2. CASE RemoveFails(r)
      <4>1. r \notin torn'
        BY <1>3, SMT DEF Undamaged
      <4> QED
        BY <3>2, <4>1, SMT DEF RemoveFails
    <3> QED
      BY <1>6, <3>1, <3>2
  <2> QED
    BY <1>1, <1>4, <1>5, <2>1, FilesKept, Zenon
<1>7. CASE ApplyFails(r)
  <2>1. /\ at[r] <= Len(Steps(r)) /\ Step(r) = "apply" /\ verifying' = verifying \ {r}
        /\ pool' = IF (IF r \in verifying THEN had[r] ELSE Site(r) \in pool[New(r)])
                   THEN With(New(r), Site(r)) ELSE Without(New(r), Site(r))
    <3>1. r \notin torn'
      BY <1>3, SMT DEF Undamaged
    <3> QED
      BY <1>7, <3>1, SMT DEF ApplyFails
  <2>2. /\ Kind(r) \in {"create", "set"}
        /\ Kind(r) = "create" => at[r] = 1
        /\ Kind(r) = "set" => at[r] = 3
    <3>1. Kind(r) \in {"create", "set"} /\ Pos(r, "apply") = at[r]
      BY <1>2, <2>1, StepIs, Zenon
    <3> QED
      BY <1>4, <3>1, SMT DEF Pos, Waits
  <2>3. /\ PoolsOf(Site(r))' = IF (IF r \in verifying THEN had[r] ELSE New(r) \in PoolsOf(Site(r)))
                               THEN PoolsOf(Site(r)) \cup {New(r)} ELSE PoolsOf(Site(r)) \ {New(r)}
        /\ Recorded(Site(r))' = Recorded(Site(r)) /\ row'[Site(r)'] = row[Site(r)]
        /\ Kind(r)' = Kind(r) /\ Site(r)' = Site(r) /\ New(r)' = New(r) /\ Old(r)' = Old(r)
    <3>1. /\ New(r) \in Versions /\ (Site(r) \in pool[New(r)] <=> New(r) \in PoolsOf(Site(r)))
          /\ pool' = With(New(r), Site(r)) => PoolsOf(Site(r))' = PoolsOf(Site(r)) \cup {New(r)}
          /\ pool' = Without(New(r), Site(r)) => PoolsOf(Site(r))' = PoolsOf(Site(r)) \ {New(r)}
      BY <1>1, <1>2, Frame, Zenon
    <3>2. /\ Recorded(Site(r))' = Recorded(Site(r)) /\ row'[Site(r)'] = row[Site(r)]
          /\ Kind(r)' = Kind(r) /\ Site(r)' = Site(r) /\ New(r)' = New(r) /\ Old(r)' = Old(r)
      BY <1>1, <1>2, Frame, Zenon
    <3> QED
      BY <2>1, <3>1, <3>2, Zenon
  <2>4. CASE Kind(r) = "create"
    <3>1. ~Stands(r, "insert") /\ ~Stands(r, "insert")' /\ ~Stands(r, "apply") /\ ~Stands(r, "apply")'
      BY <1>1, <1>5, <2>2, <2>4, Heights, HeightsThen, SMT
    <3>2. New(r) = Default /\ ~Applied(r)'
      BY <1>2, <2>1, <2>4, <3>1, Wanted, SMT DEF Applied, Typed
    <3>3. PoolsOf(Site(r))' = Recorded(Site(r))
      <4>1. CASE r \in verifying
        <5>1. PoolsOf(Site(r))' = IF had[r] THEN PoolsOf(Site(r)) \cup {Default} ELSE PoolsOf(Site(r)) \ {Default}
          BY <2>3, <3>2, <4>1, Zenon
        <5>2. PoolsOf(Site(r)) = Recorded(Site(r)) \cup {Default} /\ (had[r] <=> Default \in Recorded(Site(r)))
          BY <1>4, <2>4, <3>1, <4>1, Zenon DEF Files, Applied
        <5> QED
          BY <5>1, <5>2, SMT
      <4>2. CASE r \notin verifying
        <5>1. PoolsOf(Site(r))' = IF Default \in PoolsOf(Site(r))
                                  THEN PoolsOf(Site(r)) \cup {Default} ELSE PoolsOf(Site(r)) \ {Default}
          BY <2>3, <3>2, <4>2, Zenon
        <5>2. PoolsOf(Site(r)) = Recorded(Site(r))
          BY <1>4, <2>4, <3>1, <4>2, Zenon DEF Files, Applied
        <5> QED
          BY <5>1, <5>2, SMT
      <4> QED
        BY <4>1, <4>2
    <3> QED
      BY <2>3, <2>4, <3>1, <3>2, <3>3, SMT DEF Files
  <2>5. CASE Kind(r) = "set"
    <3>1. Stands(r, "remove") /\ Stands(r, "remove")' /\ ~Stands(r, "apply") /\ ~Stands(r, "record") /\ ~Stands(r, "record")'
          /\ ~Stands(r, "apply")'
      BY <1>1, <1>4, <1>5, <2>2, <2>5, Heights, HeightsThen, SMT
    <3>2. ~Applied(r)'
      BY <2>1, <3>1, SMT DEF Applied
    <3>3. row[Site(r)] # NoRow /\ row[Site(r)].version = Old(r) /\ PoolsOf(Site(r))' = {}
      BY <1>4, <2>3, <2>5, <3>1, SMT DEF Files, Applied
    <3> QED
      BY <2>3, <2>5, <3>1, <3>2, <3>3, SMT DEF Files
  <2> QED
    BY <2>2, <2>4, <2>5
<1> QED
  BY <1>6, <1>7, Zenon DEF Fail

LEMMA FilesUndoPool ==
  ASSUME FilesInv, Typed', NEW r \in Requests, pc[r] = "undo", at[r] > 0, UndoPool(r)
  PROVE  FilesInv'
<1>1. /\ want' = want /\ waits' = waits /\ snap' = snap /\ row' = row /\ verifying' = verifying /\ had' = had
      /\ lock' = lock /\ dirty' = dirty /\ Undid(r) /\ Operation(r)
      /\ Step(r) \in {"apply", "remove"} /\ pool' = Restored(r)
  BY Zenon DEF UndoPool, Undid, Operation, Undo
<1>2. Typed /\ Running(r) /\ at[r] \in Nat /\ at[r] <= Len(Steps(r)) /\ r \notin verifying
  <2>1. Typed /\ Running(r) /\ at[r] \in 0..Last(r) /\ Last(r) \in 1..5 /\ Len(Steps(r)) = Last(r)
    BY StepPlaces, Zenon DEF FilesInv, Typed, Placed, Running
  <2> QED
    BY <2>1, NotVerifying, SMT
<1>3. SUFFICES ASSUME Undamaged, ~dirty'[r] PROVE Files(r)'
  BY <1>1, <1>2, FilesOfPlan, Zenon
<1>4. Files(r) /\ (Kind(r) = "set" => Waits(r))
  BY <1>1, <1>2, <1>3, Busy, Zenon
<1>5. Height(r) = at[r] /\ Height(r)' = at[r] - 1
  BY <1>1, <1>2, Climb, Zenon
<1>6. Step(r) \in {"apply", "remove"} /\ Pos(r, Step(r)) = at[r] /\ Kind(r) \in {"create", "set"}
      /\ (Step(r) = "remove" => Kind(r) = "set")
  BY <1>1, <1>2, StepIs, SMT
<1>7. /\ Kind(r)' = Kind(r) /\ Site(r)' = Site(r) /\ New(r)' = New(r) /\ Old(r)' = Old(r)
      /\ Recorded(Site(r))' = Recorded(Site(r)) /\ row'[Site(r)'] = row[Site(r)] /\ New(r) \in Versions
  BY <1>1, <1>2, Frame, Zenon
<1>8. CASE Step(r) = "apply"
  <2>1. PoolsOf(Site(r))' = IF had[r] THEN PoolsOf(Site(r)) \cup {New(r)} ELSE PoolsOf(Site(r)) \ {New(r)}
    <3>1. pool' = IF had[r] THEN With(New(r), Site(r)) ELSE Without(New(r), Site(r))
      BY <1>1, <1>8, SMT DEF Restored
    <3> QED
      BY <1>1, <1>2, <1>7, <3>1, Frame, Zenon
  <2>2. CASE Kind(r) = "create"
    <3>1. at[r] = 1
      BY <1>6, <1>8, <2>2, SMT DEF Pos
    <3>2. Stands(r, "apply") /\ ~Stands(r, "insert") /\ ~Stands(r, "insert")' /\ ~Stands(r, "apply")'
      BY <1>1, <1>5, <2>2, <3>1, Heights, HeightsThen, SMT
    <3>3. New(r) = Default /\ ~Applied(r)'
      BY <1>1, <1>2, <2>2, <3>2, Wanted, SMT DEF Applied, Typed
    <3>4. PoolsOf(Site(r))' = Recorded(Site(r))
      BY <1>4, <2>1, <2>2, <3>2, <3>3, SMT DEF Files, Applied, Recorded
    <3> QED
      BY <1>7, <2>2, <3>2, <3>3, <3>4, SMT DEF Files
  <2>3. CASE Kind(r) = "set"
    <3>1. at[r] = 3
      BY <1>4, <1>6, <1>8, <2>3, SMT DEF Pos, Waits
    <3>2. /\ Stands(r, "remove") /\ Stands(r, "remove")' /\ Stands(r, "apply") /\ ~Stands(r, "record") /\ ~Stands(r, "record")'
          /\ ~Stands(r, "apply")'
      BY <1>1, <1>4, <1>5, <2>3, <3>1, Heights, HeightsThen, SMT
    <3>3. ~Applied(r)'
      BY <1>1, <1>2, <3>2, Zenon DEF Applied
    <3>4. row[Site(r)] # NoRow /\ row[Site(r)].version = Old(r) /\ PoolsOf(Site(r))' = {}
      BY <1>4, <2>1, <2>3, <3>2, SMT DEF Files, Applied
    <3> QED
      BY <1>7, <2>3, <3>2, <3>3, <3>4, SMT DEF Files
  <2> QED
    BY <1>6, <2>2, <2>3
<1>9. CASE Step(r) = "remove"
  <2>1. Kind(r) = "set" /\ at[r] = 1 /\ Old(r) \in Versions
    <3>1. Kind(r) = "set" /\ at[r] = 1
      BY <1>4, <1>6, <1>9, SMT DEF Pos
    <3> QED
      BY <1>2, <3>1, OldVersion, SMT
  <2>2. Stands(r, "remove") /\ ~Stands(r, "remove")' /\ ~Stands(r, "apply") /\ ~Stands(r, "record")
    BY <1>1, <1>4, <1>5, <2>1, Heights, HeightsThen, SMT
  <2>3. row[Site(r)] # NoRow /\ row[Site(r)].version = Old(r) /\ PoolsOf(Site(r)) = {}
    BY <1>2, <1>4, <2>1, <2>2, SMT DEF Files, Applied
  <2>4. PoolsOf(Site(r))' = PoolsOf(Site(r)) \cup {Old(r)}
    <3>1. pool' = With(Old(r), Site(r))
      BY <1>1, <1>9, SMT DEF Restored
    <3> QED
      BY <1>1, <1>2, <2>1, <3>1, Frame, Zenon
  <2>5. PoolsOf(Site(r))' = Recorded(Site(r))
    BY <2>3, <2>4, SMT DEF Recorded
  <2> QED
    BY <1>7, <2>1, <2>2, <2>5, SMT DEF Files
<1> QED
  BY <1>6, <1>8, <1>9

LEMMA FilesUndoRow ==
  ASSUME FilesInv, Typed', NEW r \in Requests, pc[r] = "undo", at[r] > 0, UndoRow(r)
  PROVE  FilesInv'
<1>1. /\ want' = want /\ waits' = waits /\ snap' = snap /\ pool' = pool /\ verifying' = verifying /\ had' = had
      /\ lock' = lock /\ dirty' = dirty /\ Undid(r) /\ Operation(r)
      /\ \/ Step(r) = "insert" /\ row' = [row EXCEPT ![Site(r)] = NoRow]
         \/ Step(r) = "record" /\ IsRow(r) /\ row' = [row EXCEPT ![Site(r)].version = Old(r)]
         \/ Step(r) = "deleteRow"
  BY Zenon DEF UndoRow, Undid, Operation, Undo, servers
<1>2. Typed /\ Running(r) /\ at[r] \in Nat /\ at[r] <= Len(Steps(r)) /\ r \notin verifying
  <2>1. Typed /\ Running(r) /\ at[r] \in 0..Last(r) /\ Last(r) \in 1..5 /\ Len(Steps(r)) = Last(r)
    BY StepPlaces, Zenon DEF FilesInv, Typed, Placed, Running
  <2> QED
    BY <2>1, NotVerifying, SMT
<1>3. SUFFICES ASSUME Undamaged, ~dirty'[r] PROVE Files(r)'
  BY <1>1, <1>2, FilesOfPlan, Zenon
<1>4. Files(r) /\ (Kind(r) = "set" => Waits(r))
  BY <1>1, <1>2, <1>3, Busy, Zenon
<1>5. Height(r) = at[r] /\ Height(r)' = at[r] - 1
  BY <1>1, <1>2, Climb, Zenon
<1>6. /\ Kind(r)' = Kind(r) /\ Site(r)' = Site(r) /\ New(r)' = New(r) /\ Old(r)' = Old(r)
      /\ Site(r) \in Sites /\ row \in [Sites -> Row \cup {NoRow}] /\ PoolsOf(Site(r))' = PoolsOf(Site(r))
      /\ New(r) \in Versions
  BY <1>1, <1>2, Frame, Zenon
<1>7. CASE Step(r) = "insert"
  <2>1. Kind(r) = "create" /\ at[r] = 3
    BY <1>1, <1>2, <1>7, StepIs, SMT DEF Pos
  <2>2. Stands(r, "insert") /\ ~Stands(r, "insert")' /\ Stands(r, "apply")'
    BY <1>1, <1>5, <2>1, Heights, HeightsThen, SMT
  <2>3. Recorded(Site(r))' = {}
    BY <1>1, <1>6, <1>7, SMT DEF Recorded
  <2>4. PoolsOf(Site(r)) = {Default} /\ ~had[r]
    BY <1>4, <2>1, <2>2, SMT DEF Files
  <2> QED
    BY <1>1, <1>6, <2>1, <2>2, <2>3, <2>4, SMT DEF Files, Applied
<1>8. CASE Step(r) = "record"
  <2>1. Kind(r) = "set" /\ at[r] = 5
    BY <1>1, <1>2, <1>4, <1>8, StepIs, SMT DEF Pos, Waits
  <2>2. Stands(r, "remove") /\ Stands(r, "remove")' /\ Stands(r, "apply") /\ Stands(r, "apply")' /\ ~Stands(r, "record")'
    BY <1>1, <1>4, <1>5, <2>1, Heights, HeightsThen, SMT
  <2>3. row'[Site(r)] # NoRow /\ row'[Site(r)].version = Old(r)
    <3>1. row[Site(r)] \in Row /\ row' = [row EXCEPT ![Site(r)].version = Old(r)] /\ Old(r) \in Versions
      <4>1. Old(r) \in Versions
        BY <1>2, <2>1, OldVersion, SMT
      <4> QED
        BY <1>1, <1>6, <1>8, <4>1, SMT DEF IsRow
    <3>2. row'[Site(r)] \in Row /\ row'[Site(r)].version = Old(r)
      BY <1>6, <3>1, SMT DEF Row
    <3> QED
      BY <3>2, PhpFpmAssumption, SMT
  <2>4. PoolsOf(Site(r)) = {New(r)} /\ ~had[r]
    BY <1>4, <2>1, <2>2, SMT DEF Files, Applied
  <2> QED
    BY <1>1, <1>6, <2>1, <2>2, <2>3, <2>4, SMT DEF Files, Applied
<1>9. CASE Step(r) = "deleteRow"
  <2>1. Kind(r) = "delete" /\ at[r] = 3
    BY <1>1, <1>2, <1>9, StepIs, SMT DEF Pos
  <2>2. Stands(r, "drop") /\ Stands(r, "drop")' /\ ~Stands(r, "deleteRow")'
    BY <1>1, <1>5, <2>1, Heights, HeightsThen, SMT
  <2>3. PoolsOf(Site(r)) = {}
    BY <1>4, <2>1, <2>2, SMT DEF Files
  <2> QED
    BY <1>1, <1>6, <2>1, <2>2, <2>3, SMT DEF Files
<1> QED
  BY <1>1, <1>7, <1>8, <1>9

(* The call ends: what the plan leaves is what its verdict says.           *)
LEMMA FilesReturn ==
  ASSUME FilesInv, Typed', NEW r \in Requests, Return(r)
  PROVE  FilesInv'
<1>1. /\ want' = want /\ waits' = waits /\ pool' = pool /\ row' = row /\ Ended(r, Len(Steps(r)))
      /\ lock = r /\ lock' = NoRequest /\ Operation(r)
  BY Zenon DEF Return, Ended, Operation, servers
<1>2. Typed /\ Running(r) /\ at[r] \in Nat /\ pc \in [Requests -> PCs] /\ Len(Steps(r)) = Last(r) /\ Last(r) \in 1..5
  BY <1>1, StepPlaces, Climb, Zenon DEF FilesInv, Typed, TypeOK, ControlTyped, Placed
<1>3. SUFFICES ASSUME Undamaged' PROVE PoolsOf(Site(r))' = Recorded(Site(r))'
  <2>1. r # NoRequest
    BY RequestsAssumption
  <2> QED
    BY <1>1, <1>2, <2>1, FilesFrame, Zenon
<1>4. PoolsOf(Site(r))' = PoolsOf(Site(r)) /\ Recorded(Site(r))' = Recorded(Site(r)) /\ Kind(r) \in {"create", "delete", "set"}
  BY <1>1, SameTask, Wanted, Zenon DEF PoolsOf, Recorded, Typed, FilesInv
<1>5. Undamaged /\ (Kind(r) = "set" => Waits(r)) /\ (~dirty[r] => Files(r))
  BY <1>1, <1>2, <1>3, Damage, Busy, Zenon
<1>6. \/ pc[r] = "do" /\ at[r] > Last(r)
      \/ pc[r] = "undo" /\ at[r] = 0 /\ ~dirty[r]
  <2>1. pc'[r] \notin {"inconsistent", "running"}
    BY <1>3, Zenon DEF Undamaged
  <2> QED
    BY <1>1, <1>2, <2>1, SMT DEF Ended, Goto, Verdict
<1>7. CASE pc[r] = "do" /\ at[r] > Last(r)
  <2>1. Files(r) /\ Height(r) >= Last(r)
    BY <1>2, <1>5, <1>7, Climb, SMT DEF Typed, Placed
  <2>2. CASE Kind(r) = "create"
    <3>1. Stands(r, "insert")
      BY <2>1, <2>2, Heights, SMT DEF Last, Waits
    <3> QED
      BY <1>4, <2>1, <2>2, <3>1, SMT DEF Files, Recorded
  <2>3. CASE Kind(r) = "delete"
    <3>1. Stands(r, "drop") /\ Stands(r, "deleteRow")
      BY <1>2, <2>1, <2>3, Heights, Climb, SMT DEF Last, Waits, Height
    <3> QED
      BY <1>4, <2>1, <2>3, <3>1, SMT DEF Files, Recorded
  <2>4. CASE Kind(r) = "set"
    <3>1. Stands(r, "remove") /\ Stands(r, "apply") /\ Stands(r, "record")
      BY <1>2, <1>5, <2>1, <2>4, Heights, Climb, SMT DEF Last, Height
    <3> QED
      BY <1>4, <2>1, <2>4, <3>1, SMT DEF Files, Recorded, Applied
  <2> QED
    BY <1>4, <2>2, <2>3, <2>4
<1>8. CASE pc[r] = "undo" /\ at[r] = 0 /\ ~dirty[r]
  <2>1. Files(r) /\ Height(r) = 0 /\ r \notin verifying
    BY <1>2, <1>5, <1>8, Climb, NotVerifying, SMT
  <2>2. CASE Kind(r) = "create"
    <3>1. ~Stands(r, "insert") /\ ~Stands(r, "apply")
      BY <2>1, <2>2, Heights, SMT
    <3> QED
      BY <1>4, <2>1, <2>2, <3>1, SMT DEF Files, Applied
  <2>3. CASE Kind(r) = "delete"
    <3>1. ~Stands(r, "drop")
      BY <2>1, <2>3, Heights, SMT
    <3> QED
      BY <1>4, <2>1, <2>3, <3>1, SMT DEF Files
  <2>4. CASE Kind(r) = "set"
    <3>1. ~Stands(r, "remove")
      BY <1>5, <2>1, <2>4, Heights, SMT
    <3> QED
      BY <1>4, <2>1, <2>4, <3>1, SMT DEF Files
  <2> QED
    BY <1>4, <2>2, <2>3, <2>4
<1> QED
  BY <1>6, <1>7, <1>8

LEMMA FilesStep == FilesInv /\ [Next]_vars => FilesInv'
<1> SUFFICES ASSUME FilesInv, [Next]_vars PROVE FilesInv'
  OBVIOUS
<1>1. Typed'
  BY TypedStep, Zenon DEF FilesInv
<1>2. ASSUME NEW r \in Requests, Operation(r) PROVE FilesInv'
  <2>1. CASE Prepare(r) \/ Refuse(r) \/ Start(r) \/ ApplyPool(r) \/ Fail(r) \/ Return(r)
    BY <1>1, <2>1, FilesIdle, FilesStart, FilesApply, FilesFail, FilesReturn, Zenon
  <2>2. CASE Do(r)
    <3>1. Typed /\ pc[r] = "do" /\ at[r] <= Len(Steps(r)) /\ at[r] > 0 /\ Running(r)
      BY <2>2, SMT DEF Do, FilesInv, Typed, Placed, Running
    <3>2. CASE \E step \in {"remove", "drop"} : RemovePool(r, step)
      BY <1>1, <3>1, <3>2, FilesRemove, Zenon
    <3>3. CASE Release(r) \/ VHost(r)
      <4>1. /\ Advanced(r, Len(Steps(r))) /\ Step(r) \in {"release", "vhost"} /\ verifying' = verifying
            /\ pool' = pool /\ row' = row /\ want' = want /\ waits' = waits /\ snap' = snap /\ had' = had
        BY <3>3, Zenon DEF Release, VHost, data, servers
      <4> QED
        BY <1>1, <1>2, <3>1, <4>1, FilesQuiet, Zenon
    <3>4. CASE Verify(r)
      <4>1. /\ Advanced(r, Len(Steps(r))) /\ r \in verifying /\ verifying' = verifying \ {r}
            /\ pool' = pool /\ row' = row /\ want' = want /\ waits' = waits /\ snap' = snap /\ had' = had
        BY <3>4, Zenon DEF Verify, servers
      <4>2. Step(r) = "apply"
        BY <3>1, <4>1, NotThere, Zenon
      <4> QED
        BY <1>1, <1>2, <3>1, <4>1, <4>2, FilesQuiet, Zenon
    <3>5. CASE Record(r)
      BY <1>1, <3>1, <3>5, FilesRecord, Zenon
    <3> QED
      BY <2>2, <3>2, <3>3, <3>4, <3>5, Zenon DEF Do
  <2>3. CASE Undo(r)
    <3>1. Typed /\ pc[r] = "undo" /\ at[r] > 0 /\ Running(r) /\ at[r] <= Len(Steps(r))
      <4>1. Typed /\ pc[r] = "undo" /\ at[r] > 0 /\ Running(r) /\ at[r] \in 0..Last(r) /\ Len(Steps(r)) = Last(r) /\ Last(r) \in 1..5
        BY <2>3, StepPlaces, Zenon DEF Undo, FilesInv, Typed, Placed, Running
      <4> QED
        BY <4>1, SMT
    <3>2. CASE UndoNothing(r)
      <4>1. /\ Undid(r) /\ Step(r) \in {"release", "vhost"} /\ verifying' = verifying
            /\ pool' = pool /\ row' = row /\ want' = want /\ waits' = waits /\ snap' = snap /\ had' = had
        BY <3>2, Zenon DEF UndoNothing, data, servers
      <4> QED
        BY <1>1, <1>2, <3>1, <4>1, FilesQuiet, Zenon
    <3> QED
      BY <1>1, <2>3, <3>1, <3>2, FilesUndoPool, FilesUndoRow, Zenon DEF Undo
  <2>4. CASE UndoFails(r)
    <3>1. pc[r] = "undo" /\ lock' = lock /\ dirty' = [dirty EXCEPT ![r] = TRUE] /\ dirty \in [Requests -> BOOLEAN]
      BY <2>4, Zenon DEF UndoFails, DidNotUndo, FilesInv, Typed, TypeOK, ControlTyped
    <3>2. dirty'[r] /\ Running(r)
      BY <3>1, SMT DEF Running
    <3> QED
      BY <1>1, <1>2, <3>1, <3>2, FilesOfPlan, Zenon
  <2> QED
    BY <1>2, <2>1, <2>2, <2>3, <2>4, Zenon DEF Operation
<1>3. CASE (\E v \in Versions : Reread(v)) \/ UNCHANGED vars
  BY <1>1, <1>3, FilesReread, Zenon
<1> QED
  BY <1>2, <1>3, Zenon DEF Next

LEMMA FilesInit == ASSUME Init PROVE FilesInv
<1>1. Typed /\ lock = NoRequest /\ NoRequest \notin Requests
  BY TypedInit, RequestsAssumption, Zenon DEF Init, ControlInit
<1>2. \A s \in Sites : PoolsOf(s) = Recorded(s)
  <2>1. PICK first \in Before :
          /\ row = [s \in Sites |-> IF first[s] = NoRow THEN NoRow ELSE [id |-> 1, version |-> first[s]]]
          /\ pool = [v \in Versions |-> {s \in Sites : first[s] = v}]
    BY Zenon DEF Init
  <2>2. \A s \in Sites : first[s] \in Versions \cup {NoRow}
    BY PhpFpmAssumption, Zenon
  <2>3. ASSUME NEW s \in Sites PROVE PoolsOf(s) = Recorded(s)
    <3>1. CASE first[s] = NoRow
      BY <2>1, <3>1, PhpFpmAssumption, SMT DEF PoolsOf, Recorded
    <3>2. CASE first[s] # NoRow
      <4>1. row[s] = [id |-> 1, version |-> first[s]] /\ row[s] \in Row /\ first[s] \in Versions
        BY <2>1, <2>2, <3>2, SMT DEF Row
      <4>2. row[s] # NoRow
        BY <4>1, PhpFpmAssumption, SMT
      <4>3. Recorded(s) = {first[s]}
        BY <4>1, <4>2, SMT DEF Recorded
      <4> QED
        BY <2>1, <4>1, <4>3, SMT DEF PoolsOf
    <3> QED
      BY <3>1, <3>2
  <2> QED
    BY <2>3
<1> QED
  BY <1>1, <1>2, Zenon DEF FilesInv, FilesOK

-----------------------------------------------------------------------------
(* Where an operation takes its request.                                   *)
LEMMA Paths ==
  ASSUME Typed, NEW r \in Requests, Operation(r)
  PROVE  /\ pc'[r] = "ready" => Prepare(r)
         /\ pc'[r] = "do" => pc[r] = "do" \/ Start(r)
         /\ pc'[r] # "new"
<1>1. pc \in [Requests -> PCs]
  BY Zenon DEF Typed, TypeOK, ControlTyped
<1>2. CASE Prepare(r) \/ Refuse(r) \/ Start(r)
  BY <1>1, <1>2, SMT DEF Prepare, Refuse, Start, Prepared, Refused, Started, Goto
<1>3. CASE ApplyPool(r)
  BY <1>3, SMT DEF ApplyPool, control
<1>4. CASE Do(r)
  <2>1. pc' = pc /\ pc[r] = "do"
    BY <1>4, Zenon DEF Do, RemovePool, Release, Verify, VHost, Record, Advanced
  <2> QED
    BY <2>1
<1>5. CASE Fail(r)
  <2>1. pc' = [pc EXCEPT ![r] = "undo"]
    BY <1>5, Zenon DEF Fail, FailClean, ApplyFails, RemoveFails, Failed, Goto
  <2> QED
    BY <1>1, <2>1, SMT
<1>6. CASE Undo(r) \/ UndoFails(r)
  <2>1. pc' = pc /\ pc[r] = "undo"
    BY <1>6, Zenon DEF Undo, UndoPool, UndoRow, UndoNothing, UndoFails, Undid, DidNotUndo
  <2> QED
    BY <2>1
<1>7. CASE Return(r)
  <2>1. \E w \in Verdicts : pc' = [pc EXCEPT ![r] = w]
    BY <1>7, SMT DEF Return, Ended, Goto, Verdict, Verdicts
  <2> QED
    BY <1>1, <2>1, SMT DEF Verdicts
<1> QED
  BY <1>2, <1>3, <1>4, <1>5, <1>6, <1>7, Zenon DEF Operation

(* A plan that goes on keeps what it has done.                             *)
LEMMA Onward ==
  ASSUME Typed, NEW r \in Requests, Operation(r), pc[r] = "do", pc'[r] = "do"
  PROVE  /\ \A s \in StepNames : Stands(r, s) => Stands(r, s)'
         /\ \A s \in StepNames : ~Stands(r, s) /\ Stands(r, s)' => Advanced(r, Len(Steps(r))) /\ Step(r) = s
         /\ Applied(r) => Applied(r)'
<1>1. at[r] \in Nat /\ at[r] > 0 /\ Running(r) /\ pc \in [Requests -> PCs] /\ want' = want
  BY Climb, Course, SMT DEF Typed, Placed, TypeOK, ControlTyped, Running
<1>2. CASE ApplyPool(r)
  <2>1. Height(r)' = Height(r) /\ waits' = waits
    BY <1>1, <1>2, Climb, Zenon DEF ApplyPool, control
  <2>2. \A s : Stands(r, s)' <=> Stands(r, s)
    <3>1. \A s : Pos(r, s)' = Pos(r, s)
      BY <1>1, <2>1, SamePlan, Zenon
    <3> QED
      BY <2>1, <3>1, Zenon DEF Stands
  <2> QED
    BY <1>2, <2>2, SMT DEF ApplyPool, Applied
<1>3. CASE Do(r)
  <2>1. waits' = waits /\ Advanced(r, Len(Steps(r))) /\ at[r] <= Len(Steps(r))
    BY <1>3, Zenon DEF Do, RemovePool, Release, Verify, VHost, Record, data
  <2>2. Height(r) = at[r] - 1 /\ Height(r)' = at[r]
    BY <1>1, <2>1, Climb, Zenon
  <2>3. \A s : Stands(r, s)' <=> 0 < Pos(r, s) /\ Pos(r, s) <= at[r]
    <3>1. \A s : Pos(r, s)' = Pos(r, s)
      BY <1>1, <2>1, SamePlan, Zenon
    <3> QED
      BY <2>2, <3>1, Zenon DEF Stands
  <2>4. ASSUME NEW s \in StepNames, Stands(r, s) PROVE Stands(r, s)'
    <3>1. 0 < Pos(r, s) /\ Pos(r, s) <= at[r] - 1
      BY <2>2, <2>4, Zenon DEF Stands
    <3>2. Pos(r, s) \in Nat
      BY StepPlaces, SMT DEF Typed
    <3>3. Pos(r, s) <= at[r]
      BY <1>1, <3>1, <3>2, SMT
    <3> QED
      BY <2>3, <3>1, <3>3, Zenon
  <2>5. \A s \in StepNames \ {Step(r)} : Stands(r, s)' <=> Stands(r, s)
    BY <1>1, <2>1, <2>2, OneMore, Zenon
  <2>6. Applied(r) => Applied(r)'
    <3>1. CASE Verify(r)
      <4>1. Step(r) = "apply" /\ Pos(r, "apply") = at[r]
        <5>1. Step(r) = "apply"
          BY <1>1, <2>1, <3>1, NotThere, Zenon DEF Verify
        <5> QED
          BY <1>1, <2>1, <5>1, StepIs, Zenon
      <4>2. Stands(r, "apply")'
        BY <1>1, <2>3, <4>1, SMT
      <4> QED
        BY <4>2, Zenon DEF Applied
    <3>2. CASE verifying' = verifying
      BY <2>4, <3>2, Zenon DEF Applied, StepNames
    <3> QED
      BY <1>3, <3>1, <3>2, Zenon DEF Do, RemovePool, Release, VHost, Record, data
  <2> QED
    BY <2>1, <2>4, <2>5, <2>6, Zenon
<1> QED
  <2>1. ~Prepare(r) /\ ~Refuse(r) /\ ~Start(r)
    BY SMT DEF Prepare, Refuse, Start, Prepared, Refused, Started
  <2>2. ~Fail(r) /\ ~Undo(r) /\ ~UndoFails(r)
    BY <1>1, SMT DEF Fail, FailClean, ApplyFails, RemoveFails, Failed, Goto, Undo, UndoFails, DidNotUndo
  <2>3. ~Return(r)
    BY <1>1, SMT DEF Return, Ended, Goto, Verdict
  <2> QED
    BY <1>2, <1>3, <2>1, <2>2, <2>3, Zenon DEF Operation

(* The servers are calm only if they have been.                            *)
LEMMA CalmBefore ==
  ASSUME Typed, NEW r \in Requests, Operation(r), Calm'
  PROVE  Calm
<1>1. Undamaged
  BY Damage, Zenon DEF Calm
<1>2. undone = {} /\ contested = {}
  BY Course, SMT DEF Calm
<1> QED
  BY <1>1, <1>2, Zenon DEF Calm

(***************************************************************************)
(* Steps that install no pool and let no master read: pools may go, whose  *)
(* sockets have to be left over, and signals may come.                     *)
(***************************************************************************)
Shrinks ==
  /\ \A v \in Versions : pool'[v] \subseteq pool[v]
  /\ up' = up /\ listens' = listens /\ reloading \subseteq reloading'

LEMMA Shrinking ==
  ASSUME OnePool, MastersRun, PoolsAreServed, SocketsAreFree, Shrinks, up \subseteq Versions
  PROVE  OnePool' /\ MastersRun' /\ PoolsAreServed' /\ SocketsAreFree'
<1>1. OnePool'
  BY SMT DEF OnePool, PoolsOf, Shrinks
<1>2. MastersRun'
  BY SMT DEF MastersRun, Shrinks
<1>3. PoolsAreServed'
  <2>1. SUFFICES ASSUME NEW v \in up' \ reloading' PROVE pool'[v] \subseteq listens'[v]
    BY Zenon DEF PoolsAreServed
  <2>2. pool[v] \subseteq listens[v] /\ v \in Versions
    BY SMT DEF PoolsAreServed, Shrinks
  <2> QED
    BY <2>2, SMT DEF Shrinks
<1>4. SocketsAreFree'
  BY SMT DEF SocketsAreFree, Shrinks
<1> QED
  BY <1>1, <1>2, <1>3, <1>4

LEMMA LeftoversKept ==
  ASSUME NoLeftovers, Shrinks, want' = want, listens \in [Versions -> SUBSET Sites],
         \A s \in Sites : row[s] = NoRow =>
            row'[s] = NoRow \/ s \in pool'[Default] \/ \E q \in Requests : Backing(q)' /\ Site(q) = s,
         \A q \in Requests : Backing(q) => Backing(q)',
         \A v \in Versions : \A s \in pool[v] \ pool'[v] : Leftover(s, v)'
  PROVE  NoLeftovers'
<1>1. SUFFICES ASSUME NEW v \in Versions, NEW s \in listens'[v] \ pool'[v] PROVE Leftover(s, v)'
  BY Zenon DEF NoLeftovers
<1>2. s \in listens[v] /\ s \in Sites /\ \A q \in Requests : Site(q)' = Site(q)
  BY SameTask, Zenon DEF Shrinks
<1>3. CASE s \in pool[v]
  BY <1>1, <1>3, Zenon
<1>4. CASE s \notin pool[v]
  <2>1. Leftover(s, v)
    BY <1>2, <1>4, Zenon DEF NoLeftovers
  <2>2. CASE v \in reloading
    BY <2>2, SMT DEF Leftover, Shrinks
  <2>3. CASE v = Default /\ row[s] = NoRow
    BY <1>1, <1>2, <2>3, Zenon DEF Leftover
  <2>4. CASE \E q \in Requests : Backing(q) /\ Site(q) = s
    BY <1>2, <2>4, Zenon DEF Leftover
  <2> QED
    BY <2>1, <2>2, <2>3, <2>4, Zenon DEF Leftover
<1> QED
  BY <1>3, <1>4

(* Who waits for a socket is the plan that runs.                           *)
LEMMA SameWaiting ==
  ASSUME NEW r, Operation(r), NEW q, q # r
  PROVE  q \in verifying' <=> q \in verifying
<1>1. verifying' \in {verifying, verifying \cup {r}, verifying \ {r}}
  BY SMT DEF Operation, Prepare, Refuse, Start, ApplyPool, Do, RemovePool, Release, Verify, VHost, Record, Fail, FailClean,
     ApplyFails, RemoveFails, Undo, UndoPool, UndoRow, UndoNothing, UndoFails, Return, data
<1> QED
  BY <1>1, SMT

LEMMA FreeKept ==
  ASSUME Typed, NEW r \in Requests, Operation(r), listens' = listens,
         \A q \in Requests : SocketIsFree(q)
  PROVE  \A q \in Requests : SocketIsFree(q)'
<1>1. /\ want' = want /\ OthersStay(r) /\ listens \in [Versions -> SUBSET Sites]
      /\ \A q \in Requests : Kind(q)' = Kind(q) /\ Site(q)' = Site(q) /\ Site(q) \in Sites
  BY Course, SameTask, Wanted, Zenon DEF Typed, TypeOK
<1>2. ASSUME NEW q \in Requests, q # r PROVE SocketIsFree(q)'
  <2>1. pc'[q] = pc[q] /\ Height(q)' = Height(q) /\ waits'[q] = waits[q] /\ (q \in verifying' <=> q \in verifying)
    BY <1>1, <1>2, Course, SameWaiting, Zenon DEF OthersStay, Height
  <2>2. \A s : Stands(q, s)' <=> Stands(q, s)
    <3>1. \A s : Pos(q, s)' = Pos(q, s)
      BY <1>1, <2>1, SamePlan, Zenon
    <3> QED
      BY <2>1, <3>1, Zenon DEF Stands
  <2>3. Applied(q)' <=> Applied(q)
    BY <2>1, <2>2, Zenon DEF Applied
  <2> QED
    BY <1>1, <2>1, <2>2, <2>3, Zenon DEF SocketIsFree
<1>3. SocketIsFree(r)'
  <2>1. SUFFICES ASSUME pc'[r] = "do", ~Applied(r)' PROVE SocketIsFree(r)'
    BY Zenon DEF SocketIsFree
  <2>2. CASE Start(r)
    <3>1. Height(r)' = 0 /\ waits' = waits
      BY <2>2, SMT DEF Start, Started, Goto, data, Height, Typed, TypeOK, ControlTyped, Placed
    <3>2. Pos(r, "release") \in Nat /\ Pos(r, "release")' = Pos(r, "release")
      <4>1. Pos(r, "release") \in 0..Last(r)
        BY StepPlaces, Zenon DEF Typed, StepNames
      <4> QED
        BY <1>1, <3>1, <4>1, SamePlan, SMT
    <3>3. ~Stands(r, "release")'
      BY <3>1, <3>2, SMT DEF Stands
    <3> QED
      BY <3>3, Zenon DEF SocketIsFree
  <2>3. SUFFICES ASSUME pc[r] = "do", ~Applied(r) PROVE SocketIsFree(r)'
    BY <2>1, <2>2, Paths, Onward, Zenon
  <2>4. CASE Kind(r) = "set" /\ Stands(r, "release")
    BY <1>1, <2>3, <2>4, SMT DEF SocketIsFree
  <2>5. CASE Kind(r) = "set" /\ ~Stands(r, "release") /\ Stands(r, "release")'
    <3>1. Step(r) = "release" /\ Advanced(r, Len(Steps(r)))
      BY <2>1, <2>3, <2>5, Onward, Zenon DEF StepNames
    <3>2. Release(r)
      <4>1. pc[r] = "do" /\ pc'[r] = "do" /\ at'[r] # at[r]
        BY <2>1, <2>3, <3>1, SMT DEF Advanced, Typed, TypeOK, ControlTyped
      <4>2. Running(r) /\ at[r] > 0 /\ at[r] <= Len(Steps(r)) /\ ~Verify(r)
        <5>1. Running(r) /\ at[r] > 0 /\ at[r] <= Len(Steps(r))
          BY <2>3, <3>1, SMT DEF Running, Advanced, Typed, Placed
        <5>2. r \notin verifying
          BY <3>1, <5>1, NotThere, SMT
        <5> QED
          BY <5>1, <5>2, Zenon DEF Verify
      <4>3. pc' = pc /\ at' = [at EXCEPT ![r] = @ + 1]
        BY <3>1, Zenon DEF Advanced
      <4>4. ~Prepare(r) /\ ~Refuse(r) /\ ~Start(r) /\ ~ApplyPool(r) /\ ~Fail(r) /\ ~Undo(r) /\ ~UndoFails(r) /\ ~Return(r)
        <5>1. ~Prepare(r) /\ ~Refuse(r) /\ ~Start(r) /\ ~ApplyPool(r) /\ ~Undo(r) /\ ~UndoFails(r)
          BY <2>3, <3>1, SMT DEF Prepare, Refuse, Start, Started, Prepared, Refused, ApplyPool, Undo, UndoFails, DidNotUndo
        <5>2. ~Fail(r) /\ ~Return(r)
          <6>1. pc \in [Requests -> PCs]
            BY Zenon DEF Typed, TypeOK, ControlTyped
          <6> QED
            BY <2>1, <2>3, <6>1, SMT DEF Fail, FailClean, ApplyFails, RemoveFails, Failed, Goto, Return, Ended, Verdict
        <5> QED
          BY <5>1, <5>2
      <4> QED
        BY <3>1, <4>2, <4>4, SMT DEF Operation, Do, RemovePool, VHost, Record
    <3>3. ~Socket(Site(r))
      BY <3>2, Zenon DEF Release
    <3> QED
      BY <1>1, <2>5, <3>3, Zenon DEF SocketIsFree, Socket
  <2> QED
    BY <1>1, <2>4, <2>5, Zenon DEF SocketIsFree
<1> QED
  BY <1>2, <1>3

(* The sockets, for the steps that install no pool.                        *)
LEMMA SocketsFrame ==
  ASSUME Typed, SocketsOK, NEW r \in Requests, Operation(r), Shrinks,
         row[Site(r)] = NoRow => row'[Site(r)] = NoRow \/ Site(r) \in pool'[Default] \/ Backing(r)',
         Backing(r) => Backing(r)',
         \A v \in Versions : Site(r) \in pool[v] \ pool'[v] => Leftover(Site(r), v)'
  PROVE  SocketsOK'
<1>1. want' = want /\ OthersStay(r) /\ OwnSite(r) /\ listens \in [Versions -> SUBSET Sites] /\ pool \in [Versions -> SUBSET Sites]
      /\ listens' = listens /\ up \subseteq Versions
  BY Course, OwnSiteOnly, Zenon DEF Typed, TypeOK, Shrinks
<1>2. \A s \in Sites : row[s] = NoRow =>
         row'[s] = NoRow \/ s \in pool'[Default] \/ \E q \in Requests : Backing(q)' /\ Site(q) = s
  BY <1>1, Zenon DEF OwnSite
<1>3. \A q \in Requests : Backing(q) => Backing(q)'
  BY <1>1, SameTask, Zenon DEF OthersStay, Backing
<1>4. ASSUME NEW v \in Versions, NEW s \in pool[v] \ pool'[v] PROVE Leftover(s, v)'
  <2>1. s \in Sites
    BY <1>1, SMT
  <2>2. CASE s = Site(r)
    <3>1. Site(r)' = Site(r) /\ Leftover(Site(r), v)'
      BY <1>1, <1>4, <2>2, SameTask, Zenon
    <3> QED
      BY <2>2, <3>1, Zenon DEF Leftover
  <2>3. CASE s # Site(r)
    <3>1. PoolsOf(s)' = PoolsOf(s)
      BY <1>1, <2>1, <2>3, Zenon DEF OwnSite
    <3> QED
      BY <1>4, <3>1, SMT DEF PoolsOf
  <2> QED
    BY <2>2, <2>3
<1>5. NoLeftovers'
  BY <1>1, <1>2, <1>3, <1>4, LeftoversKept, Zenon DEF SocketsOK
<1>6. OnePool' /\ MastersRun' /\ PoolsAreServed' /\ SocketsAreFree'
  BY <1>1, Shrinking, Zenon DEF SocketsOK
<1>7. \A q \in Requests : SocketIsFree(q)'
  BY <1>1, FreeKept, Zenon DEF SocketsOK
<1> QED
  BY <1>5, <1>6, <1>7, Zenon DEF SocketsOK

(* Steps that write no pool.                                               *)
LEMMA SocketsQuiet ==
  ASSUME Typed, SocketsOK, NEW r \in Requests, Operation(r), UNCHANGED servers,
         row[Site(r)] = NoRow => row'[Site(r)] = NoRow \/ Site(r) \in pool[Default] \/ Backing(r)',
         Backing(r) => Backing(r)'
  PROVE  SocketsOK'
<1>1. Shrinks /\ pool' = pool
  BY SMT DEF servers, Shrinks
<1> QED
  BY <1>1, SocketsFrame, Zenon

(* Where a switch is about to install a pool, the site has none.           *)
LEMMA Bare ==
  ASSUME SocketInv, Calm, NEW r \in Requests, pc[r] = "do", ~Applied(r), Kind(r) = "set", Stands(r, "release")
  PROVE  PoolsOf(Site(r)) = {}
<1>1. Files(r) /\ Waits(r) /\ ~Stands(r, "apply") /\ Typed
  <2>1. ~dirty[r] /\ Running(r) /\ Typed /\ FilesInv /\ Undamaged
    BY SMT DEF SocketInv, FilesInv, Typed, Placed, Running, Calm
  <2> QED
    BY <2>1, Busy, Zenon DEF Applied
<1>2. at[r] \in Nat /\ Height(r) = at[r] - 1
  BY <1>1, Climb, Zenon
<1>3. Stands(r, "remove")
  BY <1>1, <1>2, Heights, SMT
<1> QED
  BY <1>1, <1>3, Zenon DEF Files

LEMMA SocketsApply ==
  ASSUME SocketInv, Calm, Calm', NEW r \in Requests, ApplyPool(r)
  PROVE  SocketsOK'
<1> DEFINE s == Site(r)
           n == New(r)
<1>1. /\ want' = want /\ row' = row /\ UNCHANGED control /\ pc[r] = "do" /\ at[r] <= Len(Steps(r)) /\ Step(r) = "apply"
      /\ r \notin verifying /\ pool' = With(n, s) /\ n \in up /\ reloading' = reloading \cup {n}
      /\ up' = up /\ listens' = listens /\ Operation(r) /\ Typed /\ SocketsOK
  BY Zenon DEF ApplyPool, Reloaded, Operation, SocketInv, FilesInv
<1>2. /\ s \in Sites /\ n \in Versions /\ pool \in [Versions -> SUBSET Sites] /\ listens \in [Versions -> SUBSET Sites]
      /\ up \subseteq Versions /\ at[r] > 0 /\ at[r] \in Nat /\ Running(r)
  BY <1>1, Wanted, Climb, SMT DEF Typed, TypeOK, Placed, Running
<1>3. /\ Kind(r) \in {"create", "set"} /\ Pos(r, "apply") = at[r] /\ Height(r) = at[r] - 1
      /\ (Kind(r) = "set" => Waits(r))
  <2>1. Kind(r) = "set" => Waits(r)
    BY <1>2, Busy, Zenon DEF SocketInv, Calm
  <2> QED
    BY <1>1, <1>2, <2>1, StepIs, Climb, Zenon
<1>4. ~Applied(r) /\ (Kind(r) = "set" => Stands(r, "release"))
  <2>1. ~Stands(r, "apply") /\ (Kind(r) = "set" => at[r] = 3)
    BY <1>2, <1>3, SMT DEF Stands, Pos, Waits
  <2>2. Kind(r) = "set" => Stands(r, "release")
    BY <1>3, <2>1, Heights, SMT
  <2> QED
    BY <1>1, <2>1, <2>2, Zenon DEF Applied
<1>5. ASSUME Kind(r) = "create" PROVE \A v \in Versions \ {n} : s \notin pool[v] /\ s \notin listens[v]
  <2>1. r \notin contested'
    BY SMT DEF Calm
  <2>2. ~Elsewhere(r)
    BY <1>5, <2>1, SMT DEF ApplyPool
  <2> QED
    BY <2>2, Zenon DEF Elsewhere
<1>6. ASSUME Kind(r) = "set" PROVE \A v \in Versions \ {n} : s \notin pool[v] /\ s \notin listens[v]
  <2>1. PoolsOf(s) = {}
    BY <1>1, <1>4, <1>6, Bare, SMT
  <2>2. \A v \in Versions : s \notin listens[v]
    BY <1>1, <1>4, <1>6, SMT DEF SocketsOK, SocketIsFree
  <2> QED
    BY <2>1, <2>2, Zenon DEF PoolsOf
<1>7. pool' = [pool EXCEPT ![n] = @ \cup {s}] /\ \A v \in Versions \ {n} : s \notin pool[v] /\ s \notin listens[v]
  BY <1>1, <1>3, <1>5, <1>6, Zenon DEF With
<1> HIDE DEF s, n
<1>8. OnePool'
  BY <1>1, <1>2, <1>7, SMT DEF OnePool, PoolsOf, SocketsOK
<1>9. MastersRun'
  BY <1>1, <1>2, <1>7, SMT DEF MastersRun, SocketsOK
<1>10. PoolsAreServed'
  BY <1>1, <1>2, <1>7, SMT DEF PoolsAreServed, SocketsOK
<1>11. SocketsAreFree'
  BY <1>1, <1>2, <1>7, SMT DEF SocketsAreFree, SocketsOK
<1>12. NoLeftovers'
  <2>1. SUFFICES ASSUME NEW v \in Versions, NEW t \in listens'[v] \ pool'[v] PROVE Leftover(t, v)'
    BY Zenon DEF NoLeftovers
  <2>2. t \in listens[v] \ pool[v]
    BY <1>1, <1>2, <1>7, SMT
  <2>3. Leftover(t, v)
    BY <1>1, <2>2, Zenon DEF SocketsOK, NoLeftovers
  <2>4. \A q \in Requests : Kind(q)' = Kind(q) /\ Site(q)' = Site(q)
    BY <1>1, SameTask, Zenon
  <2> QED
    BY <1>1, <2>3, <2>4, SMT DEF Leftover, Backing, control
<1>13. \A q \in Requests : SocketIsFree(q)'
  BY <1>1, FreeKept, Zenon DEF SocketsOK
<1> QED
  BY <1>8, <1>9, <1>10, <1>11, <1>12, <1>13, Zenon DEF SocketsOK

LEMMA SocketsReread ==
  ASSUME SocketInv, Calm, NEW v \in Versions, Reread(v)
  PROVE  SocketsOK'
<1> DEFINE taken == \E u \in Versions \ {v} : pool[v] \cap listens[u] # {}
           fails == taken \/ ~ConfigTest(v, pool[v])
<1>1. /\ v \in reloading /\ reloading' = reloading \ {v} /\ pool' = pool /\ row' = row /\ pc' = pc /\ at' = at /\ dirty' = dirty
      /\ want' = want /\ waits' = waits /\ verifying' = verifying
      /\ Typed /\ OnePool /\ MastersRun /\ PoolsAreServed /\ SocketsAreFree /\ NoLeftovers
      /\ \A q \in Requests : SocketIsFree(q)
  BY Zenon DEF Reread, control, SocketInv, FilesInv, SocketsOK
<1>2. /\ pool \in [Versions -> SUBSET Sites] /\ listens \in [Versions -> SUBSET Sites] /\ up \subseteq Versions
      /\ \A q \in Requests : Kind(q)' = Kind(q) /\ Site(q)' = Site(q) /\ Site(q) \in Sites
  BY <1>1, Wanted, SameTask, Zenon DEF Typed, TypeOK
<1>3. ~taken
  BY <1>1, Zenon DEF SocketsAreFree
<1>4. \/ /\ up' = up \ {v} /\ listens' = [listens EXCEPT ![v] = {}] /\ pool[v] = {} /\ v \notin Spare
      \/ /\ up' = up /\ listens' = [listens EXCEPT ![v] = pool[v]]
  <2>1. CASE fails
    <3>1. up' = up \ {v} /\ listens' = [listens EXCEPT ![v] = {}]
      BY <2>1, Zenon DEF Reread
    <3>2. pool[v] = {} /\ v \notin Spare
      BY <1>3, <2>1, SMT DEF ConfigTest
    <3> QED
      BY <3>1, <3>2
  <2>2. CASE ~fails
    BY <2>2, Zenon DEF Reread
  <2> QED
    BY <2>1, <2>2
<1> HIDE DEF taken, fails
<1>5. OnePool'
  BY <1>1, Zenon DEF OnePool, PoolsOf
<1>6. MastersRun'
  BY <1>1, <1>2, <1>4, SMT DEF MastersRun
<1>7. PoolsAreServed'
  BY <1>1, <1>2, <1>4, SMT DEF PoolsAreServed
<1>8. SocketsAreFree'
  <2>1. SUFFICES ASSUME NEW x \in Versions, NEW u \in Versions \ {x} PROVE pool[x] \cap listens'[u] = {}
    BY <1>1, Zenon DEF SocketsAreFree
  <2>2. pool[x] \cap listens[u] = {}
    BY <1>1, Zenon DEF SocketsAreFree
  <2>3. u = v => pool[x] \cap pool[u] = {}
    <3>1. SUFFICES ASSUME NEW t \in pool[x] \cap pool[u] PROVE FALSE
      BY SMT
    <3>2. t \in Sites /\ x \in PoolsOf(t) /\ u \in PoolsOf(t)
      BY <1>2, SMT DEF PoolsOf
    <3> QED
      BY <1>1, <3>2, Zenon DEF OnePool
  <2> QED
    BY <1>2, <1>4, <2>2, <2>3, SMT
<1>9. NoLeftovers'
  <2>1. SUFFICES ASSUME NEW u \in Versions, NEW t \in listens'[u] \ pool'[u] PROVE Leftover(t, u)'
    BY Zenon DEF NoLeftovers
  <2>2. u # v /\ t \in listens[u] \ pool[u]
    BY <1>1, <1>2, <1>4, SMT
  <2>3. Leftover(t, u)
    BY <1>1, <2>2, Zenon DEF NoLeftovers
  <2> QED
    BY <1>1, <1>2, <2>2, <2>3, SMT DEF Leftover, Backing
<1>10. ASSUME NEW q \in Requests PROVE SocketIsFree(q)'
  <2>1. SUFFICES ASSUME pc'[q] = "do", ~Applied(q)', Kind(q)' = "set", Stands(q, "release")'
                 PROVE  SocketIsFree(q)'
    BY Zenon DEF SocketIsFree
  <2>2. \A s : Stands(q, s)' <=> Stands(q, s)
    <3>1. (\A s : Pos(q, s)' = Pos(q, s)) /\ Height(q)' = Height(q)
      BY <1>1, SamePlan, Zenon DEF Height
    <3> QED
      BY <3>1, Zenon DEF Stands
  <2>3. pc[q] = "do" /\ ~Applied(q) /\ Kind(q) = "set" /\ Stands(q, "release")
    BY <1>1, <1>2, <2>1, <2>2, Zenon DEF Applied
  <2>4. \A u \in Versions : Site(q) \notin pool[u]
    BY <2>3, Bare, Zenon DEF PoolsOf
  <2>5. \A u \in Versions : Site(q) \in listens'[u] => Site(q) \in listens[u]
    BY <1>2, <1>4, <2>4, SMT
  <2>6. SocketIsFree(q)
    BY <1>1
  <2> QED
    BY <1>2, <2>3, <2>5, <2>6, Zenon DEF SocketIsFree
<1> QED
  BY <1>5, <1>6, <1>7, <1>8, <1>9, <1>10, Zenon DEF SocketsOK

(* The steps of a plan that goes on, but for the one that installs a pool. *)
LEMMA SocketsDo ==
  ASSUME SocketInv, Calm, Calm', NEW r \in Requests, Do(r)
  PROVE  SocketsOK'
<1>1. /\ pc[r] = "do" /\ at[r] <= Len(Steps(r)) /\ Operation(r) /\ Typed /\ SocketsOK /\ FilesInv /\ Undamaged
      /\ at[r] > 0 /\ at[r] \in Nat /\ Running(r)
  <2>1. Typed /\ pc[r] = "do" /\ at[r] <= Len(Steps(r)) /\ Operation(r) /\ SocketsOK /\ FilesInv /\ Undamaged
    BY Zenon DEF Do, Operation, SocketInv, FilesInv, Calm
  <2> QED
    BY <2>1, Climb, SMT DEF Typed, Placed, Running
<1>2. pool \in [Versions -> SUBSET Sites] /\ Site(r) \in Sites /\ row \in [Sites -> Row \cup {NoRow}]
  BY <1>1, Wanted, Zenon DEF Typed, TypeOK
<1>3. CASE \E step \in {"remove", "drop"} : RemovePool(r, step)
  <2>1. /\ row' = row /\ up' = up /\ listens' = listens /\ reloading' = reloading \cup {Old(r)}
        /\ pool' = [pool EXCEPT ![Old(r)] = @ \ {Site(r)}]
    BY <1>3, Zenon DEF RemovePool, Reloaded, Without
  <2>2. Shrinks /\ \A v \in Versions : Site(r) \in pool[v] \ pool'[v] => v \in reloading'
    BY <1>2, <2>1, SMT DEF Shrinks
  <2> QED
    BY <1>1, <2>1, <2>2, SocketsFrame, SMT DEF Leftover, Backing
<1>4. CASE Release(r) \/ VHost(r) \/ Verify(r)
  <2>1. UNCHANGED servers /\ row' = row
    BY <1>4, Zenon DEF Release, VHost, Verify, data
  <2> QED
    BY <1>1, <2>1, SocketsQuiet, SMT DEF Backing
<1>5. CASE Record(r)
  <2>1. UNCHANGED servers /\ Step(r) \in {"insert", "record", "deleteRow"}
    BY <1>5, Zenon DEF Record
  <2>2. row[Site(r)] = NoRow => Site(r) \in pool[Default]
    <3>1. SUFFICES ASSUME row[Site(r)] = NoRow PROVE Site(r) \in pool[Default]
      OBVIOUS
    <3>2. Step(r) = "insert"
      BY <1>5, <3>1, SMT DEF Record, IsRow
    <3>3. Kind(r) = "create" /\ at[r] = 3
      BY <1>1, <3>2, StepIs, SMT DEF Pos
    <3>4. Files(r) /\ Height(r) = 2
      BY <1>1, <3>3, Busy, Climb, SMT DEF Typed, Placed
    <3>5. ~Stands(r, "insert") /\ Stands(r, "apply")
      BY <3>3, <3>4, Heights, SMT
    <3>6. Default \in PoolsOf(Site(r))
      BY <3>3, <3>4, <3>5, SMT DEF Files, Applied
    <3> QED
      BY <3>6, Zenon DEF PoolsOf
  <2> QED
    BY <1>1, <2>1, <2>2, SocketsQuiet, SMT DEF Backing
<1> QED
  BY <1>1, <1>3, <1>4, <1>5, Zenon DEF Do

LEMMA SocketsFail ==
  ASSUME SocketInv, Calm, Calm', NEW r \in Requests, Fail(r)
  PROVE  SocketsOK'
<1>1. /\ pc[r] = "do" /\ Operation(r) /\ Typed /\ SocketsOK /\ FilesInv /\ Undamaged /\ Undamaged' /\ row' = row
      /\ pc' = [pc EXCEPT ![r] = "undo"] /\ at' = [at EXCEPT ![r] = @ - 1] /\ want' = want
  BY SMT DEF Fail, FailClean, ApplyFails, RemoveFails, Failed, Goto, Operation, SocketInv, FilesInv, Calm, data
<1>2. /\ Files(r) /\ (Kind(r) = "set" => Waits(r)) /\ at[r] \in Nat /\ at[r] > 0 /\ Running(r)
      /\ pool \in [Versions -> SUBSET Sites] /\ Site(r) \in Sites /\ New(r) \in Versions
      /\ pc'[r] = "undo" /\ at'[r] = at[r] - 1 /\ Kind(r)' = Kind(r) /\ Site(r)' = Site(r)
      /\ row'[Site(r)] = row[Site(r)] /\ Kind(r) \in {"create", "delete", "set"}
  <2>1. /\ pool \in [Versions -> SUBSET Sites] /\ Site(r) \in Sites /\ New(r) \in Versions /\ pc \in [Requests -> PCs]
        /\ at \in [Requests -> 0..6] /\ Kind(r)' = Kind(r) /\ Site(r)' = Site(r) /\ Kind(r) \in {"create", "delete", "set"}
    BY <1>1, Wanted, SameTask, Zenon DEF Typed, TypeOK, ControlTyped
  <2>2. ~dirty[r] /\ at[r] \in Nat /\ at[r] > 0 /\ Running(r)
    BY <1>1, Climb, SMT DEF Typed, Placed, Running
  <2>3. Files(r) /\ (Kind(r) = "set" => Waits(r))
    BY <1>1, <2>2, Busy, Zenon
  <2> QED
    BY <1>1, <2>1, <2>2, <2>3, SMT
<1>3. CASE FailClean(r)
  <2>1. UNCHANGED servers
    BY <1>3, Zenon DEF FailClean, data
  <2> QED
    BY <1>1, <1>2, <2>1, SocketsQuiet, SMT DEF Backing
<1>4. CASE RemoveFails(r)
  <2>1. r \notin torn'
    BY <1>1, SMT DEF Undamaged
  <2>2. pool' = pool /\ up' = up /\ listens' = listens /\ reloading \subseteq reloading'
    BY <1>4, <2>1, SMT DEF RemoveFails, PerhapsReloaded
  <2>3. Shrinks
    BY <2>2, SMT DEF Shrinks
  <2> QED
    BY <1>1, <1>2, <2>2, <2>3, SocketsFrame, SMT DEF Backing
<1>5. CASE ApplyFails(r)
  <2>1. r \notin torn'
    BY <1>1, SMT DEF Undamaged
  <2>2. /\ up' = up /\ listens' = listens /\ reloading \subseteq reloading' /\ at[r] <= Len(Steps(r)) /\ Step(r) = "apply"
    BY <1>5, SMT DEF ApplyFails, PerhapsReloaded
  <2>3. Kind(r) \in {"create", "set"} /\ Pos(r, "apply") = at[r] /\ Height(r) = at[r] - 1
    BY <1>1, <1>2, <2>2, StepIs, Climb, Zenon
  <2>4. \/ pool' = With(New(r), Site(r)) /\ Site(r) \in pool[New(r)]
        \/ pool' = Without(New(r), Site(r)) /\ Site(r) \notin pool[New(r)]
        \/ pool' = Without(New(r), Site(r)) /\ r \in verifying /\ ~had[r]
    <3>1. CASE r \notin verifying
      BY <1>5, <2>1, <3>1, SMT DEF ApplyFails
    <3>2. CASE r \in verifying /\ had[r]
      <4>1. Kind(r) = "create"
        <5>1. Kind(r) = "set" => Stands(r, "remove")
          BY <1>2, <2>3, Heights, SMT DEF Pos, Waits
        <5> QED
          BY <1>2, <2>3, <3>2, <5>1, SMT DEF Files, Applied
      <4>2. ~Stands(r, "insert")
        BY <1>2, <2>3, <4>1, Heights, SMT DEF Pos
      <4>3. New(r) = Default /\ Default \in PoolsOf(Site(r))
        BY <1>1, <1>2, <3>2, <4>1, <4>2, Wanted, SMT DEF Files, Applied, Typed
      <4> QED
        BY <1>5, <2>1, <3>2, <4>3, SMT DEF ApplyFails, PoolsOf
    <3>3. CASE r \in verifying /\ ~had[r]
      BY <1>5, <2>1, <3>3, SMT DEF ApplyFails
    <3> QED
      BY <3>1, <3>2, <3>3
  <2>5. Shrinks
    BY <1>2, <2>2, <2>4, SMT DEF Shrinks, With, Without
  <2>6. ASSUME NEW v \in Versions, Site(r) \in pool[v] \ pool'[v] PROVE Leftover(Site(r), v)'
    <3>1. v = New(r) /\ r \in verifying /\ ~had[r]
      BY <1>2, <2>4, <2>6, SMT DEF With, Without
    <3>2. CASE Kind(r) = "create"
      <4>1. ~Stands(r, "insert") /\ New(r) = Default
        BY <1>1, <1>2, <2>3, <3>2, Heights, Wanted, SMT DEF Pos, Typed
      <4>2. PoolsOf(Site(r)) = Recorded(Site(r)) \cup {Default} /\ Default \notin Recorded(Site(r))
        BY <1>2, <3>1, <3>2, <4>1, SMT DEF Files, Applied
      <4>3. row[Site(r)] = NoRow
        <5>1. \A u, w \in PoolsOf(Site(r)) : u = w
          BY <1>1, <1>2, Zenon DEF SocketsOK, OnePool
        <5> QED
          BY <4>2, <5>1, SMT DEF Recorded
      <4> QED
        BY <1>2, <3>1, <4>1, <4>3, Zenon DEF Leftover
    <3>3. CASE Kind(r) = "set"
      <4>1. at'[r] > 0
        BY <1>2, <2>3, <3>3, SMT DEF Pos, Waits
      <4> QED
        BY <1>2, <3>3, <4>1, Zenon DEF Leftover, Backing
    <3> QED
      BY <2>3, <3>2, <3>3
  <2> QED
    BY <1>1, <1>2, <2>5, <2>6, SocketsFrame, SMT DEF Backing
<1> QED
  BY <1>3, <1>4, <1>5, Zenon DEF Fail

(* The undos, but for those of the pool steps: those wait for nothing, and *)
(* the masters are not calm any more.                                      *)
LEMMA SocketsUndo ==
  ASSUME SocketInv, Calm, Calm', NEW r \in Requests, Undo(r) \/ UndoFails(r)
  PROVE  SocketsOK'
<1>1. /\ pc[r] = "undo" /\ at[r] > 0 /\ Operation(r) /\ Typed /\ SocketsOK /\ FilesInv /\ Undamaged
      /\ pc' = pc /\ at' = [at EXCEPT ![r] = @ - 1] /\ undone' = {} /\ want' = want
      /\ Undid(r) \/ UndoFails(r)
  BY Zenon DEF Undo, UndoFails, UndoPool, UndoRow, UndoNothing, Undid, DidNotUndo, Operation, SocketInv, FilesInv, Calm, data
<1>2. /\ Running(r) /\ at[r] <= Len(Steps(r)) /\ at[r] \in Nat /\ at'[r] = at[r] - 1
      /\ dirty \in [Requests -> BOOLEAN] /\ row \in [Sites -> Row \cup {NoRow}] /\ Site(r) \in Sites
  <2>1. /\ Running(r) /\ at[r] \in 0..Last(r) /\ Last(r) \in 1..5 /\ Len(Steps(r)) = Last(r) /\ at \in [Requests -> 0..6]
        /\ dirty \in [Requests -> BOOLEAN] /\ row \in [Sites -> Row \cup {NoRow}] /\ Site(r) \in Sites
    BY <1>1, StepPlaces, Wanted, Zenon DEF Typed, TypeOK, ControlTyped, Placed, Running
  <2> QED
    BY <1>1, <2>1, SMT
<1>3. UNCHANGED servers /\ Step(r) \notin {"apply", "remove"} /\ (row' = row \/ UndoRow(r))
  <2>1. CASE UndoPool(r)
    BY <1>1, <2>1, SMT DEF UndoPool
  <2>2. CASE UndoRow(r)
    <3>1. UNCHANGED servers /\ Step(r) \in {"insert", "record", "deleteRow"}
      BY <2>2, Zenon DEF UndoRow
    <3> QED
      BY <2>2, <3>1, SMT
  <2>3. CASE UndoNothing(r)
    BY <2>3, SMT DEF UndoNothing, data
  <2>4. CASE UndoFails(r)
    <3>1. Step(r) \notin {"apply", "remove"}
      BY <1>1, <2>4, SMT DEF UndoFails
    <3> QED
      BY <2>4, <3>1, Zenon DEF UndoFails, servers
  <2> QED
    BY <2>1, <2>2, <2>3, <2>4, Zenon DEF Undo
<1>4. Kind(r)' = Kind(r)
  BY <1>1, SameTask, Zenon
<1>5. ASSUME row[Site(r)] = NoRow, row'[Site(r)] # NoRow PROVE Backing(r)'
  <2>1. UndoRow(r) /\ Step(r) = "deleteRow"
    BY <1>2, <1>3, <1>5, SMT DEF UndoRow, IsRow
  <2>2. Kind(r) = "delete" /\ at[r] = 3
    BY <1>1, <1>2, <2>1, StepIs, SMT DEF Pos
  <2> QED
    BY <1>1, <1>2, <1>4, <2>2, SMT DEF Backing
<1>6. ASSUME Backing(r), Kind(r) = "set" PROVE Backing(r)'
  <2>1. Waits(r) /\ Pos(r, "remove") = 1
    BY <1>1, <1>2, <1>6, Busy, SMT DEF Pos
  <2>2. at[r] # 1
    BY <1>1, <1>2, <1>3, <2>1, StepIs, SMT DEF StepNames
  <2> QED
    BY <1>1, <1>2, <1>4, <1>6, <2>2, SMT DEF Backing
<1>7. ASSUME Backing(r), Kind(r) = "delete" PROVE Backing(r)'
  <2>1. dirty[r] => dirty'[r]
    BY <1>1, <1>2, SMT DEF Undid, UndoFails, DidNotUndo
  <2>2. at[r] = 2 => dirty'[r]
    <3>1. SUFFICES ASSUME at[r] = 2 PROVE dirty'[r]
      OBVIOUS
    <3>2. Step(r) = "drop"
      BY <1>1, <1>2, <1>7, <3>1, StepIs, SMT DEF Pos, StepNames
    <3>3. UndoFails(r)
      BY <3>2, SMT DEF Undo, UndoPool, UndoRow, UndoNothing
    <3>4. dirty' = [dirty EXCEPT ![r] = TRUE]
      BY <3>3, Zenon DEF UndoFails, DidNotUndo
    <3> QED
      BY <1>2, <3>4, Zenon
  <2> QED
    BY <1>1, <1>4, <1>7, <2>1, <2>2, Zenon DEF Backing
<1> QED
  BY <1>1, <1>3, <1>5, <1>6, <1>7, SocketsQuiet, SMT DEF Backing

LEMMA SocketsReturn ==
  ASSUME SocketInv, Calm, Calm', NEW r \in Requests, Return(r)
  PROVE  SocketsOK'
<1>1. /\ Operation(r) /\ Typed /\ SocketsOK /\ UNCHANGED servers /\ row' = row /\ Ended(r, Len(Steps(r)))
      /\ pc \in [Requests -> PCs] /\ Undamaged'
  BY Zenon DEF Return, Operation, SocketInv, FilesInv, Calm, Typed, TypeOK, ControlTyped
<1>2. ~Backing(r)
  <2>1. pc'[r] \notin {"running", "inconsistent"}
    BY <1>1, Zenon DEF Undamaged
  <2> QED
    BY <1>1, <2>1, SMT DEF Ended, Goto, Verdict, Backing
<1> QED
  BY <1>1, <1>2, SocketsQuiet, Zenon

LEMMA SocketsIdle ==
  ASSUME SocketInv, Calm, NEW r \in Requests, Prepare(r) \/ Refuse(r) \/ Start(r)
  PROVE  SocketsOK'
<1>1. /\ Operation(r) /\ Typed /\ SocketsOK /\ UNCHANGED servers /\ row' = row /\ pc[r] \in {"new", "ready"}
  BY SMT DEF Prepare, Refuse, Start, Prepared, Refused, Started, Operation, SocketInv, FilesInv, Calm, data
<1> QED
  BY <1>1, SocketsQuiet, SMT DEF Backing

LEMMA SocketStep == SocketInv /\ [Next]_vars => SocketInv'
<1> SUFFICES ASSUME SocketInv, [Next]_vars PROVE SocketInv'
  OBVIOUS
<1>1. FilesInv /\ Typed /\ FilesInv' /\ (Calm => SocketsOK)
  BY FilesStep, Zenon DEF SocketInv, FilesInv
<1>2. ASSUME NEW r \in Requests, Operation(r) PROVE SocketInv'
  <2>1. ASSUME Calm' PROVE SocketsOK'
    <3>1. Calm
      BY <1>1, <1>2, <2>1, CalmBefore, Zenon
    <3> QED
      BY <1>2, <2>1, <3>1, SocketsIdle, SocketsApply, SocketsDo, SocketsFail, SocketsUndo, SocketsReturn,
         Zenon DEF Operation
  <2> QED
    BY <1>1, <2>1, Zenon DEF SocketInv
<1>3. ASSUME UNCHANGED <<control, row, nextId, pool, want, snap, waits, had, verifying, contested, torn, undone>>
      PROVE  Calm' => Calm
  <2>1. pc' = pc /\ want' = want /\ waits' = waits /\ contested' = contested /\ torn' = torn /\ undone' = undone
    BY <1>3, Zenon DEF control
  <2> QED
    BY <2>1, Zenon DEF Calm, Undamaged, Blind, Kind
<1>4. CASE \E v \in Versions : Reread(v)
  <2>1. UNCHANGED <<control, row, nextId, pool, want, snap, waits, had, verifying, contested, torn, undone>>
    BY <1>4, Zenon DEF Reread
  <2>2. Calm' => Calm
    BY <1>3, <2>1
  <2> QED
    BY <1>1, <1>4, <2>2, SocketsReread, Zenon DEF SocketInv
<1>5. CASE UNCHANGED vars
  <2>1. UNCHANGED <<control, row, nextId, pool, want, snap, waits, had, verifying, contested, torn, undone>> /\ UNCHANGED servers
    BY <1>5, Zenon DEF vars, data, servers
  <2>2. Calm' => Calm
    BY <1>3, <2>1
  <2>3. SocketsOK => SocketsOK'
    <3>1. /\ pc' = pc /\ at' = at /\ dirty' = dirty /\ want' = want /\ waits' = waits /\ row' = row /\ verifying' = verifying
          /\ pool' = pool /\ up' = up /\ listens' = listens /\ reloading' = reloading
      BY <2>1, Zenon DEF control, servers
    <3>2. \A q, s : Stands(q, s)' <=> Stands(q, s)
      <4>1. \A q, s : Pos(q, s)' = Pos(q, s) /\ Height(q)' = Height(q)
        BY <3>1, SamePlan, Zenon DEF Height
      <4> QED
        BY <4>1, Zenon DEF Stands
    <3>3. \A q : Kind(q)' = Kind(q) /\ Site(q)' = Site(q) /\ (Applied(q)' <=> Applied(q))
      BY <3>1, <3>2, SameTask, Zenon DEF Applied
    <3>4. (\A q \in Requests : SocketIsFree(q)) => \A q \in Requests : SocketIsFree(q)'
      BY <3>1, <3>2, <3>3, Zenon DEF SocketIsFree
    <3>5. NoLeftovers => NoLeftovers'
      BY <3>1, <3>3, Zenon DEF NoLeftovers, Leftover, Backing
    <3>6. /\ OnePool => OnePool'
          /\ MastersRun => MastersRun'
          /\ PoolsAreServed => PoolsAreServed'
          /\ SocketsAreFree => SocketsAreFree'
      BY <3>1, Zenon DEF OnePool, PoolsOf, MastersRun, PoolsAreServed, SocketsAreFree
    <3> QED
      BY <3>4, <3>5, <3>6, Zenon DEF SocketsOK
  <2> QED
    BY <1>1, <2>2, <2>3, Zenon DEF SocketInv
<1> QED
  BY <1>2, <1>4, <1>5, Zenon DEF Next

LEMMA SocketInit == ASSUME Init PROVE SocketInv
<1>1. /\ FilesInv /\ pool \in [Versions -> SUBSET Sites] /\ listens = pool
      /\ up = {v \in Versions : ConfigTest(v, pool[v])} /\ \A r \in Requests : pc[r] = "new"
  BY FilesInit, SMT DEF FilesInv, Typed, TypeOK, Init, ControlInit
<1>2. \A v, u \in Versions : v # u => pool[v] \cap pool[u] = {}
  BY <1>1, Zenon DEF FilesInv, Typed, TypeOK
<1>3. SocketsOK
  <2>1. OnePool /\ MastersRun /\ PoolsAreServed /\ SocketsAreFree /\ NoLeftovers
    <3>1. OnePool
      BY <1>2, SMT DEF OnePool, PoolsOf
    <3>2. MastersRun
      BY <1>1, SMT DEF MastersRun, ConfigTest
    <3>3. PoolsAreServed /\ NoLeftovers
      BY <1>1, SMT DEF PoolsAreServed, NoLeftovers
    <3>4. SocketsAreFree
      BY <1>1, <1>2, SMT DEF SocketsAreFree
    <3> QED
      BY <3>1, <3>2, <3>3, <3>4
  <2>2. \A r \in Requests : SocketIsFree(r)
    BY <1>1, Zenon DEF SocketIsFree
  <2> QED
    BY <2>1, <2>2, Zenon DEF SocketsOK
<1> QED
  BY <1>1, <1>3, Zenon DEF SocketInv

(***************************************************************************)
(* A recorded PHP site has its pool, under the recorded version and under  *)
(* no other, and a site that is not recorded has none.  When the masters   *)
(* have read their pools, the socket is the recorded version's alone,      *)
(* however soon one operation has followed another: but for pool steps     *)
(* that were undone, and creations that came while another version still   *)
(* had the socket.                                                         *)
(***************************************************************************)
THEOREM RowsHaveTheirPools == Spec => []RowHasItsPool
<1>1. Init => SocketInv
  BY SocketInit
<1>2. SocketInv => RowHasItsPool
  <2> SUFFICES ASSUME SocketInv, lock = NoRequest, Undamaged, NEW s \in Sites
               PROVE  /\ PoolsOf(s) = Recorded(s)
                      /\ Settled /\ row[s] # NoRow => {v \in Versions : s \in listens[v]} = {row[s].version}
    BY Zenon DEF RowHasItsPool, Recorded
  <2>1. PoolsOf(s) = Recorded(s)
    <3>1. Idle(s)
      BY RequestsAssumption, Zenon DEF Idle
    <3> QED
      BY <3>1, Zenon DEF SocketInv, FilesInv, FilesOK
  <2>2. ASSUME Settled, row[s] # NoRow PROVE {v \in Versions : s \in listens[v]} = {row[s].version}
    <3>1. SocketsOK
      BY <2>2, Zenon DEF SocketInv, Calm, Settled
    <3>2. PoolsOf(s) = {row[s].version}
      BY <2>1, <2>2, Zenon DEF Recorded
    <3>3. row[s].version \in Versions /\ s \in pool[row[s].version]
      BY <3>2, Zenon DEF PoolsOf
    <3>4. s \in listens[row[s].version]
      <4>1. row[s].version \in up /\ reloading = {}
        BY <2>2, <3>1, <3>3, SMT DEF SocketsOK, MastersRun, Settled
      <4> QED
        BY <3>1, <3>3, <4>1, SMT DEF SocketsOK, PoolsAreServed
    <3>5. \A u \in Versions \ {row[s].version} : s \notin listens[u]
      BY <3>1, <3>3, SMT DEF SocketsOK, SocketsAreFree
    <3> QED
      BY <3>3, <3>4, <3>5, SMT
  <2> QED
    BY <2>1, <2>2
<1> QED
  BY <1>1, <1>2, SocketStep, PTL DEF Spec

(***************************************************************************)
(* As long as no pool step is undone and no creation comes while another   *)
(* version has the socket, no master gives up whose configuration is       *)
(* valid, however late the masters read: waitForSocketRelease has waited   *)
(* for what could be in its way.                                           *)
(***************************************************************************)
THEOREM MastersDoSurvive == Spec => []MastersSurvive
<1>1. Init => SocketInv
  BY SocketInit
<1>2. SocketInv => MastersSurvive
  BY SMT DEF SocketInv, SocketsOK, MastersRun, MastersSurvive, Calm, ConfigTest
<1> QED
  BY <1>1, <1>2, SocketStep, PTL DEF Spec
=============================================================================
