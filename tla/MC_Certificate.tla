--------------------------- MODULE MC_Certificate ---------------------------
(* Certificate with two calls on one site that may get an alias, over    *)
(* sites without TLS, with it, and left in the middle by a crash.          *)
EXTENDS Certificate, TLC

CONSTANTS a1, c1, c2

MCMenu == {[kind |-> k, alias |-> a1] : k \in TLSKinds \cup PlanKinds}

Row0(ssl, aliases) == [ssl |-> ssl, aliases |-> aliases, enabled |-> TRUE]
State(row, link, lineage, record) ==
  [row |-> row, file |-> Rendered(row), link |-> link, lineage |-> lineage, record |-> record]
First(aliases) == [sans |-> aliases, serial |-> 1]

(* Plain; plain after "ssl disable"; with TLS; disabled by hand; removed   *)
(* by hand; three that crashes leave: of Enable before the row says TLS,   *)
(* of an addition before and of a removal after the row has changed; and a *)
(* vhost that has lost a name of its row.                                  *)
MCBefore ==
  {State(Row0(FALSE, {}), TRUE, NoLineage, NoRecord),
   State(Row0(FALSE, {a1}), TRUE, First({}), First({})),
   State(Row0(TRUE, {a1}), TRUE, First({a1}), First({a1})),
   State(Row0(TRUE, {}), FALSE, First({}), NoRecord),
   [State(Row0(FALSE, {}), FALSE, NoLineage, NoRecord) EXCEPT !.file = NoFile],
   [State(Row0(FALSE, {a1}), TRUE, First({a1}), NoRecord) EXCEPT !.file.tls = TRUE],
   [State(Row0(TRUE, {}), TRUE, First({a1}), First({})) EXCEPT !.file.aliases = {a1}],
   State(Row0(TRUE, {}), TRUE, First({}), First({a1})),
   [State(Row0(TRUE, {a1}), TRUE, First({a1}), First({a1})) EXCEPT !.file.aliases = {}]}

AnyOrder == Permutations({c1, c2})
=============================================================================
