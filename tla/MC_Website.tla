----------------------------- MODULE MC_Website -----------------------------
(* Website with operations that overlap on one domain and its aliases, and *)
(* another domain, which may be an adopted one, that counts against the    *)
(* quota.                                                                  *)
EXTENDS Website, TLC

CONSTANTS s1, s2, a1, c1, c2, r1, r2, r3

Ask(kind, s, alias, conf, type) ==
  [kind |-> kind, site |-> s, alias |-> alias, conf |-> conf, type |-> type]

MCMenu ==
  {Ask("create", s1, a1, c1, "php"), Ask("create", s2, a1, c1, "proxy"),
   Ask("delete", s1, a1, c1, "static"), Ask("delete", s2, a1, c1, "static"),
   Ask("addAlias", s1, a1, c1, "static"),
   Ask("removeAlias", s1, a1, c1, "static"),
   Ask("enable", s1, a1, c1, "static"), Ask("disable", s1, a1, c1, "static"),
   Ask("configure", s1, a1, c2, "static")}

Live(type, aliases, enabled, tls) ==
  LET row == [id |-> 1, type |-> type, aliases |-> aliases, conf |-> c1,
              tls |-> tls, enabled |-> enabled] IN
  [row |-> row, file |-> Rendered(row), link |-> enabled,
   tree |-> "content", logs |-> "entries",
   pool |-> type = "php", lineage |-> tls, certificate |-> tls]

MCBefore ==
  {(s1 :> x) @@ (s2 :> NoSite) : x \in
     {NoSite, [NoSite EXCEPT !.tree = "content", !.logs = "entries"],
      Live("static", {a1}, TRUE, FALSE), Live("php", {}, FALSE, TRUE)}}
  \cup {(s1 :> NoSite) @@ (s2 :> Live("static", {}, TRUE, TRUE))}
MCAdopted == {s2}

AnyOrder == Permutations({r1, r2, r3})
=============================================================================
