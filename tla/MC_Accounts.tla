---------------------------- MODULE MC_Accounts ----------------------------
(* Accounts with three operations on one subscription: a new one and one   *)
(* that has a job, a key and a database.                                   *)
EXTENDS Accounts, Functions, TLC

CONSTANTS j1, j2, k1, d1, d2, r1, r2, r3

CronMenu == {[kind |-> k, id |-> 1, command |-> j2] : k \in CronKinds}
KeyMenu == {[kind |-> k, key |-> k1] : k \in KeyKinds}
Access(mode) == [kind |-> "setAccess", mode |-> mode]
DatabaseMenu == {[kind |-> k, name |-> d1, credentials |-> TRUE] : k \in DatabaseKinds}
                \cup {[kind |-> "dbCreate", name |-> d2, credentials |-> FALSE]}

(* Operations of two services share the lock and nothing else.             *)
FromPassword == {[kind |-> "keyAdd", key |-> k1], Access("password"), Access("none")}
FromKey == {[kind |-> "keyRemove", key |-> k1], Access("key"), Access("none")}
AddRemove == {w \in CronMenu : w.kind # "cronUpdate"}
MCWishes ==
  UNION {[Requests -> menu] : menu \in {AddRemove, KeyMenu, DatabaseMenu}}
  \cup UNION {{w \in [Requests -> menu] : IsInjective(w)} : menu \in {CronMenu, FromPassword, FromKey}}

NoDatabase == [row |-> FALSE, schema |-> FALSE, login |-> "none", credentials |-> FALSE]
Fresh ==
  [jobs |-> {}, crontab |-> Missing, keys |-> [k \in Keys |-> 0], authorized |-> Missing,
   access |-> "none", shell |-> "nologin", password |-> "locked",
   databases |-> [d \in Databases |-> NoDatabase]]
Used ==
  [jobs |-> {[id |-> 1, command |-> j1]}, crontab |-> {j1},
   keys |-> [k \in Keys |-> 1], authorized |-> Keys,
   access |-> "key+password", shell |-> "login", password |-> "old",
   databases |-> [d \in Databases |-> IF d = d1 THEN [NoDatabase EXCEPT !.row = TRUE, !.schema = TRUE, !.login = "old"]
                                      ELSE NoDatabase]]
MCBefore == {Fresh, Used}

AnyOrder == Permutations({r1, r2, r3})
=============================================================================
