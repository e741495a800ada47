----------------------------- MODULE MC_Apache -----------------------------
(* Apache with two callers inside plans that share a site, and SSLService  *)
(* on another site of the same server.  The bodies are one previous one, a *)
(* good new one, one configtest rejects and one the server dies of.        *)
EXTENDS Apache, TLC

CONSTANTS s1, s2, planA, planB, ssl, old, new, malformed, deadly

AnyCall == {j \in Job : j.site = s1 /\ j.body \in {new, malformed, deadly}
                        /\ (j.op \in {"Enable", "Disable", "RemoveVHost"} => j.body = new)}
Writes(s, body) == [op : {"Apply"}, site : {s}, body : {body}]

MCJobsOf == (planA :> AnyCall) @@ (planB :> Writes(s1, old)) @@ (ssl :> Writes(s2, malformed))
OneSiteJobsOf == (planA :> Writes(s1, new)) @@ (ssl :> Writes(s1, malformed))
=============================================================================
