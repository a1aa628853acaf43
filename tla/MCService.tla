------------------------------- MODULE MCService -------------------------------
(***************************************************************************)
(* A server over HTTP and runs of the command line on one tenant file: two *)
(* subjects with a key each, one key of another tenant, one disabled.      *)
(***************************************************************************)
EXTENDS Service, TLC

MCSymmetry == Permutations(Callers)

MCTransportOf == [p \in Processes |-> p]

Key(id, tenant, subject, default, disabled) ==
  [id |-> id, tenant |-> tenant, subject |-> subject, default |-> default,
   secret |-> id, disabled |-> disabled]

MCFirstKeys ==
  {Key("k1", "t", "ann", {}, FALSE), Key("k2", "u", "ann", {"n"}, FALSE),
   Key("k3", "t", "bob", {}, TRUE)}
MCNewKeys == {Key("k4", "t", "bob", {"n"}, FALSE)}

MCPresented == {[id |-> i, secret |-> i] : i \in {"k1", "k2", "k3", "k4"}}

Asking(id, namespace, header, flags) ==
  [credential |-> [id |-> id, secret |-> id], namespace |-> namespace, header |-> header,
   flags |-> flags]

MCRequests ==
  {Asking("k1", {}, {}, {"includeAudit"}), Asking("k1", {}, {"_purged"}, {"includeAudit"}),
   Asking("k3", {"n"}, {}, {"includeAudit", "allSubjects"}), Asking("k3", {"n"}, {}, {}),
   Asking("k4", {}, {}, {})}

MCResources == {[tenant |-> "t", subject |-> "bob", namespace |-> "default"]}

Config(d, m, f, w) == [duplicate |-> d, merge |-> m, floor |-> f, window |-> w]
MCConfigOf == [n \in Configs |-> IF n = "strict" THEN Config(99, 95, 80, 0)
                                 ELSE Config(90, 95, 80, 36500)]

MCStored ==
  {[id |-> 1, scope |-> <<"ann", "n">>, body |-> "b", tags |-> {}, meta |-> "m",
    pending |-> FALSE, access |-> 0]}
MCLogged ==
  {[id |-> 0 - 1, scope |-> <<"ann", "n">>, event |-> "Admitted", items |-> {1},
    meta |-> Meta("k1", TRUE, "none")],
   [id |-> 0 - 2, scope |-> <<"ann", "n">>, event |-> "PolicyChanged", items |-> {},
    meta |-> Meta("system", FALSE, "none")]}

(* What a tenant's archive may hold: an item for the tenant's own audit    *)
(* trail, a ceiling said to be changed by a disabled key, a setting nobody *)
(* made, and a row that is here already.                                   *)
MCForged ==
  [wellFormed |-> TRUE,
   items |-> {[id |-> 2, scope |-> <<"_admin", "_purged">>, body |-> "b", tags |-> {},
               meta |-> "m", pending |-> FALSE, vector |-> {"b"}]},
   audits |-> {[id |-> 0 - 3, scope |-> <<"ann", "n">>, event |-> "PolicyChanged", items |-> {},
                meta |-> Meta("k3", FALSE, "none")],
               [id |-> 0 - 4, scope |-> AdminScope, event |-> "PolicyChanged", items |-> {},
                meta |-> Meta("k1", TRUE, "strict")]}]
MCStreams == {MCForged, [MCForged EXCEPT !.items = {}, !.audits = MCLogged]}

MCBodySize == [b \in Bodies |-> 1]
MCBuckets == {"decided", "undecided"}
MCBucketOf == [m \in AuditColumns |-> IF m.decided THEN "decided" ELSE "undecided"]
=============================================================================
