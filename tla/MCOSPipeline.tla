----------------------------- MODULE MCOSPipeline -----------------------------
(* A small instance of OSPipeline for TLC: three hosts, of which one has no  *)
(* evidence, one is ambiguous and one has a banner that matches no rule.     *)
EXTENDS OSPipeline

MCTags == {"server", "linux", "debian", "ubuntu", "zorin", "windows"}
MCParentTag ==
    [t \in MCTags |-> CASE t = "server" -> "no tag"
                        [] t \in {"linux", "windows"} -> "server"
                        [] t \in {"debian", "ubuntu"} -> "linux"
                        [] t = "zorin" -> "ubuntu"]
MCBanner ==
    [ip \in IPs |-> [s \in Scanners |->
        CASE ip = "c" -> NoBanner
          [] ip = "a" /\ s = "zgrab" -> "ubuntu"
          [] ip = "a" /\ s = "dns" -> "windows"
          [] ip = "b" /\ s = "snmp" -> NoTag
          [] OTHER -> NoBanner]]
MCInputs == {<<"a", "c">>, <<"b", "b">>, <<NoIP>>}
MCWorkers == {<<"dns", 1>>, <<"snmp", 1>>}
=============================================================================
