---------------------------- MODULE MCGeoCampaign ----------------------------
(* Two protocols, one repeat and one group; the worker uploads two files.    *)
EXTENDS GeoCampaign

MCProtocolOrder == <<"tcp", "udp">>
MCRepeats == <<"repeat-1">>
MCOrderedGroups == <<"tcp-udp">>
MCScanFiles == <<"os", "coverage">>
MCSkipOS == {{}, {"udp", "site"}}
MCMaxFaults == [parallel |-> 1, site |-> 2, os |-> 3]
=============================================================================
