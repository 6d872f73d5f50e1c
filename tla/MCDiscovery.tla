---------------------------- MODULE MCDiscovery -----------------------------
(* Model values for AssetDiscovery: two jobs that share an asset, one of   *)
(* whose providers also returns something it may not.                      *)
EXTENDS AssetDiscovery

CONSTANTS a1, a2, scan, resolve, direct, caller

MCAssets == {a1, a2}

MCJobs == {scan, resolve}

MCOutput == [j \in MCJobs |-> IF j = scan THEN <<a1, a2>> ELSE <<a1, Invalid>>]

MCOtherOutput == [j \in MCJobs |-> <<a1>>]

MCDirect == {direct}

MCSynchronous == {caller}

MCNobody == {}
=============================================================================
