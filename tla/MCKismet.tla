------------------------------ MODULE MCKismet ------------------------------
(* Model values for KismetPoller: one access point and a client of it. *)
EXTENDS KismetPoller

CONSTANTS ap, sta

MCDevices == {ap, sta}

MCAPs == {ap}

MCLastBssid == [d \in MCDevices |-> IF d = sta THEN ap ELSE "none"]
=============================================================================
