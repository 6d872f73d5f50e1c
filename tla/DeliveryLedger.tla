--------------------------- MODULE DeliveryLedger ---------------------------
(***************************************************************************)
(* What the StarIntel outbox promises its producers: a submitted document  *)
(* is delivered, rejected or abandoned at most once and for good, and it   *)
(* is reported delivered only after the ingest accepted it.  The ingest    *)
(* may accept a document the ledger has rejected or abandoned: an answer   *)
(* that was lost or late tells the sender nothing.  Attempts, backoff,     *)
(* drains, crashes and storage are the business of Outbox.tla.             *)
(***************************************************************************)
CONSTANT Docs

VARIABLES status,   \* document -> what the ledger says of it
          accepted  \* documents the StarIntel ingest has accepted

vars == <<status, accepted>>

Init ==
    /\ status = [d \in Docs |-> "unknown"]
    /\ accepted = {}

Submit(d) ==
    /\ status[d] = "unknown"
    /\ status' = [status EXCEPT ![d] = "pending"]
    /\ UNCHANGED accepted

Accept(d) ==
    /\ status[d] # "unknown"
    /\ accepted' = accepted \cup {d}
    /\ UNCHANGED status

Deliver(d) ==
    /\ status[d] = "pending"
    /\ d \in accepted
    /\ status' = [status EXCEPT ![d] = "delivered"]
    /\ UNCHANGED accepted

GiveUp(d, verdict) ==
    /\ status[d] = "pending"
    /\ status' = [status EXCEPT ![d] = verdict]
    /\ UNCHANGED accepted

Next ==
    \E d \in Docs :
        \/ Submit(d) \/ Accept(d) \/ Deliver(d)
        \/ GiveUp(d, "rejected") \/ GiveUp(d, "abandoned")

Spec == Init /\ [][Next]_vars
=============================================================================
