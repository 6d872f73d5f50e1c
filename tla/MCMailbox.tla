----------------------------- MODULE MCMailbox ------------------------------
(* Model values for MailboxActor. *)
EXTENDS MailboxActor, TLC

CONSTANTS c1, c2, c3

MCClients == {c1, c2, c3}

=============================================================================
