-------------------------- MODULE PublishContract ---------------------------
(***************************************************************************)
(* What a wireless publisher promises its caller: only a valid document    *)
(* reaches the sink, only while a call for it runs, and the call returns   *)
(* only if the sink took the document during that call; a call that raises *)
(* says nothing.  Attempts, connections, channels and confirms are the     *)
(* business of RabbitPublisher.tla.                                        *)
(***************************************************************************)
CONSTANTS Documents, \* what callers may publish
          Valid(_),  \* what the schema boundary lets through
          NoDocument

VARIABLES status, \* of the call
          call,   \* the document of the call
          sent,   \* whether the sink took it in this call
          taken   \* documents the sink has

vars == <<status, call, sent, taken>>

Init == status = "idle" /\ call = NoDocument /\ sent = FALSE /\ taken = {}

Call(d) ==
    /\ status = "idle"
    /\ call' = d
    /\ status' = IF Valid(d) THEN "calling" ELSE "raised"
    /\ sent' = FALSE
    /\ UNCHANGED taken

Take ==
    /\ status = "calling"
    /\ sent' = TRUE
    /\ taken' = taken \cup {call}
    /\ UNCHANGED call
    /\ status' \in {"calling", "returned", "raised"}

Return ==
    /\ status = "calling" /\ sent
    /\ status' = "returned"
    /\ UNCHANGED <<call, sent, taken>>

Raise ==
    /\ status = "calling"
    /\ status' = "raised"
    /\ UNCHANGED <<call, sent, taken>>

Collect ==
    /\ status \in {"returned", "raised"}
    /\ status' = "idle"
    /\ call' = NoDocument
    /\ sent' = FALSE
    /\ UNCHANGED taken

Next == (\E d \in Documents : Call(d)) \/ Take \/ Return \/ Raise \/ Collect

Spec == Init /\ [][Next]_vars
=============================================================================
