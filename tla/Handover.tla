------------------------------ MODULE Handover ------------------------------
(***************************************************************************)
(* What every hop of the event pipeline promises: a sender hands items to  *)
(* a receiver and forgets an item only once the receiver has it.  The      *)
(* receiver may get an item more than once.  The sender may shed an item   *)
(* on purpose, and then says so.                                           *)
(***************************************************************************)
CONSTANT Items

VARIABLES
    accepted,   \* the items the sender took charge of
    source,     \* the items it still holds
    sink,       \* the items the receiver has
    shed        \* the items given up on purpose

vars == <<accepted, source, sink, shed>>

Init ==
    /\ accepted = {}
    /\ source = {}
    /\ sink = {}
    /\ shed = {}

\* New items come into the sender's charge.
Accept ==
    /\ accepted \subseteq accepted' /\ accepted' \subseteq Items
    /\ source' = source \cup (accepted' \ accepted)
    /\ UNCHANGED <<sink, shed>>

\* The receiver gets items the sender holds.
Deliver ==
    /\ sink \subseteq sink' /\ sink' \subseteq sink \cup source
    /\ UNCHANGED <<accepted, source, shed>>

\* The sender forgets items the receiver has.
Forget ==
    /\ source' \subseteq source /\ source \ source' \subseteq sink
    /\ UNCHANGED <<accepted, sink, shed>>

\* The sender gives items up.
Shed ==
    /\ source' \subseteq source
    /\ shed' = shed \cup (source \ source')
    /\ UNCHANGED <<accepted, sink>>

Next == Accept \/ Deliver \/ Forget \/ Shed

Spec == Init /\ [][Next]_vars
=============================================================================
