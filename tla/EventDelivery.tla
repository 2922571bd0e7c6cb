--------------------------- MODULE EventDelivery ---------------------------
(***************************************************************************)
(* What the event outbox promises to the rest of the system: an event that *)
(* was accepted with its entity stays owed until it has been delivered at  *)
(* least once, was given up after failing to be published, or belongs to a *)
(* connector that was uninstalled.  Delivery may be repeated.              *)
(***************************************************************************)
CONSTANTS Events, ConnectorEvents

VARIABLES accepted,   \* events written with their entity
          owed,       \* events still to be published
          delivered,  \* events the message broker received
          givenUp,    \* events no longer tried
          removed     \* the connector was uninstalled: "yes" or "no"

vars == <<accepted, owed, delivered, givenUp, removed>>

Init ==
    /\ accepted = {} /\ owed = {} /\ delivered = {} /\ givenUp = {}
    /\ removed = "no"

Accept(e) ==
    /\ e \notin accepted
    /\ accepted' = accepted \cup {e}
    /\ owed' = owed \cup {e}
    /\ UNCHANGED <<delivered, givenUp, removed>>

Deliver(e) ==
    /\ e \in accepted
    /\ delivered' = delivered \cup {e}
    /\ UNCHANGED <<accepted, owed, givenUp, removed>>

\* Only delivered events are settled.
Settle(S) ==
    /\ S \subseteq delivered
    /\ owed' = owed \ S
    /\ givenUp' = givenUp \ S
    /\ UNCHANGED <<accepted, delivered, removed>>

GiveUp(e) ==
    /\ e \in accepted
    /\ owed' = owed \ {e}
    /\ givenUp' = givenUp \cup {e}
    /\ UNCHANGED <<accepted, delivered, removed>>

\* A settled or given-up event is published again.
Reopen(e) ==
    /\ e \in accepted
    /\ owed' = owed \cup {e}
    /\ givenUp' = givenUp \ {e}
    /\ UNCHANGED <<accepted, delivered, removed>>

Remove ==
    /\ removed' = "yes"
    /\ owed' = owed \ ConnectorEvents
    /\ givenUp' = givenUp \ ConnectorEvents
    /\ UNCHANGED <<accepted, delivered>>

Next ==
    \/ \E e \in Events : Accept(e) \/ Deliver(e) \/ GiveUp(e) \/ Reopen(e)
    \/ \E S \in SUBSET Events : Settle(S)
    \/ Remove

Spec == Init /\ [][Next]_vars
=============================================================================
