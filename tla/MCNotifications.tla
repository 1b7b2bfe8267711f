--------------------------- MODULE MCNotifications ---------------------------
(***************************************************************************)
(* Instances of Notifications for TLC.                                     *)
(***************************************************************************)
EXTENDS Notifications

CONSTANTS e1, u1, u2

\* One event for one user, or for two.
OneUser == [e \in Events |-> <<u1>>]
TwoUsers == [e \in Events |-> <<u1, u2>>]

MCCategoryOf == [e \in Events |-> "PAYMENT"]

MCSwitchable == {<<u1, "IN_APP", "PAYMENT">>}

BothTemplates == [e \in Events |-> ChannelSet]
InAppTemplate == [e \in Events |-> {"IN_APP"}]
=============================================================================
