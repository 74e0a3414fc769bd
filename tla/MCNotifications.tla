--------------------------- MODULE MCNotifications ---------------------------
(* Notifications for two users, one of whom logs in under an extension. *)
EXTENDS Notifications, TLC

CONSTANTS s1, s2, u1, u2, x2, e1

TwoSockets   == {s1, s2}
OneCti       == {s1}
TwoPersons   == {u1, u2}
MCKeys       == {u1, x2}
Desktop      == {"desktop"}
MCKeyUser    == u1 :> u1 @@ x2 :> u2
MCExtens     == u1 :> {e1} @@ u2 :> {x2}

\* the privacy of the operator u1 is lifted and imposed again
Restricted == {"queues", "parkings", "trunks", "privacy", "phonebook"}
MCPolicies ==
  {u1 :> {"presence_panel", "queues", "advanced_queues", "qmanager", "privacy", "postit", "phonebook"} @@
   u2 :> Restricted,
   u1 :> {"presence_panel", "queues", "qmanager", "ad_postit"} @@ u2 :> Restricted}
=============================================================================
