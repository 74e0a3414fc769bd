--------------------------- MODULE MCUserSettings ---------------------------
(* UserSettings for two users, the second of whom may come later, for TLC. *)
EXTENDS UserSettings, TLC

CONSTANTS u1, u2, e1, e2

\* the administration gives the extension of a user to another one
MCFiles == {u1 :> {e1}, u1 :> {e2} @@ u2 :> {e1}}
MCPosts == {"auto_queue_login" :> Set @@ "default_extension" :> e2, "auto_queue_login" :> Broken}
MCDefaults == {Empty, u1 :> e1 @@ u2 :> e1}
=============================================================================
