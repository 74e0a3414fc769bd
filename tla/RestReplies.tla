---------------------------- MODULE RestReplies ----------------------------
(***************************************************************************)
(* What a REST handler of nethcti-server can do with a request, for the    *)
(* modules that model the handlers of one plugin each.                     *)
(*                                                                         *)
(* A handler is an operator from the request to the set of the outcomes it *)
(* may have.  An outcome is what its synchronous part does: the replies to *)
(* the client, in order, and the commands sent to components, each with    *)
(* the set of the outcomes its callbacks may have then.                    *)
(***************************************************************************)
EXTENDS Authorization, Sequences

CONSTANT Admin          \* the name the code treats as the administrator's
ASSUME AdminAssumption == Admin \in Users

C == INSTANCE Components

\* hides is what a reply hides of the numbers in it, shows the calls or the
\* statistics it has, when they are told apart.
Reply(c) == [reply |-> c, hides |-> "nothing", shows |-> {}]
Outcome(replied, sent) == [replies |-> replied, commands |-> sent]
Silence == Outcome(<<>>, {})
Send(cmd, on, then) == Outcome(<<>>, {[send |-> cmd, on |-> on, then |-> then]})
AndReply(o, c) == Outcome(Append(o.replies, Reply(c)), o.commands)

Http(c) == {Outcome(<<Reply(c)>>, {})}
BadRequest == Http(400)
Forbidden == Http(403)
\* Data the component has at hand.
Show(hides) == {Outcome(<<[Reply(200) EXCEPT !.hides = hides]>>, {})}

\* The outcomes of a callback for each argument it may be called with.
Arguments == {"error", "done", "nothing"}
OkOrError == [a \in Arguments |-> IF a = "error" THEN Http(500) ELSE Http(200)]
\* The outcomes of the calls of a callback, one after the other.
Called(calls, after) ==
  CASE calls = <<>> -> {Silence}
    [] Len(calls) = 1 -> after[calls[1]]
    [] OTHER -> UNION {{Outcome(e.replies \o f.replies, e.commands \cup f.commands) :
                          f \in after[calls[2]]} : e \in after[calls[1]]}
\* A command with its callback.
AskThen(cmd, on, after) ==
  {Send(cmd, on, UNION {Called(calls, after) : calls \in C!Calls(cmd)})}
\* A command whose callback answers 200, or 500 on an error.
Ask(cmd, on) == AskThen(cmd, on, OkOrError)
\* A command nobody waits for, answered 200 at once.
Tell(cmd, on) == {AndReply(Send(cmd, on, {Silence}), 200)}

\* The handlers check the parameters, then the permission.
Checked(r, permitted, outcomes) ==
  IF ~r.valid THEN BadRequest ELSE IF ~permitted THEN Forbidden ELSE outcomes

Owns(r) == verifyUserEndpointExten(r.user, r.endpoint)
OwnsDest(r) == verifyUserEndpointExten(r.user, r.dest)
Hidden(k) == IF isPrivacyEnabled(k) THEN "all" ELSE "nothing"
=============================================================================
