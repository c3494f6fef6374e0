------------------------------ MODULE Session ------------------------------
(***************************************************************************)
(* Auth with the commands "mangahub auth" of one terminal, which keep the  *)
(* token of the terminal's session in a file.  Commands may run side by    *)
(* side in the terminal, each served by a request of its own, and other    *)
(* clients of the same users act as they please.                           *)
(*                                                                         *)
(* A command loads the file once and writes or deletes it after its        *)
(* answer; the server may be out of reach, or its answer lost.             *)
(***************************************************************************)
EXTENDS Auth

VARIABLES
    saved,   \* the token in the file, or NoToken
    cmd,     \* cmd[r]: the command that r serves, or is typed for: see Commands
    held,    \* held[r]: what that command has loaded while passwords are typed
    spoiled  \* history: tokens of which the file cannot know that they are ended

file == <<saved, cmd, held, spoiled>>
svars == <<vars, file>>

\* "prompt" is a change of password that waits for the passwords.
Commands == {"none", "login", "logout", "prompt", "change"}

SInit ==
    /\ Init
    /\ saved = NoToken
    /\ cmd = [r \in Requests |-> "none"]
    /\ held = [r \in Requests |-> NoToken]
    /\ spoiled = {}

Free(r) == cmd[r] = "none" /\ req[r].pc \in Answers \cup {"idle"}
Runs(r, command) == cmd' = [cmd EXCEPT ![r] = command]

-----------------------------------------------------------------------------
(* The commands, up to their request.                                      *)

\* The password is typed before anything is sent; the file is not used.
HandleLogin(r) ==
    /\ Free(r) /\ BeginOpen(r, "login")
    /\ Runs(r, "login")
    /\ UNCHANGED <<saved, held, spoiled>>

\* Registration leaves the session alone: the token it is answered is dropped.
HandleRegister(r) ==
    /\ Free(r) /\ BeginOpen(r, "register")
    /\ UNCHANGED file

HandleLogout(r) ==
    /\ Free(r) /\ saved # NoToken
    /\ BeginWithToken(r, "logout", saved)
    /\ Runs(r, "logout")
    /\ UNCHANGED <<saved, held, spoiled>>

\* The token is loaded, then the passwords are asked for.
Prompt(r) ==
    /\ Free(r) /\ saved # NoToken
    /\ held' = [held EXCEPT ![r] = saved]
    /\ Runs(r, "prompt")
    /\ UNCHANGED <<vars, saved, spoiled>>

\* The new password has to differ.
HandleChangePassword(r) ==
    /\ cmd[r] = "prompt"
    /\ BeginWithToken(r, "change", held[r]) /\ req'[r].password # req'[r].fresh
    /\ held' = [held EXCEPT ![r] = NoToken]
    /\ Runs(r, "change")
    /\ UNCHANGED <<saved, spoiled>>

\* The status, like any other command with a session: a request with the token,
\* and the file stays.  "auth status" first asks /health, would drop the token if
\* that refused it, and sends nothing more when it has no answer.  The router
\* puts /health before the middleware, so it refuses nobody and changes nothing.
HandleStatus(r) ==
    /\ Free(r) /\ saved # NoToken
    /\ BeginWithToken(r, "access", saved)
    /\ UNCHANGED file

-----------------------------------------------------------------------------
(* Their answers.                                                          *)

Answered(r, command) == cmd[r] = command /\ req[r].pc \in Answers /\ Runs(r, "none")

LoginAnswered(r) ==
    /\ Answered(r, "login")
    /\ saved' = IF At(r, "ok") THEN req[r].token ELSE saved
    /\ UNCHANGED <<vars, held, spoiled>>

\* Whatever the answer.
LogoutAnswered(r) ==
    /\ Answered(r, "logout")
    /\ saved' = NoToken
    /\ UNCHANGED <<vars, held, spoiled>>

\* Mutant: the file is left to the next login.
ChangeAnswered_KeepsToken(r) ==
    /\ Answered(r, "change")
    /\ UNCHANGED <<vars, saved, held, spoiled>>

ChangeAnswered(r) ==
    /\ Answered(r, "change")
    /\ saved' = IF At(r, "ok") THEN NoToken ELSE saved
    /\ UNCHANGED <<vars, held, spoiled>>

\* The server cannot be reached, its answer is lost, or a prompt is left: only
\* a logout forgets the token also then.
Unanswered(r) ==
    /\ cmd[r] # "none"
    /\ saved' = IF cmd[r] = "logout" THEN NoToken ELSE saved
    /\ spoiled' = spoiled \cup (IF cmd[r] = "change" THEN {req[r].token} \cap ended ELSE {})
    /\ held' = [held EXCEPT ![r] = NoToken]
    /\ Runs(r, "none")
    /\ UNCHANGED vars

-----------------------------------------------------------------------------
(* The server, and the other clients.                                      *)

\* A login issues a token that was issued already, to somebody in the same second.
Reissued(r) == {[user |-> req[r].user, iat |-> clock]} \cap issued

Serve(r) ==
    /\ Step(r)
    /\ spoiled' = spoiled \cup (IF At(r, "issue") THEN Reissued(r) ELSE {})
                          \cup (IF cmd[r] = "none" THEN ended' \ ended ELSE {})
    /\ UNCHANGED <<saved, cmd, held>>

Other(r) == Free(r) /\ Arrive(r) /\ UNCHANGED file

SNext ==
    \/ \E r \in Requests :
        \/ HandleLogin(r) \/ HandleRegister(r) \/ HandleLogout(r) \/ Prompt(r)
        \/ HandleChangePassword(r) \/ HandleStatus(r)
        \/ LoginAnswered(r) \/ LogoutAnswered(r) \/ ChangeAnswered(r) \/ Unanswered(r)
        \/ Serve(r) \/ Other(r)
    \/ (Tick \/ Restart) /\ UNCHANGED file

SSpec == SInit /\ [][SNext]_svars

-----------------------------------------------------------------------------
(* Properties.                                                             *)

OnItsWay(t) == \E r \in Requests : cmd[r] \in {"logout", "change"} /\ req[r].token = t

\* A terminal never goes on with a session that its own commands have ended,
\* in whatever order they are answered: the token in the file is not ended,
\* unless the answer that will delete it is on its way, another client ended
\* it or the answer was lost, or it was issued twice in one second.
SavedSessionLives ==
    saved \in ended => saved \in spoiled \/ OnItsWay(saved)
=============================================================================
