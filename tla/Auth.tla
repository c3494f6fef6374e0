-------------------------------- MODULE Auth --------------------------------
(***************************************************************************)
(* Accounts and sessions of the HTTP API: registration, login, change of   *)
(* password, and the bearer tokens the middleware admits and a logout      *)
(* revokes.                                                                *)
(*                                                                         *)
(* A request runs in a goroutine of its own.  It is interleaved with the   *)
(* others and with the clock between any two database statements and       *)
(* between the two tests of a token: its signature and expiry first, the   *)
(* list of revoked tokens second.  The clock counts seconds.               *)
(***************************************************************************)
EXTENDS Naturals

CONSTANTS
    Requests,    \* goroutines; each serves one request after another
    Usernames,
    Passwords,
    TTL,         \* seconds a token lives, 24 hours in the code
    MaxClock,    \* bound: the last second
    MaxBegun,    \* bound: requests that are begun
    NoAccount, NoToken

ASSUME ClockAssumption == TTL \in Nat /\ MaxClock \in Nat /\ MaxBegun \in Nat
ASSUME NoAccountAssumption == NoAccount \notin Passwords

VARIABLES
    users,    \* users[u]: the password of account u, or NoAccount
    revoked,  \* the tokens the service holds as revoked, in memory
    clock,
    req,      \* req[r]: the request that r serves
    \* history
    issued,   \* tokens that were handed out
    ended,    \* tokens whose logout or change of password was answered "ok"
    named,    \* named[u]: registrations of u that were stored
    begun

vars == <<users, revoked, clock, req, issued, ended, named, begun>>
ghosts == <<issued, ended, named, begun>>

\* A token is its claims.  The list of revoked tokens holds the signed strings;
\* signing is deterministic, so tokens of one user and one second are one string.
Tokens == [user: Usernames, iat: 0 .. MaxClock]
Exp(t) == t.iat + TTL

ASSUME NoTokenAssumption == NoToken \notin Tokens

Answers == {"ok", "refused", "failed"}

Idle ==
    [pc |-> "idle", op |-> "none", user |-> "", password |-> "", fresh |-> "",
     token |-> NoToken, leg |-> "middleware", dead |-> FALSE]

\* The server has started on a database that may have accounts.
Init ==
    /\ users \in [Usernames -> Passwords \cup {NoAccount}]
    /\ revoked = {}
    /\ clock = 0
    /\ req = [r \in Requests |-> Idle]
    /\ issued = {} /\ ended = {}
    /\ named = [u \in Usernames |-> IF users[u] = NoAccount THEN 0 ELSE 1]
    /\ begun = 0

At(r, pc) == req[r].pc = pc
Goto(r, pc) == req' = [req EXCEPT ![r].pc = pc]

Tick ==
    /\ clock < MaxClock
    /\ clock' = clock + 1
    /\ UNCHANGED <<users, revoked, req, ghosts>>

-----------------------------------------------------------------------------
(* A request arrives.                                                      *)

Begin(r, job) ==
    /\ req[r].pc \in Answers \cup {"idle"} /\ begun < MaxBegun
    /\ req' = [req EXCEPT ![r] = job]
    /\ begun' = begun + 1
    /\ UNCHANGED <<users, revoked, clock, issued, ended, named>>

\* POST /auth/register and /auth/login.
BeginOpen(r, op) ==
    \E u \in Usernames, p \in Passwords :
        Begin(r, [Idle EXCEPT !.pc = "lookup", !.op = op, !.user = u, !.password = p])

\* A request with a bearer token, which the middleware tests first: logout,
\* change of password, or any other.
BeginWithToken(r, op, t) ==
    \E p, q \in Passwords :
        /\ op # "change" => p = q
        /\ Begin(r, [Idle EXCEPT !.pc = "verify", !.op = op, !.user = t.user,
                                 !.password = p, !.fresh = q, !.token = t,
                                 !.dead = t \in ended])

Arrive(r) ==
    \/ \E op \in {"register", "login"} : BeginOpen(r, op)
    \/ \E op \in {"logout", "change", "access"}, t \in issued : BeginWithToken(r, op, t)

-----------------------------------------------------------------------------
(* Register and Login.                                                     *)

\* GetUserByUsernameWithPassword, and Login's comparison with what it read.
LookUp(r) ==
    /\ At(r, "lookup")
    /\ LET account == users[req[r].user] IN
        Goto(r, IF req[r].op = "register"
                  THEN IF account = NoAccount THEN "insert" ELSE "refused"
                  ELSE IF account = req[r].password THEN "issue" ELSE "refused")
    /\ UNCHANGED <<users, revoked, clock, ghosts>>

\* Mutant: the username is not unique.
CreateUser_NotUnique(r) ==
    /\ At(r, "insert")
    /\ users' = [users EXCEPT ![req[r].user] = req[r].password]
    /\ named' = [named EXCEPT ![req[r].user] = @ + 1]
    /\ Goto(r, "reread")
    /\ UNCHANGED <<revoked, clock, issued, ended, begun>>

\* The column is UNIQUE: of two that found the name free one fails.
CreateUser(r) ==
    /\ At(r, "insert")
    /\ IF users[req[r].user] = NoAccount
         THEN /\ users' = [users EXCEPT ![req[r].user] = req[r].password]
              /\ named' = [named EXCEPT ![req[r].user] = @ + 1]
              /\ Goto(r, "reread")
         ELSE Goto(r, "refused") /\ UNCHANGED <<users, named>>
    /\ UNCHANGED <<revoked, clock, issued, ended, begun>>

\* CreateUser reads the account back; no account is ever deleted.
GetUserByID(r) ==
    /\ At(r, "reread")
    /\ Goto(r, "issue")
    /\ UNCHANGED <<users, revoked, clock, ghosts>>

\* Claims carry whole seconds.
IssueToken(r) ==
    /\ At(r, "issue")
    /\ LET t == [user |-> req[r].user, iat |-> clock] IN
        /\ issued' = issued \cup {t}
        /\ req' = [req EXCEPT ![r].pc = "ok", ![r].token = t]
    /\ UNCHANGED <<users, revoked, clock, ended, named, begun>>

-----------------------------------------------------------------------------
(* Tokens.                                                                 *)

\* Where a token that is not admitted leads: ChangePassword ignores what
\* Logout says.
Rejected(r) == IF req[r].leg = "logout" /\ req[r].op = "change" THEN "ok" ELSE "refused"

\* Where one that is admitted leads.
Admitted(r) ==
    IF req[r].leg = "logout" THEN "revoke"
    ELSE [access |-> "ok", logout |-> "verify", change |-> "password"][req[r].op]

\* A request that is answered "ok" has ended the session it came with.
Ends(r, next) ==
    ended' = IF next = "ok" /\ req[r].op = "change" THEN ended \cup {req[r].token} ELSE ended

Tested(r, next) ==
    /\ req' = [req EXCEPT ![r].pc = next,
                          ![r].leg = IF next = "verify" THEN "logout" ELSE @]
    /\ Ends(r, next)

\* ParseWithClaims: a token is valid before its expiry.
Verify(r) ==
    /\ At(r, "verify")
    /\ IF clock < Exp(req[r].token) THEN Goto(r, "revocation") /\ UNCHANGED ended
       ELSE Tested(r, Rejected(r))
    /\ UNCHANGED <<users, revoked, clock, issued, named, begun>>

\* Mutant: a token is dropped from the list in its last second.
Purged_Early(instant) == {t \in revoked : clock + 1 >= Exp(t)}

\* What now.After drops: in the second of the expiry it depends on whether
\* the clock reads that very instant.
Purged(instant) ==
    {t \in revoked : clock > Exp(t) \/ (clock = Exp(t) /\ ~instant)}

\* isRevoked, which also drops what has expired.
IsRevoked(r) ==
    /\ At(r, "revocation")
    /\ \E instant \in BOOLEAN :
        /\ revoked' = revoked \ Purged(instant)
        /\ Tested(r, IF req[r].token \in revoked' THEN Rejected(r) ELSE Admitted(r))
    /\ UNCHANGED <<users, clock, issued, named, begun>>

\* Mutant: all sessions of the user are ended.
Revoked_Everywhere(r) == revoked \cup {t \in issued : t.user = req[r].user}

Revoked(r) == revoked \cup {req[r].token}

\* The end of Logout.
Revoke(r) ==
    /\ At(r, "revoke")
    /\ revoked' = Revoked(r)
    /\ ended' = ended \cup {req[r].token}
    /\ Goto(r, "ok")
    /\ UNCHANGED <<users, clock, issued, named, begun>>

-----------------------------------------------------------------------------
(* ChangePassword, behind the middleware.                                  *)

CheckPassword(r) ==
    /\ At(r, "password")
    /\ Goto(r, IF users[req[r].user] = req[r].password THEN "update" ELSE "refused")
    /\ UNCHANGED <<users, revoked, clock, ghosts>>

\* UpdateUserPassword, then Logout of the token.
UpdateUserPassword(r) ==
    /\ At(r, "update")
    /\ users' = [users EXCEPT ![req[r].user] = req[r].fresh]
    /\ Tested(r, "verify")
    /\ UNCHANGED <<revoked, clock, issued, named, begun>>

\* A database statement fails; Register takes a failing look-up for a name that
\* is free, and fails with the account stored when it cannot be read back.
StatementError(r) ==
    /\ req[r].pc \in {"lookup", "insert", "reread", "password", "update"}
    /\ Goto(r, IF At(r, "lookup") /\ req[r].op = "register" THEN "insert" ELSE "failed")
    /\ UNCHANGED <<users, revoked, clock, ghosts>>

\* The server exits and starts again: what it held in memory is gone, and
\* with it every promise about the sessions that were ended.
Restart ==
    /\ revoked # {} \/ \E r \in Requests : req[r] # Idle
    /\ revoked' = {} /\ ended' = {}
    /\ req' = [r \in Requests |-> Idle]
    /\ UNCHANGED <<users, clock, issued, named, begun>>

-----------------------------------------------------------------------------
Step(r) ==
    \/ LookUp(r) \/ CreateUser(r) \/ GetUserByID(r) \/ IssueToken(r)
    \/ Verify(r) \/ IsRevoked(r) \/ Revoke(r)
    \/ CheckPassword(r) \/ UpdateUserPassword(r) \/ StatementError(r)

Next ==
    \/ \E r \in Requests : Arrive(r) \/ Step(r)
    \/ Tick \/ Restart

Spec == Init /\ [][Next]_vars

-----------------------------------------------------------------------------
(* Properties.                                                             *)

\* Types; tokens are of the past, and only issued ones are revoked; however many
\* registrations of a name race, one account is stored under it, and no later
\* registration touches it.
TypeOK ==
    /\ users \in [Usernames -> Passwords \cup {NoAccount}]
    /\ revoked \cup ended \subseteq issued /\ issued \subseteq Tokens
    /\ \A t \in issued : t.iat <= clock
    /\ clock \in 0 .. MaxClock
    /\ begun \in 0 .. MaxBegun
    /\ \A r \in Requests :
        /\ req[r].pc \in Answers \cup {"idle", "lookup", "insert", "reread", "issue", "verify",
                           "revocation", "revoke", "password", "update"}
        /\ req[r].token \in Tokens \cup {NoToken}
    /\ \A u \in Usernames : named[u] <= 1 /\ (named[u] = 0 <=> users[u] = NoAccount)

Judges(r) == req[r].pc = "revocation" /\ req'[r].pc # "revocation"
Admits(r) == Judges(r) /\ req'[r].pc \notin {"refused", "idle"}

\* A session that was ended, by a logout or by a change of password whose
\* logout failed unnoticed, is not admitted again, also while requests drop
\* expired tokens from the list: only a token that expires between its two
\* tests slips through, in which second it is dead anyway.
EndedSessionsStayEnded ==
    [][\A r \in Requests :
        Admits(r) /\ req[r].leg = "middleware" /\ req[r].dead
            => clock >= Exp(req[r].token)]_vars

\* Ending a session leaves the user's other sessions alone: before its expiry
\* only a token that was itself ended is turned away.  A login of the second
\* in which an ended token was issued returns that token again.
OtherSessionsLiveOn ==
    [][\A r \in Requests :
        Judges(r) /\ req'[r].pc = "refused" /\ clock < Exp(req[r].token)
            => req[r].token \in ended]_vars
=============================================================================
