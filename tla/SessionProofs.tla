--------------------------- MODULE SessionProofs ---------------------------
(***************************************************************************)
(* Proofs about accounts and sessions, for any number of requests, users   *)
(* and seconds, and about the session of a terminal, for any number of     *)
(* commands side by side and any behaviour of other clients.               *)
(*                                                                         *)
(* The first half is about Auth alone.  Its inductive invariant says what  *)
(* a request holds at each place of its code, and how the list of revoked  *)
(* tokens in memory stands to the sessions that were ended.                *)
(*                                                                         *)
(* Session only schedules requests of Auth, so what the first half proves  *)
(* holds of it.  The invariant of the file rests on one more fact: what a  *)
(* login was answered is nobody else's, unless the token was issued twice. *)
(***************************************************************************)
EXTENDS Session, TLAPS

Places == Answers \cup {"idle", "lookup", "insert", "reread", "issue", "verify",
                        "revocation", "revoke", "password", "update"}

Records ==
    [pc: Places, op: {"none", "register", "login", "logout", "change", "access"},
     user: Usernames \cup {""}, password: Passwords \cup {""}, fresh: Passwords \cup {""},
     token: Tokens \cup {NoToken}, leg: {"middleware", "logout"}, dead: BOOLEAN]

\* An open request knows its user and password, one with a token comes with an
\* issued one, and a password is only replaced in an account that exists.  A
\* request that is marked as coming with an ended token came with a token.
RequestInv ==
    /\ req \in [Requests -> Records]
    /\ \A r \in Requests :
        /\ req[r].pc \in {"lookup", "insert", "reread", "issue"} =>
               /\ req[r].user \in Usernames /\ req[r].password \in Passwords
               /\ ~req[r].dead
        /\ req[r].pc \in {"verify", "revocation", "revoke", "password", "update"} =>
               /\ req[r].user \in Usernames /\ req[r].fresh \in Passwords
               /\ req[r].password \in Passwords
               /\ req[r].token \in issued
               /\ req[r].op \in {"access", "logout", "change"}
        /\ req[r].pc = "update" => users[req[r].user] # NoAccount
        /\ req[r].dead => req[r].token \in ended

\* An ended session is on the list until it expires, and nothing else is.
ListInv ==
    /\ revoked \subseteq ended
    /\ \A t \in ended : t \in revoked \/ clock >= Exp(t)

AccountsInv ==
    /\ users \in [Usernames -> Passwords \cup {NoAccount}]
    /\ named \in [Usernames -> 0 .. 1]
    /\ \A u \in Usernames : named[u] = 0 <=> users[u] = NoAccount

CountersInv ==
    /\ clock \in 0 .. MaxClock
    /\ begun \in 0 .. MaxBegun
    /\ ended \subseteq issued /\ issued \subseteq Tokens
    /\ \A t \in issued : t.iat <= clock

IInv == RequestInv /\ ListInv /\ AccountsInv /\ CountersInv

-----------------------------------------------------------------------------
(* Types follow from the invariant.                                        *)

LEMMA InvType == IInv => TypeOK
<1> SUFFICES ASSUME IInv PROVE TypeOK
  OBVIOUS
<1>1. \A r \in Requests : req[r].pc \in Places /\ req[r].token \in Tokens \cup {NoToken}
  BY DEF IInv, RequestInv, Records
<1>2. \A u \in Usernames : named[u] <= 1 /\ (named[u] = 0 <=> users[u] = NoAccount)
  BY DEF IInv, AccountsInv
<1>3. revoked \cup ended \subseteq issued
  BY DEF IInv, ListInv, CountersInv
<1> QED BY <1>1, <1>2, <1>3 DEF IInv, AccountsInv, CountersInv, TypeOK, Places

LEMMA IdleIsRecord == Idle \in Records
BY DEF Idle, Records, Places, Answers

LEMMA InitInv == Init => IInv
<1> SUFFICES ASSUME Init PROVE IInv
  OBVIOUS
<1> USE DEF Init
<1>1. RequestInv
  <2>1. req \in [Requests -> Records]
    BY IdleIsRecord
  <2>2. \A r \in Requests : req[r].pc = "idle" /\ ~req[r].dead
    BY DEF Idle
  <2> QED BY <2>1, <2>2 DEF RequestInv
<1>2. ListInv
  BY DEF ListInv
<1>3. AccountsInv
  BY DEF AccountsInv
<1>4. CountersInv
  BY ClockAssumption DEF CountersInv
<1> QED BY <1>1, <1>2, <1>3, <1>4 DEF IInv

-----------------------------------------------------------------------------
(* Each step keeps the invariant.                                          *)

\* What a step of r has to show when only r's record changes.
LEMMA RequestStep ==
    ASSUME IInv, NEW r \in Requests, NEW record \in Records,
           req' = [req EXCEPT ![r] = record],
           issued \subseteq issued', ended \subseteq ended',
           \A u \in Usernames : users[u] # NoAccount => users'[u] # NoAccount,
           record.pc \in {"lookup", "insert", "reread", "issue"} =>
               /\ record.user \in Usernames /\ record.password \in Passwords
               /\ ~record.dead,
           record.pc \in {"verify", "revocation", "revoke", "password", "update"} =>
               /\ record.user \in Usernames /\ record.fresh \in Passwords
               /\ record.password \in Passwords
               /\ record.token \in issued
               /\ record.op \in {"access", "logout", "change"},
           record.pc = "update" => users[record.user] # NoAccount,
           record.dead => record.token \in ended
    PROVE  RequestInv'
<1>1. req' \in [Requests -> Records]
  BY DEF IInv, RequestInv
<1>2. ASSUME NEW s \in Requests
      PROVE  /\ req'[s].pc \in {"lookup", "insert", "reread", "issue"} =>
                    /\ req'[s].user \in Usernames /\ req'[s].password \in Passwords
                    /\ ~req'[s].dead
             /\ req'[s].pc \in {"verify", "revocation", "revoke", "password", "update"} =>
                    /\ req'[s].user \in Usernames /\ req'[s].fresh \in Passwords
                    /\ req'[s].password \in Passwords
                    /\ req'[s].token \in issued'
                    /\ req'[s].op \in {"access", "logout", "change"}
             /\ req'[s].pc = "update" => users'[req'[s].user] # NoAccount
             /\ req'[s].dead => req'[s].token \in ended'
  <2>1. CASE s = r
    <3>1. req'[s] = record
      BY <2>1 DEF IInv, RequestInv
    <3> QED BY <3>1
  <2>2. CASE s # r
    <3>1. req'[s] = req[s]
      BY <2>2 DEF IInv, RequestInv
    <3> QED BY <3>1 DEF IInv, RequestInv
  <2> QED BY <2>1, <2>2
<1> QED BY <1>1, <1>2 DEF RequestInv

LEMMA BeginInv ==
    ASSUME IInv, NEW r \in Requests, NEW job \in Records, Begin(r, job),
           job.pc = "lookup" =>
               job.user \in Usernames /\ job.password \in Passwords /\ ~job.dead,
           job.pc = "verify" =>
               /\ job.user \in Usernames /\ job.fresh \in Passwords
               /\ job.password \in Passwords /\ job.token \in issued
               /\ job.op \in {"access", "logout", "change"},
           job.pc \in {"lookup", "verify"},
           job.dead => job.token \in ended
    PROVE  IInv'
<1> USE DEF Begin
<1>1. RequestInv'
  BY RequestStep
<1>2. ListInv' /\ AccountsInv'
  BY DEF IInv, ListInv, AccountsInv
<1>3. CountersInv'
  BY ClockAssumption DEF IInv, CountersInv
<1> QED BY <1>1, <1>2, <1>3 DEF IInv

LEMMA ArriveInv ==
    ASSUME IInv, NEW r \in Requests, Arrive(r)
    PROVE  IInv'
<1>1. CASE \E op \in {"register", "login"} : BeginOpen(r, op)
  <2>1. PICK op \in {"register", "login"}, u \in Usernames, p \in Passwords :
            Begin(r, [Idle EXCEPT !.pc = "lookup", !.op = op, !.user = u, !.password = p])
    BY <1>1 DEF BeginOpen
  <2> DEFINE job == [Idle EXCEPT !.pc = "lookup", !.op = op, !.user = u, !.password = p]
  <2>2. job \in Records
    BY DEF Records, Idle, Places, Answers
  <2>3. job.pc = "lookup" /\ job.user \in Usernames /\ job.password \in Passwords /\ ~job.dead
    BY DEF Idle
  <2> HIDE DEF job
  <2> QED BY <2>1, <2>2, <2>3, BeginInv DEF job
<1>2. CASE \E op \in {"logout", "change", "access"}, t \in issued : BeginWithToken(r, op, t)
  <2>1. PICK op \in {"logout", "change", "access"}, t \in issued, p \in Passwords, q \in Passwords :
            Begin(r, [Idle EXCEPT !.pc = "verify", !.op = op, !.user = t.user,
                                  !.password = p, !.fresh = q, !.token = t,
                                  !.dead = t \in ended])
    BY <1>2 DEF BeginWithToken
  <2>5. PICK dead \in BOOLEAN : dead = (t \in ended)
    <3>1. (t \in ended) \in BOOLEAN
      OBVIOUS
    <3> QED BY <3>1
  <2> DEFINE job == [Idle EXCEPT !.pc = "verify", !.op = op, !.user = t.user,
                                 !.password = p, !.fresh = q, !.token = t,
                                 !.dead = dead]
  <2>6. Begin(r, job)
    BY <2>1, <2>5
  <2>2. t \in Tokens /\ t.user \in Usernames
    BY DEF IInv, CountersInv, Tokens
  <2>3. job \in Records
    BY <2>2 DEF Records, Idle, Places, Answers
  <2>4. /\ job.pc = "verify" /\ job.user \in Usernames
        /\ job.password \in Passwords /\ job.fresh \in Passwords
        /\ job.token = t /\ job.dead = dead /\ job.op = op
    BY <2>2 DEF Idle
  <2> HIDE DEF job
  <2> QED BY <2>5, <2>6, <2>3, <2>4, BeginInv DEF job
<1> QED BY <1>1, <1>2 DEF Arrive

\* A step that moves r on, for one of its reasons, and changes no table.
LEMMA GotoRecord ==
    ASSUME IInv, NEW r \in Requests, NEW next \in Places
    PROVE  /\ req[r] \in Records
           /\ [req[r] EXCEPT !.pc = next] \in Records
           /\ [req[r] EXCEPT !.pc = next].pc = next
           /\ [req[r] EXCEPT !.pc = next].op = req[r].op
           /\ [req[r] EXCEPT !.pc = next].user = req[r].user
           /\ [req[r] EXCEPT !.pc = next].password = req[r].password
           /\ [req[r] EXCEPT !.pc = next].fresh = req[r].fresh
           /\ [req[r] EXCEPT !.pc = next].token = req[r].token
           /\ [req[r] EXCEPT !.pc = next].dead = req[r].dead
           /\ [req EXCEPT ![r].pc = next] = [req EXCEPT ![r] = [req[r] EXCEPT !.pc = next]]
BY DEF IInv, RequestInv, Records

LEMMA RestFrame ==
    ASSUME IInv, UNCHANGED <<users, revoked, clock, ghosts>>
    PROVE  ListInv' /\ AccountsInv' /\ CountersInv'
BY DEF IInv, ListInv, AccountsInv, CountersInv, ghosts

LEMMA LookUpInv ==
    ASSUME IInv, NEW r \in Requests, LookUp(r)
    PROVE  IInv'
<1>1. PICK next \in {"insert", "refused", "issue"} : Goto(r, next)
  BY DEF LookUp
<1>2. /\ next \in Places /\ req[r].pc = "lookup" /\ UNCHANGED <<users, revoked, clock, ghosts>>
  BY DEF LookUp, At, Places, Answers
<1>3. req[r].user \in Usernames /\ req[r].password \in Passwords
      /\ ~req[r].dead
  BY <1>2 DEF IInv, RequestInv
<1>4. RequestInv'
  BY <1>1, <1>2, <1>3, GotoRecord, RequestStep DEF Goto, ghosts
<1> QED BY <1>2, <1>4, RestFrame DEF IInv

LEMMA CreateUserInv ==
    ASSUME IInv, NEW r \in Requests, CreateUser(r)
    PROVE  IInv'
<1>1. req[r].pc = "insert" /\ UNCHANGED <<revoked, clock, issued, ended, begun>>
  BY DEF CreateUser, At
<1>2. req[r].user \in Usernames /\ req[r].password \in Passwords
      /\ ~req[r].dead
  BY <1>1 DEF IInv, RequestInv
<1>3. CASE users[req[r].user] = NoAccount
  <2>1. /\ users' = [users EXCEPT ![req[r].user] = req[r].password]
        /\ named' = [named EXCEPT ![req[r].user] = @ + 1]
        /\ Goto(r, "reread")
    BY <1>3 DEF CreateUser
  <2>2. AccountsInv'
    BY <1>2, <1>3, <2>1, NoAccountAssumption DEF IInv, AccountsInv
  <2>3. \A u \in Usernames : users[u] # NoAccount => users'[u] # NoAccount
    BY <1>3, <2>1 DEF IInv, AccountsInv
  <2>4. "reread" \in Places
    BY DEF Places
  <2>5. RequestInv'
    BY <1>1, <1>2, <2>1, <2>3, <2>4, GotoRecord, RequestStep DEF Goto
  <2> QED BY <1>1, <2>2, <2>5 DEF IInv, ListInv, CountersInv
<1>4. CASE users[req[r].user] # NoAccount
  <2>1. Goto(r, "refused") /\ UNCHANGED <<users, named>> /\ "refused" \in Places
    BY <1>4 DEF CreateUser, Places, Answers
  <2>2. RequestInv'
    BY <1>1, <1>2, <2>1, GotoRecord, RequestStep DEF Goto
  <2> QED BY <1>1, <2>1, <2>2, RestFrame DEF IInv, ghosts
<1> QED BY <1>3, <1>4

LEMMA GetUserByIDInv ==
    ASSUME IInv, NEW r \in Requests, GetUserByID(r)
    PROVE  IInv'
<1>1. /\ Goto(r, "issue") /\ "issue" \in Places
      /\ req[r].pc = "reread" /\ UNCHANGED <<users, revoked, clock, ghosts>>
  BY DEF GetUserByID, At, Places
<1>2. req[r].user \in Usernames /\ req[r].password \in Passwords
      /\ ~req[r].dead
  BY <1>1 DEF IInv, RequestInv
<1>3. RequestInv'
  BY <1>1, <1>2, GotoRecord, RequestStep DEF Goto, ghosts
<1> QED BY <1>1, <1>3, RestFrame DEF IInv

LEMMA IssueTokenInv ==
    ASSUME IInv, NEW r \in Requests, IssueToken(r)
    PROVE  IInv'
<1> DEFINE t == [user |-> req[r].user, iat |-> clock]
           record == [req[r] EXCEPT !.pc = "ok", !.token = t]
<1>1. /\ req[r].pc = "issue" /\ UNCHANGED <<users, revoked, clock, ended, named, begun>>
      /\ issued' = issued \cup {t} /\ req' = [req EXCEPT ![r].pc = "ok", ![r].token = t]
  BY DEF IssueToken, At
<1>2. req[r] \in Records /\ req[r].user \in Usernames /\ t \in Tokens
  BY <1>1 DEF IInv, RequestInv, CountersInv, Tokens
<1>3. CountersInv'
  BY <1>1, <1>2 DEF IInv, CountersInv
<1>4. ListInv' /\ AccountsInv'
  BY <1>1 DEF IInv, ListInv, AccountsInv
<1>5. req' = [req EXCEPT ![r] = record] /\ record \in Records
      /\ record.pc = "ok" /\ record.dead = req[r].dead
  BY <1>1, <1>2 DEF IInv, RequestInv, Records, Places, Answers
<1>6. ~req[r].dead
  BY <1>1 DEF IInv, RequestInv
<1>7. RequestInv'
  <2> HIDE DEF record
  <2> QED BY <1>1, <1>5, <1>6, RequestStep
<1> QED BY <1>3, <1>4, <1>7 DEF IInv

\* The tests of a token move a request on and may end its session.
LEMMA TestedStep ==
    ASSUME IInv, NEW r \in Requests, NEW next \in Places, Tested(r, next),
           UNCHANGED <<clock, issued, begun>>, AccountsInv',
           \A u \in Usernames : users[u] # NoAccount => users'[u] # NoAccount,
           revoked' \subseteq revoked,
           \A t \in ended' : t \in revoked' \/ clock >= Exp(t),
           revoked' \subseteq ended,
           next \notin {"lookup", "insert", "reread", "issue"},
           next \in {"verify", "revocation", "revoke", "password", "update"} =>
               req[r].pc \in {"verify", "revocation", "revoke", "password", "update"},
           next # "update",
           next = "ok" /\ req[r].op = "change" => req[r].token \in issued
    PROVE  IInv'
<1> DEFINE record == [req[r] EXCEPT !.pc = next,
                                    !.leg = IF next = "verify" THEN "logout" ELSE @]
<1>1. req[r] \in Records
  BY DEF IInv, RequestInv
<1>2. req' = [req EXCEPT ![r] = record]
  BY DEF Tested, IInv, RequestInv
<1>3. /\ record \in Records /\ record.pc = next /\ record.user = req[r].user
      /\ record.password = req[r].password /\ record.fresh = req[r].fresh
      /\ record.token = req[r].token /\ record.dead = req[r].dead
      /\ record.op = req[r].op
  BY <1>1 DEF Records
<1>4. ended \subseteq ended' /\ ended' \subseteq issued
  BY DEF Tested, Ends, IInv, CountersInv
<1>5. RequestInv'
  <2> HIDE DEF record
  <2>1. next \in {"verify", "revocation", "revoke", "password", "update"} =>
               /\ record.user \in Usernames /\ record.fresh \in Passwords
               /\ record.password \in Passwords
               /\ record.token \in issued
               /\ record.op \in {"access", "logout", "change"}
    BY <1>3 DEF IInv, RequestInv
  <2>2. record.dead => record.token \in ended
    BY <1>3 DEF IInv, RequestInv
  <2> QED BY <1>2, <1>3, <1>4, <2>1, <2>2, RequestStep
<1>6. ListInv'
  BY <1>4 DEF ListInv, Exp
<1>7. CountersInv'
  BY <1>4 DEF IInv, CountersInv
<1> QED BY <1>5, <1>6, <1>7 DEF IInv

LEMMA VerifyInv ==
    ASSUME IInv, NEW r \in Requests, Verify(r)
    PROVE  IInv'
<1>1. req[r].pc = "verify" /\ UNCHANGED <<users, revoked, clock, issued, named, begun>>
  BY DEF Verify, At
<1>2. /\ req[r].token \in issued /\ req[r].user \in Usernames
      /\ req[r].password \in Passwords /\ req[r].fresh \in Passwords
      /\ (req[r].dead => req[r].token \in ended)
      /\ req[r].op \in {"access", "logout", "change"}
  BY <1>1 DEF IInv, RequestInv
<1>3. AccountsInv' /\ \A u \in Usernames : users[u] # NoAccount => users'[u] # NoAccount
  BY <1>1 DEF IInv, AccountsInv
<1>4. CASE clock < Exp(req[r].token)
  <2>1. Goto(r, "revocation") /\ UNCHANGED ended /\ "revocation" \in Places
    BY <1>4 DEF Verify, Places
  <2>2. RequestInv'
    BY <1>1, <1>2, <2>1, GotoRecord, RequestStep DEF Goto
  <2> QED BY <1>1, <2>1, <2>2, RestFrame DEF IInv, ghosts
<1>5. CASE ~(clock < Exp(req[r].token))
  <2>1. Tested(r, Rejected(r))
    BY <1>5 DEF Verify
  <2>2. Rejected(r) \in {"ok", "refused"}
    BY DEF Rejected
  <2>3. clock >= Exp(req[r].token)
    BY <1>2, <1>5, ClockAssumption DEF IInv, CountersInv, Tokens, Exp
  <2>4. \A t \in ended' : t \in revoked' \/ clock >= Exp(t)
    BY <1>1, <2>1, <2>3 DEF Tested, Ends, IInv, ListInv
  <2> QED BY <1>1, <1>2, <1>3, <2>1, <2>2, <2>4, TestedStep DEF Places, Answers, IInv, ListInv
<1> QED BY <1>4, <1>5

\* What is dropped from the list has expired.
LEMMA PurgedExpired ==
    ASSUME IInv, NEW instant \in BOOLEAN, NEW t \in Purged(instant)
    PROVE  clock >= Exp(t)
BY ClockAssumption DEF Purged, IInv, ListInv, CountersInv, Tokens, Exp

LEMMA IsRevokedInv ==
    ASSUME IInv, NEW r \in Requests, IsRevoked(r)
    PROVE  IInv'
<1>1. req[r].pc = "revocation" /\ UNCHANGED <<users, clock, issued, named, begun>>
  BY DEF IsRevoked, At
<1>2. PICK instant \in BOOLEAN :
        /\ revoked' = revoked \ Purged(instant)
        /\ Tested(r, IF req[r].token \in revoked' THEN Rejected(r) ELSE Admitted(r))
  BY DEF IsRevoked
<1>3. req[r] \in Records /\ req[r].token \in issued
  BY <1>1 DEF IInv, RequestInv
<1>4. AccountsInv' /\ \A u \in Usernames : users[u] # NoAccount => users'[u] # NoAccount
  BY <1>1 DEF IInv, AccountsInv
<1>5. revoked' \subseteq revoked /\ revoked' \subseteq ended
  BY <1>2 DEF IInv, ListInv
<1>6. \A t \in ended : t \in revoked' \/ clock >= Exp(t)
  BY <1>2, PurgedExpired DEF IInv, ListInv
<1>7. CASE req[r].token \in revoked'
  <2>1. Tested(r, Rejected(r)) /\ Rejected(r) \in {"ok", "refused"}
    BY <1>2, <1>7 DEF Rejected
  <2>2. \A t \in ended' : t \in revoked' \/ clock >= Exp(t)
    BY <1>6, <1>7, <2>1 DEF Tested, Ends
  <2> QED BY <1>1, <1>3, <1>4, <1>5, <2>1, <2>2, TestedStep DEF Places, Answers
<1>8. CASE req[r].token \notin revoked'
  <2>1. Tested(r, Admitted(r))
    BY <1>2, <1>8
  <2>2. req[r].op \in {"access", "logout", "change"}
    BY <1>1 DEF IInv, RequestInv
  <2>3. /\ Admitted(r) \in {"revoke", "ok", "verify", "password"}
        /\ Admitted(r) = "ok" => req[r].op = "access"
    BY <2>2 DEF Admitted
  <2>4. \A t \in ended' : t \in revoked' \/ clock >= Exp(t)
    BY <1>6, <2>1, <2>3 DEF Tested, Ends
  <2> QED BY <1>1, <1>3, <1>4, <1>5, <2>1, <2>3, <2>4, TestedStep DEF Places, Answers
<1> QED BY <1>7, <1>8

LEMMA RevokeInv ==
    ASSUME IInv, NEW r \in Requests, Revoke(r)
    PROVE  IInv'
<1>1. /\ req[r].pc = "revoke" /\ UNCHANGED <<users, clock, issued, named, begun>>
      /\ revoked' = revoked \cup {req[r].token} /\ ended' = ended \cup {req[r].token}
      /\ Goto(r, "ok") /\ "ok" \in Places
  BY DEF Revoke, Revoked, At, Places, Answers
<1>2. req[r].token \in issued /\ (req[r].dead => req[r].token \in ended)
  BY <1>1 DEF IInv, RequestInv
<1>3. RequestInv'
  BY <1>1, <1>2, GotoRecord, RequestStep DEF Goto
<1>4. ListInv'
  BY <1>1 DEF IInv, ListInv, Exp
<1>5. AccountsInv' /\ CountersInv'
  BY <1>1, <1>2 DEF IInv, AccountsInv, CountersInv
<1> QED BY <1>3, <1>4, <1>5 DEF IInv

LEMMA CheckPasswordInv ==
    ASSUME IInv, NEW r \in Requests, CheckPassword(r)
    PROVE  IInv'
<1>1. req[r].pc = "password" /\ UNCHANGED <<users, revoked, clock, ghosts>>
  BY DEF CheckPassword, At
<1>2. /\ req[r].user \in Usernames /\ req[r].password \in Passwords
      /\ req[r].fresh \in Passwords /\ req[r].token \in issued
      /\ req[r].op \in {"access", "logout", "change"}
      /\ (req[r].dead => req[r].token \in ended)
  BY <1>1 DEF IInv, RequestInv
<1>3. RequestInv'
  <2>1. CASE users[req[r].user] = req[r].password
    <3>1. Goto(r, "update") /\ "update" \in Places /\ users[req[r].user] # NoAccount
      BY <1>2, <2>1, NoAccountAssumption DEF CheckPassword, Places
    <3> QED BY <1>1, <1>2, <3>1, GotoRecord, RequestStep DEF Goto, ghosts
  <2>2. CASE users[req[r].user] # req[r].password
    <3>1. Goto(r, "refused") /\ "refused" \in Places
      BY <2>2 DEF CheckPassword, Places, Answers
    <3> QED BY <1>1, <1>2, <3>1, GotoRecord, RequestStep DEF Goto, ghosts
  <2> QED BY <2>1, <2>2
<1> QED BY <1>1, <1>3, RestFrame DEF IInv

LEMMA UpdateUserPasswordInv ==
    ASSUME IInv, NEW r \in Requests, UpdateUserPassword(r)
    PROVE  IInv'
<1>1. /\ req[r].pc = "update" /\ UNCHANGED <<revoked, clock, issued, named, begun>>
      /\ users' = [users EXCEPT ![req[r].user] = req[r].fresh]
      /\ Tested(r, "verify") /\ "verify" \in Places
  BY DEF UpdateUserPassword, At, Places
<1>2. /\ req[r].user \in Usernames /\ req[r].fresh \in Passwords
      /\ users[req[r].user] # NoAccount
  BY <1>1 DEF IInv, RequestInv
<1>3. AccountsInv' /\ \A u \in Usernames : users[u] # NoAccount => users'[u] # NoAccount
  BY <1>1, <1>2, NoAccountAssumption DEF IInv, AccountsInv
<1>4. \A t \in ended' : t \in revoked' \/ clock >= Exp(t)
  BY <1>1 DEF Tested, Ends, IInv, ListInv
<1> QED BY <1>1, <1>3, <1>4, TestedStep DEF IInv, ListInv

LEMMA StatementErrorInv ==
    ASSUME IInv, NEW r \in Requests, StatementError(r)
    PROVE  IInv'
<1>1. /\ req[r].pc \in {"lookup", "insert", "reread", "password", "update"}
      /\ UNCHANGED <<users, revoked, clock, ghosts>>
  BY DEF StatementError
<1>2. req[r].dead => req[r].token \in ended
  BY DEF IInv, RequestInv
<1>3. RequestInv'
  <2>1. CASE At(r, "lookup") /\ req[r].op = "register"
    <3>1. Goto(r, "insert") /\ "insert" \in Places
      BY <2>1 DEF StatementError, Places
    <3>2. req[r].user \in Usernames /\ req[r].password \in Passwords /\ ~req[r].dead
      BY <2>1 DEF At, IInv, RequestInv
    <3> QED BY <1>1, <1>2, <3>1, <3>2, GotoRecord, RequestStep DEF Goto, ghosts
  <2>2. CASE ~(At(r, "lookup") /\ req[r].op = "register")
    <3>1. Goto(r, "failed") /\ "failed" \in Places
      BY <2>2 DEF StatementError, Places, Answers
    <3> QED BY <1>1, <1>2, <3>1, GotoRecord, RequestStep DEF Goto, ghosts
  <2> QED BY <2>1, <2>2
<1> QED BY <1>1, <1>3, RestFrame DEF IInv

LEMMA TickInv == IInv /\ Tick => IInv'
<1> SUFFICES ASSUME IInv, Tick PROVE IInv'
  OBVIOUS
<1>1. clock < MaxClock /\ clock' = clock + 1 /\ UNCHANGED <<users, revoked, req, ghosts>>
  BY DEF Tick
<1>2. RequestInv' /\ AccountsInv'
  BY <1>1 DEF IInv, RequestInv, AccountsInv, ghosts
<1>3. CountersInv'
  BY <1>1, ClockAssumption DEF IInv, CountersInv, ghosts, Tokens
<1>4. ListInv'
  BY <1>1, ClockAssumption DEF IInv, ListInv, CountersInv, ghosts, Tokens, Exp
<1> QED BY <1>2, <1>3, <1>4 DEF IInv

LEMMA RestartInv == IInv /\ Restart => IInv'
<1> SUFFICES ASSUME IInv, Restart PROVE IInv'
  OBVIOUS
<1>1. /\ revoked' = {} /\ ended' = {} /\ req' = [r \in Requests |-> Idle]
      /\ UNCHANGED <<users, clock, issued, named, begun>>
  BY DEF Restart
<1>2. RequestInv'
  <2>1. \A r \in Requests : req'[r].pc = "idle" /\ ~req'[r].dead
    BY <1>1 DEF Idle
  <2> QED BY <1>1, <2>1, IdleIsRecord DEF RequestInv
<1>3. ListInv' /\ AccountsInv' /\ CountersInv'
  BY <1>1 DEF IInv, ListInv, AccountsInv, CountersInv
<1> QED BY <1>2, <1>3 DEF IInv

LEMMA StepInv ==
    ASSUME IInv, NEW r \in Requests, Step(r)
    PROVE  IInv'
BY LookUpInv, CreateUserInv, GetUserByIDInv, IssueTokenInv, VerifyInv, IsRevokedInv, RevokeInv,
   CheckPasswordInv, UpdateUserPasswordInv, StatementErrorInv DEF Step

LEMMA NextInv == IInv /\ [Next]_vars => IInv'
<1> SUFFICES ASSUME IInv, [Next]_vars PROVE IInv'
  OBVIOUS
<1>1. ASSUME NEW r \in Requests, Arrive(r) \/ Step(r) PROVE IInv'
  BY <1>1, ArriveInv, StepInv
<1>2. CASE UNCHANGED vars
  BY <1>2 DEF vars, IInv, RequestInv, ListInv, AccountsInv, CountersInv
<1> QED BY <1>1, <1>2, TickInv, RestartInv DEF Next

-----------------------------------------------------------------------------
(* The theorems.                                                           *)

\* The invariant holds however requests, the clock and restarts interleave.
THEOREM Invariance == Spec => []IInv
<1>1. Init => IInv
  BY InitInv
<1>2. IInv /\ [Next]_vars => IInv'
  BY NextInv
<1> QED BY <1>1, <1>2, PTL DEF Spec

\* Types, and one account to a name however many registrations of it race.
THEOREM TypeCorrect == Spec => []TypeOK
<1>1. IInv => TypeOK
  BY InvType
<1> QED BY <1>1, Invariance, PTL

\* Only isRevoked decides what becomes of a request that waits for it, unless
\* the server exits.
LEMMA JudgeStep ==
    ASSUME IInv, [Next]_vars, NEW r \in Requests, Judges(r), req'[r].pc # "idle"
    PROVE  IsRevoked(r)
<1>1. req[r].pc = "revocation" /\ req'[r] # req[r]
  BY DEF Judges
<1>2. req \in [Requests -> Records]
  BY DEF IInv, RequestInv
<1>3. ASSUME NEW s \in Requests, Arrive(s) PROVE req'[r] = req[r]
  <2>1. PICK job : Begin(s, job)
    BY <1>3 DEF Arrive, BeginOpen, BeginWithToken
  <2>2. s # r
    BY <1>1, <2>1 DEF Begin, Answers
  <2> QED BY <1>2, <2>1, <2>2 DEF Begin
<1>4. ASSUME NEW s \in Requests, Step(s) PROVE req'[r] = req[r] \/ (s = r /\ IsRevoked(r))
  <2>1. CASE s = r
    BY <1>1, <1>4, <2>1 DEF Step, At, LookUp, CreateUser, GetUserByID, IssueToken, Verify, Revoke,
                            CheckPassword, UpdateUserPassword, StatementError
  <2>2. CASE s # r
    BY <1>2, <1>4, <2>2 DEF Step, Goto, Tested, LookUp, CreateUser, GetUserByID, IssueToken, Verify,
            IsRevoked, Revoke, CheckPassword, UpdateUserPassword, StatementError
  <2> QED BY <2>1, <2>2
<1>5. ~Tick /\ ~(UNCHANGED vars)
  BY <1>1 DEF Tick, vars
<1>6. ~Restart
  <2>1. Idle.pc = "idle"
    BY DEF Idle
  <2> QED BY <2>1 DEF Restart
<1> QED BY <1>1, <1>3, <1>4, <1>5, <1>6 DEF Next

\* The middleware never again admits a token whose session was ended, before
\* its expiry: the list still holds it, whatever other requests drop from it.
THEOREM EndedSessions == Spec => EndedSessionsStayEnded
<1>1. ASSUME IInv, [Next]_vars, NEW r \in Requests, Admits(r),
             req[r].leg = "middleware", req[r].dead
      PROVE  clock >= Exp(req[r].token)
  <2>1. IsRevoked(r)
    BY <1>1, JudgeStep DEF Admits
  <2>2. req[r].token \in ended
    BY <1>1 DEF IInv, RequestInv
  <2>3. PICK instant \in BOOLEAN :
          /\ revoked' = revoked \ Purged(instant)
          /\ Tested(r, IF req[r].token \in revoked' THEN Rejected(r) ELSE Admitted(r))
    BY <2>1 DEF IsRevoked
  <2>4. CASE req[r].token \in revoked'
    <3>1. Tested(r, "refused")
      BY <1>1, <2>3, <2>4 DEF Rejected
    <3>2. req'[r].pc = "refused"
      BY <1>1, <3>1 DEF Tested, IInv, RequestInv, Records
    <3> QED BY <1>1, <3>2 DEF Admits
  <2>5. CASE req[r].token \notin revoked'
    <3>1. req[r].token \in Purged(instant) \/ clock >= Exp(req[r].token)
      BY <1>1, <2>2, <2>3, <2>5 DEF IInv, ListInv
    <3> QED BY <1>1, <3>1, PurgedExpired
  <2> QED BY <2>4, <2>5
<1>2. IInv /\ [Next]_vars =>
        [\A r \in Requests :
            Admits(r) /\ req[r].leg = "middleware" /\ req[r].dead
                => clock >= Exp(req[r].token)]_vars
  BY <1>1
<1> QED BY <1>2, Invariance, PTL DEF Spec, EndedSessionsStayEnded

\* Before its expiry a token is turned away only if its own session was ended:
\* a logout takes no other session with it.
THEOREM OtherSessions == Spec => OtherSessionsLiveOn
<1>1. ASSUME IInv, [Next]_vars, NEW r \in Requests, Judges(r),
             req'[r].pc = "refused", clock < Exp(req[r].token)
      PROVE  req[r].token \in ended
  <2>1. IsRevoked(r)
    BY <1>1, JudgeStep
  <2>2. PICK instant \in BOOLEAN :
          /\ revoked' = revoked \ Purged(instant)
          /\ Tested(r, IF req[r].token \in revoked' THEN Rejected(r) ELSE Admitted(r))
    BY <2>1 DEF IsRevoked
  <2>3. CASE req[r].token \in revoked'
    BY <1>1, <2>2, <2>3 DEF IInv, ListInv
  <2>4. CASE req[r].token \notin revoked'
    <3>1. Tested(r, Admitted(r))
      BY <2>2, <2>4
    <3>2. req[r].op \in {"access", "logout", "change"}
      BY <1>1 DEF Judges, IInv, RequestInv
    <3>3. Admitted(r) # "refused"
      BY <3>2 DEF Admitted
    <3>4. req'[r].pc = Admitted(r)
      BY <1>1, <3>1 DEF Tested, IInv, RequestInv, Records
    <3> QED BY <1>1, <3>3, <3>4
  <2> QED BY <2>3, <2>4
<1>2. IInv /\ [Next]_vars =>
        [\A r \in Requests :
            Judges(r) /\ req'[r].pc = "refused" /\ clock < Exp(req[r].token)
                => req[r].token \in ended]_vars
  BY <1>1
<1> QED BY <1>2, Invariance, PTL DEF Spec, OtherSessionsLiveOn

-----------------------------------------------------------------------------
(* The session of a terminal.                                              *)

Open == {"lookup", "insert", "reread", "issue"}
Tests == {"verify", "revocation", "revoke", "password", "update"}

\* A login has been answered that the terminal has not saved yet.
Pending(r) == cmd[r] = "login" /\ req[r].pc = "ok"

\* Where the request of each command can be.
CommandInv ==
    /\ cmd \in [Requests -> Commands]
    /\ held \in [Requests -> issued \cup {NoToken}]
    /\ saved \in issued \cup {NoToken}
    /\ \A r \in Requests :
        /\ req[r].token \in issued \cup {NoToken}
        /\ Pending(r) => req[r].token \in issued
        /\ cmd[r] = "login" => req[r].pc \in Answers \cup {"idle"} \cup Open
        /\ cmd[r] = "prompt" => held[r] # NoToken /\ req[r].pc \in Answers \cup {"idle"}
        /\ cmd[r] \in {"logout", "change"} => req[r].pc \in Answers \cup {"idle"} \cup Tests

Uses(r) == Pending(r) \/ cmd[r] \in {"logout", "change"}

\* Its token is new to the terminal.
FreshInv ==
    \A r \in Requests : Pending(r) /\ req[r].token \notin spoiled =>
        /\ req[r].token \notin ended
        /\ req[r].token # saved
        /\ \A s \in Requests : held[s] # req[r].token
        /\ \A s \in Requests : s # r /\ Uses(s) => req[s].token # req[r].token

\* The answer that deletes t from the file is on its way.
Deletes(r, t) ==
    /\ req[r].token = t
    /\ cmd[r] = "logout" \/ (cmd[r] = "change" /\ req[r].pc = "ok")

FileInv ==
    saved \in ended => saved \in spoiled \/ \E r \in Requests : Deletes(r, saved)

SInv == IInv /\ CommandInv /\ FreshInv /\ FileInv

-----------------------------------------------------------------------------
(* What the requests of Auth do, as far as the commands can tell.          *)

LEMMA EndedAreTokens == IInv => NoToken \notin issued /\ NoToken \notin ended
BY NoTokenAssumption DEF IInv, CountersInv

LEMMA InvFromParts ==
    SInv => IInv /\ CommandInv /\ FreshInv /\ FileInv /\ NoToken \notin issued /\ NoToken \notin ended
BY EndedAreTokens DEF SInv

\* A step moves its own request, hands out a token only where one is issued,
\* and ends only the session of its token, with which it is answered "ok".
LEMMA StepShape ==
    ASSUME IInv, NEW r \in Requests, Step(r)
    PROVE  /\ \A s \in Requests : s # r => req'[s] = req[s]
           /\ issued \subseteq issued' /\ ended \subseteq ended'
           /\ req[r].pc \in Open \cup Tests
           /\ req[r].pc # "issue" => req'[r].token = req[r].token
           /\ req[r].pc = "issue" =>
                req'[r].token = [user |-> req[r].user, iat |-> clock] /\ req'[r].token \in issued'
           /\ req[r].pc \in Open => req'[r].pc \in Open \cup {"refused", "failed", "ok"}
           /\ req[r].pc \in Open /\ req'[r].pc = "ok" => req[r].pc = "issue"
           /\ req[r].pc \in Tests => req'[r].pc \in Tests \cup {"refused", "failed", "ok"}
           /\ \/ ended' = ended
              \/ /\ ended' = ended \cup {req[r].token}
                 /\ req[r].pc \in Tests /\ req'[r].pc = "ok"
<1> USE DEF Open, Tests
<1>1. req \in [Requests -> Records] /\ req[r] \in Records
  BY DEF IInv, RequestInv
<1>2. ASSUME NEW next, Goto(r, next)
      PROVE  /\ \A s \in Requests : s # r => req'[s] = req[s]
             /\ req'[r].pc = next /\ req'[r].token = req[r].token
  BY <1>1, <1>2 DEF Goto, Records
<1>3. ASSUME NEW next, Tested(r, next)
      PROVE  /\ \A s \in Requests : s # r => req'[s] = req[s]
             /\ req'[r].pc = next /\ req'[r].token = req[r].token
             /\ ended' = ended \/ (ended' = ended \cup {req[r].token} /\ next = "ok")
  BY <1>1, <1>3 DEF Tested, Ends, Records
<1>4. CASE LookUp(r)
  <2>1. PICK next \in {"insert", "refused", "issue"} : Goto(r, next)
    BY <1>4 DEF LookUp
  <2> QED BY <1>2, <1>4, <2>1 DEF LookUp, At, ghosts
<1>5. CASE CreateUser(r)
  <2>1. PICK next \in {"refused", "reread"} : Goto(r, next)
    BY <1>5 DEF CreateUser
  <2> QED BY <1>2, <1>5, <2>1 DEF CreateUser, At
<1>6. CASE IssueToken(r)
  BY <1>1, <1>6 DEF IssueToken, At, Records
<1>7. CASE Verify(r)
  <2>1. CASE clock < Exp(req[r].token)
    BY <1>2, <1>7, <2>1 DEF Verify, At
  <2>2. CASE ~(clock < Exp(req[r].token))
    <3>1. Tested(r, Rejected(r)) /\ Rejected(r) \in {"ok", "refused"}
      BY <1>7, <2>2 DEF Verify, Rejected
    <3> QED BY <1>3, <1>7, <3>1 DEF Verify, At
  <2> QED BY <2>1, <2>2
<1>8. CASE IsRevoked(r)
  <2>1. req[r].pc = "revocation" /\ UNCHANGED issued
    BY <1>8 DEF IsRevoked, At
  <2>2. req[r].op \in {"access", "logout", "change"}
    BY <2>1 DEF IInv, RequestInv
  <2>3. PICK next \in {"ok", "refused", "revoke", "verify", "password"} : Tested(r, next)
    <3>1. Rejected(r) \in {"ok", "refused"} /\ Admitted(r) \in {"ok", "revoke", "verify", "password"}
      BY <2>2 DEF Rejected, Admitted
    <3> QED BY <1>8, <3>1 DEF IsRevoked
  <2> QED BY <1>3, <2>1, <2>3
<1>9. CASE Revoke(r)
  BY <1>2, <1>9 DEF Revoke, At
<1>10. CASE CheckPassword(r)
  <2>1. PICK next \in {"update", "refused"} : Goto(r, next)
    BY <1>10 DEF CheckPassword
  <2> QED BY <1>2, <1>10, <2>1 DEF CheckPassword, At, ghosts
<1>11. CASE UpdateUserPassword(r)
  BY <1>3, <1>11 DEF UpdateUserPassword, At
<1>12. CASE StatementError(r)
  <2>1. PICK next \in {"insert", "failed"} : Goto(r, next) /\ (next = "insert" => req[r].pc = "lookup")
    BY <1>12 DEF StatementError, At
  <2> QED BY <1>2, <1>12, <2>1 DEF StatementError, ghosts
<1>13. CASE GetUserByID(r)
  BY <1>2, <1>13 DEF GetUserByID, At, ghosts
<1> QED BY <1>4, <1>5, <1>6, <1>7, <1>8, <1>9, <1>10, <1>11, <1>12, <1>13 DEF Step

\* A request that arrives replaces an answered one.
LEMMA BeginShape ==
    ASSUME IInv, NEW r \in Requests, NEW job, Begin(r, job)
    PROVE  /\ \A s \in Requests : s # r => req'[s] = req[s]
           /\ req'[r] = job /\ req[r].pc \in Answers \cup {"idle"}
           /\ UNCHANGED <<issued, ended>>
BY DEF Begin, IInv, RequestInv

LEMMA OpenShape ==
    ASSUME IInv, NEW r \in Requests, NEW op, BeginOpen(r, op)
    PROVE  /\ \A s \in Requests : s # r => req'[s] = req[s]
           /\ req[r].pc \in Answers \cup {"idle"}
           /\ req'[r].pc = "lookup" /\ req'[r].token = NoToken
           /\ UNCHANGED <<issued, ended>>
<1>1. PICK u \in Usernames, p \in Passwords :
        Begin(r, [Idle EXCEPT !.pc = "lookup", !.op = op, !.user = u, !.password = p])
  BY DEF BeginOpen
<1> DEFINE job == [Idle EXCEPT !.pc = "lookup", !.op = op, !.user = u, !.password = p]
<1>2. job.pc = "lookup" /\ job.token = NoToken
  BY DEF Idle
<1> HIDE DEF job
<1> QED BY <1>1, <1>2, BeginShape DEF job

LEMMA TokenShape ==
    ASSUME IInv, NEW r \in Requests, NEW op, NEW t, BeginWithToken(r, op, t)
    PROVE  /\ \A s \in Requests : s # r => req'[s] = req[s]
           /\ req[r].pc \in Answers \cup {"idle"}
           /\ req'[r].pc = "verify" /\ req'[r].token = t
           /\ UNCHANGED <<issued, ended>>
<1>1. PICK p \in Passwords, q \in Passwords :
        Begin(r, [Idle EXCEPT !.pc = "verify", !.op = op, !.user = t.user,
                              !.password = p, !.fresh = q, !.token = t,
                              !.dead = t \in ended])
  BY DEF BeginWithToken
<1>2. PICK dead : dead = (t \in ended)
  OBVIOUS
<1> DEFINE job == [Idle EXCEPT !.pc = "verify", !.op = op, !.user = t.user,
                               !.password = p, !.fresh = q, !.token = t, !.dead = dead]
<1>3. Begin(r, job) /\ job.pc = "verify" /\ job.token = t
  BY <1>1, <1>2 DEF Idle
<1> HIDE DEF job
<1> QED BY <1>3, BeginShape

-----------------------------------------------------------------------------
(* Each step keeps the invariant.                                          *)

Parts == CommandInv /\ FreshInv /\ FileInv

LEMMA HandleLoginInv ==
    ASSUME SInv, NEW r \in Requests, HandleLogin(r)
    PROVE  Parts'
<1> USE InvFromParts
<1>1. /\ \A s \in Requests : s # r => req'[s] = req[s]
      /\ req'[r].pc = "lookup" /\ req'[r].token = NoToken
      /\ UNCHANGED <<issued, ended, saved, held, spoiled>>
      /\ cmd[r] = "none" /\ cmd' = [cmd EXCEPT ![r] = "login"]
  BY OpenShape DEF HandleLogin, Free, Runs
<1>2. CommandInv'
  BY <1>1 DEF CommandInv, Commands, Open, Pending
<1>3. \A s \in Requests : s # r => cmd'[s] = cmd[s]
  BY <1>1 DEF CommandInv
<1>4. ~Pending(r)' /\ ~Uses(r)'
  BY <1>1 DEF Pending, Uses, CommandInv
<1>5. FreshInv'
  BY <1>1, <1>3, <1>4 DEF FreshInv, Pending, Uses
<1>6. FileInv'
  BY <1>1, <1>3 DEF FileInv, Deletes
<1> QED BY <1>2, <1>5, <1>6 DEF Parts

\* Requests of which the terminal takes no notice: a registration, a status
\* and what other clients ask.
LEMMA UnnoticedInv ==
    ASSUME SInv, NEW r \in Requests, UNCHANGED file, cmd[r] = "none",
           \A s \in Requests : s # r => req'[s] = req[s],
           req'[r].token \in issued \cup {NoToken}, UNCHANGED <<issued, ended>>
    PROVE  Parts'
<1> USE InvFromParts DEF file
<1>1. CommandInv'
  BY DEF CommandInv, Pending
<1>2. ~Pending(r)' /\ ~Uses(r)' /\ ~Pending(r) /\ ~Uses(r)
  BY DEF Pending, Uses
<1>3. FreshInv'
  BY <1>2 DEF FreshInv, Pending, Uses
<1>4. FileInv'
  BY DEF FileInv, Deletes
<1> QED BY <1>1, <1>3, <1>4 DEF Parts

LEMMA HandleRegisterInv ==
    ASSUME SInv, NEW r \in Requests, HandleRegister(r)
    PROVE  Parts'
BY InvFromParts, OpenShape, UnnoticedInv DEF HandleRegister, Free

LEMMA HandleStatusInv ==
    ASSUME SInv, NEW r \in Requests, HandleStatus(r)
    PROVE  Parts'
<1>1. PICK t \in issued : BeginWithToken(r, "access", t)
  BY InvFromParts DEF HandleStatus, CommandInv
<1> QED BY <1>1, InvFromParts, TokenShape, UnnoticedInv DEF HandleStatus, Free

LEMMA OtherInv ==
    ASSUME SInv, NEW r \in Requests, Other(r)
    PROVE  Parts'
<1>1. cmd[r] = "none" /\ Arrive(r) /\ UNCHANGED file
  BY DEF Other, Free
<1>2. CASE \E op \in {"register", "login"} : BeginOpen(r, op)
  BY <1>1, <1>2, InvFromParts, OpenShape, UnnoticedInv
<1>3. CASE \E op \in {"logout", "change", "access"}, t \in issued : BeginWithToken(r, op, t)
  BY <1>1, <1>3, InvFromParts, TokenShape, UnnoticedInv
<1> QED BY <1>1, <1>2, <1>3 DEF Arrive

\* A command that sends the token t of the terminal.
LEMMA SendInv ==
    ASSUME SInv, NEW r \in Requests, NEW t \in issued, NEW command \in {"logout", "change"},
           BeginWithToken(r, command, t), cmd[r] \in {"none", "prompt"},
           t = saved \/ t = held[r],
           cmd' = [cmd EXCEPT ![r] = command],
           held' = held \/ held' = [held EXCEPT ![r] = NoToken],
           UNCHANGED <<saved, spoiled>>
    PROVE  Parts'
<1> USE InvFromParts
<1>1. /\ \A s \in Requests : s # r => req'[s] = req[s]
      /\ req'[r].pc = "verify" /\ req'[r].token = t
      /\ UNCHANGED <<issued, ended>>
  BY TokenShape
<1>2. /\ \A s \in Requests : s # r => cmd'[s] = cmd[s]
      /\ cmd'[r] = command
  BY DEF CommandInv
<1>3. \A s \in Requests : held'[s] \in {held[s], NoToken} /\ (s # r => held'[s] = held[s])
  BY DEF CommandInv
<1>4. CommandInv'
  BY <1>1, <1>2, <1>3 DEF CommandInv, Commands, Tests, Pending
<1>5. FreshInv'
  <2> SUFFICES ASSUME NEW q \in Requests, Pending(q)', (req[q].token \notin spoiled)'
               PROVE  /\ (req[q].token \notin ended)'
                      /\ (req[q].token # saved)'
                      /\ \A s \in Requests : (held[s] # req[q].token)'
                      /\ \A s \in Requests : s # q /\ Uses(s)' => (req[s].token # req[q].token)'
    BY DEF FreshInv
  <2>1. q # r
    BY <1>2 DEF Pending
  <2>2. Pending(q) /\ req[q].token \notin spoiled /\ req'[q] = req[q]
    BY <1>1, <1>2, <2>1 DEF Pending
  <2>3. /\ req[q].token \notin ended /\ req[q].token # saved
        /\ \A s \in Requests : held[s] # req[q].token
        /\ \A s \in Requests : s # q /\ Uses(s) => req[s].token # req[q].token
    BY <2>2 DEF FreshInv
  <2>4. req[q].token # NoToken
    BY <2>2 DEF CommandInv
  <2> QED BY <1>1, <1>2, <1>3, <2>1, <2>2, <2>3, <2>4 DEF Uses, Pending
<1>6. FileInv'
  <2>1. ASSUME NEW s \in Requests, Deletes(s, saved) PROVE Deletes(s, saved)'
    BY <1>1, <1>2, <2>1 DEF Deletes
  <2> QED BY <1>1, <2>1 DEF FileInv
<1> QED BY <1>4, <1>5, <1>6 DEF Parts

LEMMA HandleLogoutInv ==
    ASSUME SInv, NEW r \in Requests, HandleLogout(r)
    PROVE  Parts'
<1>1. PICK t \in issued : t = saved /\ BeginWithToken(r, "logout", t)
  BY InvFromParts DEF HandleLogout, CommandInv
<1> QED BY <1>1, SendInv DEF HandleLogout, Free, Runs

LEMMA HandleChangePasswordInv ==
    ASSUME SInv, NEW r \in Requests, HandleChangePassword(r)
    PROVE  Parts'
<1>1. PICK t \in issued : t = held[r] /\ BeginWithToken(r, "change", t)
  BY InvFromParts DEF HandleChangePassword, CommandInv
<1> QED BY <1>1, SendInv DEF HandleChangePassword, Runs

LEMMA PromptInv ==
    ASSUME SInv, NEW r \in Requests, Prompt(r)
    PROVE  Parts'
<1> USE InvFromParts
<1>1. /\ cmd[r] = "none" /\ saved # NoToken /\ UNCHANGED <<req, issued, ended, saved, spoiled>>
      /\ held' = [held EXCEPT ![r] = saved] /\ cmd' = [cmd EXCEPT ![r] = "prompt"]
      /\ req[r].pc \in Answers \cup {"idle"}
  BY DEF Prompt, Free, Runs, vars, ghosts
<1>2. \A s \in Requests : s # r => cmd'[s] = cmd[s] /\ held'[s] = held[s]
  BY <1>1 DEF CommandInv
<1>3. cmd'[r] = "prompt" /\ held'[r] = saved
  BY <1>1 DEF CommandInv
<1>4. CommandInv'
  BY <1>1, <1>2, <1>3 DEF CommandInv, Commands, Pending
<1>5. FreshInv'
  BY <1>1, <1>2, <1>3 DEF FreshInv, Pending, Uses
<1>6. FileInv'
  BY <1>1, <1>2, <1>3 DEF FileInv, Deletes
<1> QED BY <1>4, <1>5, <1>6 DEF Parts

\* What the answers have in common: the command is over and no other has moved.
LEMMA AnsweredShape ==
    ASSUME SInv, NEW r \in Requests, cmd' = [cmd EXCEPT ![r] = "none"], UNCHANGED vars,
           held' = held \/ held' = [held EXCEPT ![r] = NoToken],
           saved' \in {saved, NoToken} \/ (Pending(r) /\ saved' = req[r].token),
           spoiled \subseteq spoiled',
           saved' = saved /\ Deletes(r, saved) /\ saved \in ended => saved \in spoiled'
    PROVE  Parts'
<1> USE InvFromParts
<1>1. UNCHANGED <<req, issued, ended>>
  BY DEF vars, ghosts
<1>2. \A s \in Requests : s # r => cmd'[s] = cmd[s] /\ held'[s] = held[s]
  BY DEF CommandInv
<1>3. cmd'[r] = "none" /\ \A s \in Requests : held'[s] \in {held[s], NoToken}
  BY DEF CommandInv
<1>4. CommandInv'
  <2>1. saved' \in issued \cup {NoToken}
    BY DEF CommandInv
  <2>2. cmd' \in [Requests -> Commands] /\ held' \in [Requests -> issued \cup {NoToken}]
    BY DEF CommandInv, Commands
  <2> QED BY <1>1, <1>2, <1>3, <2>1, <2>2 DEF CommandInv, Pending
<1>5. FreshInv'
  <2> SUFFICES ASSUME NEW q \in Requests, Pending(q)', (req[q].token \notin spoiled)'
               PROVE  /\ (req[q].token \notin ended)'
                      /\ (req[q].token # saved)'
                      /\ \A s \in Requests : (held[s] # req[q].token)'
                      /\ \A s \in Requests : s # q /\ Uses(s)' => (req[s].token # req[q].token)'
    BY DEF FreshInv
  <2>1. q # r /\ Pending(q) /\ req[q].token \notin spoiled /\ req'[q] = req[q]
    BY <1>1, <1>2, <1>3 DEF Pending
  <2>2. /\ req[q].token \notin ended /\ req[q].token # saved
        /\ \A s \in Requests : held[s] # req[q].token
        /\ \A s \in Requests : s # q /\ Uses(s) => req[s].token # req[q].token
    BY <2>1 DEF FreshInv
  <2>3. req[q].token # NoToken
    BY <2>1 DEF CommandInv
  <2>4. \A s \in Requests : Uses(s)' => Uses(s)
    BY <1>1, <1>2, <1>3 DEF Uses, Pending
  <2> QED BY <1>1, <1>3, <2>1, <2>2, <2>3, <2>4 DEF Uses
<1>6. FileInv'
  <2> SUFFICES ASSUME saved' \in ended', saved' \notin spoiled'
               PROVE  \E s \in Requests : Deletes(s, saved)'
    BY DEF FileInv
  <2>1. saved' = saved
    BY <1>1 DEF FreshInv
  <2>2. PICK s \in Requests : Deletes(s, saved)
    BY <1>1, <2>1 DEF FileInv
  <2>3. s # r
    BY <1>1, <2>1, <2>2
  <2> QED BY <1>1, <1>2, <2>1, <2>2, <2>3 DEF Deletes
<1> QED BY <1>4, <1>5, <1>6 DEF Parts

LEMMA LoginAnsweredInv ==
    ASSUME SInv, NEW r \in Requests, LoginAnswered(r)
    PROVE  Parts'
<1>1. ~Deletes(r, saved)
  BY DEF LoginAnswered, Answered, Deletes
<1> QED BY <1>1, AnsweredShape DEF LoginAnswered, Answered, Runs, Pending, At

LEMMA LogoutAnsweredInv ==
    ASSUME SInv, NEW r \in Requests, LogoutAnswered(r)
    PROVE  Parts'
BY InvFromParts, AnsweredShape DEF LogoutAnswered, Answered, Runs

LEMMA ChangeAnsweredInv ==
    ASSUME SInv, NEW r \in Requests, ChangeAnswered(r)
    PROVE  Parts'
<1>1. cmd[r] = "change" /\ saved' = IF req[r].pc = "ok" THEN NoToken ELSE saved
  BY DEF ChangeAnswered, Answered, At
<1>2. saved' = saved /\ Deletes(r, saved) /\ saved \in ended => saved \in spoiled
  BY <1>1, InvFromParts DEF Deletes
<1> QED BY <1>1, <1>2, AnsweredShape DEF ChangeAnswered, Answered, Runs

LEMMA UnansweredInv ==
    ASSUME SInv, NEW r \in Requests, Unanswered(r)
    PROVE  Parts'
<1>1. saved' = saved /\ Deletes(r, saved) /\ saved \in ended => saved \in spoiled'
  BY InvFromParts DEF Unanswered, Deletes
<1> QED BY <1>1, AnsweredShape DEF Unanswered, Runs

\* A step of a request of the terminal's or of another client's.
LEMMA ServeInv ==
    ASSUME SInv, NEW r \in Requests, Serve(r)
    PROVE  Parts'
<1> USE InvFromParts DEF Open, Tests
<1>1. /\ \A s \in Requests : s # r => req'[s] = req[s]
      /\ issued \subseteq issued' /\ ended \subseteq ended'
      /\ req[r].pc \in Open \cup Tests
      /\ req[r].pc # "issue" => req'[r].token = req[r].token
      /\ req[r].pc = "issue" =>
           req'[r].token = [user |-> req[r].user, iat |-> clock] /\ req'[r].token \in issued'
      /\ req[r].pc \in Open => req'[r].pc \in Open \cup {"refused", "failed", "ok"}
      /\ req[r].pc \in Open /\ req'[r].pc = "ok" => req[r].pc = "issue"
      /\ req[r].pc \in Tests => req'[r].pc \in Tests \cup {"refused", "failed", "ok"}
      /\ \/ ended' = ended
         \/ /\ ended' = ended \cup {req[r].token}
            /\ req[r].pc \in Tests /\ req'[r].pc = "ok"
  BY StepShape DEF Serve
<1>2. /\ spoiled \subseteq spoiled' /\ UNCHANGED <<saved, cmd, held>>
      /\ cmd[r] = "none" => ended' \ ended \subseteq spoiled'
      /\ req[r].pc = "issue" => Reissued(r) \subseteq spoiled'
  BY DEF Serve, At
<1>3. \A s \in Requests : req'[s].token \in issued' \cup {NoToken}
  BY <1>1 DEF CommandInv
<1>4. CommandInv'
  <2>1. \A s \in Requests : Pending(s)' => req'[s].token \in issued'
    BY <1>1, <1>2 DEF CommandInv, Pending, Answers
  <2>2. \A s \in Requests :
          /\ cmd[s] = "login" => req'[s].pc \in Answers \cup {"idle"} \cup Open
          /\ cmd[s] = "prompt" => held[s] # NoToken /\ req'[s].pc \in Answers \cup {"idle"}
          /\ cmd[s] \in {"logout", "change"} => req'[s].pc \in Answers \cup {"idle"} \cup Tests
    BY <1>1 DEF CommandInv, Answers
  <2>3. held \in [Requests -> issued' \cup {NoToken}] /\ saved \in issued' \cup {NoToken}
    BY <1>1 DEF CommandInv
  <2> QED BY <1>2, <1>3, <2>1, <2>2, <2>3 DEF CommandInv
<1>5. FreshInv'
  <2> SUFFICES ASSUME NEW q \in Requests, Pending(q)', (req[q].token \notin spoiled)'
               PROVE  /\ (req[q].token \notin ended)'
                      /\ (req[q].token # saved)'
                      /\ \A s \in Requests : (held[s] # req[q].token)'
                      /\ \A s \in Requests : s # q /\ Uses(s)' => (req[s].token # req[q].token)'
    BY DEF FreshInv
  <2>1. CASE q = r
    <3>1. req[r].pc = "issue"
      BY <1>1, <1>2, <2>1 DEF Pending, CommandInv, Answers
    <3>2. req'[r].token \notin issued /\ ended' = ended
      BY <1>1, <1>2, <2>1, <3>1 DEF Reissued
    <3>3. req'[r].token # NoToken
      BY <1>4, <2>1, EndedAreTokens, NoTokenAssumption, <3>1, <1>1 DEF IInv, RequestInv, CountersInv, Tokens
    <3>4. req'[r].token \notin ended /\ saved # req'[r].token
          /\ \A s \in Requests : held[s] # req'[r].token /\ req[s].token # req'[r].token
      BY <3>2, <3>3 DEF CommandInv, IInv, CountersInv
    <3> QED BY <1>1, <1>2, <2>1, <3>2, <3>4
  <2>2. CASE q # r
    <3>1. Pending(q) /\ req[q].token \notin spoiled /\ req'[q] = req[q]
      BY <1>1, <1>2, <2>2 DEF Pending
    <3>2. /\ req[q].token \notin ended /\ req[q].token # saved
          /\ \A s \in Requests : held[s] # req[q].token
          /\ \A s \in Requests : s # q /\ Uses(s) => req[s].token # req[q].token
      BY <3>1 DEF FreshInv
    <3>3. req[q].token \in issued
      BY <3>1 DEF CommandInv
    <3>4. Uses(r)' => req'[r].token # req[q].token
      <4>1. CASE req[r].pc = "issue"
        <5>1. ASSUME req'[r].token = req[q].token PROVE FALSE
          BY <1>1, <1>2, <3>1, <3>3, <4>1, <5>1 DEF Reissued
        <5> QED BY <5>1
      <4>2. CASE req[r].pc # "issue"
        <5>1. ~Pending(r)'
          BY <1>1, <1>2, <4>2 DEF Pending, CommandInv, Answers
        <5>2. Uses(r)' => Uses(r) /\ req'[r].token = req[r].token
          BY <1>1, <1>2, <4>2, <5>1 DEF Uses
        <5> QED BY <2>2, <3>2, <5>2
      <4> QED BY <4>1, <4>2
    <3>5. req[q].token \notin ended'
      BY <1>1, <1>2, <2>2, <3>1, <3>2 DEF Uses, CommandInv, Answers, Commands
    <3>6. \A s \in Requests : s # r => (Uses(s)' <=> Uses(s))
      BY <1>1, <1>2 DEF Uses, Pending
    <3> QED BY <1>1, <1>2, <3>1, <3>2, <3>4, <3>5, <3>6
  <2> QED BY <2>1, <2>2
<1>6. FileInv'
  <2> SUFFICES ASSUME saved \in ended', saved \notin spoiled'
               PROVE  \E s \in Requests : Deletes(s, saved)'
    BY <1>2 DEF FileInv
  <2>1. CASE saved \in ended
    <3>1. PICK s \in Requests : Deletes(s, saved)
      BY <1>2, <2>1 DEF FileInv
    <3>2. s = r => cmd[r] = "logout"
      BY <1>1, <3>1 DEF Deletes
    <3>3. Deletes(s, saved)'
      BY <1>1, <1>2, <3>1, <3>2 DEF Deletes, CommandInv, Answers
    <3> QED BY <3>3
  <2>2. CASE saved \notin ended
    <3>1. /\ saved = req[r].token /\ req[r].pc \in Tests /\ req'[r].pc = "ok" /\ cmd[r] # "none"
      BY <1>1, <1>2, <2>2
    <3>2. Deletes(r, saved)'
      BY <1>1, <1>2, <3>1 DEF Deletes, CommandInv, Answers, Commands
    <3> QED BY <3>2
  <2> QED BY <2>1, <2>2
<1> QED BY <1>4, <1>5, <1>6 DEF Parts

LEMMA TickParts == SInv /\ Tick /\ UNCHANGED file => Parts'
<1> SUFFICES ASSUME SInv, Tick, UNCHANGED file PROVE Parts'
  OBVIOUS
<1>1. UNCHANGED <<req, issued, ended, saved, cmd, held, spoiled>>
  BY DEF Tick, ghosts, file
<1> QED BY <1>1, InvFromParts
           DEF Parts, CommandInv, FreshInv, FileInv, Pending, Uses, Deletes

LEMMA RestartParts == SInv /\ Restart /\ UNCHANGED file => Parts'
<1> SUFFICES ASSUME SInv, Restart, UNCHANGED file PROVE Parts'
  OBVIOUS
<1>1. /\ req' = [r \in Requests |-> Idle] /\ ended' = {}
      /\ UNCHANGED <<issued, saved, cmd, held, spoiled>>
  BY DEF Restart, file
<1>2. \A r \in Requests : req'[r].pc = "idle" /\ req'[r].token = NoToken
  BY <1>1 DEF Idle
<1>3. \A r \in Requests : ~Pending(r)'
  BY <1>2 DEF Pending
<1>4. CommandInv'
  BY <1>1, <1>2, <1>3, InvFromParts DEF CommandInv
<1> QED BY <1>1, <1>3, <1>4 DEF Parts, FreshInv, FileInv

\* What a terminal and the other clients do is a step of the requests they
\* make, or none.
LEMMA StepOfAuth == SInv /\ [SNext]_svars => [Next]_vars
<1> SUFFICES ASSUME SInv, SNext PROVE Next \/ UNCHANGED vars
  BY DEF svars
<1>1. ASSUME NEW r \in Requests, Arrive(r) \/ Step(r) PROVE Next
  BY <1>1 DEF Next
<1>2. ASSUME NEW r \in Requests,
             HandleLogin(r) \/ HandleRegister(r) \/ Serve(r) \/ Other(r)
      PROVE  Next
  BY <1>1, <1>2 DEF HandleLogin, HandleRegister, Serve, Other, Arrive
<1>3. ASSUME NEW r \in Requests,
             HandleLogout(r) \/ HandleStatus(r) \/ HandleChangePassword(r)
      PROVE  Next
  <2>1. PICK t \in issued, op \in {"logout", "change", "access"} : BeginWithToken(r, op, t)
    BY <1>3, InvFromParts DEF HandleLogout, HandleStatus, HandleChangePassword, CommandInv
  <2> QED BY <1>1, <2>1 DEF Arrive
<1>4. ASSUME NEW r \in Requests,
             \/ Prompt(r) \/ LoginAnswered(r) \/ LogoutAnswered(r)
             \/ ChangeAnswered(r) \/ Unanswered(r)
      PROVE  UNCHANGED vars
  BY <1>4 DEF Prompt, LoginAnswered, LogoutAnswered, ChangeAnswered, Unanswered
<1>5. CASE (Tick \/ Restart) /\ UNCHANGED file
  BY <1>5 DEF Next
<1> QED BY <1>2, <1>3, <1>4, <1>5 DEF SNext

LEMMA SInitInv == SInit => SInv
<1> SUFFICES ASSUME SInit PROVE SInv
  OBVIOUS
<1>1. IInv
  BY InitInv DEF SInit
<1>2. CommandInv
  BY DEF SInit, CommandInv, Commands, Init, Idle, Pending
<1>3. FreshInv
  BY DEF SInit, FreshInv, Pending
<1>4. FileInv
  BY DEF SInit, FileInv, Init
<1> QED BY <1>1, <1>2, <1>3, <1>4 DEF SInv

LEMMA SNextInv == SInv /\ [SNext]_svars => SInv'
<1> SUFFICES ASSUME SInv, [SNext]_svars PROVE SInv'
  OBVIOUS
<1>1. IInv'
  BY StepOfAuth, NextInv, InvFromParts
<1>2. CASE \E r \in Requests :
        \/ HandleLogin(r) \/ HandleRegister(r) \/ HandleLogout(r) \/ Prompt(r)
        \/ HandleChangePassword(r) \/ HandleStatus(r)
        \/ LoginAnswered(r) \/ LogoutAnswered(r) \/ ChangeAnswered(r) \/ Unanswered(r)
        \/ Serve(r) \/ Other(r)
  <2>1. Parts'
    BY <1>2, HandleLoginInv, HandleRegisterInv, HandleLogoutInv, PromptInv,
       HandleChangePasswordInv, HandleStatusInv, LoginAnsweredInv, LogoutAnsweredInv,
       ChangeAnsweredInv, UnansweredInv, ServeInv, OtherInv
  <2> QED BY <1>1, <2>1 DEF Parts, SInv
<1>3. CASE (Tick \/ Restart) /\ UNCHANGED file
  BY <1>1, <1>3, TickParts, RestartParts DEF Parts, SInv
<1>4. CASE UNCHANGED svars
  <2>1. Parts'
    BY <1>4, InvFromParts DEF svars, vars, ghosts, file, Parts, CommandInv, FreshInv,
                              FileInv, Pending, Uses, Deletes
  <2> QED BY <1>1, <2>1 DEF Parts, SInv
<1> QED BY <1>2, <1>3, <1>4 DEF SNext

-----------------------------------------------------------------------------
(* The theorems.                                                           *)

\* The invariant holds for commands that overlap in any way, and any others.
THEOREM SessionInvariance == SSpec => []SInv
<1>1. SInit => SInv
  BY SInitInv
<1>2. SInv /\ [SNext]_svars => SInv'
  BY SNextInv
<1> QED BY <1>1, <1>2, PTL DEF SSpec

\* Terminals use the accounts and sessions of Auth and nothing else, so that
\* what is proved of Auth holds with them.
THEOREM SessionUsesAuth == SSpec => Spec
<1>1. SInit => Init
  BY DEF SInit
<1>2. SInv /\ [SNext]_svars => [Next]_vars
  BY StepOfAuth
<1> QED BY <1>1, <1>2, SessionInvariance, PTL DEF SSpec, Spec

\* A terminal never goes on with a session that its own commands have ended, in
\* whatever order they are answered.
THEOREM SavedSession == SSpec => []SavedSessionLives
<1>1. SInv => SavedSessionLives
  BY DEF SInv, FileInv, Deletes, SavedSessionLives, OnItsWay
<1> QED BY <1>1, SessionInvariance, PTL
=============================================================================
