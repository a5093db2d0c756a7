------------------------------ MODULE Sessions ------------------------------
(***************************************************************************)
(* Accounts, refresh sessions and password resets (internal/auth).  Every  *)
(* statement is a step, requests run concurrently, an answer may reach the *)
(* browser late or never, and any statement may fail, with or without      *)
(* effect.  A user is an e-mail address after trimming and lower-casing    *)
(* (the UNIQUE column), a hash is the password it was made from, a token   *)
(* is a number never drawn before.  Access tokens are not stored: see      *)
(* Requests.                                                               *)
(***************************************************************************)
EXTENDS Integers, FiniteSets

CONSTANTS
    Users, Passwords, Clients, Handlers,
    Weak,           \* passwords shorter than eight bytes
    None,
    MaxTokens,      \* bound: refresh tokens drawn
    MaxResets,      \* bound: reset tokens drawn
    MaxTroubles     \* bound: failed statements and lost answers

ASSUME SessionConstants ==
    /\ None \notin Users \union Passwords \union Clients \union Nat
    /\ MaxTokens \in Nat /\ MaxResets \in Nat /\ MaxTroubles \in Nat

VARIABLES
    users,          \* password hash of every registered user, else None
    sessions,       \* the rows of sessions
    resets,         \* the rows of password_resets
    cookie,         \* the refresh cookie of each browser
    req,            \* the request each handler works on
    tokens, mails,  \* numbers of refresh tokens and of reset tokens drawn
    \* History: the number of password changes of each user, refresh tokens
    \* that a rotation replaced, reset tokens that changed a password, users
    \* with a reset that ended in an error and none that deleted the sessions
    \* since, browsers that overlapped requests or missed an answer, and the
    \* number of troubles.
    version, rotated, applied, broken, upset, troubles

tables == <<users, sessions, resets>>
history == <<version, rotated, applied, broken>>
vars == <<tables, cookie, req, tokens, mails, history, upset, troubles>>

\* A session is known by its first token.
SessionIds == 1..MaxTokens
ResetIds == 1..MaxResets

NoSession == [user |-> None, token |-> 0, expired |-> FALSE, version |-> 0, late |-> FALSE]
NoReset == [user |-> None, used |-> FALSE, expired |-> FALSE]
NoReq == [at |-> "idle", client |-> None, token |-> 0, id |-> 0, user |-> None, password |-> None, version |-> 0]

Init ==
    /\ users = [u \in Users |-> None]
    /\ sessions = [s \in SessionIds |-> NoSession]
    /\ resets = [r \in ResetIds |-> NoReset]
    /\ cookie = [c \in Clients |-> 0]
    /\ req = [h \in Handlers |-> NoReq]
    /\ tokens = 0 /\ mails = 0
    /\ version = [u \in Users |-> 0]
    /\ rotated = {} /\ applied = {} /\ broken = {} /\ upset = {}
    /\ troubles = 0

----------------------------------------------------------------------------
\* The statements of users.sql, sessions.sql and password_resets.sql.

CreateUser(u, p) == users' = [users EXCEPT ![u] = p]
GetUserByEmail(u) == users[u]
UpdateUserPassword(u, p) == users' = [users EXCEPT ![u] = p]

CreateSession(s, new) == sessions' = [sessions EXCEPT ![s] = new]
GetSessionByToken(t) == {s \in SessionIds : sessions[s].user # None /\ sessions[s].token = t}
RotateSessionToken(s, t) == sessions' = [sessions EXCEPT ![s].token = t, ![s].expired = FALSE]
DeleteSessionByToken(t) ==
    sessions' = [s \in SessionIds |-> IF s \in GetSessionByToken(t) THEN NoSession ELSE sessions[s]]
DeleteSessionsByUser(u) ==
    sessions' = [s \in SessionIds |-> IF sessions[s].user = u THEN NoSession ELSE sessions[s]]

CreatePasswordReset(r, u) == resets' = [resets EXCEPT ![r] = [NoReset EXCEPT !.user = u]]
GetPasswordResetByToken(r) == resets[r]
UsePasswordReset(r) ==
    resets' = IF resets[r].user = None THEN resets ELSE [resets EXCEPT ![r].used = TRUE]
DeletePasswordResetsByUser(u) ==
    resets' = [r \in ResetIds |-> IF resets[r].user = u THEN NoReset ELSE resets[r]]

----------------------------------------------------------------------------
Trouble == troubles < MaxTroubles /\ troubles' = troubles + 1

\* The handler turns to a request of browser c; a browser that does not wait
\* for its earlier answer, or misses one, cannot rely on its cookie.
Begin(h, c, r) ==
    /\ req[h].at = "idle"
    /\ req' = [req EXCEPT ![h] = [r EXCEPT !.client = c]]
    /\ upset' = IF \E g \in Handlers : req[g].client = c THEN upset \union {c} ELSE upset

Go(h, at) == req' = [req EXCEPT ![h].at = at]
Fail(h) == Go(h, "error") /\ Trouble

\* The refresh cookie of browser c; 0 is no cookie.
refreshTokenFromRequest(c) == cookie[c]
setRefreshCookie(c, t) == cookie' = [cookie EXCEPT ![c] = t]
clearRefreshCookie(c) == cookie' = [cookie EXCEPT ![c] = 0]

\* newRefreshToken: 48 random bytes.
newRefreshToken == tokens < MaxTokens /\ tokens' = tokens + 1

----------------------------------------------------------------------------
\* POST /auth/register: one statement.  A name, e-mail or password that is
\* refused, and an address that is taken, change nothing.
Register(u, p) ==
    /\ p \notin Weak
    /\ users[u] = None
    /\ CreateUser(u, p)
    /\ UNCHANGED <<sessions, resets, cookie, req, tokens, mails, history, upset, troubles>>

\* POST /auth/login.
LoginCheck(h, c, u, p) ==
    /\ GetUserByEmail(u) = p
    /\ Begin(h, c, [NoReq EXCEPT !.at = "open", !.user = u, !.version = version[u]])
    /\ UNCHANGED <<tables, cookie, tokens, mails, history, troubles>>

\* generateRefreshToken.
LoginOpen(h) ==
    /\ req[h].at = "open"
    /\ newRefreshToken
    /\ CreateSession(tokens', [user |-> req[h].user, token |-> tokens', expired |-> FALSE,
                               version |-> req[h].version,
                               late |-> req[h].version # version[req[h].user]])
    /\ \/ req' = [req EXCEPT ![h].at = "answer", ![h].token = tokens'] /\ UNCHANGED troubles
       \/ Fail(h)
    /\ UNCHANGED <<users, resets, cookie, mails, history, upset>>

\* POST /auth/refresh with the browser's cookie.
RefreshRead(h, c) ==
    /\ refreshTokenFromRequest(c) # 0
    /\ LET found == GetSessionByToken(refreshTokenFromRequest(c))
           r == [NoReq EXCEPT !.token = refreshTokenFromRequest(c)]
       IN Begin(h, c, IF found = {} THEN [r EXCEPT !.at = "error"]
                      ELSE LET s == CHOOSE s \in found : TRUE
                           IN [r EXCEPT !.at = IF sessions[s].expired THEN "drop" ELSE "rotate",
                                        !.id = s, !.user = sessions[s].user])
    /\ UNCHANGED <<tables, cookie, tokens, mails, history, troubles>>

\* Mutant: the answer carries the token of the request.
RefreshRotate_OldCookie(h) ==
    /\ req[h].at = "rotate"
    /\ newRefreshToken
    /\ sessions[req[h].id].user # None
    /\ RotateSessionToken(req[h].id, tokens')
    /\ rotated' = rotated \union {sessions[req[h].id].token}
    /\ Go(h, "answer")
    /\ UNCHANGED <<users, resets, cookie, mails, version, applied, broken, upset, troubles>>

\* rotateSessionToken: by the session's id, whatever its token is by now.
RefreshRotate(h) ==
    /\ req[h].at = "rotate"
    /\ newRefreshToken
    /\ IF sessions[req[h].id].user = None
       THEN Go(h, "drop") /\ UNCHANGED <<sessions, rotated>>
       ELSE /\ RotateSessionToken(req[h].id, tokens')
            /\ rotated' = rotated \union {sessions[req[h].id].token}
            /\ req' = [req EXCEPT ![h].at = "answer", ![h].token = tokens']
    /\ UNCHANGED <<users, resets, cookie, mails, version, applied, broken, upset, troubles>>

\* The session of a token that expired or could not be rotated goes; an error
\* of this statement is ignored.
RefreshDrop(h) ==
    /\ req[h].at = "drop"
    /\ \/ DeleteSessionByToken(req[h].token) /\ UNCHANGED troubles
       \/ Trouble /\ UNCHANGED sessions
    /\ Go(h, "error")
    /\ UNCHANGED <<users, resets, cookie, tokens, mails, history, upset>>

\* POST /auth/logout: one statement, whose error is ignored.
Logout(h, c) ==
    /\ LET token == refreshTokenFromRequest(c)
       IN \/ token # 0 /\ DeleteSessionByToken(token) /\ UNCHANGED troubles
          \/ token # 0 /\ Trouble /\ UNCHANGED sessions
          \/ token = 0 /\ UNCHANGED <<sessions, troubles>>
    /\ Begin(h, c, [NoReq EXCEPT !.at = "clear"])
    /\ UNCHANGED <<users, resets, cookie, tokens, mails, history>>

\* POST /auth/password/forgot for a known address; the mail may fail to go out.
Forgot(u) ==
    /\ GetUserByEmail(u) # None
    /\ mails < MaxResets /\ mails' = mails + 1
    /\ CreatePasswordReset(mails', u)
    /\ UNCHANGED <<users, sessions, cookie, req, tokens, history, upset, troubles>>

\* Mutant: the token is spent before the password is changed.
ResetRead_SpendFirst(h, c, r, p) ==
    /\ p \notin Weak
    /\ LET row == GetPasswordResetByToken(r)
       IN /\ row.user # None /\ ~row.used /\ ~row.expired
          /\ Begin(h, c, [NoReq EXCEPT !.at = "update", !.id = r, !.user = row.user, !.password = p])
    /\ UsePasswordReset(r)
    /\ UNCHANGED <<users, sessions, cookie, tokens, mails, history, troubles>>

\* POST /auth/password/reset with a token from a mail.
ResetRead(h, c, r, p) ==
    /\ p \notin Weak
    /\ LET row == GetPasswordResetByToken(r)
       IN /\ row.user # None /\ ~row.used /\ ~row.expired
          /\ Begin(h, c, [NoReq EXCEPT !.at = "update", !.id = r, !.user = row.user, !.password = p])
    /\ UNCHANGED <<tables, cookie, tokens, mails, history, troubles>>

ResetUpdate(h) ==
    /\ req[h].at = "update"
    /\ UpdateUserPassword(req[h].user, req[h].password)
    /\ version' = [version EXCEPT ![req[h].user] = @ + 1]
    /\ applied' = applied \union {req[h].id}
    /\ UNCHANGED <<sessions, resets>>

ResetUse(h) ==
    /\ req[h].at = "use"
    /\ UsePasswordReset(req[h].id)
    /\ UNCHANGED <<users, sessions, version, applied>>

\* Mutant: only the session of the browser's cookie ends.
ResetDeleteSessions_OnlyOne(h) ==
    /\ req[h].at = "sessions"
    /\ DeleteSessionByToken(cookie[req[h].client])
    /\ UNCHANGED <<users, resets, version, applied>>

ResetDeleteSessions(h) ==
    /\ req[h].at = "sessions"
    /\ DeleteSessionsByUser(req[h].user)
    /\ UNCHANGED <<users, resets, version, applied>>

ResetDeleteResets(h) ==
    /\ req[h].at = "resets"
    /\ DeletePasswordResetsByUser(req[h].user)
    /\ UNCHANGED <<users, sessions, version, applied>>

ResetStatement(h) ==
    ResetUpdate(h) \/ ResetUse(h) \/ ResetDeleteSessions(h) \/ ResetDeleteResets(h)

ResetStep(h) ==
    /\ ResetStatement(h)
    /\ Go(h, [update |-> "use", use |-> "sessions", sessions |-> "resets", resets |-> "clear"][req[h].at])
    /\ broken' = IF req[h].at = "sessions" THEN broken \ {req[h].user} ELSE broken
    /\ UNCHANGED <<cookie, tokens, mails, rotated, upset, troubles>>

----------------------------------------------------------------------------
\* A statement fails: without effect, or after it, when the answer of the
\* database was lost.  Login and Reset answer with an error, Refresh deletes
\* the session first.

LoginFails(h) ==
    /\ req[h].at = "open"
    /\ Fail(h)
    /\ UNCHANGED <<tables, cookie, tokens, mails, history, upset>>

RefreshFails(h) ==
    /\ req[h].at = "rotate"
    /\ Trouble
    /\ Go(h, "drop")
    /\ \/ UNCHANGED <<sessions, tokens, rotated>>
       \/ /\ newRefreshToken
          /\ sessions[req[h].id].user # None
          /\ RotateSessionToken(req[h].id, tokens')
          /\ rotated' = rotated \union {sessions[req[h].id].token}
    /\ upset' = upset \union {req[h].client}
    /\ UNCHANGED <<users, resets, cookie, mails, version, applied, broken>>

ResetFails(h) ==
    /\ req[h].at \in {"update", "use", "sessions", "resets"}
    /\ ResetStatement(h) \/ UNCHANGED <<tables, version, applied>>
    /\ Fail(h)
    /\ broken' = IF req[h].at = "resets" THEN broken ELSE broken \union {req[h].user}
    /\ UNCHANGED <<cookie, tokens, mails, rotated, upset>>

\* The answer arrives: setRefreshCookie, clearRefreshCookie, or an error that
\* leaves the cookie.  An answer that is lost leaves it too.
Answer(h) ==
    /\ req[h].at \in {"answer", "clear", "error"}
    /\ LET c == req[h].client
       IN \/ /\ CASE req[h].at = "answer" -> setRefreshCookie(c, req[h].token)
                  [] req[h].at = "clear" -> clearRefreshCookie(c)
                  [] OTHER -> UNCHANGED cookie
             /\ UNCHANGED <<upset, troubles>>
          \/ Trouble /\ upset' = upset \union {c} /\ UNCHANGED cookie
    /\ req' = [req EXCEPT ![h] = NoReq]
    /\ UNCHANGED <<tables, tokens, mails, history>>

\* Time passes the expiry of a row.
SessionExpires(s) ==
    /\ sessions[s].user # None /\ ~sessions[s].expired
    /\ sessions' = [sessions EXCEPT ![s].expired = TRUE]
    /\ UNCHANGED <<users, resets, cookie, req, tokens, mails, history, upset, troubles>>

ResetExpires(r) ==
    /\ resets[r].user # None /\ ~resets[r].expired
    /\ resets' = [resets EXCEPT ![r].expired = TRUE]
    /\ UNCHANGED <<users, sessions, cookie, req, tokens, mails, history, upset, troubles>>

----------------------------------------------------------------------------
Step(h) ==
    \/ LoginOpen(h) \/ LoginFails(h)
    \/ RefreshRotate(h) \/ RefreshFails(h) \/ RefreshDrop(h)
    \/ ResetStep(h) \/ ResetFails(h)
    \/ Answer(h)

Request(h, c) ==
    \/ \E u \in Users, p \in Passwords : LoginCheck(h, c, u, p)
    \/ RefreshRead(h, c) \/ Logout(h, c)
    \/ \E r \in ResetIds, p \in Passwords : ResetRead(h, c, r, p)

Next ==
    \/ \E h \in Handlers : Step(h) \/ \E c \in Clients : Request(h, c)
    \/ \E u \in Users : \/ \E p \in Passwords : Register(u, p)
                        \/ Forgot(u)
    \/ \E s \in SessionIds : SessionExpires(s)
    \/ \E r \in ResetIds : ResetExpires(r)

Spec == Init /\ [][Next]_vars

----------------------------------------------------------------------------
(* Rotation does not log a browser out: unless its requests overlap, an      *)
(* answer is lost or a statement fails, the cookie of a browser is never a   *)
(* token that was replaced (service.go:260, handlers.go:115).                *)
CookieCurrent ==
    \A c \in Clients : c \notin upset /\ (\A h \in Handlers : req[h].client # c) => cookie[c] \notin rotated

(* A reset ends the sessions opened with an older password: what is left are *)
(* sessions of logins that checked the old password and inserted their row   *)
(* after it, unless the reset is still in progress or ended in an error      *)
(* between its statements (service.go:357-371).                              *)
OldSessionsEnd ==
    \A s \in SessionIds : LET u == sessions[s].user IN
        u # None /\ sessions[s].version # version[u] /\ ~sessions[s].late =>
            \/ u \in broken
            \/ \E h \in Handlers : req[h].at \in {"use", "sessions"} /\ req[h].user = u

(* A reset token is spent only after it changed a password: a failure        *)
(* between the statements of Reset never burns the token without effect      *)
(* (service.go:357, 361).                                                    *)
SpentMeansChanged == \A r \in ResetIds : resets[r].used => r \in applied

=============================================================================
