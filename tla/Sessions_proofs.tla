-------------------------- MODULE Sessions_proofs --------------------------
(***************************************************************************)
(* Proofs about Sessions, for any number of users, browsers, handlers,     *)
(* tokens and troubles: what a spent reset token means, which sessions     *)
(* outlive a password, and that rotation logs no careful browser out.      *)
(***************************************************************************)
EXTENDS Sessions, TLAPS

SessionRows == [user : Users \union {None}, token : Nat, expired : BOOLEAN, version : Nat, late : BOOLEAN]
ResetRows == [user : Users \union {None}, used : BOOLEAN, expired : BOOLEAN]
Ats == {"idle", "open", "rotate", "drop", "update", "use", "sessions", "resets", "answer", "clear", "error"}
Reqs == [at : Ats, client : Clients \union {None}, token : Nat, id : Nat, user : Users \union {None},
         password : Passwords \union {None}, version : Nat]

Proper(r) ==
    /\ r.at = "rotate" => r.id \in SessionIds
    /\ r.at \in {"open", "update", "use", "sessions", "resets"} => r.user \in Users
    /\ r.at \in {"update", "use", "sessions", "resets"} => r.id \in ResetIds

Types ==
    /\ sessions \in [SessionIds -> SessionRows]
    /\ resets \in [ResetIds -> ResetRows]
    /\ cookie \in [Clients -> Nat]
    /\ req \in [Handlers -> Reqs]
    /\ tokens \in 0..MaxTokens /\ mails \in 0..MaxResets
    /\ version \in [Users -> Nat]
    /\ \A h \in Handlers : Proper(req[h])

----------------------------------------------------------------------------
\* What the steps do to the requests and to the sessions.

\* Handler h turns to request r.
Turns(h, r) == r \in Reqs /\ req' = [req EXCEPT ![h] = r]

\* Sessions are deleted or left alone.
Less ==
    /\ sessions' \in [SessionIds -> SessionRows]
    /\ \A s \in SessionIds : sessions'[s] = sessions[s] \/ sessions'[s] = NoSession

LEMMA NoRows ==
    /\ NoSession \in SessionRows /\ NoSession.user = None /\ NoSession.token = 0
    /\ NoReset \in ResetRows /\ ~NoReset.used /\ NoReset.user = None
    /\ NoReq \in Reqs /\ NoReq.at = "idle" /\ NoReq.client = None /\ NoReq.token = 0
  BY DEF NoSession, NoReset, NoReq, SessionRows, ResetRows, Reqs, Ats

LEMMA Draw ==
    ASSUME tokens \in 0..MaxTokens, newRefreshToken
    PROVE  /\ tokens' \in 0..MaxTokens /\ tokens' \in Nat /\ tokens' \in SessionIds
           /\ tokens' # 0 /\ tokens' \notin 1..tokens
           /\ 1..tokens' = (1..tokens) \union {tokens'}
  BY SessionConstants DEF newRefreshToken, SessionIds

LEMMA Turned ==
    ASSUME req \in [Handlers -> Reqs], NEW h \in Handlers, NEW r, Turns(h, r)
    PROVE  /\ req' \in [Handlers -> Reqs] /\ req'[h] = r
           /\ \A g \in Handlers : g # h => req'[g] = req[g]
  BY Zenon DEF Turns

LEMMA Gone ==
    ASSUME req \in [Handlers -> Reqs], NEW h \in Handlers, NEW a \in Ats, Go(h, a)
    PROVE  \E r \in Reqs : /\ Turns(h, r) /\ r.at = a
                           /\ r.client = req[h].client /\ r.token = req[h].token /\ r.id = req[h].id
                           /\ r.user = req[h].user /\ r.version = req[h].version
<1>1. PICK q \in Reqs : q = req[h]
  BY Zenon
<1>2. PICK r : r = [q EXCEPT !.at = a]
  BY Zenon
<1>3. /\ r \in Reqs /\ r.at = a
      /\ r.client = q.client /\ r.token = q.token /\ r.id = q.id
      /\ r.user = q.user /\ r.version = q.version
  BY <1>1, <1>2 DEF Reqs
<1>4. req' = [req EXCEPT ![h] = r]
  BY <1>1, <1>2, Zenon DEF Go
<1> QED BY <1>1, <1>3, <1>4, Zenon DEF Turns

LEMMA DeletedByToken ==
    ASSUME Types, NEW t, DeleteSessionByToken(t) PROVE Less
<1>1. sessions' \in [SessionIds -> SessionRows]
  BY NoRows, Zenon DEF Types, DeleteSessionByToken
<1> QED BY <1>1, Zenon DEF DeleteSessionByToken, Less

LEMMA DeletedByUser ==
    ASSUME Types, NEW u, DeleteSessionsByUser(u)
    PROVE  Less /\ \A s \in SessionIds : sessions'[s] = NoSession \/ sessions'[s].user # u
<1>1. sessions' \in [SessionIds -> SessionRows]
  BY NoRows, Zenon DEF Types, DeleteSessionsByUser
<1> QED BY <1>1, Zenon DEF DeleteSessionsByUser, Less

\* A request as it begins.
Fit(c, r) ==
    /\ r.at \in {"open", "rotate", "drop", "update", "clear", "error"}
    /\ r.token \in {0, cookie[c]}
    /\ r.at = "rotate" => r.id \in SessionIds /\ sessions[r.id].user # None /\ sessions[r.id].token = cookie[c]
    /\ r.at \in {"open", "update"} => r.user \in Users
    /\ r.at = "update" => r.id \in ResetIds

Started(h, c, r) ==
    /\ req[h].at = "idle" /\ Turns(h, r) /\ r.client = c /\ Fit(c, r)
    /\ upset' = IF \E g \in Handlers : req[g].client = c THEN upset \union {c} ELSE upset

LEMMA BeginsWith ==
    ASSUME NEW h \in Handlers, NEW c \in Clients, NEW q \in Reqs, Begin(h, c, q), Fit(c, q)
    PROVE  \E r : Started(h, c, r)
<1>1. PICK r : r = [q EXCEPT !.client = c]
  BY Zenon
<1>2. r \in Reqs /\ r.client = c /\ r.at = q.at /\ r.token = q.token /\ r.id = q.id /\ r.user = q.user
  BY <1>1 DEF Reqs
<1>3. Fit(c, r)
  BY <1>2, Zenon DEF Fit
<1> QED BY <1>1, <1>2, <1>3, Zenon DEF Begin, Turns, Started

LEMMA RequestStarts ==
    ASSUME Types, NEW h \in Handlers, NEW c \in Clients, Request(h, c)
    PROVE  /\ \E r : Started(h, c, r)
           /\ Less
           /\ UNCHANGED <<resets, cookie, tokens, mails, version, rotated, applied, broken>>
<1>1. ASSUME NEW u \in Users, NEW p \in Passwords, LoginCheck(h, c, u, p)
      PROVE  (\E r : Started(h, c, r)) /\ Less
             /\ UNCHANGED <<resets, cookie, tokens, mails, version, rotated, applied, broken>>
  <2>1. PICK n \in Nat : n = version[u]
    BY Zenon DEF Types
  <2>2. PICK q : q = [NoReq EXCEPT !.at = "open", !.user = u, !.version = n]
    BY Zenon
  <2>3. q \in Reqs /\ q.at = "open" /\ q.token = 0 /\ q.user = u
    BY <2>2, Zenon DEF NoReq, Reqs, Ats
  <2>4. Begin(h, c, q) /\ UNCHANGED <<sessions, resets, cookie, tokens, mails, version, rotated, applied, broken>>
    BY <1>1, <2>1, <2>2, Zenon DEF LoginCheck, tables, history
  <2>5. \E r : Started(h, c, r)
    <3>1. Fit(c, q)
      BY <2>3 DEF Fit
    <3> QED BY <2>3, <2>4, <3>1, BeginsWith, Zenon
  <2>6. Less
    BY <2>4, Zenon DEF Types, Less
  <2> QED BY <2>4, <2>5, <2>6, Zenon
<1>2. CASE RefreshRead(h, c)
  <2>1. PICK t \in Nat : t = cookie[c]
    BY Zenon DEF Types
  <2>2. PICK q : q = [NoReq EXCEPT !.token = t]
    BY Zenon
  <2>3. q \in Reqs /\ q.token = t
    BY <2>2 DEF NoReq, Reqs, Ats
  <2>4. UNCHANGED <<sessions, resets, cookie, tokens, mails, version, rotated, applied, broken>>
    BY <1>2, Zenon DEF RefreshRead, tables, history
  <2>5. CASE GetSessionByToken(t) = {}
    <3>1. PICK p : p = [q EXCEPT !.at = "error"]
      BY Zenon
    <3>2. p \in Reqs /\ p.at = "error" /\ p.token = t
      BY <2>3, <3>1 DEF Reqs, Ats
    <3>3. Begin(h, c, p)
      BY <1>2, <2>1, <2>2, <2>5, <3>1, Zenon DEF RefreshRead, refreshTokenFromRequest
    <3>4. \E r : Started(h, c, r)
      <4>1. Fit(c, p)
        BY <2>1, <3>2 DEF Fit
      <4> QED BY <3>2, <3>3, <4>1, BeginsWith, Zenon
    <3> QED BY <2>4, <3>4, Zenon DEF Types, Less
  <2>6. CASE GetSessionByToken(t) # {}
    <3>1. PICK s : s = CHOOSE x \in GetSessionByToken(t) : TRUE
      BY Zenon
    <3>2. s \in GetSessionByToken(t)
      BY <2>6, <3>1, Zenon
    <3>3. s \in SessionIds /\ sessions[s].user # None /\ sessions[s].token = t
      BY <3>2, Zenon DEF GetSessionByToken
    <3>4. PICK u \in Users \union {None} : u = sessions[s].user
      BY <3>3, Zenon DEF Types, SessionRows
    <3>5. PICK a \in {"drop", "rotate"} : a = IF sessions[s].expired THEN "drop" ELSE "rotate"
      BY Zenon
    <3>6. PICK p : p = [q EXCEPT !.at = a, !.id = s, !.user = u]
      BY Zenon
    <3>7. p \in Reqs /\ p.at = a /\ p.token = t /\ p.id = s
      <4>1. s \in Nat
        BY <3>3 DEF SessionIds
      <4> QED BY <2>3, <3>6, <4>1, Zenon DEF Reqs, Ats
    <3>8. Begin(h, c, p)
      BY <1>2, <2>1, <2>2, <2>6, <3>1, <3>4, <3>5, <3>6, Zenon DEF RefreshRead, refreshTokenFromRequest
    <3>9. \E r : Started(h, c, r)
      <4>1. Fit(c, p)
        BY <2>1, <3>3, <3>5, <3>7 DEF Fit
      <4> QED BY <3>7, <3>8, <4>1, BeginsWith, Zenon
    <3> QED BY <2>4, <3>9, Zenon DEF Types, Less
  <2> QED BY <2>5, <2>6, Zenon
<1>3. CASE Logout(h, c)
  <2>1. PICK q : q = [NoReq EXCEPT !.at = "clear"]
    BY Zenon
  <2>2. q \in Reqs /\ q.at = "clear" /\ q.token = 0
    BY <2>1 DEF NoReq, Reqs, Ats
  <2>3. Begin(h, c, q) /\ UNCHANGED <<resets, cookie, tokens, mails, version, rotated, applied, broken>>
    BY <1>3, <2>1, Zenon DEF Logout, history
  <2>4. PICK t : t = cookie[c]
    BY Zenon
  <2>5. DeleteSessionByToken(t) \/ sessions' = sessions
    BY <1>3, <2>4, Zenon DEF Logout, refreshTokenFromRequest
  <2>6. Less
    <3>1. sessions' = sessions => Less
      BY Zenon DEF Types, Less
    <3> QED BY <2>5, <3>1, DeletedByToken, Zenon
  <2>7. \E r : Started(h, c, r)
    <3>1. Fit(c, q)
      BY <2>2 DEF Fit
    <3> QED BY <2>2, <2>3, <3>1, BeginsWith, Zenon
  <2> QED BY <2>3, <2>6, <2>7, Zenon
<1>4. ASSUME NEW i \in ResetIds, NEW p \in Passwords, ResetRead(h, c, i, p)
      PROVE  (\E r : Started(h, c, r)) /\ Less
             /\ UNCHANGED <<resets, cookie, tokens, mails, version, rotated, applied, broken>>
  <2>1. PICK u \in Users : u = resets[i].user
    BY <1>4, Zenon DEF Types, ResetRows, ResetRead, GetPasswordResetByToken
  <2>2. PICK q : q = [NoReq EXCEPT !.at = "update", !.id = i, !.user = u, !.password = p]
    BY Zenon
  <2>3. q \in Reqs /\ q.at = "update" /\ q.token = 0 /\ q.user = u /\ q.id = i
    <3>1. i \in Nat
      BY DEF ResetIds
    <3> QED BY <2>2, <3>1, Zenon DEF NoReq, Reqs, Ats
  <2>4. Begin(h, c, q) /\ UNCHANGED <<sessions, resets, cookie, tokens, mails, version, rotated, applied, broken>>
    BY <1>4, <2>1, <2>2, Zenon DEF ResetRead, GetPasswordResetByToken, tables, history
  <2>5. \E r : Started(h, c, r)
    <3>1. Fit(c, q)
      BY <2>3 DEF Fit
    <3> QED BY <2>3, <2>4, <3>1, BeginsWith, Zenon
  <2>6. Less
    BY <2>4, Zenon DEF Types, Less
  <2> QED BY <2>4, <2>5, <2>6, Zenon
<1> QED BY <1>1, <1>2, <1>3, <1>4, Zenon DEF Request

----------------------------------------------------------------------------
\* The steps of a handler.

Moves(h, r) ==
    Turns(h, r) /\ r.client = req[h].client /\ r.id = req[h].id /\ r.user = req[h].user

LEMMA GoesOn ==
    ASSUME Types, NEW h \in Handlers, NEW a \in Ats, Go(h, a)
    PROVE  \E r : Moves(h, r) /\ r.at = a /\ r.token = req[h].token
<1>1. req \in [Handlers -> Reqs]
  BY Zenon DEF Types
<1>2. PICK r \in Reqs : /\ Turns(h, r) /\ r.at = a
                         /\ r.client = req[h].client /\ r.token = req[h].token /\ r.id = req[h].id
                         /\ r.user = req[h].user
  BY <1>1, Gone, Zenon
<1> QED BY <1>2, Zenon DEF Moves

LEMMA AnswersWith ==
    ASSUME Types, NEW h \in Handlers, NEW t \in Nat, req' = [req EXCEPT ![h].at = "answer", ![h].token = t]
    PROVE  \E r : Moves(h, r) /\ r.at = "answer" /\ r.token = t
<1>1. PICK q \in Reqs : q = req[h]
  BY Zenon DEF Types
<1>2. PICK r : r = [q EXCEPT !.at = "answer", !.token = t]
  BY Zenon
<1>3. r \in Reqs /\ r.at = "answer" /\ r.token = t /\ r.client = q.client /\ r.id = q.id /\ r.user = q.user
  BY <1>1, <1>2, Zenon DEF Reqs, Ats
<1>4. req' = [req EXCEPT ![h] = r]
  <2>1. req' = [req EXCEPT ![h] = [@ EXCEPT !.at = "answer", !.token = t]]
    BY Zenon
  <2> QED BY <1>1, <1>2, <2>1, Zenon
<1> QED BY <1>1, <1>3, <1>4, Zenon DEF Turns, Moves

\* Session s appears with token s.
Opens(s, u) ==
    /\ s \in SessionIds
    /\ \E row \in SessionRows : /\ sessions' = [sessions EXCEPT ![s] = row]
                                /\ row.user = u /\ row.token = s
                                /\ row.version = version[u] \/ row.late

LEMMA OpenStep ==
    ASSUME Types, NEW h \in Handlers, LoginOpen(h)
    PROVE  /\ req[h].at = "open" /\ newRefreshToken /\ Opens(tokens', req[h].user)
           /\ \E r : /\ Moves(h, r)
                     /\ \/ r.at = "answer" /\ r.token = tokens'
                        \/ r.at = "error" /\ r.token = req[h].token
           /\ UNCHANGED <<resets, cookie, mails, version, rotated, applied, broken, upset>>
<1>1. PICK t \in Nat : t = tokens' /\ t \in SessionIds
  BY Draw, Zenon DEF LoginOpen, Types
<1>2. PICK u \in Users : u = req[h].user
  BY Zenon DEF LoginOpen, Types, Proper
<1>3. PICK n \in Nat : n = req[h].version
  BY Zenon DEF Types, Reqs
<1>4. PICK b \in BOOLEAN : b = (n # version[u])
  BY Zenon
<1>5. PICK row : row = [user |-> u, token |-> t, expired |-> FALSE, version |-> n, late |-> b]
  BY Zenon
<1>6. row \in SessionRows /\ row.user = u /\ row.token = t /\ row.version = n
  BY <1>5 DEF SessionRows
<1>7. row.version = version[u] \/ row.late
  BY <1>4, <1>5, Zenon
<1>8. sessions' = [sessions EXCEPT ![t] = row]
  BY <1>1, <1>2, <1>3, <1>4, <1>5, Zenon DEF LoginOpen, CreateSession
<1>9. Opens(t, u)
  BY <1>1, <1>6, <1>7, <1>8, Zenon DEF Opens
<1>10. \E r : /\ Moves(h, r)
              /\ \/ r.at = "answer" /\ r.token = t
                 \/ r.at = "error" /\ r.token = req[h].token
  <2>1. CASE req' = [req EXCEPT ![h].at = "answer", ![h].token = t]
    <3>1. \E r : Moves(h, r) /\ r.at = "answer" /\ r.token = t
      BY <2>1, AnswersWith, Zenon
    <3> QED BY <3>1, Zenon
  <2>2. CASE Go(h, "error")
    <3>1. \E r : Moves(h, r) /\ r.at = "error" /\ r.token = req[h].token
      BY <2>2, GoesOn, Zenon DEF Ats
    <3> QED BY <3>1, Zenon
  <2> QED BY <1>1, <2>1, <2>2, Zenon DEF LoginOpen, Fail
<1> QED BY <1>1, <1>2, <1>9, <1>10, Zenon DEF LoginOpen, history

\* Session s changes its token to t.
Swaps(s, t) ==
    /\ sessions[s].user # None
    /\ rotated' = rotated \union {sessions[s].token}
    /\ \E row \in SessionRows : /\ sessions' = [sessions EXCEPT ![s] = row]
                                /\ row.user = sessions[s].user /\ row.token = t
                                /\ row.version = sessions[s].version
                                /\ row.late <=> sessions[s].late

LEMMA SwapStep ==
    ASSUME Types, NEW s \in SessionIds, NEW t \in Nat, sessions[s].user # None,
           RotateSessionToken(s, t), rotated' = rotated \union {sessions[s].token}
    PROVE  Swaps(s, t)
<1>1. PICK q \in SessionRows : q = sessions[s]
  BY Zenon DEF Types
<1>2. PICK row : row = [q EXCEPT !.token = t, !.expired = FALSE]
  BY Zenon
<1>3. row \in SessionRows /\ row.user = q.user /\ row.token = t /\ row.version = q.version
  BY <1>1, <1>2, Zenon DEF SessionRows
<1>4. row.late = q.late
  BY <1>1, <1>2 DEF SessionRows
<1>5. sessions' = [sessions EXCEPT ![s] = row]
  <2>1. sessions' = [sessions EXCEPT ![s] = [@ EXCEPT !.token = t, !.expired = FALSE]]
    BY Zenon DEF RotateSessionToken
  <2> QED BY <1>1, <1>2, <2>1, Zenon
<1> QED BY <1>1, <1>3, <1>4, <1>5, Zenon DEF Swaps

LEMMA RotateStep ==
    ASSUME Types, NEW h \in Handlers, RefreshRotate(h) \/ RefreshFails(h)
    PROVE  /\ req[h].at = "rotate"
           /\ \E r :
                /\ Moves(h, r)
                /\ \/ /\ newRefreshToken /\ Swaps(req[h].id, tokens')
                      /\ \/ r.at = "answer" /\ r.token = tokens' /\ upset' = upset
                         \/ r.at = "drop" /\ r.token = req[h].token /\ upset' = upset \union {req[h].client}
                   \/ /\ tokens' = tokens \/ newRefreshToken
                      /\ sessions' = sessions /\ rotated' = rotated
                      /\ r.at = "drop" /\ r.token = req[h].token
                      /\ upset' = upset \/ upset' = upset \union {req[h].client}
           /\ UNCHANGED <<resets, cookie, mails, version, applied, broken>>
<1>1. req[h].at = "rotate" /\ UNCHANGED <<resets, cookie, mails, version, applied, broken>>
  BY Zenon DEF RefreshRotate, RefreshFails
<1>2. PICK s \in SessionIds : s = req[h].id
  BY <1>1, Zenon DEF Types, Proper
<1>3. CASE RefreshRotate(h)
  <2>1. PICK t \in Nat : t = tokens'
    BY <1>3, Draw, Zenon DEF RefreshRotate, Types
  <2>2. CASE sessions[s].user = None
    <3>1. Go(h, "drop") /\ sessions' = sessions /\ rotated' = rotated /\ upset' = upset /\ newRefreshToken
      BY <1>2, <1>3, <2>2, Zenon DEF RefreshRotate
    <3>2. \E r : Moves(h, r) /\ r.at = "drop" /\ r.token = req[h].token
      BY <3>1, GoesOn, Zenon DEF Ats
    <3> QED BY <1>1, <3>1, <3>2, Zenon
  <2>3. CASE sessions[s].user # None
    <3>1. /\ RotateSessionToken(s, t) /\ rotated' = rotated \union {sessions[s].token}
          /\ req' = [req EXCEPT ![h].at = "answer", ![h].token = t]
          /\ upset' = upset /\ newRefreshToken
      BY <1>2, <1>3, <2>1, <2>3, Zenon DEF RefreshRotate
    <3>2. \E r : Moves(h, r) /\ r.at = "answer" /\ r.token = t
      BY <3>1, AnswersWith, Zenon
    <3>3. Swaps(s, t)
      BY <2>3, <3>1, SwapStep, Zenon
    <3> QED BY <1>1, <1>2, <2>1, <3>1, <3>2, <3>3, Zenon
  <2> QED BY <2>2, <2>3, Zenon
<1>4. CASE RefreshFails(h)
  <2>1. Go(h, "drop") /\ upset' = upset \union {req[h].client}
    BY <1>4, Zenon DEF RefreshFails
  <2>2. \E r : Moves(h, r) /\ r.at = "drop" /\ r.token = req[h].token
    BY <2>1, GoesOn, Zenon DEF Ats
  <2>3. CASE UNCHANGED <<sessions, tokens, rotated>>
    BY <1>1, <2>1, <2>2, <2>3, Zenon
  <2>4. CASE newRefreshToken /\ sessions[s].user # None /\ RotateSessionToken(s, tokens')
             /\ rotated' = rotated \union {sessions[s].token}
    <3>1. PICK t \in Nat : t = tokens'
      BY <2>4, Draw, Zenon DEF Types
    <3>2. Swaps(s, t)
      BY <2>4, <3>1, SwapStep, Zenon
    <3> QED BY <1>1, <1>2, <2>1, <2>2, <2>4, <3>1, <3>2, Zenon
  <2> QED BY <1>2, <1>4, <2>3, <2>4, Zenon DEF RefreshFails
<1> QED BY <1>3, <1>4, Zenon

LEMMA DropStep ==
    ASSUME Types, NEW h \in Handlers, LoginFails(h) \/ RefreshDrop(h)
    PROVE  /\ req[h].at \in {"open", "drop"}
           /\ \E r : Moves(h, r) /\ r.at = "error" /\ r.token = req[h].token
           /\ Less
           /\ UNCHANGED <<resets, cookie, tokens, mails, version, rotated, applied, broken, upset>>
<1>1. /\ req[h].at \in {"open", "drop"} /\ Go(h, "error")
      /\ UNCHANGED <<resets, cookie, tokens, mails, version, rotated, applied, broken, upset>>
  BY Zenon DEF LoginFails, RefreshDrop, Fail, tables, history
<1>2. \E r : Moves(h, r) /\ r.at = "error" /\ r.token = req[h].token
  BY <1>1, GoesOn, Zenon DEF Ats
<1>3. PICK t : t = req[h].token
  BY Zenon
<1>4. sessions' = sessions \/ DeleteSessionByToken(t)
  BY <1>3, Zenon DEF LoginFails, RefreshDrop, tables
<1>5. sessions' = sessions => Less
  BY Zenon DEF Types, Less
<1> QED BY <1>1, <1>2, <1>4, <1>5, DeletedByToken, Zenon

ResetAts == {"update", "use", "sessions", "resets"}

\* A statement of a password reset, whether it is answered or not.
LEMMA StatementDoes ==
    ASSUME Types, NEW h \in Handlers, req[h].at \in ResetAts,
           ResetStatement(h) \/ UNCHANGED <<tables, version, applied>>
    PROVE  /\ Less /\ applied \subseteq applied'
           /\ resets' \in [ResetIds -> ResetRows]
           /\ \A i \in ResetIds : resets'[i].used => resets[i].used \/ (req[h].at = "use" /\ i = req[h].id)
           /\ version' \in [Users -> Nat]
           /\ \A u \in Users : u # req[h].user \/ req[h].at # "update" => version'[u] = version[u]
<1>1. PICK u \in Users : u = req[h].user
  BY Zenon DEF Types, Proper, ResetAts
<1>2. PICK i \in ResetIds : i = req[h].id
  BY Zenon DEF Types, Proper, ResetAts
<1>3. sessions' = sessions => Less
  BY Zenon DEF Types, Less
<1>4. CASE UNCHANGED <<tables, version, applied>>
  BY <1>3, <1>4, Zenon DEF tables, Types
<1>5. CASE ResetUpdate(h)
  <2>1. /\ req[h].at = "update" /\ version' = [version EXCEPT ![u] = version[u] + 1]
        /\ applied' = applied \union {req[h].id} /\ sessions' = sessions /\ resets' = resets
    BY <1>1, <1>5, Zenon DEF ResetUpdate
  <2>2. version' \in [Users -> Nat] /\ \A x \in Users : x # u => version'[x] = version[x]
    BY <2>1 DEF Types
  <2> QED BY <1>1, <1>3, <2>1, <2>2, Zenon DEF Types
<1>6. CASE ResetUse(h)
  <2>1. /\ req[h].at = "use" /\ UsePasswordReset(i)
        /\ sessions' = sessions /\ version' = version /\ applied' = applied
    BY <1>2, <1>6, Zenon DEF ResetUse
  <2>2. resets' \in [ResetIds -> ResetRows] /\ \A x \in ResetIds : x # i => resets'[x] = resets[x]
    <3>1. CASE resets' = resets
      BY <3>1, Zenon DEF Types
    <3>2. CASE resets' = [resets EXCEPT ![i].used = TRUE]
      <4>1. PICK row \in ResetRows : row = resets[i]
        BY Zenon DEF Types
      <4>2. [row EXCEPT !.used = TRUE] \in ResetRows
        BY Zenon DEF ResetRows
      <4>3. resets' = [resets EXCEPT ![i] = [row EXCEPT !.used = TRUE]]
        BY <3>2, <4>1, Zenon
      <4> QED BY <4>2, <4>3, Zenon DEF Types
    <3> QED BY <2>1, <3>1, <3>2, Zenon DEF UsePasswordReset
  <2> QED BY <1>2, <1>3, <2>1, <2>2, Zenon DEF Types
<1>7. CASE ResetDeleteSessions(h)
  <2>1. DeleteSessionsByUser(u) /\ resets' = resets /\ version' = version /\ applied' = applied
    BY <1>1, <1>7, Zenon DEF ResetDeleteSessions
  <2>2. Less
    BY <2>1, DeletedByUser, Zenon
  <2> QED BY <2>1, <2>2, Zenon DEF Types
<1>8. CASE ResetDeleteResets(h)
  <2>1. DeletePasswordResetsByUser(u) /\ sessions' = sessions /\ version' = version /\ applied' = applied
    BY <1>1, <1>8, Zenon DEF ResetDeleteResets
  <2>2. resets' \in [ResetIds -> ResetRows] /\ \A x \in ResetIds : resets'[x] = resets[x] \/ resets'[x] = NoReset
    BY <2>1, NoRows, Zenon DEF DeletePasswordResetsByUser, Types
  <2> QED BY <1>3, <2>1, <2>2, NoRows, Zenon DEF Types
<1> QED BY <1>4, <1>5, <1>6, <1>7, <1>8, Zenon DEF ResetStatement

LEMMA NextAt ==
    ASSUME NEW a \in ResetAts
    PROVE  LET f == [update |-> "use", use |-> "sessions", sessions |-> "resets", resets |-> "clear"]
           IN /\ f[a] \in {"use", "sessions", "resets", "clear"}
              /\ f[a] = "use" <=> a = "update"
              /\ f[a] = "sessions" <=> a = "use"
  BY DEF ResetAts

\* A step of a password reset: what becomes of the user's sessions and of the
\* debt that an error leaves.
LEMMA ResetMoves ==
    ASSUME Types, NEW h \in Handlers, ResetStep(h) \/ ResetFails(h)
    PROVE  /\ req[h].at \in ResetAts
           /\ ResetStatement(h) \/ UNCHANGED <<tables, version, applied>>
           /\ \E r : /\ Moves(h, r) /\ r.token = req[h].token
                     /\ r.at \in {"use", "sessions", "resets", "clear", "error"}
                     /\ r.at = "use" => req[h].at = "update" /\ req[h].id \in applied'
                     /\ \/ req[h].at = "resets" /\ version' = version /\ broken' = broken
                        \/ req[h].user \in broken'
                        \/ r.at \in {"use", "sessions"}
                        \/ \A s \in SessionIds : sessions'[s].user # req[h].user
           /\ broken \ {req[h].user} \subseteq broken'
           /\ UNCHANGED <<cookie, tokens, mails, rotated, upset>>
<1>1. req[h].at \in ResetAts /\ UNCHANGED <<cookie, tokens, mails, rotated, upset>>
  BY Zenon DEF ResetStep, ResetFails, ResetStatement, ResetUpdate, ResetUse, ResetDeleteSessions,
               ResetDeleteResets, ResetAts
<1>2. PICK u \in Users : u = req[h].user
  BY <1>1, Zenon DEF Types, Proper, ResetAts
<1>3. PICK a \in ResetAts : a = req[h].at
  BY <1>1, Zenon
<1>4. CASE ResetStep(h)
  <2>1. PICK b : b = [update |-> "use", use |-> "sessions", sessions |-> "resets", resets |-> "clear"][a]
    BY Zenon
  <2>2. b \in {"use", "sessions", "resets", "clear"} /\ (b = "use" <=> a = "update") /\ (b = "sessions" <=> a = "use")
    BY <2>1, NextAt, Zenon
  <2>3. Go(h, b) /\ ResetStatement(h)
    BY <1>3, <1>4, <2>1, Zenon DEF ResetStep
  <2>4. PICK r : Moves(h, r) /\ r.at = b /\ r.token = req[h].token
    <3>1. b \in Ats
      BY <2>2, Zenon DEF Ats
    <3> QED BY <2>3, <3>1, GoesOn, Zenon
  <2>5. a = "update" => req[h].id \in applied'
    BY <1>3, <2>3, Zenon DEF ResetStatement, ResetUpdate, ResetUse, ResetDeleteSessions, ResetDeleteResets
  <2>6. a = "sessions" => \A s \in SessionIds : sessions'[s].user # u
    <3>1. SUFFICES ASSUME a = "sessions" PROVE \A s \in SessionIds : sessions'[s].user # u
      OBVIOUS
    <3>2. DeleteSessionsByUser(u)
      BY <1>2, <1>3, <2>3, <3>1, Zenon DEF ResetStatement, ResetUpdate, ResetUse, ResetDeleteSessions, ResetDeleteResets
    <3>3. u # None
      BY SessionConstants, Zenon
    <3> QED BY <3>2, <3>3, DeletedByUser, NoRows, Zenon
  <2>7. a = "resets" => version' = version /\ broken' = broken
    BY <1>3, <1>4, <2>3, Zenon DEF ResetStep, ResetStatement, ResetUpdate, ResetUse, ResetDeleteSessions, ResetDeleteResets
  <2>8. \/ a = "resets" /\ version' = version /\ broken' = broken
        \/ b \in {"use", "sessions"}
        \/ \A s \in SessionIds : sessions'[s].user # u
    BY <2>2, <2>6, <2>7, Zenon DEF ResetAts
  <2>9. broken \ {u} \subseteq broken'
    BY <1>2, <1>4, Zenon DEF ResetStep
  <2> QED BY <1>1, <1>2, <1>3, <2>2, <2>3, <2>4, <2>5, <2>8, <2>9, Zenon
<1>5. CASE ResetFails(h)
  <2>1. Go(h, "error") /\ (ResetStatement(h) \/ UNCHANGED <<tables, version, applied>>)
    BY <1>5, Zenon DEF ResetFails, Fail
  <2>2. PICK r : Moves(h, r) /\ r.at = "error" /\ r.token = req[h].token
    BY <2>1, GoesOn, Zenon DEF Ats
  <2>3. a = "resets" => version' = version /\ broken' = broken
    BY <1>3, <1>5, <2>1, Zenon DEF ResetFails, ResetStatement, ResetUpdate, ResetUse, ResetDeleteSessions, ResetDeleteResets
  <2>4. a # "resets" => u \in broken'
    BY <1>2, <1>3, <1>5, Zenon DEF ResetFails
  <2>5. broken \ {u} \subseteq broken'
    BY <1>2, <1>5, Zenon DEF ResetFails
  <2> QED BY <1>1, <1>2, <1>3, <2>1, <2>2, <2>3, <2>4, <2>5, Zenon
<1> QED BY <1>4, <1>5, Zenon

LEMMA AnswerStep ==
    ASSUME Types, NEW h \in Handlers, Answer(h)
    PROVE  /\ req[h].at \in {"answer", "clear", "error"} /\ Turns(h, NoReq)
           /\ \/ cookie' = cookie /\ upset' = upset \union {req[h].client}
              \/ /\ upset' = upset
                 /\ \/ req[h].at = "answer" /\ cookie' = [cookie EXCEPT ![req[h].client] = req[h].token]
                    \/ req[h].at = "clear" /\ cookie' = [cookie EXCEPT ![req[h].client] = 0]
                    \/ req[h].at = "error" /\ cookie' = cookie
           /\ UNCHANGED <<sessions, resets, tokens, mails, version, rotated, applied, broken>>
<1>1. /\ req[h].at \in {"answer", "clear", "error"} /\ Turns(h, NoReq)
      /\ UNCHANGED <<sessions, resets, tokens, mails, version, rotated, applied, broken>>
  BY NoRows, Zenon DEF Answer, Turns, tables, history
<1>2. PICK c : c = req[h].client
  BY Zenon
<1>3. CASE upset' = upset \union {c} /\ cookie' = cookie
  BY <1>1, <1>2, <1>3, Zenon
<1>4. CASE /\ upset' = upset
           /\ CASE req[h].at = "answer" -> setRefreshCookie(c, req[h].token)
                [] req[h].at = "clear" -> clearRefreshCookie(c)
                [] OTHER -> UNCHANGED cookie
  <2>1. CASE req[h].at = "answer"
    BY <1>1, <1>2, <1>4, <2>1, Zenon DEF setRefreshCookie
  <2>2. CASE req[h].at = "clear"
    BY <1>1, <1>2, <1>4, <2>2, Zenon DEF clearRefreshCookie
  <2>3. CASE req[h].at = "error"
    BY <1>1, <1>2, <1>4, <2>3, Zenon
  <2> QED BY <1>1, <2>1, <2>2, <2>3, Zenon
<1> QED BY <1>2, <1>3, <1>4, Zenon DEF Answer

\* The sessions keep what the invariants below speak of.
Alike ==
    /\ sessions' \in [SessionIds -> SessionRows]
    /\ \A s \in SessionIds : /\ sessions'[s].user = sessions[s].user /\ sessions'[s].token = sessions[s].token
                             /\ sessions'[s].version = sessions[s].version
                             /\ sessions'[s].late <=> sessions[s].late

\* The steps that are no handler's.
Outside ==
    \/ \E u \in Users : (\E p \in Passwords : Register(u, p)) \/ Forgot(u)
    \/ \E s \in SessionIds : SessionExpires(s)
    \/ \E r \in ResetIds : ResetExpires(r)
    \/ UNCHANGED vars

LEMMA OutsideStep ==
    ASSUME Types, Outside
    PROVE  /\ Alike /\ resets' \in [ResetIds -> ResetRows]
           /\ \A i \in ResetIds : resets'[i].used => resets[i].used
           /\ mails' \in 0..MaxResets
           /\ UNCHANGED <<cookie, req, tokens, version, rotated, applied, broken, upset>>
<1>1. sessions' = sessions => Alike
  BY Zenon DEF Types, Alike
<1>2. CASE UNCHANGED vars
  BY <1>1, <1>2, Zenon DEF vars, tables, history, Types
<1>3. ASSUME NEW u \in Users, NEW p \in Passwords, Register(u, p)
      PROVE  UNCHANGED <<sessions, resets, cookie, req, tokens, mails, version, rotated, applied, broken, upset>>
  BY <1>3, Zenon DEF Register, history
<1>4. ASSUME NEW u \in Users, Forgot(u)
      PROVE  /\ UNCHANGED <<sessions, cookie, req, tokens, version, rotated, applied, broken, upset>>
             /\ mails' \in 0..MaxResets /\ resets' \in [ResetIds -> ResetRows]
             /\ \A i \in ResetIds : resets'[i].used => resets[i].used
  <2>1. /\ UNCHANGED <<sessions, cookie, req, tokens, version, rotated, applied, broken, upset>>
        /\ CreatePasswordReset(mails', u)
    BY <1>4, Zenon DEF Forgot, history
  <2>2. mails' \in 0..MaxResets /\ mails' \in ResetIds
    BY <1>4, SessionConstants DEF Forgot, Types, ResetIds
  <2>3. PICK row : row = [NoReset EXCEPT !.user = u]
    BY Zenon
  <2>4. row \in ResetRows /\ ~row.used
    BY <2>3, Zenon DEF ResetRows, NoReset
  <2>5. PICK i \in ResetIds : i = mails'
    BY <2>2, Zenon
  <2>6. resets' = [resets EXCEPT ![i] = row]
    BY <2>1, <2>3, <2>5, Zenon DEF CreatePasswordReset
  <2>7. resets' \in [ResetIds -> ResetRows] /\ \A x \in ResetIds : resets'[x] = row \/ resets'[x] = resets[x]
    BY <2>4, <2>6, Zenon DEF Types
  <2> QED BY <2>1, <2>2, <2>4, <2>7, Zenon
<1>5. ASSUME NEW s \in SessionIds, SessionExpires(s)
      PROVE  UNCHANGED <<resets, cookie, req, tokens, mails, version, rotated, applied, broken, upset>> /\ Alike
  <2>1. /\ UNCHANGED <<resets, cookie, req, tokens, mails, version, rotated, applied, broken, upset>>
        /\ sessions' = [sessions EXCEPT ![s].expired = TRUE]
    BY <1>5, Zenon DEF SessionExpires, history
  <2>2. PICK q \in SessionRows : q = sessions[s]
    BY Zenon DEF Types
  <2>3. PICK row : row = [q EXCEPT !.expired = TRUE]
    BY Zenon
  <2>4. row \in SessionRows /\ row.user = q.user /\ row.token = q.token /\ row.version = q.version
    BY <2>2, <2>3, Zenon DEF SessionRows
  <2>5. row.late = q.late
    BY <2>2, <2>3 DEF SessionRows
  <2>6. sessions' = [sessions EXCEPT ![s] = row]
    BY <2>1, <2>2, <2>3, Zenon
  <2>7. sessions' \in [SessionIds -> SessionRows] /\ sessions'[s] = row /\ \A x \in SessionIds : x # s => sessions'[x] = sessions[x]
    BY <2>4, <2>6, Zenon DEF Types
  <2> QED BY <2>1, <2>2, <2>4, <2>5, <2>7, Zenon DEF Alike
<1>6. ASSUME NEW i \in ResetIds, ResetExpires(i)
      PROVE  /\ UNCHANGED <<sessions, cookie, req, tokens, mails, version, rotated, applied, broken, upset>>
             /\ resets' \in [ResetIds -> ResetRows]
             /\ \A x \in ResetIds : resets'[x].used => resets[x].used
  <2>1. /\ UNCHANGED <<sessions, cookie, req, tokens, mails, version, rotated, applied, broken, upset>>
        /\ resets' = [resets EXCEPT ![i].expired = TRUE]
    BY <1>6, Zenon DEF ResetExpires, history
  <2>2. PICK q \in ResetRows : q = resets[i]
    BY Zenon DEF Types
  <2>3. PICK row : row = [q EXCEPT !.expired = TRUE]
    BY Zenon
  <2>4. row \in ResetRows
    BY <2>2, <2>3, Zenon DEF ResetRows
  <2>5. row.used = q.used
    BY <2>2, <2>3 DEF ResetRows
  <2>6. resets' = [resets EXCEPT ![i] = row]
    BY <2>1, <2>2, <2>3, Zenon
  <2>7. resets' \in [ResetIds -> ResetRows] /\ resets'[i] = row /\ \A x \in ResetIds : x # i => resets'[x] = resets[x]
    BY <2>4, <2>6, Zenon DEF Types
  <2> QED BY <2>1, <2>2, <2>5, <2>7, Zenon
<1>7. mails \in 0..MaxResets /\ resets \in [ResetIds -> ResetRows]
  BY Zenon DEF Types
<1> QED BY <1>1, <1>2, <1>3, <1>4, <1>5, <1>6, <1>7, Zenon DEF Outside

LEMMA StepCases ==
    ASSUME [Next]_vars
    PROVE  \/ Outside
           \/ \E h \in Handlers, c \in Clients : Request(h, c)
           \/ \E h \in Handlers : LoginOpen(h)
           \/ \E h \in Handlers : RefreshRotate(h) \/ RefreshFails(h)
           \/ \E h \in Handlers : LoginFails(h) \/ RefreshDrop(h)
           \/ \E h \in Handlers : ResetStep(h) \/ ResetFails(h)
           \/ \E h \in Handlers : Answer(h)
  BY Zenon DEF Next, Step, Outside

----------------------------------------------------------------------------
LEMMA InitTypes == Init => Types
<1> SUFFICES ASSUME Init PROVE Types
  OBVIOUS
<1>1. /\ sessions \in [SessionIds -> SessionRows] /\ resets \in [ResetIds -> ResetRows]
      /\ req \in [Handlers -> Reqs] /\ \A h \in Handlers : Proper(req[h])
  BY NoRows, Zenon DEF Init, Proper
<1>2. cookie \in [Clients -> Nat] /\ version \in [Users -> Nat] /\ tokens \in 0..MaxTokens /\ mails \in 0..MaxResets
  BY SessionConstants DEF Init
<1> QED BY <1>1, <1>2, Zenon DEF Types

LEMMA TurnTypes ==
    ASSUME Types, NEW h \in Handlers, NEW r, Turns(h, r), Proper(r)
    PROVE  req' \in [Handlers -> Reqs] /\ \A g \in Handlers : Proper(req'[g])
<1>1. req \in [Handlers -> Reqs]
  BY Zenon DEF Types
<1>2. /\ req' \in [Handlers -> Reqs] /\ req'[h] = r
      /\ \A g \in Handlers : g # h => req'[g] = req[g]
  BY <1>1, Turned, Zenon
<1> QED BY <1>2, Zenon DEF Types

LEMMA StepTypes == Types /\ [Next]_vars => Types'
<1>1. SUFFICES ASSUME Types, [Next]_vars PROVE Types'
  OBVIOUS
<1>2. \/ tokens' = tokens
      \/ newRefreshToken
  BY <1>1, ZenonT(40) DEF Next, Step, Request, LoginCheck, LoginOpen, LoginFails, RefreshRead, RefreshRotate, RefreshFails,
        RefreshDrop, Logout, ResetRead, ResetStep, ResetFails, Answer, Register, Forgot, SessionExpires,
        ResetExpires, vars
<1>3. tokens' \in 0..MaxTokens
  BY <1>1, <1>2, Draw, Zenon DEF Types
<1>4. CASE Outside
  <2>1. Alike /\ resets' \in [ResetIds -> ResetRows] /\ mails' \in 0..MaxResets /\ UNCHANGED <<cookie, req, version>>
    BY <1>1, <1>4, OutsideStep, Zenon
  <2> QED BY <1>1, <1>3, <2>1, Zenon DEF Types, Alike
<1>5. ASSUME NEW h \in Handlers, NEW c \in Clients, Request(h, c) PROVE Types'
  <2>1. PICK r : Started(h, c, r)
    BY <1>1, <1>5, RequestStarts, Zenon
  <2>2. Less /\ UNCHANGED <<resets, cookie, mails, version>>
    BY <1>1, <1>5, RequestStarts, Zenon
  <2>3. Turns(h, r) /\ Proper(r)
    BY <2>1, Zenon DEF Started, Fit, Proper
  <2> QED BY <1>1, <1>3, <2>2, <2>3, TurnTypes, Zenon DEF Types, Less
<1>6. ASSUME NEW h \in Handlers, LoginOpen(h) PROVE Types'
  <2>1. PICK r : Moves(h, r) /\ r.at \in {"answer", "error"}
    BY <1>1, <1>6, OpenStep, Zenon
  <2>2. Turns(h, r) /\ Proper(r)
    BY <2>1, Zenon DEF Moves, Proper
  <2>3. Opens(tokens', req[h].user) /\ UNCHANGED <<resets, cookie, mails, version>>
    BY <1>1, <1>6, OpenStep, Zenon
  <2>4. sessions' \in [SessionIds -> SessionRows]
    BY <1>1, <2>3, Zenon DEF Opens, Types
  <2> QED BY <1>1, <1>3, <2>2, <2>3, <2>4, TurnTypes, Zenon DEF Types
<1>7. ASSUME NEW h \in Handlers, RefreshRotate(h) \/ RefreshFails(h) PROVE Types'
  <2>1. PICK r : Moves(h, r) /\ r.at \in {"answer", "drop"} /\ (Swaps(req[h].id, tokens') \/ sessions' = sessions)
    BY <1>1, <1>7, RotateStep, Zenon
  <2>2. Turns(h, r) /\ Proper(r)
    BY <2>1, Zenon DEF Moves, Proper
  <2>3. UNCHANGED <<resets, cookie, mails, version>>
    BY <1>1, <1>7, RotateStep, Zenon
  <2>4. sessions' \in [SessionIds -> SessionRows]
    BY <1>1, <2>1, Zenon DEF Swaps, Types
  <2> QED BY <1>1, <1>3, <2>2, <2>3, <2>4, TurnTypes, Zenon DEF Types
<1>8. ASSUME NEW h \in Handlers, LoginFails(h) \/ RefreshDrop(h) PROVE Types'
  <2>1. PICK r : Moves(h, r) /\ r.at = "error"
    BY <1>1, <1>8, DropStep, Zenon
  <2>2. Turns(h, r) /\ Proper(r)
    BY <2>1, Zenon DEF Moves, Proper
  <2>3. Less /\ UNCHANGED <<resets, cookie, mails, version>>
    BY <1>1, <1>8, DropStep, Zenon
  <2> QED BY <1>1, <1>3, <2>2, <2>3, TurnTypes, Zenon DEF Types, Less
<1>9. ASSUME NEW h \in Handlers, ResetStep(h) \/ ResetFails(h) PROVE Types'
  <2>1. /\ req[h].at \in ResetAts /\ (ResetStatement(h) \/ UNCHANGED <<tables, version, applied>>)
        /\ UNCHANGED <<cookie, mails>>
    BY <1>1, <1>9, ResetMoves, Zenon
  <2>2. PICK r : Moves(h, r) /\ r.at \in {"use", "sessions", "resets", "clear", "error"}
    BY <1>1, <1>9, ResetMoves, Zenon
  <2>3. Proper(req[h])
    BY <1>1, Zenon DEF Types
  <2>4. Turns(h, r) /\ Proper(r)
    BY <2>1, <2>2, <2>3, Zenon DEF Moves, Proper, ResetAts
  <2>5. Less /\ resets' \in [ResetIds -> ResetRows] /\ version' \in [Users -> Nat]
    BY <1>1, <2>1, StatementDoes, Zenon
  <2> QED BY <1>1, <1>3, <2>1, <2>4, <2>5, TurnTypes, Zenon DEF Types, Less
<1>10. ASSUME NEW h \in Handlers, Answer(h) PROVE Types'
  <2>1. Turns(h, NoReq) /\ UNCHANGED <<sessions, resets, mails, version>>
    BY <1>1, <1>10, AnswerStep, Zenon
  <2>2. PICK t \in Nat : t = req[h].token
    BY <1>1, Zenon DEF Types, Reqs
  <2>3. \/ cookie' = cookie
        \/ cookie' = [cookie EXCEPT ![req[h].client] = t]
        \/ cookie' = [cookie EXCEPT ![req[h].client] = 0]
    BY <1>1, <1>10, <2>2, AnswerStep, Zenon
  <2>4. cookie' \in [Clients -> Nat]
    BY <1>1, <2>3 DEF Types
  <2>5. Proper(NoReq)
    BY NoRows, Zenon DEF Proper
  <2> QED BY <1>1, <1>3, <2>1, <2>4, <2>5, TurnTypes, Zenon DEF Types
<1> QED BY <1>1, <1>4, <1>5, <1>6, <1>7, <1>8, <1>9, <1>10, StepCases, Zenon

----------------------------------------------------------------------------
\* Reset tokens.

Spent ==
    /\ SpentMeansChanged
    /\ \A h \in Handlers : req[h].at = "use" => req[h].id \in applied

LEMMA TurnSpent ==
    ASSUME Types, Spent, NEW h \in Handlers, NEW r, Turns(h, r), r.at # "use", applied' = applied,
           \A i \in ResetIds : resets'[i].used => resets[i].used
    PROVE  Spent'
<1>1. req \in [Handlers -> Reqs]
  BY Zenon DEF Types
<1>2. req'[h] = r /\ \A g \in Handlers : g # h => req'[g] = req[g]
  BY <1>1, Turned, Zenon
<1> QED BY <1>2, Zenon DEF Spent, SpentMeansChanged

LEMMA StepSpent == Types /\ Spent /\ [Next]_vars => Spent'
<1>1. SUFFICES ASSUME Types, Spent, [Next]_vars PROVE Spent'
  OBVIOUS
<1>2. CASE Outside
  <2>1. (\A i \in ResetIds : resets'[i].used => resets[i].used) /\ applied' = applied /\ req' = req
    BY <1>1, <1>2, OutsideStep, Zenon
  <2> QED BY <1>1, <2>1, Zenon DEF Spent, SpentMeansChanged
<1>3. ASSUME NEW h \in Handlers, NEW c \in Clients, Request(h, c) PROVE Spent'
  <2>1. PICK r : Started(h, c, r)
    BY <1>1, <1>3, RequestStarts, Zenon
  <2>2. UNCHANGED <<resets, applied>>
    BY <1>1, <1>3, RequestStarts, Zenon
  <2>3. Turns(h, r) /\ r.at # "use"
    BY <2>1, Zenon DEF Started, Fit
  <2> QED BY <1>1, <2>2, <2>3, TurnSpent, Zenon
<1>4. ASSUME NEW h \in Handlers, LoginOpen(h) PROVE Spent'
  <2>1. PICK r : Moves(h, r) /\ r.at \in {"answer", "error"}
    BY <1>1, <1>4, OpenStep, Zenon
  <2>2. Turns(h, r) /\ r.at # "use"
    BY <2>1, Zenon DEF Moves
  <2>3. UNCHANGED <<resets, applied>>
    BY <1>1, <1>4, OpenStep, Zenon
  <2> QED BY <1>1, <2>2, <2>3, TurnSpent, Zenon
<1>5. ASSUME NEW h \in Handlers, RefreshRotate(h) \/ RefreshFails(h) PROVE Spent'
  <2>1. PICK r : Moves(h, r) /\ r.at \in {"answer", "drop"}
    BY <1>1, <1>5, RotateStep, Zenon
  <2>2. Turns(h, r) /\ r.at # "use"
    BY <2>1, Zenon DEF Moves
  <2>3. UNCHANGED <<resets, applied>>
    BY <1>1, <1>5, RotateStep, Zenon
  <2> QED BY <1>1, <2>2, <2>3, TurnSpent, Zenon
<1>6. ASSUME NEW h \in Handlers, LoginFails(h) \/ RefreshDrop(h) PROVE Spent'
  <2>1. PICK r : Moves(h, r) /\ r.at = "error"
    BY <1>1, <1>6, DropStep, Zenon
  <2>2. Turns(h, r) /\ r.at # "use"
    BY <2>1, Zenon DEF Moves
  <2>3. UNCHANGED <<resets, applied>>
    BY <1>1, <1>6, DropStep, Zenon
  <2> QED BY <1>1, <2>2, <2>3, TurnSpent, Zenon
<1>7. ASSUME NEW h \in Handlers, ResetStep(h) \/ ResetFails(h) PROVE Spent'
  <2>1. req[h].at \in ResetAts /\ (ResetStatement(h) \/ UNCHANGED <<tables, version, applied>>)
    BY <1>1, <1>7, ResetMoves, Zenon
  <2>2. PICK r : Moves(h, r) /\ (r.at = "use" => req[h].id \in applied')
    BY <1>1, <1>7, ResetMoves, Zenon
  <2>3. /\ applied \subseteq applied'
        /\ \A i \in ResetIds : resets'[i].used => resets[i].used \/ (req[h].at = "use" /\ i = req[h].id)
    BY <1>1, <2>1, StatementDoes, Zenon
  <2>4. SpentMeansChanged'
    BY <1>1, <2>3, Zenon DEF Spent, SpentMeansChanged
  <2>5. Turns(h, r) /\ r.id = req[h].id
    BY <2>2, Zenon DEF Moves
  <2>6. req'[h] = r /\ \A g \in Handlers : g # h => req'[g] = req[g]
    BY <1>1, <2>5, Turned, Zenon DEF Types
  <2> QED BY <1>1, <2>2, <2>3, <2>4, <2>5, <2>6, Zenon DEF Spent
<1>8. ASSUME NEW h \in Handlers, Answer(h) PROVE Spent'
  <2>1. Turns(h, NoReq) /\ UNCHANGED <<resets, applied>>
    BY <1>1, <1>8, AnswerStep, Zenon
  <2>2. NoReq.at # "use"
    BY NoRows, Zenon
  <2> QED BY <1>1, <2>1, <2>2, TurnSpent, Zenon
<1> QED BY <1>1, <1>2, <1>3, <1>4, <1>5, <1>6, <1>7, <1>8, StepCases, Zenon

LEMMA InitSpent == Init => Spent
  BY NoRows, Zenon DEF Init, Spent, SpentMeansChanged

(* Service.Reset (service.go:357-361): a failure between its statements, in  *)
(* any number of concurrent resets, never burns a reset token that changed   *)
(* no password.                                                              *)
THEOREM TokensAreNotBurnt == Spec => []SpentMeansChanged
<1>1. Init => Types /\ Spent
  BY InitTypes, InitSpent, Zenon
<1>2. Types /\ Spent /\ [Next]_vars => Types' /\ Spent'
  BY StepTypes, StepSpent, Zenon
<1>3. Spent => SpentMeansChanged
  BY Zenon DEF Spent
<1> QED BY <1>1, <1>2, <1>3, PTL DEF Spec

----------------------------------------------------------------------------
\* Sessions of an older password.

Resetting(u) == u \in broken \/ \E h \in Handlers : req[h].at \in {"use", "sessions"} /\ req[h].user = u

\* The row was opened with the password that is now the user's, or late, or
\* is none.
Good(row) == row.user = None \/ row.version = version[row.user] \/ row.late

LEMMA OldRows == OldSessionsEnd <=> \A s \in SessionIds : Good(sessions[s]) \/ Resetting(sessions[s].user)
  BY Zenon DEF OldSessionsEnd, Good, Resetting

LEMMA TurnOld ==
    ASSUME Types, OldSessionsEnd, NEW h \in Handlers, NEW r, Turns(h, r), req[h].at \notin {"use", "sessions"},
           broken' = broken, version' = version,
           \A s \in SessionIds : \/ Good(sessions'[s])
                                 \/ sessions'[s].user = sessions[s].user /\ (Good(sessions[s]) => Good(sessions'[s]))
    PROVE  OldSessionsEnd'
<1>1. req'[h] = r /\ \A g \in Handlers : g # h => req'[g] = req[g]
  BY Turned, Zenon DEF Types
<1>2. \A u : Resetting(u) => Resetting(u)'
  BY <1>1, Zenon DEF Resetting
<1>3. \A row : Good(row)' <=> Good(row)
  BY Zenon DEF Good
<1>4. \A s \in SessionIds : Good(sessions[s]) \/ Resetting(sessions[s].user)
  BY OldRows, Zenon
<1>5. ASSUME NEW s \in SessionIds PROVE Good(sessions[s])' \/ Resetting(sessions[s].user)'
  <2>1. PICK row : row = sessions'[s]
    BY Zenon
  <2>2. Good(row) \/ Resetting(row.user)
    BY <1>4, <2>1, Zenon
  <2>3. Good(row)' \/ Resetting(row.user)'
    BY <1>2, <1>3, <2>2, Zenon
  <2> QED BY <2>1, <2>3, Zenon DEF Good, Resetting
<1> QED BY <1>5, Zenon DEF OldSessionsEnd, Good, Resetting

LEMMA LessGood ==
    ASSUME Less, NEW s \in SessionIds
    PROVE  \/ Good(sessions'[s])
           \/ sessions'[s].user = sessions[s].user /\ (Good(sessions[s]) => Good(sessions'[s]))
  BY NoRows, Zenon DEF Less, Good

LEMMA ResetOld ==
    ASSUME Types, OldSessionsEnd, NEW h \in Handlers, ResetStep(h) \/ ResetFails(h)
    PROVE  OldSessionsEnd'
<1>1. req[h].at \in ResetAts /\ (ResetStatement(h) \/ UNCHANGED <<tables, version, applied>>)
  BY ResetMoves, Zenon
<1>2. PICK u \in Users : u = req[h].user
  BY <1>1, Zenon DEF Types, Proper, ResetAts
<1>3. PICK r : /\ Moves(h, r)
               /\ \/ req[h].at = "resets" /\ version' = version /\ broken' = broken
                  \/ u \in broken'
                  \/ r.at \in {"use", "sessions"}
                  \/ \A s \in SessionIds : sessions'[s].user # u
  BY <1>2, ResetMoves, Zenon
<1>4. broken \ {u} \subseteq broken'
  BY <1>2, ResetMoves, Zenon
<1>5. Less /\ \A x \in Users : x # u => version'[x] = version[x]
  BY <1>1, <1>2, StatementDoes, Zenon
<1>6. Turns(h, r) /\ r.user = u
  BY <1>2, <1>3, Zenon DEF Moves
<1>7. req'[h] = r /\ \A g \in Handlers : g # h => req'[g] = req[g]
  BY <1>6, Turned, Zenon DEF Types
<1>8. ASSUME NEW s \in SessionIds, NEW x \in Users, x = sessions'[s].user, sessions'[s].version # version'[x],
             ~sessions'[s].late
      PROVE  x \in broken' \/ \E g \in Handlers : req'[g].at \in {"use", "sessions"} /\ req'[g].user = x
  <2>1. x # None
    BY SessionConstants, Zenon
  <2>2. sessions'[s] = sessions[s]
    BY <1>5, <1>8, <2>1, NoRows, Zenon DEF Less
  <2>3. ASSUME version'[x] = version[x]
        PROVE  x \in broken \/ \E g \in Handlers : req[g].at \in {"use", "sessions"} /\ req[g].user = x
    BY <1>8, <2>1, <2>2, <2>3, Zenon DEF OldSessionsEnd
  <2>4. CASE x # u
    <3>1. x \in broken \/ \E g \in Handlers : req[g].at \in {"use", "sessions"} /\ req[g].user = x
      BY <1>5, <2>3, <2>4, Zenon
    <3> QED BY <1>2, <1>4, <1>7, <2>4, <3>1, Zenon
  <2>5. CASE x = u /\ req[h].at = "resets" /\ version' = version /\ broken' = broken
    <3>1. x \in broken \/ \E g \in Handlers : req[g].at \in {"use", "sessions"} /\ req[g].user = x
      BY <2>3, <2>5, Zenon
    <3>2. "resets" \notin {"use", "sessions"}
      OBVIOUS
    <3> QED BY <1>7, <2>5, <3>1, <3>2, Zenon
  <2>6. CASE x = u /\ r.at \in {"use", "sessions"}
    BY <1>6, <1>7, <2>6, Zenon
  <2> QED BY <1>3, <1>8, <2>4, <2>5, <2>6, Zenon
<1>9. ASSUME NEW s \in SessionIds, sessions'[s].user # None PROVE sessions'[s].user \in Users
  BY <1>5, <1>9, Zenon DEF Less, SessionRows
<1> QED BY <1>8, <1>9, Zenon DEF OldSessionsEnd

LEMMA StepOld == Types /\ OldSessionsEnd /\ [Next]_vars => OldSessionsEnd'
<1>1. SUFFICES ASSUME Types, OldSessionsEnd, [Next]_vars PROVE OldSessionsEnd'
  OBVIOUS
<1>2. CASE Outside
  <2>1. Alike /\ UNCHANGED <<req, version, broken>>
    BY <1>1, <1>2, OutsideStep, Zenon
  <2>2. ASSUME NEW s \in SessionIds, NEW u, u = sessions'[s].user, u # None,
               sessions'[s].version # version'[u], ~sessions'[s].late
        PROVE  u \in broken \/ \E h \in Handlers : req[h].at \in {"use", "sessions"} /\ req[h].user = u
    <3>1. u = sessions[s].user /\ sessions[s].version # version[u] /\ ~sessions[s].late
      BY <2>1, <2>2, Zenon DEF Alike
    <3> QED BY <1>1, <2>2, <3>1, Zenon DEF OldSessionsEnd
  <2> QED BY <2>1, <2>2, Zenon DEF OldSessionsEnd
<1>3. ASSUME NEW h \in Handlers, NEW c \in Clients, Request(h, c) PROVE OldSessionsEnd'
  <2>1. PICK r : Started(h, c, r)
    BY <1>1, <1>3, RequestStarts, Zenon
  <2>2. Less /\ UNCHANGED <<version, broken>>
    BY <1>1, <1>3, RequestStarts, Zenon
  <2>3. Turns(h, r) /\ req[h].at \notin {"use", "sessions"}
    BY <2>1, Zenon DEF Started
  <2> QED BY <1>1, <2>2, <2>3, LessGood, TurnOld, Zenon
<1>4. ASSUME NEW h \in Handlers, LoginOpen(h) PROVE OldSessionsEnd'
  <2>1. PICK r : Moves(h, r)
    BY <1>1, <1>4, OpenStep, Zenon
  <2>2. Opens(tokens', req[h].user) /\ req[h].at = "open" /\ UNCHANGED <<version, broken>>
    BY <1>1, <1>4, OpenStep, Zenon
  <2>3. PICK t \in SessionIds : Opens(t, req[h].user)
    BY <2>2, Zenon DEF Opens
  <2>4. PICK row : /\ sessions' = [sessions EXCEPT ![t] = row]
                   /\ row.user = req[h].user /\ (row.version = version[req[h].user] \/ row.late)
    BY <2>3, Zenon DEF Opens
  <2>5. Good(row)
    BY <2>4, Zenon DEF Good
  <2>6. \A s \in SessionIds : sessions'[s] = row \/ sessions'[s] = sessions[s]
    BY <1>1, <2>4, Zenon DEF Types
  <2>7. Turns(h, r) /\ req[h].at \notin {"use", "sessions"}
    BY <2>1, <2>2, Zenon DEF Moves
  <2> QED BY <1>1, <2>2, <2>5, <2>6, <2>7, TurnOld, Zenon
<1>5. ASSUME NEW h \in Handlers, RefreshRotate(h) \/ RefreshFails(h) PROVE OldSessionsEnd'
  <2>1. req[h].at = "rotate" /\ UNCHANGED <<version, broken>>
    BY <1>1, <1>5, RotateStep, Zenon
  <2>2. PICK r : Moves(h, r) /\ (Swaps(req[h].id, tokens') \/ sessions' = sessions)
    BY <1>1, <1>5, RotateStep, Zenon
  <2>3. PICK i \in SessionIds : i = req[h].id
    BY <1>1, <2>1, Zenon DEF Types, Proper
  <2>4. ASSUME NEW s \in SessionIds
        PROVE  /\ sessions'[s].user = sessions[s].user /\ sessions'[s].version = sessions[s].version
               /\ sessions'[s].late <=> sessions[s].late
    <3>1. CASE sessions' = sessions
      BY <3>1, Zenon
    <3>2. CASE Swaps(i, tokens')
      <4>1. PICK row \in SessionRows :
                     /\ sessions' = [sessions EXCEPT ![i] = row]
                     /\ row.user = sessions[i].user
                     /\ row.version = sessions[i].version /\ (row.late <=> sessions[i].late)
        BY <3>2, Zenon DEF Swaps
      <4>2. sessions'[i] = row /\ (s # i => sessions'[s] = sessions[s])
        BY <1>1, <4>1, Zenon DEF Types
      <4> QED BY <4>1, <4>2, Zenon
    <3> QED BY <2>2, <2>3, <3>1, <3>2, Zenon
  <2>5. \A s \in SessionIds : sessions'[s].user = sessions[s].user /\ (Good(sessions[s]) => Good(sessions'[s]))
    BY <2>4, Zenon DEF Good
  <2>6. Turns(h, r) /\ req[h].at \notin {"use", "sessions"}
    BY <2>1, <2>2, Zenon DEF Moves
  <2> QED BY <1>1, <2>1, <2>5, <2>6, TurnOld, Zenon
<1>6. ASSUME NEW h \in Handlers, LoginFails(h) \/ RefreshDrop(h) PROVE OldSessionsEnd'
  <2>1. PICK r : Moves(h, r)
    BY <1>1, <1>6, DropStep, Zenon
  <2>2. Less /\ req[h].at \in {"open", "drop"} /\ UNCHANGED <<version, broken>>
    BY <1>1, <1>6, DropStep, Zenon
  <2>3. Turns(h, r) /\ req[h].at \notin {"use", "sessions"}
    BY <2>1, <2>2, Zenon DEF Moves
  <2> QED BY <1>1, <2>2, <2>3, LessGood, TurnOld, Zenon
<1>7. ASSUME NEW h \in Handlers, ResetStep(h) \/ ResetFails(h) PROVE OldSessionsEnd'
  BY <1>1, <1>7, ResetOld, Zenon
<1>8. ASSUME NEW h \in Handlers, Answer(h) PROVE OldSessionsEnd'
  <2>1. Turns(h, NoReq) /\ req[h].at \in {"answer", "clear", "error"} /\ UNCHANGED <<sessions, version, broken>>
    BY <1>1, <1>8, AnswerStep, Zenon
  <2>2. req[h].at \notin {"use", "sessions"}
    BY <2>1, Zenon
  <2> QED BY <1>1, <2>1, <2>2, TurnOld, Zenon
<1> QED BY <1>1, <1>2, <1>3, <1>4, <1>5, <1>6, <1>7, <1>8, StepCases, Zenon

(* Service.Reset (service.go:357-371): a session opened with an older        *)
(* password is left only by a login that overtook the reset, or while a      *)
(* reset is in progress or after one that ended in an error, for any number  *)
(* of users, logins and concurrent resets.                                   *)
THEOREM OldPasswordsEnd == Spec => []OldSessionsEnd
<1>1. Init => Types /\ OldSessionsEnd
  <2>1. Init => OldSessionsEnd
    BY NoRows, Zenon DEF Init, OldSessionsEnd
  <2> QED BY <2>1, InitTypes, Zenon
<1>2. Types /\ OldSessionsEnd /\ [Next]_vars => Types' /\ OldSessionsEnd'
  BY StepTypes, StepOld, Zenon
<1> QED BY <1>1, <1>2, PTL DEF Spec

----------------------------------------------------------------------------
\* Rotation.

Drawn == 1..tokens

\* Every token in use was drawn, and so was every session.
Fresh ==
    /\ \A c \in Clients : cookie[c] \in Drawn \union {0}
    /\ \A h \in Handlers :
           /\ req[h].token \in Drawn \union {0}
           /\ req[h].at = "rotate" => req[h].id \in Drawn /\ req[h].client \in Clients
    /\ \A s \in SessionIds : sessions[s].user # None => s \in Drawn /\ sessions[s].token \in Drawn
    /\ rotated \subseteq Drawn

\* Browser c has token t; a request of browser c is about to rotate session s.
Holds(c, t) == t # 0 /\ (cookie[c] = t \/ \E h \in Handlers : req[h].client = c /\ req[h].token = t)
Reaches(c, s) == \E h \in Handlers : req[h].at = "rotate" /\ req[h].id = s /\ req[h].client = c

\* No two browsers share a token or a session.
Apart ==
    \A c, d \in Clients :
        /\ \A t : Holds(c, t) /\ Holds(d, t) => c = d
        /\ \A s \in SessionIds : Reaches(c, s) /\ Reaches(d, s) => c = d
        /\ \A s \in SessionIds : Reaches(c, s) /\ sessions[s].user # None /\ Holds(d, sessions[s].token) => c = d

OneRequest(c) == \A g, h \in Handlers : req[g].client = c /\ req[h].client = c => g = h
CookieGood(c) == (\A h \in Handlers : req[h].client = c => req[h].at # "answer") => cookie[c] \notin rotated
AnswerGood(c) == \A h \in Handlers : req[h].client = c /\ req[h].at = "answer" => req[h].token \notin rotated

\* A browser that sends one request at a time and misses no answer has a token
\* that is not replaced, or is about to get one.
Current == \A c \in Clients : c \notin upset => OneRequest(c) /\ CookieGood(c) /\ AnswerGood(c)

LEMMA DrawnGrows ==
    ASSUME Types, [Next]_vars
    PROVE  Drawn \subseteq Drawn'
<1>1. tokens' = tokens \/ newRefreshToken
  BY ZenonT(40) DEF Next, Step, Request, LoginCheck, LoginOpen, LoginFails, RefreshRead, RefreshRotate, RefreshFails,
        RefreshDrop, Logout, ResetRead, ResetStep, ResetFails, Answer, Register, Forgot, SessionExpires,
        ResetExpires, vars
<1> QED BY <1>1, Draw, Zenon DEF Types, Drawn

LEMMA NewToken ==
    ASSUME Types, newRefreshToken
    PROVE  /\ tokens' \notin Drawn /\ tokens' # 0 /\ 0 \notin Drawn /\ tokens' \in SessionIds
           /\ Drawn' = Drawn \union {tokens'}
<1>1. 0 \notin Drawn
  BY DEF Drawn, Types
<1> QED BY <1>1, Draw, Zenon DEF Types, Drawn

LEMMA TurnFresh ==
    ASSUME Types, Fresh, NEW h \in Handlers, NEW r, Turns(h, r), Drawn \subseteq Drawn',
           r.token \in Drawn' \union {0}, r.at = "rotate" => r.id \in Drawn' /\ r.client \in Clients,
           \A c \in Clients : cookie'[c] \in Drawn' \union {0},
           \A s \in SessionIds : sessions'[s].user # None => s \in Drawn' /\ sessions'[s].token \in Drawn',
           rotated' \subseteq Drawn'
    PROVE  Fresh'
<1>1. req'[h] = r /\ \A g \in Handlers : g # h => req'[g] = req[g]
  BY Turned, Zenon DEF Types
<1>2. ASSUME NEW g \in Handlers
      PROVE  /\ req'[g].token \in Drawn' \union {0}
             /\ req'[g].at = "rotate" => req'[g].id \in Drawn' /\ req'[g].client \in Clients
  BY <1>1, Zenon DEF Fresh
<1> QED BY <1>2, Zenon DEF Fresh

LEMMA LessFresh ==
    ASSUME Fresh, Less, Drawn \subseteq Drawn', NEW s \in SessionIds, sessions'[s].user # None
    PROVE  s \in Drawn' /\ sessions'[s].token \in Drawn'
  BY NoRows, Zenon DEF Fresh, Less

LEMMA StepFresh == Types /\ Fresh /\ [Next]_vars => Fresh'
<1>1. SUFFICES ASSUME Types, Fresh, [Next]_vars PROVE Fresh'
  OBVIOUS
<1>2. Drawn \subseteq Drawn'
  BY <1>1, DrawnGrows, Zenon
<1>3. /\ \A c \in Clients : cookie[c] \in Drawn' \union {0}
      /\ rotated \subseteq Drawn'
      /\ \A h \in Handlers : req[h].token \in Drawn' \union {0}
      /\ \A s \in SessionIds : sessions[s].user # None => s \in Drawn' /\ sessions[s].token \in Drawn'
  BY <1>1, <1>2, Zenon DEF Fresh
<1>4. CASE Outside
  <2>1. Alike /\ UNCHANGED <<cookie, req, rotated>>
    BY <1>1, <1>4, OutsideStep, Zenon
  <2> QED BY <1>1, <1>2, <1>3, <2>1, Zenon DEF Fresh, Alike
<1>5. ASSUME NEW h \in Handlers, NEW c \in Clients, Request(h, c) PROVE Fresh'
  <2>1. PICK r : Started(h, c, r)
    BY <1>1, <1>5, RequestStarts, Zenon
  <2>2. Less /\ UNCHANGED <<cookie, rotated>>
    BY <1>1, <1>5, RequestStarts, Zenon
  <2>3. Turns(h, r) /\ r.client = c /\ r.token \in Drawn' \union {0}
    BY <1>3, <2>1, Zenon DEF Started, Fit
  <2>4. r.at = "rotate" => r.id \in Drawn'
    BY <1>3, <2>1, Zenon DEF Started, Fit
  <2> QED BY <1>1, <1>2, <1>3, <2>2, <2>3, <2>4, LessFresh, TurnFresh, Zenon
<1>6. ASSUME NEW h \in Handlers, LoginOpen(h) PROVE Fresh'
  <2>1. newRefreshToken /\ Opens(tokens', req[h].user) /\ UNCHANGED <<cookie, rotated>>
    BY <1>1, <1>6, OpenStep, Zenon
  <2>2. PICK r : Moves(h, r) /\ r.at # "rotate" /\ (r.token = tokens' \/ r.token = req[h].token)
    BY <1>1, <1>6, OpenStep, Zenon
  <2>3. tokens' \in Drawn'
    BY <1>1, <2>1, NewToken, Zenon
  <2>4. r.token \in Drawn' \union {0}
    BY <1>3, <2>2, <2>3, Zenon
  <2>5. ASSUME NEW s \in SessionIds, sessions'[s].user # None PROVE s \in Drawn' /\ sessions'[s].token \in Drawn'
    <3>1. PICK t \in SessionIds : t = tokens' /\ Opens(t, req[h].user)
      BY <2>1, Zenon DEF Opens
    <3>2. PICK row : sessions' = [sessions EXCEPT ![t] = row] /\ row.token = t
      BY <3>1, Zenon DEF Opens
    <3>3. sessions'[t] = row /\ (s # t => sessions'[s] = sessions[s])
      BY <1>1, <3>2, Zenon DEF Types
    <3> QED BY <1>3, <2>3, <2>5, <3>1, <3>2, <3>3, Zenon
  <2>6. Turns(h, r)
    BY <2>2, Zenon DEF Moves
  <2> QED BY <1>1, <1>2, <1>3, <2>1, <2>2, <2>4, <2>5, <2>6, TurnFresh, Zenon
<1>7. ASSUME NEW h \in Handlers, RefreshRotate(h) \/ RefreshFails(h) PROVE Fresh'
  <2>1. req[h].at = "rotate" /\ UNCHANGED cookie
    BY <1>1, <1>7, RotateStep, Zenon
  <2>2. PICK r : /\ Moves(h, r) /\ r.at # "rotate"
                 /\ \/ newRefreshToken /\ Swaps(req[h].id, tokens') /\ (r.token = tokens' \/ r.token = req[h].token)
                    \/ sessions' = sessions /\ rotated' = rotated /\ r.token = req[h].token
    BY <1>1, <1>7, RotateStep, Zenon
  <2>3. Turns(h, r)
    BY <2>2, Zenon DEF Moves
  <2>4. CASE sessions' = sessions /\ rotated' = rotated /\ r.token = req[h].token
    BY <1>1, <1>2, <1>3, <2>1, <2>2, <2>3, <2>4, TurnFresh, Zenon
  <2>5. CASE newRefreshToken /\ Swaps(req[h].id, tokens') /\ (r.token = tokens' \/ r.token = req[h].token)
    <3>1. tokens' \in Drawn'
      BY <1>1, <2>5, NewToken, Zenon
    <3>2. r.token \in Drawn' \union {0}
      BY <1>3, <2>5, <3>1, Zenon
    <3>3. PICK i \in SessionIds : i = req[h].id /\ i \in Drawn /\ Swaps(i, tokens')
      BY <1>1, <2>1, <2>5, Zenon DEF Types, Proper, Fresh
    <3>4. rotated' \subseteq Drawn'
      BY <1>3, <3>3, Zenon DEF Swaps
    <3>5. ASSUME NEW s \in SessionIds, sessions'[s].user # None PROVE s \in Drawn' /\ sessions'[s].token \in Drawn'
      <4>1. PICK row : sessions' = [sessions EXCEPT ![i] = row] /\ row.token = tokens'
        BY <3>3, Zenon DEF Swaps
      <4>2. sessions'[i] = row /\ (s # i => sessions'[s] = sessions[s])
        BY <1>1, <4>1, Zenon DEF Types
      <4> QED BY <1>2, <1>3, <3>1, <3>3, <3>5, <4>1, <4>2, Zenon
    <3> QED BY <1>1, <1>2, <1>3, <2>1, <2>2, <2>3, <3>2, <3>4, <3>5, TurnFresh, Zenon
  <2> QED BY <2>2, <2>4, <2>5, Zenon
<1>8. ASSUME NEW h \in Handlers, LoginFails(h) \/ RefreshDrop(h) PROVE Fresh'
  <2>1. PICK r : Moves(h, r) /\ r.at = "error" /\ r.token = req[h].token
    BY <1>1, <1>8, DropStep, Zenon
  <2>2. Less /\ UNCHANGED <<cookie, rotated>>
    BY <1>1, <1>8, DropStep, Zenon
  <2>3. Turns(h, r) /\ r.at # "rotate"
    BY <2>1, Zenon DEF Moves
  <2> QED BY <1>1, <1>2, <1>3, <2>1, <2>2, <2>3, LessFresh, TurnFresh, Zenon
<1>9. ASSUME NEW h \in Handlers, ResetStep(h) \/ ResetFails(h) PROVE Fresh'
  <2>1. /\ req[h].at \in ResetAts /\ (ResetStatement(h) \/ UNCHANGED <<tables, version, applied>>)
        /\ UNCHANGED <<cookie, rotated>>
    BY <1>1, <1>9, ResetMoves, Zenon
  <2>2. PICK r : /\ Moves(h, r) /\ r.token = req[h].token
                 /\ r.at \in {"use", "sessions", "resets", "clear", "error"}
    BY <1>1, <1>9, ResetMoves, Zenon
  <2>3. Turns(h, r) /\ r.at # "rotate"
    BY <2>2, Zenon DEF Moves
  <2>4. Less
    BY <1>1, <2>1, StatementDoes, Zenon
  <2> QED BY <1>1, <1>2, <1>3, <2>1, <2>2, <2>3, <2>4, LessFresh, TurnFresh, Zenon
<1>10. ASSUME NEW h \in Handlers, Answer(h) PROVE Fresh'
  <2>1. Turns(h, NoReq) /\ UNCHANGED <<sessions, rotated>>
    BY <1>1, <1>10, AnswerStep, Zenon
  <2>2. PICK k : k = req[h].client
    BY Zenon
  <2>3. PICK t \in Drawn' \union {0} : cookie' = cookie \/ cookie' = [cookie EXCEPT ![k] = t]
    BY <1>1, <1>3, <1>10, <2>2, AnswerStep, Zenon
  <2>4. \A c \in Clients : cookie'[c] = cookie[c] \/ cookie'[c] = t
    BY <1>1, <2>3, Zenon DEF Types
  <2>5. \A c \in Clients : cookie'[c] \in Drawn' \union {0}
    BY <1>3, <2>3, <2>4, Zenon
  <2>6. NoReq.at # "rotate" /\ NoReq.token \in Drawn' \union {0}
    BY NoRows, Zenon
  <2> QED BY <1>1, <1>2, <1>3, <2>1, <2>5, <2>6, TurnFresh, Zenon
<1> QED BY <1>1, <1>4, <1>5, <1>6, <1>7, <1>8, <1>9, <1>10, StepCases, Zenon

\* Nobody comes to a token or to a session, save browser e to the new token n.
OnlyNew(e, n) ==
    /\ \A c \in Clients : ~Holds(c, n)
    /\ \A c \in Clients : \A t : Holds(c, t)' => Holds(c, t) \/ (t = n /\ c = e)
    /\ \A c \in Clients : \A s \in SessionIds : Reaches(c, s)' => Reaches(c, s)
    /\ \A s \in SessionIds :
           \/ sessions'[s].user = None
           \/ sessions[s].user # None /\ sessions[s].token # n /\ sessions'[s].token = sessions[s].token
           \/ sessions'[s].token = n /\ \A c \in Clients : Reaches(c, s) => c = e

LEMMA ApartKept ==
    ASSUME Apart, NEW e, NEW n, OnlyNew(e, n)
    PROVE  Apart'
<1> SUFFICES ASSUME NEW c \in Clients, NEW d \in Clients
             PROVE  /\ \A t : Holds(c, t)' /\ Holds(d, t)' => c = d
                    /\ \A s \in SessionIds : Reaches(c, s)' /\ Reaches(d, s)' => c = d
                    /\ \A s \in SessionIds :
                           Reaches(c, s)' /\ sessions'[s].user # None /\ Holds(d, sessions[s].token)' => c = d
  BY Zenon DEF Apart
<1>1. ASSUME NEW t, Holds(c, t)', Holds(d, t)' PROVE c = d
  <2>1. (Holds(c, t) \/ (t = n /\ c = e)) /\ (Holds(d, t) \/ (t = n /\ d = e))
    BY <1>1, Zenon DEF OnlyNew
  <2>2. ~Holds(c, n) /\ ~Holds(d, n)
    BY Zenon DEF OnlyNew
  <2>3. CASE t = n
    BY <2>1, <2>2, <2>3, Zenon
  <2>4. CASE Holds(c, t) /\ Holds(d, t)
    BY <2>4, Zenon DEF Apart
  <2> QED BY <2>1, <2>3, <2>4, Zenon
<1>2. ASSUME NEW s \in SessionIds, Reaches(c, s)', Reaches(d, s)' PROVE c = d
  BY <1>2, Zenon DEF OnlyNew, Apart
<1>3. ASSUME NEW s \in SessionIds, Reaches(c, s)', sessions'[s].user # None, Holds(d, sessions[s].token)' PROVE c = d
  <2>1. PICK t : t = sessions'[s].token
    BY Zenon
  <2>2. Holds(d, t)'
    BY <1>3, <2>1, Zenon DEF Holds
  <2>3. (Holds(d, t) \/ (t = n /\ d = e)) /\ Reaches(c, s) /\ ~Holds(d, n)
    BY <1>3, <2>2, Zenon DEF OnlyNew
  <2>4. CASE sessions[s].user # None /\ t = sessions[s].token /\ t # n
    <3>1. Holds(d, t)
      BY <2>3, <2>4, Zenon
    <3>2. Holds(d, sessions[s].token)
      BY <2>4, <3>1, Zenon
    <3> QED BY <2>3, <2>4, <3>2, Zenon DEF Apart
  <2>5. CASE t = n /\ \A b \in Clients : Reaches(b, s) => b = e
    BY <2>3, <2>5, Zenon
  <2> QED BY <1>3, <2>1, <2>4, <2>5, Zenon DEF OnlyNew
<1> QED BY <1>1, <1>2, <1>3, Zenon

\* What a step of a handler means for who has which token: r takes the place
\* of a request and the cookie of its browser may change.
LEMMA TurnHolds ==
    ASSUME Types, NEW h \in Handlers, NEW r, Turns(h, r), NEW c \in Clients, NEW t, Holds(c, t)'
    PROVE  Holds(c, t) \/ (cookie'[c] = t /\ cookie'[c] # cookie[c]) \/ (r.client = c /\ r.token = t)
<1>1. req'[h] = r /\ \A g \in Handlers : g # h => req'[g] = req[g]
  BY Turned, Zenon DEF Types
<1> QED BY <1>1, Zenon DEF Holds

LEMMA TurnReaches ==
    ASSUME Types, NEW h \in Handlers, NEW r, Turns(h, r), NEW c, NEW s, Reaches(c, s)'
    PROVE  Reaches(c, s) \/ (r.at = "rotate" /\ r.id = s /\ r.client = c)
<1>1. req'[h] = r /\ \A g \in Handlers : g # h => req'[g] = req[g]
  BY Turned, Zenon DEF Types
<1> QED BY <1>1, Zenon DEF Reaches

LEMMA Unheld ==
    ASSUME Fresh, NEW n, n \notin Drawn, NEW c \in Clients
    PROVE  ~Holds(c, n)
<1>1. SUFFICES ASSUME n # 0, cookie[c] = n \/ \E h \in Handlers : req[h].client = c /\ req[h].token = n PROVE FALSE
  BY Zenon DEF Holds
<1>2. CASE cookie[c] = n
  BY <1>1, <1>2, Zenon DEF Fresh
<1>3. ASSUME NEW h \in Handlers, req[h].token = n PROVE FALSE
  BY <1>1, <1>3, Zenon DEF Fresh
<1> QED BY <1>1, <1>2, <1>3, Zenon

\* Steps that draw no token and let no request near a session.
LEMMA ApartTurn ==
    ASSUME Types, Fresh, Apart, NEW h \in Handlers, NEW r, Turns(h, r), r.at # "rotate",
           (r.client = req[h].client /\ r.token = req[h].token) \/ r.token = 0,
           \A c \in Clients : cookie'[c] \in {cookie[c], 0} \/ (c = req[h].client /\ cookie'[c] = req[h].token),
           Less
    PROVE  Apart'
<1>1. ASSUME NEW c \in Clients, NEW t, Holds(c, t)' PROVE Holds(c, t)
  <2>1. t # 0
    BY <1>1, Zenon DEF Holds
  <2>2. (cookie'[c] = t /\ cookie'[c] # cookie[c]) \/ (r.client = c /\ r.token = t)
            => req[h].client = c /\ req[h].token = t
    BY <2>1, Zenon
  <2>3. req[h].client = c /\ req[h].token = t => Holds(c, t)
    BY <2>1, Zenon DEF Holds
  <2> QED BY <1>1, <2>2, <2>3, TurnHolds, Zenon
<1>2. ASSUME NEW c \in Clients, NEW s, Reaches(c, s)' PROVE Reaches(c, s)
  BY <1>2, TurnReaches, Zenon
<1>3. 0 \notin Drawn /\ \A c \in Clients : ~Holds(c, 0)
  <2>1. 0 \notin Drawn
    BY DEF Drawn, Types
  <2> QED BY <2>1, Unheld, Zenon
<1>4. \A s \in SessionIds : \/ sessions'[s].user = None
                            \/ sessions[s].user # None /\ sessions[s].token # 0 /\ sessions'[s].token = sessions[s].token
  BY <1>3, NoRows, Zenon DEF Less, Fresh
<1>5. OnlyNew(None, 0)
  BY <1>1, <1>2, <1>3, <1>4, Zenon DEF OnlyNew
<1> QED BY <1>5, ApartKept, Zenon

\* A request that begins has the token of its browser's cookie.
LEMMA ApartStart ==
    ASSUME Types, Fresh, Apart, NEW h \in Handlers, NEW b \in Clients, NEW r, Started(h, b, r), cookie' = cookie, Less
    PROVE  Apart'
<1>1. Turns(h, r) /\ r.client = b /\ r.token \in {0, cookie[b]}
  BY Zenon DEF Started, Fit
<1>2. 0 \notin Drawn
  BY DEF Drawn, Types
<1>3. ASSUME NEW c \in Clients, NEW t, Holds(c, t)' PROVE Holds(c, t)
  <2>1. t # 0
    BY <1>3, Zenon DEF Holds
  <2>2. (cookie'[c] = t /\ cookie'[c] # cookie[c]) \/ (r.client = c /\ r.token = t) => cookie[c] = t
    BY <1>1, <2>1, Zenon
  <2>3. cookie[c] = t => Holds(c, t)
    BY <2>1, Zenon DEF Holds
  <2> QED BY <1>1, <1>3, <2>2, <2>3, TurnHolds, Zenon
<1>4. ASSUME NEW c \in Clients, NEW s \in SessionIds, Reaches(c, s)', sessions[s].user # None
      PROVE  Reaches(c, s) \/ (c = b /\ Holds(b, sessions[s].token))
  <2>1. CASE r.at = "rotate" /\ r.id = s /\ r.client = c
    <3>1. sessions[s].user # None /\ sessions[s].token = cookie[b]
      BY <2>1, Zenon DEF Started, Fit
    <3>2. sessions[s].token # 0
      BY <1>2, <3>1, Zenon DEF Fresh
    <3> QED BY <1>1, <2>1, <3>1, <3>2, Zenon DEF Holds
  <2> QED BY <1>1, <1>4, <2>1, TurnReaches, Zenon
<1>5. ASSUME NEW c \in Clients, NEW s \in SessionIds, Reaches(c, s)', sessions[s].user = None PROVE Reaches(c, s)
  <2>1. ~(r.at = "rotate" /\ r.id = s)
    BY <1>5, Zenon DEF Started, Fit
  <2> QED BY <1>1, <1>5, <2>1, TurnReaches, Zenon
<1>6. ASSUME NEW c \in Clients, NEW d \in Clients, NEW s \in SessionIds, Reaches(c, s)', Reaches(d, s)' PROVE c = d
  <2>1. CASE sessions[s].user = None
    BY <1>5, <1>6, <2>1, Zenon DEF Apart
  <2>2. CASE sessions[s].user # None
    <3>1. /\ Reaches(c, s) \/ (c = b /\ Holds(b, sessions[s].token))
          /\ Reaches(d, s) \/ (d = b /\ Holds(b, sessions[s].token))
      BY <1>4, <1>6, <2>2, Zenon
    <3> QED BY <2>2, <3>1, Zenon DEF Apart
  <2> QED BY <2>1, <2>2, Zenon
<1>7. ASSUME NEW c \in Clients, NEW d \in Clients, NEW s \in SessionIds, Reaches(c, s)', sessions'[s].user # None,
             Holds(d, sessions[s].token)'
      PROVE  c = d
  <2>1. sessions'[s] = sessions[s] /\ sessions[s].user # None
    BY <1>7, NoRows, Zenon DEF Less
  <2>2. PICK t : t = sessions'[s].token /\ t = sessions[s].token
    BY <2>1, Zenon
  <2>3. Holds(d, t)'
    BY <1>7, <2>2, Zenon DEF Holds
  <2>4. Holds(d, t) /\ (Reaches(c, s) \/ (c = b /\ Holds(b, t)))
    BY <1>3, <1>4, <1>7, <2>1, <2>2, <2>3, Zenon
  <2>5. CASE Reaches(c, s)
    <3>1. Holds(d, sessions[s].token)
      BY <2>2, <2>4, Zenon
    <3> QED BY <2>1, <2>5, <3>1, Zenon DEF Apart
  <2>6. CASE c = b /\ Holds(b, t)
    BY <2>4, <2>6, Zenon DEF Apart
  <2> QED BY <2>4, <2>5, <2>6, Zenon
<1>8. \A c, d \in Clients : \A t : Holds(c, t)' /\ Holds(d, t)' => c = d
  BY <1>3, Zenon DEF Apart
<1> QED BY <1>6, <1>7, <1>8, Zenon DEF Apart

LEMMA DrawnHolds ==
    ASSUME Types, Fresh, NEW h \in Handlers, NEW r, Moves(h, r), cookie' = cookie, NEW n,
           r.token = n \/ r.token = req[h].token, NEW c \in Clients, NEW t, Holds(c, t)'
    PROVE  Holds(c, t) \/ (t = n /\ c = req[h].client)
<1>1. Turns(h, r) /\ r.client = req[h].client
  BY Zenon DEF Moves
<1>2. t # 0
  BY Zenon DEF Holds
<1>3. req[h].client = c /\ req[h].token = t => Holds(c, t)
  BY <1>2, Zenon DEF Holds
<1> QED BY <1>1, <1>3, TurnHolds, Zenon

LEMMA DrawnReaches ==
    ASSUME Types, NEW h \in Handlers, NEW r, Moves(h, r), r.at # "rotate", NEW c, NEW s, Reaches(c, s)'
    PROVE  Reaches(c, s)
<1>1. Turns(h, r)
  BY Zenon DEF Moves
<1> QED BY <1>1, TurnReaches, Zenon

LEMMA ApartOpen ==
    ASSUME Types, Fresh, Apart, NEW h \in Handlers, LoginOpen(h)
    PROVE  Apart'
<1>1. newRefreshToken /\ Opens(tokens', req[h].user) /\ cookie' = cookie
  BY OpenStep, Zenon
<1>2. PICK n \in SessionIds : n = tokens' /\ n \notin Drawn /\ Opens(n, req[h].user)
  BY <1>1, NewToken, Zenon
<1>3. PICK r : Moves(h, r) /\ r.at # "rotate" /\ (r.token = n \/ r.token = req[h].token)
  BY <1>2, OpenStep, Zenon
<1>4. PICK row : sessions' = [sessions EXCEPT ![n] = row] /\ row.token = n
  BY <1>2, Zenon DEF Opens
<1>5. ASSUME NEW c \in Clients PROVE ~Reaches(c, n)
  BY <1>2, Zenon DEF Reaches, Fresh
<1>6. ASSUME NEW s \in SessionIds, sessions'[s].user # None
      PROVE  \/ sessions[s].user # None /\ sessions[s].token # n /\ sessions'[s].token = sessions[s].token
             \/ sessions'[s].token = n /\ \A c \in Clients : Reaches(c, s) => c = req[h].client
  <2>1. CASE s = n
    <3>1. sessions'[s] = row
      BY <1>4, <2>1, Zenon DEF Types
    <3> QED BY <1>4, <1>5, <2>1, <3>1, Zenon
  <2>2. CASE s # n
    <3>1. sessions'[s] = sessions[s]
      BY <1>4, <2>2, Zenon DEF Types
    <3> QED BY <1>2, <1>6, <3>1, Zenon DEF Fresh
  <2> QED BY <2>1, <2>2, Zenon
<1>7. PICK e : e = req[h].client
  BY Zenon
<1>8. /\ \A c \in Clients : ~Holds(c, n)
      /\ \A c \in Clients : \A t : Holds(c, t)' => Holds(c, t) \/ (t = n /\ c = e)
      /\ \A c \in Clients : \A s \in SessionIds : Reaches(c, s)' => Reaches(c, s)
  BY <1>1, <1>2, <1>3, <1>7, Unheld, DrawnHolds, DrawnReaches, ZenonT(40)
<1>9. OnlyNew(e, n)
  BY <1>6, <1>7, <1>8, Zenon DEF OnlyNew
<1> QED BY <1>9, ApartKept, Zenon

LEMMA ApartRotate ==
    ASSUME Types, Fresh, Apart, NEW h \in Handlers, RefreshRotate(h) \/ RefreshFails(h)
    PROVE  Apart'
<1>1. req[h].at = "rotate" /\ cookie' = cookie
  BY RotateStep, Zenon
<1>2. PICK r : /\ Moves(h, r) /\ r.at # "rotate"
               /\ \/ newRefreshToken /\ Swaps(req[h].id, tokens') /\ (r.token = tokens' \/ r.token = req[h].token)
                  \/ sessions' = sessions /\ r.token = req[h].token
  BY RotateStep, Zenon
<1>3. CASE sessions' = sessions /\ r.token = req[h].token
  <2>1. Turns(h, r) /\ r.client = req[h].client
    BY <1>2, Zenon DEF Moves
  <2>2. Less
    BY <1>3, Zenon DEF Types, Less
  <2> QED BY <1>1, <1>2, <1>3, <2>1, <2>2, ApartTurn, Zenon
<1>4. CASE newRefreshToken /\ Swaps(req[h].id, tokens') /\ (r.token = tokens' \/ r.token = req[h].token)
  <2>1. PICK n \in SessionIds : n = tokens' /\ n \notin Drawn
    BY <1>4, NewToken, Zenon
  <2>2. PICK i \in SessionIds : i = req[h].id /\ Swaps(i, n)
    BY <1>1, <1>4, <2>1, Zenon DEF Types, Proper
  <2>3. PICK row : sessions' = [sessions EXCEPT ![i] = row] /\ row.token = n
    BY <2>2, Zenon DEF Swaps
  <2>4. PICK e \in Clients : e = req[h].client
    BY <1>1, Zenon DEF Fresh
  <2>5. \A c \in Clients : Reaches(c, i) => c = e
    <3>1. Reaches(e, i)
      BY <1>1, <2>2, <2>4, Zenon DEF Reaches
    <3> QED BY <2>4, <3>1, Zenon DEF Apart
  <2>6. ASSUME NEW s \in SessionIds, sessions'[s].user # None
        PROVE  \/ sessions[s].user # None /\ sessions[s].token # n /\ sessions'[s].token = sessions[s].token
               \/ sessions'[s].token = n /\ \A c \in Clients : Reaches(c, s) => c = e
    <3>1. CASE s = i
      <4>1. sessions'[s] = row
        BY <2>3, <3>1, Zenon DEF Types
      <4> QED BY <2>3, <2>5, <3>1, <4>1, Zenon
    <3>2. CASE s # i
      <4>1. sessions'[s] = sessions[s]
        BY <2>3, <3>2, Zenon DEF Types
      <4> QED BY <2>1, <2>6, <4>1, Zenon DEF Fresh
    <3> QED BY <3>1, <3>2, Zenon
  <2>7. /\ \A c \in Clients : ~Holds(c, n)
        /\ \A c \in Clients : \A t : Holds(c, t)' => Holds(c, t) \/ (t = n /\ c = e)
        /\ \A c \in Clients : \A s \in SessionIds : Reaches(c, s)' => Reaches(c, s)
    <3>1. Moves(h, r) /\ r.at # "rotate" /\ (r.token = n \/ r.token = req[h].token)
      BY <1>2, <1>4, <2>1, Zenon
    <3>2. ASSUME NEW c \in Clients, NEW t, Holds(c, t)' PROVE Holds(c, t) \/ (t = n /\ c = e)
      <4>1. Holds(c, t) \/ (t = n /\ c = req[h].client)
        BY <1>1, <3>1, <3>2, DrawnHolds, Zenon
      <4> QED BY <2>4, <4>1, Zenon
    <3> QED BY <2>1, <3>1, <3>2, Unheld, DrawnReaches, Zenon
  <2>8. OnlyNew(e, n)
    BY <2>6, <2>7, Zenon DEF OnlyNew
  <2> QED BY <2>8, ApartKept, Zenon
<1> QED BY <1>2, <1>3, <1>4, Zenon

LEMMA StepApart == Types /\ Fresh /\ Apart /\ [Next]_vars => Apart'
<1>1. SUFFICES ASSUME Types, Fresh, Apart, [Next]_vars PROVE Apart'
  OBVIOUS
<1>2. CASE Outside
  <2>1. Alike /\ UNCHANGED <<cookie, req>>
    BY <1>1, <1>2, OutsideStep, Zenon
  <2>2. /\ \A c, t : Holds(c, t)' <=> Holds(c, t)
        /\ \A c, s : Reaches(c, s)' <=> Reaches(c, s)
    BY <2>1, Zenon DEF Holds, Reaches
  <2>3. 0 \notin Drawn
    BY <1>1 DEF Drawn, Types
  <2>4. \A c \in Clients : ~Holds(c, 0)
    BY <1>1, <2>3, Unheld, Zenon
  <2>5. \A s \in SessionIds : \/ sessions'[s].user = None
                              \/ sessions[s].user # None /\ sessions[s].token # 0 /\ sessions'[s].token = sessions[s].token
    BY <1>1, <2>1, <2>3, Zenon DEF Alike, Fresh
  <2>6. OnlyNew(None, 0)
    BY <2>2, <2>4, <2>5, Zenon DEF OnlyNew
  <2> QED BY <1>1, <2>6, ApartKept, Zenon
<1>3. ASSUME NEW h \in Handlers, NEW c \in Clients, Request(h, c) PROVE Apart'
  <2>1. PICK r : Started(h, c, r)
    BY <1>1, <1>3, RequestStarts, Zenon
  <2>2. Less /\ cookie' = cookie
    BY <1>1, <1>3, RequestStarts, Zenon
  <2> QED BY <1>1, <2>1, <2>2, ApartStart, Zenon
<1>4. ASSUME NEW h \in Handlers, LoginFails(h) \/ RefreshDrop(h) PROVE Apart'
  <2>1. PICK r : Moves(h, r) /\ r.at = "error" /\ r.token = req[h].token
    BY <1>1, <1>4, DropStep, Zenon
  <2>2. Less /\ cookie' = cookie
    BY <1>1, <1>4, DropStep, Zenon
  <2>3. Turns(h, r) /\ r.client = req[h].client /\ r.at # "rotate"
    BY <2>1, Zenon DEF Moves
  <2> QED BY <1>1, <2>1, <2>2, <2>3, ApartTurn, Zenon
<1>5. ASSUME NEW h \in Handlers, ResetStep(h) \/ ResetFails(h) PROVE Apart'
  <2>1. /\ req[h].at \in ResetAts /\ (ResetStatement(h) \/ UNCHANGED <<tables, version, applied>>)
        /\ cookie' = cookie
    BY <1>1, <1>5, ResetMoves, Zenon
  <2>2. PICK r : /\ Moves(h, r) /\ r.token = req[h].token
                 /\ r.at \in {"use", "sessions", "resets", "clear", "error"}
    BY <1>1, <1>5, ResetMoves, Zenon
  <2>3. Turns(h, r) /\ r.client = req[h].client /\ r.at # "rotate"
    BY <2>2, Zenon DEF Moves
  <2>4. Less
    BY <1>1, <2>1, StatementDoes, Zenon
  <2> QED BY <1>1, <2>1, <2>2, <2>3, <2>4, ApartTurn, Zenon
<1>6. ASSUME NEW h \in Handlers, Answer(h) PROVE Apart'
  <2>1. Turns(h, NoReq) /\ sessions' = sessions
    BY <1>1, <1>6, AnswerStep, Zenon
  <2>2. PICK k : k = req[h].client
    BY Zenon
  <2>3. PICK t \in {req[h].token, 0} : cookie' = cookie \/ cookie' = [cookie EXCEPT ![k] = t]
    BY <1>1, <1>6, <2>2, AnswerStep, Zenon
  <2>4. \A c \in Clients : cookie'[c] = cookie[c] \/ (c = k /\ cookie'[c] = t)
    BY <1>1, <2>3, Zenon DEF Types
  <2>5. \A c \in Clients : cookie'[c] \in {cookie[c], 0} \/ (c = req[h].client /\ cookie'[c] = req[h].token)
    BY <2>2, <2>3, <2>4, Zenon
  <2>6. NoReq.at # "rotate" /\ NoReq.token = 0
    BY NoRows, Zenon
  <2>7. Less
    BY <1>1, <2>1, Zenon DEF Types, Less
  <2> QED BY <1>1, <2>1, <2>5, <2>6, <2>7, ApartTurn, Zenon
<1> QED BY <1>1, <1>2, <1>3, <1>4, <1>5, <1>6, ApartOpen, ApartRotate, StepCases, Zenon

\* Steps that rotate nothing and answer nobody.
LEMMA CurrentTurn ==
    ASSUME Types, Current, NEW h \in Handlers, NEW r, Moves(h, r), r.at # "answer", req[h].at # "answer",
           cookie' = cookie, rotated' = rotated, upset \subseteq upset'
    PROVE  Current'
<1>1. Turns(h, r) /\ r.client = req[h].client
  BY Zenon DEF Moves
<1>2. req'[h] = r /\ \A g \in Handlers : g # h => req'[g] = req[g]
  BY <1>1, Turned, Zenon DEF Types
<1>3. \A g \in Handlers : req'[g].client = req[g].client
  BY <1>1, <1>2, Zenon
<1>4. ASSUME NEW c \in Clients, c \notin upset' PROVE OneRequest(c)' /\ CookieGood(c)' /\ AnswerGood(c)'
  <2>1. OneRequest(c) /\ CookieGood(c) /\ AnswerGood(c)
    BY <1>4, Zenon DEF Current
  <2>2. OneRequest(c)'
    BY <1>3, <2>1, Zenon DEF OneRequest
  <2>3. CookieGood(c)'
    BY <1>2, <1>3, <2>1, Zenon DEF CookieGood
  <2>4. AnswerGood(c)'
    BY <1>2, <2>1, Zenon DEF AnswerGood
  <2> QED BY <2>2, <2>3, <2>4, Zenon
<1> QED BY <1>4, Zenon DEF Current

LEMMA CurrentStart ==
    ASSUME Types, Current, NEW h \in Handlers, NEW b \in Clients, NEW r, Started(h, b, r),
           cookie' = cookie, rotated' = rotated
    PROVE  Current'
<1>1. Turns(h, r) /\ r.client = b /\ r.at # "answer" /\ req[h].at = "idle"
  BY Zenon DEF Started, Fit
<1>2. req'[h] = r /\ \A g \in Handlers : g # h => req'[g] = req[g]
  BY <1>1, Turned, Zenon DEF Types
<1>3. upset \subseteq upset' /\ (b \notin upset' => \A g \in Handlers : req[g].client # b)
  BY Zenon DEF Started
<1>4. ASSUME NEW c \in Clients, c \notin upset' PROVE OneRequest(c)' /\ CookieGood(c)' /\ AnswerGood(c)'
  <2>1. OneRequest(c) /\ CookieGood(c) /\ AnswerGood(c)
    BY <1>3, <1>4, Zenon DEF Current
  <2>2. OneRequest(c)'
    <3>1. ASSUME NEW f \in Handlers, NEW g \in Handlers, req'[f].client = c, req'[g].client = c PROVE f = g
      <4>1. CASE c = b
        BY <1>2, <1>3, <1>4, <3>1, <4>1, Zenon
      <4>2. CASE c # b
        BY <1>1, <1>2, <2>1, <3>1, <4>2, Zenon DEF OneRequest
      <4> QED BY <4>1, <4>2, Zenon
    <3> QED BY <3>1, Zenon DEF OneRequest
  <2>3. CookieGood(c)'
    <3>1. ASSUME \A g \in Handlers : req'[g].client = c => req'[g].at # "answer"
          PROVE  \A g \in Handlers : req[g].client = c => req[g].at # "answer"
      BY <1>1, <1>2, <3>1, Zenon
    <3> QED BY <2>1, <3>1, Zenon DEF CookieGood
  <2>4. AnswerGood(c)'
    BY <1>1, <1>2, <2>1, Zenon DEF AnswerGood
  <2> QED BY <2>2, <2>3, <2>4, Zenon
<1> QED BY <1>4, Zenon DEF Current

\* A request that gets a new token, or none.
LEMMA CurrentOpen ==
    ASSUME Types, Fresh, Current, NEW h \in Handlers, LoginOpen(h)
    PROVE  Current'
<1>1. newRefreshToken /\ req[h].at = "open" /\ UNCHANGED <<cookie, rotated, upset>>
  BY OpenStep, Zenon
<1>2. PICK n : n = tokens' /\ n \notin Drawn
  BY <1>1, NewToken, Zenon
<1>3. PICK r : Moves(h, r) /\ (r.at = "answer" => r.token = n)
  BY <1>2, OpenStep, Zenon
<1>4. Turns(h, r) /\ r.client = req[h].client
  BY <1>3, Zenon DEF Moves
<1>5. req'[h] = r /\ \A g \in Handlers : g # h => req'[g] = req[g]
  BY <1>4, Turned, Zenon DEF Types
<1>6. \A g \in Handlers : req'[g].client = req[g].client
  BY <1>4, <1>5, Zenon
<1>7. n \notin rotated
  BY <1>2, Zenon DEF Fresh
<1>8. ASSUME NEW c \in Clients, c \notin upset' PROVE OneRequest(c)' /\ CookieGood(c)' /\ AnswerGood(c)'
  <2>1. OneRequest(c) /\ CookieGood(c) /\ AnswerGood(c)
    BY <1>1, <1>8, Zenon DEF Current
  <2>2. OneRequest(c)'
    BY <1>6, <2>1, Zenon DEF OneRequest
  <2>3. CookieGood(c)'
    <3>1. ASSUME \A g \in Handlers : req'[g].client = c => req'[g].at # "answer"
          PROVE  \A g \in Handlers : req[g].client = c => req[g].at # "answer"
      BY <1>1, <1>5, <1>6, <3>1, Zenon
    <3> QED BY <1>1, <2>1, <3>1, Zenon DEF CookieGood
  <2>4. AnswerGood(c)'
    BY <1>1, <1>3, <1>5, <1>7, <2>1, Zenon DEF AnswerGood
  <2> QED BY <2>2, <2>3, <2>4, Zenon
<1> QED BY <1>8, Zenon DEF Current

LEMMA CurrentRotate ==
    ASSUME Types, Fresh, Apart, Current, NEW h \in Handlers, RefreshRotate(h) \/ RefreshFails(h)
    PROVE  Current'
<1>1. req[h].at = "rotate" /\ cookie' = cookie
  BY RotateStep, Zenon
<1>2. PICK r :
        /\ Moves(h, r)
        /\ \/ /\ newRefreshToken /\ Swaps(req[h].id, tokens')
              /\ \/ r.at = "answer" /\ r.token = tokens' /\ upset' = upset
                 \/ r.at = "drop" /\ upset' = upset \union {req[h].client}
           \/ rotated' = rotated /\ r.at = "drop" /\ upset \subseteq upset'
  BY RotateStep, Zenon
<1>3. CASE rotated' = rotated /\ r.at = "drop" /\ upset \subseteq upset'
  BY <1>1, <1>2, <1>3, CurrentTurn, Zenon
<1>4. CASE /\ newRefreshToken /\ Swaps(req[h].id, tokens')
           /\ \/ r.at = "answer" /\ r.token = tokens' /\ upset' = upset
              \/ r.at = "drop" /\ upset' = upset \union {req[h].client}
  <2>1. Turns(h, r) /\ r.client = req[h].client
    BY <1>2, Zenon DEF Moves
  <2>2. req'[h] = r /\ \A g \in Handlers : g # h => req'[g] = req[g]
    BY <2>1, Turned, Zenon DEF Types
  <2>3. \A g \in Handlers : req'[g].client = req[g].client
    BY <2>1, <2>2, Zenon
  <2>4. PICK i \in SessionIds : i = req[h].id /\ Swaps(i, tokens')
    BY <1>1, <1>4, Zenon DEF Types, Proper
  <2>5. PICK t \in Drawn : t = sessions[i].token /\ rotated' = rotated \union {t} /\ sessions[i].user # None
    BY <2>4, Zenon DEF Swaps, Fresh
  <2>6. PICK b \in Clients : b = req[h].client
    BY <1>1, Zenon DEF Fresh
  <2>7. ASSUME NEW c \in Clients, Holds(c, t) PROVE c = b
    <3>1. Reaches(b, i)
      BY <1>1, <2>4, <2>6, Zenon DEF Reaches
    <3>2. Holds(c, sessions[i].token)
      BY <2>5, <2>7, Zenon
    <3> QED BY <2>5, <2>6, <3>1, <3>2, Zenon DEF Apart
  <2>8. t # 0
    <3>1. 0 \notin Drawn
      BY DEF Drawn, Types
    <3> QED BY <2>5, <3>1, Zenon
  <2>9. upset \subseteq upset' /\ (b \notin upset' => r.at = "answer" /\ r.token = tokens')
    BY <1>4, <2>6, Zenon
  <2>10. tokens' \notin rotated'
    <3>1. PICK n : n = tokens' /\ n \notin Drawn
      BY <1>4, NewToken, Zenon
    <3> QED BY <2>5, <3>1, Zenon DEF Fresh
  <2>11. ASSUME NEW c \in Clients, c \notin upset' PROVE OneRequest(c)' /\ CookieGood(c)' /\ AnswerGood(c)'
    <3>1. OneRequest(c) /\ CookieGood(c) /\ AnswerGood(c)
      BY <2>9, <2>11, Zenon DEF Current
    <3>2. OneRequest(c)'
      BY <2>3, <3>1, Zenon DEF OneRequest
    <3>3. CASE c = b
      <4>1. req'[h].client = c /\ req'[h].at = "answer" /\ req'[h].token = tokens'
        BY <2>1, <2>2, <2>6, <2>9, <2>11, <3>3, Zenon
      <4>2. CookieGood(c)'
        BY <4>1, Zenon DEF CookieGood
      <4>3. \A g \in Handlers : req'[g].client = c => g = h
        BY <3>2, <4>1, Zenon DEF OneRequest
      <4>4. AnswerGood(c)'
        BY <2>10, <4>1, <4>3, Zenon DEF AnswerGood
      <4> QED BY <3>2, <4>2, <4>4, Zenon
    <3>4. CASE c # b
      <4>1. ~Holds(c, t)
        BY <2>7, <3>4, Zenon
      <4>2. cookie[c] # t /\ \A g \in Handlers : req[g].client = c => req[g].token # t
        BY <2>8, <4>1, Zenon DEF Holds
      <4>3. \A g \in Handlers : req'[g].client = c => req'[g] = req[g]
        BY <2>2, <2>3, <2>6, <3>4, Zenon
      <4>4. CookieGood(c)'
        <5>1. ASSUME \A g \in Handlers : req'[g].client = c => req'[g].at # "answer"
              PROVE  \A g \in Handlers : req[g].client = c => req[g].at # "answer"
          BY <2>3, <4>3, <5>1, Zenon
        <5> QED BY <1>1, <2>5, <3>1, <4>2, <5>1, Zenon DEF CookieGood
      <4>5. AnswerGood(c)'
        BY <2>3, <2>5, <3>1, <4>2, <4>3, Zenon DEF AnswerGood
      <4> QED BY <3>2, <4>4, <4>5, Zenon
    <3> QED BY <3>3, <3>4, Zenon
  <2> QED BY <2>11, Zenon DEF Current
<1> QED BY <1>2, <1>3, <1>4, Zenon

LEMMA CurrentAnswer ==
    ASSUME Types, Fresh, Current, NEW h \in Handlers, Answer(h)
    PROVE  Current'
<1>1. Turns(h, NoReq) /\ rotated' = rotated /\ req[h].at \in {"answer", "clear", "error"}
  BY AnswerStep, Zenon
<1>2. req'[h] = NoReq /\ \A g \in Handlers : g # h => req'[g] = req[g]
  BY <1>1, Turned, Zenon DEF Types
<1>3. PICK b : b = req[h].client
  BY Zenon
<1>4. \/ cookie' = cookie /\ upset' = upset \union {b}
      \/ /\ upset' = upset
         /\ \/ req[h].at = "answer" /\ cookie' = [cookie EXCEPT ![b] = req[h].token]
            \/ req[h].at = "clear" /\ cookie' = [cookie EXCEPT ![b] = 0]
            \/ req[h].at = "error" /\ cookie' = cookie
  BY <1>3, AnswerStep, Zenon
<1>5. upset \subseteq upset' /\ \A c \in Clients : c # b => cookie'[c] = cookie[c]
  BY <1>4, Zenon DEF Types
<1>6. \A c \in Clients : NoReq.client # c
  BY NoRows, SessionConstants, Zenon
<1>7. ASSUME NEW c \in Clients, c \notin upset' PROVE OneRequest(c)' /\ CookieGood(c)' /\ AnswerGood(c)'
  <2>1. OneRequest(c) /\ CookieGood(c) /\ AnswerGood(c)
    BY <1>5, <1>7, Zenon DEF Current
  <2>2. \A g \in Handlers : req'[g].client = c => g # h /\ req'[g] = req[g]
    BY <1>2, <1>6, Zenon
  <2>3. OneRequest(c)'
    BY <2>1, <2>2, Zenon DEF OneRequest
  <2>4. AnswerGood(c)'
    BY <1>1, <2>1, <2>2, Zenon DEF AnswerGood
  <2>5. CASE c # b
    <3>1. ASSUME \A g \in Handlers : req'[g].client = c => req'[g].at # "answer"
          PROVE  \A g \in Handlers : req[g].client = c => req[g].at # "answer"
      BY <1>2, <1>3, <2>5, <3>1, Zenon
    <3>2. CookieGood(c)'
      BY <1>1, <1>5, <2>1, <2>5, <3>1, Zenon DEF CookieGood
    <3> QED BY <2>3, <2>4, <3>2, Zenon
  <2>6. CASE c = b
    <3>1. cookie'[c] \notin rotated
      <4>1. CASE req[h].at = "answer"
        <5>1. cookie'[c] = req[h].token
          BY <1>4, <1>7, <2>6, <4>1, Zenon DEF Types
        <5> QED BY <1>3, <2>1, <2>6, <4>1, <5>1, Zenon DEF AnswerGood
      <4>2. CASE req[h].at = "clear"
        <5>1. cookie'[c] = 0
          BY <1>4, <1>7, <2>6, <4>2, Zenon DEF Types
        <5>2. 0 \notin Drawn
          BY DEF Drawn, Types
        <5> QED BY <5>1, <5>2, Zenon DEF Fresh
      <4>3. CASE req[h].at = "error"
        <5>1. cookie'[c] = cookie[c]
          BY <1>4, <1>7, <2>6, <4>3, Zenon
        <5>2. \A g \in Handlers : req[g].client = c => req[g].at # "answer"
          BY <1>3, <2>1, <2>6, <4>3, Zenon DEF OneRequest
        <5> QED BY <2>1, <5>1, <5>2, Zenon DEF CookieGood
      <4> QED BY <1>1, <4>1, <4>2, <4>3, Zenon
    <3>2. CookieGood(c)'
      BY <1>1, <3>1, Zenon DEF CookieGood
    <3> QED BY <2>3, <2>4, <3>2, Zenon
  <2> QED BY <2>5, <2>6, Zenon
<1> QED BY <1>7, Zenon DEF Current

LEMMA StepCurrent == Types /\ Fresh /\ Apart /\ Current /\ [Next]_vars => Current'
<1>1. SUFFICES ASSUME Types, Fresh, Apart, Current, [Next]_vars PROVE Current'
  OBVIOUS
<1>2. CASE Outside
  <2>1. UNCHANGED <<cookie, req, rotated, upset>>
    BY <1>1, <1>2, OutsideStep, Zenon
  <2> QED BY <1>1, <2>1, Zenon DEF Current, OneRequest, CookieGood, AnswerGood
<1>3. ASSUME NEW h \in Handlers, NEW c \in Clients, Request(h, c) PROVE Current'
  <2>1. PICK r : Started(h, c, r)
    BY <1>1, <1>3, RequestStarts, Zenon
  <2>2. UNCHANGED <<cookie, rotated>>
    BY <1>1, <1>3, RequestStarts, Zenon
  <2> QED BY <1>1, <2>1, <2>2, CurrentStart, Zenon
<1>4. ASSUME NEW h \in Handlers, LoginFails(h) \/ RefreshDrop(h) PROVE Current'
  <2>1. PICK r : Moves(h, r) /\ r.at = "error"
    BY <1>1, <1>4, DropStep, Zenon
  <2>2. req[h].at \in {"open", "drop"} /\ UNCHANGED <<cookie, rotated, upset>>
    BY <1>1, <1>4, DropStep, Zenon
  <2>3. req[h].at # "answer" /\ r.at # "answer"
    BY <2>1, <2>2, Zenon
  <2> QED BY <1>1, <2>1, <2>2, <2>3, CurrentTurn, Zenon
<1>5. ASSUME NEW h \in Handlers, ResetStep(h) \/ ResetFails(h) PROVE Current'
  <2>1. req[h].at \in ResetAts /\ UNCHANGED <<cookie, rotated, upset>>
    BY <1>1, <1>5, ResetMoves, Zenon
  <2>2. PICK r : Moves(h, r) /\ r.at \in {"use", "sessions", "resets", "clear", "error"}
    BY <1>1, <1>5, ResetMoves, Zenon
  <2>3. req[h].at # "answer" /\ r.at # "answer"
    BY <2>1, <2>2, Zenon DEF ResetAts
  <2> QED BY <1>1, <2>1, <2>2, <2>3, CurrentTurn, Zenon
<1> QED BY <1>1, <1>2, <1>3, <1>4, <1>5, CurrentOpen, CurrentRotate, CurrentAnswer, StepCases, Zenon

LEMMA InitRotation == Init => Fresh /\ Apart /\ Current
<1> SUFFICES ASSUME Init PROVE Fresh /\ Apart /\ Current
  OBVIOUS
<1>1. Fresh
  BY NoRows, Zenon DEF Init, Fresh
<1>2. \A c \in Clients : \A t : ~Holds(c, t) /\ ~Reaches(c, t)
  BY NoRows, Zenon DEF Init, Holds, Reaches
<1>3. Apart
  BY <1>2, Zenon DEF Apart
<1>4. \A c \in Clients : \A h \in Handlers : req[h].client # c
  BY NoRows, SessionConstants, Zenon DEF Init
<1>5. Current
  <2>1. rotated = {}
    BY Zenon DEF Init
  <2> QED BY <1>4, <2>1, Zenon DEF Current, OneRequest, CookieGood, AnswerGood
<1> QED BY <1>1, <1>3, <1>5, Zenon

(* Service.Refresh and the cookie it sets (service.go:260, handlers.go:115): *)
(* a browser that sends one request at a time, misses no answer and meets no *)
(* failed rotation never holds a token that was replaced, whatever the other *)
(* browsers do, for any number of browsers, users and handlers.              *)
THEOREM CookieStaysCurrent == Spec => []CookieCurrent
<1>1. Init => Types /\ Fresh /\ Apart /\ Current
  BY InitTypes, InitRotation, Zenon
<1>2. Types /\ Fresh /\ Apart /\ Current /\ [Next]_vars => Types' /\ Fresh' /\ Apart' /\ Current'
  BY StepTypes, StepFresh, StepApart, StepCurrent, Zenon
<1>3. Current => CookieCurrent
  BY Zenon DEF Current, CookieGood, CookieCurrent
<1> QED BY <1>1, <1>2, <1>3, PTL DEF Spec

=============================================================================
